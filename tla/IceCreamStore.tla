---------------------------- MODULE IceCreamStore ----------------------------
(* The demo application on top of the framework: flavors and orders behind  *)
(* two mutexes that all worker threads share, the controllers and pages     *)
(* that read and write them, the three channels, the tasks that simulate an *)
(* order's progress, the thread that moves prices and the stream of prices. *)
(* A section under a lock is one step; where the code releases the lock and *)
(* goes on (to broadcast, to run telemetry), the rest is a step of its own, *)
(* and the other threads run in between. Names, descriptions and rendered   *)
(* text are left out. The build is one with overflow checks whose panics    *)
(* unwind, as cargo's dev profile; the release profile of Cargo.toml wraps  *)
(* instead, and a panic there aborts the program.                           *)
EXTENDS Router, Subsequences, Integers, SequencesExt, TLC

CONSTANTS
    Workers,        \* worker threads
    Requests,       \* requests: [method, path, key, body]
    ItemsSent,      \* raw items that channel clients send: [scoops, vessel]
    StatusesSent,   \* statuses that channel clients send
    PricesSent,     \* prices that channel clients send
    ChatsSent,      \* chat messages, as the set of keywords each contains
    InitFlavors,    \* the flavors of StoreData::new: a sequence of Flavor
    OrderIds,       \* ids that a client names in a topic
    Deltas,         \* what a tick may add to a price
    MinPrice,       \* the floor of a tick
    MaxSigned,      \* the largest i64
    MaxCalls,       \* bound: client calls that may change something
    MaxTicks,       \* bound: ticks of the price thread
    MaxSims         \* bound: simulators started

MAX_SCOOPS == 3

RawItems == [scoops : Seq(Nat), vessel : STRING]

(* A price is a u64.                                                        *)
Prices == 0..(2 * MaxSigned + 1)

(* Ids are numbers; the flavors that the store starts with have ids of      *)
(* their own; a body holds what its fields are named for.                   *)
ASSUME StoreAssumption ==
    /\ InitFlavors \in Seq([id : Nat, price : Prices, in_stock : BOOLEAN])
    /\ \A i, j \in DOMAIN InitFlavors : InitFlavors[i].id = InitFlavors[j].id => i = j
    /\ OrderIds \subseteq Nat /\ StatusesSent \subseteq STRING /\ ItemsSent \subseteq RawItems
    /\ MaxSigned \in Nat /\ MinPrice \in 0..MaxSigned
    /\ PricesSent \subseteq Prices /\ Deltas \subseteq Int
    /\ \A req \in Requests :
          /\ "price" \in DOMAIN req.body => req.body.price \in Prices
          /\ "in_stock" \in DOMAIN req.body => req.body.in_stock \in BOOLEAN
          /\ "items" \in DOMAIN req.body => req.body.items \in Seq(RawItems)
          /\ "status" \in DOMAIN req.body => req.body.status \in STRING

VARIABLES
    flavors,        \* StoreData.flavors: a sequence of [id, price, in_stock]
    poisoned,       \* a thread panicked while it held the lock of flavors
    orders,         \* StoreData.orders: a sequence of [id, items, status, via, raced]
    worker,         \* per worker: 0, or the id of the order it has yet to announce
    sims,           \* the simulators, in the order of their start: [id, step, pc]
    ticker,         \* the price thread: [tick, pc, id, price]
    stream,         \* a stream of prices: [pc, queue, seen, moved]
    joined,         \* topics some customer has joined
    announced,      \* per order id, the last status on its topic
    out,            \* the last thing the application sent
    calls           \* such calls so far

vars == <<flavors, poisoned, orders, worker, sims, ticker, stream, joined,
          announced, out, calls>>

Silent == "silent"

Init ==
    /\ flavors = InitFlavors /\ poisoned = FALSE /\ orders = <<>>
    /\ worker = [w \in Workers |-> 0]
    /\ sims = <<>>
    /\ ticker = [tick |-> 0, pc |-> "sleep", id |-> 0, price |-> 0]
    /\ stream = [pc |-> "closed", queue |-> <<>>, seen |-> <<>>, moved |-> {}]
    /\ joined = {}
    /\ announced = [i \in OrderIds |-> Silent]
    /\ out = [kind |-> "none"]
    /\ calls = 0

-----------------------------------------------------------------------------
(* The store's data.                                                        *)

IdsOf(records) == {records[i].id : i \in DOMAIN records}

NextId(records) == Max({0} \cup IdsOf(records)) + 1

(* find(|x| x.id == id): the first index, 0 for None.                       *)
Find(records, id) ==
    LET hits == {i \in DOMAIN records : records[i].id = id}
    IN  IF hits = {} THEN 0 ELSE Min(hits)

Without(records, id) == Kept(records, {i \in DOMAIN records : records[i].id # id})

(* parse(): what is no number is 0, an id nothing has.                      *)
ParseId(name) ==
    CASE name = "1" -> 1 [] name = "2" -> 2 [] name = "3" -> 3 [] OTHER -> 0

InStock(fs) == Kept(fs, {i \in DOMAIN fs : fs[i].in_stock})

(* A vessel that is no cone is a cup; scoops beyond MAX_SCOOPS are dropped. *)
ParseOrderItem(raw) ==
    [scoops |-> SubSeq(raw.scoops, 1, Min({MAX_SCOOPS, Len(raw.scoops)})),
     vessel |-> IF raw.vessel = "cone" THEN "cone" ELSE "cup"]

(* filter_map(parse_order_item): an item without scoops is None.            *)
ParsedItems(raws) ==
    LET scooped == Kept(raws, {i \in DOMAIN raws : raws[i].scoops # <<>>})
    IN  [i \in DOMAIN scooped |-> ParseOrderItem(scooped[i])]

Field(body, name, default) == IF name \in DOMAIN body THEN body[name] ELSE default

-----------------------------------------------------------------------------
(* build_router: the pages, /health, the public API and the orders behind   *)
(* the auth pipeline. Scopes may share a prefix.                            *)

Path(s)     == <<Empty, Static(s)>>
PathId(s)   == <<Empty, Static(s), Param("id")>>
Page(path, handler)   == ScopedRoute(Root, <<"browser">>, "GET", path, NoName, handler)
Public(path, handler) == ScopedRoute(Path("api"), <<"api">>, "GET", path, NoName, handler)

OrderRoutes == Resources(Path("api"), <<"api", "auth">>, Path("orders"))

StoreRoutes ==
    <<Page(Root, "all"), Page(Path("menu"), "all"), Page(Path("order"), "in_stock"),
      Page(PathId("orders"), "fixed"), Page(Path("about"), "fixed"),
      Page(PathId("flavors"), "show"),
      TopLevelRoute("GET", Path("health"), NoName),
      Public(Path("menu"), "in_stock"), Public(Path("hours"), "fixed"),
      Public(Path("about"), "fixed")>>
    \o Resources(Path("api"), <<"api">>, Path("flavors"))
    \o <<Public(Path("toppings"), "fixed"), Public(Path("specials"), "fixed"),
         Public(<<Empty, Static("prices"), Static("stream")>>, "stream")>>
    \o OrderRoutes

Resolved == [req \in Requests |-> RouteAt(StoreRoutes, req.method, req.path)]

RouteIndex(req) == Resolved[req]

(* The auth pipeline halts a request without the key.                       *)
Unauthorized(req) ==
    /\ RouteIndex(req) # 0
    /\ Contains(StoreRoutes[RouteIndex(req)].pipelineNames, "auth")
    /\ ~req.key

OnOrders(req) ==
    LET name == StoreRoutes[RouteIndex(req)].name
    IN  name # NoName /\ name[1] = <<Static("orders")>>

(* The request passes its pipelines and is handled by one of the handlers.  *)
Reaches(req, handlers) ==
    /\ RouteIndex(req) # 0 /\ ~Unauthorized(req)
    /\ StoreRoutes[RouteIndex(req)].handler \in handlers

Handler(req) == StoreRoutes[RouteIndex(req)].handler
IdParam(req) == ParseId(Last(req.path).name)

-----------------------------------------------------------------------------
(* Requests. A call occupies its worker until it has answered.              *)

Call(w)  == worker[w] = 0 /\ calls < MaxCalls /\ calls' = calls + 1
Query(w) == worker[w] = 0 /\ UNCHANGED calls

Answer(code, shown) == out' = [kind |-> "answer", code |-> code, shown |-> shown]

(* No route (the error handler's page), no key, or a page without data.     *)
AnswerFixed(w, req) ==
    /\ Query(w)
    /\ \/ RouteIndex(req) = 0 /\ Answer(404, <<>>)
       \/ Unauthorized(req) /\ Answer(401, <<>>)
       \/ Reaches(req, {"fixed", "plug"}) /\ Answer(200, <<>>)
    /\ UNCHANGED <<flavors, poisoned, orders, worker, sims, ticker, stream, joined, announced>>

FlavorHandlers == {"all", "in_stock", "index", "show", "create", "update", "delete"}

BadJson(req) == Handler(req) \in {"create", "update"} /\ ~req.body.json

(* The pages and FlavorController: what each leaves in the store, its code  *)
(* and the ids it shows.                                                    *)
FlavorEffect(req) ==
    LET id == IdParam(req)
        i  == Find(flavors, id)
        Keep(code, shown) == [flavors |-> flavors, code |-> code, shown |-> shown]
        Ids(fs) == [k \in DOMAIN fs |-> fs[k].id]
        new == [id |-> NextId(flavors), price |-> Field(req.body, "price", 0),
                in_stock |-> Field(req.body, "in_stock", TRUE)]
        changed == [id |-> id, price |-> Field(req.body, "price", flavors[i].price),
                    in_stock |-> Field(req.body, "in_stock", flavors[i].in_stock)]
    IN  CASE Handler(req) \in {"all", "index"} -> Keep(200, Ids(flavors))
          [] Handler(req) = "in_stock" -> Keep(200, Ids(InStock(flavors)))
          [] BadJson(req) -> Keep(400, <<>>)
          [] Handler(req) = "create" /\ ~BadJson(req) ->
               [flavors |-> Append(flavors, new), code |-> 201, shown |-> <<new.id>>]
          [] Handler(req) \in {"show", "update", "delete"} /\ ~BadJson(req) /\ i = 0 ->
               Keep(404, <<>>)
          [] Handler(req) = "show" /\ i # 0 -> Keep(200, <<id>>)
          [] Handler(req) = "update" /\ ~BadJson(req) /\ i # 0 ->
               [flavors |-> [flavors EXCEPT ![i] = changed], code |-> 200, shown |-> <<id>>]
          [] Handler(req) = "delete" /\ i # 0 ->
               [flavors |-> Without(flavors, id), code |-> 200, shown |-> <<>>]

(* The flavors whose stored price is still what the price thread set.       *)
StillMoved(fs) ==
    {id \in stream.moved : Find(fs, id) # 0 /\ Find(flavors, id) # 0
                           /\ fs[Find(fs, id)].price = flavors[Find(flavors, id)].price}

FlavorRequest(w, req) ==
    /\ Call(w)
    /\ Reaches(req, FlavorHandlers) /\ ~OnOrders(req)
    /\ ~poisoned \/ BadJson(req)
    /\ LET effect == FlavorEffect(req)
       IN  /\ flavors' = effect.flavors
           /\ stream' = [stream EXCEPT !.moved = StillMoved(effect.flavors)]
           /\ Answer(effect.code, effect.shown)
    /\ UNCHANGED <<poisoned, orders, worker, sims, ticker, joined, announced>>

(* lock().unwrap() on a poisoned mutex: the handler panics, nobody answers. *)
FlavorRequestPanics(w, req) ==
    /\ Query(w)
    /\ Reaches(req, FlavorHandlers) /\ ~OnOrders(req)
    /\ poisoned /\ ~BadJson(req)
    /\ out' = [kind |-> "panic"]
    /\ UNCHANGED <<flavors, poisoned, orders, worker, sims, ticker, stream, joined, announced>>

-----------------------------------------------------------------------------
(* OrderController. History fields of an order: via, who wrote its status   *)
(* last; touched, whether a client ever did; raced, whether another writer  *)
(* had yet to broadcast its own status when the last one was written.       *)

NewOrder(id, raws) ==
    [id |-> id, items |-> ParsedItems(raws), status |-> "pending",
     via |-> "new", touched |-> FALSE, raced |-> FALSE]

(* A simulator of the order is between its write and its broadcast.         *)
Publishing(id) == \E k \in DOMAIN sims : sims[k].id = id /\ sims[k].pc = "publish"

Written(order, status, via, byClient) ==
    [order EXCEPT !.status = status, !.via = via, !.raced = Publishing(order.id),
                  !.touched = @ \/ byClient]

OrderRequest(w, req) ==
    LET id == IdParam(req)
        i  == Find(orders, id)
        new == NextId(orders)
        Ids(os) == [k \in DOMAIN os |-> os[k].id]
        Stays == UNCHANGED <<orders, worker>>
    IN  /\ Call(w) /\ RouteIndex(req) # 0 /\ OnOrders(req) /\ ~Unauthorized(req)
        /\ \/ Handler(req) = "index" /\ Answer(200, Ids(orders)) /\ Stays
           \/ BadJson(req) /\ Answer(400, <<>>) /\ Stays
           \/ /\ Handler(req) = "create" /\ ~BadJson(req) /\ new \in OrderIds
              /\ orders' = Append(orders, NewOrder(new, Field(req.body, "items", <<>>)))
              /\ worker' = [worker EXCEPT ![w] = new]
              /\ UNCHANGED out
           \/ /\ Handler(req) \in {"show", "update", "delete"} /\ ~BadJson(req) /\ i = 0
              /\ Answer(404, <<>>) /\ Stays
           \/ Handler(req) = "show" /\ i # 0 /\ Answer(200, <<id>>) /\ Stays
           \/ /\ Handler(req) = "update" /\ ~BadJson(req) /\ i # 0
              /\ orders' = IF "status" \in DOMAIN req.body
                           THEN [orders EXCEPT ![i] = Written(@, req.body.status, "rest", TRUE)]
                           ELSE orders
              /\ Answer(200, <<id>>) /\ UNCHANGED worker
           \/ /\ Handler(req) = "delete" /\ i # 0
              /\ orders' = Without(orders, id)
              /\ Answer(200, <<>>) /\ UNCHANGED worker
        /\ UNCHANGED <<flavors, poisoned, sims, ticker, stream, joined, announced>>

(* The rest of create, without the lock: telemetry, the broadcast of        *)
(* order_created on the order's topic, the answer.                          *)
AnnounceOrder(w) ==
    /\ worker[w] # 0
    /\ worker' = [worker EXCEPT ![w] = 0]
    /\ Answer(201, <<worker[w]>>)
    /\ UNCHANGED <<flavors, poisoned, orders, sims, ticker, stream, joined, announced, calls>>

-----------------------------------------------------------------------------
(* OrderChannel. A topic "order:n" is its id n.                             *)

(* Fault: an order is ready before it is prepared.                          *)
StatusesSwapped == <<"ready", "preparing", "delivered">>

Statuses == <<"preparing", "ready", "delivered">>

StatusOf(id) ==
    LET i == Find(orders, id) IN IF i = 0 THEN "not_found" ELSE orders[i].status

(* Joining an order that is pending starts a simulator, whoever else has.   *)
JoinOrder(w, id) ==
    /\ Call(w)
    /\ joined' = joined \cup {<<"order", id>>}
    /\ sims' = IF StatusOf(id) = "pending"
               THEN Append(sims, [id |-> id, step |-> 1, pc |-> "sleep"]) ELSE sims
    /\ Len(sims') <= MaxSims
    /\ out' = [kind |-> "joined", status |-> StatusOf(id)]
    /\ UNCHANGED <<flavors, poisoned, orders, worker, ticker, stream, announced>>

(* The simulator wakes up and writes, if there is such an order; then it    *)
(* broadcasts, whether there was or not.                                    *)
SimWrite(k) ==
    LET sim == sims[k]
        i   == Find(orders, sim.id)
    IN  /\ sim.pc = "sleep"
        /\ orders' = IF i = 0 THEN orders
                     ELSE [orders EXCEPT ![i] = Written(@, Statuses[sim.step], "topic", FALSE)]
        /\ sims' = [sims EXCEPT ![k].pc = "publish"]
        /\ UNCHANGED <<flavors, poisoned, worker, ticker, stream, joined, announced, out, calls>>

StatusChanged(id, status) ==
    /\ announced' = [announced EXCEPT ![id] = status]
    /\ out' = [kind |-> "status_changed", id |-> id, status |-> status]

(* Fault: the broadcast says the status of the next round.                  *)
SimPublishNext(k) ==
    LET sim == sims[k]
    IN  /\ sim.pc = "publish"
        /\ StatusChanged(sim.id, Statuses[Min({sim.step + 1, 3})])
        /\ sims' = [sims EXCEPT ![k] = [sim EXCEPT !.step = Min({@ + 1, 3}),
                                                  !.pc = IF sim.step = 3 THEN "done" ELSE "sleep"]]
        /\ UNCHANGED <<flavors, poisoned, orders, worker, ticker, stream, joined, calls>>

SimPublish(k) ==
    LET sim == sims[k]
    IN  /\ sim.pc = "publish"
        /\ StatusChanged(sim.id, Statuses[sim.step])
        /\ sims' = [sims EXCEPT ![k] = [sim EXCEPT !.step = Min({@ + 1, Len(Statuses)}),
                                                  !.pc = IF sim.step = Len(Statuses)
                                                         THEN "done" ELSE "sleep"]]
        /\ UNCHANGED <<flavors, poisoned, orders, worker, ticker, stream, joined, calls>>

(* update_status broadcasts while it holds the lock, also for no order.     *)
UpdateStatus(w, id, status) ==
    LET i == Find(orders, id)
    IN  /\ Call(w) /\ <<"order", id>> \in joined
        /\ orders' = IF i = 0 THEN orders
                     ELSE [orders EXCEPT ![i] = Written(@, status, "topic", TRUE)]
        /\ StatusChanged(id, status)
        /\ UNCHANGED <<flavors, poisoned, worker, sims, ticker, stream, joined>>

AddItem(w, id, raw) ==
    LET i == Find(orders, id)
    IN  /\ Call(w) /\ <<"order", id>> \in joined
        /\ IF raw.scoops = <<>> \/ i = 0
           THEN out' = [kind |-> "refused"] /\ UNCHANGED orders
           ELSE /\ orders' = [orders EXCEPT ![i].items = Append(@, ParseOrderItem(raw))]
                /\ out' = [kind |-> "item_added", id |-> id]
        /\ UNCHANGED <<flavors, poisoned, worker, sims, ticker, stream, joined, announced>>

-----------------------------------------------------------------------------
(* StoreChannel and SupportChannel; terminate only logs the customer.       *)

Lobby == <<"store", 0>>
Support == <<"support", 0>>

OnTopic(w, topic) ==
    /\ topic \in joined
    /\ UNCHANGED <<orders, worker, sims, ticker, joined, announced>>

(* customer_arrived goes out before the customer is subscribed.             *)
JoinLobby(w) ==
    /\ Call(w)
    /\ joined' = joined \cup {Lobby}
    /\ out' = [kind |-> "customer_arrived"]
    /\ UNCHANGED <<flavors, poisoned, orders, worker, sims, ticker, stream, announced>>

JoinSupport(w) ==
    /\ Call(w)
    /\ joined' = joined \cup {Support}
    /\ out' = [kind |-> "joined", status |-> "welcome"]
    /\ UNCHANGED <<flavors, poisoned, orders, worker, sims, ticker, stream, announced>>

LeaveTopic(w, topic) ==
    /\ worker[w] = 0 /\ topic \in joined
    /\ joined' = joined \ {topic}
    /\ UNCHANGED <<flavors, poisoned, orders, worker, sims, ticker, stream, announced, out, calls>>

Announcement(w) ==
    /\ Query(w) /\ OnTopic(w, Lobby)
    /\ out' = [kind |-> "store_announcement"]
    /\ UNCHANGED <<flavors, poisoned, stream>>

RequestMenu(w) ==
    /\ Query(w) /\ OnTopic(w, Lobby)
    /\ out' = IF poisoned THEN [kind |-> "panic"]
              ELSE [kind |-> "menu", shown |-> [k \in DOMAIN InStock(flavors) |-> InStock(flavors)[k].id]]
    /\ UNCHANGED <<flavors, poisoned, stream>>

(* price_updated goes to the lobby's topic, not to the stream of prices.    *)
UpdatePrice(w, id, price) ==
    LET i == Find(flavors, id)
    IN  /\ Call(w) /\ OnTopic(w, Lobby)
        /\ IF poisoned \/ i = 0
           THEN /\ out' = [kind |-> IF poisoned THEN "panic" ELSE "refused"]
                /\ UNCHANGED <<flavors, stream>>
           ELSE /\ flavors' = [flavors EXCEPT ![i].price = price]
                /\ stream' = [stream EXCEPT !.moved = StillMoved(flavors')]
                /\ out' = [kind |-> "price_updated", id |-> id, price |-> price]
        /\ UNCHANGED poisoned

(* ChatResponder: the first group with a word the message contains.         *)
ChatGroups ==
    <<{"hour", "open", "close"}, {"flavor", "menu"}, {"price", "cost"}, {"special", "deal"},
      {"order"}, {"thank", "mahalo"}, {"hello", "hi", "aloha"}>>

Respond(words) ==
    Min({Len(ChatGroups) + 1} \cup {i \in DOMAIN ChatGroups : words \cap ChatGroups[i] # {}})

ChatMessage(w, words) ==
    /\ Query(w) /\ OnTopic(w, Support)
    /\ out' = [kind |-> "chat_reply", response |-> Respond(words)]
    /\ UNCHANGED <<flavors, poisoned, stream>>

-----------------------------------------------------------------------------
(* The price thread. Under the lock, tick % flavors.len() panics when there *)
(* is no flavor, and so does the sum of the price, cast to i64, and delta   *)
(* when it overflows; on a poisoned lock the thread panics before that.     *)

AsSigned(price) == IF price > MaxSigned THEN price - 2 * (MaxSigned + 1) ELSE price

Overflows(price, delta) == AsSigned(price) + delta \notin (-MaxSigned - 1)..MaxSigned

Moved(f, delta) == [f EXCEPT !.price = Max({AsSigned(f.price) + delta, MinPrice})]

(* Where the flavor is whose turn it is.                                    *)
IndexAt(tick) == (tick % Len(flavors)) + 1

(* Fault: the index runs one past the end.                                  *)
TickPastEnd(delta) ==
    LET tick == ticker.tick + 1
        i    == (tick % (Len(flavors) + 1)) + 1
        dies == poisoned \/ i > Len(flavors) \/ Overflows(flavors[i].price, delta)
    IN  /\ ticker.pc = "sleep" /\ tick <= MaxTicks
        /\ poisoned' = dies
        /\ flavors' = IF dies THEN flavors ELSE [flavors EXCEPT ![i] = Moved(@, delta)]
        /\ ticker' = IF dies THEN [ticker EXCEPT !.tick = tick, !.pc = "dead"]
                     ELSE [tick |-> tick, pc |-> "publish", id |-> flavors[i].id,
                           price |-> flavors'[i].price]
        /\ stream' = [stream EXCEPT !.moved = IF dies THEN @ ELSE @ \cup {flavors[i].id}]
        /\ UNCHANGED <<orders, worker, sims, joined, announced, out, calls>>

(* Fault: the update that is announced has the price before the move.       *)
TickAnnouncesOld(delta) ==
    LET tick == ticker.tick + 1
        i    == IndexAt(tick)
    IN  /\ ticker.pc = "sleep" /\ tick <= MaxTicks /\ ~poisoned /\ flavors # <<>>
        /\ ~Overflows(flavors[i].price, delta)
        /\ flavors' = [flavors EXCEPT ![i] = Moved(@, delta)]
        /\ ticker' = [tick |-> tick, pc |-> "publish", id |-> flavors[i].id, price |-> flavors[i].price]
        /\ stream' = [stream EXCEPT !.moved = @ \cup {flavors[i].id}]
        /\ UNCHANGED <<poisoned, orders, worker, sims, joined, announced, out, calls>>

Tick(delta) ==
    LET tick == ticker.tick + 1
        i    == IndexAt(tick)
        dies == poisoned \/ flavors = <<>> \/ Overflows(flavors[i].price, delta)
    IN  /\ ticker.pc = "sleep" /\ tick <= MaxTicks
        /\ poisoned' = dies
        /\ flavors' = IF dies THEN flavors ELSE [flavors EXCEPT ![i] = Moved(@, delta)]
        /\ ticker' = IF dies THEN [ticker EXCEPT !.tick = tick, !.pc = "dead"]
                     ELSE [tick |-> tick, pc |-> "publish", id |-> flavors[i].id,
                           price |-> flavors'[i].price]
        /\ stream' = [stream EXCEPT !.moved = IF dies THEN @ ELSE @ \cup {flavors[i].id}]
        /\ UNCHANGED <<orders, worker, sims, joined, announced, out, calls>>

PriceUpdate == [id |-> ticker.id, price |-> ticker.price]

TickPublish ==
    /\ ticker.pc = "publish"
    /\ ticker' = [ticker EXCEPT !.pc = "sleep"]
    /\ stream' = [stream EXCEPT !.queue = IF stream.pc = "closed" THEN @ ELSE Append(@, PriceUpdate)]
    /\ out' = [kind |-> "price_updated", id |-> ticker.id, price |-> ticker.price]
    /\ UNCHANGED <<flavors, poisoned, orders, worker, sims, joined, announced, calls>>

-----------------------------------------------------------------------------
(* GET /api/prices/stream: a task forwards what the subscription yields to  *)
(* the client. It learns that the client has gone when it next sends. The   *)
(* client shows, for each flavor, the price it heard last.                  *)

Shows(seen, u) ==
    [id \in {u.id} \cup DOMAIN seen |-> IF id = u.id THEN u.price ELSE seen[id]]

StreamOpen(w, req) ==
    /\ Call(w) /\ Reaches(req, {"stream"}) /\ stream.pc = "closed"
    /\ stream' = [pc |-> "open", queue |-> <<>>, seen |-> <<>>, moved |-> {}]
    /\ Answer(200, <<>>)
    /\ UNCHANGED <<flavors, poisoned, orders, worker, sims, ticker, joined, announced>>

StreamForward ==
    /\ stream.queue # <<>>
    /\ LET u == Head(stream.queue)
       IN  stream' = IF stream.pc = "open"
                     THEN [stream EXCEPT !.queue = Tail(@), !.seen = Shows(@, u)]
                     ELSE [pc |-> "closed", queue |-> <<>>, seen |-> <<>>, moved |-> {}]
    /\ UNCHANGED <<flavors, poisoned, orders, worker, sims, ticker, joined, announced, out, calls>>

StreamClientGone ==
    /\ stream.pc = "open"
    /\ stream' = [stream EXCEPT !.pc = "gone"]
    /\ UNCHANGED <<flavors, poisoned, orders, worker, sims, ticker, joined, announced, out, calls>>

WebRequest(w) ==
    \E req \in Requests :
        \/ AnswerFixed(w, req) \/ FlavorRequest(w, req) \/ FlavorRequestPanics(w, req)
        \/ OrderRequest(w, req) \/ StreamOpen(w, req)

OrderEvent(w) ==
    \E id \in OrderIds :
        \/ JoinOrder(w, id)
        \/ \E status \in StatusesSent : UpdateStatus(w, id, status)
        \/ \E raw \in ItemsSent : AddItem(w, id, raw)

LobbyEvent(w) ==
    \/ JoinLobby(w) \/ Announcement(w) \/ RequestMenu(w)
    \/ \E id \in IdsOf(flavors) \cup {0}, price \in PricesSent : UpdatePrice(w, id, price)

SupportEvent(w) == JoinSupport(w) \/ \E words \in ChatsSent : ChatMessage(w, words)

WorkerStep(w) ==
    \/ AnnounceOrder(w) \/ WebRequest(w) \/ OrderEvent(w) \/ LobbyEvent(w) \/ SupportEvent(w)
    \/ \E topic \in joined : LeaveTopic(w, topic)

Next ==
    \/ \E w \in Workers : WorkerStep(w)
    \/ \E k \in DOMAIN sims : SimWrite(k) \/ SimPublish(k)
    \/ \E delta \in Deltas : Tick(delta)
    \/ TickPublish \/ StreamForward \/ StreamClientGone

Spec == Init /\ [][Next]_vars

-----------------------------------------------------------------------------
(* Properties.                                                              *)

(* The lock of the flavors is poisoned for one of two reasons, and both     *)
(* are of the clients' making: they have left no flavor, or given the one   *)
(* whose turn it is a price at the edge of i64. Nothing else panics under   *)
(* it, and afterwards nobody can put the cause right.                       *)
PoisonedForACause ==
    poisoned =>
        \/ flavors = <<>>
        \/ \E delta \in Deltas : Overflows(flavors[IndexAt(ticker.tick)].price, delta)

(* What the client of a price stream will have seen when everything that is *)
(* queued or about to be broadcast has reached it.                          *)
Drained ==
    LET pending == IF ticker.pc = "publish" THEN <<PriceUpdate>> ELSE <<>>
    IN  FoldLeft(Shows, stream.seen, stream.queue \o pending)

(* A price stream shows the stored price of every flavor that the price     *)
(* thread moved since the stream was opened and no client wrote after it,   *)
(* whatever is created, deleted or updated between a move and its broadcast.*)
StreamShowsMovedPrices ==
    stream.pc = "open" =>
        \A id \in stream.moved :
            id \in DOMAIN Drained /\ Drained[id] = flavors[Find(flavors, id)].price

Progress == <<"pending", "preparing", "ready", "delivered">>
StepsBack(from, to) ==
    \E i, j \in DOMAIN Progress : Progress[i] = from /\ Progress[j] = to /\ j < i

(* The status of an order moves forward only, unless a client rewrote it or *)
(* two simulators were started for its id: each customer who joins while    *)
(* the order is pending starts one, and one of an earlier, deleted order    *)
(* with the same id counts.                                                 *)
StepsBackOnlyInARace ==
    [][\A id \in OrderIds :
        LET i == Find(orders, id)
            j == Find(orders', id)
        IN  i # 0 /\ j # 0 /\ StepsBack(orders[i].status, orders'[j].status) =>
              \/ orders'[j].touched
              \/ Cardinality({k \in DOMAIN sims : sims[k].id = id}) > 1]_vars

(* What customers heard last on an order's topic is its stored status, once *)
(* no broadcast is pending, unless the status was written through the REST  *)
(* API, which does not broadcast, or written by two at once: a simulator    *)
(* releases the lock before it broadcasts, update_status holds it.          *)
AnnouncedUnlessRaced ==
    \A i \in DOMAIN orders :
        LET o == orders[i]
        IN  o.via = "topic" /\ ~o.raced /\ ~Publishing(o.id) => announced[o.id] = o.status
=============================================================================
