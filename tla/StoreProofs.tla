----------------------------- MODULE StoreProofs -----------------------------
(* What the demo application keeps and says, for every set of workers,      *)
(* requests and flavors: when a lock is poisoned, what an order's status    *)
(* and its last announcement have to do with each other, and what a stream  *)
(* of prices shows.                                                         *)
EXTENDS IceCreamStore, SequenceLemmas, FiniteSetTheorems

(* Strings, among them the statuses that the store writes itself.           *)
Texts == STRING \cup {"pending", "preparing", "ready", "delivered", "silent"}

Flavors == [id : Nat, price : Int, in_stock : BOOLEAN]
Items   == [scoops : Seq(Nat), vessel : {"cone", "cup"}]
Orders  == [id : OrderIds, items : Seq(Items), status : Texts,
            via : {"new", "rest", "topic"}, touched : BOOLEAN, raced : BOOLEAN]
Sims    == [id : OrderIds, step : 1..3, pc : {"sleep", "publish", "done"}]
Updates == [id : Nat, price : Int]
Views   == UNION {[D -> Int] : D \in SUBSET Nat}

OwnIds(records) ==
    \A i, j \in 1..Len(records) : records[i].id = records[j].id => i = j

-----------------------------------------------------------------------------
(* Records with ids.                                                        *)

(* find() returns a place where the id is, and 0 only where there is none.  *)
LEMMA FindFacts ==
    ASSUME NEW S, NEW records \in Seq(S), NEW id
    PROVE  /\ Find(records, id) \in 0..Len(records)
           /\ Find(records, id) # 0 => records[Find(records, id)].id = id
           /\ \A i \in 1..Len(records) : records[i].id = id => Find(records, id) # 0
<1> DEFINE hits == {i \in DOMAIN records : records[i].id = id}
<1>1. hits \subseteq Nat /\ hits \subseteq 1..Len(records) /\ Len(records) \in Nat
  OBVIOUS
<1>2. CASE hits = {}
  <2>1. Find(records, id) = 0
    BY <1>2 DEF Find
  <2>2. \A i \in 1..Len(records) : records[i].id # id
    BY <1>2
  <2> QED BY <1>1, <2>1, <2>2
<1>3. CASE hits # {}
  <2>1. Find(records, id) = Min(hits)
    BY <1>3 DEF Find
  <2>2. Min(hits) \in hits
    <3> HIDE DEF hits
    <3> QED BY <1>1, <1>3, MinOf
  <2>3. Min(hits) \in 1..Len(records) /\ records[Min(hits)].id = id
    BY <2>2
  <2> HIDE DEF hits
  <2>4. Find(records, id) \in 1..Len(records) /\ records[Find(records, id)].id = id
    BY <2>1, <2>3
  <2> QED BY <1>1, <2>4
<1> QED BY <1>2, <1>3

(* Where ids are unique, find() returns the one place.                      *)
LEMMA FindUnique ==
    ASSUME NEW S, NEW records \in Seq(S), OwnIds(records), NEW i \in 1..Len(records)
    PROVE  Find(records, records[i].id) = i
<1>1. /\ Find(records, records[i].id) \in 1..Len(records)
      /\ records[Find(records, records[i].id)].id = records[i].id
  BY FindFacts
<1> QED BY <1>1 DEF OwnIds

(* The id of a new record is a number that no record has.                   *)
LEMMA NextIdFacts ==
    ASSUME NEW S, NEW records \in Seq(S), \A i \in 1..Len(records) : records[i].id \in Nat
    PROVE  /\ NextId(records) \in Nat
           /\ \A i \in 1..Len(records) : records[i].id # NextId(records)
<1> DEFINE n == Len(records)
           f == [i \in 1..n |-> records[i].id]
           All == {0} \cup {f[i] : i \in 1..n}
<1>1. n \in Nat /\ \A i \in 1..n : f[i] \in Nat
  OBVIOUS
<1>2. \E m \in All : \A x \in All : m >= x
  <2> HIDE DEF f, n
  <2> QED BY <1>1, GreatestOf
<1>3. Max(All) \in All /\ \A x \in All : Max(All) >= x
  BY <1>2 DEF Max
<1>4. {0} \cup IdsOf(records) = All
  BY DEF IdsOf
<1>5. All \subseteq Nat
  BY <1>1
<1>6. \A i \in 1..n : records[i].id \in All
  OBVIOUS
<1>7. NextId(records) = Max(All) + 1
  BY <1>4 DEF NextId
<1> HIDE DEF All
<1>8. Max(All) \in Nat
  BY <1>3, <1>5
<1> QED BY <1>3, <1>5, <1>6, <1>7, <1>8

(* retain() leaves the records with other ids, and their ids unique.        *)
LEMMA WithoutFacts ==
    ASSUME NEW S, NEW records \in Seq(S), NEW id
    PROVE  /\ Without(records, id) \in Seq(S)
           /\ \A k \in 1..Len(Without(records, id)) :
                 \E i \in 1..Len(records) : Without(records, id)[k] = records[i] /\ records[i].id # id
           /\ OwnIds(records) => OwnIds(Without(records, id))
<1> DEFINE places == {i \in DOMAIN records : records[i].id # id}
           q == Kept(records, places)
<1>1. q \in Seq(S) /\ Lists(q, records, Len(records), places)
  <2> HIDE DEF places
  <2> QED BY KeptLists
<1>2. PICK at \in [1..Len(q) -> 1..Len(records)] :
        /\ \A k \in 1..Len(q) : at[k] \in places /\ q[k] = records[at[k]]
        /\ \A k, l \in 1..Len(q) : k < l => at[k] < at[l]
  <2> HIDE DEF places, q
  <2> QED BY <1>1 DEF Lists
<1>3. \A k \in 1..Len(q) : records[at[k]].id # id
  BY <1>2
<1> HIDE DEF q, places
<1>4. ASSUME OwnIds(records), NEW k \in 1..Len(q), NEW l \in 1..Len(q), q[k].id = q[l].id
      PROVE  k = l
  <2>1. at[k] = at[l]
    BY <1>2, <1>4 DEF OwnIds
  <2>2. k \in Nat /\ l \in Nat /\ at[k] \in Nat /\ at[l] \in Nat
    BY <1>1
  <2> QED BY <1>2, <2>1, <2>2
<1>5. OwnIds(records) => OwnIds(q)
  BY <1>4 DEF OwnIds
<1>6. Without(records, id) = q
  BY DEF Without, q, places
<1> QED BY <1>1, <1>2, <1>3, <1>5, <1>6

-----------------------------------------------------------------------------
(* Orders.                                                                  *)

OrdersType ==
    /\ orders \in Seq(Orders) /\ OwnIds(orders)
    /\ sims \in Seq(Sims) /\ announced \in [OrderIds -> Texts]

(* A simulator of order o that is about to broadcast broadcasts what is     *)
(* stored; once none is, customers have heard it.                           *)
Told(o) ==
    o.via = "topic" /\ ~o.raced =>
        /\ \A k \in 1..Len(sims) :
              sims[k].id = o.id /\ sims[k].pc = "publish" => o.status = Statuses[sims[k].step]
        /\ ~Publishing(o.id) => announced[o.id] = o.status

AtMostOne(id) == \A k, l \in 1..Len(sims) : sims[k].id = id /\ sims[l].id = id => k = l

(* Where the one simulator of an order that no client touched has got to.   *)
Follows(o) ==
    ~o.touched /\ AtMostOne(o.id) =>
        \/ o.status = "pending"
        \/ \E k \in 1..Len(sims), j \in 1..3 :
              /\ sims[k].id = o.id /\ o.status = Statuses[j]
              /\ j < sims[k].step \/ (j = sims[k].step /\ sims[k].pc # "sleep")

OrdersInv ==
    /\ OrdersType
    /\ \A i \in 1..Len(orders) : Told(orders[i]) /\ Follows(orders[i])

(* What a step does to the orders and their simulators.                     *)
Creates ==
    /\ \E id \in OrderIds, its \in Seq(Items) :
          /\ \A i \in 1..Len(orders) : orders[i].id # id
          /\ orders' = Append(orders, [id |-> id, items |-> its, status |-> "pending",
                                       via |-> "new", touched |-> FALSE, raced |-> FALSE])
    /\ UNCHANGED <<sims, announced>>

Rewrites ==
    /\ \E i \in 1..Len(orders), status \in Texts :
          orders' = [orders EXCEPT ![i] = Written(@, status, "rest", TRUE)]
    /\ UNCHANGED <<sims, announced>>

Deletes == (\E id \in Nat : orders' = Without(orders, id)) /\ UNCHANGED <<sims, announced>>

Starts ==
    /\ \E id \in OrderIds :
          /\ StatusOf(id) = "pending"
          /\ sims' = Append(sims, [id |-> id, step |-> 1, pc |-> "sleep"])
    /\ UNCHANGED <<orders, announced>>

ClientWrites ==
    /\ \E id \in OrderIds, status \in Texts :
          /\ orders' = IF Find(orders, id) = 0 THEN orders
                       ELSE [orders EXCEPT ![Find(orders, id)] = Written(@, status, "topic", TRUE)]
          /\ announced' = [announced EXCEPT ![id] = status]
    /\ UNCHANGED sims

Adds ==
    /\ \E i \in 1..Len(orders), item \in Items :
          orders' = [orders EXCEPT ![i].items = Append(@, item)]
    /\ UNCHANGED <<sims, announced>>

OrderStep ==
    \/ UNCHANGED <<orders, sims, announced>>
    \/ Creates \/ Rewrites \/ Deletes \/ Starts \/ ClientWrites \/ Adds
    \/ \E k \in 1..Len(sims) : SimWrite(k) \/ SimPublish(k)

(* parse_order_item and parse(): well-typed, whatever a client sends.       *)
LEMMA ParseFacts ==
    /\ \A raw \in RawItems : ParseOrderItem(raw) \in Items
    /\ \A raws \in Seq(RawItems) : ParsedItems(raws) \in Seq(Items)
    /\ \A name : ParseId(name) \in Nat
<1>1. ASSUME NEW raw \in RawItems PROVE ParseOrderItem(raw) \in Items
  <2> DEFINE both == {MAX_SCOOPS, Len(raw.scoops)}
  <2>1. raw.scoops \in Seq(Nat) /\ both \subseteq Nat /\ both # {} /\ Len(raw.scoops) \in both
    BY DEF RawItems, MAX_SCOOPS
  <2>2. Min(both) \in both /\ Min(both) <= Len(raw.scoops)
    <3> HIDE DEF both
    <3> QED BY <2>1, MinOf
  <2>3. Min(both) \in Nat
    BY <2>1, <2>2
  <2> HIDE DEF both
  <2>4. SubSeq(raw.scoops, 1, Min(both)) \in Seq(Nat)
    BY <2>1, <2>2, <2>3
  <2> QED BY <2>4 DEF ParseOrderItem, Items, both
<1>2. ASSUME NEW raws \in Seq(RawItems) PROVE ParsedItems(raws) \in Seq(Items)
  <2> DEFINE scooped == Kept(raws, {i \in DOMAIN raws : raws[i].scoops # <<>>})
  <2>1. scooped \in Seq(RawItems)
    BY KeptLists
  <2>2. ParsedItems(raws) = [i \in DOMAIN scooped |-> ParseOrderItem(scooped[i])]
    BY DEF ParsedItems
  <2> HIDE DEF scooped
  <2>3. DOMAIN scooped = 1..Len(scooped) /\ Len(scooped) \in Nat
        /\ \A i \in 1..Len(scooped) : scooped[i] \in RawItems
    BY <2>1
  <2>4. [i \in DOMAIN scooped |-> ParseOrderItem(scooped[i])] \in [1..Len(scooped) -> Items]
    BY <1>1, <2>3
  <2> QED BY <2>2, <2>3, <2>4
<1>3. ASSUME NEW name PROVE ParseId(name) \in Nat
  <2>1. 0 \in Nat /\ 1 \in Nat /\ 2 \in Nat /\ 3 \in Nat
    OBVIOUS
  <2> QED BY <2>1 DEF ParseId
<1> QED BY <1>1, <1>2, <1>3

(* Every step of the application is one of these for the orders.            *)
LEMMA OrderKinds ==
    ASSUME OrdersType, [Next]_vars
    PROVE  OrderStep
<1> USE StoreAssumption
<1>d. DOMAIN orders = 1..Len(orders) /\ DOMAIN sims = 1..Len(sims)
  BY DEF OrdersType
<1>1. CASE UNCHANGED vars
  BY <1>1 DEF vars, OrderStep
<1>2. ASSUME NEW w \in Workers, AnnounceOrder(w) PROVE OrderStep
  BY <1>2 DEF AnnounceOrder, OrderStep
<1>3. ASSUME NEW w \in Workers, NEW req \in Requests,
             \/ AnswerFixed(w, req) \/ FlavorRequest(w, req)
             \/ FlavorRequestPanics(w, req) \/ StreamOpen(w, req)
      PROVE  OrderStep
  BY <1>3 DEF AnswerFixed, FlavorRequest, FlavorRequestPanics, StreamOpen, OrderStep
<1>4. ASSUME NEW w \in Workers, NEW req \in Requests, OrderRequest(w, req) PROVE OrderStep
  <2> DEFINE id == IdParam(req)
             i  == Find(orders, id)
             new == NextId(orders)
             raws == Field(req.body, "items", <<>>)
  <2>u. UNCHANGED <<sims, announced>>
    BY <1>4 DEF OrderRequest
  <2>1. CASE UNCHANGED orders
    BY <2>u, <2>1 DEF OrderStep
  <2>2. CASE new \in OrderIds /\ orders' = Append(orders, NewOrder(new, raws))
    <3>1. raws \in Seq(RawItems)
      <4>1. <<>> \in Seq(RawItems)
        OBVIOUS
      <4> QED BY <4>1 DEF Field
    <3>2. ParsedItems(raws) \in Seq(Items)
      BY <3>1, ParseFacts
    <3>3. \A k \in 1..Len(orders) : orders[k].id # new
      <4>1. orders \in Seq(Orders)
        BY DEF OrdersType
      <4>2. ASSUME NEW k \in 1..Len(orders) PROVE orders[k].id \in OrderIds
        <5>1. orders[k] \in Orders
          BY <4>1
        <5> QED BY <5>1 DEF Orders
      <4>3. \A k \in 1..Len(orders) : orders[k].id \in Nat
        BY <4>2
      <4> QED BY <4>1, <4>3, NextIdFacts
    <3> HIDE DEF new, raws
    <3>4. Creates
      BY <2>u, <2>2, <3>2, <3>3 DEF Creates, NewOrder
    <3> QED BY <3>4 DEF OrderStep
  <2>3. CASE /\ i # 0 /\ "status" \in DOMAIN req.body
             /\ orders' = [orders EXCEPT ![i] = Written(@, req.body.status, "rest", TRUE)]
    <3>1. i \in 1..Len(orders)
      BY <2>3, FindFacts DEF OrdersType
    <3>2. req.body.status \in Texts
      BY <2>3 DEF Texts
    <3> HIDE DEF i
    <3>3. Rewrites
      BY <2>u, <2>3, <3>1, <3>2 DEF Rewrites
    <3> QED BY <3>3 DEF OrderStep
  <2>4. CASE orders' = Without(orders, id)
    <3>1. id \in Nat
      BY ParseFacts DEF IdParam
    <3> HIDE DEF id
    <3>2. Deletes
      BY <2>u, <2>4, <3>1 DEF Deletes
    <3> QED BY <3>2 DEF OrderStep
  <2> QED
    <3> HIDE DEF id, i, new, raws
    <3> QED BY <1>4, <2>1, <2>2, <2>3, <2>4 DEF OrderRequest, id, i, new, raws
<1>5. ASSUME NEW w \in Workers, NEW id \in OrderIds, JoinOrder(w, id) PROVE OrderStep
  BY <1>5 DEF JoinOrder, Starts, OrderStep
<1>6. ASSUME NEW w \in Workers, NEW id \in OrderIds, NEW status \in StatusesSent,
             UpdateStatus(w, id, status)
      PROVE  OrderStep
  <2>1. status \in Texts
    BY DEF Texts
  <2>2. ClientWrites
    BY <1>6, <2>1 DEF UpdateStatus, StatusChanged, ClientWrites
  <2> QED BY <2>2 DEF OrderStep
<1>7. ASSUME NEW w \in Workers, NEW id \in OrderIds, NEW raw \in ItemsSent, AddItem(w, id, raw)
      PROVE  OrderStep
  <2>1. CASE UNCHANGED orders
    BY <1>7, <2>1 DEF AddItem, OrderStep
  <2>2. CASE orders' # orders
    <3> DEFINE i == Find(orders, id)
    <3>1. i \in 0..Len(orders)
      BY FindFacts DEF OrdersType
    <3>2. ParseOrderItem(raw) \in Items
      BY ParseFacts
    <3> HIDE DEF i
    <3>3. /\ i # 0 /\ orders' = [orders EXCEPT ![i].items = Append(@, ParseOrderItem(raw))]
          /\ UNCHANGED <<sims, announced>>
      BY <1>7, <2>2 DEF AddItem, i
    <3>4. i \in 1..Len(orders)
      BY <3>1, <3>3
    <3> DEFINE item == ParseOrderItem(raw)
    <3> HIDE DEF item
    <3>5. item \in Items /\ orders' = [orders EXCEPT ![i].items = Append(@, item)]
      BY <3>2, <3>3 DEF item
    <3>6. Adds
      BY <3>3, <3>4, <3>5, Zenon DEF Adds
    <3> QED BY <3>6 DEF OrderStep
  <2> QED BY <2>1, <2>2
<1>8. ASSUME NEW w \in Workers, LobbyEvent(w) \/ SupportEvent(w) PROVE OrderStep
  <2>1. UNCHANGED <<orders, sims, announced>>
    BY <1>8 DEF LobbyEvent, SupportEvent, JoinLobby, Announcement, RequestMenu, UpdatePrice,
                JoinSupport, ChatMessage, OnTopic
  <2> QED BY <2>1 DEF OrderStep
<1>9. ASSUME NEW w \in Workers, NEW topic \in joined, LeaveTopic(w, topic) PROVE OrderStep
  BY <1>9 DEF LeaveTopic, OrderStep
<1>10. ASSUME NEW k \in DOMAIN sims, SimWrite(k) \/ SimPublish(k) PROVE OrderStep
  BY <1>d, <1>10 DEF OrderStep
<1>11. CASE \/ \E delta \in Deltas : Tick(delta)
            \/ TickPublish \/ StreamForward \/ StreamClientGone
  <2>1. UNCHANGED <<orders, sims, announced>>
    BY <1>11 DEF Tick, TickPublish, StreamForward, StreamClientGone
  <2> QED BY <2>1 DEF OrderStep
<1> QED
  BY <1>1, <1>2, <1>3, <1>4, <1>5, <1>6, <1>7, <1>8, <1>9, <1>10, <1>11
  DEF Next, WorkerStep, WebRequest, OrderEvent

-----------------------------------------------------------------------------
(* Each kind of step keeps what is known of the orders.                     *)

(* The statuses the simulator walks through, in its order.                  *)
LEMMA StatusesAre ==
    /\ Statuses[1] = "preparing" /\ Statuses[2] = "ready" /\ Statuses[3] = "delivered"
    /\ Len(Statuses) = 3 /\ \A j \in 1..3 : Statuses[j] \in Texts
<1>1. Statuses[1] = "preparing" /\ Statuses[2] = "ready" /\ Statuses[3] = "delivered"
  BY DEF Statuses
<1>2. Len(Statuses) = 3
  BY DEF Statuses
<1>3. ASSUME NEW j \in 1..3 PROVE Statuses[j] \in Texts
  <2>1. j = 1 \/ j = 2 \/ j = 3
    OBVIOUS
  <2> QED BY <1>1, <2>1 DEF Texts
<1> QED BY <1>1, <1>2, <1>3

(* A client writes the status of an order: it is touched.                   *)
LEMMA ClientWritten ==
    ASSUME NEW o \in Orders, NEW status \in Texts, NEW via \in {"rest", "topic"}
    PROVE  /\ Written(o, status, via, TRUE) \in Orders
           /\ Written(o, status, via, TRUE).id = o.id
           /\ Written(o, status, via, TRUE).status = status
           /\ Written(o, status, via, TRUE).via = via
           /\ Written(o, status, via, TRUE).raced <=> Publishing(o.id)
           /\ Written(o, status, via, TRUE).touched
<1>1. Publishing(o.id) \in BOOLEAN
  BY DEF Publishing
<1>2. o.touched \in BOOLEAN
  BY DEF Orders
<1> HIDE DEF Publishing
<1> QED BY <1>1, <1>2 DEF Written, Orders

(* A simulator writes the status of an order.                               *)
LEMMA SimWritten ==
    ASSUME NEW o \in Orders, NEW status \in Texts, NEW via \in {"rest", "topic"}
    PROVE  /\ Written(o, status, via, FALSE) \in Orders
           /\ Written(o, status, via, FALSE).id = o.id
           /\ Written(o, status, via, FALSE).status = status
           /\ Written(o, status, via, FALSE).via = via
           /\ Written(o, status, via, FALSE).raced <=> Publishing(o.id)
           /\ Written(o, status, via, FALSE).touched <=> o.touched
<1>1. Publishing(o.id) \in BOOLEAN
  BY DEF Publishing
<1>2. o.touched \in BOOLEAN
  BY DEF Orders
<1> HIDE DEF Publishing
<1> QED BY <1>1, <1>2 DEF Written, Orders

(* What a simulator makes of an order.                                      *)
SimWrote(o, old, status) ==
    /\ o.id = old.id /\ o.status = status
    /\ o.raced <=> Publishing(old.id)
    /\ o.touched <=> old.touched

(* The same of an order that is what a simulator wrote.                     *)
LEMMA SimWrites ==
    ASSUME NEW old \in Orders, NEW status \in Texts, NEW o, o = Written(old, status, "topic", FALSE)
    PROVE  SimWrote(o, old, status)
<1>1. PICK via : via = "topic" /\ via \in {"rest", "topic"}
  OBVIOUS
<1>2. o = Written(old, status, via, FALSE)
  BY <1>1
<1>3. /\ Written(old, status, via, FALSE).id = old.id
      /\ Written(old, status, via, FALSE).status = status
      /\ Written(old, status, via, FALSE).raced <=> Publishing(old.id)
      /\ Written(old, status, via, FALSE).touched <=> old.touched
  BY <1>1, SimWritten, Zenon
<1> QED BY <1>2, <1>3, Zenon DEF SimWrote

(* One order is replaced by one with the same id.                           *)
LEMMA Replaced ==
    ASSUME OrdersType, NEW i \in 1..Len(orders), NEW o \in Orders, o.id = orders[i].id,
           orders' = [orders EXCEPT ![i] = o]
    PROVE  /\ orders' \in Seq(Orders) /\ OwnIds(orders)' /\ Len(orders') = Len(orders)
           /\ orders'[i] = o
           /\ \A j \in 1..Len(orders) : j # i => orders'[j] = orders[j] /\ orders[j].id # o.id
<1>1. orders \in Seq(Orders) /\ OwnIds(orders)
  BY DEF OrdersType
<1>2. /\ orders' \in Seq(Orders) /\ Len(orders') = Len(orders) /\ orders'[i] = o
      /\ \A j \in 1..Len(orders) : j # i => orders'[j] = orders[j]
  BY <1>1
<1>3. OwnIds(orders)'
  BY <1>1, <1>2 DEF OwnIds
<1>4. \A j \in 1..Len(orders) : j # i => orders[j].id # o.id
  BY <1>1 DEF OwnIds
<1> QED BY <1>2, <1>3, <1>4

(* A simulator moves on.                                                    *)
LEMMA SimsMoved ==
    ASSUME sims \in Seq(Sims), NEW k \in 1..Len(sims), NEW m \in Sims, m.id = sims[k].id,
           sims' = [sims EXCEPT ![k] = m]
    PROVE  /\ sims' \in Seq(Sims) /\ Len(sims') = Len(sims) /\ sims'[k] = m
           /\ \A l \in 1..Len(sims) : l # k => sims'[l] = sims[l]
           /\ \A id : AtMostOne(id)' <=> AtMostOne(id)
<1>1. /\ sims' \in Seq(Sims) /\ Len(sims') = Len(sims) /\ sims'[k] = m
      /\ \A l \in 1..Len(sims) : l # k => sims'[l] = sims[l]
  OBVIOUS
<1>2. \A l \in 1..Len(sims) : sims'[l].id = sims[l].id
  BY <1>1
<1> QED BY <1>1, <1>2 DEF AtMostOne

(* A new order, of a client or of the simulator, keeps the invariant.       *)
LEMMA CreatesKeeps ==
    ASSUME OrdersInv, Creates
    PROVE  OrdersInv'
<1>1. PICK id \in OrderIds, its \in Seq(Items) :
        /\ \A i \in 1..Len(orders) : orders[i].id # id
        /\ orders' = Append(orders, [id |-> id, items |-> its, status |-> "pending",
                                     via |-> "new", touched |-> FALSE, raced |-> FALSE])
  BY DEF Creates
<1>2. UNCHANGED <<sims, announced>> /\ orders \in Seq(Orders) /\ OwnIds(orders)
  BY DEF Creates, OrdersInv, OrdersType
<1> DEFINE o == [id |-> id, items |-> its, status |-> "pending",
                 via |-> "new", touched |-> FALSE, raced |-> FALSE]
<1>3. o \in Orders /\ o.id = id /\ o.via = "new" /\ o.status = "pending"
  <2>1. /\ "pending" \in Texts /\ "new" \in {"new", "rest", "topic"} /\ FALSE \in BOOLEAN
    BY DEF Texts
  <2>2. o \in Orders
    BY <2>1, Zenon DEF Orders
  <2> QED BY <2>2
<1> HIDE DEF o
<1>4. /\ orders' \in Seq(Orders) /\ Len(orders') = Len(orders) + 1 /\ Len(orders) \in Nat
      /\ \A i \in 1..Len(orders') :
            IF i = Len(orders) + 1 THEN orders'[i] = o
            ELSE i \in 1..Len(orders) /\ orders'[i] = orders[i]
  BY <1>1, <1>2, <1>3 DEF o
<1>5. OwnIds(orders)'
  <2> SUFFICES ASSUME NEW i \in 1..Len(orders'), NEW j \in 1..Len(orders'),
                      orders'[i].id = orders'[j].id
               PROVE  i = j
    BY DEF OwnIds
  <2> QED BY <1>1, <1>2, <1>3, <1>4 DEF OwnIds
<1>6. OrdersType'
  BY <1>2, <1>4, <1>5 DEF OrdersInv, OrdersType
<1>7. Told(o) /\ Follows(o)
  BY <1>3 DEF Told, Follows
<1>8. \A i \in 1..Len(orders') : Told(orders'[i]) /\ Follows(orders'[i])
  BY <1>4, <1>7 DEF OrdersInv
<1>9. ASSUME NEW p, Told(p), Follows(p) PROVE Told(p)' /\ Follows(p)'
  BY <1>2, <1>9 DEF Told, Follows, Publishing, AtMostOne
<1> QED BY <1>6, <1>8, <1>9 DEF OrdersInv

(* An order is written, and nothing but its own announcement changes.       *)
LEMMA WriteKeeps ==
    ASSUME OrdersInv, NEW i \in 1..Len(orders), NEW o \in Orders, o.id = orders[i].id,
           orders' = [orders EXCEPT ![i] = o], UNCHANGED sims,
           announced' \in [OrderIds -> Texts],
           \A id \in OrderIds : id # o.id => announced'[id] = announced[id],
           Told(o)', Follows(o)'
    PROVE  OrdersInv'
<1>1. /\ orders' \in Seq(Orders) /\ OwnIds(orders)' /\ Len(orders') = Len(orders)
      /\ orders'[i] = o
      /\ \A j \in 1..Len(orders) : j # i => orders'[j] = orders[j] /\ orders[j].id # o.id
  BY Replaced DEF OrdersInv
<1>2. OrdersType'
  BY <1>1 DEF OrdersInv, OrdersType
<1>3. ASSUME NEW p, Told(p), Follows(p), p.id \in OrderIds, p.id # o.id
      PROVE  Told(p)' /\ Follows(p)'
  <2>1. announced'[p.id] = announced[p.id]
    BY <1>3
  <2>2. Told(p)'
    BY <1>3, <2>1 DEF Told, Publishing
  <2>3. Follows(p)'
    BY <1>3 DEF Follows, AtMostOne
  <2> QED BY <2>2, <2>3
<1>4. ASSUME NEW p, NEW j \in 1..Len(orders'), p = orders'[j]
      PROVE  Told(p)' /\ Follows(p)'
  <2>1. CASE j = i
    BY <1>1, <1>4, <2>1
  <2>2. CASE j # i
    <3>1. j \in 1..Len(orders) /\ p = orders[j] /\ p.id # o.id
      BY <1>1, <1>4, <2>2
    <3>2. Told(p) /\ Follows(p) /\ p \in Orders
      BY <3>1 DEF OrdersInv, OrdersType
    <3>3. p.id \in OrderIds
      BY <3>2 DEF Orders
    <3> QED BY <1>3, <3>1, <3>2, <3>3
  <2> QED BY <2>1, <2>2
<1>5. \A j \in 1..Len(orders') : (Told(orders[j]) /\ Follows(orders[j]))'
  BY <1>4
<1> QED BY <1>2, <1>5 DEF OrdersInv

(* An order written again, of its client or of the simulator, keeps it.     *)
LEMMA RewritesKeeps ==
    ASSUME OrdersInv, Rewrites
    PROVE  OrdersInv'
<1>1. PICK i \in 1..Len(orders), status \in Texts :
        orders' = [orders EXCEPT ![i] = Written(@, status, "rest", TRUE)]
  BY DEF Rewrites
<1>2. UNCHANGED <<sims, announced>> /\ orders[i] \in Orders
  BY DEF Rewrites, OrdersInv, OrdersType
<1>3. PICK o \in Orders : o = Written(orders[i], status, "rest", TRUE)
  BY <1>2, ClientWritten
<1>4. o.id = orders[i].id /\ o.via = "rest" /\ o.touched
  BY <1>2, <1>3, ClientWritten, ZenonT(30)
<1>5. orders' = [orders EXCEPT ![i] = o]
  BY <1>1, <1>3
<1>6. Told(o)' /\ Follows(o)'
  BY <1>4 DEF Told, Follows
<1>7. announced' \in [OrderIds -> Texts] /\ \A id \in OrderIds : announced'[id] = announced[id]
  BY <1>2 DEF OrdersInv, OrdersType
<1> QED BY <1>2, <1>4, <1>5, <1>6, <1>7, WriteKeeps

(* A flavor added keeps the orders' invariant.                              *)
LEMMA AddsKeeps ==
    ASSUME OrdersInv, Adds
    PROVE  OrdersInv'
<1>1. PICK i \in 1..Len(orders), item \in Items :
        orders' = [orders EXCEPT ![i].items = Append(@, item)]
  BY DEF Adds
<1>2. UNCHANGED <<sims, announced>> /\ orders[i] \in Orders /\ Told(orders[i]) /\ Follows(orders[i])
  BY DEF Adds, OrdersInv, OrdersType
<1>3. PICK o : o = [orders[i] EXCEPT !.items = Append(@, item)]
  OBVIOUS
<1>4. /\ o \in Orders /\ o.id = orders[i].id /\ o.via = orders[i].via /\ o.raced = orders[i].raced
      /\ o.touched = orders[i].touched /\ o.status = orders[i].status
  <2>1. orders[i].items \in Seq(Items) /\ Append(orders[i].items, item) \in Seq(Items)
    BY <1>2 DEF Orders
  <2> QED BY <1>2, <1>3, <2>1 DEF Orders
<1>5. orders' = [orders EXCEPT ![i] = o]
  BY <1>1, <1>3
<1>6. Told(o) /\ Follows(o)
  BY <1>2, <1>4 DEF Told, Follows
<1>7. Told(o)' /\ Follows(o)'
  BY <1>2, <1>6 DEF Told, Follows, Publishing, AtMostOne
<1>8. announced' \in [OrderIds -> Texts] /\ \A id \in OrderIds : announced'[id] = announced[id]
  BY <1>2 DEF OrdersInv, OrdersType
<1> QED BY <1>2, <1>4, <1>5, <1>7, <1>8, WriteKeeps

(* A deletion keeps it; an order read before it is written no more.         *)
LEMMA DeletesKeeps ==
    ASSUME OrdersInv, Deletes
    PROVE  OrdersInv'
<1>1. PICK id \in Nat : orders' = Without(orders, id)
  BY DEF Deletes
<1>2. UNCHANGED <<sims, announced>> /\ orders \in Seq(Orders) /\ OwnIds(orders)
  BY DEF Deletes, OrdersInv, OrdersType
<1>3. /\ orders' \in Seq(Orders) /\ OwnIds(orders)'
      /\ \A k \in 1..Len(orders') : \E i \in 1..Len(orders) : orders'[k] = orders[i]
  BY <1>1, <1>2, WithoutFacts DEF OwnIds
<1>4. OrdersType'
  BY <1>2, <1>3 DEF OrdersInv, OrdersType
<1>5. \A k \in 1..Len(orders') : Told(orders'[k]) /\ Follows(orders'[k])
  BY <1>3 DEF OrdersInv
<1>6. ASSUME NEW p, Told(p), Follows(p) PROVE Told(p)' /\ Follows(p)'
  BY <1>2, <1>6 DEF Told, Follows, Publishing, AtMostOne
<1> QED BY <1>4, <1>5, <1>6 DEF OrdersInv

(* Every write of a client keeps it.                                        *)
LEMMA ClientWritesKeeps ==
    ASSUME OrdersInv, ClientWrites
    PROVE  OrdersInv'
<1>1. PICK id \in OrderIds, status \in Texts :
        /\ orders' = IF Find(orders, id) = 0 THEN orders
                     ELSE [orders EXCEPT ![Find(orders, id)] = Written(@, status, "topic", TRUE)]
        /\ announced' = [announced EXCEPT ![id] = status]
  BY DEF ClientWrites
<1>2. UNCHANGED sims /\ orders \in Seq(Orders) /\ OwnIds(orders)
  BY DEF ClientWrites, OrdersInv, OrdersType
<1>3. /\ announced' \in [OrderIds -> Texts] /\ announced'[id] = status
      /\ \A x \in OrderIds : x # id => announced'[x] = announced[x]
  BY <1>1 DEF OrdersInv, OrdersType
<1>4. CASE Find(orders, id) = 0
  <2>1. \A i \in 1..Len(orders) : orders[i].id # id
    BY <1>2, <1>4, FindFacts
  <2>2. orders' = orders
    BY <1>1, <1>4
  <2>3. \A i \in 1..Len(orders') :
           /\ Told(orders'[i]) /\ Follows(orders'[i])
           /\ orders'[i].id \in OrderIds /\ orders'[i].id # id
    <3>1. \A i \in 1..Len(orders) : orders[i] \in Orders
      BY <1>2
    <3>2. \A i \in 1..Len(orders) : orders[i].id \in OrderIds
      BY <3>1 DEF Orders
    <3> QED BY <2>1, <2>2, <3>2 DEF OrdersInv
  <2>4. ASSUME NEW p, Told(p), Follows(p), p.id \in OrderIds, p.id # id
        PROVE  Told(p)' /\ Follows(p)'
    BY <1>2, <1>3, <2>4 DEF Told, Follows, Publishing, AtMostOne
  <2>5. OrdersType'
    BY <1>2, <1>3, <2>2 DEF OrdersInv, OrdersType, OwnIds
  <2> QED BY <2>3, <2>4, <2>5 DEF OrdersInv
<1>5. CASE Find(orders, id) # 0
  <2>1. PICK i \in 1..Len(orders) : i = Find(orders, id)
    BY <1>2, <1>5, FindFacts
  <2>2. orders[i] \in Orders /\ orders[i].id = id
    BY <1>2, <1>5, <2>1, FindFacts
  <2>3. PICK o \in Orders : o = Written(orders[i], status, "topic", TRUE)
    BY <2>2, ClientWritten
  <2>4. o.id = id /\ o.touched /\ o.status = status /\ (o.raced <=> Publishing(id))
    BY <2>2, <2>3, ClientWritten, ZenonT(30)
  <2>5. orders' = [orders EXCEPT ![i] = o]
    BY <1>1, <1>5, <2>1, <2>3
  <2>6. DOMAIN sims = 1..Len(sims)
    BY DEF OrdersInv, OrdersType
  <2>7. Follows(o)'
    BY <2>4 DEF Follows
  <2>8. Told(o)'
    BY <1>2, <1>3, <2>4, <2>6 DEF Told, Publishing
  <2> QED BY <1>2, <1>3, <2>2, <2>4, <2>5, <2>7, <2>8, WriteKeeps
<1> QED BY <1>4, <1>5

(* A read before a write keeps it: what was read is what is stored.         *)
LEMMA StartsKeeps ==
    ASSUME OrdersInv, Starts
    PROVE  OrdersInv'
<1>1. PICK id \in OrderIds :
        /\ StatusOf(id) = "pending"
        /\ sims' = Append(sims, [id |-> id, step |-> 1, pc |-> "sleep"])
  BY DEF Starts
<1>2. /\ UNCHANGED <<orders, announced>> /\ orders \in Seq(Orders) /\ OwnIds(orders)
      /\ sims \in Seq(Sims)
  BY DEF Starts, OrdersInv, OrdersType
<1>3. PICK m \in Sims : m = [id |-> id, step |-> 1, pc |-> "sleep"]
  <2>1. [id |-> id, step |-> 1, pc |-> "sleep"] \in Sims
    BY DEF Sims
  <2> QED BY <2>1
<1>4. m.id = id /\ m.pc = "sleep"
  BY <1>3
<1>5. /\ sims' \in Seq(Sims) /\ Len(sims') = Len(sims) + 1 /\ Len(sims) \in Nat
      /\ sims'[Len(sims) + 1] = m /\ \A k \in 1..Len(sims) : sims'[k] = sims[k]
  BY <1>1, <1>2, <1>3
<1>6. OrdersType'
  BY <1>2, <1>5 DEF OrdersInv, OrdersType, OwnIds
<1>7. \A x : Publishing(x)' <=> Publishing(x)
  <2>1. /\ DOMAIN sims = 1..Len(sims) /\ DOMAIN sims' = 1..Len(sims')
        /\ 1..Len(sims') = 1..Len(sims) \cup {Len(sims) + 1}
    BY <1>2, <1>5
  <2> QED BY <1>4, <1>5, <2>1 DEF Publishing
<1>8. \A x : AtMostOne(x)' => AtMostOne(x)
  <2>1. \A k \in 1..Len(sims) : k \in 1..Len(sims')
    BY <1>5
  <2> QED BY <1>5, <2>1 DEF AtMostOne
<1>9. ASSUME NEW p, Told(p) PROVE Told(p)'
  <2>1. ASSUME NEW k \in 1..Len(sims'), sims'[k].id = p.id, sims'[k].pc = "publish"
        PROVE  k \in 1..Len(sims) /\ sims'[k] = sims[k]
    BY <1>4, <1>5, <2>1
  <2> QED BY <1>2, <1>7, <1>9, <2>1 DEF Told
<1>10. ASSUME NEW p, Follows(p), p.id # id PROVE Follows(p)'
  BY <1>5, <1>8, <1>10 DEF Follows
<1>11. ASSUME NEW i \in 1..Len(orders), orders[i].id = id PROVE orders[i].status = "pending"
  <2>1. Find(orders, id) = i
    BY <1>2, <1>11, FindUnique
  <2>2. i # 0
    BY <1>2
  <2> QED BY <1>1, <2>1, <2>2 DEF StatusOf
<1>12. ASSUME NEW i \in 1..Len(orders'), NEW p, p = orders'[i] PROVE Told(p)' /\ Follows(p)'
  <2>1. i \in 1..Len(orders) /\ p = orders[i] /\ Told(p) /\ Follows(p)
    BY <1>2, <1>12 DEF OrdersInv
  <2>2. CASE p.id = id
    BY <1>9, <1>11, <2>1, <2>2 DEF Follows
  <2>3. CASE p.id # id
    BY <1>9, <1>10, <2>1, <2>3
  <2> QED BY <2>2, <2>3
<1>13. \A i \in 1..Len(orders') : (Told(orders[i]) /\ Follows(orders[i]))'
  BY <1>12
<1> QED BY <1>6, <1>13 DEF OrdersInv

(* The simulator's write is what its broadcast will say.                    *)
LEMMA SimWriteKeeps ==
    ASSUME OrdersInv, NEW k \in 1..Len(sims), SimWrite(k)
    PROVE  OrdersInv'
<1>a. PICK id : id = sims[k].id
  OBVIOUS
<1>b. PICK step : step = sims[k].step
  OBVIOUS
<1>1. /\ orders \in Seq(Orders) /\ OwnIds(orders) /\ sims \in Seq(Sims) /\ sims[k] \in Sims
      /\ UNCHANGED announced
  BY DEF OrdersInv, OrdersType, SimWrite
<1>2. /\ sims[k].pc = "sleep" /\ sims' = [sims EXCEPT ![k].pc = "publish"]
      /\ orders' = IF Find(orders, id) = 0 THEN orders
                   ELSE [orders EXCEPT ![Find(orders, id)] = Written(@, Statuses[step], "topic", FALSE)]
  BY <1>a, <1>b DEF SimWrite
<1>3. id \in OrderIds /\ step \in 1..3 /\ Statuses[step] \in Texts
  <2>1. id \in OrderIds /\ step \in 1..3
    BY <1>1, <1>a, <1>b DEF Sims
  <2> QED BY <2>1, StatusesAre
<1>4. PICK m \in Sims : m = [sims[k] EXCEPT !.pc = "publish"]
  BY <1>1 DEF Sims
<1>5. m.id = id /\ m.pc = "publish" /\ m.step = step
  BY <1>1, <1>a, <1>b, <1>4 DEF Sims
<1>6. sims' = [sims EXCEPT ![k] = m]
  BY <1>2, <1>4
<1>7. /\ sims' \in Seq(Sims) /\ Len(sims') = Len(sims) /\ sims'[k] = m
      /\ \A l \in 1..Len(sims) : l # k => sims'[l] = sims[l]
      /\ \A x : AtMostOne(x)' <=> AtMostOne(x)
  BY <1>1, <1>a, <1>5, <1>6, SimsMoved
<1>d. DOMAIN sims = 1..Len(sims) /\ DOMAIN sims' = 1..Len(sims)
  BY <1>1, <1>7
<1>8. ASSUME NEW p, Told(p), Follows(p), p.id # id PROVE Told(p)' /\ Follows(p)'
  <2>1. \A l \in 1..Len(sims) : sims[l].id = p.id \/ sims'[l].id = p.id => sims'[l] = sims[l]
    BY <1>a, <1>5, <1>7, <1>8
  <2>2. Publishing(p.id)' <=> Publishing(p.id)
    BY <1>d, <2>1 DEF Publishing
  <2>3. Told(p)'
    BY <1>1, <1>7, <1>8, <2>1, <2>2 DEF Told
  <2>4. Follows(p)'
    BY <1>1, <1>7, <1>8, <2>1 DEF Follows
  <2> QED BY <2>3, <2>4
<1>9. CASE Find(orders, id) = 0
  <2>1. orders' = orders /\ \A i \in 1..Len(orders) : orders[i].id # id
    BY <1>1, <1>2, <1>9, FindFacts
  <2>2. OrdersType'
    BY <1>1, <1>7, <2>1 DEF OrdersInv, OrdersType, OwnIds
  <2>3. ASSUME NEW i \in 1..Len(orders'), NEW p, p = orders'[i] PROVE Told(p)' /\ Follows(p)'
    BY <1>8, <2>1, <2>3 DEF OrdersInv
  <2>4. \A i \in 1..Len(orders') : (Told(orders[i]) /\ Follows(orders[i]))'
    BY <2>3
  <2> QED BY <2>2, <2>4 DEF OrdersInv
<1>10. CASE Find(orders, id) # 0
  <2>1. PICK i \in 1..Len(orders) : i = Find(orders, id)
    BY <1>1, <1>10, FindFacts
  <2>2. orders[i] \in Orders /\ orders[i].id = id /\ Follows(orders[i])
    BY <1>1, <1>10, <2>1, FindFacts DEF OrdersInv
  <2>s. PICK status \in Texts : status = Statuses[step]
    BY <1>3
  <2>3. PICK o \in Orders : o = Written(orders[i], status, "topic", FALSE)
    BY <2>2, SimWritten
  <2>4. o.id = id /\ o.id = orders[i].id /\ o.status = Statuses[step] /\ (o.raced <=> Publishing(id))
    <3>1. /\ o.id = orders[i].id /\ o.status = status
          /\ o.raced <=> Publishing(orders[i].id)
      <4>1. PICK old \in Orders : old = orders[i]
        BY <2>2
      <4>2. o = Written(old, status, "topic", FALSE)
        BY <2>3, <4>1
      <4>3. SimWrote(o, old, status)
        BY <4>2, SimWrites, Zenon
      <4> QED BY <4>1, <4>3 DEF SimWrote
    <3> QED BY <2>2, <2>s, <3>1
  <2>5. orders' = [orders EXCEPT ![i] = o]
    BY <1>2, <1>10, <2>1, <2>s, <2>3
  <2>6. /\ orders' \in Seq(Orders) /\ OwnIds(orders)' /\ Len(orders') = Len(orders)
        /\ orders'[i] = o
        /\ \A j \in 1..Len(orders) : j # i => orders'[j] = orders[j] /\ orders[j].id # o.id
    BY <2>2, <2>4, <2>5, Replaced DEF OrdersInv
  <2>7. OrdersType'
    BY <1>1, <1>7, <2>6 DEF OrdersInv, OrdersType
  <2>8. Told(o)'
    <3>1. Publishing(id)'
      BY <1>5, <1>7, <1>d DEF Publishing
    <3>2. ASSUME ~Publishing(id), NEW l \in 1..Len(sims), sims'[l].id = id, sims'[l].pc = "publish"
          PROVE  l = k
      BY <1>7, <1>d, <3>2 DEF Publishing
    <3>3. ASSUME ~o.raced, NEW l \in 1..Len(sims'), sims'[l].id = o.id, sims'[l].pc = "publish"
          PROVE  o.status = Statuses[sims'[l].step]
      BY <1>5, <1>7, <2>4, <3>2, <3>3
    <3> QED BY <2>4, <3>1, <3>3 DEF Told
  <2>9. Follows(o)'
    BY <1>3, <1>5, <1>7, <2>4 DEF Follows
  <2>10. ASSUME NEW j \in 1..Len(orders'), NEW p, p = orders'[j] PROVE Told(p)' /\ Follows(p)'
    <3>1. CASE j = i
      BY <2>6, <2>8, <2>9, <2>10, <3>1
    <3>2. CASE j # i
      BY <1>8, <2>4, <2>6, <2>10, <3>2 DEF OrdersInv
    <3> QED BY <3>1, <3>2
  <2>11. \A j \in 1..Len(orders') : (Told(orders[j]) /\ Follows(orders[j]))'
    BY <2>10
  <2> QED BY <2>7, <2>11 DEF OrdersInv
<1> QED BY <1>9, <1>10

(* A simulator's broadcast tells what is stored, unless the order was       *)
(* written by another since.                                                *)
LEMMA SimPublishKeeps ==
    ASSUME OrdersInv, NEW k \in 1..Len(sims), SimPublish(k)
    PROVE  OrdersInv'
<1>a. PICK id : id = sims[k].id
  OBVIOUS
<1>b. PICK step : step = sims[k].step
  OBVIOUS
<1>1. /\ orders \in Seq(Orders) /\ OwnIds(orders) /\ sims \in Seq(Sims) /\ sims[k] \in Sims
      /\ UNCHANGED orders
  BY DEF OrdersInv, OrdersType, SimPublish
<1>2. id \in OrderIds /\ step \in 1..3 /\ Statuses[step] \in Texts
  <2>1. id \in OrderIds /\ step \in 1..3
    BY <1>1, <1>a, <1>b DEF Sims
  <2> QED BY <2>1, StatusesAre
<1>3. PICK m : m = [sims[k] EXCEPT !.step = Min({@ + 1, 3}), !.pc = IF step = 3 THEN "done" ELSE "sleep"]
  OBVIOUS
<1>4. /\ sims[k].pc = "publish" /\ sims' = [sims EXCEPT ![k] = m]
      /\ announced' = [announced EXCEPT ![id] = Statuses[step]]
  <2>1. Len(Statuses) = 3
    BY StatusesAre
  <2>2. sims' = [sims EXCEPT ![k] = [sims[k] EXCEPT !.step = Min({sims[k].step + 1, Len(Statuses)}),
                                        !.pc = IF sims[k].step = Len(Statuses) THEN "done" ELSE "sleep"]]
    BY DEF SimPublish
  <2>3. [sims[k] EXCEPT !.step = Min({sims[k].step + 1, Len(Statuses)}),
                        !.pc = IF sims[k].step = Len(Statuses) THEN "done" ELSE "sleep"] = m
    BY <1>b, <1>3, <2>1
  <2>4. sims[k].pc = "publish" /\ announced' = [announced EXCEPT ![id] = Statuses[step]]
    BY <1>a, <1>b DEF SimPublish, StatusChanged
  <2> QED BY <2>2, <2>3, <2>4
<1>5. Min({step + 1, 3}) = IF step = 3 THEN 3 ELSE step + 1
  <2>1. {step + 1, 3} \subseteq Nat /\ {step + 1, 3} # {}
    BY <1>2
  <2>2. Min({step + 1, 3}) \in {step + 1, 3} /\ \A x \in {step + 1, 3} : Min({step + 1, 3}) <= x
    BY <2>1, MinOf
  <2> QED BY <1>2, <2>2
<1>6. /\ m \in Sims /\ m.id = id /\ m.pc = (IF step = 3 THEN "done" ELSE "sleep")
      /\ m.step = IF step = 3 THEN 3 ELSE step + 1
  <2>1. PICK to \in 1..3 : to = Min({step + 1, 3}) /\ to = IF step = 3 THEN 3 ELSE step + 1
    BY <1>2, <1>5
  <2>2. PICK pc \in {"sleep", "publish", "done"} : pc = IF step = 3 THEN "done" ELSE "sleep"
    OBVIOUS
  <2>3. m = [sims[k] EXCEPT !.step = to, !.pc = pc]
    BY <1>b, <1>3, <2>1, <2>2
  <2> QED BY <1>1, <1>a, <2>1, <2>2, <2>3 DEF Sims
<1>7. /\ sims' \in Seq(Sims) /\ Len(sims') = Len(sims) /\ sims'[k] = m
      /\ \A l \in 1..Len(sims) : l # k => sims'[l] = sims[l]
      /\ \A x : AtMostOne(x)' <=> AtMostOne(x)
  BY <1>1, <1>4, <1>6, <1>a, SimsMoved
<1>8. /\ announced' \in [OrderIds -> Texts] /\ announced'[id] = Statuses[step]
      /\ \A x \in OrderIds : x # id => announced'[x] = announced[x]
  BY <1>2, <1>4 DEF OrdersInv, OrdersType
<1>9. OrdersType'
  BY <1>1, <1>7, <1>8 DEF OrdersInv, OrdersType, OwnIds
<1>d. DOMAIN sims = 1..Len(sims) /\ DOMAIN sims' = 1..Len(sims)
  BY <1>1, <1>7
<1>10. ASSUME NEW p, Told(p), Follows(p), p.id \in OrderIds, p.id # id
       PROVE  Told(p)' /\ Follows(p)'
  <2>1. \A l \in 1..Len(sims) : sims[l].id = p.id \/ sims'[l].id = p.id => sims'[l] = sims[l]
    BY <1>a, <1>6, <1>7, <1>10
  <2>2. Publishing(p.id)' <=> Publishing(p.id)
    BY <1>d, <2>1 DEF Publishing
  <2>3. Told(p)'
    BY <1>7, <1>8, <1>10, <2>1, <2>2 DEF Told
  <2>4. Follows(p)'
    BY <1>7, <1>10, <2>1 DEF Follows
  <2> QED BY <2>3, <2>4
<1>11. ASSUME NEW p, Told(p), Follows(p), p.id = id PROVE Told(p)' /\ Follows(p)'
  <2>1. m.pc # "publish"
    BY <1>6
  <2>2. ASSUME p.via = "topic", ~p.raced PROVE p.status = Statuses[step]
    BY <1>4, <1>11, <1>a, <1>b, <2>2 DEF Told
  <2>3. ASSUME NEW l \in 1..Len(sims'), sims'[l].pc = "publish"
        PROVE  l \in 1..Len(sims) /\ sims'[l] = sims[l]
    BY <1>7, <2>1, <2>3
  <2>4. Told(p)'
    BY <1>8, <1>11, <2>2, <2>3 DEF Told
  <2>5. Follows(p)'
    <3>1. SUFFICES ASSUME ~p.touched, AtMostOne(p.id), p.status # "pending"
                   PROVE  \E l \in 1..Len(sims'), j \in 1..3 :
                             /\ sims'[l].id = p.id /\ p.status = Statuses[j]
                             /\ j < sims'[l].step \/ (j = sims'[l].step /\ sims'[l].pc # "sleep")
      BY <1>7 DEF Follows
    <3>2. PICK l \in 1..Len(sims), j \in 1..3 :
            /\ sims[l].id = p.id /\ p.status = Statuses[j]
            /\ j < sims[l].step \/ (j = sims[l].step /\ sims[l].pc # "sleep")
      BY <1>11, <3>1 DEF Follows
    <3>3. l = k
      BY <1>11, <1>a, <3>1, <3>2 DEF AtMostOne
    <3>4. j <= step
      BY <1>2, <1>b, <3>2, <3>3
    <3>5. j < m.step \/ (j = m.step /\ m.pc # "sleep")
      BY <1>2, <1>6, <3>4
    <3> QED BY <1>6, <1>7, <1>11, <3>2, <3>5
  <2> QED BY <2>4, <2>5
<1>12. ASSUME NEW i \in 1..Len(orders'), NEW p, p = orders'[i] PROVE Told(p)' /\ Follows(p)'
  <2>1. i \in 1..Len(orders) /\ p = orders[i] /\ Told(p) /\ Follows(p) /\ p \in Orders
    BY <1>1, <1>12 DEF OrdersInv
  <2>2. p.id \in OrderIds
    BY <2>1 DEF Orders
  <2> QED BY <1>10, <1>11, <2>1, <2>2
<1>13. \A i \in 1..Len(orders') : (Told(orders[i]) /\ Follows(orders[i]))'
  BY <1>12
<1> QED BY <1>9, <1>13 DEF OrdersInv

(* Every step keeps the orders' invariant.                                  *)
LEMMA OrdersStep ==
    ASSUME OrdersInv, [Next]_vars
    PROVE  OrdersInv'
<1>1. OrderStep
  BY OrderKinds DEF OrdersInv
<1>2. CASE UNCHANGED <<orders, sims, announced>>
  BY <1>2 DEF OrdersInv, OrdersType, OwnIds, Told, Follows, Publishing, AtMostOne
<1> QED
  BY <1>1, <1>2, CreatesKeeps, RewritesKeeps, DeletesKeeps, StartsKeeps, ClientWritesKeeps,
     AddsKeeps, SimWriteKeeps, SimPublishKeeps
  DEF OrderStep

(* The store starts without orders.                                         *)
LEMMA OrdersInit ==
    ASSUME Init
    PROVE  OrdersInv
<1>1. orders = <<>> /\ sims = <<>> /\ announced = [i \in OrderIds |-> "silent"]
  BY DEF Init, Silent
<1>2. orders \in Seq(Orders) /\ sims \in Seq(Sims) /\ Len(orders) = 0
  BY <1>1
<1>3. announced \in [OrderIds -> Texts]
  BY <1>1 DEF Texts
<1> QED BY <1>2, <1>3 DEF OrdersInv, OrdersType, OwnIds

(* The orders' invariant holds in every reachable state.                    *)
LEMMA OrdersAlways == Spec => []OrdersInv
  BY OrdersInit, OrdersStep, PTL DEF Spec

(* What customers heard last on an order's topic is its stored status once  *)
(* no broadcast is pending, unless it was written through REST or raced:    *)
(* for any number of customers, orders and simulators.                      *)
THEOREM AnnouncedUnlessRacedHolds == Spec => []AnnouncedUnlessRaced
<1>1. OrdersInv => AnnouncedUnlessRaced
  <2> SUFFICES ASSUME OrdersInv PROVE AnnouncedUnlessRaced
    OBVIOUS
  <2>1. DOMAIN orders = 1..Len(orders)
    BY DEF OrdersInv, OrdersType
  <2> QED BY <2>1 DEF OrdersInv, Told, AnnouncedUnlessRaced
<1> QED BY <1>1, OrdersAlways, PTL

-----------------------------------------------------------------------------
(* Who moves a status.                                                      *)

(* What a step back is not: staying, leaving pending, going on in the       *)
(* simulator's order.                                                       *)
LEMMA ProgressSteps ==
    ASSUME NEW from, NEW to
    PROVE  /\ ~StepsBack(from, from)
           /\ ~StepsBack("pending", to)
           /\ \A j, l \in 1..3 : j <= l => ~StepsBack(Statuses[j], Statuses[l])
<1>1. /\ DOMAIN Progress = 1..4
      /\ Progress[1] = "pending" /\ Progress[2] = "preparing"
      /\ Progress[3] = "ready" /\ Progress[4] = "delivered"
  BY DEF Progress
<1>2. \A i, j \in 1..4 : Progress[i] = Progress[j] => i = j
  BY <1>1
<1>3. \A j \in 1..3 : j + 1 \in 1..4 /\ Statuses[j] = Progress[j + 1]
  BY <1>1, StatusesAre
<1>4. ~StepsBack(from, from)
  BY <1>1, <1>2 DEF StepsBack
<1>5. ~StepsBack("pending", to)
  BY <1>1, <1>2 DEF StepsBack
<1>6. ASSUME NEW j \in 1..3, NEW l \in 1..3, j <= l PROVE ~StepsBack(Statuses[j], Statuses[l])
  <2>1. Statuses[j] = Progress[j + 1] /\ Statuses[l] = Progress[l + 1] /\ j + 1 \in 1..4 /\ l + 1 \in 1..4
    BY <1>3
  <2>2. SUFFICES ASSUME NEW x \in 1..4, NEW y \in 1..4, Progress[x] = Progress[j + 1],
                        Progress[y] = Progress[l + 1], y < x
                 PROVE  FALSE
    BY <1>1, <2>1 DEF StepsBack
  <2>3. x = j + 1 /\ y = l + 1
    BY <1>2, <2>1, <2>2
  <2> QED BY <1>6, <2>2, <2>3
<1> QED BY <1>4, <1>5, <1>6

(* Between two steps an order's status is the same, or a client wrote it,   *)
(* or one simulator of the order did.                                       *)
LEMMA WhoWrites ==
    ASSUME OrdersInv, OrdersInv', OrderStep,
           NEW i \in 1..Len(orders), NEW j \in 1..Len(orders'), orders'[j].id = orders[i].id
    PROVE  \/ orders'[j].status = orders[i].status
           \/ orders'[j].touched
           \/ \E k \in 1..Len(sims) :
                 /\ SimWrite(k) /\ sims[k].id = orders[i].id
                 /\ orders'[j].status = Statuses[sims[k].step]
                 /\ orders'[j].touched <=> orders[i].touched
<1>1. orders \in Seq(Orders) /\ OwnIds(orders) /\ orders' \in Seq(Orders) /\ OwnIds(orders)'
      /\ \A x \in 1..Len(orders) : orders[x] \in Orders
  BY DEF OrdersInv, OrdersType
<1>2. CASE UNCHANGED orders
  BY <1>1, <1>2 DEF OwnIds
<1>3. CASE Creates
  <2>1. PICK id \in OrderIds, its \in Seq(Items) :
          /\ \A x \in 1..Len(orders) : orders[x].id # id
          /\ orders' = Append(orders, [id |-> id, items |-> its, status |-> "pending",
                                       via |-> "new", touched |-> FALSE, raced |-> FALSE])
    BY <1>3 DEF Creates
  <2>2. PICK o : o = [id |-> id, items |-> its, status |-> "pending",
                      via |-> "new", touched |-> FALSE, raced |-> FALSE]
    OBVIOUS
  <2>3. o.id = id
    BY <2>2
  <2>4. /\ Len(orders') = Len(orders) + 1 /\ Len(orders) \in Nat /\ orders'[Len(orders) + 1] = o
        /\ \A x \in 1..Len(orders) : orders'[x] = orders[x]
    BY <1>1, <2>1, <2>2
  <2>5. j \in 1..Len(orders)
    <3>1. orders[i].id # id /\ orders'[j].id # id
      BY <2>1
    <3>2. j # Len(orders) + 1
      BY <2>3, <2>4, <3>1
    <3> QED BY <2>4, <3>2
  <2>6. j = i
    BY <1>1, <2>4, <2>5 DEF OwnIds
  <2> QED BY <2>4, <2>6
<1>4. CASE Deletes
  <2>1. PICK id \in Nat : orders' = Without(orders, id)
    BY <1>4 DEF Deletes
  <2>2. PICK x \in 1..Len(orders) : orders'[j] = orders[x]
    BY <1>1, <2>1, WithoutFacts
  <2>3. x = i
    BY <1>1, <2>2 DEF OwnIds
  <2> QED BY <2>2, <2>3
<1>5. ASSUME NEW x \in 1..Len(orders), NEW o \in Orders, o.id = orders[x].id,
             orders' = [orders EXCEPT ![x] = o]
      PROVE  orders'[j] = orders[i] \/ (i = x /\ j = x /\ orders'[j] = o)
  <2>1. /\ Len(orders') = Len(orders) /\ orders'[x] = o
        /\ \A y \in 1..Len(orders) : y # x => orders'[y] = orders[y] /\ orders[y].id # o.id
    BY <1>1, <1>5, Replaced DEF OrdersInv
  <2>2. CASE j = x
    BY <1>1, <1>5, <2>1, <2>2 DEF OwnIds
  <2>3. CASE j # x
    BY <1>1, <2>1, <2>3 DEF OwnIds
  <2> QED BY <2>2, <2>3
<1>6. CASE Rewrites
  <2>1. PICK x \in 1..Len(orders), status \in Texts :
          orders' = [orders EXCEPT ![x] = Written(@, status, "rest", TRUE)]
    BY <1>6 DEF Rewrites
  <2>2. PICK o \in Orders : o = Written(orders[x], status, "rest", TRUE)
    BY <1>1, ClientWritten
  <2>o. orders[x] \in Orders
    BY <1>1
  <2>3. o.id = orders[x].id /\ o.touched
    BY <2>o, <2>2, ClientWritten, ZenonT(30)
  <2>4. orders' = [orders EXCEPT ![x] = o]
    BY <2>1, <2>2
  <2> QED BY <1>5, <2>3, <2>4
<1>7. CASE ClientWrites
  <2>1. PICK id \in OrderIds, status \in Texts :
          orders' = IF Find(orders, id) = 0 THEN orders
                    ELSE [orders EXCEPT ![Find(orders, id)] = Written(@, status, "topic", TRUE)]
    BY <1>7 DEF ClientWrites
  <2>2. CASE Find(orders, id) = 0
    BY <1>2, <2>1, <2>2
  <2>3. CASE Find(orders, id) # 0
    <3>1. PICK x \in 1..Len(orders) : x = Find(orders, id)
      BY <1>1, <2>3, FindFacts
    <3>2. PICK o \in Orders : o = Written(orders[x], status, "topic", TRUE)
      BY <1>1, ClientWritten
    <3>o. orders[x] \in Orders
      BY <1>1
    <3>3. o.id = orders[x].id /\ o.touched
      BY <3>o, <3>2, ClientWritten, ZenonT(30)
    <3>4. orders' = [orders EXCEPT ![x] = o]
      BY <2>1, <2>3, <3>1, <3>2
    <3> QED BY <1>5, <3>3, <3>4
  <2> QED BY <2>2, <2>3
<1>8. CASE Adds
  <2>1. PICK x \in 1..Len(orders), item \in Items :
          orders' = [orders EXCEPT ![x].items = Append(@, item)]
    BY <1>8 DEF Adds
  <2>2. PICK o : o = [orders[x] EXCEPT !.items = Append(@, item)]
    OBVIOUS
  <2>3. orders[x].items \in Seq(Items) /\ Append(orders[x].items, item) \in Seq(Items)
    BY <1>1 DEF Orders
  <2>4. o \in Orders /\ o.id = orders[x].id /\ o.status = orders[x].status
    BY <1>1, <2>2, <2>3 DEF Orders
  <2>5. orders' = [orders EXCEPT ![x] = o]
    BY <2>1, <2>2
  <2> QED BY <1>5, <2>4, <2>5
<1>9. ASSUME NEW k \in 1..Len(sims), SimWrite(k)
      PROVE  \/ orders'[j].status = orders[i].status
             \/ /\ sims[k].id = orders[i].id
                /\ orders'[j].status = Statuses[sims[k].step]
                /\ orders'[j].touched <=> orders[i].touched
  <2>a. PICK id : id = sims[k].id
    OBVIOUS
  <2>1. orders' = IF Find(orders, id) = 0 THEN orders
                  ELSE [orders EXCEPT ![Find(orders, id)]
                                        = Written(@, Statuses[sims[k].step], "topic", FALSE)]
    BY <1>9, <2>a DEF SimWrite
  <2>2. CASE Find(orders, id) = 0
    BY <1>1, <2>1, <2>2 DEF OwnIds
  <2>3. CASE Find(orders, id) # 0
    <3>1. PICK x \in 1..Len(orders) : x = Find(orders, id) /\ orders[x].id = id
      BY <1>1, <2>3, FindFacts
    <3>2. sims[k] \in Sims
      BY DEF OrdersInv, OrdersType
    <3>3. sims[k].step \in 1..3
      BY <3>2 DEF Sims
    <3>4. PICK status \in Texts : status = Statuses[sims[k].step]
      BY <3>3, StatusesAre
    <3>5. PICK o \in Orders : o = Written(orders[x], status, "topic", FALSE)
      BY <1>1, SimWritten
    <3>6. o.id = orders[x].id /\ o.status = status /\ (o.touched <=> orders[x].touched)
      <4>1. PICK old \in Orders : old = orders[x]
        BY <1>1
      <4>2. o = Written(old, status, "topic", FALSE)
        BY <3>5, <4>1
      <4>3. SimWrote(o, old, status)
        BY <4>2, SimWrites, Zenon
      <4> QED BY <4>1, <4>3 DEF SimWrote
    <3>7. orders' = [orders EXCEPT ![x] = o]
      BY <2>1, <2>3, <3>1, <3>4, <3>5
    <3>8. orders'[j] = orders[i] \/ (i = x /\ orders'[j] = o)
      BY <1>5, <3>5, <3>6, <3>7
    <3> QED BY <2>a, <3>1, <3>4, <3>5, <3>6, <3>8
  <2> QED BY <2>2, <2>3
<1>10. ASSUME NEW k \in 1..Len(sims), SimPublish(k) PROVE UNCHANGED orders
  BY <1>10 DEF SimPublish
<1>11. CASE Starts
  BY <1>2, <1>11 DEF Starts
<1>12. CASE \E k \in 1..Len(sims) : SimWrite(k)
  BY <1>9, <1>12
<1> QED BY <1>2, <1>3, <1>4, <1>6, <1>7, <1>8, <1>10, <1>11, <1>12 DEF OrderStep

(* Two simulators of an order are more than one.                            *)
LEMMA MoreThanOne ==
    ASSUME sims \in Seq(Sims), NEW id, ~AtMostOne(id)
    PROVE  Cardinality({k \in DOMAIN sims : sims[k].id = id}) > 1
<1> DEFINE theirs == {k \in DOMAIN sims : sims[k].id = id}
<1>1. PICK k \in 1..Len(sims), l \in 1..Len(sims) : sims[k].id = id /\ sims[l].id = id /\ k # l
  BY DEF AtMostOne
<1>2. DOMAIN sims = 1..Len(sims) /\ Len(sims) \in Nat
  OBVIOUS
<1>3. IsFiniteSet(1..Len(sims)) /\ theirs \subseteq 1..Len(sims)
  BY <1>2, FS_Interval
<1>4. {k, l} \subseteq theirs /\ k # l
  BY <1>1, <1>2
<1> HIDE DEF theirs
<1>5. IsFiniteSet(theirs)
  BY <1>3, FS_Subset
<1>6. Cardinality({k, l}) <= Cardinality(theirs) /\ IsFiniteSet({k, l})
  BY <1>4, <1>5, FS_Subset
<1>7. Cardinality({k}) = 1 /\ IsFiniteSet({k})
  BY FS_Singleton
<1>8. Cardinality({k} \cup {l}) = 2
  <2>1. l \notin {k}
    BY <1>4
  <2>2. PICK one : one = {k} /\ IsFiniteSet(one) /\ Cardinality(one) = 1
    BY <1>7
  <2>3. Cardinality(one \cup {l}) = IF l \in one THEN Cardinality(one) ELSE Cardinality(one) + 1
    BY <2>2, FS_AddElement
  <2>4. l \notin one /\ one \cup {l} = {k} \cup {l}
    BY <2>1, <2>2
  <2>5. Cardinality(one \cup {l}) = 2
    BY <2>2, <2>3, <2>4
  <2> QED BY <2>4, <2>5, Zenon
<1>9. Cardinality({k, l}) = 2
  <2>1. {k} \cup {l} = {k, l}
    OBVIOUS
  <2> QED BY <1>8, <2>1, Zenon
<1>10. Cardinality(theirs) \in Nat
  BY <1>5, FS_CardinalityType
<1>11. Cardinality(theirs) > 1
  <2>1. PICK few : few = Cardinality({k, l})
    OBVIOUS
  <2>2. PICK all : all = Cardinality(theirs)
    OBVIOUS
  <2>3. few <= all /\ few = 2 /\ all \in Nat
    BY <1>6, <1>9, <1>10, <2>1, <2>2, Zenon
  <2> QED BY <2>2, <2>3
<1> QED BY <1>11 DEF theirs

(* The status of an order moves forward only, unless a client rewrote it or *)
(* two simulators were started for its id, however many customers join.     *)
THEOREM StepsBackOnlyInARaceHolds == Spec => StepsBackOnlyInARace
<1> DEFINE Racing(id) ==
        LET i == Find(orders, id)
            j == Find(orders', id)
        IN  i # 0 /\ j # 0 /\ StepsBack(orders[i].status, orders'[j].status) =>
              \/ orders'[j].touched
              \/ Cardinality({k \in DOMAIN sims : sims[k].id = id}) > 1
<1>1. ASSUME OrdersInv, OrdersInv', [Next]_vars, NEW id \in OrderIds PROVE Racing(id)
  <2>1. OrderStep
    BY <1>1, OrderKinds DEF OrdersInv
  <2>2. SUFFICES ASSUME NEW i \in 1..Len(orders), NEW j \in 1..Len(orders'),
                        i = Find(orders, id), j = Find(orders', id),
                        orders[i].id = id, orders'[j].id = id,
                        StepsBack(orders[i].status, orders'[j].status),
                        ~orders'[j].touched, AtMostOne(id)
                 PROVE  FALSE
    <3>1. orders \in Seq(Orders) /\ orders' \in Seq(Orders) /\ sims \in Seq(Sims)
      BY <1>1 DEF OrdersInv, OrdersType
    <3>2. ~AtMostOne(id) => Cardinality({k \in DOMAIN sims : sims[k].id = id}) > 1
      BY <3>1, MoreThanOne
    <3>3. Find(orders, id) # 0 => Find(orders, id) \in 1..Len(orders) /\ orders[Find(orders, id)].id = id
      BY <3>1, FindFacts
    <3>4. Find(orders', id) # 0 => Find(orders', id) \in 1..Len(orders') /\ orders'[Find(orders', id)].id = id
      BY <3>1, FindFacts
    <3> QED BY <3>2, <3>3, <3>4
  <2>3. orders'[j].status # orders[i].status
    BY <2>2, ProgressSteps
  <2>4. PICK k \in 1..Len(sims) :
          /\ SimWrite(k) /\ sims[k].id = id
          /\ orders'[j].status = Statuses[sims[k].step]
          /\ orders'[j].touched <=> orders[i].touched
    BY <1>1, <2>1, <2>2, <2>3, WhoWrites
  <2>5. Follows(orders[i]) /\ sims[k] \in Sims /\ sims[k].pc = "sleep"
    BY <1>1, <2>2, <2>4, SMTT(30) DEF OrdersInv, OrdersType, SimWrite
  <2>6. sims[k].step \in 1..3
    BY <2>5 DEF Sims
  <2>7. CASE orders[i].status = "pending"
    BY <2>2, <2>7, ProgressSteps
  <2>8. CASE orders[i].status # "pending"
    <3>1. PICK l \in 1..Len(sims), from \in 1..3 :
            /\ sims[l].id = id /\ orders[i].status = Statuses[from]
            /\ from < sims[l].step \/ (from = sims[l].step /\ sims[l].pc # "sleep")
      BY <2>2, <2>4, <2>5, <2>8 DEF Follows
    <3>2. l = k
      BY <2>2, <2>4, <3>1 DEF AtMostOne
    <3>3. from <= sims[k].step
      BY <2>5, <2>6, <3>1, <3>2
    <3> QED BY <2>2, <2>4, <2>6, <3>1, <3>3, ProgressSteps
  <2> QED BY <2>7, <2>8
<1>2. ASSUME OrdersInv, OrdersInv', [Next]_vars PROVE \A id \in OrderIds : Racing(id)
  BY <1>1, <1>2
<1>3. OrdersInv /\ OrdersInv' /\ [Next]_vars => [\A id \in OrderIds : Racing(id)]_vars
  BY <1>2
<1> QED BY <1>3, OrdersAlways, PTL DEF Spec, StepsBackOnlyInARace

-----------------------------------------------------------------------------
(* What a price stream's client will have seen.                             *)

(* One update more leaves a view of prices.                                 *)
LEMMA ShowsFacts ==
    ASSUME NEW v \in Views, NEW u \in Updates
    PROVE  /\ Shows(v, u) \in Views
           /\ DOMAIN Shows(v, u) = {u.id} \cup DOMAIN v
           /\ Shows(v, u)[u.id] = u.price
           /\ \A id \in DOMAIN v : id # u.id => Shows(v, u)[id] = v[id]
<1>1. PICK D \in SUBSET Nat : v \in [D -> Int]
  BY DEF Views
<1>2. u.id \in Nat /\ u.price \in Int
  BY DEF Updates
<1>3. Shows(v, u) \in [{u.id} \cup D -> Int]
  BY <1>1, <1>2 DEF Shows
<1>4. {u.id} \cup D \in SUBSET Nat
  BY <1>1, <1>2
<1>5. Shows(v, u) \in Views
  BY <1>3, <1>4, Zenon DEF Views
<1> QED BY <1>1, <1>5 DEF Shows

(* The fold over the updates goes through one view per update.              *)
LEMMA ShowsSteps ==
    ASSUME NEW base \in Views, NEW seq \in Seq(Updates)
    PROVE  \E f \in [0..Len(seq) -> Views] :
              /\ FoldLeft(Shows, base, seq) = f[Len(seq)]
              /\ f[0] = base
              /\ \A i \in 1..Len(seq) : f[i] = Shows(f[i - 1], seq[i])
<1> DEFINE n == Len(seq)
           step == [i \in 1..n |-> [v \in Views |-> Shows(v, seq[i])]]
           Def(h) == [P \in SUBSET (1..n) |->
                        IF P = {} THEN base ELSE Shows(h[P \ {Max(P)}], seq[Max(P)])]
           g == CHOOSE h : h = Def(h)
<1>1. n \in Nat /\ DOMAIN seq = 1..n /\ \A i \in 1..n : seq[i] \in Updates
  OBVIOUS
<1>2. step \in [1..n -> [Views -> Views]]
  BY <1>1, ShowsFacts
<1>3. PICK it \in [SUBSET (1..n) -> Views] : SetRecurs(it, n, base, step)
  <2> HIDE DEF step, n
  <2> QED BY <1>1, <1>2, SetStepsDefine
<1>4. it[{}] = base
  BY <1>3 DEF SetRecurs
<1>5. ASSUME NEW P \in SUBSET (1..n), P # {}
      PROVE  it[P] = Shows(it[P \ {Max(P)}], seq[Max(P)])
  <2>1. Max(P) \in 1..n /\ P \ {Max(P)} \in SUBSET (1..n)
    BY <1>1, <1>5, MaxOf
  <2>2. it[P] = step[Max(P)][it[P \ {Max(P)}]] /\ it[P \ {Max(P)}] \in Views
    <3> HIDE DEF step
    <3> QED BY <1>3, <1>5, <2>1 DEF SetRecurs
  <2> QED BY <2>1, <2>2
<1>6. it = Def(it)
  <2>1. it = [P \in SUBSET (1..n) |-> it[P]]
    BY <1>3
  <2>2. ASSUME NEW P \in SUBSET (1..n)
        PROVE  it[P] = IF P = {} THEN base ELSE Shows(it[P \ {Max(P)}], seq[Max(P)])
    BY <1>4, <1>5
  <2> HIDE DEF n
  <2> QED BY <2>1, <2>2
<1>7. g = Def(g)
  <2> HIDE DEF Def
  <2> QED BY <1>6
<1>8. /\ g[{}] = base
      /\ \A P \in SUBSET (1..n) : P # {} => g[P] = Shows(g[P \ {Max(P)}], seq[Max(P)])
  <2> HIDE DEF g, n
  <2>1. \A P \in SUBSET (1..n) :
           g[P] = IF P = {} THEN base ELSE Shows(g[P \ {Max(P)}], seq[Max(P)])
    BY <1>7
  <2> QED BY <2>1
<1>9. \A k \in 0..n : g[1..k] = it[1..k]
  <2> DEFINE T == {k \in 0..n : g[1..k] = it[1..k]}
  <2> HIDE DEF g, n
  <2>1. 0 \in T
    <3>1. 1..0 = {}
      OBVIOUS
    <3> QED BY <1>1, <1>4, <1>8, <3>1
  <2>2. ASSUME NEW k \in 0..(n - 1), k \in T PROVE k + 1 \in T
    <3>1. /\ k + 1 \in 0..n /\ 1..(k + 1) \in SUBSET (1..n) /\ 1..(k + 1) # {}
          /\ Max(1..(k + 1)) = k + 1 /\ (1..(k + 1)) \ {k + 1} = 1..k
      BY <1>1, FirstPlaces
    <3>2. g[1..(k + 1)] = Shows(g[1..k], seq[k + 1])
      BY <1>8, <3>1
    <3>3. it[1..(k + 1)] = Shows(it[1..k], seq[k + 1])
      BY <1>5, <3>1
    <3>4. g[1..k] = it[1..k]
      BY <2>2
    <3> QED BY <3>1, <3>2, <3>3, <3>4
  <2> HIDE DEF T
  <2>3. \A k \in 0..n : k \in T
    BY <1>1, <2>1, <2>2, UpTo
  <2> QED BY <2>3 DEF T
<1>10. FoldLeft(Shows, base, seq) = g[1..n]
  BY <1>1 DEF FoldLeft, MapThenFoldSet
<1> DEFINE f == [k \in 0..n |-> it[1..k]]
<1>11. f \in [0..n -> Views] /\ f[n] = it[1..n] /\ f[0] = base
  <2>1. 1..0 = {} /\ 0 \in 0..n /\ n \in 0..n
    BY <1>1
  <2>2. \A k \in 0..n : 1..k \in SUBSET (1..n)
    BY <1>1
  <2> HIDE DEF n
  <2> QED BY <1>3, <1>4, <2>1, <2>2
<1>12. ASSUME NEW i \in 1..n PROVE f[i] = Shows(f[i - 1], seq[i])
  <2>1. PICK k \in 0..(n - 1) : i = k + 1
    <3>1. i - 1 \in 0..(n - 1) /\ i = (i - 1) + 1
      BY <1>1
    <3> QED BY <3>1
  <2>2. /\ k \in 0..n /\ k + 1 \in 0..n /\ 1..(k + 1) \in SUBSET (1..n) /\ 1..(k + 1) # {}
        /\ Max(1..(k + 1)) = k + 1 /\ (1..(k + 1)) \ {k + 1} = 1..k /\ (k + 1) - 1 = k
    BY <1>1, FirstPlaces
  <2>3. it[1..(k + 1)] = Shows(it[1..k], seq[k + 1])
    BY <1>5, <2>2
  <2> HIDE DEF n
  <2> QED BY <2>1, <2>2, <2>3
<1>13. FoldLeft(Shows, base, seq) = f[n]
  <2> HIDE DEF g
  <2> QED BY <1>1, <1>9, <1>10, <1>11
<1> QED BY <1>11, <1>12, <1>13

(* A sequence of updates, one appended.                                     *)
LEMMA ShowsAppend ==
    ASSUME NEW v \in Views, NEW s \in Seq(Updates), NEW u \in Updates
    PROVE  /\ FoldLeft(Shows, v, s) \in Views
           /\ FoldLeft(Shows, v, Append(s, u)) = Shows(FoldLeft(Shows, v, s), u)
<1> DEFINE n == Len(s)
           r == Append(s, u)
<1>1. /\ n \in Nat /\ r \in Seq(Updates) /\ Len(r) = n + 1 /\ r[n + 1] = u
      /\ \A i \in 1..n : r[i] = s[i]
  OBVIOUS
<1>2. PICK f \in [0..n -> Views] :
        FoldLeft(Shows, v, s) = f[n] /\ f[0] = v /\ \A i \in 1..n : f[i] = Shows(f[i - 1], s[i])
  BY ShowsSteps
<1> HIDE DEF n, r
<1>3. PICK g \in [0..(n + 1) -> Views] :
        FoldLeft(Shows, v, r) = g[n + 1] /\ g[0] = v
        /\ \A i \in 1..(n + 1) : g[i] = Shows(g[i - 1], r[i])
  <2>1. PICK m : m = n + 1
    OBVIOUS
  <2>2. r \in Seq(Updates) /\ Len(r) = m
    BY <1>1, <2>1
  <2>3. \E g \in [0..m -> Views] :
           FoldLeft(Shows, v, r) = g[m] /\ g[0] = v /\ \A i \in 1..m : g[i] = Shows(g[i - 1], r[i])
    BY <2>2, ShowsSteps, ZenonT(30)
  <2> QED BY <2>1, <2>3
<1>4. \A k \in 0..n : f[k] = g[k]
  <2> DEFINE T == {k \in 0..n : f[k] = g[k]}
  <2>1. 0 \in T
    BY <1>1, <1>2, <1>3
  <2>2. ASSUME NEW k \in 0..(n - 1), k \in T PROVE k + 1 \in T
    <3>1. k + 1 \in 1..n /\ k + 1 \in 1..(n + 1) /\ k + 1 \in 0..n /\ (k + 1) - 1 = k
      BY <1>1
    <3>2. f[k + 1] = Shows(f[k], s[k + 1]) /\ g[k + 1] = Shows(g[k], s[k + 1])
      BY <1>1, <1>2, <1>3, <3>1
    <3> QED BY <2>2, <3>1, <3>2
  <2> HIDE DEF T
  <2>3. \A k \in 0..n : k \in T
    BY <1>1, <2>1, <2>2, UpTo
  <2> QED BY <2>3 DEF T
<1>5. n + 1 \in 1..(n + 1) /\ (n + 1) - 1 = n /\ n \in 0..n
  BY <1>1
<1>6. FoldLeft(Shows, v, r) = Shows(FoldLeft(Shows, v, s), u)
  BY <1>1, <1>2, <1>3, <1>4, <1>5
<1>7. FoldLeft(Shows, v, s) \in Views
  BY <1>2, <1>5
<1> QED BY <1>6, <1>7 DEF r

(* A sequence of updates, without the first.                                *)
LEMMA ShowsCons ==
    ASSUME NEW v \in Views, NEW s \in Seq(Updates), s # <<>>
    PROVE  FoldLeft(Shows, v, s) = FoldLeft(Shows, Shows(v, Head(s)), Tail(s))
<1> DEFINE n == Len(s)
           r == Tail(s)
<1>1. /\ n \in Nat /\ n > 0 /\ r \in Seq(Updates) /\ Len(r) = n - 1 /\ Head(s) = s[1]
      /\ s[1] \in Updates /\ \A i \in 1..(n - 1) : r[i] = s[i + 1]
  OBVIOUS
<1>2. PICK f \in [0..n -> Views] :
        FoldLeft(Shows, v, s) = f[n] /\ f[0] = v /\ \A i \in 1..n : f[i] = Shows(f[i - 1], s[i])
  BY ShowsSteps
<1>3. PICK b \in Views : b = Shows(v, Head(s))
  BY <1>1, ShowsFacts
<1> HIDE DEF n, r
<1>4. PICK g \in [0..(n - 1) -> Views] :
        FoldLeft(Shows, b, r) = g[n - 1] /\ g[0] = b
        /\ \A i \in 1..(n - 1) : g[i] = Shows(g[i - 1], r[i])
  BY <1>1, ShowsSteps, SMTT(30)
<1>5. \A k \in 0..(n - 1) : g[k] = f[k + 1]
  <2> DEFINE T == {k \in 0..(n - 1) : g[k] = f[k + 1]}
  <2>1. 0 \in T
    <3>1. 1 \in 1..n /\ 1 - 1 = 0 /\ 0 \in 0..(n - 1) /\ 0 + 1 = 1
      BY <1>1
    <3>2. f[1] = Shows(f[0], s[1])
      BY <1>2, <3>1
    <3> QED BY <1>1, <1>2, <1>3, <1>4, <3>1, <3>2
  <2>2. ASSUME NEW k \in 0..((n - 1) - 1), k \in T PROVE k + 1 \in T
    <3>1. /\ k + 1 \in 1..(n - 1) /\ (k + 1) + 1 \in 1..n /\ k + 1 \in 0..(n - 1)
          /\ (k + 1) - 1 = k /\ ((k + 1) + 1) - 1 = k + 1
      BY <1>1
    <3>2. f[(k + 1) + 1] = Shows(f[k + 1], s[(k + 1) + 1])
      BY <1>2, <3>1
    <3>3. g[k + 1] = Shows(g[k], s[(k + 1) + 1])
      BY <1>1, <1>4, <3>1
    <3> QED BY <2>2, <3>1, <3>2, <3>3
  <2> HIDE DEF T
  <2>0. n - 1 \in Nat
    BY <1>1
  <2>3. \A k \in 0..(n - 1) : k \in T
    BY <2>0, <2>1, <2>2, UpTo
  <2> QED BY <2>3 DEF T
<1>6. n - 1 \in 0..(n - 1) /\ (n - 1) + 1 = n
  BY <1>1
<1>7. FoldLeft(Shows, v, s) = FoldLeft(Shows, b, r)
  BY <1>2, <1>4, <1>5, <1>6
<1> QED BY <1>3, <1>7 DEF r

(* A page that was told nothing shows what it showed.                       *)
LEMMA ShowsNone ==
    ASSUME NEW v \in Views
    PROVE  FoldLeft(Shows, v, <<>>) = v
<1>1. <<>> \in Seq(Updates) /\ Len(<<>>) = 0
  OBVIOUS
<1>2. PICK f \in [0..Len(<<>>) -> Views] : FoldLeft(Shows, v, <<>>) = f[Len(<<>>)] /\ f[0] = v
  BY <1>1, ShowsSteps, ZenonT(30), SMTT(30)
<1> QED BY <1>1, <1>2, Zenon

-----------------------------------------------------------------------------
(* Flavors and their prices.                                                *)

FlavorsType ==
    /\ flavors \in Seq(Flavors) /\ OwnIds(flavors)
    /\ poisoned \in BOOLEAN
    /\ ticker \in [tick : Nat, pc : {"sleep", "publish", "dead"}, id : Nat, price : Int]
    /\ stream \in [pc : {"closed", "open", "gone"}, queue : Seq(Updates), seen : Views,
                   moved : SUBSET Nat]

(* Whoever panics under the lock is the price thread, which is over then,   *)
(* so that nothing moves away from what made it panic.                      *)
PoisonInv ==
    /\ PoisonedForACause
    /\ poisoned => ticker.pc = "dead"

FlavorsInv ==
    /\ FlavorsType
    /\ PoisonInv
    /\ \A id \in stream.moved : Find(flavors, id) # 0
    /\ StreamShowsMovedPrices

(* What clients do to the flavors: nothing under a poisoned lock.           *)
FlavorsWritten ==
    /\ flavors' \in Seq(Flavors) /\ OwnIds(flavors')
    /\ poisoned => flavors' = flavors
    /\ stream' = [stream EXCEPT !.moved = StillMoved(flavors')]
    /\ UNCHANGED <<poisoned, ticker>>

Opens ==
    /\ stream' = [pc |-> "open", queue |-> <<>>, seen |-> <<>>, moved |-> {}]
    /\ UNCHANGED <<flavors, poisoned, ticker>>

FlavorStep ==
    \/ UNCHANGED <<flavors, poisoned, ticker, stream>>
    \/ FlavorsWritten \/ Opens
    \/ \E delta \in Deltas : Tick(delta)
    \/ TickPublish \/ StreamForward \/ StreamClientGone

(* A step that leaves a poisoned lock's flavors and the price thread alone  *)
(* keeps the cause.                                                         *)
LEMMA CauseStays ==
    ASSUME PoisonInv, poisoned' = poisoned,
           poisoned => UNCHANGED <<flavors, ticker>>
    PROVE  PoisonInv'
BY DEF PoisonInv, PoisonedForACause, IndexAt, Overflows, AsSigned

(* Prices are integers.                                                     *)
LEMMA PricesAreInts == Prices \subseteq Int
BY StoreAssumption DEF Prices

(* A flavor is replaced by one with the same id.                            *)
LEMMA FlavorReplaced ==
    ASSUME NEW fs \in Seq(Flavors), OwnIds(fs), NEW i \in 1..Len(fs),
           NEW f \in Flavors, f.id = fs[i].id
    PROVE  LET new == [fs EXCEPT ![i] = f]
           IN  /\ new \in Seq(Flavors) /\ OwnIds(new) /\ Len(new) = Len(fs) /\ new[i] = f
               /\ \A j \in 1..Len(fs) : j # i => new[j] = fs[j]
               /\ \A id : Find(new, id) = Find(fs, id)
<1>a. PICK new : new = [fs EXCEPT ![i] = f]
  OBVIOUS
<1>1. /\ new \in Seq(Flavors) /\ Len(new) = Len(fs) /\ new[i] = f
      /\ \A j \in 1..Len(fs) : j # i => new[j] = fs[j]
  BY <1>a
<1>2. \A j \in 1..Len(fs) : new[j].id = fs[j].id
  BY <1>1
<1>3. OwnIds(new)
  BY <1>1, <1>2 DEF OwnIds
<1>4. ASSUME NEW id PROVE Find(new, id) = Find(fs, id)
  <2>1. DOMAIN new = DOMAIN fs /\ DOMAIN fs = 1..Len(fs)
    BY <1>1
  <2>2. {j \in DOMAIN new : new[j].id = id} = {j \in DOMAIN fs : fs[j].id = id}
    BY <1>2, <2>1
  <2> QED BY <2>2 DEF Find
<1> QED BY <1>a, <1>1, <1>3, <1>4, Zenon

(* What a request leaves in the store are flavors with ids of their own.    *)
LEMMA EffectFacts ==
    ASSUME FlavorsType, NEW req \in Requests, Handler(req) \in FlavorHandlers
    PROVE  /\ FlavorEffect(req).flavors \in Seq(Flavors) /\ OwnIds(FlavorEffect(req).flavors)
           /\ BadJson(req) => FlavorEffect(req).flavors = flavors
<1> DEFINE id == IdParam(req)
           i  == Find(flavors, id)
           new == [id |-> NextId(flavors), price |-> Field(req.body, "price", 0),
                   in_stock |-> Field(req.body, "in_stock", TRUE)]
           changed == [id |-> id, price |-> Field(req.body, "price", flavors[i].price),
                       in_stock |-> Field(req.body, "in_stock", flavors[i].in_stock)]
           fs == FlavorEffect(req).flavors
<1>1. flavors \in Seq(Flavors) /\ OwnIds(flavors) /\ Len(flavors) \in Nat
  BY DEF FlavorsType
<1>2. id \in Nat
  BY ParseFacts DEF IdParam
<1>3. \A k \in 1..Len(flavors) : flavors[k] \in Flavors
  BY <1>1
<1>4. \A k \in 1..Len(flavors) : flavors[k].id \in Nat /\ flavors[k].price \in Int /\ flavors[k].in_stock \in BOOLEAN
  BY <1>3 DEF Flavors
<1>5. ASSUME NEW p \in Int, NEW b \in BOOLEAN
      PROVE  Field(req.body, "price", p) \in Int /\ Field(req.body, "in_stock", b) \in BOOLEAN
  BY StoreAssumption, PricesAreInts DEF Field
<1>6. \/ fs = flavors
      \/ Handler(req) = "create" /\ ~BadJson(req) /\ fs = Append(flavors, new)
      \/ Handler(req) = "update" /\ ~BadJson(req) /\ i # 0 /\ fs = [flavors EXCEPT ![i] = changed]
      \/ Handler(req) = "delete" /\ i # 0 /\ fs = Without(flavors, id)
  <2> HIDE DEF id, i, new, changed
  <2>1. CASE Handler(req) \in {"all", "index", "in_stock", "show"}
    BY <2>1 DEF FlavorEffect, BadJson, id, i, new, changed
  <2>2. CASE BadJson(req)
    BY <2>2 DEF FlavorEffect, BadJson, id, i, new, changed
  <2>3. CASE Handler(req) = "create" /\ ~BadJson(req)
    BY <2>3 DEF FlavorEffect, id, i, new, changed
  <2>4. CASE Handler(req) = "update" /\ ~BadJson(req)
    BY <2>4 DEF FlavorEffect, id, i, new, changed
  <2>5. CASE Handler(req) = "delete" /\ ~BadJson(req)
    BY <2>5 DEF FlavorEffect, id, i, new, changed
  <2> QED BY <2>1, <2>2, <2>3, <2>4, <2>5 DEF FlavorHandlers
<1>7. BadJson(req) => Handler(req) # "delete"
  BY DEF BadJson
<1>8. CASE fs = flavors
  BY <1>1, <1>8
<1>9. CASE Handler(req) = "create" /\ ~BadJson(req) /\ fs = Append(flavors, new)
  <2>1. NextId(flavors) \in Nat /\ \A k \in 1..Len(flavors) : flavors[k].id # NextId(flavors)
    BY <1>1, <1>4, NextIdFacts
  <2>2. Field(req.body, "price", 0) \in Int /\ Field(req.body, "in_stock", TRUE) \in BOOLEAN
    <3>1. 0 \in Int
      OBVIOUS
    <3>2. PICK b \in BOOLEAN : b = TRUE
      OBVIOUS
    <3>3. Field(req.body, "price", 0) \in Int /\ Field(req.body, "in_stock", b) \in BOOLEAN
      BY <1>5, <3>1
    <3> QED BY <3>2, <3>3
  <2>3. new \in Flavors /\ new.id = NextId(flavors)
    BY <2>1, <2>2 DEF Flavors
  <2> HIDE DEF new
  <2>4. /\ fs \in Seq(Flavors) /\ Len(fs) = Len(flavors) + 1 /\ fs[Len(flavors) + 1] = new
        /\ \A k \in 1..Len(flavors) : fs[k] = flavors[k]
    <3> HIDE DEF fs
    <3> QED BY <1>1, <1>9, <2>3
  <2> HIDE DEF fs
  <2>5. ASSUME NEW k \in 1..Len(fs), NEW l \in 1..Len(fs), fs[k].id = fs[l].id PROVE k = l
    <3>1. k \in 1..Len(flavors) \/ k = Len(flavors) + 1
      BY <1>1, <2>4
    <3>2. l \in 1..Len(flavors) \/ l = Len(flavors) + 1
      BY <1>1, <2>4
    <3> QED BY <1>1, <2>1, <2>3, <2>4, <2>5, <3>1, <3>2 DEF OwnIds
  <2>6. OwnIds(fs)
    BY <2>5 DEF OwnIds
  <2> QED BY <1>9, <2>4, <2>6 DEF fs
<1>10. CASE Handler(req) = "update" /\ ~BadJson(req) /\ i # 0 /\ fs = [flavors EXCEPT ![i] = changed]
  <2>1. i \in 1..Len(flavors) /\ flavors[i].id = id
    BY <1>1, <1>10, FindFacts
  <2> HIDE DEF i
  <2>2. Field(req.body, "price", flavors[i].price) \in Int
        /\ Field(req.body, "in_stock", flavors[i].in_stock) \in BOOLEAN
    BY <1>4, <1>5, <2>1
  <2>3. changed \in Flavors /\ changed.id = flavors[i].id
    <3> HIDE DEF id
    <3> QED BY <1>2, <2>1, <2>2 DEF Flavors
  <2> HIDE DEF changed, fs
  <2>4. fs \in Seq(Flavors) /\ OwnIds(fs)
    BY <1>1, <1>10, <2>1, <2>3, FlavorReplaced
  <2> QED BY <1>10, <2>4 DEF fs
<1>11. CASE Handler(req) = "delete" /\ i # 0 /\ fs = Without(flavors, id)
  <2> HIDE DEF id, fs
  <2>1. fs \in Seq(Flavors) /\ OwnIds(fs)
    BY <1>1, <1>11, WithoutFacts
  <2> QED BY <1>7, <1>11, <2>1 DEF fs
<1> QED
  <2> HIDE DEF fs, id, i, new, changed
  <2> QED BY <1>6, <1>8, <1>9, <1>10, <1>11 DEF fs

(* Every step of the application is one of these for the flavors.           *)
LEMMA FlavorKinds ==
    ASSUME FlavorsType, [Next]_vars
    PROVE  FlavorStep
<1> USE StoreAssumption
<1>1. CASE UNCHANGED vars
  BY <1>1 DEF vars, FlavorStep
<1>2. ASSUME NEW w \in Workers, AnnounceOrder(w) PROVE FlavorStep
  BY <1>2 DEF AnnounceOrder, FlavorStep
<1>3. ASSUME NEW w \in Workers, NEW req \in Requests,
             AnswerFixed(w, req) \/ FlavorRequestPanics(w, req) \/ OrderRequest(w, req)
      PROVE  FlavorStep
  <2>1. UNCHANGED <<flavors, poisoned, ticker, stream>>
    BY <1>3 DEF AnswerFixed, FlavorRequestPanics, OrderRequest
  <2> QED BY <2>1 DEF FlavorStep
<1>4. ASSUME NEW w \in Workers, NEW req \in Requests, FlavorRequest(w, req) PROVE FlavorStep
  <2>1. /\ Handler(req) \in FlavorHandlers
        /\ poisoned => BadJson(req)
        /\ flavors' = FlavorEffect(req).flavors
        /\ stream' = [stream EXCEPT !.moved = StillMoved(FlavorEffect(req).flavors)]
        /\ UNCHANGED <<poisoned, ticker>>
    BY <1>4 DEF FlavorRequest, Reaches, Handler
  <2>2. flavors' \in Seq(Flavors) /\ OwnIds(flavors') /\ (poisoned => flavors' = flavors)
    BY <2>1, EffectFacts
  <2>3. FlavorsWritten
    BY <2>1, <2>2 DEF FlavorsWritten
  <2> QED BY <2>3 DEF FlavorStep
<1>5. ASSUME NEW w \in Workers, NEW req \in Requests, StreamOpen(w, req) PROVE FlavorStep
  BY <1>5 DEF StreamOpen, Opens, FlavorStep
<1>6. ASSUME NEW w \in Workers, OrderEvent(w) PROVE FlavorStep
  <2>1. UNCHANGED <<flavors, poisoned, ticker, stream>>
    BY <1>6 DEF OrderEvent, JoinOrder, UpdateStatus, AddItem
  <2> QED BY <2>1 DEF FlavorStep
<1>7. ASSUME NEW w \in Workers, NEW id, NEW price \in Int, UpdatePrice(w, id, price) PROVE FlavorStep
  <2> DEFINE i == Find(flavors, id)
  <2>1. CASE poisoned \/ i = 0
    BY <1>7, <2>1 DEF UpdatePrice, OnTopic, FlavorStep
  <2>2. CASE ~(poisoned \/ i = 0)
    <3>1. i \in 1..Len(flavors)
      BY <2>2, FindFacts DEF FlavorsType
    <3>2. /\ flavors' = [flavors EXCEPT ![i].price = price]
          /\ stream' = [stream EXCEPT !.moved = StillMoved(flavors')]
          /\ UNCHANGED <<poisoned, ticker>>
      BY <1>7, <2>2 DEF UpdatePrice, OnTopic
    <3> HIDE DEF i
    <3>3. flavors[i] \in Flavors
      BY <3>1 DEF FlavorsType
    <3>4. PICK f : f = [flavors[i] EXCEPT !.price = price]
      OBVIOUS
    <3>5. f \in Flavors /\ f.id = flavors[i].id
      BY <3>3, <3>4 DEF Flavors
    <3>6. flavors' = [flavors EXCEPT ![i] = f]
      BY <3>2, <3>4
    <3>7. flavors' \in Seq(Flavors) /\ OwnIds(flavors')
      BY <3>1, <3>5, <3>6, FlavorReplaced DEF FlavorsType
    <3>8. FlavorsWritten
      BY <2>2, <3>2, <3>7 DEF FlavorsWritten
    <3> QED BY <3>8 DEF FlavorStep
  <2> QED BY <2>1, <2>2
<1>8. ASSUME NEW w \in Workers, LobbyEvent(w) PROVE FlavorStep
  <2>1. CASE JoinLobby(w) \/ Announcement(w) \/ RequestMenu(w)
    BY <2>1 DEF JoinLobby, Announcement, RequestMenu, OnTopic, FlavorStep
  <2>2. ASSUME NEW id, NEW price \in PricesSent, UpdatePrice(w, id, price) PROVE FlavorStep
    <3>1. price \in Int
      BY PricesAreInts
    <3> QED BY <1>7, <2>2, <3>1
  <2> QED BY <1>8, <2>1, <2>2 DEF LobbyEvent
<1>9. ASSUME NEW w \in Workers, SupportEvent(w) PROVE FlavorStep
  <2>1. UNCHANGED <<flavors, poisoned, ticker, stream>>
    BY <1>9 DEF SupportEvent, JoinSupport, ChatMessage, OnTopic
  <2> QED BY <2>1 DEF FlavorStep
<1>10. ASSUME NEW w \in Workers, NEW topic \in joined, LeaveTopic(w, topic) PROVE FlavorStep
  BY <1>10 DEF LeaveTopic, FlavorStep
<1>11. ASSUME NEW k \in DOMAIN sims, SimWrite(k) \/ SimPublish(k) PROVE FlavorStep
  BY <1>11 DEF SimWrite, SimPublish, FlavorStep
<1>12. CASE (\E delta \in Deltas : Tick(delta)) \/ TickPublish \/ StreamForward \/ StreamClientGone
  BY <1>12 DEF FlavorStep
<1> QED
  BY <1>1, <1>2, <1>3, <1>4, <1>5, <1>6, <1>8, <1>9, <1>10, <1>11, <1>12
  DEF Next, WorkerStep, WebRequest

(* Drained, with the update that is about to be broadcast and without.      *)
LEMMA DrainedFacts ==
    ASSUME FlavorsType
    PROVE  /\ PriceUpdate \in Updates
           /\ FoldLeft(Shows, stream.seen, stream.queue) \in Views
           /\ ticker.pc = "publish" =>
                 Drained = Shows(FoldLeft(Shows, stream.seen, stream.queue), PriceUpdate)
           /\ ticker.pc # "publish" => Drained = FoldLeft(Shows, stream.seen, stream.queue)
<1>1. stream.seen \in Views /\ stream.queue \in Seq(Updates) /\ PriceUpdate \in Updates
  BY DEF FlavorsType, PriceUpdate, Updates
<1>2. /\ stream.queue \o <<PriceUpdate>> = Append(stream.queue, PriceUpdate)
      /\ stream.queue \o <<>> = stream.queue
  BY <1>1
<1>3. FoldLeft(Shows, stream.seen, stream.queue) \in Views
  BY <1>1, ShowsAppend
<1>4. ASSUME ticker.pc = "publish"
      PROVE  Drained = Shows(FoldLeft(Shows, stream.seen, stream.queue), PriceUpdate)
  <2>1. Drained = FoldLeft(Shows, stream.seen, stream.queue \o <<PriceUpdate>>)
    BY <1>4 DEF Drained
  <2>2. PICK u \in Updates : u = PriceUpdate
    BY <1>1
  <2>3. Drained = FoldLeft(Shows, stream.seen, Append(stream.queue, u))
    BY <1>2, <2>1, <2>2
  <2>4. Drained = Shows(FoldLeft(Shows, stream.seen, stream.queue), u)
    BY <1>1, <2>2, <2>3, ShowsAppend
  <2> QED BY <2>2, <2>4
<1>5. ASSUME ticker.pc # "publish" PROVE Drained = FoldLeft(Shows, stream.seen, stream.queue)
  <2>1. Drained = FoldLeft(Shows, stream.seen, stream.queue \o <<>>)
    BY <1>5 DEF Drained
  <2> QED BY <1>2, <2>1
<1> QED BY <1>1, <1>3, <1>4, <1>5

(* A step that writes flavors or orders keeps what the streams have         *)
(* coming.                                                                  *)
LEMMA FlavorsWrittenKeeps ==
    ASSUME FlavorsInv, FlavorsWritten
    PROVE  FlavorsInv'
<1>1. /\ flavors' \in Seq(Flavors) /\ OwnIds(flavors') /\ UNCHANGED <<poisoned, ticker>>
      /\ stream.moved \in SUBSET Nat /\ StillMoved(flavors') \in SUBSET Nat
      /\ stream' = [stream EXCEPT !.moved = StillMoved(flavors')]
  BY DEF FlavorsInv, FlavorsType, FlavorsWritten, StillMoved
<1>2. /\ stream' \in [pc : {"closed", "open", "gone"}, queue : Seq(Updates), seen : Views,
                      moved : SUBSET Nat]
      /\ stream'.moved = StillMoved(flavors') /\ stream'.pc = stream.pc
      /\ stream'.queue = stream.queue /\ stream'.seen = stream.seen
  <2>1. PICK M \in SUBSET Nat : M = StillMoved(flavors')
    BY <1>1
  <2>2. stream' = [stream EXCEPT !.moved = M]
    BY <1>1, <2>1
  <2> QED BY <2>1, <2>2 DEF FlavorsInv, FlavorsType
<1>3. FlavorsType'
  BY <1>1, <1>2 DEF FlavorsInv, FlavorsType, OwnIds
<1>4. PoisonInv'
  BY <1>1, CauseStays DEF FlavorsInv, FlavorsWritten
<1>5. Drained' = Drained
  BY <1>1, <1>2 DEF Drained, PriceUpdate
<1>6. ASSUME NEW id \in stream'.moved
      PROVE  /\ id \in stream.moved /\ Find(flavors', id) # 0
             /\ flavors'[Find(flavors', id)].price = flavors[Find(flavors, id)].price
  BY <1>2, <1>6 DEF StillMoved
<1>7. StreamShowsMovedPrices'
  <2> SUFFICES ASSUME stream'.pc = "open", NEW id \in stream'.moved
               PROVE  id \in DOMAIN Drained' /\ Drained'[id] = flavors'[Find(flavors', id)].price
    BY DEF StreamShowsMovedPrices, Find
  <2> QED BY <1>2, <1>5, <1>6 DEF FlavorsInv, StreamShowsMovedPrices
<1>8. (\A id \in stream.moved : Find(flavors, id) # 0)'
  BY <1>6 DEF Find
<1> QED BY <1>3, <1>4, <1>7, <1>8 DEF FlavorsInv

(* A stream opens at the end of the feed.                                   *)
LEMMA OpensKeeps ==
    ASSUME FlavorsInv, Opens
    PROVE  FlavorsInv'
<1>1. /\ stream' = [pc |-> "open", queue |-> <<>>, seen |-> <<>>, moved |-> {}]
      /\ UNCHANGED <<flavors, poisoned, ticker>>
  BY DEF Opens
<1>2. <<>> \in Views
  <2>1. {} \in SUBSET Nat /\ <<>> \in [{} -> Int]
    OBVIOUS
  <2> QED BY <2>1, Zenon DEF Views
<1>3. stream'.moved = {} /\ stream' \in [pc : {"closed", "open", "gone"}, queue : Seq(Updates),
                                         seen : Views, moved : SUBSET Nat]
  <2>1. <<>> \in Seq(Updates) /\ "open" \in {"closed", "open", "gone"} /\ {} \in SUBSET Nat
    OBVIOUS
  <2> QED BY <1>1, <1>2, <2>1
<1>4. PoisonInv'
  BY <1>1, CauseStays DEF FlavorsInv
<1> QED BY <1>1, <1>3, <1>4 DEF FlavorsInv, FlavorsType, OwnIds, StreamShowsMovedPrices

(* An event on its way to the page, or skipped, keeps the stream's place.   *)
LEMMA ForwardKeeps ==
    ASSUME FlavorsInv, StreamForward
    PROVE  FlavorsInv'
<1>1. /\ stream.queue # <<>> /\ stream.queue \in Seq(Updates) /\ stream.seen \in Views
      /\ UNCHANGED <<flavors, poisoned, ticker>>
  BY DEF FlavorsInv, FlavorsType, StreamForward
<1>p. PoisonInv'
  BY <1>1, CauseStays DEF FlavorsInv
<1>2. CASE stream.pc = "open"
  <2>1. PICK u : u = Head(stream.queue)
    OBVIOUS
  <2>2. PICK v : v = Shows(stream.seen, u)
    OBVIOUS
  <2>3. u \in Updates /\ Tail(stream.queue) \in Seq(Updates)
    BY <1>1, <2>1
  <2>4. v \in Views
    BY <1>1, <2>2, <2>3, ShowsFacts
  <2>5. stream' = [stream EXCEPT !.queue = Tail(@), !.seen = v]
    BY <1>2, <2>1, <2>2 DEF StreamForward
  <2>6. /\ stream' \in [pc : {"closed", "open", "gone"}, queue : Seq(Updates), seen : Views,
                        moved : SUBSET Nat]
        /\ stream'.moved = stream.moved /\ stream'.pc = stream.pc
        /\ stream'.queue = Tail(stream.queue) /\ stream'.seen = v
    BY <2>3, <2>4, <2>5 DEF FlavorsInv, FlavorsType
  <2>7. FlavorsType'
    BY <1>1, <2>6 DEF FlavorsInv, FlavorsType, OwnIds
  <2>8. PICK p : p = IF ticker.pc = "publish" THEN <<PriceUpdate>> ELSE <<>>
    OBVIOUS
  <2>9. Drained' = Drained
    <3>1. PriceUpdate \in Updates
      BY DEF FlavorsInv, FlavorsType, PriceUpdate, Updates
    <3>2. p \in Seq(Updates)
      BY <2>8, <3>1
    <3>3. PICK q : q = stream.queue \o p
      OBVIOUS
    <3>4. /\ q \in Seq(Updates) /\ q # <<>> /\ Head(q) = Head(stream.queue)
          /\ Tail(q) = Tail(stream.queue) \o p
      BY <1>1, <3>2, <3>3, HeadTail
    <3>5. FoldLeft(Shows, stream.seen, q) = FoldLeft(Shows, v, Tail(q))
      BY <1>1, <2>1, <2>2, <3>4, ShowsCons
    <3>6. Drained = FoldLeft(Shows, stream.seen, q)
      BY <2>8, <3>3 DEF Drained
    <3>7. Drained' = FoldLeft(Shows, v, Tail(q))
      BY <1>1, <2>6, <2>8, <3>4 DEF Drained, PriceUpdate
    <3> QED BY <3>5, <3>6, <3>7
  <2> QED
    BY <1>1, <1>p, <2>6, <2>7, <2>9 DEF FlavorsInv, StreamShowsMovedPrices
<1>3. CASE stream.pc # "open"
  <2>1. stream' = [pc |-> "closed", queue |-> <<>>, seen |-> <<>>, moved |-> {}]
    BY <1>3 DEF StreamForward
  <2>2. <<>> \in Views
    <3>1. {} \in SUBSET Nat /\ <<>> \in [{} -> Int]
      OBVIOUS
    <3> QED BY <3>1, Zenon DEF Views
  <2>3. stream'.moved = {} /\ stream' \in [pc : {"closed", "open", "gone"}, queue : Seq(Updates),
                                           seen : Views, moved : SUBSET Nat]
    <3>1. <<>> \in Seq(Updates) /\ "closed" \in {"closed", "open", "gone"} /\ {} \in SUBSET Nat
      OBVIOUS
    <3> QED BY <2>1, <2>2, <3>1
  <2> QED BY <1>1, <1>p, <2>3 DEF FlavorsInv, FlavorsType, OwnIds, StreamShowsMovedPrices
<1> QED BY <1>2, <1>3

(* A stream whose client has gone shows nothing any more.                   *)
LEMMA ClientGoneKeeps ==
    ASSUME FlavorsInv, StreamClientGone
    PROVE  FlavorsInv'
<1>1. stream' = [stream EXCEPT !.pc = "gone"] /\ UNCHANGED <<flavors, poisoned, ticker>>
  BY DEF StreamClientGone
<1>2. /\ stream' \in [pc : {"closed", "open", "gone"}, queue : Seq(Updates), seen : Views,
                      moved : SUBSET Nat]
      /\ stream'.moved = stream.moved /\ stream'.pc = "gone"
  BY <1>1 DEF FlavorsInv, FlavorsType
<1>3. PoisonInv'
  BY <1>1, CauseStays DEF FlavorsInv
<1> QED BY <1>1, <1>2, <1>3 DEF FlavorsInv, FlavorsType, OwnIds, StreamShowsMovedPrices

(* The tick publishes the price it wrote, or nothing.                       *)
LEMMA TickPublishKeeps ==
    ASSUME FlavorsInv, TickPublish
    PROVE  FlavorsInv'
<1>1. /\ ticker.pc = "publish" /\ ticker' = [ticker EXCEPT !.pc = "sleep"]
      /\ stream' = [stream EXCEPT !.queue = IF stream.pc = "closed" THEN @ ELSE Append(@, PriceUpdate)]
      /\ UNCHANGED <<flavors, poisoned>>
  BY DEF TickPublish
<1>2. PriceUpdate \in Updates /\ stream.queue \in Seq(Updates) /\ stream.seen \in Views
  BY DEF FlavorsInv, FlavorsType, PriceUpdate, Updates
<1>3. PICK q \in Seq(Updates) :
        q = IF stream.pc = "closed" THEN stream.queue ELSE Append(stream.queue, PriceUpdate)
  <2>1. Append(stream.queue, PriceUpdate) \in Seq(Updates)
    BY <1>2
  <2> QED BY <1>2, <2>1
<1>4. stream' = [stream EXCEPT !.queue = q]
  BY <1>1, <1>3
<1>5. /\ stream' \in [pc : {"closed", "open", "gone"}, queue : Seq(Updates), seen : Views,
                      moved : SUBSET Nat]
      /\ stream'.moved = stream.moved /\ stream'.pc = stream.pc
      /\ stream'.queue = q /\ stream'.seen = stream.seen
  BY <1>4 DEF FlavorsInv, FlavorsType
<1>6. /\ ticker' \in [tick : Nat, pc : {"sleep", "publish", "dead"}, id : Nat, price : Int]
      /\ ticker'.pc = "sleep"
  BY <1>1 DEF FlavorsInv, FlavorsType
<1>7. FlavorsType'
  BY <1>1, <1>5, <1>6 DEF FlavorsInv, FlavorsType, OwnIds
<1>8. ASSUME stream.pc = "open" PROVE Drained' = Drained
  <2>1. q = Append(stream.queue, PriceUpdate) /\ q \o <<>> = q
    BY <1>2, <1>3, <1>8
  <2>2. Drained' = FoldLeft(Shows, stream.seen, q \o <<>>)
    BY <1>5, <1>6 DEF Drained
  <2>3. Drained = FoldLeft(Shows, stream.seen, stream.queue \o <<PriceUpdate>>)
    BY <1>1 DEF Drained
  <2>4. stream.queue \o <<PriceUpdate>> = Append(stream.queue, PriceUpdate)
    BY <1>2
  <2> QED BY <2>1, <2>2, <2>3, <2>4
<1>9. PoisonInv'
  <2>1. ~poisoned
    BY <1>1 DEF FlavorsInv, PoisonInv
  <2> QED BY <1>1, <2>1, CauseStays DEF FlavorsInv
<1> QED
  BY <1>1, <1>5, <1>7, <1>8, <1>9 DEF FlavorsInv, StreamShowsMovedPrices

(* A move of a price leaves a flavor with its id.                           *)
LEMMA MovedFacts ==
    ASSUME NEW f \in Flavors, NEW delta \in Deltas
    PROVE  Moved(f, delta) \in Flavors /\ Moved(f, delta).id = f.id
<1>0. PICK sum : sum = AsSigned(f.price) + delta
  OBVIOUS
<1>1. sum \in Int /\ MinPrice \in Int
  BY <1>0, StoreAssumption DEF Flavors, AsSigned
<1>2. PICK m \in {sum, MinPrice} : \A x \in {sum, MinPrice} : m >= x
  BY <1>1
<1>3. Max({sum, MinPrice}) \in {sum, MinPrice}
  BY <1>2 DEF Max
<1>4. PICK p \in Int : p = Max({sum, MinPrice})
  BY <1>1, <1>3
<1>5. Moved(f, delta) = [f EXCEPT !.price = p]
  BY <1>0, <1>4 DEF Moved
<1> QED BY <1>5 DEF Flavors

(* The tick writes a price that is now due to be published.                 *)
LEMMA TickKeeps ==
    ASSUME FlavorsInv, NEW delta \in Deltas, Tick(delta)
    PROVE  FlavorsInv'
<1>1. PICK tick : tick = ticker.tick + 1
  OBVIOUS
<1>2. PICK i : i = IndexAt(tick)
  OBVIOUS
<1>3. /\ flavors \in Seq(Flavors) /\ OwnIds(flavors) /\ tick \in Nat /\ stream.moved \in SUBSET Nat
      /\ stream.queue \in Seq(Updates) /\ stream.seen \in Views
  BY <1>1 DEF FlavorsInv, FlavorsType
<1>4. ~poisoned /\ ticker.pc = "sleep"
  BY DEF FlavorsInv, PoisonInv, Tick
<1>5. CASE flavors = <<>> \/ Overflows(flavors[i].price, delta)
  <2>1. /\ poisoned' /\ poisoned' \in BOOLEAN /\ flavors' = flavors
        /\ ticker' = [ticker EXCEPT !.tick = tick, !.pc = "dead"]
        /\ stream' = [stream EXCEPT !.moved = @]
    BY <1>1, <1>2, <1>5 DEF Tick
  <2>2. /\ ticker' \in [tick : Nat, pc : {"sleep", "publish", "dead"}, id : Nat, price : Int]
        /\ ticker'.pc = "dead" /\ ticker'.tick = tick /\ stream' = stream
    BY <1>3, <2>1 DEF FlavorsInv, FlavorsType
  <2>3. Drained' = Drained
    BY <1>4, <2>1, <2>2 DEF Drained
  <2>4. PoisonInv'
    <3>1. CASE flavors = <<>>
      BY <2>1, <2>2, <3>1 DEF PoisonInv, PoisonedForACause
    <3>2. CASE Overflows(flavors[i].price, delta)
      <4>1. IndexAt(ticker.tick)' = i
        BY <1>2, <2>1, <2>2 DEF IndexAt
      <4>2. Overflows(flavors[IndexAt(ticker.tick)].price, delta)'
        BY <2>1, <3>2, <4>1 DEF Overflows, AsSigned
      <4> QED BY <2>2, <4>2 DEF PoisonInv, PoisonedForACause
    <3> QED BY <1>5, <3>1, <3>2
  <2>5. FlavorsType'
    BY <2>1, <2>2 DEF FlavorsInv, FlavorsType, OwnIds
  <2>6. StreamShowsMovedPrices' /\ (\A id \in stream.moved : Find(flavors, id) # 0)'
    BY <2>1, <2>2, <2>3 DEF FlavorsInv, StreamShowsMovedPrices, Find
  <2> QED BY <2>4, <2>5, <2>6 DEF FlavorsInv
<1>6. CASE ~(flavors = <<>> \/ Overflows(flavors[i].price, delta))
  <2>2. i \in 1..Len(flavors)
    <3>1. Len(flavors) \in Nat /\ Len(flavors) > 0
      BY <1>3, <1>6
    <3> QED BY <1>2, <1>3, <3>1 DEF IndexAt
  <2>3. flavors[i] \in Flavors
    BY <1>3, <2>2
  <2>4. PICK f \in Flavors : f = Moved(flavors[i], delta) /\ f.id = flavors[i].id
    BY <2>3, MovedFacts
  <2>5. /\ ~poisoned' /\ poisoned' \in BOOLEAN /\ flavors' = [flavors EXCEPT ![i] = f]
        /\ ticker' = [tick |-> tick, pc |-> "publish", id |-> flavors[i].id, price |-> flavors'[i].price]
        /\ stream' = [stream EXCEPT !.moved = @ \cup {flavors[i].id}]
    BY <1>1, <1>2, <1>4, <1>6, <2>4 DEF Tick
  <2>6. /\ flavors' \in Seq(Flavors) /\ OwnIds(flavors') /\ flavors'[i] = f
        /\ \A j \in 1..Len(flavors) : j # i => flavors'[j] = flavors[j]
        /\ \A x : Find(flavors', x) = Find(flavors, x)
    <3> DEFINE new == [flavors EXCEPT ![i] = f]
    <3>1. flavors' = new
      BY <2>5
    <3>2. /\ new \in Seq(Flavors) /\ OwnIds(new) /\ Len(new) = Len(flavors) /\ new[i] = f
          /\ \A j \in 1..Len(flavors) : j # i => new[j] = flavors[j]
          /\ \A x : Find(new, x) = Find(flavors, x)
      <4>1. OwnIds(flavors) /\ f.id = flavors[i].id
        BY <1>3, <2>4
      <4> QED BY <1>3, <2>2, <4>1, FlavorReplaced, Zenon
    <3> HIDE DEF new
    <3> QED BY <3>1, <3>2, Zenon
  <2>7. f.id \in Nat /\ f.price \in Int
    BY <2>4 DEF Flavors
  <2>8. PICK u \in Updates : u = [id |-> f.id, price |-> f.price]
    BY <2>7 DEF Updates
  <2>9. ticker' = [tick |-> tick, pc |-> "publish", id |-> f.id, price |-> f.price]
    BY <2>4, <2>5, <2>6
  <2>10. /\ ticker' \in [tick : Nat, pc : {"sleep", "publish", "dead"}, id : Nat, price : Int]
         /\ ticker'.pc = "publish" /\ PriceUpdate' = u
    BY <1>3, <2>7, <2>8, <2>9 DEF PriceUpdate
  <2>11. /\ stream' \in [pc : {"closed", "open", "gone"}, queue : Seq(Updates), seen : Views,
                         moved : SUBSET Nat]
         /\ stream'.moved = stream.moved \cup {f.id} /\ stream'.pc = stream.pc
         /\ stream'.queue = stream.queue /\ stream'.seen = stream.seen
    <3>1. PICK M \in SUBSET Nat : M = stream.moved \cup {f.id}
      BY <1>3, <2>7
    <3>2. stream' = [stream EXCEPT !.moved = M]
      BY <2>4, <2>5, <3>1
    <3> QED BY <3>1, <3>2 DEF FlavorsInv, FlavorsType
  <2>12. FlavorsType'
    BY <2>5, <2>6, <2>10, <2>11 DEF FlavorsInv, FlavorsType, OwnIds
  <2>13. PICK v \in Views : v = FoldLeft(Shows, stream.seen, stream.queue) /\ Drained = v
    <3>1. FlavorsType
      BY DEF FlavorsInv
    <3> QED BY <1>4, <3>1, DrainedFacts
  <2>14. Drained' = Shows(v, u)
    <3>1. Drained' = FoldLeft(Shows, stream.seen, stream.queue \o <<u>>)
      BY <2>10, <2>11 DEF Drained
    <3>2. stream.queue \o <<u>> = Append(stream.queue, u)
      BY <1>3
    <3>3. FoldLeft(Shows, stream.seen, Append(stream.queue, u))
            = Shows(FoldLeft(Shows, stream.seen, stream.queue), u)
      BY <1>3, ShowsAppend
    <3> QED BY <2>13, <3>1, <3>2, <3>3
  <2>15. Find(flavors, f.id) = i /\ i # 0
    BY <1>3, <2>2, <2>4, FindUnique
  <2>16. StreamShowsMovedPrices'
    <3> SUFFICES ASSUME stream'.pc = "open", NEW id \in stream'.moved
                 PROVE  id \in DOMAIN Drained' /\ Drained'[id] = flavors'[Find(flavors', id)].price
      BY DEF StreamShowsMovedPrices, Find
    <3>1. CASE id = f.id
      <4>1. u.id = f.id /\ u.price = f.price
        BY <2>8
      <4>2. DOMAIN Shows(v, u) = {u.id} \cup DOMAIN v /\ Shows(v, u)[u.id] = u.price
        BY ShowsFacts
      <4> QED BY <2>6, <2>14, <2>15, <3>1, <4>1, <4>2
    <3>2. CASE id # f.id
      <4>1. id \in stream.moved /\ id \in DOMAIN v /\ v[id] = flavors[Find(flavors, id)].price
        BY <2>11, <2>13, <3>2 DEF FlavorsInv, StreamShowsMovedPrices
      <4>2. Find(flavors, id) \in 1..Len(flavors) /\ flavors[Find(flavors, id)].id = id
        <5>1. Find(flavors, id) # 0
          BY <4>1 DEF FlavorsInv
        <5> QED BY <1>3, <5>1, FindFacts
      <4>3. flavors'[Find(flavors', id)] = flavors[Find(flavors, id)]
        BY <2>4, <2>6, <3>2, <4>2
      <4>4. id \in DOMAIN Shows(v, u) /\ Shows(v, u)[id] = v[id]
        <5>1. u.id = f.id
          BY <2>8
        <5>2. /\ DOMAIN Shows(v, u) = {u.id} \cup DOMAIN v
              /\ \A x \in DOMAIN v : x # u.id => Shows(v, u)[x] = v[x]
          BY ShowsFacts
        <5> QED BY <3>2, <4>1, <5>1, <5>2
      <4> QED BY <2>14, <4>1, <4>3, <4>4
    <3> QED BY <3>1, <3>2
  <2>17. \A id \in stream'.moved : Find(flavors', id) # 0
    BY <2>6, <2>11, <2>15 DEF FlavorsInv
  <2>18. PoisonInv'
    BY <2>5 DEF PoisonInv, PoisonedForACause
  <2> QED BY <2>12, <2>16, <2>17, <2>18 DEF FlavorsInv, Find
<1> QED BY <1>5, <1>6

(* Every step keeps the flavors' invariant.                                 *)
LEMMA FlavorsStep ==
    ASSUME FlavorsInv, [Next]_vars
    PROVE  FlavorsInv'
<1>1. FlavorStep
  BY FlavorKinds DEF FlavorsInv
<1>2. CASE UNCHANGED <<flavors, poisoned, ticker, stream>>
  <2>1. Drained' = Drained
    BY <1>2 DEF Drained, PriceUpdate
  <2>2. FlavorsType'
    BY <1>2 DEF FlavorsInv, FlavorsType, OwnIds
  <2>3. PoisonInv' /\ (\A id \in stream.moved : Find(flavors, id) # 0)'
    BY <1>2, CauseStays DEF FlavorsInv, Find
  <2>4. StreamShowsMovedPrices'
    BY <1>2, <2>1 DEF FlavorsInv, StreamShowsMovedPrices, Find
  <2> QED BY <2>2, <2>3, <2>4 DEF FlavorsInv
<1> QED
  BY <1>1, <1>2, FlavorsWrittenKeeps, OpensKeeps, TickKeeps, TickPublishKeeps, ForwardKeeps,
     ClientGoneKeeps
  DEF FlavorStep

(* The store starts without streams, with the flavors it is given.          *)
LEMMA FlavorsInit ==
    ASSUME Init
    PROVE  FlavorsInv
<1>1. /\ flavors = InitFlavors /\ poisoned = FALSE
      /\ ticker = [tick |-> 0, pc |-> "sleep", id |-> 0, price |-> 0]
      /\ stream = [pc |-> "closed", queue |-> <<>>, seen |-> <<>>, moved |-> {}]
  BY DEF Init
<1>2. flavors \in Seq(Flavors) /\ OwnIds(flavors)
  <2>a. PICK S : S = [id : Nat, price : Prices, in_stock : BOOLEAN]
    OBVIOUS
  <2>0. InitFlavors \in Seq(S)
    BY <2>a, StoreAssumption, Zenon
  <2>1. ASSUME NEW k \in 1..Len(InitFlavors) PROVE InitFlavors[k] \in Flavors
    <3>1. InitFlavors[k] \in S
      BY <2>0
    <3> QED BY <2>a, <3>1, PricesAreInts DEF Flavors
  <2>2. InitFlavors \in Seq(Flavors)
    BY <2>0, <2>1
  <2> QED BY <1>1, <2>2, StoreAssumption DEF OwnIds
<1>3. <<>> \in Views
  <2>1. {} \in SUBSET Nat /\ <<>> \in [{} -> Int]
    OBVIOUS
  <2> QED BY <2>1, Zenon DEF Views
<1>4. ticker \in [tick : Nat, pc : {"sleep", "publish", "dead"}, id : Nat, price : Int]
  BY <1>1
<1>5. <<>> \in Seq(Updates) /\ {} \in SUBSET Nat
  OBVIOUS
<1>6. stream \in [pc : {"closed", "open", "gone"}, queue : Seq(Updates), seen : Views,
                  moved : SUBSET Nat]
  BY <1>1, <1>3, <1>5
<1> QED
  BY <1>1, <1>2, <1>4, <1>6
  DEF FlavorsInv, FlavorsType, PoisonInv, PoisonedForACause, StreamShowsMovedPrices

(* The flavors' invariant holds in every reachable state.                   *)
LEMMA FlavorsAlways == Spec => []FlavorsInv
  BY FlavorsInit, FlavorsStep, PTL DEF Spec

(* The lock of the flavors is poisoned for no other reason than that        *)
(* clients left no flavor, or a price from which a delta leaves i64, at the *)
(* index of the tick; the cause is there for good, whatever else clients    *)
(* send and whatever the deltas and the width of i64 are.                   *)
THEOREM PoisonedForACauseHolds == Spec => []PoisonedForACause
<1>1. FlavorsInv => PoisonedForACause
  BY DEF FlavorsInv, PoisonInv
<1> QED BY <1>1, FlavorsAlways, PTL

(* A price stream will have shown, once it is drained, the stored price of  *)
(* every flavor that the price thread moved and no client wrote after it.   *)
THEOREM StreamShowsMovedPricesHolds == Spec => []StreamShowsMovedPrices
<1>1. FlavorsInv => StreamShowsMovedPrices
  BY DEF FlavorsInv
<1> QED BY <1>1, FlavorsAlways, PTL
=============================================================================
