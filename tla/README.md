# A TLA+ model of Mahalo

Mahalo is a Phoenix-style web framework in Rust: an HTTP/1.1 server on
one single-threaded executor per core, WebSocket channels that run as rebar
GenServer processes, and an in-process PubSub server on its own thread. This
directory holds TLA+ modules for its parts, the TLC configurations
that check them on small instances, and TLAPS proofs for every instance of the
results that matter most. All source paths are relative to the repository.

## 1. Inventory

### 1.1 Components

| component | state it keeps | operations | interacts with | hard part |
|---|---|---|---|---|
| PubSub server (`mahalo-pubsub/pubsub.rs`) | command queue; topic -> list of senders | subscribe, broadcast, unsubscribe, shutdown, end of the last handle | callers through a crossbeam queue; receivers through one unbounded channel each | many callers and receivers race with one thread; `subscribe` blocks on a reply channel; `retain` sends while receivers disappear |
| PubSub bridge (`bridge.rs`) | `peers`, one channel each, behind a lock | add_peer, broadcast (local, then every peer), relay thread | PubSub, other nodes | peers die and return while a broadcast goes round |
| Channel connection (`mahalo-channel/socket.rs`, `channel.rs`) | `joined_channels`, the mailbox, forwarder and timer tasks | phx_join, phx_leave, heartbeat, events, casts, infos, terminate | PubSub, transport queues, application callbacks | a join is suspended half way; forwarders and timers outlive the join that made them; the process may die at any point |
| Channel supervisor (`supervisor.rs`) | its Temporary children, an `FnOnce` each | add a connection, shut down | rebar supervisor, channel connection | none met: nothing but its tests calls it (section 5) |
| HTTP connection (`mahalo-endpoint/server.rs`, `handler.rs`) | leased buffer or growing Vec, the current request | read, parse, execute, respond, upgrade, stream events | TCP or TLS stream, router, buffer pool | TCP cuts bytes anywhere; two read paths; limits at their boundary |
| WebSocket transport (`server.rs` `ws_streaming_loop`, `ws_parse.rs`) | read buffer, two queues, a writer task | parse frames, PONG, CLOSE, push TEXT frames | HTTP connection before, channel connection behind | reader and writer share one stream; teardown goes through four tasks |
| HTTP parsing and serialization (`http_parse.rs`) | the reused response buffer | `try_parse_request`, response heads through a raw pointer | HTTP connection | incomplete input, limits, reserved bytes |
| Accept loop, workers, endpoint, application (`server.rs`, `worker.rs`, `endpoint.rs`, `application.rs`) | threads, listeners, the supervision tree | bind, spawn, join, start in order | everything below | one of several workers fails |
| Date cache (`date.rs`) | one formatted string per thread | refresh | HTTP connection | none |
| Router (`mahalo-router/router.rs`) | routes, names and pipelines, then a routing tree per method | scope, resources, named routes, resolve, reverse routing | HTTP connection | two descriptions of each route derived separately; conflicts found at the first request |
| Conn, pipelines, plugs, controllers (`mahalo-core`) | one `Conn` per request | plug chain, halt, setters, after-plugs | router | halting inside and between pipelines |
| Standard plugs (`mahalo-plug`) | none of their own; the files on disk | static files, CSRF, ETag, request id, headers, log | pipeline, client caches | two plugs hand out tags; files and variants change independently |
| Server-Sent Events (`mahalo-sse`) | an unbounded channel | send, close, keep-alive | HTTP connection | a client that left unnoticed |
| Telemetry (`mahalo-telemetry`) | list of handlers per thread | attach, execute, span | everything | handlers that execute or attach inside the loop over the handlers |
| Presence (`mahalo-presence`) | topic -> entries, topic -> diff subscribers | track, untrack, list, subscribe_diff, shutdown | channels | a list and a subscription are two commands |
| Cluster (`mahalo-cluster`) | `known_peers` | poll a topology, announce node_up and node_down | PubSub | a lookup that fails looks like an empty cluster |
| Demo application (`mahalo-test-app`) | flavors and orders behind two mutexes | controllers, pages, three channels, simulators, price thread, price stream | all of the framework | threads that release a lock before they broadcast |
| Umbrella crate, generator | none | none | none | none |

### 1.2 How the parts interact

    client bytes -> HttpConnection -> (101) -> WsTransport.reader
        -> ws_msg -> handle_websocket -> mailbox -> ChannelConnectionServer
        -> ws_out -> WsTransport.writer -> client bytes
    any holder of a PubSub handle -> command queue -> PubSub server thread
        -> channel of a subscription -> forwarder task -> mailbox

The only threads of the framework that share anything are the PubSub server and
its callers; the demo's workers also share a store behind two mutexes.
Inside a worker everything is cooperative: a task runs until it awaits. A model
step is therefore the code between two awaits, and where the code awaits in the
middle of a handler (a join in `started()`, a write of half a frame) the model
has a state in which other tasks run.

### 1.3 What makes each component correct

- PubSub: a receiver sees the broadcasts of its topic made after its
  registration, in order, without a gap; the purge of the dead never cuts the
  living, and an unsubscribe should not either (it does, section 6);
  `subscribe` never blocks for ever.
- Channel connection: replies in the order of the requests, nothing lost while
  joined, nothing pushed while not joined, every socket in `joined_channels` is
  live and every live socket is there; the tasks of a dead process end. What a
  channel is told at its own end is another matter: section 6.
- HTTP connection: one response per request, in order, the same whichever way
  the bytes were cut; no request within the limits refused; memory bounded;
  the connection closed only for a reason.
- WebSocket transport: texts handed on once and in order; PINGs answered;
  both parts of each push written; a dead process noticed at the client's next
  texts; everything torn down when the client leaves. One writer at a time
  should be inside the stream (there may be two, section 6).
- Router and pipelines: the path that reverse routing builds leads back to its
  route, however its prefix was spelt (but see section 6); what runs is the planned chain of
  pipelines, handler and after-plugs, cut at the first halt (a halted conn skips
  the after-plugs as well).
- Conn and standard plugs: a caching client shows a body that existed while its
  request was served; a response has the length it declares; the raw-pointer
  writes stay in the buffer.
- Bridge and cluster: a registered peer gets every broadcast once and in order;
  who applies the announcements knows the peers the cluster knows.
- Presence: a list with the later diffs applied is the tracker's list.
- Telemetry: a handler sees an event once, in the order of attachment.
- Supervision: start never hides a panic.
- Demo: what is announced about an order or a price is what is stored, but for
  the races it leaves open, which are named; the lock of the flavors is poisoned
  for no cause but the two that clients can give.

The hazards behind these properties, each at its line, are listed in
`PROJECT.json`.

## 2. Modules

| module | models | reads as |
|---|---|---|
| `TopicFeed` | what PubSub promises | per topic a log, per subscription a window into it |
| `PubSub` | `pubsub.rs` | queue, server thread, callers, receivers; implements `TopicFeed` |
| `PubSubProofs` | | inductive invariant and theorems of `PubSub`; that it implements `TopicFeed` |
| `ChannelConnection` | `socket.rs`, `channel.rs` | one connection, composed with `TopicFeed` as its PubSub |
| `ChannelConnectionProofs` | | inductive invariants and theorems of `ChannelConnection` |
| `HttpConnection` | `server.rs` up to the upgrade, `http_parse.rs` by result | one connection's task and its client |
| `HttpConnectionProofs` | | inductive invariant and theorems of `HttpConnection` |
| `WsTransport` | `server.rs` after the upgrade, `ws_parse.rs` by result | reader, writer, `handle_websocket` loop and client |
| `WsTransportProofs` | | inductive invariant and theorems of `WsTransport` |
| `Router` | `router.rs`: paths, matching, reverse routing | pure operators on sequences of segments |
| `RequestCycle` | `router.rs` builder and `execute`, `pipeline.rs`, `handler.rs` | a program builds a router, then serves requests one plug at a time |
| `StandardPlugs` | `mahalo-plug`, `conn.rs`, serialization in `http_parse.rs`, `sse_response` | a keep-alive connection and a caching client, one plug at a time |
| `RequestProofs` | | theorems of `RequestCycle` and `StandardPlugs`; what paths, matching and each plug do |
| `Presence` | `presence.rs`, `tracker.rs` | the tracker task, handles and watchers |
| `ClusterBridge` | `bridge.rs`, `cluster.rs`, `topology.rs` | one node and its peers |
| `Telemetry` | `telemetry.rs` | a thread's handlers, tasks and the stack of execute calls |
| `Supervision` | `worker.rs`, `endpoint.rs`, `application.rs`, `PubSub::new_supervised` | who starts what, and what a restart finds |
| `ServicesProofs` | | inductive invariants and theorems of `Supervision`, `ClusterBridge`, `Presence` and `Telemetry` |
| `IceCreamStore` | `mahalo-test-app/main.rs` | the demo's shared store and all that reads and writes it, routed by `Router` |
| `StoreProofs` | | inductive invariants and theorems of `IceCreamStore` |
| `Subsequences` | `Vec::retain`, `filter` | the elements of a sequence at a set of places, in order |
| `SequenceLemmas` | | induction, and what the folds of the models return |
| `MC...` | | constants for TLC; `MCRequestCycle` runs the router or the plugs in a behaviour, `MCServices` these two or one of the services |

Definitions named `...Early`, `...Lossy`, `...NoKill` and the like, whose
comment begins with "Fault:", are not part of any specification. Each is a
plausible bug of the operator that follows it, kept to show that the properties
notice it: with the operator replaced by its fault, TLC refutes the property
that `PROJECT.json` lists with it.

### 2.1 TopicFeed and PubSub

`TopicFeed` keeps `log[t]`, everything published on a topic, and for each
subscription where its window begins (`from`), what was taken (`got`) and, once
cut, where it ends. A cut subscription still hands out all that was published
before the cut, then ends.

In `PubSub` the server thread pops one command at a time:

| code | model |
|---|---|
| `PubSub::subscribe`, up to `recv` on the reply channel | `SubscribeCall`; the thread is then `waiting` |
| the return of that `recv` | `SubscribeReturn`, with a receiver, or with None once the reply sender is gone |
| `broadcast`, `unsubscribe`, `shutdown` | `BroadcastCall`, `UnsubscribeCall`, `ShutdownCall` |
| drop of a clone of the handle | `DropHandle` |
| the Subscribe, Unsubscribe, Shutdown arms | `HandleSubscribe`, `HandleUnsubscribe`, `HandleShutdown` |
| the Broadcast arm: `retain` with a send per element | `HandleBroadcast`, one `RetainStep` per sender, `RetainDone` |
| the end of the loop when every handle is gone | `AllHandlesDropped` |
| a receiver | `Receive`, `Disconnected`, `DropReceiver` |

`retain` is not one step because receivers live on other threads: one may be
dropped between two of its iterations. `ServerStopped` models the callers'
view of a queue nobody reads.

### 2.2 ChannelConnection

One action per callback of `ChannelConnectionServer` and per task step.
`JoinAccepted` and `JoinCompleted` are the two halves of `handle_join` around
the await of `started()`; in between the process handles nothing, but it may be
killed. `Leave`, `Heartbeat`, `Event`, `JoinUnrouted`, `JoinRefused` are the
other arms of `handle_cast`; `HandleInfo` is the arm for broadcasts and timer
ticks. `Forward`, `ForwarderEnds`, `ForwarderDisconnected` are the forwarder
task, `TimerFires` a timer. `ReadLoopCast` and `ReadLoopEnd` are
`handle_websocket`. The application's `Channel` callbacks choose freely among
the results their types allow. `SendEvent` is `ChannelAddr::send_event`.

The socket of one accepted join is an *instance* with a life of its own
(`InstanceState`), so that a second join of the same topic can be told from the
first, which the code itself, keyed by topic, cannot.

### 2.3 HttpConnection

The client's bytes are counted, not spelt. `stream` is the sequence of requests
it has sent, `starts[i]` the position in the byte stream where the i-th one
starts and the last of `starts` the number of bytes sent. A request is in the
stream from the moment the client begins it; a read returns any non-empty part
of what was sent and not yet read that fits in the buffer, which is how TCP cuts
a request anywhere. `pc` is the await the task stands at. `TakeLease`
and `ReadLease` are the fast path of `handle_connection`; `StartVec`, `EnterVec`,
`ReadVec`, `ParseVec`, `NeedMore` are `vec_read_loop`; `Respond`, `StartSse`,
`Upgrade`, `Advance` are `execute_and_respond` and what its caller does with the
result; `Sse...` is `sse_streaming_loop`. `ReadEnds` is a read that returns 0 or
an error, which is also what a read into a full buffer does. `TryParse` gives
the parser's verdict from sizes, limits and kind of request.

### 2.4 WsTransport

`Reader...` is the body of the reader, one action per arm of the match on
the parsed frame; `Writer...` the writer task; `Loop...` `handle_websocket` as seen
from the queues; `ChannelPushes`, `ChannelPanics`, `SendersDropped` the channel process
reduced to its effect on `ws_out`. `frames` and `starts` are the byte
stream as in `HttpConnection`. A frame is written in two halves: the
smallest number that shows a partial write. `reader = "read"` and
`writer = "write"` are awaits during which a task holds a reference to the
stream.

### 2.5 Router and RequestCycle

A path is the sequence of segments `split('/')` gives, so that leading, doubled
and trailing slashes are visible as empty segments. `ParseSegments`,
`ColonToBrace`, `NormalizePrefix` and `BuildMatchitPath` are the functions of
those names. matchit is external: `Matches`, `Beats` and `SameShape` say what
the code relies on, a parameter matches one non-empty segment, static segments
win at the first difference, patterns that differ in parameter names only
conflict.

In `RequestCycle`, `Pipeline`, `Scope` and `TopLevel` are the calls on the
builder, in any order; a scope's body is a sequence of routes and resources.
`Serve` hands the router to an endpoint with or without an error handler and
after-plugs. `Resolve` compiles on first use (`ResolvePanics` if two routes
conflict: the cell stays empty and the next request panics again) and looks the
request up. `PipelinePlug`, `PipelineEnds` and `PipelinesEnd` are the inner loop
(`Pipeline::execute`) and the outer one (`ResolvedRoute::execute`), each with its own
check of `halted`; `Handle`, `NotFound`, `AfterPlug` and `Respond` are the rest of
`execute_request`. Whatever runs may halt, except the built-in 404.

### 2.6 StandardPlugs

`ParseRequest` is a request of a keep-alive connection: a new Conn, and the write
buffer of the requests before. A body is a triple of
path, encoding and version, and an ETag, a hash of a body, is the body. The client
keeps what a GET brought and sends its tag next time. `RunPlug` runs the head of
the chain, `ContentChanges` may fall between any two plugs, and a file may be
unreadable when it is opened. `SerializeResponse` keeps what is declared, what
follows the head, and how many bytes go through the raw pointer; header text is
a size. `Needed` is the reservation. `Digits` counts the digits of a
content-length below 10^10. Every plug is an operator from Conn to Conn made of
the setters of `conn.rs` (`PutHeader`, `PutBody`, `Halt`, ...), of which
`RequestProofs` says once what they keep.

### 2.7 Presence, ClusterBridge, Telemetry

`Handle...` are the arms of the tracker's loop; `Track`, `Untrack`, `Ask` put commands
in its queue. A watcher subscribes, then lists, then applies diffs; a command
from another handle may fall in between.

A round of the cluster is `PollPeers`, one step per announcement, `PollEnds`.
`BroadcastLocally` is the first half of `DistributedPubSub::broadcast`, after which
other broadcasters may run; the second half takes the write lock (`LockPeers`), sends
to or drops one peer per step (`SendToPeer`, `PrunePeer`: the elements of `retain`,
between which a peer may die or read) and releases it (`UnlockPeers`). `AddPeer` waits
for the lock. `from` of a peer is history: what its registration covers of each
broadcaster.

`Execute` pushes a frame on the stack, `CallHandler` finds the next handler in the
live list; a handler may execute (`HandlerExecutes`) or attach
(`HandlerAttaches`, which panics on the borrowed list and unwinds). A span is open
across an await, so that other tasks execute inside it.

### 2.8 Supervision

`mode` tells `MahaloEndpoint::start`, which joins scoped threads, from the child of
a supervision tree, whose threads are detached. `Join`, `JoinedAll` and `ScopeEnds` are the
end of `start_server`: the first panic leaves the loop, and the scope waits for
the rest. `PubSubChildStarts` takes the command queue, which can be taken once.

### 2.9 IceCreamStore

A section under a mutex is one step, and what the code does after it has
released the lock is another: `OrderRequest` and `AnnounceOrder`, `SimWrite` and
`SimPublish`, `Tick` and `TickPublish`. `update_status` broadcasts under the lock and
is one step. Routes are built with the operators of `Router`. The fields `via`,
`touched` and `raced` of an order, and `moved` of the stream, are history that the
properties use.

A price is a u64, and `Tick` computes on it as the price thread does: `AsSigned` is
the cast to i64, `Overflows` says when the sum with the delta leaves i64, which
panics with the lock held. `MaxSigned` stands for the largest i64. This is a build
with overflow checks and unwinding panics, cargo's dev profile. The release profile
(`Cargo.toml:60`) wraps the sum and has `panic = "abort"`: any panic ends the program
there, no lock is ever found poisoned, and the actions behind a poisoned lock do
not exist.

## 3. Runs

| run | question | answer |
|---|---|---|
| `pubsub` | does the server implement `TopicFeed`; can receivers that come and go inside the retain loop make it skip, repeat or cut a neighbour; does one caller's order survive? Two callers: is every blocked subscriber released, and is a broadcast issued after a subscribe returned received, whatever stops or is cut behind it? | it does; no; yes; yes; yes |
| `pubsub_unsubscribe` | does a subscriber that remains survive another's unsubscribe? | **no**, see section 6 |
| `channel_safety` | replies in order, nothing lost while joined, nothing pushed while not, sockets consistent, under panics and cuts? | yes |
| `channel_liveness` | heartbeats answered, processes, forwarders and timers reaped, also when PubSub stops? | yes |
| `channel_duplicates` | is a broadcast pushed once per client? | **no**, not after a rejoin |
| `channel_rejoin` | does every channel end by `terminate` while the process runs? | **no**, not one that is joined again |
| `http` | responses in order and independent of the cuts on both read paths, also at the limits; memory bounded; no spurious close; every request answered, pipelined on TLS, one at a time on plain TCP? | yes |
| `http_pipelined` | every request answered, pipelined on plain TCP? | **no**, see section 6 |
| `ws_transport` | texts and PONGs in order for every cut, no frame within the limit refused, buffer bounded, pushes written, a dead process noticed, everything torn down? | yes |
| `route_order` | does the first registered of the matching routes win? | **no**, see section 6 |
| `services` | for routers built by any three calls: does reverse routing lead back to the route named last, does the chain run in order and stop at a halt? On a keep-alive connection: does a caching client show what existed, are responses framed, do unsafe writes fit? Do watchers converge, peers get each broadcast once, handlers see an event once, does start report panics; do the demo's announcements agree with its store outside the named races, and is its lock poisoned for two causes only? | yes |
| `supervised_pubsub` | does a supervised PubSub server run again after it ended? | **no**, see section 6 |

### 3.1 Bounds

- PubSub: `MaxQueue = 2` commands in flight give every pair of commands in
  either order; two subscriptions give a dead sender before and behind a living
  one in the retain loop, two topics a command for another topic. A caller is
  asynchronous but for `subscribe`, so one caller with two broadcasts already
  overlaps the server thread in every way but one: commands that arrive while a
  subscribe is waiting. A second instance of the same run adds them, with two callers
  on one topic and one subscription (`instance` in `MCPubSub`). Of behaviours that
  differ only in the names of topics, subscriptions or callers one is explored: TLC's
  own symmetry reduction is not sound for liveness.
  `MaxBroadcasts` is per caller. Nothing in the code depends on a length: the
  queue and the channels are unbounded and the proofs in section 4 need no bound.
- Channel connection: three requests on a topic are enough for join, leave,
  join, the shortest sequence that leaves an old forwarder beside a new one;
  two broadcasts show order; `MaxOut` only stops timers from ticking for ever.
  Two subscriptions allow two accepted joins; a third join has no slot and is
  only refused. `channel_liveness` has two requests, with and without a ref, a
  topic without a route and interval timers.
- HTTP: with `BufSize` 3 and `BodyLimit` 5, heads of 1 to 9 bytes and bodies
  from 0 to one above the limit put the end of a request before, on and behind
  the end of every buffer; three requests let a leftover have a leftover.
- WebSocket: `BufSize` 2 doubles once to `MaxFrame` 4; frames of 1, 3, 4 and 5
  bytes, two of them, one push.
- Request cycle: `MaxBuilderCalls = 3` calls out of a menu of eleven put every pair of
  scopes, top-level routes and pipelines in either order, a third one before,
  between or behind; the menu has prefixes with and without slashes at either
  end, parameters in prefixes, the root, shadowing, conflicting and repeated
  routes. Each pipeline has at most two plugs, so a halt can come first or last.
- Plugs: three exchanges are a first answer, a revalidation and one more after
  it; one change may fall anywhere. Two chains: the logger, CSRF, tags and files
  together, and static files in front. `HeaderSize` 40 and `VersionSize` 7 make
  the reserve of 128 bytes matter: it has to cover the status line, the
  content-length line and the connection line.
- Services: two workers, two simulators and four calls allow create, two joins
  and a delete or an update; ids are reused after a delete. Two flavors can be
  deleted before the second tick. `MaxSigned` 7 stands for the largest i64: clients
  send the price 7, which a tick overflows, and 8, which is negative when cast. Two peers with one restart each, two
  broadcasters with two broadcasts; two watchers and three changes; three
  handlers, three events, depth two; two worker threads. Router, plugs and services share
  no state, so a behaviour of `MCServices` runs one of them (`part`); orders and flavors,
  which share the workers only, are run apart too.
- Symmetry is used in `channel_safety`, where subscriptions are interchangeable
  and only safety is checked.

Deadlock is not checked: a connection that has closed, a server that has
stopped, a client that sends nothing more and a bound that is reached are proper ends. That nobody waits
for ever is what the liveness properties say.

### 3.2 Fairness

- `PubSub.Fairness`: the server thread is scheduled by the operating system and
  its steps never block on a caller; a caller blocked in `recv` returns once the
  reply is there; receivers that keep their receiver read it. No one is
  obliged to call anything.
- `ChannelConnection.FairSpec`: the executor polls every ready task, so the
  read loop, the process, each forwarder and each timer make progress; a
  handler that awaits the application is assumed to return (a handler that
  hangs wedges its connection, in the code as well). The client and publishers
  owe nothing.
- `HttpConnection.FairSpec`: the connection's own task only.
- `WsTransport.FairSpec`: reader, writer, `handle_websocket` loop, and the drop
  of the senders of `ws_out` after the process is dead, which `TimersStop`
  of `channel_liveness` justifies: the timers end, and the forwarders hold no sender.
- `Supervision.SupervisedSpec`: the supervisor starts an ended child again and the
  child polls its server; both are tasks of one executor.

Weak fairness is enough everywhere: no action above can be disabled again and
again by others before it runs.

## 4. What is proved

Every theorem below holds for all values of the constants that satisfy the named
ASSUMEs; TLC evaluates these in the runs, and has checked the inductive invariants
on the instances of the runs. A proof has one step per action, and under it one per
part of the invariant that the action can disturb.

### 4.1 PubSub (`PubSubProofs`)

From `NoneAssumption` and `BoundAssumption`:

- `TypeCorrect`: `Spec => []TypeOK`.
- `FeedsAreGapFree`: `Spec => []GapFree`, the feed of a receiver is exactly the
  part of the log of its topic from its registration on, up to the message the
  server thread is just handing round.
- `BroadcastsInCallOrder`: `Spec => []CallerOrder`.
- `SendersCutOnlyOnRequest`: `Spec => CutOnlyOnRequest`, an action property: the
  purge of dead senders never takes a living one with it.
- `PubSubImplementsFeed`: `Spec => ImplementsFeed`, the whole of `TopicFeed` under
  the refinement mapping of `PubSub`.

`GapFree` is not inductive: whether a sender still in the table is up to date
depends on where the retain loop stands, and that a new sender is not yet in the
table depends on what lies in the queue. The invariant `IInv` adds

- `QueueInv`: a queued Subscribe is the only one for its subscription, and that
  subscription is "requested";
- `TableInv`: a sender stands at most once in the table, under its own topic;
- `FreshInv`: a subscription not yet handled has an empty channel;
- `RetainInv`: the retain loop is inside the list of the topic it broadcasts to,
  and the message in hand is the last of that topic's log;
- `ContentInv`: a channel is a contiguous piece of its topic's log from `from`;
- `UpToDateInv`: a registered sender has the whole log but for the message
  in hand if the loop has not yet come to it.

`OrderInv` orders what is logged before what is queued, per caller. The refinement
needs `IInv` and `OwnerInv` (a receiver takes no more than was sent to it): with
them each action is shown to be the step of the feed it stands for (a Broadcast
taken from the queue publishes, a Subscribe opens, an unsubscribe or a shutdown
cuts, a receiver takes, ends or closes) or to leave the feed alone, as every step of the
retain loop does.

### 4.2 ChannelConnection (`ChannelConnectionProofs`)

From `TopicAssumption`, `SubAssumption`, `RefAssumption` and `BoundAssumption`:

- `TypeCorrect`: `Spec => []TypeOK`;
- `JoinedTopicsLive`: `Spec => []JoinedIsLive`;
- `NoBroadcastLost`: `Spec => []NothingLostWhileJoined`;
- `AnswersInOrder`: `Spec => []RepliesInOrder`;
- `QuietUnlessOpen`: `Spec => []QuietUnlessJoined`, for clients whose requests all
  carry a ref (`Refs \subseteq {TRUE}`). The property is about replies, and
  a leave without a ref has none; Phoenix clients send one with every request.

`IInv` says how the parts agree: `LifeInv`, a joined topic and its instance, also
half-way through a join; `LogInv` and `FeedInv`, the logs are numbered in order and a
subscription has handed out a piece of its own topic's log; `MailInv`, what lies
in the mailbox and every timer carries the topic of its instance; `OrderInv` and
`CompleteInv`, the two halves of `NothingLostWhileJoined`, the first for every
instance and not only the joined ones, since a left instance still drains
its mail. Replies need `RefInv`: refs rise through what was answered, what
lies in the mailbox and what the client has sent. Pushes need `QuietInv`: a
joined topic is open to the client, in the sense of the replies it was sent.

### 4.3 HttpConnection (`HttpConnectionProofs`)

For every buffer size, body limit, set of requests and bound, on TLS and plain
TCP, from the four ASSUMEs of `HttpConnection`:

- `MemoryIsBounded`: `Spec => []BufferBounded`, the Vec never exceeds twice
  `BodyLimit + BufSize`;
- `NeverClosesForNothing`: `Spec => []ClosedForAReason`. The code takes a read
  that returns 0 for the end of the stream, and a read into a full buffer
  returns 0: that this never happens rests on the growth in front of each read;
- `AnsweredInOrder`: `Spec => []AnsweredAsSent`.

`IInv` has three parts. `TypeInv`; `BufInv`: the filled part is within the
length, there is room whenever the task awaits a read, and the length is within
the bound whenever growth was allowed; `ReasonInv`: what `ClosedForAReason` says,
together with the facts on a request in execution that decide whether the response is final.
`AnswerInv` follows the position in the stream (`PosInv`): what is in the buffer, lease
or Vec, starts where the first unanswered request starts, and a request in execution
is that one. Since the positions are a variable (`starts`) and not a sum over the
requests before, no induction over the stream is needed.

### 4.4 WsTransport (`WsTransportProofs`)

For every buffer size up to the limit on a frame, every frame and bound, from the three
ASSUMEs of `WsTransport`:

- `TypeCorrect`: `Spec => []TypeOK`;
- `ReadBufferBounded`: `Spec => []BufferBounded`;
- `TextsCastInOrder`: `Spec => []TextsInOrder`;
- `PingsAnsweredClosesLast`: `Spec => []AnswersMatch`.

The invariant says that there is a number n of frames the reader is done with:
`read_buf` starts where frame n + 1 starts (`BufInv`), the texts among the first n are
what was cast (`CastInv`), the PINGs among them have both halves of their PONG on the
wire, and what is on the wire of frame n + 1 is what the reader is writing (`WireInv`).
The steps of the writer, the loop and the channel keep n; those of the reader keep it
or go to n + 1.

### 4.5 StandardPlugs (`RequestProofs`)

For every chain of plugs with one handler in it (`ChainAssumption`), all requests with
the headers the plugs read (`RequestAssumption`), static files below paths of their own
(`PathAssumption`) and all sizes (`SizeAssumption`):

- `HeadFitsBuffer`: `PlugsSpec => []WritesFit`;
- `ResponsesAreFramed`: `PlugsSpec => []FramedAsDeclared`;
- `CachesStayCurrent`: `PlugsSpec => []ClientShowsCurrent`.

For each setter and each plug there is a lemma on what it does to a Conn (`...Facts`,
`...IsLight` for plugs that touch neither status, body nor halted, `...Effect`). Framing
rests on `FramingInv`: only a halted Conn is a 304 or has a content-length, so that no
later plug replaces the body behind it. Caching rests on `CurrentInv`: before the
handler the Conn shows nothing, after it the body of the route or of the file that was
alive while the request was served, and each tag in the client's cache is the tag of
the body beside it.

### 4.6 Router and RequestCycle (`RequestProofs`)

For every program that builds a router and all requests, from `MenuAssumption`
(prefixes, paths and methods are of the kinds the builder takes; parameters are given
values that are not empty, see section 5):

- `RanAsPlannedHolds`: `RequestSpec => []RanAsPlanned`. `CycleInv` has `RouterInv`, what a
  builder can have declared; `HaltInv`, a halt is the last thing that ran;
  and `PlanInv`: until something halts, what was done followed by what is left to
  do is the plan, where what is left is the rest of a pipeline, the pipelines after
  it, the handler and the after-plugs, according to `pc`; after a halt what was
  done is a prefix of it.
- `PathForResolvesHolds`: `RequestSpec => []PathForResolves`. `NameInv` says that `nameIndex` has
  each name's last route; it is kept by every builder call, a scope declaring
  several at once. The rest says how the two descriptions of a route agree:
  its segments are what `ParseSegments` makes of its matchit path, however
  prefix and path were joined (`RouteIs`), so that the built path matches that route,
  segment by segment. A matchit path keeps a slash at the end or a doubled one, which
  the segments lose; that none is left when a route is spelt neatly, whatever slashes
  its prefix ends with, is `NeatRoutesAre`. That `resolve` finds the route needs that
  among the routes that match a path one beats all others, which is what a table
  without conflicts gives (`WonBy`): a route found in its stead has a static
  segment where it has a parameter.

### 4.7 Supervision (`ServicesProofs`)

From `NumWorkersAssumption`:

- `StartHidesNoPanic`: `SupervisedSpec => []StartReportsPanics`. `BlockingInv` says what
  `start` knows of its threads at each step: those before `next` have been joined
  without a panic, and it returns only when all are over.

### 4.8 ClusterBridge (`ServicesProofs`)

For any peers, broadcasters and bounds, without an assumption:

- `ListenersKnowTheCluster`: `ClusterBridgeSpec => []ClusterViewMatches`. `RoundInv`: in
  the middle of a round a listener knows the polled peers, less those still to be
  announced up, and those still to be announced down.
- `PeersFollow`: `ClusterBridgeSpec => []RelayFollows`. `BridgeInv` adds to the
  property, stated per peer (`PeerInv`), that one broadcaster at a time is inside
  `retain` (`LockInv`), that a peer has at most one live entry and the
  entries of earlier lives stay dead (`EntriesInv`), without which it would get a
  broadcast twice, and that the local PubSub has had what `retain` sends (`FeedInv`).

### 4.9 Presence and Telemetry (`ServicesProofs`)

- `WatcherConvergesHolds`: `[]WatcherConverges`, for any topics, keys, metadata, watchers
  and bounds. The property speaks of a watcher that has its list; what makes it
  inductive is what holds before. A watcher that has subscribed and not yet
  listed has diffs that repeat or undo what the list will say, so `PresenceInv` says of
  them: there is a set of keys such that the diffs, folded over *any* view, give the
  tracker's entries for these keys and the view's own for the others. Over the
  tracker's list this is the tracker's list. `Waits` says that a command waiting for
  an answer is the only one of its watcher, and `OwnKeys` that a key has one
  entry.
- `DeliveredOnceInOrderHolds`: `[]DeliveredOnceInOrder`, for any handlers, events, tasks and
  depth. `TelemetryInv` says how far each event has come: it has reached the matching ones
  among the first m handlers of the list it began with; m is the length of the list once
  `execute` has returned, and the position of its frame while that is on the stack. The
  frames are of different events and all have the list of handlers as it is,
  since an `attach` inside a handler panics on the borrowed list.

### 4.10 IceCreamStore (`StoreProofs`)

From `StoreAssumption` (ids of the initial flavors differ, requests carry values of the
types the JSON decoder lets through, the floor of a price is an i64), for any workers,
requests, width of i64, prices and bounds:

- `AnnouncedUnlessRacedHolds`: `Spec => []AnnouncedUnlessRaced`;
- `StepsBackOnlyInARaceHolds`: `Spec => StepsBackOnlyInARace`, an action property;
- `PoisonedForACauseHolds`: `Spec => []PoisonedForACause`;
- `StreamShowsMovedPricesHolds`: `Spec => []StreamShowsMovedPrices`.

The orders and the flavors are two halves that share no state, so each half has an
invariant of its own and every step is first shown to be one of a few kinds for a
half (`OrderStep`, `FlavorStep`), most handlers being none. `OrdersInv` says of an order
that nobody raced for that a simulator about to broadcast has what is stored,
and that without one the last announcement is what is stored (`Told`); of an
order that only its one simulator writes, how far this has got (`Follows`).
`FlavorsInv` adds to the two properties that ids are unique and that a stream's moved
flavors still exist; the queue of a stream is followed as a fold. `PoisonInv` adds that
a poisoned lock means a dead price thread: the tick that gave the cause is the last,
and nobody writes flavors after it.

### 4.11 Lemmas about sequences (`SequenceLemmas`)

The models use folds and recursive functions (`FoldLeft`, `FlattenSeq`, `Max`, `Kept`).
Facts about them need induction, and the library's induction theorems take an
operator as a parameter, which the provers cannot instantiate. `SequenceLemmas` states
induction with sets in their stead: from the well-foundedness of < on Nat, a set of numbers
that is not empty has a least one (`LeastNumber`), a set with 0 closed under
successors has all numbers (`UpTo`), a set of sequences with the empty one closed under
Append has all sequences (`GrowsTo`). A recursive function is then shown to exist
(`StepsDefine`, `SetStepsDefine`) and to be what its steps make it (`KeptSteps`, `FlattenSteps`),
and the rest follows by `UpTo` and `GrowsTo`. `Kept` writes `retain` and `filter` with a set
of places rather than a test, for the same reason.

### 4.12 Only model-checked

Liveness and everything under fairness is out of the prover's reach and stays with TLC:
`SubscribeReturns` and `BroadcastReceived` of `PubSub`, `HeartbeatAnswered`, `ClosedIsReaped`,
`ForwarderReaped` and `TimersStop` of `ChannelConnection`, `AnsweredUnlessPipelined` of
`HttpConnection`, `PushesReachWire`, `TornDown` and `DeathNoticed` of `WsTransport`. Every
invariant and every action property that a passing run checks is proved. The findings are
counterexamples of TLC.

## 5. What is not modelled

- Contents: JSON, header maps, topic patterns, formatted dates, event text.
- The rebar runtime, turbine's buffer pool, compio and rustls: external, present
  as what the code relies on (a mailbox in order, a lease or none, a read of
  any length).
- The accept loop: it hands each stream to a task of its own and keeps nothing.
  CPU affinity and socket options; the formatted date.
- Tokens of CSRF protection and hashes are values that are equal or not.
- In the demo: names, templates (a template that fails to render gives 500) and
  log lines.
- In `RequestCycle`: statuses, headers and bodies, which `StandardPlugs` has; parameter values that are
  empty or contain a slash, which `path_for` does not encode; `named_routes`.
- What nothing but tests calls: `ChannelSupervisor` with `connection_child_entry` and
  `handle_websocket_supervised`, `try_parse_into_conn` and `Conn::reset`. The server starts a
  channel process with `handle_websocket` and makes a Conn per request.
- What application callbacks push or broadcast themselves, in `join` before its ok reply
  for instance: `ChannelConnection` has the framework's own replies and pushes.
- The order of bytes between the reader's frames and the writer's: both may be inside
  `write_all` at once in the model, but `AnswersMatch` and `PushesReachWire` look at the frames of one side each.
- The release profile's `panic = "abort"` (`Cargo.toml:64`): every module that has a panic
  has one that unwinds, as in the dev profile and the tests.
- The generator and the benchmarks: a tool that writes template text once, and
  programs that compare servers.

## 6. Findings

1. Leaving or rejoining a topic does not end the old forwarder, so a client gets
   each broadcast once per join it ever made (`channel_duplicates`).
2. On plain TCP with a buffer pool, a pipelined request that arrived behind
   another waits in the Vec until the client sends more, and is dropped if it
   closes its sending side (`http_pipelined`).
3. A supervised PubSub server cannot be restarted: its factory takes the command
   queue once and panics when the supervisor calls it again, though its
   documentation promises a correct restart (`supervised_pubsub`).
4. `unsubscribe` clears and removes a topic with living subscribers, where its
   doc comment (`pubsub.rs:198`), `docs/pubsub.md:60` and `docs/architecture.md:132`
   speak of empty topics only (`pubsub_unsubscribe`).
5. A second `phx_join` of a joined topic drops the first channel and socket without
   `terminate`, which `docs/channels.md:93` promises on leave or disconnect
   (`channel_rejoin`).
6. Of two routes that match, matchit takes the one with a static segment and not the
   one registered first, as `docs/routing.md:119` and `docs/architecture.md:120` say
   (`route_order`).

Three more disagreements follow from a single action of a model and have no run of
their own:

- A channel that answers `ShouldStop::No` is dropped with the process, only without
  `terminate`, where `channel.rs:55` and `:95` say that it is kept alive: `terminate`
  drains `joined_channels` before it asks (`socket.rs:521`; "vetoed" in
  `ChannelConnection`, which nothing leaves).
- The reader and the writer task of a WebSocket may both be in the middle of
  `write_all`, where the comment at `server.rs:80` rules out concurrent access to
  the TLS stream (states of `WsTransport` with `reader` and `writer` in "write").
- A named route spelt with a trailing or a doubled slash keeps it in its matchit
  path and loses it in its segments, so that `path_for` builds a path which the
  router answers with 404 (the routes `PathForResolves` leaves out by `NeatRoutes`).

The properties of the passing runs say what holds around these: `CutOnlyOnRequest`
allows the cut by an unsubscribe and no other, `JoinedIsLive` speaks of the channels
that are live, `PathForResolves` of routes that are spelt neatly and of the route that
matchit prefers.

The models also show behaviour that is stated as it is and contradicts no
checked property: a frame above
`WS_MAX_FRAME_SIZE` is accepted if it completes before the buffer is found full,
which is why `BufferBounded` of `WsTransport` says twice the limit and
`AnswersMatch` only that no smaller frame is refused; a PONG and a pushed TEXT
may be cut into each other when a write is partial, which is why the properties
look at the halves of each side separately; a pipeline name nobody registered is
skipped without an error.

In the newer modules: each customer who joins a pending order starts a simulator,
so that its status may go back from ready to preparing, and a simulator releases
the lock before it broadcasts, so that the last broadcast may disagree with the
store (`StepsBackOnlyInARace` and `AnnouncedUnlessRaced` say when); a status written
over REST is never broadcast; deleting the last flavor, or storing a price from which the next delta leaves i64,
poisons the lock of the flavors at the next tick, after which every page with flavors
panics (in the dev profile); the task behind a price stream notices a client
that has gone only at the next price; a precompressed variant is served
whether or not it is older than its file, and also for `br;q=0`, which contains
"br"; `start` waits for the workers it has if a later spawn fails, which may be for
ever; the endpoint child stays parked if every bind failed; a peer can be added to a bridge but not
removed, although its documentation speaks of removal; who subscribes to
"mahalo:cluster" after the start misses the first announcements; a failed DNS
lookup announces every peer down.

## 7. Plan

What is left, in this order:

1. A composition of `WsTransport` and `ChannelConnection` in place of the
   reduced process of section 2.4, if its states stay within reach.
2. `ClusterBridge` with a `TopicFeed` per node, so that what subscribers of a peer
   see is stated of their feeds rather than of what its relay broadcast.
