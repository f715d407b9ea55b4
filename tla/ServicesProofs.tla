--------------------------- MODULE ServicesProofs ---------------------------
(* Proofs about the services beside the request path, for every value of    *)
(* the constants: what start reports, what a node tells of its cluster and  *)
(* what its peers get, what a presence watcher knows, and what the          *)
(* telemetry handlers are given.                                            *)
EXTENDS Supervision, ClusterBridge, Presence, Telemetry, SequenceLemmas

-----------------------------------------------------------------------------
(* The endpoint's threads.                                                  *)

EndpointPcs ==
    {"down", "spawning", "joining", "parked", "exited", "err_scope", "ok", "err", "scope_panicked"}
ThreadStates == {"starting", "serving", "ended", "panicked", "joined_ok", "joined_err"}

EndpointTypes ==
    /\ mode \in {"blocking", "supervised"}
    /\ endpoint \in [pc : EndpointPcs, next : Nat, lives : Nat]
    /\ threads \in Seq(ThreadStates)

(* What start knows of its threads at each of its steps: while it spawns,   *)
(* next is the thread to come; while it joins, the threads before next have *)
(* ended without a panic; it is back only when all are over.                *)
BlockingInv ==
    mode = "blocking" =>
        /\ endpoint.pc \notin {"parked", "exited"}
        /\ endpoint.pc = "down" => Len(threads) = 0
        /\ endpoint.pc = "spawning" =>
              endpoint.next = Len(threads) + 1 /\ endpoint.next <= NumWorkers + 1
        /\ endpoint.pc \in {"joining", "ok"} =>
              /\ Len(threads) = NumWorkers /\ endpoint.next <= NumWorkers + 1
              /\ \A i \in 1..Len(threads) : i < endpoint.next => threads[i] = "joined_ok"
        /\ endpoint.pc = "ok" => endpoint.next > NumWorkers
        /\ endpoint.pc \in {"err", "scope_panicked"} => \A i \in 1..Len(threads) : Over(i)

EndpointInv == EndpointTypes /\ BlockingInv

-----------------------------------------------------------------------------
(* One thread moves: start's knowledge survives, since no thread leaves a   *)
(* state in which it is over.                                               *)
LEMMA WorkerKeeps ==
    ASSUME EndpointInv, NEW i \in DOMAIN threads,
           NEW from \in SUBSET {"starting", "serving"}, NEW to \in ThreadStates,
           WorkerMoves(i, from, to)
    PROVE  EndpointInv'
<1>1. /\ mode' = mode /\ endpoint' = endpoint /\ threads' = [threads EXCEPT ![i] = to]
      /\ threads[i] \in {"starting", "serving"}
  BY DEF WorkerMoves
<1>2. threads \in Seq(ThreadStates) /\ i \in 1..Len(threads)
  BY DEF EndpointInv, EndpointTypes
<1>3. threads' \in Seq(ThreadStates) /\ Len(threads') = Len(threads)
  BY <1>1, <1>2
<1>4. \A j \in 1..Len(threads) : j # i => threads'[j] = threads[j]
  BY <1>1, <1>2
<1>5. EndpointTypes'
  BY <1>1, <1>3 DEF EndpointInv, EndpointTypes
<1>6. ASSUME mode = "blocking", endpoint.pc \in {"joining", "ok"},
             NEW j \in 1..Len(threads), j < endpoint.next
      PROVE  threads'[j] = "joined_ok"
  <2>1. threads[j] = "joined_ok"
    BY <1>6 DEF EndpointInv, BlockingInv
  <2> QED BY <2>1, <1>1, <1>4
<1>7. ASSUME mode = "blocking", endpoint.pc \in {"err", "scope_panicked"}
      PROVE  FALSE
  BY <1>7, <1>1, <1>2 DEF EndpointInv, BlockingInv, Over
<1>8. BlockingInv'
  BY <1>1, <1>3, <1>6, <1>7 DEF EndpointInv, BlockingInv
<1> QED BY <1>5, <1>8 DEF EndpointInv

(* At the start no thread runs.                                             *)
LEMMA EndpointInvInit == SupervisionInit => EndpointInv
<1> SUFFICES ASSUME SupervisionInit PROVE EndpointInv
  OBVIOUS
<1>1. threads = <<>> /\ Len(threads) = 0 /\ threads \in Seq(ThreadStates)
  BY DEF SupervisionInit
<1> QED BY <1>1 DEF SupervisionInit, EndpointInv, EndpointTypes, BlockingInv, EndpointPcs

(* Every step keeps what start knows of its threads.                        *)
LEMMA EndpointInvStep ==
    EndpointInv /\ [SupervisionNext]_supervisionVars => EndpointInv'
<1> SUFFICES ASSUME EndpointInv, [SupervisionNext]_supervisionVars PROVE EndpointInv'
  OBVIOUS
<1>t. /\ mode \in {"blocking", "supervised"} /\ threads \in Seq(ThreadStates)
      /\ endpoint \in [pc : EndpointPcs, next : Nat, lives : Nat]
      /\ Len(threads) \in Nat /\ NumWorkers \in Nat
  BY NumWorkersAssumption DEF EndpointInv, EndpointTypes
<1>n. endpoint.next \in Nat /\ endpoint.lives \in Nat /\ endpoint.pc \in EndpointPcs
  BY <1>t
<1>1. CASE EndpointStarts
  <2>1. /\ mode' = mode /\ threads' = threads
        /\ endpoint' = [pc |-> "spawning", next |-> 1, lives |-> endpoint.lives + 1]
        /\ endpoint.pc = "down" \/ (endpoint.pc = "exited" /\ mode = "supervised")
    BY <1>1 DEF EndpointStarts
  <2>2. EndpointTypes'
    BY <2>1, <1>t, <1>n DEF EndpointTypes, EndpointPcs
  <2>3. mode = "blocking" => Len(threads) = 0
    BY <2>1 DEF EndpointInv, BlockingInv
  <2>4. BlockingInv'
    BY <2>1, <2>3, <1>t DEF BlockingInv
  <2> QED BY <2>2, <2>4 DEF EndpointInv
<1>2. CASE SpawnWorker
  <2>1. /\ mode' = mode /\ threads' = Append(threads, "starting")
        /\ endpoint' = [endpoint EXCEPT !.next = @ + 1]
        /\ endpoint.pc = "spawning" /\ endpoint.next <= NumWorkers
    BY <1>2 DEF SpawnWorker
  <2>2. endpoint'.pc = "spawning" /\ endpoint'.next = endpoint.next + 1
    BY <2>1, <1>t
  <2>3. threads' \in Seq(ThreadStates) /\ Len(threads') = Len(threads) + 1
    BY <2>1, <1>t DEF ThreadStates
  <2>4. EndpointTypes'
    BY <2>1, <2>3, <1>t, <1>n DEF EndpointTypes
  <2>5. BlockingInv'
    BY <2>1, <2>2, <2>3, <1>t, <1>n DEF EndpointInv, BlockingInv
  <2> QED BY <2>4, <2>5 DEF EndpointInv
<1>3. CASE SpawnFails
  <2>1. /\ mode' = mode /\ threads' = threads
        /\ endpoint' = [endpoint EXCEPT !.pc = IF mode = "blocking" THEN "err_scope" ELSE "exited",
                                        !.next = 1]
    BY <1>3 DEF SpawnFails
  <2>2. EndpointTypes'
    BY <2>1, <1>t, <1>n DEF EndpointTypes, EndpointPcs
  <2>3. mode = "blocking" => endpoint'.pc = "err_scope"
    BY <2>1, <1>t
  <2> QED BY <2>1, <2>2, <2>3 DEF EndpointInv, BlockingInv
<1>4. CASE SpawningEnds
  <2>1. /\ mode' = mode /\ threads' = threads
        /\ endpoint' = [endpoint EXCEPT !.pc = IF mode = "blocking" THEN "joining" ELSE "parked",
                                        !.next = 1]
        /\ endpoint.pc = "spawning" /\ endpoint.next > NumWorkers
    BY <1>4 DEF SpawningEnds
  <2>2. EndpointTypes'
    BY <2>1, <1>t, <1>n DEF EndpointTypes, EndpointPcs
  <2>3. endpoint'.next = 1 /\ (mode = "blocking" => endpoint'.pc = "joining")
    BY <2>1, <1>t
  <2>4. mode = "blocking" => Len(threads) = NumWorkers
    BY <2>1, <1>t, <1>n DEF EndpointInv, BlockingInv
  <2>5. BlockingInv'
    BY <2>1, <2>3, <2>4, <1>t DEF BlockingInv
  <2> QED BY <2>2, <2>5 DEF EndpointInv
<1>5. CASE Join
  <2> DEFINE k == endpoint.next
  <2>1. /\ mode' = mode /\ endpoint.pc = "joining" /\ k <= NumWorkers /\ Over(k)
        /\ threads' = [threads EXCEPT ![k] = JoinResult(k)]
        /\ endpoint' = IF threads[k] = "panicked"
                       THEN [endpoint EXCEPT !.pc = "err_scope"]
                       ELSE [endpoint EXCEPT !.next = @ + 1]
    BY <1>5 DEF Join
  <2>2. JoinResult(k) \in ThreadStates
    BY DEF JoinResult, ThreadStates
  <2>3. threads' \in Seq(ThreadStates) /\ Len(threads') = Len(threads)
    <3>1. PICK result \in ThreadStates : result = JoinResult(k)
      BY <2>2
    <3>2. threads' = [threads EXCEPT ![k] = result]
      BY <2>1, <3>1
    <3> HIDE DEF k
    <3>3. CASE k \in 1..Len(threads)
      BY <3>2, <3>3, <1>t
    <3>4. CASE k \notin DOMAIN threads
      <4>1. threads' = threads
        BY <3>2, <3>4, <1>t
      <4> QED BY <4>1, <1>t
    <3> QED BY <3>3, <3>4, <1>t
  <2>4. EndpointTypes'
    BY <2>1, <2>3, <1>t, <1>n DEF EndpointTypes, EndpointPcs
  <2>5. CASE threads[k] = "panicked"
    <3>1. endpoint'.pc = "err_scope"
      BY <2>1, <2>5, <1>t
    <3> QED BY <3>1, <2>4 DEF EndpointInv, BlockingInv
  <2>6. CASE threads[k] # "panicked"
    <3>1. endpoint'.pc = "joining" /\ endpoint'.next = k + 1
      BY <2>1, <2>6, <1>t
    <3>2. ASSUME mode = "blocking"
          PROVE  /\ Len(threads) = NumWorkers
                 /\ \A i \in 1..Len(threads) : i < k => threads[i] = "joined_ok"
      BY <3>2, <2>1 DEF EndpointInv, BlockingInv
    <3>3. ASSUME mode = "blocking", NEW i \in 1..Len(threads), i < k + 1
          PROVE  threads'[i] = "joined_ok"
      <4>1. CASE i = k
        BY <4>1, <2>1, <2>6, <3>3, <1>t DEF JoinResult
      <4>2. CASE i # k
        BY <4>2, <2>1, <3>2, <3>3, <1>t, <1>n
      <4> QED BY <4>1, <4>2
    <3>4. BlockingInv'
      BY <2>1, <2>3, <3>1, <3>2, <3>3, <1>t, <1>n DEF BlockingInv
    <3> QED BY <3>4, <2>4 DEF EndpointInv
  <2> QED BY <2>5, <2>6
<1>6. CASE JoinedAll
  <2>1. /\ mode' = mode /\ threads' = threads
        /\ endpoint' = [endpoint EXCEPT !.pc = "ok"]
        /\ endpoint.pc = "joining" /\ endpoint.next > NumWorkers
    BY <1>6 DEF JoinedAll
  <2>2. EndpointTypes'
    BY <2>1, <1>t, <1>n DEF EndpointTypes, EndpointPcs
  <2>3. endpoint'.pc = "ok" /\ endpoint'.next = endpoint.next
    BY <2>1, <1>t
  <2>4. BlockingInv'
    BY <2>1, <2>3 DEF EndpointInv, BlockingInv
  <2> QED BY <2>2, <2>4 DEF EndpointInv
<1>7. CASE ScopeEnds
  <2>1. /\ mode' = mode /\ threads' = threads
        /\ endpoint' = [endpoint EXCEPT !.pc = IF \E i \in DOMAIN threads : threads[i] = "panicked"
                                               THEN "scope_panicked" ELSE "err"]
        /\ \A i \in DOMAIN threads : Over(i)
    BY <1>7 DEF ScopeEnds
  <2>2. EndpointTypes'
    BY <2>1, <1>t, <1>n DEF EndpointTypes, EndpointPcs
  <2>3. endpoint'.pc \in {"err", "scope_panicked"}
    BY <2>1, <1>t
  <2>4. \A i \in 1..Len(threads) : Over(i)'
    BY <2>1, <1>t DEF Over
  <2>5. BlockingInv'
    BY <2>1, <2>3, <2>4 DEF BlockingInv
  <2> QED BY <2>2, <2>5 DEF EndpointInv
<1>8. CASE \E i \in DOMAIN threads : WorkerServes(i) \/ WorkerBindFails(i) \/ WorkerPanics(i)
  <2>1. PICK i \in DOMAIN threads : WorkerServes(i) \/ WorkerBindFails(i) \/ WorkerPanics(i)
    BY <1>8
  <2>2. PICK from \in SUBSET {"starting", "serving"}, to \in ThreadStates : WorkerMoves(i, from, to)
    BY <2>1 DEF WorkerServes, WorkerBindFails, WorkerPanics, ThreadStates
  <2> QED BY <2>2, WorkerKeeps
<1>9. CASE UNCHANGED <<mode, endpointParts>>
  BY <1>9 DEF EndpointInv, EndpointTypes, BlockingInv, Over, endpointParts
<1>10. SupervisionNext => EndpointNext \/ UNCHANGED <<mode, endpointParts>>
  BY DEF SupervisionNext, PubSubChildNext, PubSubChildStarts, PubSubServerEnds, PubSubChildSeesEnd,
         TreeShutdown
<1> QED BY <1>1, <1>2, <1>3, <1>4, <1>5, <1>6, <1>7, <1>8, <1>9, <1>10
        DEF EndpointNext, supervisionVars, endpointParts

(* MahaloEndpoint::start never hides a worker that panicked, however many   *)
(* workers there are and in whichever order they bind, serve and panic: Ok  *)
(* means that every worker ended and none panicked, and whatever start      *)
(* comes back with, no thread it spawned is left.                           *)
THEOREM StartHidesNoPanic == SupervisedSpec => []StartReportsPanics
<1>1. EndpointInv => StartReportsPanics
  <2> SUFFICES ASSUME EndpointInv, mode = "blocking", endpoint.pc \in {"ok", "err", "scope_panicked"}
               PROVE  /\ \A i \in DOMAIN threads : Over(i)
                      /\ endpoint.pc = "ok" => \A i \in DOMAIN threads : threads[i] = "joined_ok"
    BY DEF StartReportsPanics
  <2>1. threads \in Seq(ThreadStates) /\ endpoint.next \in Nat /\ NumWorkers \in Nat
    BY NumWorkersAssumption DEF EndpointInv, EndpointTypes
  <2>2. DOMAIN threads = 1..Len(threads) /\ Len(threads) \in Nat
    BY <2>1
  <2>3. CASE endpoint.pc = "ok"
    <3>1. /\ Len(threads) = NumWorkers /\ endpoint.next > NumWorkers
          /\ \A i \in 1..Len(threads) : i < endpoint.next => threads[i] = "joined_ok"
      BY <2>3 DEF EndpointInv, BlockingInv
    <3> QED BY <3>1, <2>1, <2>2 DEF Over
  <2>4. CASE endpoint.pc # "ok"
    BY <2>4, <2>2 DEF EndpointInv, BlockingInv
  <2> QED BY <2>3, <2>4
<1> QED BY <1>1, EndpointInvInit, EndpointInvStep, PTL DEF SupervisedSpec

-----------------------------------------------------------------------------
(* The cluster and its bridges.                                             *)

(* The cluster's loop. Half-way through the announcements, a listener knows *)
(* the polled peers but those whose node_up is still to come, and those     *)
(* whose node_down is still to come.                                        *)
RoundInv ==
    /\ poll.ups \subseteq poll.current /\ poll.downs \cap poll.current = {}
    /\ clusterView = (poll.current \ poll.ups) \cup poll.downs
    /\ poll.pc = "idle" => poll.ups = {} /\ poll.downs = {} /\ known = poll.current

PollType ==
    poll \in [pc : {"idle", "announce"}, current : SUBSET Peers,
              ups : SUBSET Peers, downs : SUBSET Peers]

(* poll_peers compares with known_peers, which the last round left equal to *)
(* what a listener knows; no step of the bridge touches either.             *)
LEMMA RoundStep ==
    ASSUME PollType, RoundInv, [ClusterNext \/ BridgeNext]_clusterBridgeVars
    PROVE  PollType' /\ RoundInv'
<1>1. CASE PollPeers
  <2>1. PICK current \in SUBSET Peers :
          poll' = [pc |-> "announce", current |-> current,
                   ups |-> current \ known, downs |-> known \ current]
    BY <1>1 DEF PollPeers
  <2>2. known = poll.current /\ clusterView = known /\ clusterView' = clusterView /\ known' = known
    BY <1>1 DEF PollPeers, RoundInv
  <2>3. PollType'
    BY <2>1, <2>2 DEF PollType
  <2>4. /\ poll'.pc = "announce" /\ poll'.current = current
        /\ poll'.ups = current \ known /\ poll'.downs = known \ current
    BY <2>1
  <2> QED BY <2>2, <2>3, <2>4 DEF RoundInv
<1>2. CASE AnnounceUp
  <2>1. PICK p \in poll.ups : /\ poll' = [poll EXCEPT !.ups = @ \ {p}]
                              /\ clusterView' = clusterView \cup {p} /\ known' = known
    BY <1>2 DEF AnnounceUp
  <2> QED BY <2>1 DEF PollType, RoundInv
<1>3. CASE AnnounceDown
  <2>1. PICK p \in poll.downs : /\ poll' = [poll EXCEPT !.downs = @ \ {p}]
                                /\ clusterView' = clusterView \ {p} /\ known' = known
    BY <1>3 DEF AnnounceDown
  <2> QED BY <2>1 DEF PollType, RoundInv
<1>4. CASE PollEnds
  <2>1. /\ poll.ups = {} /\ poll.downs = {}
        /\ known' = poll.current /\ poll' = [poll EXCEPT !.pc = "idle"]
        /\ clusterView' = clusterView
    BY <1>4 DEF PollEnds
  <2> QED BY <2>1 DEF PollType, RoundInv
<1>5. CASE BridgeNext \/ UNCHANGED clusterBridgeVars
  <2>1. UNCHANGED clusterVars
    BY <1>5 DEF BridgeNext, BroadcastLocally, LockPeers, SendToPeer, PrunePeer, UnlockPeers,
                AddPeer, Relay, PeerDies, PeerReturns, clusterBridgeVars
  <2> QED BY <2>1 DEF clusterVars, PollType, RoundInv
<1> QED BY <1>1, <1>2, <1>3, <1>4, <1>5 DEF ClusterNext

(* One who has applied every node_up and node_down since the start knows    *)
(* between two rounds just the peers the cluster knows: handle_poll,        *)
(* whatever a topology returns from one round to the next.                  *)
THEOREM ListenersKnowTheCluster == ClusterBridgeSpec => []ClusterViewMatches
<1>1. ClusterBridgeInit => PollType /\ RoundInv
  <2>1. SUFFICES ASSUME ClusterBridgeInit
                 PROVE  PollType /\ RoundInv
    OBVIOUS
  <2>2. PICK ps \in SUBSET Peers :
          poll = [pc |-> "announce", current |-> ps, ups |-> ps, downs |-> {}]
    BY <2>1 DEF ClusterBridgeInit
  <2>3. clusterView = {}
    BY <2>1 DEF ClusterBridgeInit
  <2> QED BY <2>2, <2>3 DEF PollType, RoundInv
<1>2. PollType /\ RoundInv /\ [ClusterNext \/ BridgeNext]_clusterBridgeVars
        => (PollType /\ RoundInv)'
  BY RoundStep
<1>3. RoundInv => ClusterViewMatches
  BY DEF RoundInv, ClusterViewMatches
<1> QED BY <1>1, <1>2, <1>3, PTL DEF ClusterBridgeSpec

-----------------------------------------------------------------------------
Broadcasts == Broadcasters \X Nat
Entries    == [peer : Peers, life : Nat]
Nodes      == [life : Nat, up : BOOLEAN, channel : Seq(Broadcasts),
               relayed : Seq(Broadcasts), from : [Broadcasters -> Nat]]

BridgeTypes ==
    /\ peers \in Seq(Entries)
    /\ peerNode \in [Peers -> Nodes]
    /\ sender \in [Broadcasters -> [sent : Nat, pc : {"idle", "fan_out", "retain"}, next : Nat]]
    /\ localFeed \in Seq(Broadcasts)

(* One broadcaster at a time holds the lock; retain stays within peers.     *)
LockInv ==
    /\ \A b, c \in Broadcasters : sender[b].pc = "retain" /\ sender[c].pc = "retain" => b = c
    /\ \A b \in Broadcasters : sender[b].pc # "idle" => sender[b].sent >= 1
    /\ \A b \in Broadcasters : sender[b].pc = "retain" => sender[b].next \in 1..(Len(peers) + 1)

(* A peer has one live entry at most: it registered since its last start,   *)
(* and the entries of its earlier lives are dead for good.                  *)
EntriesInv ==
    /\ \A i \in DOMAIN peers : peers[i].life <= peerNode[peers[i].peer].life
    /\ \A i, j \in DOMAIN peers :
         peers[i].peer = peers[j].peer /\ Live(peers[i]) /\ Live(peers[j]) => i = j

Has(got, m) == \E i \in DOMAIN got : got[i] = m

(* The local PubSub has had every broadcast that retain hands to peers.     *)
FeedInv ==
    \A b \in Broadcasters : \A n \in 1..sender[b].sent : Has(localFeed, <<b, n>>)

(* RelayFollows of one peer, for a broadcast of any number.                 *)
PeerInv(p) ==
    /\ Received(p) # <<>> => Registered(p)
    /\ \A i \in DOMAIN Received(p) : Has(localFeed, Received(p)[i])
    /\ \A i, j \in DOMAIN Received(p) :
         i < j /\ Received(p)[i][1] = Received(p)[j][1] => Received(p)[i][2] < Received(p)[j][2]
    /\ Registered(p) =>
         \A b \in Broadcasters, n \in Nat :
            Has(Received(p), <<b, n>>) <=> peerNode[p].from[b] <= n /\ n <= Offered(b, p)
    /\ Registered(p) => \A b \in Broadcasters : peerNode[p].from[b] <= Offered(b, p) + 1

BridgeInv == BridgeTypes /\ LockInv /\ EntriesInv /\ FeedInv /\ \A p \in Peers : PeerInv(p)

(* RemoveAt, by which retain drops a dead entry, leaves out just that       *)
(* one.                                                                     *)
LEMMA PruneFacts ==
    ASSUME NEW S, NEW q \in Seq(S), NEW i \in 1..Len(q)
    PROVE  /\ RemoveAt(q, i) \in Seq(S)
           /\ Len(RemoveAt(q, i)) = Len(q) - 1
           /\ \A j \in 1..(Len(q) - 1) :
                RemoveAt(q, i)[j] = IF j < i THEN q[j] ELSE q[j + 1]
<1> DEFINE a == SubSeq(q, 1, i - 1)
           b == SubSeq(q, i + 1, Len(q))
<1>1. \A j \in 1..Len(q) : q[j] \in S
  BY ElementOfSeq
<1>2. a \in Seq(S) /\ Len(a) = i - 1 /\ \A j \in 1..(i - 1) : a[j] = q[j]
  <2>1. \A j \in 1..(i - 1) : q[j] \in S
    BY <1>1
  <2> QED BY <2>1, SubSeqProperties
<1>3. b \in Seq(S) /\ Len(b) = Len(q) - i /\ \A j \in 1..(Len(q) - i) : b[j] = q[i + j]
  <2>1. \A j \in (i + 1)..Len(q) : q[j] \in S
    BY <1>1
  <2> QED BY <2>1, SubSeqProperties
<1> HIDE DEF a, b
<1>4. /\ a \o b \in Seq(S)
      /\ Len(a \o b) = Len(q) - 1
      /\ \A j \in 1..(Len(q) - 1) : (a \o b)[j] = IF j <= i - 1 THEN a[j] ELSE b[j - (i - 1)]
  <2>1. Len(a) = i - 1 /\ Len(b) = Len(q) - i /\ (i - 1) + (Len(q) - i) = Len(q) - 1
    BY <1>2, <1>3
  <2>2. /\ a \o b \in Seq(S) /\ Len(a \o b) = Len(a) + Len(b)
        /\ \A j \in 1..(Len(a) + Len(b)) : (a \o b)[j] = IF j <= Len(a) THEN a[j] ELSE b[j - Len(a)]
    BY <1>2, <1>3, ConcatProperties
  <2>3. \A j \in 1..(Len(q) - 1) : j \in 1..(Len(a) + Len(b))
    BY <2>1
  <2> QED BY <2>1, <2>2, <2>3
<1>5. ASSUME NEW j \in 1..(Len(q) - 1)
      PROVE  (a \o b)[j] = IF j < i THEN q[j] ELSE q[j + 1]
  <2>1. CASE j < i
    <3>1. (a \o b)[j] = a[j]
      BY <1>4, <2>1
    <3> QED BY <1>2, <2>1, <3>1
  <2>2. CASE ~(j < i)
    <3>1. (a \o b)[j] = b[j - (i - 1)]
      BY <1>4, <2>2
    <3>2. j - (i - 1) \in 1..(Len(q) - i) /\ i + (j - (i - 1)) = j + 1
      BY <2>2
    <3>3. b[j - (i - 1)] = q[i + (j - (i - 1))]
      BY <1>3, <3>2
    <3>4. (a \o b)[j] = q[j + 1]
      BY <3>1, <3>2, <3>3
    <3> QED BY <2>2, <3>4
  <2> QED BY <2>1, <2>2
<1> QED BY <1>4, <1>5 DEF RemoveAt, a, b

(* Live entries and offers depend on the peers' lives, on the entries and   *)
(* on the senders; a peer for which none of them changed keeps its part of  *)
(* the invariant, whatever is appended to the local feed.                   *)
LEMMA PeerKept ==
    ASSUME NEW p \in Peers, PeerInv(p),
           Received(p)' = Received(p),
           Registered(p)' <=> Registered(p),
           Registered(p) => /\ peerNode[p].from' = peerNode[p].from
                            /\ \A b \in Broadcasters : Offered(b, p)' = Offered(b, p),
           \A m : Has(localFeed, m) => Has(localFeed, m)'
    PROVE  PeerInv(p)'
<1> DEFINE got == Received(p)
<1>1. (got # <<>> => Registered(p))'
  BY DEF PeerInv
<1>2. (\A i \in DOMAIN got : Has(localFeed, got[i]))'
  BY DEF PeerInv
<1>3. (\A i, j \in DOMAIN got : i < j /\ got[i][1] = got[j][1] => got[i][2] < got[j][2])'
  BY DEF PeerInv
<1>4. (Registered(p) =>
         \A b \in Broadcasters, n \in Nat :
            Has(got, <<b, n>>) <=> peerNode[p].from[b] <= n /\ n <= Offered(b, p))'
  BY DEF PeerInv, Has
<1>5. (Registered(p) => \A b \in Broadcasters : peerNode[p].from[b] <= Offered(b, p) + 1)'
  BY DEF PeerInv
<1> QED BY <1>1, <1>2, <1>3, <1>4, <1>5 DEF PeerInv
(* broadcast, its local part: the offers to the peers stay where they were. *)
LEMMA BroadcastLocallyStep ==
    ASSUME BridgeInv, NEW b \in Broadcasters, BroadcastLocally(b)
    PROVE  BridgeInv'
<1> USE DEF BridgeTypes, Nodes, Broadcasts
<1>1. BridgeTypes /\ LockInv /\ EntriesInv /\ FeedInv /\ \A p \in Peers : PeerInv(p)
  BY DEF BridgeInv
<1>2. /\ sender[b].pc = "idle"
      /\ sender' = [sender EXCEPT ![b].sent = @ + 1, ![b].pc = "fan_out"]
      /\ localFeed' = Append(localFeed, <<b, sender[b].sent + 1>>)
      /\ peers' = peers /\ peerNode' = peerNode
  BY DEF BroadcastLocally
<1>3. BridgeTypes'
  BY <1>1, <1>2
<1>4. /\ sender'[b].pc = "fan_out" /\ sender'[b].sent = sender[b].sent + 1
      /\ \A c \in Broadcasters : c # b => sender'[c] = sender[c]
  BY <1>1, <1>2
<1>5. LockInv'
  BY <1>1, <1>2, <1>4 DEF LockInv
<1>6. EntriesInv'
  BY <1>1, <1>2 DEF EntriesInv, Live
<1>a. /\ DOMAIN localFeed = 1..Len(localFeed) /\ DOMAIN localFeed' = 1..(Len(localFeed) + 1)
      /\ \A j \in 1..Len(localFeed) : localFeed'[j] = localFeed[j]
      /\ localFeed'[Len(localFeed) + 1] = <<b, sender[b].sent + 1>>
      /\ Len(localFeed) \in Nat
  BY <1>1, <1>2
<1>7. \A m : Has(localFeed, m) => Has(localFeed, m)'
  BY <1>a DEF Has
<1>8. FeedInv'
  <2>1. Has(localFeed', <<b, sender[b].sent + 1>>)
    BY <1>a DEF Has
  <2>2. ASSUME NEW c \in Broadcasters, NEW n \in 1..sender'[c].sent
        PROVE  Has(localFeed', <<c, n>>)
    <3>1. CASE c = b /\ n = sender[b].sent + 1
      BY <2>1, <3>1
    <3>2. CASE ~(c = b /\ n = sender[b].sent + 1)
      <4>1. n \in 1..sender[c].sent
        BY <1>1, <1>4, <3>2
      <4> QED BY <1>1, <1>7, <4>1 DEF FeedInv
    <3> QED BY <3>1, <3>2
  <2> QED BY <2>2 DEF FeedInv
<1>9. ASSUME NEW p \in Peers PROVE PeerInv(p)'
  <2>1. Received(p)' = Received(p) /\ (Registered(p)' <=> Registered(p))
    BY <1>2 DEF Received, Registered, Live
  <2>2. \A c \in Broadcasters : Offered(c, p)' = Offered(c, p)
    BY <1>1, <1>2, <1>4, SMTT(30) DEF Offered, Live
  <2> QED BY <1>1, <1>2, <1>7, <2>1, <2>2, PeerKept
<1> QED BY <1>3, <1>5, <1>6, <1>8, <1>9 DEF BridgeInv

(* retain begins: a registered peer is still ahead of it.                   *)
LEMMA LockPeersStep ==
    ASSUME BridgeInv, NEW b \in Broadcasters, LockPeers(b)
    PROVE  BridgeInv'
<1> USE DEF BridgeTypes, Nodes, Broadcasts
<1>1. BridgeTypes /\ LockInv /\ EntriesInv /\ FeedInv /\ \A p \in Peers : PeerInv(p)
  BY DEF BridgeInv
<1>2. /\ sender[b].pc = "fan_out" /\ Unlocked
      /\ sender' = [sender EXCEPT ![b].pc = "retain", ![b].next = 1]
      /\ localFeed' = localFeed /\ peers' = peers /\ peerNode' = peerNode
  BY DEF LockPeers
<1>3. BridgeTypes'
  BY <1>1, <1>2, ZenonT(30)
<1>4. /\ sender'[b].pc = "retain" /\ sender'[b].sent = sender[b].sent /\ sender'[b].next = 1
      /\ \A c \in Broadcasters : c # b => sender'[c] = sender[c]
  BY <1>1, <1>2
<1>5. LockInv'
  BY <1>1, <1>2, <1>4 DEF LockInv, Unlocked
<1>6. EntriesInv'
  BY <1>1, <1>2 DEF EntriesInv, Live
<1>7. FeedInv'
  BY <1>1, <1>2, <1>4 DEF FeedInv, Has
<1>8. ASSUME NEW p \in Peers PROVE PeerInv(p)'
  <2>1. Received(p)' = Received(p) /\ (Registered(p)' <=> Registered(p))
    BY <1>2 DEF Received, Registered, Live
  <2>2. ASSUME Registered(p), NEW c \in Broadcasters PROVE Offered(c, p)' = Offered(c, p)
    <3>1. CASE c = b
      <4>1. PICK i \in DOMAIN peers : peers[i].peer = p /\ Live(peers[i])
        BY <2>2 DEF Registered
      <4>2. i >= 1 /\ Live(peers[i])'
        BY <1>1, <1>2, <4>1 DEF Live
      <4>3. Offered(b, p)' = sender[b].sent - 1
        BY <1>1, <1>2, <1>4, <4>1, <4>2 DEF Offered
      <4>4. Offered(b, p) = sender[b].sent - 1
        BY <1>2 DEF Offered
      <4> QED BY <3>1, <4>3, <4>4
    <3>2. CASE c # b
      BY <1>1, <1>2, <1>4, <3>2 DEF Offered, Live
    <3> QED BY <3>1, <3>2
  <2>3. \A m : Has(localFeed, m) => Has(localFeed, m)'
    BY <1>2 DEF Has
  <2> QED BY <1>1, <1>2, <2>1, <2>2, <2>3, PeerKept
<1> QED BY <1>3, <1>5, <1>6, <1>7, <1>8 DEF BridgeInv

(* retain ends: every live entry is behind it.                              *)
LEMMA UnlockPeersStep ==
    ASSUME BridgeInv, NEW b \in Broadcasters, UnlockPeers(b)
    PROVE  BridgeInv'
<1> USE DEF BridgeTypes, Nodes, Broadcasts
<1>1. BridgeTypes /\ LockInv /\ EntriesInv /\ FeedInv /\ \A p \in Peers : PeerInv(p)
  BY DEF BridgeInv
<1>2. /\ sender[b].pc = "retain" /\ sender[b].next > Len(peers)
      /\ sender' = [sender EXCEPT ![b].pc = "idle"]
      /\ localFeed' = localFeed /\ peers' = peers /\ peerNode' = peerNode
  BY DEF UnlockPeers
<1>3. BridgeTypes'
  BY <1>1, <1>2
<1>4. /\ sender'[b].pc = "idle" /\ sender'[b].sent = sender[b].sent
      /\ \A c \in Broadcasters : c # b => sender'[c] = sender[c]
  BY <1>1, <1>2
<1>5. LockInv'
  BY <1>1, <1>2, <1>4 DEF LockInv
<1>6. EntriesInv'
  BY <1>1, <1>2 DEF EntriesInv, Live
<1>7. FeedInv'
  BY <1>1, <1>2, <1>4 DEF FeedInv, Has
<1>8. ASSUME NEW p \in Peers PROVE PeerInv(p)'
  <2>1. Received(p)' = Received(p) /\ (Registered(p)' <=> Registered(p))
    BY <1>2 DEF Received, Registered, Live
  <2>2. ASSUME NEW c \in Broadcasters PROVE Offered(c, p)' = Offered(c, p)
    BY <1>1, <1>2, <1>4, SMTT(30) DEF Offered, Live
  <2>3. \A m : Has(localFeed, m) => Has(localFeed, m)'
    BY <1>2 DEF Has
  <2> QED BY <1>1, <1>2, <2>1, <2>2, <2>3, PeerKept
<1> QED BY <1>3, <1>5, <1>6, <1>7, <1>8 DEF BridgeInv
(* What Append does to a peer's feed.                                       *)
LEMMA AppendReceived ==
    ASSUME NEW S, NEW r \in Seq(S), NEW c \in Seq(S), NEW m \in S
    PROVE  r \o Append(c, m) = Append(r \o c, m)
<1>1. /\ r \o c \in Seq(S) /\ Len(r \o c) = Len(r) + Len(c)
      /\ \A i \in 1..(Len(r) + Len(c)) :
           (r \o c)[i] = IF i <= Len(r) THEN r[i] ELSE c[i - Len(r)]
  BY ConcatProperties
<1>2. /\ Append(c, m) \in Seq(S) /\ Len(Append(c, m)) = Len(c) + 1
      /\ \A i \in 1..Len(c) : Append(c, m)[i] = c[i]
      /\ Append(c, m)[Len(c) + 1] = m
  BY AppendProperties
<1>3. /\ r \o Append(c, m) \in Seq(S) /\ Len(r \o Append(c, m)) = Len(r) + Len(c) + 1
      /\ \A i \in 1..(Len(r) + Len(c) + 1) :
           (r \o Append(c, m))[i] = IF i <= Len(r) THEN r[i] ELSE Append(c, m)[i - Len(r)]
  <2> DEFINE a == Append(c, m)
  <2>1. a \in Seq(S) /\ Len(a) = Len(c) + 1
    BY <1>2
  <2> HIDE DEF a
  <2>2. r \o a \in Seq(S) /\ Len(r \o a) = Len(r) + Len(a)
    BY <2>1, ConcatProperties
  <2>3. \A i \in 1..(Len(r) + Len(a)) : (r \o a)[i] = IF i <= Len(r) THEN r[i] ELSE a[i - Len(r)]
    BY <2>1, ConcatProperties
  <2>4. Len(r) \in Nat /\ Len(c) \in Nat
    OBVIOUS
  <2>5. Len(r) + Len(a) = Len(r) + Len(c) + 1
    BY <2>1, <2>4
  <2> QED BY <2>2, <2>3, <2>5 DEF a
<1>4. /\ Append(r \o c, m) \in Seq(S) /\ Len(Append(r \o c, m)) = Len(r) + Len(c) + 1
      /\ \A i \in 1..(Len(r) + Len(c)) : Append(r \o c, m)[i] = (r \o c)[i]
      /\ Append(r \o c, m)[Len(r) + Len(c) + 1] = m
  BY <1>1, AppendProperties
<1>5. ASSUME NEW i \in 1..(Len(r) + Len(c) + 1)
      PROVE  (r \o Append(c, m))[i] = Append(r \o c, m)[i]
  <2>1. CASE i <= Len(r)
    BY <1>1, <1>3, <1>4, <2>1
  <2>2. CASE i > Len(r) /\ i <= Len(r) + Len(c)
    <3>1. i - Len(r) \in 1..Len(c)
      BY <2>2
    <3>2. (r \o Append(c, m))[i] = c[i - Len(r)]
      BY <1>2, <1>3, <2>2, <3>1
    <3>3. Append(r \o c, m)[i] = c[i - Len(r)]
      BY <1>1, <1>4, <2>2
    <3> QED BY <3>2, <3>3
  <2>3. CASE i = Len(r) + Len(c) + 1
    <3>1. i - Len(r) = Len(c) + 1 /\ ~(i <= Len(r))
      BY <2>3
    <3>2. (r \o Append(c, m))[i] = m
      BY <1>2, <1>3, <3>1
    <3>3. Append(r \o c, m)[i] = m
      BY <1>4, <2>3
    <3> QED BY <3>2, <3>3
  <2> QED BY <2>1, <2>2, <2>3
<1> QED BY <1>3, <1>4, <1>5, SeqEqual

(* The live entry at which retain stands is the only one of its peer, so    *)
(* the broadcast it sends is the next one that this peer is to get.         *)
LEMMA SendToPeerStep ==
    ASSUME BridgeInv, NEW b \in Broadcasters, SendToPeer(b)
    PROVE  BridgeInv'
<1> DEFINE i == sender[b].next
           q == peers[i].peer
           m == <<b, sender[b].sent>>
<1>1. BridgeTypes /\ LockInv /\ EntriesInv /\ FeedInv /\ \A p \in Peers : PeerInv(p)
  BY DEF BridgeInv
<1>2. /\ sender[b].pc = "retain" /\ i <= Len(peers) /\ Live(peers[i])
      /\ peerNode' = [peerNode EXCEPT ![q].channel = Append(@, m)]
      /\ sender' = [sender EXCEPT ![b].next = i + 1]
      /\ localFeed' = localFeed /\ peers' = peers
  BY DEF SendToPeer
<1>3. i \in DOMAIN peers /\ i \in Nat /\ peers[i] \in Entries /\ q \in Peers
  <2>1. peers \in Seq(Entries) /\ i \in 1..Len(peers)
    BY <1>1, <1>2, SMTT(60) DEF BridgeTypes, Nodes, LockInv
  <2>2. peers[i] \in Entries
    BY <2>1, ElementOfSeq
  <2> QED BY <2>1, <2>2 DEF Entries
<1>4. m \in Broadcasts
  BY <1>1 DEF BridgeTypes, Nodes, Broadcasts
<1> HIDE DEF i, q, m
<1>5. BridgeTypes'
  <2>1. Append(peerNode[q].channel, m) \in Seq(Broadcasts)
    BY <1>1, <1>3, <1>4 DEF BridgeTypes, Nodes
  <2>2. peerNode' \in [Peers -> Nodes]
    BY <1>1, <1>2, <1>3, <2>1 DEF BridgeTypes, Nodes
  <2>3. sender' \in [Broadcasters -> [sent : Nat, pc : {"idle", "fan_out", "retain"}, next : Nat]]
    <3>1. i + 1 \in Nat /\ sender' = [sender EXCEPT ![b].next = i + 1]
      BY <1>2, <1>3
    <3> QED BY <1>1, <3>1 DEF BridgeTypes, Nodes
  <2> QED BY <1>1, <1>2, <2>2, <2>3 DEF BridgeTypes, Nodes
<1>6. /\ sender'[b].pc = "retain" /\ sender'[b].sent = sender[b].sent /\ sender'[b].next = i + 1
      /\ \A c \in Broadcasters : c # b => sender'[c] = sender[c] /\ sender[c].pc # "retain"
  BY <1>1, <1>2 DEF BridgeTypes, Nodes, LockInv
<1>7. \A p \in Peers : /\ peerNode'[p].life = peerNode[p].life /\ peerNode'[p].up = peerNode[p].up
                       /\ peerNode'[p].from = peerNode[p].from
                       /\ peerNode'[p].relayed = peerNode[p].relayed
                       /\ p # q => peerNode'[p].channel = peerNode[p].channel
  BY <1>1, <1>2 DEF BridgeTypes, Nodes
<1>8. \A j \in DOMAIN peers : peers[j].peer \in Peers
  <2>1. \A j \in 1..Len(peers) : peers[j] \in Entries
    BY <1>1, ElementOfSeq DEF BridgeTypes, Nodes
  <2>2. DOMAIN peers = 1..Len(peers)
    BY <1>1 DEF BridgeTypes, Nodes
  <2> QED BY <2>1, <2>2 DEF Entries
<1>9. \A j \in DOMAIN peers : Live(peers[j])' <=> Live(peers[j])
  BY <1>2, <1>7, <1>8 DEF Live
<1>10. LockInv'
  <2>1. DOMAIN peers = 1..Len(peers)
    BY <1>1 DEF BridgeTypes, Nodes
  <2> QED BY <1>1, <1>2, <1>3, <1>6, <2>1 DEF LockInv
<1>11. EntriesInv'
  BY <1>1, <1>2, <1>7, <1>8, <1>9 DEF EntriesInv
<1>12. FeedInv'
  <2>1. \A c \in Broadcasters : sender'[c].sent = sender[c].sent
    BY <1>6
  <2> QED BY <1>1, <1>2, <2>1 DEF FeedInv
<1>13. \A p \in Peers : Registered(p)' <=> Registered(p)
  BY <1>2, <1>9 DEF Registered
<1>14. \A n : Has(localFeed, n) => Has(localFeed, n)'
  BY <1>2
<1>15. ASSUME NEW p \in Peers, p # q PROVE PeerInv(p)'
  <2>1. Received(p)' = Received(p)
    BY <1>7, <1>15 DEF Received
  <2>2. ASSUME NEW c \in Broadcasters PROVE Offered(c, p)' = Offered(c, p)
    <3>1. CASE c = b
      <4>1. \A j \in DOMAIN peers : peers[j].peer = p => (j >= i <=> j >= i + 1)
        <5>1. \A j \in DOMAIN peers : peers[j].peer = p => j # i
          BY <1>15 DEF q
        <5>2. DOMAIN peers \subseteq Int
          BY <1>1 DEF BridgeTypes, Nodes
        <5> QED BY <1>3, <5>1, <5>2
      <4>2. (\E j \in DOMAIN peers : j >= sender[b].next /\ peers[j].peer = p /\ Live(peers[j]))'
              <=> \E j \in DOMAIN peers : j >= sender[b].next /\ peers[j].peer = p /\ Live(peers[j])
        BY <1>2, <1>6, <1>9, <4>1 DEF i
      <4> QED BY <1>2, <1>6, <3>1, <4>2 DEF Offered
    <3>2. CASE c # b
      BY <1>6, <3>2 DEF Offered
    <3> QED BY <3>1, <3>2
  <2> QED BY <1>1, <1>7, <1>13, <1>14, <2>1, <2>2, PeerKept
<1>16. ASSUME NEW p \in Peers, p = q PROVE PeerInv(p)'
  <2> DEFINE got == Received(p)
  <2>1. got \in Seq(Broadcasts)
    BY <1>1, <1>3, ConcatProperties DEF BridgeTypes, Nodes, Received
  <2>2. got' = Append(got, m)
    <3>1. peerNode'[p].channel = Append(peerNode[p].channel, m)
      BY <1>1, <1>2, <1>3, <1>16 DEF BridgeTypes, Nodes
    <3>2. peerNode[p].channel \in Seq(Broadcasts) /\ peerNode[p].relayed \in Seq(Broadcasts)
      BY <1>1, <1>3 DEF BridgeTypes, Nodes
    <3>3. got' = peerNode[p].relayed \o Append(peerNode[p].channel, m)
      BY <1>7, <3>1 DEF Received
    <3>4. peerNode[p].relayed \o Append(peerNode[p].channel, m)
            = Append(peerNode[p].relayed \o peerNode[p].channel, m)
      <4> DEFINE rel == peerNode[p].relayed
                 ch  == peerNode[p].channel
      <4>1. rel \in Seq(Broadcasts) /\ ch \in Seq(Broadcasts)
        BY <3>2
      <4> HIDE DEF rel, ch
      <4>2. rel \o Append(ch, m) = Append(rel \o ch, m)
        BY <1>4, <4>1, AppendReceived
      <4> QED BY <4>2 DEF rel, ch
    <3> QED BY <3>3, <3>4 DEF Received
  <2> HIDE DEF got
  <2>3. /\ DOMAIN got = 1..Len(got) /\ DOMAIN got' = 1..(Len(got) + 1) /\ Len(got) \in Nat
        /\ \A k \in 1..Len(got) : got'[k] = got[k]
        /\ got'[Len(got) + 1] = m
    BY <1>4, <2>1, <2>2
  <2>4. Registered(p) /\ Registered(p)'
    BY <1>2, <1>3, <1>13, <1>16 DEF Registered, q
  <2>5. Offered(b, p) = sender[b].sent - 1 /\ sender[b].sent \in Nat
    <3>1. \E j \in DOMAIN peers : j >= sender[b].next /\ peers[j].peer = p /\ Live(peers[j])
      BY <1>2, <1>3, <1>16 DEF i, q
    <3> QED BY <1>1, <1>2, <3>1 DEF Offered, BridgeTypes, Nodes
  <2>6. Offered(b, p)' = sender[b].sent
    <3>1. \A j \in DOMAIN peers : peers[j].peer = p /\ Live(peers[j]) => j = i
      BY <1>1, <1>2, <1>3, <1>16 DEF EntriesInv, q
    <3>2. ~(\E j \in DOMAIN peers : j >= sender[b].next /\ peers[j].peer = p /\ Live(peers[j]))'
      BY <1>2, <1>3, <1>6, <1>9, <3>1
    <3> QED BY <1>6, <3>2 DEF Offered
  <2>7. \A c \in Broadcasters : c # b => Offered(c, p)' = Offered(c, p)
    BY <1>6 DEF Offered
  <2>8. /\ \A k \in DOMAIN got : Has(localFeed, got[k])
        /\ \A k, l \in DOMAIN got : k < l /\ got[k][1] = got[l][1] => got[k][2] < got[l][2]
        /\ \A c \in Broadcasters, n \in Nat :
              Has(got, <<c, n>>) <=> peerNode[p].from[c] <= n /\ n <= Offered(c, p)
        /\ \A c \in Broadcasters : peerNode[p].from[c] <= Offered(c, p) + 1
    BY <1>1, <1>3, <2>4 DEF PeerInv, got
  <2>9. \A n : Has(got', n) <=> Has(got, n) \/ n = m
    BY <2>3 DEF Has
  <2>10. (\A k \in DOMAIN got : Has(localFeed, got[k]))'
    <3>1. Has(localFeed, m)
      <4>1. sender[b].sent \in 1..sender[b].sent
        BY <1>1, <1>2 DEF LockInv, BridgeTypes, Nodes
      <4> QED BY <1>1, <4>1 DEF FeedInv, m
    <3> QED BY <1>2, <2>3, <2>8, <3>1
  <2>11. \A k \in DOMAIN got : got[k][1] = b => got[k][2] < sender[b].sent
    <3>1. SUFFICES ASSUME NEW k \in DOMAIN got, got[k][1] = b
                   PROVE  got[k][2] < sender[b].sent
      OBVIOUS
    <3>2. got[k] \in Broadcasters \X Nat
      BY <2>1, <2>3, ElementOfSeq DEF Broadcasts
    <3>3. got[k] = <<b, got[k][2]>> /\ got[k][2] \in Nat
      BY <3>1, <3>2
    <3>4. Has(got, <<b, got[k][2]>>)
      BY <3>3 DEF Has
    <3>5. got[k][2] <= Offered(b, p)
      BY <2>8, <3>3, <3>4
    <3> QED BY <2>5, <3>3, <3>5
  <2>12. (\A k, l \in DOMAIN got : k < l /\ got[k][1] = got[l][1] => got[k][2] < got[l][2])'
    <3>1. SUFFICES ASSUME NEW k \in DOMAIN got', NEW l \in DOMAIN got',
                          k < l, got'[k][1] = got'[l][1]
                   PROVE  got'[k][2] < got'[l][2]
      OBVIOUS
    <3>2. k \in DOMAIN got /\ got'[k] = got[k]
      BY <2>3, <3>1
    <3>3. CASE l \in DOMAIN got
      BY <2>3, <2>8, <3>1, <3>2, <3>3
    <3>4. CASE l \notin DOMAIN got
      <4>1. got'[l] = m
        BY <2>3, <3>4
      <4>2. got'[l][1] = b /\ got'[l][2] = sender[b].sent
        BY <4>1 DEF m
      <4> QED BY <2>11, <3>1, <3>2, <4>2
    <3> QED BY <3>3, <3>4
  <2>13. \A n \in Nat : Has(got', <<b, n>>)
                          <=> peerNode'[p].from[b] <= n /\ n <= sender[b].sent
    <3>1. \A n \in Nat : <<b, n>> = m <=> n = sender[b].sent
      BY DEF m
    <3>2. peerNode[p].from[b] \in Nat /\ peerNode'[p].from[b] = peerNode[p].from[b]
      BY <1>1, <1>7 DEF BridgeTypes, Nodes
    <3> QED BY <2>5, <2>8, <2>9, <3>1, <3>2
  <2>14. \A c \in Broadcasters, n \in Nat :
           c # b => (Has(got', <<c, n>>)
                       <=> peerNode'[p].from[c] <= n /\ n <= Offered(c, p))
    <3>1. \A c \in Broadcasters, n \in Nat : c # b => <<c, n>> # m
      BY DEF m
    <3> QED BY <1>3, <1>7, <2>8, <2>9, <3>1
  <2>15. \A c \in Broadcasters, n \in Nat :
           Has(got', <<c, n>>) <=> peerNode'[p].from[c] <= n /\ n <= Offered(c, p)'
    BY <2>6, <2>7, <2>13, <2>14
  <2>16. \A c \in Broadcasters : peerNode'[p].from[c] <= Offered(c, p)' + 1
    <3>1. \A c \in Broadcasters : peerNode[p].from[c] \in Nat
      BY <1>1 DEF BridgeTypes, Nodes
    <3> QED BY <1>7, <2>5, <2>6, <2>7, <2>8, <3>1
  <2> QED BY <2>4, <2>10, <2>12, <2>15, <2>16 DEF PeerInv, got
<1> QED BY <1>3, <1>5, <1>10, <1>11, <1>12, <1>15, <1>16 DEF BridgeInv
(* retain drops a dead entry: the live ones close up, in order, and none    *)
(* slips past the place where retain stands.                                *)
LEMMA PrunePeerStep ==
    ASSUME BridgeInv, NEW b \in Broadcasters, PrunePeer(b)
    PROVE  BridgeInv'
<1> DEFINE i == sender[b].next
           Old(j) == IF j < i THEN j ELSE j + 1
           New(j) == IF j < i THEN j ELSE j - 1
<1>1. BridgeTypes /\ LockInv /\ EntriesInv /\ FeedInv /\ \A p \in Peers : PeerInv(p)
  BY DEF BridgeInv
<1>2. /\ sender[b].pc = "retain" /\ i <= Len(peers) /\ ~Live(peers[i])
      /\ peers' = RemoveAt(peers, i)
      /\ localFeed' = localFeed /\ sender' = sender /\ peerNode' = peerNode
  BY DEF PrunePeer
<1>3. peers \in Seq(Entries) /\ i \in 1..Len(peers) /\ Len(peers) \in Nat
  BY <1>1, <1>2 DEF BridgeTypes, Nodes, LockInv
<1>4. \A c \in Broadcasters : c # b => sender[c].pc # "retain"
  BY <1>1, <1>2 DEF LockInv
<1> HIDE DEF i
<1>5. /\ peers' \in Seq(Entries) /\ Len(peers') = Len(peers) - 1
      /\ \A j \in 1..(Len(peers) - 1) : peers'[j] = peers[Old(j)]
  <2>1. \A j \in 1..(Len(peers) - 1) :
          RemoveAt(peers, i)[j] = IF j < i THEN peers[j] ELSE peers[j + 1]
    BY <1>3, PruneFacts
  <2> QED BY <1>2, <1>3, <2>1, PruneFacts
<1>6. DOMAIN peers = 1..Len(peers) /\ DOMAIN peers' = 1..(Len(peers) - 1)
  BY <1>3, <1>5
<1>7. \A j \in DOMAIN peers' : Old(j) \in DOMAIN peers /\ Old(j) # i /\ peers'[j] = peers[Old(j)]
  BY <1>3, <1>5, <1>6
<1>8. \A j \in DOMAIN peers : j # i => /\ New(j) \in DOMAIN peers' /\ peers'[New(j)] = peers[j]
                                       /\ j >= i => New(j) >= i
  <2>1. \A j \in DOMAIN peers : j # i => New(j) \in DOMAIN peers' /\ Old(New(j)) = j
    BY <1>3, <1>6
  <2>2. \A j \in DOMAIN peers : j # i /\ j >= i => New(j) >= i
    BY <1>3, <1>6
  <2> QED BY <1>7, <2>1, <2>2
<1>9. \A j, k \in DOMAIN peers' : Old(j) = Old(k) => j = k
  BY <1>3, <1>6
<1>10. \A e : Live(e)' <=> Live(e)
  BY <1>2 DEF Live
<1>11. \A j \in DOMAIN peers' : j >= i => Old(j) >= i
  BY <1>3, <1>6
<1> HIDE DEF Old, New
<1>12. BridgeTypes'
  BY <1>1, <1>2, <1>5 DEF BridgeTypes, Nodes
<1>13. LockInv'
  <2>1. sender'[b].next \in 1..(Len(peers') + 1)
    BY <1>2, <1>3, <1>5 DEF i
  <2> QED BY <1>1, <1>2, <1>4, <2>1 DEF LockInv
<1>14. EntriesInv'
  <2>1. \A j \in DOMAIN peers' : peers'[j].life <= peerNode'[peers'[j].peer].life
    BY <1>1, <1>2, <1>7 DEF EntriesInv
  <2>2. ASSUME NEW j \in DOMAIN peers', NEW k \in DOMAIN peers',
               peers'[j].peer = peers'[k].peer, Live(peers'[j]), Live(peers'[k])
        PROVE  j = k
    <3>1. Old(j) = Old(k)
      BY <1>1, <1>7, <2>2 DEF EntriesInv
    <3> QED BY <1>9, <3>1
  <2>3. (\A j, k \in DOMAIN peers :
            peers[j].peer = peers[k].peer /\ Live(peers[j]) /\ Live(peers[k]) => j = k)'
    BY <1>2, <2>2 DEF Live
  <2>4. (\A j \in DOMAIN peers : peers[j].life <= peerNode[peers[j].peer].life)'
    BY <2>1
  <2> QED BY <2>3, <2>4 DEF EntriesInv
<1>15. FeedInv'
  BY <1>1, <1>2 DEF FeedInv, Has
<1>16. ASSUME NEW p \in Peers PROVE PeerInv(p)'
  <2>1. Received(p)' = Received(p)
    BY <1>2 DEF Received
  <2>2. (\E j \in DOMAIN peers' : peers'[j].peer = p /\ Live(peers'[j]))
          <=> \E j \in DOMAIN peers : peers[j].peer = p /\ Live(peers[j])
    BY <1>2, <1>7, <1>8
  <2>3. Registered(p)' <=> Registered(p)
    BY <1>10, <2>2 DEF Registered
  <2>4. (\E j \in DOMAIN peers' : j >= i /\ peers'[j].peer = p /\ Live(peers'[j]))
          <=> \E j \in DOMAIN peers : j >= i /\ peers[j].peer = p /\ Live(peers[j])
    BY <1>2, <1>7, <1>8, <1>11
  <2>5. \A c \in Broadcasters : Offered(c, p)' = Offered(c, p)
    <3>1. Offered(b, p)' = Offered(b, p)
      BY <1>2, <1>10, <2>4 DEF Offered, i
    <3>2. \A c \in Broadcasters : c # b => Offered(c, p)' = Offered(c, p)
      BY <1>2, <1>4 DEF Offered
    <3> QED BY <3>1, <3>2
  <2>6. \A m : Has(localFeed, m) => Has(localFeed, m)'
    BY <1>2
  <2> QED BY <1>1, <1>2, <2>1, <2>3, <2>5, <2>6, PeerKept
<1> QED BY <1>12, <1>13, <1>14, <1>15, <1>16 DEF BridgeInv
(* A peer that registers has got nothing yet, and what it is to get starts  *)
(* with the next broadcast for which retain takes the lock.                 *)
LEMMA AddPeerStep ==
    ASSUME BridgeInv, NEW q \in Peers, AddPeer(q)
    PROVE  BridgeInv'
<1> DEFINE e == [peer |-> q, life |-> peerNode[q].life]
           start == [b \in Broadcasters |-> IF sender[b].pc = "fan_out" THEN sender[b].sent
                                            ELSE sender[b].sent + 1]
<1>1. BridgeTypes /\ LockInv /\ EntriesInv /\ FeedInv /\ \A p \in Peers : PeerInv(p)
  BY DEF BridgeInv
<1>2. /\ peerNode[q].up /\ ~Registered(q) /\ Unlocked
      /\ peers' = Append(peers, e)
      /\ peerNode' = [peerNode EXCEPT ![q].from = start]
      /\ localFeed' = localFeed /\ sender' = sender
  BY DEF AddPeer
<1>3. e \in Entries /\ start \in [Broadcasters -> Nat]
  BY <1>1 DEF BridgeTypes, Nodes, Entries
<1>4. \A b \in Broadcasters : start[b] = IF sender[b].pc = "fan_out" THEN sender[b].sent
                                        ELSE sender[b].sent + 1
  OBVIOUS
<1>5. e.peer = q /\ e.life = peerNode[q].life
  OBVIOUS
<1> HIDE DEF e, start
<1>6. BridgeTypes'
  <2>1. peers' \in Seq(Entries)
    BY <1>1, <1>2, <1>3 DEF BridgeTypes, Nodes
  <2>2. peerNode' \in [Peers -> Nodes]
    BY <1>1, <1>2, <1>3, ZenonT(30) DEF BridgeTypes, Nodes
  <2> QED BY <1>1, <1>2, <2>1, <2>2 DEF BridgeTypes, Nodes
<1>7. \A p \in Peers : /\ peerNode'[p].life = peerNode[p].life /\ peerNode'[p].up = peerNode[p].up
                       /\ peerNode'[p].relayed = peerNode[p].relayed
                       /\ peerNode'[p].channel = peerNode[p].channel
                       /\ p # q => peerNode'[p].from = peerNode[p].from
                       /\ p = q => peerNode'[p].from = start
  BY <1>1, <1>2 DEF BridgeTypes, Nodes
<1>8. /\ DOMAIN peers = 1..Len(peers) /\ DOMAIN peers' = 1..(Len(peers) + 1) /\ Len(peers) \in Nat
      /\ \A j \in DOMAIN peers : peers'[j] = peers[j]
      /\ peers'[Len(peers) + 1] = e
  BY <1>1, <1>2, <1>3 DEF BridgeTypes, Nodes
<1>9. \A j \in DOMAIN peers : peers[j] \in Entries
  BY <1>1, <1>8, ElementOfSeq DEF BridgeTypes, Nodes
<1>10. \A f \in Entries : Live(f)' <=> Live(f)
  BY <1>7 DEF Live, Entries
<1>11. \A j \in DOMAIN peers : peers[j].peer = q => ~Live(peers[j])
  BY <1>2 DEF Registered
<1>12. LockInv'
  BY <1>1, <1>2 DEF LockInv, Unlocked
<1>13. FeedInv'
  BY <1>1, <1>2 DEF FeedInv, Has
<1>14. EntriesInv'
  <2>1. \A j \in DOMAIN peers' : j \in DOMAIN peers \/ j = Len(peers) + 1
    BY <1>8
  <2>2. \A j \in DOMAIN peers' : peers'[j].life <= peerNode'[peers'[j].peer].life
    <3>1. \A j \in DOMAIN peers : peers'[j].life <= peerNode'[peers'[j].peer].life
      BY <1>1, <1>7, <1>8, <1>9 DEF EntriesInv, Entries
    <3>2. e.life <= peerNode'[e.peer].life
      BY <1>1, <1>5, <1>7 DEF BridgeTypes, Nodes
    <3> QED BY <1>8, <2>1, <3>1, <3>2
  <2>3. ASSUME NEW j \in DOMAIN peers', NEW k \in DOMAIN peers',
               peers'[j].peer = peers'[k].peer, Live(peers'[j]), Live(peers'[k])
        PROVE  j = k
    BY <1>1, <1>5, <1>8, <1>11, <2>1, <2>3 DEF EntriesInv
  <2>4. \A j \in DOMAIN peers' : peers'[j] \in Entries
    BY <1>3, <1>8, <1>9, <2>1
  <2>5. (\A j, k \in DOMAIN peers :
            peers[j].peer = peers[k].peer /\ Live(peers[j]) /\ Live(peers[k]) => j = k)'
    <3>1. \A j \in DOMAIN peers' : Live(peers[j])' <=> Live(peers'[j])
      BY <1>7, <2>4 DEF Live, Entries
    <3> QED BY <2>3, <3>1
  <2> QED BY <2>2, <2>5 DEF EntriesInv
<1>15. \A b \in Broadcasters, p \in Peers :
          /\ Offered(b, p) = IF sender[b].pc = "fan_out" THEN sender[b].sent - 1 ELSE sender[b].sent
          /\ Offered(b, p)' = Offered(b, p)
  BY <1>2 DEF Offered, Unlocked
<1>16. \A p \in Peers : Received(p)' = Received(p)
  BY <1>7 DEF Received
<1>17. ASSUME NEW p \in Peers, p # q PROVE PeerInv(p)'
  <2>1. Registered(p)' <=> Registered(p)
    <3>1. \A j \in DOMAIN peers' : peers'[j].peer = p => j \in DOMAIN peers
      BY <1>5, <1>8, <1>17
    <3>2. \A j \in DOMAIN peers : j \in DOMAIN peers' /\ (Live(peers[j])' <=> Live(peers[j]))
      BY <1>7, <1>8, <1>9 DEF Live, Entries
    <3> QED BY <1>8, <3>1, <3>2 DEF Registered
  <2>2. \A m : Has(localFeed, m) => Has(localFeed, m)'
    BY <1>2
  <2> QED BY <1>1, <1>7, <1>15, <1>16, <1>17, <2>1, <2>2, PeerKept
<1>18. ASSUME NEW p \in Peers, p = q PROVE PeerInv(p)'
  <2>1. Registered(p)'
    <3>1. \E j \in DOMAIN peers' : /\ peers'[j].peer = p
                                   /\ peerNode'[p].up /\ peerNode'[p].life = peers'[j].life
      BY <1>2, <1>5, <1>7, <1>8, <1>18
    <3> QED BY <3>1 DEF Registered, Live
  <2>2. Received(p)' = <<>>
    BY <1>1, <1>2, <1>16, <1>18 DEF PeerInv
  <2>3. \A b \in Broadcasters, n \in Nat : ~(peerNode'[p].from[b] <= n /\ n <= Offered(b, p)')
    BY <1>1, <1>4, <1>7, <1>15, <1>18, SMTT(30) DEF BridgeTypes, Nodes
  <2>4. \A b \in Broadcasters : peerNode'[p].from[b] <= Offered(b, p)' + 1
    BY <1>1, <1>4, <1>7, <1>15, <1>18 DEF BridgeTypes, Nodes
  <2> QED BY <2>1, <2>2, <2>3, <2>4 DEF PeerInv, Has
<1> QED BY <1>6, <1>12, <1>13, <1>14, <1>17, <1>18 DEF BridgeInv
(* The relay thread moves a broadcast on, within what its peer has got.     *)
LEMMA RelayStep ==
    ASSUME BridgeInv, NEW q \in Peers, Relay(q)
    PROVE  BridgeInv'
<1> DEFINE ch  == peerNode[q].channel
           rel == peerNode[q].relayed
<1>1. BridgeTypes /\ LockInv /\ EntriesInv /\ FeedInv /\ \A p \in Peers : PeerInv(p)
  BY DEF BridgeInv
<1>2. /\ ch # <<>>
      /\ peerNode' = [peerNode EXCEPT ![q].channel = Tail(@), ![q].relayed = Append(@, Head(ch))]
      /\ localFeed' = localFeed /\ sender' = sender /\ peers' = peers
  BY DEF Relay
<1>3. ch \in Seq(Broadcasts) /\ rel \in Seq(Broadcasts)
  BY <1>1 DEF BridgeTypes, Nodes
<1> HIDE DEF ch, rel
<1>4. /\ Tail(ch) \in Seq(Broadcasts) /\ Append(rel, Head(ch)) \in Seq(Broadcasts)
      /\ Append(rel, Head(ch)) \o Tail(ch) = rel \o ch
  BY <1>2, <1>3
<1>5. BridgeTypes'
  <2>1. peerNode' \in [Peers -> Nodes]
    BY <1>1, <1>2, <1>4, ZenonT(30) DEF BridgeTypes, Nodes, ch, rel
  <2> QED BY <1>1, <1>2, <2>1 DEF BridgeTypes, Nodes
<1>6. \A p \in Peers : /\ peerNode'[p].life = peerNode[p].life /\ peerNode'[p].up = peerNode[p].up
                       /\ peerNode'[p].from = peerNode[p].from
                       /\ p # q => /\ peerNode'[p].relayed = peerNode[p].relayed
                                   /\ peerNode'[p].channel = peerNode[p].channel
  BY <1>1, <1>2 DEF BridgeTypes, Nodes
<1>7. peerNode'[q].relayed = Append(rel, Head(ch)) /\ peerNode'[q].channel = Tail(ch)
  BY <1>1, <1>2 DEF BridgeTypes, Nodes, ch, rel
<1>8. \A p \in Peers : Received(p)' = Received(p)
  <2>1. Received(q)' = Received(q)
    BY <1>4, <1>7 DEF Received, ch, rel
  <2>2. \A p \in Peers : p # q => Received(p)' = Received(p)
    BY <1>6 DEF Received
  <2> QED BY <2>1, <2>2
<1>9. \A j \in DOMAIN peers : peers[j].peer \in Peers /\ (Live(peers[j])' <=> Live(peers[j]))
  <2>1. \A j \in DOMAIN peers : peers[j] \in Entries
    BY <1>1, ElementOfSeq DEF BridgeTypes, Nodes
  <2>2. \A j \in DOMAIN peers : peers[j].peer \in Peers
    BY <2>1 DEF Entries
  <2>3. \A j \in DOMAIN peers : peers'[j] = peers[j]
    BY <1>2
  <2> QED BY <1>6, <2>2, <2>3 DEF Live
<1>10. LockInv' /\ FeedInv'
  BY <1>1, <1>2 DEF LockInv, FeedInv
<1>11. EntriesInv'
  <2>1. \A j \in DOMAIN peers : peers[j].life <= peerNode'[peers[j].peer].life
    BY <1>1, <1>6, <1>9 DEF EntriesInv
  <2>2. \A j, k \in DOMAIN peers :
          peers[j].peer = peers[k].peer /\ Live(peers[j])' /\ Live(peers[k])' => j = k
    BY <1>1, <1>9 DEF EntriesInv
  <2> QED BY <1>2, <2>1, <2>2 DEF EntriesInv
<1>12. ASSUME NEW p \in Peers PROVE PeerInv(p)'
  <2>1. Registered(p)' <=> Registered(p)
    BY <1>2, <1>9 DEF Registered
  <2>2. \A b \in Broadcasters : Offered(b, p)' = Offered(b, p)
    BY <1>2, <1>9 DEF Offered
  <2>3. \A m : Has(localFeed, m) => Has(localFeed, m)'
    BY <1>2
  <2> QED BY <1>1, <1>6, <1>8, <2>1, <2>2, <2>3, PeerKept
<1> QED BY <1>5, <1>10, <1>11, <1>12 DEF BridgeInv

(* A peer that dies, or one that returns: neither has a live entry after,   *)
(* and neither holds anything.                                              *)
LEMMA LifeStep ==
    ASSUME BridgeInv, NEW q \in Peers, PeerDies(q) \/ PeerReturns(q)
    PROVE  BridgeInv'
<1>1. BridgeTypes /\ LockInv /\ EntriesInv /\ FeedInv /\ \A p \in Peers : PeerInv(p)
  BY DEF BridgeInv
<1>2. localFeed' = localFeed /\ sender' = sender /\ peers' = peers
  BY DEF PeerDies, PeerReturns
<1>3. \A j \in DOMAIN peers : peers[j] \in Entries /\ peers[j].life \in Nat /\ peers[j].peer \in Peers
  <2>1. \A j \in DOMAIN peers : peers[j] \in Entries
    BY <1>1, ElementOfSeq DEF BridgeTypes, Nodes
  <2> QED BY <2>1 DEF Entries
<1>4. /\ BridgeTypes'
      /\ \A p \in Peers : p # q => peerNode'[p] = peerNode[p]
      /\ peerNode'[q].life >= peerNode[q].life
      /\ peerNode'[q].up => peerNode'[q].life > peerNode[q].life
      /\ peerNode'[q].relayed = <<>> /\ peerNode'[q].channel = <<>>
  <2>1. CASE PeerDies(q)
    <3>1. peerNode' = [peerNode EXCEPT ![q].up = FALSE, ![q].channel = <<>>,
                                       ![q].relayed = <<>>, ![q].from = NotCovered]
      BY <2>1 DEF PeerDies
    <3>2. NotCovered \in [Broadcasters -> Nat]
      BY DEF NotCovered
    <3>3. <<>> \in Seq(Broadcasts)
      OBVIOUS
    <3>4. BridgeTypes'
      <4>1. peerNode'[q] = [life |-> peerNode[q].life, up |-> FALSE, channel |-> <<>>,
                            relayed |-> <<>>, from |-> NotCovered]
        BY <1>1, <3>1, ZenonT(30) DEF BridgeTypes, Nodes
      <4>2. peerNode[q].life \in Nat
        BY <1>1 DEF BridgeTypes, Nodes
      <4>3. peerNode'[q] \in Nodes
        BY <3>2, <3>3, <4>1, <4>2 DEF Nodes
      <4>4. \A p \in Peers : peerNode'[p] \in Nodes
        BY <1>1, <3>1, <4>3 DEF BridgeTypes, Nodes
      <4>5. peerNode' \in [Peers -> Nodes]
        BY <1>1, <3>1, <4>4 DEF BridgeTypes, Nodes
      <4> QED BY <1>1, <1>2, <4>5 DEF BridgeTypes, Nodes
    <3>5. \A p \in Peers : p # q => peerNode'[p] = peerNode[p]
      BY <1>1, <3>1 DEF BridgeTypes, Nodes
    <3>6. /\ peerNode'[q].life = peerNode[q].life /\ peerNode[q].life \in Nat /\ ~peerNode'[q].up
          /\ peerNode'[q].relayed = <<>> /\ peerNode'[q].channel = <<>>
      BY <1>1, <3>1 DEF BridgeTypes, Nodes
    <3> QED BY <3>4, <3>5, <3>6
  <2>2. CASE PeerReturns(q)
    <3>1. /\ ~peerNode[q].up
          /\ peerNode' = [peerNode EXCEPT ![q].up = TRUE, ![q].life = @ + 1]
      BY <2>2 DEF PeerReturns
    <3>2. ~Registered(q)
      BY <3>1 DEF Registered, Live
    <3>3. Received(q) = <<>>
      BY <1>1, <3>2 DEF PeerInv
    <3>4. peerNode[q].relayed = <<>> /\ peerNode[q].channel = <<>>
      BY <1>1, <3>3, ConcatEmptySeq DEF Received, BridgeTypes, Nodes
    <3>6. BridgeTypes'
      <4>1. peerNode'[q] = [life |-> peerNode[q].life + 1, up |-> TRUE,
                            channel |-> peerNode[q].channel, relayed |-> peerNode[q].relayed,
                            from |-> peerNode[q].from]
        BY <1>1, <3>1, ZenonT(30) DEF BridgeTypes, Nodes
      <4>2. /\ peerNode[q].life + 1 \in Nat /\ peerNode[q].channel \in Seq(Broadcasts)
            /\ peerNode[q].relayed \in Seq(Broadcasts) /\ peerNode[q].from \in [Broadcasters -> Nat]
        BY <1>1 DEF BridgeTypes, Nodes
      <4>3. peerNode'[q] \in Nodes
        BY <4>1, <4>2 DEF Nodes
      <4>4. \A p \in Peers : peerNode'[p] \in Nodes
        BY <1>1, <3>1, <4>3 DEF BridgeTypes, Nodes
      <4>5. peerNode' \in [Peers -> Nodes]
        BY <1>1, <3>1, <4>4 DEF BridgeTypes, Nodes
      <4> QED BY <1>1, <1>2, <4>5 DEF BridgeTypes, Nodes
    <3>7. \A p \in Peers : p # q => peerNode'[p] = peerNode[p]
      BY <1>1, <3>1 DEF BridgeTypes, Nodes
    <3>8. /\ peerNode'[q].life = peerNode[q].life + 1 /\ peerNode[q].life \in Nat
          /\ peerNode'[q].relayed = <<>> /\ peerNode'[q].channel = <<>>
      BY <1>1, <3>1, <3>4 DEF BridgeTypes, Nodes
    <3> QED BY <3>6, <3>7, <3>8
  <2> QED BY <2>1, <2>2
<1>5. \A j \in DOMAIN peers : /\ peers[j].peer = q => ~Live(peers[j])'
                              /\ peers[j].peer # q => (Live(peers[j])' <=> Live(peers[j]))
  <2>1. \A j \in DOMAIN peers : peers'[j] = peers[j] /\ peers[j].life <= peerNode[peers[j].peer].life
    BY <1>1, <1>2 DEF EntriesInv
  <2>2. peerNode[q].life \in Nat /\ peerNode'[q].life \in Nat
    BY <1>1, <1>4 DEF BridgeTypes, Nodes
  <2>3. ASSUME NEW j \in DOMAIN peers, peers[j].peer = q
        PROVE  ~(peerNode'[q].up /\ peerNode'[q].life = peers[j].life)
    BY <1>3, <1>4, <2>1, <2>2, <2>3
  <2>4. ASSUME NEW j \in DOMAIN peers, peers[j].peer # q
        PROVE  peerNode'[peers[j].peer] = peerNode[peers[j].peer]
    BY <1>3, <1>4, <2>4
  <2> QED BY <2>1, <2>3, <2>4 DEF Live
<1>6. LockInv' /\ FeedInv'
  BY <1>1, <1>2 DEF LockInv, FeedInv
<1>7. EntriesInv'
  <2>1. \A j \in DOMAIN peers : peers[j].life <= peerNode'[peers[j].peer].life
    <3>1. ASSUME NEW j \in DOMAIN peers, peers[j].peer = q
          PROVE  peers[j].life <= peerNode'[q].life
      <4>1. peerNode[q].life \in Nat /\ peerNode'[q].life \in Nat
        BY <1>1, <1>4 DEF BridgeTypes, Nodes
      <4>2. peers[j].life <= peerNode[q].life
        BY <1>1, <3>1 DEF EntriesInv
      <4> QED BY <1>3, <1>4, <4>1, <4>2
    <3>2. ASSUME NEW j \in DOMAIN peers, peers[j].peer # q
          PROVE  peers[j].life <= peerNode'[peers[j].peer].life
      BY <1>1, <1>3, <1>4, <3>2 DEF EntriesInv
    <3> QED BY <3>1, <3>2
  <2>2. \A j, k \in DOMAIN peers :
          peers[j].peer = peers[k].peer /\ Live(peers[j])' /\ Live(peers[k])' => j = k
    BY <1>1, <1>5 DEF EntriesInv
  <2> QED BY <1>2, <2>1, <2>2 DEF EntriesInv
<1>8. ASSUME NEW p \in Peers, p # q PROVE PeerInv(p)'
  <2>1. Received(p)' = Received(p)
    BY <1>4, <1>8 DEF Received
  <2>2. Registered(p)' <=> Registered(p)
    BY <1>2, <1>5, <1>8 DEF Registered
  <2>3. \A b \in Broadcasters : Offered(b, p)' = Offered(b, p)
    BY <1>2, <1>5, <1>8 DEF Offered
  <2>4. \A m : Has(localFeed, m) => Has(localFeed, m)'
    BY <1>2
  <2> QED BY <1>1, <1>4, <1>8, <2>1, <2>2, <2>3, <2>4, PeerKept
<1>9. PeerInv(q)'
  <2>1. ~Registered(q)'
    BY <1>2, <1>5 DEF Registered
  <2>2. Received(q)' = <<>>
    BY <1>4 DEF Received
  <2> QED BY <2>1, <2>2 DEF PeerInv
<1> QED BY <1>4, <1>6, <1>7, <1>8, <1>9 DEF BridgeInv
(* Every step of the node and of its peers keeps the bridge's invariant.    *)
LEMMA BridgeStep ==
    ASSUME BridgeInv, [ClusterNext \/ BridgeNext]_clusterBridgeVars
    PROVE  BridgeInv'
<1>1. CASE ClusterNext \/ UNCHANGED clusterBridgeVars
  <2>1. peers' = peers /\ peerNode' = peerNode /\ sender' = sender /\ localFeed' = localFeed
    BY <1>1 DEF ClusterNext, PollPeers, AnnounceUp, AnnounceDown, PollEnds, clusterBridgeVars, bridgeVars
  <2>2. \A p \in Peers : /\ Received(p)' = Received(p) /\ (Registered(p)' <=> Registered(p))
                         /\ \A b \in Broadcasters : Offered(b, p)' = Offered(b, p)
    BY <2>1 DEF Received, Registered, Offered, Live
  <2>3. \A m : Has(localFeed, m) => Has(localFeed, m)'
    BY <2>1
  <2>4. \A p \in Peers : PeerInv(p)'
    BY <2>1, <2>2, <2>3, PeerKept DEF BridgeInv
  <2>5. BridgeTypes' /\ LockInv' /\ EntriesInv' /\ FeedInv'
    BY <2>1 DEF BridgeInv, BridgeTypes, Nodes, LockInv, EntriesInv, FeedInv, Live
  <2> QED BY <2>4, <2>5 DEF BridgeInv
<1>2. ASSUME NEW b \in Broadcasters,
             \/ BroadcastLocally(b) \/ LockPeers(b)
             \/ SendToPeer(b) \/ PrunePeer(b) \/ UnlockPeers(b)
      PROVE  BridgeInv'
  BY <1>2, BroadcastLocallyStep, LockPeersStep, SendToPeerStep, PrunePeerStep, UnlockPeersStep
<1>3. ASSUME NEW p \in Peers, AddPeer(p) \/ Relay(p) \/ PeerDies(p) \/ PeerReturns(p)
      PROVE  BridgeInv'
  BY <1>3, AddPeerStep, RelayStep, LifeStep
<1> QED BY <1>1, <1>2, <1>3 DEF BridgeNext

(* Without peers and broadcasts the bridge's invariant holds.               *)
LEMMA BridgeStart == ClusterBridgeInit => BridgeInv
<1>1. SUFFICES ASSUME ClusterBridgeInit
               PROVE  BridgeInv
  OBVIOUS
<1>2. /\ peers = <<>> /\ localFeed = <<>>
      /\ peerNode = [p \in Peers |-> [life |-> 1, up |-> TRUE, channel |-> <<>>, relayed |-> <<>>,
                                      from |-> NotCovered]]
      /\ sender = [b \in Broadcasters |-> [sent |-> 0, pc |-> "idle", next |-> 1]]
  BY <1>1 DEF ClusterBridgeInit
<1>3. BridgeTypes
  <2>1. NotCovered \in [Broadcasters -> Nat]
    BY DEF NotCovered
  <2>2. peerNode \in [Peers -> Nodes]
    BY <1>2, <2>1 DEF Nodes
  <2>3. sender \in [Broadcasters -> [sent : Nat, pc : {"idle", "fan_out", "retain"}, next : Nat]]
    BY <1>2
  <2> QED BY <1>2, <2>2, <2>3 DEF BridgeTypes, Nodes
<1>4. LockInv /\ EntriesInv /\ FeedInv
  BY <1>2 DEF LockInv, EntriesInv, FeedInv
<1>5. \A p \in Peers : ~Registered(p) /\ Received(p) = <<>>
  BY <1>2 DEF Registered, Received
<1>6. \A p \in Peers : PeerInv(p)
  BY <1>5 DEF PeerInv
<1> QED BY <1>3, <1>4, <1>6 DEF BridgeInv

(* Each registered peer that lives gets of each broadcaster just the        *)
(* broadcasts since its registration, once and in order, and only what the  *)
(* local PubSub was handed first: broadcast, add_peer, retain and the relay *)
(* threads, for any number of peers, broadcasters, broadcasts and restarts. *)
THEOREM PeersFollow == ClusterBridgeSpec => []RelayFollows
<1>1. BridgeInv => RelayFollows
  <2>1. SUFFICES ASSUME BridgeInv, NEW p \in Peers
                 PROVE  LET got == Received(p)
                        IN  /\ got # <<>> => Registered(p)
                            /\ \A i \in DOMAIN got : Has(localFeed, got[i])
                            /\ \A i, j \in DOMAIN got :
                                 i < j /\ got[i][1] = got[j][1] => got[i][2] < got[j][2]
                            /\ Registered(p) =>
                                 \A b \in Broadcasters, n \in 0..MaxSent :
                                    Has(got, <<b, n>>) <=> n \in peerNode[p].from[b]..Offered(b, p)
    BY DEF RelayFollows, Has
  <2>2. PeerInv(p)
    BY <2>1 DEF BridgeInv
  <2>3. ASSUME NEW b \in Broadcasters, NEW n \in 0..MaxSent, Registered(p)
        PROVE  Has(Received(p), <<b, n>>) <=> n \in peerNode[p].from[b]..Offered(b, p)
    <3>1. n \in Nat /\ peerNode[p].from[b] \in Int
      BY <2>1 DEF BridgeInv, BridgeTypes, Nodes
    <3>2. Offered(b, p) \in Int
      BY <2>1 DEF BridgeInv, BridgeTypes, Nodes, Offered
    <3>3. n \in peerNode[p].from[b]..Offered(b, p) <=> peerNode[p].from[b] <= n /\ n <= Offered(b, p)
      BY <3>1, <3>2
    <3> QED BY <2>2, <2>3, <3>1, <3>3 DEF PeerInv
  <2> QED BY <2>2, <2>3 DEF PeerInv
<1> QED BY <1>1, BridgeStart, BridgeStep, PTL DEF ClusterBridgeSpec

-----------------------------------------------------------------------------
(* Presence: every watcher converges on the tracker's entries.              *)

PresenceEntries   == [key : Keys, meta : Metas]
EntrySets == SUBSET PresenceEntries
Diffs     == [joins : EntrySets, leaves : EntrySets]
Commands  ==
    [kind : {"track"}, topic : PresenceTopics, entry : PresenceEntries]
    \cup [kind : {"untrack"}, topic : PresenceTopics, key : Keys]
    \cup [kind : {"subscribe", "list"}, topic : PresenceTopics, from : Watchers]
    \cup [kind : {"shutdown"}]
WatcherPcs == {"out", "subscribing", "subscribed", "listing", "watching", "gone"}

PresenceType ==
    /\ tracker \in [alive : BOOLEAN, queue : Seq(Commands), state : [PresenceTopics -> Seq(PresenceEntries)],
                    subscribers : [PresenceTopics -> Seq(Watchers)]]
    /\ watcher \in [Watchers -> [topic : PresenceTopics, pc : WatcherPcs, inbox : Seq(Diffs),
                                 view : EntrySets]]

OwnKeys(entries) == \A i, j \in 1..Len(entries) : entries[i].key = entries[j].key => i = j

(* A command that waits for an answer belongs to a watcher that waits.      *)
Asks(cmd, w) == cmd.kind \in {"subscribe", "list"} /\ cmd.from = w

Waits(queue, w, me) ==
    \A i \in 1..Len(queue) :
        Asks(queue[i], w) =>
            /\ queue[i].topic = me.topic
            /\ me.pc = IF queue[i].kind = "list" THEN "listing" ELSE "subscribing"
            /\ \A j \in 1..Len(queue) : Asks(queue[j], w) => i = j

(* What the diffs since a subscription make of any view: of the keys they   *)
(* name what the tracker has, of the others what the view had.              *)
Blend(view, entries, named) == {e \in view : e.key \notin named} \cup {e \in entries : e.key \in named}

Fold(view, diffs) == FoldLeft(ApplyDiff, view, diffs)

Known(me, w, subs, entries) ==
    /\ \A t \in PresenceTopics :
          Contains(subs[t], w) => t = me.topic /\ me.pc \notin {"out", "subscribing"}
    /\ me.pc \in {"subscribed", "listing", "watching"} => Contains(subs[me.topic], w)
    /\ me.pc \in {"out", "subscribing"} => me.inbox = <<>>
    /\ me.pc \in {"subscribed", "listing"} =>
          \E named \in SUBSET Keys : \A view \in EntrySets :
             Fold(view, me.inbox) = Blend(view, entries, named)
    /\ me.pc = "watching" => Fold(me.view, me.inbox) = entries

Watched(w) ==
    Known(watcher[w], w, tracker.subscribers, ToSet(tracker.state[watcher[w].topic]))

PresenceInv ==
    /\ PresenceType
    /\ \A t \in PresenceTopics : OwnKeys(tracker.state[t])
    /\ \A w \in Watchers : Waits(tracker.queue, w, watcher[w])
    /\ ~tracker.alive => tracker.queue = <<>>
    /\ tracker.alive => \A w \in Watchers : Watched(w)

-----------------------------------------------------------------------------
(* What the diffs a watcher is sent make of a view.                         *)

(* A diff applied to entries gives entries.                                 *)
LEMMA ApplyFacts ==
    ASSUME NEW v \in EntrySets, NEW u \in Diffs
    PROVE  ApplyDiff(v, u) \in EntrySets
<1>1. u.joins \in EntrySets
  BY DEF Diffs
<1> QED BY <1>1 DEF ApplyDiff, EntrySets

(* The fold over the diffs goes through one set of entries per diff.        *)
LEMMA DiffsSteps ==
    ASSUME NEW base \in EntrySets, NEW seq \in Seq(Diffs)
    PROVE  \E f \in [0..Len(seq) -> EntrySets] :
              /\ FoldLeft(ApplyDiff, base, seq) = f[Len(seq)]
              /\ f[0] = base
              /\ \A i \in 1..Len(seq) : f[i] = ApplyDiff(f[i - 1], seq[i])
<1> DEFINE n == Len(seq)
           step == [i \in 1..n |-> [v \in EntrySets |-> ApplyDiff(v, seq[i])]]
           Def(h) == [P \in SUBSET (1..n) |->
                        IF P = {} THEN base ELSE ApplyDiff(h[P \ {Max(P)}], seq[Max(P)])]
           g == CHOOSE h : h = Def(h)
<1>1. n \in Nat /\ DOMAIN seq = 1..n /\ \A i \in 1..n : seq[i] \in Diffs
  OBVIOUS
<1>2. step \in [1..n -> [EntrySets -> EntrySets]]
  BY <1>1, ApplyFacts
<1>3. PICK it \in [SUBSET (1..n) -> EntrySets] : SetRecurs(it, n, base, step)
  <2> HIDE DEF step, n
  <2> QED BY <1>1, <1>2, SetStepsDefine
<1>4. it[{}] = base
  BY <1>3 DEF SetRecurs
<1>5. ASSUME NEW P \in SUBSET (1..n), P # {}
      PROVE  it[P] = ApplyDiff(it[P \ {Max(P)}], seq[Max(P)])
  <2>1. Max(P) \in 1..n /\ P \ {Max(P)} \in SUBSET (1..n)
    BY <1>1, <1>5, MaxOf
  <2>2. it[P] = step[Max(P)][it[P \ {Max(P)}]] /\ it[P \ {Max(P)}] \in EntrySets
    <3> HIDE DEF step
    <3> QED BY <1>3, <1>5, <2>1 DEF SetRecurs
  <2> QED BY <2>1, <2>2
<1>6. it = Def(it)
  <2>1. it = [P \in SUBSET (1..n) |-> it[P]]
    BY <1>3
  <2>2. ASSUME NEW P \in SUBSET (1..n)
        PROVE  it[P] = IF P = {} THEN base ELSE ApplyDiff(it[P \ {Max(P)}], seq[Max(P)])
    BY <1>4, <1>5
  <2> HIDE DEF n
  <2> QED BY <2>1, <2>2
<1>7. g = Def(g)
  <2> HIDE DEF Def
  <2> QED BY <1>6
<1>8. /\ g[{}] = base
      /\ \A P \in SUBSET (1..n) : P # {} => g[P] = ApplyDiff(g[P \ {Max(P)}], seq[Max(P)])
  <2> HIDE DEF g, n
  <2>1. \A P \in SUBSET (1..n) :
           g[P] = IF P = {} THEN base ELSE ApplyDiff(g[P \ {Max(P)}], seq[Max(P)])
    BY <1>7
  <2> QED BY <2>1
<1>9. \A k \in 0..n : g[1..k] = it[1..k]
  <2> DEFINE T == {k \in 0..n : g[1..k] = it[1..k]}
  <2> HIDE DEF g, n
  <2>1. 0 \in T
    <3>1. 1..0 = {}
      OBVIOUS
    <3> QED BY <1>1, <1>4, <1>8, <3>1
  <2>2. ASSUME NEW k \in 0..(n - 1), k \in T PROVE k + 1 \in T
    <3>1. /\ k + 1 \in 0..n /\ 1..(k + 1) \in SUBSET (1..n) /\ 1..(k + 1) # {}
          /\ Max(1..(k + 1)) = k + 1 /\ (1..(k + 1)) \ {k + 1} = 1..k
      BY <1>1, FirstPlaces
    <3>2. g[1..(k + 1)] = ApplyDiff(g[1..k], seq[k + 1])
      BY <1>8, <3>1
    <3>3. it[1..(k + 1)] = ApplyDiff(it[1..k], seq[k + 1])
      BY <1>5, <3>1
    <3>4. g[1..k] = it[1..k]
      BY <2>2
    <3> QED BY <3>1, <3>2, <3>3, <3>4
  <2> HIDE DEF T
  <2>3. \A k \in 0..n : k \in T
    BY <1>1, <2>1, <2>2, UpTo
  <2> QED BY <2>3 DEF T
<1>10. FoldLeft(ApplyDiff, base, seq) = g[1..n]
  BY <1>1 DEF FoldLeft, MapThenFoldSet
<1> DEFINE f == [k \in 0..n |-> it[1..k]]
<1>11. f \in [0..n -> EntrySets] /\ f[n] = it[1..n] /\ f[0] = base
  <2>1. 1..0 = {} /\ 0 \in 0..n /\ n \in 0..n
    BY <1>1
  <2>2. \A k \in 0..n : 1..k \in SUBSET (1..n)
    BY <1>1
  <2> HIDE DEF n
  <2> QED BY <1>3, <1>4, <2>1, <2>2
<1>12. ASSUME NEW i \in 1..n PROVE f[i] = ApplyDiff(f[i - 1], seq[i])
  <2>1. PICK k \in 0..(n - 1) : i = k + 1
    <3>1. i - 1 \in 0..(n - 1) /\ i = (i - 1) + 1
      BY <1>1
    <3> QED BY <3>1
  <2>2. /\ k \in 0..n /\ k + 1 \in 0..n /\ 1..(k + 1) \in SUBSET (1..n) /\ 1..(k + 1) # {}
        /\ Max(1..(k + 1)) = k + 1 /\ (1..(k + 1)) \ {k + 1} = 1..k /\ (k + 1) - 1 = k
    BY <1>1, FirstPlaces
  <2>3. it[1..(k + 1)] = ApplyDiff(it[1..k], seq[k + 1])
    BY <1>5, <2>2
  <2> HIDE DEF n
  <2> QED BY <2>1, <2>2, <2>3
<1>13. FoldLeft(ApplyDiff, base, seq) = f[n]
  <2> HIDE DEF g
  <2> QED BY <1>1, <1>9, <1>10, <1>11
<1> QED BY <1>11, <1>12, <1>13

(* A sequence of diffs, one appended.                                       *)
LEMMA DiffsAppend ==
    ASSUME NEW v \in EntrySets, NEW s \in Seq(Diffs), NEW u \in Diffs
    PROVE  /\ FoldLeft(ApplyDiff, v, s) \in EntrySets
           /\ FoldLeft(ApplyDiff, v, Append(s, u)) = ApplyDiff(FoldLeft(ApplyDiff, v, s), u)
<1> DEFINE n == Len(s)
           r == Append(s, u)
<1>1. /\ n \in Nat /\ r \in Seq(Diffs) /\ Len(r) = n + 1 /\ r[n + 1] = u
      /\ \A i \in 1..n : r[i] = s[i]
  OBVIOUS
<1>2. PICK f \in [0..n -> EntrySets] :
        FoldLeft(ApplyDiff, v, s) = f[n] /\ f[0] = v /\ \A i \in 1..n : f[i] = ApplyDiff(f[i - 1], s[i])
  BY DiffsSteps
<1> HIDE DEF n, r
<1>3. PICK g \in [0..(n + 1) -> EntrySets] :
        FoldLeft(ApplyDiff, v, r) = g[n + 1] /\ g[0] = v
        /\ \A i \in 1..(n + 1) : g[i] = ApplyDiff(g[i - 1], r[i])
  <2>1. PICK m : m = n + 1
    OBVIOUS
  <2>2. r \in Seq(Diffs) /\ Len(r) = m
    BY <1>1, <2>1
  <2>3. \E g \in [0..m -> EntrySets] :
           FoldLeft(ApplyDiff, v, r) = g[m] /\ g[0] = v /\ \A i \in 1..m : g[i] = ApplyDiff(g[i - 1], r[i])
    BY <2>2, DiffsSteps, ZenonT(30)
  <2> QED BY <2>1, <2>3
<1>4. \A k \in 0..n : f[k] = g[k]
  <2> DEFINE T == {k \in 0..n : f[k] = g[k]}
  <2>1. 0 \in T
    BY <1>1, <1>2, <1>3
  <2>2. ASSUME NEW k \in 0..(n - 1), k \in T PROVE k + 1 \in T
    <3>1. k + 1 \in 1..n /\ k + 1 \in 1..(n + 1) /\ k + 1 \in 0..n /\ (k + 1) - 1 = k
      BY <1>1
    <3>2. f[k + 1] = ApplyDiff(f[k], s[k + 1]) /\ g[k + 1] = ApplyDiff(g[k], s[k + 1])
      BY <1>1, <1>2, <1>3, <3>1
    <3> QED BY <2>2, <3>1, <3>2
  <2> HIDE DEF T
  <2>3. \A k \in 0..n : k \in T
    BY <1>1, <2>1, <2>2, UpTo
  <2> QED BY <2>3 DEF T
<1>5. n + 1 \in 1..(n + 1) /\ (n + 1) - 1 = n /\ n \in 0..n
  BY <1>1
<1>6. FoldLeft(ApplyDiff, v, r) = ApplyDiff(FoldLeft(ApplyDiff, v, s), u)
  BY <1>1, <1>2, <1>3, <1>4, <1>5
<1>7. FoldLeft(ApplyDiff, v, s) \in EntrySets
  BY <1>2, <1>5
<1> QED BY <1>6, <1>7 DEF r

(* A sequence of diffs, without the first.                                  *)
LEMMA DiffsCons ==
    ASSUME NEW v \in EntrySets, NEW s \in Seq(Diffs), s # <<>>
    PROVE  FoldLeft(ApplyDiff, v, s) = FoldLeft(ApplyDiff, ApplyDiff(v, Head(s)), Tail(s))
<1> DEFINE n == Len(s)
           r == Tail(s)
<1>1. /\ n \in Nat /\ n > 0 /\ r \in Seq(Diffs) /\ Len(r) = n - 1 /\ Head(s) = s[1]
      /\ s[1] \in Diffs /\ \A i \in 1..(n - 1) : r[i] = s[i + 1]
  OBVIOUS
<1>2. PICK f \in [0..n -> EntrySets] :
        FoldLeft(ApplyDiff, v, s) = f[n] /\ f[0] = v /\ \A i \in 1..n : f[i] = ApplyDiff(f[i - 1], s[i])
  BY DiffsSteps
<1>3. PICK b \in EntrySets : b = ApplyDiff(v, Head(s))
  BY <1>1, ApplyFacts
<1> HIDE DEF n, r
<1>4. PICK g \in [0..(n - 1) -> EntrySets] :
        FoldLeft(ApplyDiff, b, r) = g[n - 1] /\ g[0] = b
        /\ \A i \in 1..(n - 1) : g[i] = ApplyDiff(g[i - 1], r[i])
  BY <1>1, DiffsSteps, SMTT(30)
<1>5. \A k \in 0..(n - 1) : g[k] = f[k + 1]
  <2> DEFINE T == {k \in 0..(n - 1) : g[k] = f[k + 1]}
  <2>1. 0 \in T
    <3>1. 1 \in 1..n /\ 1 - 1 = 0 /\ 0 \in 0..(n - 1) /\ 0 + 1 = 1
      BY <1>1
    <3>2. f[1] = ApplyDiff(f[0], s[1])
      BY <1>2, <3>1
    <3> QED BY <1>1, <1>2, <1>3, <1>4, <3>1, <3>2
  <2>2. ASSUME NEW k \in 0..((n - 1) - 1), k \in T PROVE k + 1 \in T
    <3>1. /\ k + 1 \in 1..(n - 1) /\ (k + 1) + 1 \in 1..n /\ k + 1 \in 0..(n - 1)
          /\ (k + 1) - 1 = k /\ ((k + 1) + 1) - 1 = k + 1
      BY <1>1
    <3>2. f[(k + 1) + 1] = ApplyDiff(f[k + 1], s[(k + 1) + 1])
      BY <1>2, <3>1
    <3>3. g[k + 1] = ApplyDiff(g[k], s[(k + 1) + 1])
      BY <1>1, <1>4, <3>1
    <3> QED BY <2>2, <3>1, <3>2, <3>3
  <2> HIDE DEF T
  <2>0. n - 1 \in Nat
    BY <1>1
  <2>3. \A k \in 0..(n - 1) : k \in T
    BY <2>0, <2>1, <2>2, UpTo
  <2> QED BY <2>3 DEF T
<1>6. n - 1 \in 0..(n - 1) /\ (n - 1) + 1 = n
  BY <1>1
<1>7. FoldLeft(ApplyDiff, v, s) = FoldLeft(ApplyDiff, b, r)
  BY <1>2, <1>4, <1>5, <1>6
<1> QED BY <1>3, <1>7 DEF r

(* A watcher that was sent no diff keeps its view.                          *)
LEMMA DiffsNone ==
    ASSUME NEW v \in EntrySets
    PROVE  FoldLeft(ApplyDiff, v, <<>>) = v
<1>1. <<>> \in Seq(Diffs) /\ Len(<<>>) = 0
  OBVIOUS
<1>2. PICK f \in [0..Len(<<>>) -> EntrySets] : FoldLeft(ApplyDiff, v, <<>>) = f[Len(<<>>)] /\ f[0] = v
  BY <1>1, DiffsSteps, ZenonT(30), SMTT(30)
<1> QED BY <1>1, <1>2, Zenon

-----------------------------------------------------------------------------
(* What the tracker does to its entries is what the diff says of them.      *)

(* The keys a diff names.                                                   *)
KeysOf(diff) == {c.key : c \in diff.joins \cup diff.leaves}

(* A blend of a view and the entries, after one diff more.                  *)
LEMMA BlendApplied ==
    ASSUME NEW v \in EntrySets, NEW es \in EntrySets, NEW named \in SUBSET Keys, NEW u \in Diffs
    PROVE  /\ named \cup KeysOf(u) \in SUBSET Keys
           /\ ApplyDiff(Blend(v, es, named), u) = Blend(v, ApplyDiff(es, u), named \cup KeysOf(u))
<1>1. u.joins \in SUBSET PresenceEntries /\ u.leaves \in SUBSET PresenceEntries
  BY DEF Diffs, EntrySets
<1>2. \A e \in PresenceEntries : e.key \in Keys
  BY DEF PresenceEntries
<1>3. KeysOf(u) \in SUBSET Keys
  BY <1>1, <1>2 DEF KeysOf
<1>4. \A es0 : ApplyDiff(es0, u) = {e \in es0 : e.key \notin KeysOf(u)} \cup u.joins
  BY DEF ApplyDiff, KeysOf
<1>5. \A e \in u.joins : e.key \in KeysOf(u)
  BY DEF KeysOf
<1>6. Blend(v, ApplyDiff(es, u), named \cup KeysOf(u))
        = {e \in v : e.key \notin named \cup KeysOf(u)}
            \cup {e \in {x \in es : x.key \notin KeysOf(u)} \cup u.joins : e.key \in named \cup KeysOf(u)}
  BY <1>4 DEF Blend
<1>7. ApplyDiff(Blend(v, es, named), u)
        = {e \in {x \in v : x.key \notin named} \cup {x \in es : x.key \in named} : e.key \notin KeysOf(u)}
            \cup u.joins
  BY <1>4 DEF Blend
<1> QED BY <1>3, <1>5, <1>6, <1>7

(* No view is left of a view whose keys are all the tracker's.              *)
LEMMA BlendOfOwn ==
    ASSUME NEW es, NEW named
    PROVE  Blend(es, es, named) = es
BY DEF Blend

(* With no entry left to come, the view is the view.                        *)
LEMMA BlendOfNone ==
    ASSUME NEW v, NEW es
    PROVE  Blend(v, es, {}) = v
BY DEF Blend

(* handle Track: replaced in place or pushed, an entry per key.             *)
LEMMA UpsertIs ==
    ASSUME NEW s \in Seq(PresenceEntries), OwnKeys(s), NEW e \in PresenceEntries
    PROVE  /\ Upsert(s, e) \in Seq(PresenceEntries) /\ OwnKeys(Upsert(s, e))
           /\ ToSet(Upsert(s, e)) = ApplyDiff(ToSet(s), [joins |-> {e}, leaves |-> {}])
<1> DEFINE u == [joins |-> {e}, leaves |-> {}]
           r == Upsert(s, e)
<1>1. \A v : ApplyDiff(v, u) = {x \in v : x.key # e.key} \cup {e}
  BY DEF ApplyDiff
<1>2. CASE \E i \in DOMAIN s : s[i].key = e.key
  <2>1. r = [i \in DOMAIN s |-> IF s[i].key = e.key THEN e ELSE s[i]]
    BY <1>2 DEF Upsert
  <2>2. /\ r \in Seq(PresenceEntries) /\ Len(r) = Len(s) /\ DOMAIN s = 1..Len(s) /\ DOMAIN r = 1..Len(s)
        /\ \A i \in 1..Len(s) : r[i] = IF s[i].key = e.key THEN e ELSE s[i]
    BY <2>1
  <2>3. OwnKeys(r)
    BY <2>2 DEF OwnKeys
  <2>4. ToSet(r) = {x \in ToSet(s) : x.key # e.key} \cup {e}
    BY <1>2, <2>2 DEF ToSet
  <2> QED BY <1>1, <2>2, <2>3, <2>4
<1>3. CASE ~\E i \in DOMAIN s : s[i].key = e.key
  <2>1. r = Append(s, e)
    BY <1>3 DEF Upsert
  <2>2. /\ r \in Seq(PresenceEntries) /\ Len(r) = Len(s) + 1 /\ DOMAIN s = 1..Len(s) /\ DOMAIN r = 1..(Len(s) + 1)
        /\ r[Len(s) + 1] = e /\ \A i \in 1..Len(s) : r[i] = s[i]
    BY <2>1
  <2>3. \A i \in 1..Len(s) : s[i].key # e.key
    BY <1>3, <2>2
  <2>4. OwnKeys(r)
    <3> SUFFICES ASSUME NEW i \in 1..Len(r), NEW j \in 1..Len(r), r[i].key = r[j].key
                 PROVE  i = j
      BY DEF OwnKeys
    <3>1. CASE i \in 1..Len(s) /\ j \in 1..Len(s)
      BY <2>2, <3>1 DEF OwnKeys
    <3>2. CASE i \in 1..Len(s) /\ j = Len(s) + 1
      BY <2>2, <2>3, <3>2
    <3>3. CASE i = Len(s) + 1 /\ j \in 1..Len(s)
      BY <2>2, <2>3, <3>3
    <3>4. CASE i = Len(s) + 1 /\ j = Len(s) + 1
      BY <3>4
    <3> QED BY <2>2, <3>1, <3>2, <3>3, <3>4
  <2>5. ToSet(s) = {s[i] : i \in 1..Len(s)} /\ ToSet(r) = {r[i] : i \in 1..(Len(s) + 1)}
    BY <2>2 DEF ToSet
  <2>6. ToSet(r) = ToSet(s) \cup {e}
    <3>1. \A x \in ToSet(r) : x \in ToSet(s) \cup {e}
      BY <2>2, <2>5
    <3>2. e \in ToSet(r) /\ \A x \in ToSet(s) : x \in ToSet(r)
      <4>1. Len(s) + 1 \in 1..(Len(s) + 1) /\ \A i \in 1..Len(s) : i \in 1..(Len(s) + 1)
        OBVIOUS
      <4> QED BY <2>2, <2>5, <4>1
    <3> QED BY <3>1, <3>2
  <2>7. {x \in ToSet(s) : x.key # e.key} = ToSet(s)
    BY <2>3, <2>5
  <2> QED BY <1>1, <2>2, <2>4, <2>6, <2>7
<1> QED BY <1>2, <1>3

(* handle Untrack: the entry at a place is removed.                         *)
LEMMA RemovedIs ==
    ASSUME NEW s \in Seq(PresenceEntries), OwnKeys(s), NEW i \in 1..Len(s)
    PROVE  /\ RemoveAt(s, i) \in Seq(PresenceEntries) /\ OwnKeys(RemoveAt(s, i))
           /\ ToSet(RemoveAt(s, i)) = ApplyDiff(ToSet(s), [joins |-> {}, leaves |-> {s[i]}])
<1> DEFINE u == [joins |-> {}, leaves |-> {s[i]}]
           r == RemoveAt(s, i)
           n == Len(s)
<1>1. \A v : ApplyDiff(v, u) = {x \in v : x.key # s[i].key}
  BY DEF ApplyDiff
<1>2. n \in Nat /\ DOMAIN s = 1..n /\ \A j \in 1..n : s[j] \in PresenceEntries
  OBVIOUS
<1>3. PICK p : p = SubSeq(s, 1, i - 1)
  OBVIOUS
<1>4. PICK q : q = SubSeq(s, i + 1, n)
  OBVIOUS
<1>5. p \in Seq(PresenceEntries) /\ Len(p) = i - 1 /\ \A j \in 1..(i - 1) : p[j] = s[j]
  <2>1. 1 \in Int /\ i - 1 \in Int /\ \A j \in 1..(i - 1) : s[j] \in PresenceEntries
    BY <1>2
  <2>2. /\ SubSeq(s, 1, i - 1) \in Seq(PresenceEntries)
        /\ Len(SubSeq(s, 1, i - 1)) = IF 1 <= i - 1 THEN (i - 1) - 1 + 1 ELSE 0
        /\ \A j \in 1..((i - 1) - 1 + 1) : SubSeq(s, 1, i - 1)[j] = s[1 + j - 1]
    BY <2>1, SubSeqProperties
  <2> QED BY <1>2, <1>3, <2>2
<1>6. q \in Seq(PresenceEntries) /\ Len(q) = n - i /\ \A j \in 1..(n - i) : q[j] = s[i + j]
  <2>1. i + 1 \in Int /\ n \in Int /\ \A j \in (i + 1)..n : s[j] \in PresenceEntries
    BY <1>2
  <2>2. /\ SubSeq(s, i + 1, n) \in Seq(PresenceEntries)
        /\ Len(SubSeq(s, i + 1, n)) = IF i + 1 <= n THEN n - (i + 1) + 1 ELSE 0
        /\ \A j \in 1..(n - (i + 1) + 1) : SubSeq(s, i + 1, n)[j] = s[(i + 1) + j - 1]
    <3> HIDE DEF n
    <3> QED BY <2>1, SubSeqProperties
  <2>3. n - (i + 1) + 1 = n - i /\ \A j \in Int : (i + 1) + j - 1 = i + j
    BY <1>2
  <2> HIDE DEF n
  <2> QED BY <1>2, <1>4, <2>2, <2>3
<1>7. r = p \o q
  BY <1>3, <1>4 DEF RemoveAt
<1> HIDE DEF r, n
<1>8. /\ r \in Seq(PresenceEntries) /\ Len(r) = n - 1 /\ DOMAIN r = 1..(n - 1)
      /\ \A j \in 1..(n - 1) : r[j] = IF j < i THEN s[j] ELSE s[j + 1]
  <2>1. r \in Seq(PresenceEntries) /\ Len(r) = n - 1 /\ DOMAIN r = 1..(n - 1)
    <3>1. r \in Seq(PresenceEntries) /\ Len(r) = Len(p) + Len(q)
      BY <1>5, <1>6, <1>7, ConcatProperties
    <3>2. Len(r) = n - 1
      BY <1>2, <1>5, <1>6, <3>1
    <3> QED BY <3>1, <3>2
  <2>2. \A j \in 1..(Len(p) + Len(q)) : (p \o q)[j] = IF j <= Len(p) THEN p[j] ELSE q[j - Len(p)]
    BY <1>5, <1>6, ConcatProperties
  <2>3. ASSUME NEW j \in 1..(n - 1) PROVE r[j] = IF j < i THEN s[j] ELSE s[j + 1]
    <3>1. j \in 1..(Len(p) + Len(q))
      BY <1>2, <1>5, <1>6
    <3>2. CASE j < i
      BY <1>2, <1>5, <1>7, <2>2, <3>1, <3>2
    <3>3. CASE j >= i
      <4>1. j - (i - 1) \in 1..(n - i) /\ i + (j - (i - 1)) = j + 1 /\ ~(j <= Len(p)) /\ ~(j < i)
        BY <1>2, <1>5, <3>3
      <4>2. r[j] = q[j - (i - 1)]
        BY <1>5, <1>7, <2>2, <3>1, <4>1
      <4>3. q[j - (i - 1)] = s[i + (j - (i - 1))]
        BY <1>6, <4>1
      <4> QED BY <4>1, <4>2, <4>3
    <3> QED BY <1>2, <3>2, <3>3
  <2> QED BY <2>1, <2>3
<1>9. OwnKeys(r)
  <2> SUFFICES ASSUME NEW j \in 1..(n - 1), NEW k \in 1..(n - 1), r[j].key = r[k].key
               PROVE  j = k
    BY <1>8 DEF OwnKeys
  <2> DEFINE at(x) == IF x < i THEN x ELSE x + 1
  <2>1. at(j) \in 1..n /\ at(k) \in 1..n /\ r[j] = s[at(j)] /\ r[k] = s[at(k)]
    BY <1>2, <1>8
  <2>2. at(j) = at(k)
    <3> HIDE DEF at
    <3> QED BY <2>1 DEF OwnKeys, n
  <2> QED BY <1>2, <2>2
<1>10. ToSet(s) = {s[j] : j \in 1..n} /\ ToSet(r) = {r[j] : j \in 1..(n - 1)}
  BY <1>2, <1>8 DEF ToSet
<1>11. ToSet(r) = {x \in ToSet(s) : x.key # s[i].key}
  <2>1. ASSUME NEW x \in ToSet(r) PROVE x \in ToSet(s) /\ x.key # s[i].key
    <3>1. PICK j \in 1..(n - 1) : x = r[j]
      BY <1>10
    <3>2. PICK k \in 1..n : x = s[k] /\ k # i
      <4>1. CASE j < i
        BY <1>2, <1>8, <3>1, <4>1
      <4>2. CASE j >= i
        <5>1. j + 1 \in 1..n /\ j + 1 # i /\ x = s[j + 1]
          BY <1>2, <1>8, <3>1, <4>2
        <5> QED BY <5>1
      <4> QED BY <1>2, <4>1, <4>2
    <3>3. s[k].key # s[i].key
      BY <3>2 DEF OwnKeys, n
    <3> QED BY <1>10, <3>2, <3>3
  <2>2. ASSUME NEW x \in ToSet(s), x.key # s[i].key PROVE x \in ToSet(r)
    <3>1. PICK k \in 1..n : x = s[k]
      BY <1>10
    <3>2. k # i
      BY <2>2, <3>1
    <3>3. PICK j \in 1..(n - 1) : x = r[j]
      <4>1. CASE k < i
        <5>1. k \in 1..(n - 1) /\ r[k] = x
          BY <1>2, <1>8, <3>1, <4>1 DEF n
        <5> QED BY <5>1
      <4>2. CASE k > i
        <5>1. k - 1 \in 1..(n - 1) /\ ~(k - 1 < i) /\ (k - 1) + 1 = k
          BY <1>2, <3>1, <4>2
        <5>2. r[k - 1] = x
          BY <1>8, <3>1, <5>1
        <5> QED BY <5>1, <5>2
      <4> QED BY <1>2, <3>2, <4>1, <4>2
    <3> QED BY <1>10, <3>3
  <2> QED BY <2>1, <2>2
<1> QED BY <1>1, <1>8, <1>9, <1>11 DEF r

-----------------------------------------------------------------------------
(* The questions in the queue.                                              *)

Asking == {"subscribing", "listing"}

(* A watcher that has asked nothing has no question in the queue.           *)
LEMMA FreeAsksNothing ==
    ASSUME NEW q \in Seq(Commands), NEW w, NEW me, Waits(q, w, me), me.pc \notin Asking
    PROVE  \A i \in 1..Len(q) : ~Asks(q[i], w)
BY DEF Waits, Asking

(* What a watcher waits for does not depend on its view.                    *)
LEMMA WaitsSame ==
    ASSUME NEW q \in Seq(Commands), NEW w, NEW me, NEW me2, Waits(q, w, me),
           me.pc \notin Asking \/ (me2.topic = me.topic /\ me2.pc = me.pc)
    PROVE  Waits(q, w, me2)
BY FreeAsksNothing DEF Waits

(* A command of somebody else, or of a watcher that starts to wait for it.  *)
LEMMA WaitsAppend ==
    ASSUME NEW q \in Seq(Commands), NEW cmd \in Commands, NEW w, NEW me, NEW me2, Waits(q, w, me),
           \/ ~Asks(cmd, w) /\ me2.topic = me.topic /\ me2.pc = me.pc
           \/ /\ me.pc \notin Asking /\ cmd.topic = me2.topic
              /\ me2.pc = IF cmd.kind = "list" THEN "listing" ELSE "subscribing"
    PROVE  Waits(Append(q, cmd), w, me2)
<1>1. PICK r : r = Append(q, cmd)
  OBVIOUS
<1>2. Len(r) = Len(q) + 1 /\ r[Len(q) + 1] = cmd /\ Len(q) \in Nat /\ \A i \in 1..Len(q) : r[i] = q[i]
  BY <1>1
<1>3. \A i \in 1..Len(r) : i \in 1..Len(q) \/ i = Len(q) + 1
  BY <1>2
<1>4. CASE ~Asks(cmd, w) /\ me2.topic = me.topic /\ me2.pc = me.pc
  BY <1>1, <1>2, <1>3, <1>4 DEF Waits
<1>5. CASE /\ me.pc \notin Asking /\ cmd.topic = me2.topic
           /\ me2.pc = IF cmd.kind = "list" THEN "listing" ELSE "subscribing"
  <2>1. \A i \in 1..Len(q) : ~Asks(q[i], w)
    BY <1>5, FreeAsksNothing
  <2> QED BY <1>1, <1>2, <1>3, <1>5, <2>1 DEF Waits
<1> QED BY <1>4, <1>5

(* The head of the queue is taken; its watcher asks nothing else.           *)
LEMMA WaitsTail ==
    ASSUME NEW q \in Seq(Commands), q # <<>>, NEW w, NEW me, Waits(q, w, me), NEW me2,
           Asks(Head(q), w) \/ (me2.topic = me.topic /\ me2.pc = me.pc)
    PROVE  Waits(Tail(q), w, me2)
<1>1. PICK r : r = Tail(q)
  OBVIOUS
<1>2. /\ Len(r) = Len(q) - 1 /\ Len(q) \in Nat /\ Len(q) > 0 /\ Head(q) = q[1]
      /\ \A i \in 1..Len(r) : r[i] = q[i + 1] /\ i + 1 \in 1..Len(q)
  BY <1>1
<1>3. CASE Asks(Head(q), w)
  <2>1. 1 \in 1..Len(q) /\ \A j \in 1..Len(q) : Asks(q[j], w) => 1 = j
    BY <1>2, <1>3 DEF Waits
  <2>2. \A i \in 1..Len(r) : ~Asks(r[i], w)
    BY <1>2, <2>1
  <2> QED BY <1>1, <2>2 DEF Waits
<1>4. CASE ~Asks(Head(q), w) /\ me2.topic = me.topic /\ me2.pc = me.pc
  <2>1. ASSUME NEW i \in 1..Len(r), Asks(r[i], w)
        PROVE  /\ r[i].topic = me2.topic
               /\ me2.pc = IF r[i].kind = "list" THEN "listing" ELSE "subscribing"
               /\ \A j \in 1..Len(r) : Asks(r[j], w) => i = j
    <3>1. /\ q[i + 1].topic = me.topic
          /\ me.pc = IF q[i + 1].kind = "list" THEN "listing" ELSE "subscribing"
          /\ \A j \in 1..Len(q) : Asks(q[j], w) => i + 1 = j
      BY <1>2, <2>1 DEF Waits
    <3>2. ASSUME NEW j \in 1..Len(r), Asks(r[j], w) PROVE i = j
      <4>1. i + 1 = j + 1
        BY <1>2, <3>1, <3>2
      <4> QED BY <1>2, <4>1
    <3> QED BY <1>2, <1>4, <3>1, <3>2
  <2> QED BY <1>1, <2>1 DEF Waits
<1> QED BY <1>3, <1>4

-----------------------------------------------------------------------------
(* What a watcher knows.                                                    *)

(* Another state of the watcher, its part of the tracker being the same.    *)
Watchings == [topic : PresenceTopics, pc : WatcherPcs, inbox : Seq(Diffs), view : EntrySets]

(* Its requests and its leaving tell a watcher nothing.                     *)
LEMMA KnownMoves ==
    ASSUME NEW me \in Watchings, NEW me2 \in Watchings, NEW w, NEW subs, NEW es,
           Known(me, w, subs, es), me2.topic = me.topic, me2.view = me.view,
           \/ me.pc = "out" /\ me2.pc = "subscribing" /\ me2.inbox = me.inbox
           \/ me.pc = "subscribed" /\ me2.pc = "listing" /\ me2.inbox = me.inbox
           \/ me.pc \in {"subscribed", "watching"} /\ me2.pc = "gone"
    PROVE  Known(me2, w, subs, es)
BY DEF Known

(* A diff applied is a diff less to apply.                                  *)
LEMMA KnownReceives ==
    ASSUME NEW me \in Watchings, NEW me2 \in Watchings, NEW w, NEW subs, NEW es,
           Known(me, w, subs, es), me2.topic = me.topic, me2.pc = "watching", me.pc = "watching",
           me.inbox # <<>>, me2.view = ApplyDiff(me.view, Head(me.inbox)), me2.inbox = Tail(me.inbox)
    PROVE  Known(me2, w, subs, es)
<1>1. me.view \in EntrySets /\ me.inbox \in Seq(Diffs)
  BY DEF Watchings
<1>2. Fold(me2.view, me2.inbox) = Fold(me.view, me.inbox)
  BY <1>1, DiffsCons DEF Fold
<1> QED BY <1>2 DEF Known

(* The list contains the diffs that wait already.                           *)
LEMMA KnownListed ==
    ASSUME NEW me \in Watchings, NEW me2 \in Watchings, NEW w, NEW subs, NEW es \in EntrySets,
           Known(me, w, subs, es), me2.topic = me.topic, me2.pc = "watching", me.pc = "listing",
           me2.view = es, me2.inbox = me.inbox
    PROVE  Known(me2, w, subs, es)
<1>1. PICK named \in SUBSET Keys :
        \A view \in EntrySets : Fold(view, me.inbox) = Blend(view, es, named)
  BY DEF Known
<1>2. Fold(me2.view, me2.inbox) = es
  BY <1>1, BlendOfOwn
<1> QED BY <1>2 DEF Known

(* A subscription begins with a view that knows nothing.                    *)
LEMMA KnownSubscribes ==
    ASSUME NEW me \in Watchings, NEW me2 \in Watchings, NEW w, NEW subs, NEW subs2, NEW es,
           Known(me, w, subs, es), me2.topic = me.topic, me.pc = "subscribing", me2.pc = "subscribed",
           me2.inbox = me.inbox,
           \A t \in PresenceTopics : Contains(subs2[t], w) <=> t = me.topic \/ Contains(subs[t], w)
    PROVE  Known(me2, w, subs2, es)
<1>1. me2.inbox = <<>> /\ me.topic \in PresenceTopics
  BY DEF Known, Watchings
<1>2. \A view \in EntrySets : Fold(view, me2.inbox) = Blend(view, es, {})
  BY <1>1, DiffsNone, BlendOfNone DEF Fold
<1>3. {} \in SUBSET Keys
  OBVIOUS
<1> QED BY <1>1, <1>2, <1>3 DEF Known

(* Somebody else's place among the subscribers.                             *)
LEMMA KnownStays ==
    ASSUME NEW me, NEW w, NEW subs, NEW subs2, NEW es, Known(me, w, subs, es),
           me.topic \in PresenceTopics,
           \A t \in PresenceTopics : Contains(subs2[t], w) <=> Contains(subs[t], w)
    PROVE  Known(me, w, subs2, es)
BY DEF Known

(* A change of the watcher's topic: the tracker has it, the inbox has it.   *)
LEMMA KnownChange ==
    ASSUME NEW me \in Watchings, NEW me2 \in Watchings, NEW w, NEW subs, NEW subs2,
           NEW es \in EntrySets, NEW u \in Diffs, Known(me, w, subs, es),
           me2.topic = me.topic, me2.pc = me.pc, me2.view = me.view,
           me2.inbox = IF Contains(subs2[me.topic], w) THEN Append(me.inbox, u) ELSE me.inbox,
           \A t \in PresenceTopics : Contains(subs2[t], w) => Contains(subs[t], w),
           me.pc # "gone" /\ Contains(subs[me.topic], w) => Contains(subs2[me.topic], w)
    PROVE  Known(me2, w, subs2, ApplyDiff(es, u))
<1>1. me.topic \in PresenceTopics /\ me.inbox \in Seq(Diffs) /\ me.view \in EntrySets
  BY DEF Watchings
<1>2. CASE me.pc \in {"out", "subscribing", "gone"}
  <2>1. me.pc # "gone" => ~Contains(subs2[me.topic], w)
    BY <1>1, <1>2 DEF Known
  <2> QED BY <1>1, <1>2, <2>1 DEF Known
<1>3. CASE me.pc \in {"subscribed", "listing"}
  <2>1. Contains(subs2[me.topic], w) /\ me2.inbox = Append(me.inbox, u)
    BY <1>3 DEF Known
  <2>2. PICK named \in SUBSET Keys :
          \A view \in EntrySets : Fold(view, me.inbox) = Blend(view, es, named)
    BY <1>3 DEF Known
  <2>3. named \cup KeysOf(u) \in SUBSET Keys
    BY BlendApplied
  <2>4. ASSUME NEW view \in EntrySets
        PROVE  Fold(view, me2.inbox) = Blend(view, ApplyDiff(es, u), named \cup KeysOf(u))
    <3>1. Fold(view, me2.inbox) = ApplyDiff(Fold(view, me.inbox), u)
      <4>1. Fold(view, Append(me.inbox, u)) = ApplyDiff(Fold(view, me.inbox), u)
        BY <1>1, DiffsAppend, Zenon DEF Fold
      <4> QED BY <2>1, <4>1
    <3>2. Fold(view, me.inbox) = Blend(view, es, named)
      BY <2>2
    <3> QED BY <3>1, <3>2, BlendApplied
  <2> QED BY <1>3, <2>1, <2>3, <2>4 DEF Known
<1>4. CASE me.pc = "watching"
  <2>1. Contains(subs2[me.topic], w) /\ me2.inbox = Append(me.inbox, u)
    BY <1>4 DEF Known
  <2>2. Fold(me.view, me.inbox) = es
    BY <1>4 DEF Known
  <2>3. Fold(me.view, me2.inbox) = ApplyDiff(es, u)
    <3>1. Fold(me.view, Append(me.inbox, u)) = ApplyDiff(Fold(me.view, me.inbox), u)
      BY <1>1, DiffsAppend, Zenon DEF Fold
    <3> QED BY <2>1, <2>2, <3>1
  <2> QED BY <1>4, <2>1, <2>3 DEF Known
<1> QED BY <1>2, <1>3, <1>4 DEF Watchings, WatcherPcs

-----------------------------------------------------------------------------
(* The steps.                                                               *)

(* The subscribers a change leaves: those that are there.                   *)
LEMMA NotifiedIs ==
    ASSUME NEW subs \in Seq(Watchers)
    PROVE  /\ Notified(subs) \in Seq(Watchers)
           /\ \A w : Contains(Notified(subs), w) => Contains(subs, w)
           /\ \A w : Contains(subs, w) /\ watcher[w].pc # "gone" => Contains(Notified(subs), w)
<1> DEFINE places == {i \in DOMAIN subs : watcher[subs[i]].pc # "gone"}
           n == Len(subs)
<1>1. n \in Nat /\ DOMAIN subs = 1..n
  OBVIOUS
<1>2. PICK kept \in Seq(Watchers) : kept = Notified(subs) /\ Lists(kept, subs, n, places)
  <2>1. Kept(subs, places) \in Seq(Watchers) /\ Lists(Kept(subs, places), subs, n, places)
    <3> HIDE DEF places
    <3> QED BY KeptLists
  <2> QED BY <2>1 DEF Notified
<1>3. PICK at \in [1..Len(kept) -> 1..n] :
        /\ \A k \in 1..Len(kept) : at[k] \in places /\ kept[k] = subs[at[k]]
        /\ \A i \in 1..n : i \in places => \E k \in 1..Len(kept) : at[k] = i
  BY <1>2 DEF Lists
<1>4. ASSUME NEW w, Contains(kept, w) PROVE Contains(subs, w)
  BY <1>3, <1>4 DEF Contains
<1>5. ASSUME NEW w, Contains(subs, w), watcher[w].pc # "gone" PROVE Contains(kept, w)
  <2>1. PICK i \in 1..n : subs[i] = w
    BY <1>5 DEF Contains
  <2>2. i \in places
    BY <1>1, <1>5, <2>1
  <2>3. PICK k \in 1..Len(kept) : at[k] = i
    BY <1>3, <2>2
  <2> QED BY <1>3, <2>1, <2>3 DEF Contains
<1> QED BY <1>2, <1>4, <1>5

(* What a call puts into the queue.                                         *)
LEMMA EnqueueIs ==
    ASSUME PresenceType, NEW cmd \in Commands, Enqueue(cmd)
    PROVE  /\ tracker' \in [alive : BOOLEAN, queue : Seq(Commands),
                            state : [PresenceTopics -> Seq(PresenceEntries)],
                            subscribers : [PresenceTopics -> Seq(Watchers)]]
           /\ tracker'.alive = tracker.alive
           /\ tracker'.state = tracker.state
           /\ tracker'.subscribers = tracker.subscribers
           /\ tracker.alive => tracker'.queue = Append(tracker.queue, cmd)
           /\ ~tracker.alive => tracker'.queue = tracker.queue
<1>1. CASE tracker.alive
  <2>1. tracker' = [tracker EXCEPT !.queue = Append(@, cmd)]
    BY <1>1 DEF Enqueue
  <2>2. Append(tracker.queue, cmd) \in Seq(Commands)
    BY DEF PresenceType
  <2> QED BY <1>1, <2>1, <2>2 DEF PresenceType
<1>2. CASE ~tracker.alive
  BY <1>2 DEF Enqueue, PresenceType
<1> QED BY <1>1, <1>2

(* track, untrack, shutdown.                                                *)
LEMMA CastKeeps ==
    ASSUME PresenceInv, NEW cmd \in Commands, cmd.kind \notin {"subscribe", "list"}, Cast(cmd)
    PROVE  PresenceInv'
<1>1. PresenceType /\ watcher' = watcher /\ Enqueue(cmd)
  BY DEF PresenceInv, Cast
<1>2. /\ tracker' \in [alive : BOOLEAN, queue : Seq(Commands),
                       state : [PresenceTopics -> Seq(PresenceEntries)],
                       subscribers : [PresenceTopics -> Seq(Watchers)]]
      /\ tracker'.alive = tracker.alive
      /\ tracker'.state = tracker.state
      /\ tracker'.subscribers = tracker.subscribers
      /\ tracker.alive => tracker'.queue = Append(tracker.queue, cmd)
      /\ ~tracker.alive => tracker'.queue = tracker.queue
  BY <1>1, EnqueueIs
<1>3. ASSUME NEW w \in Watchers PROVE Waits(tracker'.queue, w, watcher'[w])
  <2>1. Waits(tracker.queue, w, watcher[w]) /\ tracker.queue \in Seq(Commands) /\ ~Asks(cmd, w)
    BY DEF PresenceInv, PresenceType, Asks
  <2>2. Waits(Append(tracker.queue, cmd), w, watcher[w])
    BY <2>1, WaitsAppend
  <2> QED BY <1>1, <1>2, <2>1, <2>2 DEF PresenceType
<1>4. ASSUME NEW w \in Watchers, tracker.alive
      PROVE  Known(watcher'[w], w, tracker'.subscribers, ToSet(tracker'.state[watcher'[w].topic]))
  BY <1>1, <1>2, <1>4 DEF PresenceInv, Watched
<1> QED BY <1>1, <1>2, <1>3, <1>4 DEF PresenceInv, PresenceType, Watched

(* A step of one watcher, the tracker's own state being the same.           *)
LEMMA WatcherKeeps ==
    ASSUME PresenceInv, NEW w \in Watchers, NEW me \in Watchings,
           watcher' = [watcher EXCEPT ![w] = me], me.topic = watcher[w].topic,
           tracker' \in [alive : BOOLEAN, queue : Seq(Commands),
                         state : [PresenceTopics -> Seq(PresenceEntries)],
                         subscribers : [PresenceTopics -> Seq(Watchers)]],
           tracker'.alive = tracker.alive, tracker'.state = tracker.state,
           tracker'.subscribers = tracker.subscribers,
           ~tracker.alive => tracker'.queue = tracker.queue,
           tracker.alive => \A x \in Watchers : Waits(tracker'.queue, x, watcher'[x]),
           tracker.alive =>
              Known(me, w, tracker.subscribers, ToSet(tracker.state[watcher[w].topic]))
    PROVE  PresenceInv'
<1>1. watcher' \in [Watchers -> Watchings] /\ watcher \in [Watchers -> Watchings]
  BY DEF PresenceInv, PresenceType, Watchings
<1>2. watcher'[w] = me /\ \A x \in Watchers : x # w => watcher'[x] = watcher[x]
  BY <1>1
<1>3. \A x \in Watchers : Waits(tracker'.queue, x, watcher'[x])
  <2>1. CASE ~tracker.alive
    BY <2>1 DEF PresenceInv, Waits
  <2> QED BY <2>1
<1>4. ASSUME NEW x \in Watchers, tracker.alive
      PROVE  Known(watcher'[x], x, tracker'.subscribers, ToSet(tracker'.state[watcher'[x].topic]))
  <2>1. CASE x = w
    BY <1>2, <1>4, <2>1
  <2>2. CASE x # w
    BY <1>2, <1>4, <2>2 DEF PresenceInv, Watched
  <2> QED BY <2>1, <2>2
<1>5. PresenceType'
  BY <1>1 DEF PresenceType, Watchings
<1> QED BY <1>3, <1>4, <1>5 DEF PresenceInv, Watched

(* subscribe_diff and list: a question behind the others.                   *)
LEMMA AskKeeps ==
    ASSUME PresenceInv, NEW w \in Watchers, NEW kind, NEW from, NEW to, Ask(w, kind, from, to),
           \/ kind = "subscribe" /\ from = "out" /\ to = "subscribing"
           \/ kind = "list" /\ from = "subscribed" /\ to = "listing"
    PROVE  PresenceInv'
<1> DEFINE cmd == [kind |-> kind, topic |-> watcher[w].topic, from |-> w]
<1>1. PICK me : me = [watcher[w] EXCEPT !.pc = to]
  OBVIOUS
<1>2. PresenceType /\ watcher \in [Watchers -> Watchings] /\ watcher[w] \in Watchings
  BY DEF PresenceInv, PresenceType, Watchings
<1>3. /\ me \in Watchings /\ me.topic = watcher[w].topic /\ me.pc = to
      /\ me.view = watcher[w].view /\ me.inbox = watcher[w].inbox
  BY <1>1, <1>2 DEF Watchings, WatcherPcs
<1>4. watcher' = [watcher EXCEPT ![w] = me] /\ watcher[w].pc = from
  BY <1>1, <1>2 DEF Ask
<1>5. PICK c \in Commands : c = cmd /\ Enqueue(c)
  <2>1. cmd \in Commands
    BY <1>2 DEF Commands, Watchings
  <2> QED BY <2>1 DEF Ask
<1>6. /\ tracker' \in [alive : BOOLEAN, queue : Seq(Commands),
                       state : [PresenceTopics -> Seq(PresenceEntries)],
                       subscribers : [PresenceTopics -> Seq(Watchers)]]
      /\ tracker'.alive = tracker.alive
      /\ tracker'.state = tracker.state
      /\ tracker'.subscribers = tracker.subscribers
      /\ tracker.alive => tracker'.queue = Append(tracker.queue, c)
      /\ ~tracker.alive => tracker'.queue = tracker.queue
  BY <1>2, <1>5, EnqueueIs
<1>7. ASSUME NEW x \in Watchers PROVE Waits(Append(tracker.queue, c), x, watcher'[x])
  <2>1. Waits(tracker.queue, x, watcher[x]) /\ tracker.queue \in Seq(Commands)
    BY DEF PresenceInv, PresenceType
  <2>2. CASE x = w
    <3>1. /\ watcher[x].pc \notin Asking /\ c.topic = me.topic /\ watcher'[x] = me
          /\ me.pc = IF c.kind = "list" THEN "listing" ELSE "subscribing"
      BY <1>2, <1>3, <1>4, <1>5, <2>2 DEF Asking
    <3> QED BY <2>1, <3>1, WaitsAppend
  <2>3. CASE x # w
    <3>1. watcher'[x] = watcher[x] /\ ~Asks(c, x)
      BY <1>2, <1>4, <1>5, <2>3 DEF Asks
    <3>2. Waits(Append(tracker.queue, c), x, watcher[x])
      BY <2>1, <3>1, WaitsAppend
    <3> QED BY <3>1, <3>2
  <2> QED BY <2>2, <2>3
<1>8. tracker.alive => Known(me, w, tracker.subscribers, ToSet(tracker.state[watcher[w].topic]))
  <2> SUFFICES ASSUME tracker.alive
               PROVE  Known(me, w, tracker.subscribers, ToSet(tracker.state[watcher[w].topic]))
    OBVIOUS
  <2>1. Known(watcher[w], w, tracker.subscribers, ToSet(tracker.state[watcher[w].topic]))
    BY DEF PresenceInv, Watched
  <2> QED BY <1>2, <1>3, <1>4, <2>1, KnownMoves
<1> QED BY <1>3, <1>4, <1>6, <1>7, <1>8, WatcherKeeps

(* The steps of a watcher that leave the tracker as it is.                  *)
LEMMA AloneKeeps ==
    ASSUME PresenceInv, NEW w \in Watchers, NEW me \in Watchings, tracker' = tracker,
           watcher' = [watcher EXCEPT ![w] = me], me.topic = watcher[w].topic,
           tracker.alive => watcher[w].pc \notin Asking \/ me.pc = watcher[w].pc,
           tracker.alive =>
              Known(me, w, tracker.subscribers, ToSet(tracker.state[watcher[w].topic]))
    PROVE  PresenceInv'
<1>1. /\ watcher \in [Watchers -> Watchings] /\ tracker.queue \in Seq(Commands)
      /\ tracker \in [alive : BOOLEAN, queue : Seq(Commands),
                      state : [PresenceTopics -> Seq(PresenceEntries)],
                      subscribers : [PresenceTopics -> Seq(Watchers)]]
  BY DEF PresenceInv, PresenceType, Watchings
<1>2. ASSUME tracker.alive, NEW x \in Watchers PROVE Waits(tracker'.queue, x, watcher'[x])
  <2>1. Waits(tracker.queue, x, watcher[x])
    BY DEF PresenceInv
  <2>2. CASE x = w
    <3>1. Waits(tracker.queue, x, me)
      BY <1>1, <1>2, <2>1, <2>2, WaitsSame
    <3> QED BY <1>1, <2>2, <3>1
  <2>3. CASE x # w
    BY <1>1, <2>1, <2>3
  <2> QED BY <2>2, <2>3
<1> QED BY <1>1, <1>2, WatcherKeeps

(* A request to a tracker that has ended.                                   *)
LEMMA UnansweredKeeps ==
    ASSUME PresenceInv, NEW w \in Watchers, Unanswered(w)
    PROVE  PresenceInv'
<1>1. PICK me : me = [watcher[w] EXCEPT !.pc = IF @ = "listing" THEN "watching" ELSE "subscribed"]
  OBVIOUS
<1>2. watcher \in [Watchers -> Watchings] /\ watcher[w] \in Watchings
  BY DEF PresenceInv, PresenceType, Watchings
<1>3. me \in Watchings /\ me.topic = watcher[w].topic
  BY <1>1, <1>2 DEF Watchings, WatcherPcs
<1>4. watcher' = [watcher EXCEPT ![w] = me] /\ tracker' = tracker /\ ~tracker.alive
  BY <1>1, <1>2 DEF Unanswered
<1> QED BY <1>3, <1>4, AloneKeeps

(* rx.recv: the watcher applies a diff.                                     *)
LEMMA ReceivesKeeps ==
    ASSUME PresenceInv, NEW w \in Watchers, WatcherReceives(w)
    PROVE  PresenceInv'
<1> DEFINE old == watcher[w]
<1>1. PICK me : me = [old EXCEPT !.view = ApplyDiff(old.view, Head(old.inbox)), !.inbox = Tail(old.inbox)]
  OBVIOUS
<1>2. watcher \in [Watchers -> Watchings] /\ old \in Watchings
  BY DEF PresenceInv, PresenceType, Watchings
<1>3. old.pc = "watching" /\ old.inbox # <<>> /\ tracker' = tracker
  BY DEF WatcherReceives
<1>4. old.view \in EntrySets /\ Head(old.inbox) \in Diffs /\ Tail(old.inbox) \in Seq(Diffs)
  BY <1>2, <1>3 DEF Watchings
<1>5. ApplyDiff(old.view, Head(old.inbox)) \in EntrySets
  BY <1>4, ApplyFacts
<1>6. /\ me \in Watchings /\ me.topic = old.topic /\ me.pc = old.pc
      /\ me.view = ApplyDiff(old.view, Head(old.inbox)) /\ me.inbox = Tail(old.inbox)
  BY <1>1, <1>2, <1>4, <1>5 DEF Watchings
<1>7. watcher' = [watcher EXCEPT ![w] = me]
  BY <1>1, <1>2 DEF WatcherReceives
<1>8. tracker.alive => Known(me, w, tracker.subscribers, ToSet(tracker.state[watcher[w].topic]))
  <2> SUFFICES ASSUME tracker.alive
               PROVE  Known(me, w, tracker.subscribers, ToSet(tracker.state[watcher[w].topic]))
    OBVIOUS
  <2>1. Known(old, w, tracker.subscribers, ToSet(tracker.state[watcher[w].topic]))
    BY DEF PresenceInv, Watched
  <2> HIDE DEF old
  <2> QED BY <1>2, <1>3, <1>6, <2>1, KnownReceives DEF old
<1> QED BY <1>3, <1>6, <1>7, <1>8, AloneKeeps

(* The receiver is dropped.                                                 *)
LEMMA LeavesKeeps ==
    ASSUME PresenceInv, NEW w \in Watchers, WatcherLeaves(w)
    PROVE  PresenceInv'
<1> DEFINE old == watcher[w]
<1>1. PICK me : me = [old EXCEPT !.pc = "gone", !.inbox = <<>>]
  OBVIOUS
<1>2. watcher \in [Watchers -> Watchings] /\ old \in Watchings
  BY DEF PresenceInv, PresenceType, Watchings
<1>3. old.pc \in {"subscribed", "watching"} /\ tracker' = tracker
  BY DEF WatcherLeaves
<1>4. <<>> \in Seq(Diffs)
  OBVIOUS
<1>5. me \in Watchings /\ me.topic = old.topic /\ me.pc = "gone" /\ me.view = old.view
  BY <1>1, <1>2, <1>4 DEF Watchings, WatcherPcs
<1>6. watcher' = [watcher EXCEPT ![w] = me] /\ old.pc \notin Asking
  BY <1>1, <1>2, <1>3 DEF WatcherLeaves, Asking
<1>7. tracker.alive => Known(me, w, tracker.subscribers, ToSet(tracker.state[watcher[w].topic]))
  <2> SUFFICES ASSUME tracker.alive
               PROVE  Known(me, w, tracker.subscribers, ToSet(tracker.state[watcher[w].topic]))
    OBVIOUS
  <2>1. Known(old, w, tracker.subscribers, ToSet(tracker.state[watcher[w].topic]))
    BY DEF PresenceInv, Watched
  <2> HIDE DEF old
  <2> QED BY <1>2, <1>3, <1>5, <2>1, KnownMoves DEF old
<1> QED BY <1>3, <1>5, <1>6, <1>7, AloneKeeps

(* The command at the head of the queue.                                    *)
LEMMA HeadIs ==
    ASSUME PresenceInv, NEW kind, Handling(kind)
    PROVE  /\ tracker.alive /\ tracker.queue \in Seq(Commands) /\ tracker.queue # <<>>
           /\ Head(tracker.queue) \in Commands /\ Head(tracker.queue).kind = kind
           /\ Tail(tracker.queue) \in Seq(Commands)
BY DEF PresenceInv, PresenceType, Handling

(* The entries of a topic.                                                  *)
LEMMA EntriesOf ==
    ASSUME NEW s \in Seq(PresenceEntries)
    PROVE  ToSet(s) \in EntrySets
BY DEF ToSet, EntrySets

(* A change of a topic, sent to its subscribers.                            *)
LEMMA ChangedKeeps ==
    ASSUME PresenceInv, tracker.alive, tracker.queue # <<>>,
           \A w \in Watchers : ~Asks(Head(tracker.queue), w),
           NEW topic \in PresenceTopics, NEW es \in Seq(PresenceEntries), NEW u \in Diffs, OwnKeys(es),
           ToSet(es) = ApplyDiff(ToSet(tracker.state[topic]), u), Changed(topic, es, u)
    PROVE  PresenceInv'
<1>1. /\ watcher \in [Watchers -> Watchings] /\ tracker.queue \in Seq(Commands)
      /\ Tail(tracker.queue) \in Seq(Commands)
      /\ tracker \in [alive : BOOLEAN, queue : Seq(Commands),
                      state : [PresenceTopics -> Seq(PresenceEntries)],
                      subscribers : [PresenceTopics -> Seq(Watchers)]]
  BY DEF PresenceInv, PresenceType, Watchings
<1>2. PICK kept \in Seq(Watchers) :
        /\ kept = Notified(tracker.subscribers[topic])
        /\ \A w : Contains(kept, w) => Contains(tracker.subscribers[topic], w)
        /\ \A w : Contains(tracker.subscribers[topic], w) /\ watcher[w].pc # "gone" => Contains(kept, w)
  BY <1>1, NotifiedIs
<1>3. tracker' = [tracker EXCEPT !.queue = Tail(@), !.state[topic] = es, !.subscribers[topic] = kept]
  BY <1>2 DEF Changed
<1>4. /\ tracker'.alive = tracker.alive /\ tracker'.queue = Tail(tracker.queue)
      /\ tracker'.state = [tracker.state EXCEPT ![topic] = es]
      /\ tracker'.subscribers = [tracker.subscribers EXCEPT ![topic] = kept]
      /\ tracker' \in [alive : BOOLEAN, queue : Seq(Commands),
                       state : [PresenceTopics -> Seq(PresenceEntries)],
                       subscribers : [PresenceTopics -> Seq(Watchers)]]
  BY <1>1, <1>3
<1>5. watcher' = [w \in Watchers |-> IF Contains(kept, w) THEN [watcher[w] EXCEPT !.inbox = Append(@, u)]
                                    ELSE watcher[w]]
  BY <1>2 DEF Changed
<1>6. ASSUME NEW w \in Watchers
      PROVE  /\ watcher'[w] \in Watchings /\ watcher'[w].topic = watcher[w].topic
             /\ watcher'[w].pc = watcher[w].pc /\ watcher'[w].view = watcher[w].view
             /\ watcher'[w].inbox = IF Contains(kept, w) THEN Append(watcher[w].inbox, u)
                                    ELSE watcher[w].inbox
  <2>1. watcher[w] \in Watchings /\ Append(watcher[w].inbox, u) \in Seq(Diffs)
    BY <1>1 DEF Watchings
  <2>2. CASE Contains(kept, w)
    <3>1. watcher'[w] = [watcher[w] EXCEPT !.inbox = Append(@, u)]
      BY <1>5, <2>2
    <3> QED BY <2>1, <2>2, <3>1 DEF Watchings
  <2>3. CASE ~Contains(kept, w)
    <3>1. watcher'[w] = watcher[w]
      BY <1>5, <2>3
    <3> QED BY <2>1, <2>3, <3>1
  <2> QED BY <2>2, <2>3
<1>7. PresenceType'
  <2>1. watcher' \in [Watchers -> Watchings]
    BY <1>5, <1>6
  <2> QED BY <1>4, <2>1 DEF PresenceType, Watchings
<1>8. ASSUME NEW w \in Watchers PROVE Waits(tracker'.queue, w, watcher'[w])
  <2>1. PICK me : me = watcher'[w]
    OBVIOUS
  <2>2. Waits(tracker.queue, w, watcher[w])
    BY DEF PresenceInv
  <2>3. Waits(Tail(tracker.queue), w, me)
    BY <1>1, <1>6, <2>1, <2>2, WaitsTail
  <2> QED BY <1>4, <2>1, <2>3
<1>9. \A t \in PresenceTopics : OwnKeys(tracker'.state[t])
  BY <1>1, <1>4 DEF PresenceInv
<1>10. ASSUME NEW w \in Watchers
       PROVE  Known(watcher'[w], w, tracker'.subscribers, ToSet(tracker'.state[watcher'[w].topic]))
  <2>1. PICK old \in Watchings, me \in Watchings : old = watcher[w] /\ me = watcher'[w]
    BY <1>1, <1>6
  <2>2. PICK subs, subs2 : subs = tracker.subscribers /\ subs2 = tracker'.subscribers
    OBVIOUS
  <2>3. /\ old.topic \in PresenceTopics
        /\ subs2[topic] = kept /\ \A t \in PresenceTopics : t # topic => subs2[t] = subs[t]
    BY <1>1, <1>4, <2>1, <2>2 DEF Watchings
  <2>4. Known(old, w, subs, ToSet(tracker.state[old.topic]))
    BY <2>1, <2>2 DEF PresenceInv, Watched
  <2>5. /\ \A t \in PresenceTopics : Contains(subs2[t], w) => Contains(subs[t], w)
        /\ old.pc # "gone" /\ Contains(subs[old.topic], w) => Contains(subs2[old.topic], w)
    BY <1>2, <2>1, <2>2, <2>3
  <2>6. /\ me.topic = old.topic /\ me.pc = old.pc /\ me.view = old.view
        /\ me.inbox = IF Contains(kept, w) THEN Append(old.inbox, u) ELSE old.inbox
    BY <1>6, <2>1
  <2>7. CASE old.topic = topic
    <3>1. tracker'.state[topic] = es
      BY <1>1, <1>4
    <3>2. PICK before \in EntrySets : before = ToSet(tracker.state[topic])
      BY <1>1, EntriesOf
    <3>3. Known(me, w, subs2, ApplyDiff(before, u))
      BY <2>3, <2>4, <2>5, <2>6, <2>7, <3>2, KnownChange
    <3> QED BY <2>1, <2>2, <2>6, <2>7, <3>1, <3>2, <3>3
  <2>8. CASE old.topic # topic
    <3>1. ~Contains(kept, w)
      BY <1>2, <2>2, <2>4, <2>8 DEF Known
    <3>2. me.inbox = old.inbox /\ tracker'.state[old.topic] = tracker.state[old.topic]
      BY <1>1, <1>4, <2>3, <2>6, <2>8, <3>1
    <3>3. \A t \in PresenceTopics : Contains(subs2[t], w) => Contains(subs[t], w)
      BY <2>5
    <3>4. Contains(subs[old.topic], w) => Contains(subs2[old.topic], w)
      BY <2>3, <2>8
    <3>5. Known(me, w, subs2, ToSet(tracker.state[old.topic]))
      BY <2>3, <2>4, <2>6, <3>2, <3>3, <3>4, ZenonT(30) DEF Known
    <3> QED BY <2>1, <2>2, <2>6, <3>2, <3>5
  <2> QED BY <2>7, <2>8
<1>11. ~tracker'.alive => tracker'.queue = <<>>
  BY <1>4
<1> QED BY <1>7, <1>8, <1>9, <1>10, <1>11 DEF PresenceInv, Watched

(* handle Track.                                                            *)
LEMMA HandleTrackKeeps ==
    ASSUME PresenceInv, HandleTrack
    PROVE  PresenceInv'
<1>1. /\ Handling("track")
      /\ Changed(Head(tracker.queue).topic,
                 Upsert(tracker.state[Head(tracker.queue).topic], Head(tracker.queue).entry),
                 [joins |-> {Head(tracker.queue).entry}, leaves |-> {}])
  BY DEF HandleTrack
<1>2. PICK cmd : cmd = Head(tracker.queue)
  OBVIOUS
<1>3. cmd \in Commands /\ cmd.kind = "track" /\ tracker.alive /\ tracker.queue # <<>>
  BY <1>1, <1>2, HeadIs
<1>4. cmd.topic \in PresenceTopics /\ cmd.entry \in PresenceEntries
  BY <1>3 DEF Commands
<1>5. /\ tracker.state[cmd.topic] \in Seq(PresenceEntries) /\ OwnKeys(tracker.state[cmd.topic])
  BY <1>4 DEF PresenceInv, PresenceType
<1>6. PICK e \in PresenceEntries, s \in Seq(PresenceEntries), topic \in PresenceTopics :
        e = cmd.entry /\ s = tracker.state[cmd.topic] /\ topic = cmd.topic
  BY <1>4, <1>5
<1>7. /\ Upsert(s, e) \in Seq(PresenceEntries) /\ OwnKeys(Upsert(s, e))
      /\ ToSet(Upsert(s, e)) = ApplyDiff(ToSet(s), [joins |-> {e}, leaves |-> {}])
  BY <1>5, <1>6, UpsertIs
<1>8. PICK es \in Seq(PresenceEntries), u \in Diffs :
        es = Upsert(s, e) /\ u = [joins |-> {e}, leaves |-> {}]
  BY <1>7 DEF Diffs, EntrySets
<1>9. \A w \in Watchers : ~Asks(Head(tracker.queue), w)
  BY <1>2, <1>3 DEF Asks
<1>10. Changed(topic, es, u)
  BY <1>1, <1>2, <1>6, <1>8
<1>11. OwnKeys(es) /\ ToSet(es) = ApplyDiff(ToSet(tracker.state[topic]), u)
  BY <1>6, <1>7, <1>8
<1> QED BY <1>3, <1>9, <1>10, <1>11, ChangedKeeps

(* A command that changes nothing the watchers see.                         *)
LEMMA TakenKeeps ==
    ASSUME PresenceInv, tracker.alive, tracker.queue # <<>>,
           \A w \in Watchers : ~Asks(Head(tracker.queue), w),
           tracker' = [tracker EXCEPT !.queue = Tail(@)], watcher' = watcher
    PROVE  PresenceInv'
<1>1. /\ tracker.queue \in Seq(Commands) /\ Tail(tracker.queue) \in Seq(Commands) /\ PresenceType
      /\ tracker \in [alive : BOOLEAN, queue : Seq(Commands),
                      state : [PresenceTopics -> Seq(PresenceEntries)],
                      subscribers : [PresenceTopics -> Seq(Watchers)]]
  BY DEF PresenceInv, PresenceType
<1>2. /\ tracker'.alive = tracker.alive /\ tracker'.queue = Tail(tracker.queue)
      /\ tracker'.state = tracker.state /\ tracker'.subscribers = tracker.subscribers
      /\ PresenceType'
  BY <1>1 DEF PresenceType
<1>3. ASSUME NEW w \in Watchers PROVE Waits(tracker'.queue, w, watcher'[w])
  <2>1. Waits(tracker.queue, w, watcher[w])
    BY DEF PresenceInv
  <2>2. Waits(Tail(tracker.queue), w, watcher[w])
    BY <1>1, <2>1, WaitsTail
  <2> QED BY <1>2, <2>2
<1> QED BY <1>2, <1>3 DEF PresenceInv, Watched

(* handle Untrack.                                                          *)
LEMMA HandleUntrackKeeps ==
    ASSUME PresenceInv, HandleUntrack
    PROVE  PresenceInv'
<1>1. PICK cmd : cmd = Head(tracker.queue)
  OBVIOUS
<1>2. /\ cmd \in Commands /\ cmd.kind = "untrack" /\ tracker.alive /\ tracker.queue # <<>>
      /\ \A w \in Watchers : ~Asks(Head(tracker.queue), w)
  BY <1>1, HeadIs, SMTT(30) DEF HandleUntrack, Asks
<1>3. cmd.topic \in PresenceTopics
  BY <1>2 DEF Commands
<1>4. tracker.state[cmd.topic] \in Seq(PresenceEntries) /\ OwnKeys(tracker.state[cmd.topic])
  BY <1>3 DEF PresenceInv, PresenceType
<1>5. PICK s \in Seq(PresenceEntries), topic \in PresenceTopics : s = tracker.state[cmd.topic] /\ topic = cmd.topic
  BY <1>3, <1>4
<1> DEFINE places == {k \in 1..Len(s) : s[k].key = cmd.key}
<1>6. PICK i : i = IF places # {} THEN Min(places) ELSE 0
  OBVIOUS
<1>8. IF i = 0
      THEN tracker' = [tracker EXCEPT !.queue = Tail(@)] /\ UNCHANGED <<watcher, commands>>
      ELSE Changed(topic, RemoveAt(s, i), [joins |-> {}, leaves |-> {s[i]}])
  BY <1>1, <1>5, <1>6 DEF HandleUntrack, SelectInSeq
<1>9. CASE places = {}
  BY <1>2, <1>6, <1>8, <1>9, TakenKeeps
<1>10. CASE places # {}
  <2>1. i \in 1..Len(s) /\ i # 0
    <3>1. places \subseteq Nat /\ places \subseteq 1..Len(s)
      OBVIOUS
    <3>2. Min(places) \in places
      <4> HIDE DEF places
      <4> QED BY <1>10, <3>1, MinOf
    <3> QED BY <1>6, <1>10, <3>1, <3>2
  <2>2. /\ RemoveAt(s, i) \in Seq(PresenceEntries) /\ OwnKeys(RemoveAt(s, i))
        /\ ToSet(RemoveAt(s, i)) = ApplyDiff(ToSet(s), [joins |-> {}, leaves |-> {s[i]}])
    BY <1>4, <1>5, <2>1, RemovedIs
  <2>3. s[i] \in PresenceEntries
    BY <2>1
  <2>4. PICK es \in Seq(PresenceEntries), u \in Diffs :
          es = RemoveAt(s, i) /\ u = [joins |-> {}, leaves |-> {s[i]}]
    BY <2>2, <2>3 DEF Diffs, EntrySets
  <2>5. Changed(topic, es, u)
    BY <1>8, <2>1, <2>4
  <2>6. OwnKeys(es) /\ ToSet(es) = ApplyDiff(ToSet(tracker.state[topic]), u)
    BY <1>5, <2>2, <2>4
  <2> QED BY <1>2, <2>5, <2>6, ChangedKeeps
<1> QED BY <1>9, <1>10

(* handle List: the reply is the state of the topic.                        *)
LEMMA HandleListKeeps ==
    ASSUME PresenceInv, HandleList
    PROVE  PresenceInv'
<1>1. PICK cmd : cmd = Head(tracker.queue)
  OBVIOUS
<1>2. cmd \in Commands /\ cmd.kind = "list" /\ tracker.alive /\ tracker.queue # <<>>
  BY <1>1, HeadIs DEF HandleList
<1>3. PICK w \in Watchers : w = cmd.from /\ Asks(cmd, w)
  BY <1>2 DEF Commands, Asks
<1>4. /\ watcher \in [Watchers -> Watchings] /\ watcher[w] \in Watchings
      /\ tracker.queue \in Seq(Commands) /\ Tail(tracker.queue) \in Seq(Commands)
      /\ tracker \in [alive : BOOLEAN, queue : Seq(Commands),
                      state : [PresenceTopics -> Seq(PresenceEntries)],
                      subscribers : [PresenceTopics -> Seq(Watchers)]]
  BY <1>2 DEF PresenceInv, PresenceType, Watchings
<1>5. watcher[w].topic = cmd.topic /\ watcher[w].pc = "listing" /\ cmd.topic \in PresenceTopics
  <2>1. Waits(tracker.queue, w, watcher[w])
    BY DEF PresenceInv
  <2>2. Len(tracker.queue) \in Nat /\ Len(tracker.queue) > 0 /\ cmd = tracker.queue[1]
    BY <1>1, <1>2, <1>4
  <2>3. cmd.topic \in PresenceTopics
    BY <1>2 DEF Commands
  <2> QED BY <1>2, <1>3, <2>1, <2>2, <2>3 DEF Waits
<1>6. PICK es \in EntrySets : es = ToSet(tracker.state[cmd.topic])
  BY <1>4, <1>5, EntriesOf
<1>7. PICK me : me = [watcher[w] EXCEPT !.pc = "watching", !.view = es]
  OBVIOUS
<1>8. /\ me \in Watchings /\ me.topic = watcher[w].topic /\ me.pc = "watching" /\ me.view = es
      /\ me.inbox = watcher[w].inbox
  BY <1>4, <1>7 DEF Watchings, WatcherPcs
<1>9. watcher' = [watcher EXCEPT ![w] = me]
  BY <1>1, <1>3, <1>4, <1>6, <1>7 DEF HandleList
<1>10. tracker' = [tracker EXCEPT !.queue = Tail(@)]
  BY DEF HandleList
<1>11. /\ tracker'.alive = tracker.alive /\ tracker'.queue = Tail(tracker.queue)
       /\ tracker'.state = tracker.state /\ tracker'.subscribers = tracker.subscribers
       /\ tracker' \in [alive : BOOLEAN, queue : Seq(Commands),
                        state : [PresenceTopics -> Seq(PresenceEntries)],
                        subscribers : [PresenceTopics -> Seq(Watchers)]]
  BY <1>4, <1>10
<1>12. ASSUME NEW x \in Watchers PROVE Waits(tracker'.queue, x, watcher'[x])
  <2>1. PICK new : new = watcher'[x]
    OBVIOUS
  <2>2. Waits(tracker.queue, x, watcher[x])
    BY DEF PresenceInv
  <2>3. Asks(Head(tracker.queue), x) \/ (new.topic = watcher[x].topic /\ new.pc = watcher[x].pc)
    BY <1>1, <1>3, <1>4, <1>9, <2>1
  <2>4. Waits(Tail(tracker.queue), x, new)
    BY <1>2, <1>4, <2>2, <2>3, WaitsTail
  <2> QED BY <1>11, <2>1, <2>4
<1>13. Known(me, w, tracker.subscribers, ToSet(tracker.state[watcher[w].topic]))
  <2>1. Known(watcher[w], w, tracker.subscribers, es)
    BY <1>2, <1>5, <1>6 DEF PresenceInv, Watched
  <2>2. Known(me, w, tracker.subscribers, es)
    BY <1>4, <1>5, <1>8, <2>1, KnownListed
  <2> QED BY <1>5, <1>6, <2>2
<1> QED BY <1>2, <1>8, <1>9, <1>11, <1>12, <1>13, WatcherKeeps

(* handle SubscribeDiff.                                                    *)
LEMMA HandleSubscribeDiffKeeps ==
    ASSUME PresenceInv, HandleSubscribeDiff
    PROVE  PresenceInv'
<1>1. PICK cmd : cmd = Head(tracker.queue)
  OBVIOUS
<1>2. cmd \in Commands /\ cmd.kind = "subscribe" /\ tracker.alive /\ tracker.queue # <<>>
  BY <1>1, HeadIs DEF HandleSubscribeDiff
<1>3. PICK w \in Watchers : w = cmd.from /\ Asks(cmd, w)
  BY <1>2 DEF Commands, Asks
<1>4. /\ watcher \in [Watchers -> Watchings] /\ watcher[w] \in Watchings
      /\ tracker.queue \in Seq(Commands) /\ Tail(tracker.queue) \in Seq(Commands)
      /\ tracker \in [alive : BOOLEAN, queue : Seq(Commands),
                      state : [PresenceTopics -> Seq(PresenceEntries)],
                      subscribers : [PresenceTopics -> Seq(Watchers)]]
  BY <1>2 DEF PresenceInv, PresenceType, Watchings
<1>5. watcher[w].topic = cmd.topic /\ watcher[w].pc = "subscribing" /\ cmd.topic \in PresenceTopics
  <2>1. Waits(tracker.queue, w, watcher[w])
    BY DEF PresenceInv
  <2>2. Len(tracker.queue) \in Nat /\ Len(tracker.queue) > 0 /\ cmd = tracker.queue[1]
    BY <1>1, <1>2, <1>4
  <2>3. cmd.topic \in PresenceTopics
    BY <1>2 DEF Commands
  <2> QED BY <1>2, <1>3, <2>1, <2>2, <2>3 DEF Waits
<1>6. PICK topic \in PresenceTopics : topic = cmd.topic
  BY <1>5
<1>7. PICK me : me = [watcher[w] EXCEPT !.pc = "subscribed"]
  OBVIOUS
<1>8. /\ me \in Watchings /\ me.topic = watcher[w].topic /\ me.pc = "subscribed"
      /\ me.inbox = watcher[w].inbox
  BY <1>4, <1>7 DEF Watchings, WatcherPcs
<1>9. watcher' = [watcher EXCEPT ![w] = me]
  BY <1>1, <1>3, <1>4, <1>7 DEF HandleSubscribeDiff
<1>10. PICK list \in Seq(Watchers) : list = Append(tracker.subscribers[topic], w)
  <2>1. tracker.subscribers[topic] \in Seq(Watchers)
    BY <1>4
  <2>2. Append(tracker.subscribers[topic], w) \in Seq(Watchers)
    BY <2>1
  <2> QED BY <2>2
<1>11. tracker' = [tracker EXCEPT !.queue = Tail(@), !.subscribers[topic] = list]
  BY <1>1, <1>3, <1>6, <1>10 DEF HandleSubscribeDiff
<1>12. /\ tracker'.alive = tracker.alive /\ tracker'.queue = Tail(tracker.queue)
       /\ tracker'.state = tracker.state
       /\ tracker'.subscribers = [tracker.subscribers EXCEPT ![topic] = list]
       /\ tracker' \in [alive : BOOLEAN, queue : Seq(Commands),
                        state : [PresenceTopics -> Seq(PresenceEntries)],
                        subscribers : [PresenceTopics -> Seq(Watchers)]]
  BY <1>4, <1>11
<1>13. \A x : Contains(list, x) <=> x = w \/ Contains(tracker.subscribers[topic], x)
  <2>1. PICK before \in Seq(Watchers) : before = tracker.subscribers[topic]
    BY <1>4
  <2>2. /\ Len(list) = Len(before) + 1 /\ list[Len(before) + 1] = w /\ Len(before) \in Nat
        /\ \A i \in 1..Len(before) : list[i] = before[i]
    BY <1>10, <2>1
  <2>3. /\ \A i \in 1..Len(list) : i \in 1..Len(before) \/ i = Len(before) + 1
        /\ Len(before) + 1 \in 1..Len(list) /\ \A i \in 1..Len(before) : i \in 1..Len(list)
    BY <2>2
  <2> QED BY <2>1, <2>2, <2>3 DEF Contains
<1>14. /\ watcher'[w] = me /\ \A x \in Watchers : x # w => watcher'[x] = watcher[x]
       /\ watcher' \in [Watchers -> Watchings]
  BY <1>4, <1>8, <1>9
<1>15. ASSUME NEW x \in Watchers PROVE Waits(tracker'.queue, x, watcher'[x])
  <2>1. PICK new : new = watcher'[x]
    OBVIOUS
  <2>2. Waits(tracker.queue, x, watcher[x])
    BY DEF PresenceInv
  <2>3. Asks(Head(tracker.queue), x) \/ (new.topic = watcher[x].topic /\ new.pc = watcher[x].pc)
    BY <1>1, <1>3, <1>14, <2>1
  <2>4. Waits(Tail(tracker.queue), x, new)
    BY <1>2, <1>4, <2>2, <2>3, WaitsTail
  <2> QED BY <1>12, <2>1, <2>4
<1>16. ASSUME NEW x \in Watchers
       PROVE  Known(watcher'[x], x, tracker'.subscribers, ToSet(tracker'.state[watcher'[x].topic]))
  <2>1. PICK subs, subs2 : subs = tracker.subscribers /\ subs2 = tracker'.subscribers
    OBVIOUS
  <2>2. \A t \in PresenceTopics :
           Contains(subs2[t], x) <=> (x = w /\ t = topic) \/ Contains(subs[t], x)
    <3> SUFFICES ASSUME NEW t \in PresenceTopics
                 PROVE  Contains(subs2[t], x) <=> (x = w /\ t = topic) \/ Contains(subs[t], x)
      OBVIOUS
    <3>1. subs2[t] = IF t = topic THEN list ELSE subs[t]
      BY <1>4, <1>12, <2>1
    <3> QED BY <1>13, <2>1, <3>1
  <2>0. PICK old \in Watchings : old = watcher[x]
    BY <1>4
  <2>3. PICK es : old = watcher[x] /\ es = ToSet(tracker.state[old.topic])
    BY <2>0
  <2>4. Known(old, x, subs, es) /\ old.topic \in PresenceTopics
    BY <1>2, <2>1, <2>3 DEF PresenceInv, Watched, Watchings
  <2>5. CASE x = w
    <3>1. \A t \in PresenceTopics : Contains(subs2[t], x) <=> t = old.topic \/ Contains(subs[t], x)
      BY <1>5, <1>6, <2>2, <2>3, <2>5
    <3>2. Known(me, x, subs2, es)
      BY <1>5, <1>8, <2>3, <2>4, <2>5, <3>1, KnownSubscribes
    <3> QED BY <1>8, <1>12, <1>14, <2>1, <2>3, <2>5, <3>2
  <2>6. CASE x # w
    <3>1. Known(old, x, subs2, es)
      BY <2>2, <2>4, <2>6, KnownStays
    <3> QED BY <1>12, <1>14, <2>1, <2>3, <2>6, <3>1
  <2> QED BY <2>5, <2>6
<1>17. PresenceType'
  BY <1>12, <1>14 DEF PresenceType, Watchings
<1>18. \A t \in PresenceTopics : OwnKeys(tracker'.state[t])
  BY <1>12 DEF PresenceInv
<1>19. ~tracker'.alive => tracker'.queue = <<>>
  BY <1>2, <1>12
<1> QED BY <1>15, <1>16, <1>17, <1>18, <1>19 DEF PresenceInv, Watched

(* The loop breaks: nothing of the queue is answered any more.              *)
LEMMA HandleStopKeeps ==
    ASSUME PresenceInv, HandleStop
    PROVE  PresenceInv'
<1>1. tracker' = [tracker EXCEPT !.alive = FALSE, !.queue = <<>>] /\ watcher' = watcher
  BY DEF HandleStop
<1>2. /\ ~tracker'.alive /\ tracker'.queue = <<>> /\ tracker'.state = tracker.state
      /\ PresenceType'
  <2>1. <<>> \in Seq(Commands) /\ PresenceType
    BY DEF PresenceInv
  <2> QED BY <1>1, <2>1 DEF PresenceType
<1>3. \A w \in Watchers : Waits(tracker'.queue, w, watcher'[w])
  BY <1>2 DEF Waits
<1> QED BY <1>2, <1>3 DEF PresenceInv

(* Every step of the tracker and of its watchers keeps the invariant.       *)
LEMMA PresenceStep ==
    ASSUME PresenceInv, [PresenceNext]_presenceVars
    PROVE  PresenceInv'
<1>1. CASE Track
  <2>1. PICK t \in PresenceTopics, k \in Keys, m \in Metas :
          Cast([kind |-> "track", topic |-> t, entry |-> [key |-> k, meta |-> m]])
    BY <1>1 DEF Track
  <2>2. PICK cmd \in Commands : cmd.kind = "track" /\ Cast(cmd)
    <3>1. [kind |-> "track", topic |-> t, entry |-> [key |-> k, meta |-> m]] \in Commands
      BY DEF Commands, PresenceEntries
    <3> QED BY <2>1, <3>1
  <2> QED BY <2>2, CastKeeps
<1>2. CASE Untrack
  <2>1. PICK t \in PresenceTopics, k \in Keys : Cast([kind |-> "untrack", topic |-> t, key |-> k])
    BY <1>2 DEF Untrack
  <2>2. PICK cmd \in Commands : cmd.kind = "untrack" /\ Cast(cmd)
    <3>1. [kind |-> "untrack", topic |-> t, key |-> k] \in Commands
      BY DEF Commands
    <3> QED BY <2>1, <3>1
  <2> QED BY <2>2, CastKeeps
<1>3. CASE StopTracker
  <2>1. PICK cmd \in Commands : cmd.kind = "shutdown" /\ Cast(cmd)
    <3>1. [kind |-> "shutdown"] \in Commands
      BY DEF Commands
    <3> QED BY <1>3, <3>1 DEF StopTracker
  <2> QED BY <2>1, CastKeeps
<1>4. ASSUME NEW w \in Watchers, SubscribeDiff(w) PROVE PresenceInv'
  BY <1>4, AskKeeps DEF SubscribeDiff
<1>5. ASSUME NEW w \in Watchers, List(w) PROVE PresenceInv'
  BY <1>5, AskKeeps DEF List
<1>6. ASSUME NEW w \in Watchers, Unanswered(w) PROVE PresenceInv'
  BY <1>6, UnansweredKeeps
<1>7. ASSUME NEW w \in Watchers, WatcherReceives(w) PROVE PresenceInv'
  BY <1>7, ReceivesKeeps
<1>8. ASSUME NEW w \in Watchers, WatcherLeaves(w) PROVE PresenceInv'
  BY <1>8, LeavesKeeps
<1>9. CASE HandleTrack
  BY <1>9, HandleTrackKeeps
<1>10. CASE HandleUntrack
  BY <1>10, HandleUntrackKeeps
<1>11. CASE HandleList
  BY <1>11, HandleListKeeps
<1>12. CASE HandleSubscribeDiff
  BY <1>12, HandleSubscribeDiffKeeps
<1>13. CASE HandleStop
  BY <1>13, HandleStopKeeps
<1>14. CASE UNCHANGED presenceVars
  <2>1. tracker' = tracker /\ watcher' = watcher
    BY <1>14 DEF presenceVars
  <2> QED BY <2>1 DEF PresenceInv, PresenceType, Watched
<1> QED BY <1>1, <1>2, <1>3, <1>4, <1>5, <1>6, <1>7, <1>8, <1>9, <1>10, <1>11, <1>12, <1>13, <1>14
    DEF PresenceNext

(* Nobody is tracked and nobody watches at the start.                       *)
LEMMA PresenceStarts ==
    ASSUME PresenceInit
    PROVE  PresenceInv
<1>1. /\ tracker.alive = TRUE /\ tracker.queue = <<>>
      /\ tracker.state = [t \in PresenceTopics |-> <<>>]
      /\ tracker.subscribers = [t \in PresenceTopics |-> <<>>]
      /\ \A w \in Watchers : watcher[w].pc = "out" /\ watcher[w].inbox = <<>>
      /\ PresenceType
  <2>1. <<>> \in Seq(Commands) /\ <<>> \in Seq(PresenceEntries) /\ <<>> \in Seq(Watchers) /\ <<>> \in Seq(Diffs)
    OBVIOUS
  <2>2. [t \in PresenceTopics |-> <<>>] \in [PresenceTopics -> Seq(PresenceEntries)]
    BY <2>1
  <2>3. [t \in PresenceTopics |-> <<>>] \in [PresenceTopics -> Seq(Watchers)]
    BY <2>1
  <2>4. watcher \in [Watchers -> [topic : PresenceTopics, pc : WatcherPcs, inbox : Seq(Diffs),
                                  view : EntrySets]]
    <3>1. ASSUME NEW w \in Watchers
          PROVE  watcher[w] \in [topic : PresenceTopics, pc : WatcherPcs, inbox : Seq(Diffs),
                                 view : EntrySets]
      <4>1. watcher[w] \in [topic : PresenceTopics, pc : {"out"}, inbox : {<<>>}, view : {{}}]
        BY DEF PresenceInit
      <4>2. {} \in EntrySets /\ "out" \in WatcherPcs
        BY DEF EntrySets, WatcherPcs
      <4> QED BY <2>1, <4>1, <4>2
    <3> QED BY <3>1 DEF PresenceInit
  <2>5. tracker = [alive |-> TRUE, queue |-> <<>>, state |-> [t \in PresenceTopics |-> <<>>],
                   subscribers |-> [t \in PresenceTopics |-> <<>>]]
    BY DEF PresenceInit
  <2>6. PresenceType
    BY <2>1, <2>2, <2>3, <2>4, <2>5 DEF PresenceType
  <2>7. \A w \in Watchers : watcher[w].pc = "out" /\ watcher[w].inbox = <<>>
    BY DEF PresenceInit
  <2> QED BY <2>5, <2>6, <2>7
<1>2. \A w \in Watchers : Waits(tracker.queue, w, watcher[w])
  BY <1>1 DEF Waits
<1>3. \A t \in PresenceTopics : OwnKeys(tracker.state[t])
  BY <1>1 DEF OwnKeys
<1>4. ASSUME NEW w \in Watchers PROVE Watched(w)
  <2>1. \A t \in PresenceTopics : ~Contains(tracker.subscribers[t], w)
    BY <1>1 DEF Contains
  <2> QED BY <1>1, <2>1 DEF Watched, Known
<1> QED BY <1>1, <1>2, <1>3, <1>4 DEF PresenceInv

(* The invariant of presence holds in every reachable state.                *)
LEMMA PresenceAlways == PresenceInit /\ [][PresenceNext]_presenceVars => []PresenceInv
BY PresenceStarts, PresenceStep, PTL

(* subscribe_diff and then list: for any topics, keys, metadata, watchers   *)
(* and bounds, what a watcher has listed with the diffs it has been sent    *)
(* applied in order is the tracker's state of its topic, also when changes  *)
(* fell between the two calls and are in the list and among the diffs.      *)
THEOREM WatcherConvergesHolds ==
    PresenceInit /\ [][PresenceNext]_presenceVars => []WatcherConverges
<1>1. PresenceInv => WatcherConverges
  BY DEF PresenceInv, Watched, Known, Fold, WatcherConverges
<1> QED BY <1>1, PresenceAlways, PTL

-----------------------------------------------------------------------------
(* Telemetry: every handler is given every event once, in order.            *)

HandlerPrefixes   == AttachPrefixes \cup {<<"mahalo">>, <<"ice_cream">>}
SpanNames  == EventNames \cup {<<>>}
Names      == EventNames \cup {Append(n, "start") : n \in EventNames} \cup {Append(n, "stop") : n \in SpanNames}
EventLogs  == [name : Names, attached : Seq(HandlerPrefixes), ended : BOOLEAN]
Calling    == [event : Nat, next : Nat, busy : BOOLEAN]
TaskPcs    == {"idle", "executing", "starting", "body", "stopping", "gone"}

TelemetryType ==
    /\ handlers \in Seq(HandlerPrefixes)
    /\ events \in Seq(EventLogs)
    /\ stack \in Seq(Calling)
    /\ deliveries \in Seq(Nat \X Nat)
    /\ task \in [Tasks -> [pc : TaskPcs, name : SpanNames]]
    /\ running \in Tasks

(* The calls under way are of different events, the inner ones later, and   *)
(* have the list of handlers their events began with.                       *)
Nested(calls) ==
    /\ \A k \in 1..Len(calls) :
          /\ calls[k].event \in 1..Len(events)
          /\ events[calls[k].event].attached = handlers
          /\ calls[k].next \in 1..(Len(handlers) + 1)
    /\ \A k, l \in 1..Len(calls) : k < l => calls[k].event < calls[l].event

MatchedBy(log) == {i \in 1..Len(log.attached) : EventMatches(log.name, log.attached[i])}

FirstDue(log, m) == Kept(Upto(m), MatchedBy(log))

GotFrom(log, got, e, calls) ==
    \E m \in 0..Len(log.attached) :
        /\ got = FirstDue(log, m)
        /\ log.ended => m = Len(log.attached)
        /\ \A k \in 1..Len(calls) : calls[k].event = e => m = calls[k].next - 1

TelemetryInv ==
    /\ TelemetryType
    /\ Nested(stack)
    /\ \A k \in 1..Len(deliveries) : deliveries[k][1] \in 1..Len(events)
    /\ \A e \in 1..Len(events) : GotFrom(events[e], Got(e), e, stack)

-----------------------------------------------------------------------------
(* What is kept, and what a delivery adds to it.                            *)

GotOf(ds, e) ==
    LET reached == Kept(ds, {k \in DOMAIN ds : ds[k][1] = e})
    IN  [k \in DOMAIN reached |-> reached[k][2]]

(* An event without a delivery has reached nobody.                          *)
LEMMA GotNone ==
    ASSUME NEW ds \in Seq(Nat \X Nat), NEW e, \A k \in 1..Len(ds) : ds[k][1] # e
    PROVE  GotOf(ds, e) = <<>>
<1>1. PICK places : places = {k \in DOMAIN ds : ds[k][1] = e}
  OBVIOUS
<1>2. PICK kept \in Seq(Nat \X Nat) : kept = Kept(ds, places) /\ Lists(kept, ds, Len(ds), places)
  BY KeptLists
<1>3. places = {}
  BY <1>1
<1>4. Len(kept) = 0
  BY <1>2, <1>3 DEF Lists
<1>5. GotOf(ds, e) = [k \in DOMAIN kept |-> kept[k][2]]
  BY <1>1, <1>2 DEF GotOf
<1> QED BY <1>4, <1>5

(* A delivery to a handler of an event.                                     *)
LEMMA GotAppend ==
    ASSUME NEW ds \in Seq(Nat \X Nat), NEW d \in Nat, NEW i \in Nat, NEW e
    PROVE  /\ GotOf(ds, e) \in Seq(Nat)
           /\ GotOf(Append(ds, <<d, i>>), e) = IF e = d THEN Append(GotOf(ds, e), i) ELSE GotOf(ds, e)
<1>1. PICK x \in Nat \X Nat : x = <<d, i>>
  OBVIOUS
<1> DEFINE D == Nat \X Nat
<1>0. ds \in Seq(D) /\ x \in D
  OBVIOUS
<1> HIDE DEF D
<1>2. PICK r \in Seq(D) : r = Append(ds, x)
  <2>1. Append(ds, x) \in Seq(D)
    BY <1>0
  <2> QED BY <2>1
<1>3. /\ Len(r) = Len(ds) + 1 /\ Len(ds) \in Nat /\ r[Len(ds) + 1] = x
      /\ \A k \in 1..Len(ds) : r[k] = ds[k]
      /\ DOMAIN ds = 1..Len(ds) /\ DOMAIN r = 1..(Len(ds) + 1)
  BY <1>0, <1>2
<1>4. PICK old, new : /\ old = {k \in DOMAIN ds : ds[k][1] = e}
                      /\ new = {k \in DOMAIN r : r[k][1] = e}
  OBVIOUS
<1>5. PICK kept \in Seq(D) : kept = Kept(ds, old)
  <2>1. Kept(ds, old) \in Seq(D)
    BY <1>0, KeptLists
  <2> QED BY <2>1
<1>6. Kept(ds, new) = kept
  <2>1. \A k \in 1..Len(ds) : k \in old <=> k \in new
    BY <1>3, <1>4
  <2>2. Kept(ds, old) = Kept(ds, new)
    BY <1>0, <2>1, KeptSame
  <2> QED BY <1>5, <2>2
<1>7. Kept(r, new) = IF Len(ds) + 1 \in new THEN Append(kept, x) ELSE kept
  <2>1. Kept(Append(ds, x), new) = IF Len(ds) + 1 \in new THEN Append(Kept(ds, new), x) ELSE Kept(ds, new)
    BY <1>0, KeptAppend
  <2> QED BY <1>2, <1>6, <2>1
<1>8. Len(ds) + 1 \in new <=> e = d
  BY <1>1, <1>3, <1>4
<1>9. GotOf(ds, e) = [k \in DOMAIN kept |-> kept[k][2]]
  BY <1>4, <1>5 DEF GotOf
<1>10. GotOf(ds, e) \in Seq(Nat)
  <2>1. \A k \in DOMAIN kept : kept[k] \in D
    BY <1>5
  <2>2. \A k \in DOMAIN kept : kept[k][2] \in Nat
    BY <2>1 DEF D
  <2>3. DOMAIN kept = 1..Len(kept) /\ Len(kept) \in Nat
    BY <1>5
  <2> QED BY <1>9, <2>2, <2>3
<1>11. CASE e = d
  <2>1. PICK more \in Seq(D) : more = Append(kept, x)
    <3>1. Append(kept, x) \in Seq(D)
      BY <1>0, <1>5
    <3> QED BY <3>1
  <2>2. GotOf(r, e) = [k \in DOMAIN more |-> more[k][2]]
    BY <1>4, <1>7, <1>8, <1>11, <2>1 DEF GotOf
  <2>3. PICK got \in Seq(Nat), got2 \in Seq(Nat) :
          got = [k \in DOMAIN kept |-> kept[k][2]] /\ got2 = [k \in DOMAIN more |-> more[k][2]]
    <3>1. \A k \in DOMAIN more : more[k] \in D
      BY <2>1
    <3>2. \A k \in DOMAIN more : more[k][2] \in Nat
      BY <3>1 DEF D
    <3>3. DOMAIN more = 1..Len(more) /\ Len(more) \in Nat
      BY <2>1
    <3>4. [k \in DOMAIN more |-> more[k][2]] \in Seq(Nat)
      BY <3>2, <3>3
    <3> QED BY <1>9, <1>10, <3>4
  <2>4. /\ Len(more) = Len(kept) + 1 /\ more[Len(kept) + 1] = x /\ Len(kept) \in Nat
        /\ \A k \in 1..Len(kept) : more[k] = kept[k]
    BY <1>0, <1>5, <2>1
  <2>5. /\ Len(got) = Len(kept) /\ \A k \in 1..Len(kept) : got[k] = kept[k][2]
    BY <2>3
  <2>6. /\ Len(got2) = Len(kept) + 1 /\ \A k \in 1..(Len(kept) + 1) : got2[k] = more[k][2]
    BY <2>3, <2>4
  <2>7. PICK both \in Seq(Nat) : both = Append(got, i)
    <3>1. Append(got, i) \in Seq(Nat)
      BY <2>3
    <3> QED BY <3>1
  <2>8. /\ Len(both) = Len(kept) + 1 /\ both[Len(kept) + 1] = i
        /\ \A k \in 1..Len(kept) : both[k] = got[k]
    BY <2>5, <2>7
  <2>9. \A k \in 1..Len(got2) : got2[k] = both[k]
    <3> TAKE k \in 1..Len(got2)
    <3>1. CASE k \in 1..Len(kept)
      <4>1. k \in 1..(Len(kept) + 1)
        BY <2>4, <3>1
      <4>2. got2[k] = more[k][2] /\ more[k] = kept[k]
        BY <2>4, <2>6, <3>1, <4>1
      <4>3. both[k] = got[k] /\ got[k] = kept[k][2]
        BY <2>5, <2>8, <3>1
      <4> QED BY <4>2, <4>3
    <3>2. CASE k = Len(kept) + 1
      <4>1. k \in 1..(Len(kept) + 1)
        BY <2>4, <3>2
      <4>2. got2[k] = more[k][2] /\ more[k] = <<d, i>>
        BY <1>1, <2>4, <2>6, <3>2, <4>1
      <4>3. both[k] = i
        BY <2>8, <3>2
      <4> QED BY <4>2, <4>3
    <3> QED BY <2>4, <2>6, <3>1, <3>2
  <2>10. got2 = both
    BY <2>6, <2>8, <2>9, SeqEqual
  <2> QED BY <1>1, <1>2, <1>9, <1>10, <1>11, <2>2, <2>3, <2>7, <2>10
<1>12. CASE e # d
  <2>1. GotOf(r, e) = [k \in DOMAIN kept |-> kept[k][2]]
    BY <1>4, <1>7, <1>8, <1>12 DEF GotOf
  <2> QED BY <1>1, <1>2, <1>9, <1>10, <1>12, <2>1
<1> QED BY <1>11, <1>12

(* Of a call with nothing, or with a handler, ahead.                        *)
LEMMA FirstDueStep ==
    ASSUME NEW log, NEW m \in Nat, NEW n \in Nat, m < n, n \in MatchedBy(log),
           \A i \in (m + 1)..(n - 1) : i \notin MatchedBy(log)
    PROVE  FirstDue(log, n) = Append(FirstDue(log, m), n)
<1>1. PICK l \in Nat : n = l + 1 /\ m <= l
  <2>1. n - 1 \in Nat /\ n = (n - 1) + 1 /\ m <= n - 1
    OBVIOUS
  <2> QED BY <2>1
<1>2. PICK places : places = MatchedBy(log)
  OBVIOUS
<1>3. Kept(Upto(l), places) = Kept(Upto(m), places)
  <2>1. \A i \in (m + 1)..l : i \notin places
    BY <1>1, <1>2
  <2> QED BY <1>1, <2>1, KeptUptoSkip
<1>4. Kept(Upto(l + 1), places)
        = IF l + 1 \in places THEN Append(Kept(Upto(l), places), l + 1) ELSE Kept(Upto(l), places)
  BY KeptUptoStep
<1> QED BY <1>1, <1>2, <1>3, <1>4 DEF FirstDue

(* Handlers that do not match are not due.                                  *)
LEMMA FirstDueSkip ==
    ASSUME NEW log, NEW m \in Nat, NEW n \in Nat, m <= n,
           \A i \in (m + 1)..n : i \notin MatchedBy(log)
    PROVE  FirstDue(log, n) = FirstDue(log, m)
<1>1. PICK places : places = MatchedBy(log)
  OBVIOUS
<1>2. Kept(Upto(n), places) = Kept(Upto(m), places)
  BY <1>1, KeptUptoSkip
<1> QED BY <1>1, <1>2 DEF FirstDue

(* Of no handlers none is due.                                              *)
LEMMA FirstDueNone ==
    ASSUME NEW log
    PROVE  FirstDue(log, 0) = <<>>
<1>1. PICK places : places = MatchedBy(log)
  OBVIOUS
<1>2. Upto(0) \in Seq(Nat) /\ Len(Upto(0)) = 0
  BY UptoStep
<1>3. PICK s \in Seq(Nat) : s = Upto(0) /\ Len(s) = 0
  BY <1>2
<1>4. PICK f \in [0..Len(s) -> Seq(Nat)] : KeptBy(f, s, places)
  BY KeptHasSteps
<1> QED BY <1>1, <1>3, <1>4 DEF KeptBy, FirstDue

(* What was delivered of an event, read off the deliveries.                 *)
LEMMA GotIs == \A e : Got(e) = GotOf(deliveries, e)
BY DEF Got, GotOf

(* The same after a step.                                                   *)
LEMMA GotNextIs == \A e : Got(e)' = GotOf(deliveries', e)
BY DEF Got, GotOf

-----------------------------------------------------------------------------
(* The steps.                                                               *)

(* execute, by a task or by a handler: an event nobody has seen.            *)
LEMMA ExecuteKeeps ==
    ASSUME TelemetryInv, NEW name \in Names, Execute(name),
           task' \in [Tasks -> [pc : TaskPcs, name : SpanNames]], running' \in Tasks
    PROVE  TelemetryInv'
<1>1. PICK n \in Nat : n = Len(events)
  <2>1. events \in Seq(EventLogs)
    BY DEF TelemetryInv, TelemetryType
  <2>2. Len(events) \in Nat
    BY <2>1
  <2> QED BY <2>2
<1>2. PICK log \in EventLogs, call \in Calling :
        /\ log = [name |-> name, attached |-> handlers, ended |-> FALSE]
        /\ call = [event |-> n + 1, next |-> 1, busy |-> FALSE]
  <2>1. [name |-> name, attached |-> handlers, ended |-> FALSE] \in EventLogs
    BY DEF TelemetryInv, TelemetryType, EventLogs
  <2>2. [event |-> n + 1, next |-> 1, busy |-> FALSE] \in Calling
    BY DEF Calling
  <2> QED BY <2>1, <2>2
<1>3. /\ events \in Seq(EventLogs) /\ stack \in Seq(Calling) /\ handlers \in Seq(HandlerPrefixes)
      /\ deliveries \in Seq(Nat \X Nat) /\ Len(handlers) \in Nat
  BY DEF TelemetryInv, TelemetryType
<1>4. /\ events' = Append(events, log) /\ stack' = Append(stack, call)
      /\ handlers' = handlers /\ deliveries' = deliveries
  BY <1>1, <1>2 DEF Execute
<1>5. /\ events' \in Seq(EventLogs) /\ Len(events') = n + 1 /\ events'[n + 1] = log
      /\ \A e \in 1..n : events'[e] = events[e]
  BY <1>1, <1>3, <1>4
<1>6. PICK m \in Nat : m = Len(stack)
  BY <1>3
<1>7. /\ stack' \in Seq(Calling) /\ Len(stack') = m + 1 /\ stack'[m + 1] = call
      /\ \A k \in 1..m : stack'[k] = stack[k]
  BY <1>3, <1>4, <1>6
<1>8. \A k \in 1..m : stack[k].event \in 1..n
  BY <1>1, <1>6 DEF TelemetryInv, Nested
<1>9. Nested(stack)'
  <2>1. ASSUME NEW k \in 1..(m + 1)
        PROVE  /\ stack'[k].event \in 1..Len(events')
               /\ events'[stack'[k].event].attached = handlers'
               /\ stack'[k].next \in 1..(Len(handlers') + 1)
    <3>1. CASE k \in 1..m
      BY <1>1, <1>4, <1>5, <1>6, <1>7, <1>8, <3>1 DEF TelemetryInv, Nested
    <3>2. CASE k = m + 1
      BY <1>2, <1>3, <1>4, <1>5, <1>7, <3>2
    <3> QED BY <3>1, <3>2
  <2>2. ASSUME NEW k \in 1..(m + 1), NEW l \in 1..(m + 1), k < l
        PROVE  stack'[k].event < stack'[l].event
    <3>1. k \in 1..m /\ (l \in 1..m \/ l = m + 1)
      BY <2>2
    <3>2. CASE l \in 1..m
      BY <1>6, <1>7, <2>2, <3>1, <3>2 DEF TelemetryInv, Nested
    <3>3. CASE l = m + 1
      BY <1>2, <1>7, <1>8, <3>1, <3>3
    <3> QED BY <3>1, <3>2, <3>3
  <2> QED BY <1>7, <2>1, <2>2 DEF Nested
<1>10. \A k \in 1..Len(deliveries') : deliveries'[k][1] \in 1..Len(events')
  BY <1>1, <1>4, <1>5 DEF TelemetryInv
<1>11. ASSUME NEW e \in 1..Len(events') PROVE GotFrom(events'[e], GotOf(deliveries', e), e, stack')
  <2>1. CASE e \in 1..n
    <3>1. GotFrom(events[e], GotOf(deliveries, e), e, stack)
      BY <1>1, <2>1, GotIs DEF TelemetryInv
    <3>2. call.event # e
      BY <1>2, <2>1
    <3>3. \A k \in 1..Len(stack') : stack'[k].event = e => k \in 1..m /\ stack[k].event = e
      <4> TAKE k \in 1..Len(stack')
      <4>1. CASE k \in 1..m
        BY <1>7, <4>1
      <4>2. CASE k = m + 1
        BY <1>7, <3>2, <4>2
      <4> QED BY <1>7, <4>1, <4>2
    <3>4. GotFrom(events[e], GotOf(deliveries, e), e, stack')
      BY <1>6, <1>7, <3>1, <3>3 DEF GotFrom
    <3> QED BY <1>4, <1>5, <2>1, <3>4
  <2>2. CASE e = n + 1
    <3>1. GotOf(deliveries, e) = <<>>
      <4>1. \A k \in 1..Len(deliveries) : deliveries[k][1] # e
        BY <1>1, <2>2 DEF TelemetryInv
      <4> QED BY <1>3, <4>1, GotNone
    <3>2. FirstDue(log, 0) = <<>>
      BY FirstDueNone
    <3>3. \A k \in 1..Len(stack') : stack'[k].event = e => 0 = stack'[k].next - 1
      <4> TAKE k \in 1..Len(stack')
      <4>1. CASE k \in 1..m
        BY <1>7, <1>8, <2>2, <4>1
      <4>2. CASE k = m + 1
        BY <1>2, <1>7, <4>2
      <4> QED BY <1>7, <4>1, <4>2
    <3>4. 0 \in 0..Len(log.attached) /\ ~log.ended
      BY <1>2, <1>3
    <3>5. GotFrom(log, <<>>, e, stack')
      BY <3>2, <3>3, <3>4 DEF GotFrom
    <3> QED BY <1>4, <1>5, <2>2, <3>1, <3>5
  <2> QED BY <1>5, <2>1, <2>2
<1> QED BY <1>3, <1>4, <1>5, <1>7, <1>9, <1>10, <1>11, GotNextIs DEF TelemetryInv, TelemetryType

(* The calls go on, or end: the deliveries and the events stay.             *)
LEMMA QuietKeeps ==
    ASSUME TelemetryInv, handlers' = handlers \/ (stack = <<>> /\ handlers' \in Seq(HandlerPrefixes)),
           events' = events, deliveries' = deliveries, stack' = stack \/ stack' = <<>>,
           task' \in [Tasks -> [pc : TaskPcs, name : SpanNames]], running' \in Tasks
    PROVE  TelemetryInv'
<1>1. <<>> \in Seq(Calling) /\ Len(<<>>) = 0
  OBVIOUS
<1>2. TelemetryType'
  BY <1>1 DEF TelemetryInv, TelemetryType
<1>3. CASE stack' = <<>>
  <2>1. Nested(stack)'
    BY <1>1, <1>3 DEF Nested
  <2>2. ASSUME NEW e \in 1..Len(events') PROVE GotFrom(events'[e], GotOf(deliveries', e), e, stack')
    BY <1>1, <1>3, GotIs DEF TelemetryInv, GotFrom
  <2> QED BY <1>2, <2>1, <2>2, GotNextIs DEF TelemetryInv
<1>4. CASE stack' = stack /\ handlers' = handlers
  <2>1. Nested(stack)'
    BY <1>4 DEF TelemetryInv, Nested
  <2>2. ASSUME NEW e \in 1..Len(events') PROVE GotFrom(events'[e], GotOf(deliveries', e), e, stack')
    BY <1>4, GotIs DEF TelemetryInv
  <2> QED BY <1>2, <2>1, <2>2, GotNextIs DEF TelemetryInv
<1> QED BY <1>3, <1>4

(* The call of the top of the stack.                                        *)
LEMMA TopIs ==
    ASSUME TelemetryInv, stack # <<>>
    PROVE  /\ stack \in Seq(Calling) /\ Len(stack) \in 1..Len(stack) /\ Top = stack[Len(stack)]
           /\ Top \in Calling /\ Top.event \in 1..Len(events) /\ events[Top.event] \in EventLogs
           /\ events[Top.event].attached = handlers /\ Top.next \in 1..(Len(handlers) + 1)
           /\ handlers \in Seq(HandlerPrefixes)
           /\ Matching(Top.next) = {i \in MatchedBy(events[Top.event]) : Top.next <= i}
           /\ GotFrom(events[Top.event], GotOf(deliveries, Top.event), Top.event, stack)
<1>1. /\ stack \in Seq(Calling) /\ Len(stack) \in 1..Len(stack) /\ Top = stack[Len(stack)]
      /\ handlers \in Seq(HandlerPrefixes) /\ events \in Seq(EventLogs)
  BY DEF TelemetryInv, TelemetryType, Top, Last
<1>2. /\ Top \in Calling /\ Top.event \in 1..Len(events) /\ events[Top.event] \in EventLogs
      /\ events[Top.event].attached = handlers /\ Top.next \in 1..(Len(handlers) + 1)
  BY <1>1 DEF TelemetryInv, Nested
<1>3. Matching(Top.next) = {i \in MatchedBy(events[Top.event]) : Top.next <= i}
  BY <1>1, <1>2 DEF Matching, MatchedBy
<1>4. GotFrom(events[Top.event], GotOf(deliveries, Top.event), Top.event, stack)
  BY <1>2, GotIs DEF TelemetryInv
<1> QED BY <1>1, <1>2, <1>3, <1>4

(* The loop of execute calls the next handler whose prefix matches.         *)
LEMMA CallHandlerKeeps ==
    ASSUME TelemetryInv, CallHandler
    PROVE  TelemetryInv'
<1>1. PICK n, top, log : n = Len(stack) /\ top = Top /\ log = events[Top.event]
  OBVIOUS
<1>2. stack # <<>>
  BY DEF CallHandler
<1>3. /\ stack \in Seq(Calling) /\ n \in 1..n /\ top = stack[n]
      /\ top \in Calling /\ top.event \in 1..Len(events) /\ log \in EventLogs
      /\ log.attached = handlers /\ top.next \in 1..(Len(handlers) + 1)
      /\ handlers \in Seq(HandlerPrefixes)
      /\ Matching(top.next) = {i \in MatchedBy(log) : top.next <= i}
      /\ GotFrom(log, GotOf(deliveries, top.event), top.event, stack)
  BY <1>1, <1>2, TopIs
<1>4. PICK T : T = Matching(top.next)
  OBVIOUS
<1>5. T # {} /\ T \subseteq Nat
  BY <1>1, <1>3, <1>4 DEF CallHandler, MatchedBy
<1>6. PICK i : i = CHOOSE j \in T : \A l \in T : j <= l
  OBVIOUS
<1>7. i \in T /\ \A l \in T : i <= l
  BY <1>5, <1>6, LeastNumber
<1>8. PICK call : call = [top EXCEPT !.next = i + 1, !.busy = TRUE]
  OBVIOUS
<1>9. /\ deliveries' = Append(deliveries, <<top.event, i>>)
      /\ stack' = [stack EXCEPT ![n] = call]
      /\ handlers' = handlers /\ task' = task /\ running' = running /\ events' = events
  BY <1>1, <1>3, <1>4, <1>6, <1>8 DEF CallHandler
<1>10. /\ i \in MatchedBy(log) /\ top.next <= i /\ i \in 1..Len(handlers) /\ i \in Nat
       /\ \A l \in MatchedBy(log) : top.next <= l => i <= l
  BY <1>3, <1>4, <1>7 DEF MatchedBy
<1>11. call \in Calling /\ call.event = top.event /\ call.next = i + 1 /\ Len(handlers) \in Nat
  <2>1. top \in Calling /\ i + 1 \in Nat /\ Len(handlers) \in Nat
    BY <1>3, <1>10
  <2> QED BY <1>8, <2>1 DEF Calling
<1>12. /\ stack' \in Seq(Calling) /\ Len(stack') = n /\ n \in Nat /\ n = Len(stack) /\ stack'[n] = call
       /\ \A k \in 1..n : k # n => stack'[k] = stack[k]
  BY <1>1, <1>3, <1>9, <1>11
<1>13. /\ deliveries \in Seq(Nat \X Nat) /\ deliveries' \in Seq(Nat \X Nat)
       /\ \A k \in 1..Len(deliveries') : deliveries'[k][1] \in 1..Len(events)
  <2>1. deliveries \in Seq(Nat \X Nat) /\ events \in Seq(EventLogs)
    BY DEF TelemetryInv, TelemetryType
  <2> DEFINE D == Nat \X Nat
  <2>2. PICK x \in D : x = <<top.event, i>>
    <3>1. top.event \in Nat /\ i \in Nat
      BY <1>3, <1>10 DEF Calling
    <3>2. <<top.event, i>> \in D
      BY <3>1
    <3> QED BY <3>2
  <2>0. deliveries \in Seq(D)
    BY <2>1
  <2> HIDE DEF D
  <2>3. /\ deliveries' \in Seq(D) /\ Len(deliveries') = Len(deliveries) + 1 /\ Len(deliveries) \in Nat
        /\ deliveries'[Len(deliveries) + 1] = x
        /\ \A k \in 1..Len(deliveries) : deliveries'[k] = deliveries[k]
    BY <1>9, <2>0, <2>2
  <2>4. ASSUME NEW k \in 1..Len(deliveries') PROVE deliveries'[k][1] \in 1..Len(events)
    <3>1. CASE k \in 1..Len(deliveries)
      BY <2>3, <3>1 DEF TelemetryInv
    <3>2. CASE k = Len(deliveries) + 1
      BY <1>3, <2>2, <2>3, <3>2
    <3> QED BY <2>3, <3>1, <3>2
  <2> QED BY <2>1, <2>3, <2>4 DEF D
<1>14. \A k \in 1..n : stack'[k].event = stack[k].event
  BY <1>3, <1>11, <1>12
<1>15. \A k \in 1..n : k # n => stack[k].event < top.event
  BY <1>3, <1>12 DEF TelemetryInv, Nested
<1>16. Nested(stack)'
  <2>1. ASSUME NEW k \in 1..n
        PROVE  /\ stack'[k].event \in 1..Len(events)
               /\ events[stack'[k].event].attached = handlers
               /\ stack'[k].next \in 1..(Len(handlers) + 1)
    <3>1. CASE k = n
      BY <1>1, <1>3, <1>10, <1>11, <1>12, <3>1, SMTT(30)
    <3>2. CASE k # n
      BY <1>12, <3>2 DEF TelemetryInv, Nested
    <3> QED BY <3>1, <3>2
  <2>2. \A k, l \in 1..n : k < l => stack'[k].event < stack'[l].event
    BY <1>12, <1>14 DEF TelemetryInv, Nested
  <2> QED BY <1>9, <1>12, <2>1, <2>2 DEF Nested
<1>17. ASSUME NEW e \in 1..Len(events') PROVE GotFrom(events'[e], GotOf(deliveries', e), e, stack')
  <2>1. i \in Nat /\ top.event \in Nat
    BY <1>3, <1>10 DEF Calling
  <2>2. GotOf(deliveries', e)
          = IF e = top.event THEN Append(GotOf(deliveries, e), i) ELSE GotOf(deliveries, e)
    BY <1>9, <1>13, <2>1, GotAppend
  <2>3. CASE e = top.event
    <3>1. PICK m \in 0..Len(log.attached) :
            /\ GotOf(deliveries, e) = FirstDue(log, m)
            /\ log.ended => m = Len(log.attached)
            /\ \A k \in 1..Len(stack) : stack[k].event = e => m = stack[k].next - 1
      BY <1>3, <2>3 DEF GotFrom
    <3>2. m = top.next - 1 /\ m \in Nat /\ m < i
      BY <1>3, <1>10, <1>12, <2>3, <3>1, SMTT(30) DEF Calling
    <3>3. ~log.ended
      BY <1>3, <1>10, <1>11, <3>1, <3>2
    <3>4. FirstDue(log, i) = Append(FirstDue(log, m), i)
      <4>1. \A j \in (m + 1)..(i - 1) : j \notin MatchedBy(log)
        <5>1. \A j \in (m + 1)..(i - 1) : j \in MatchedBy(log) => top.next <= j /\ ~(i <= j)
          <6>1. top.next \in Nat /\ m + 1 = top.next
            BY <1>3, <3>2 DEF Calling
          <6> QED BY <2>1, <3>2, <6>1
        <5> QED BY <1>10, <5>1
      <4> QED BY <1>10, <3>2, <4>1, FirstDueStep
    <3>5. \A k \in 1..Len(stack') : stack'[k].event = e => i = stack'[k].next - 1
      <4> TAKE k \in 1..Len(stack')
      <4>1. CASE k = n
        <5>1. stack'[k].next = i + 1 /\ i = (i + 1) - 1
          BY <1>11, <1>12, <2>1, <4>1
        <5> QED BY <5>1
      <4>2. CASE k # n
        <5>1. k \in 1..n /\ stack'[k].event = stack[k].event /\ stack[k].event < top.event
          BY <1>12, <1>14, <1>15, <4>2
        <5> QED BY <2>1, <2>3, <5>1
      <4> QED BY <4>1, <4>2
    <3>6. i \in 0..Len(log.attached)
      BY <1>3, <1>10
    <3>7. GotFrom(log, Append(FirstDue(log, m), i), e, stack')
      BY <3>3, <3>4, <3>5, <3>6 DEF GotFrom
    <3> QED BY <1>1, <1>9, <2>2, <2>3, <3>1, <3>7
  <2>4. CASE e # top.event
    <3>1. \A k \in 1..Len(stack') : stack'[k].event = e => k # n
      BY <1>11, <1>12, <2>4
    <3>2. GotFrom(events[e], GotOf(deliveries, e), e, stack)
      BY <1>9, GotIs DEF TelemetryInv
    <3>3. GotFrom(events[e], GotOf(deliveries, e), e, stack')
      BY <1>12, <3>1, <3>2 DEF GotFrom
    <3> QED BY <1>9, <2>2, <2>4, <3>3
  <2> QED BY <2>3, <2>4
<1>18. TelemetryType'
  BY <1>9, <1>12, <1>13 DEF TelemetryInv, TelemetryType
<1> QED BY <1>9, <1>13, <1>16, <1>17, <1>18, GotNextIs DEF TelemetryInv

(* A handler that returns.                                                  *)
LEMMA HandlerReturnsKeeps ==
    ASSUME TelemetryInv, HandlerReturns
    PROVE  TelemetryInv'
<1>1. /\ stack \in Seq(Calling) /\ Len(stack) \in 1..Len(stack) /\ stack # <<>>
      /\ stack[Len(stack)] \in Calling
  BY TopIs DEF HandlerReturns
<1>2. PICK n : n = Len(stack)
  OBVIOUS
<1>3. PICK call : call = [stack[n] EXCEPT !.busy = FALSE]
  OBVIOUS
<1>4. /\ call \in Calling /\ call.event = stack[n].event /\ call.next = stack[n].next
  BY <1>1, <1>2, <1>3 DEF Calling
<1>5. /\ stack' = [stack EXCEPT ![n] = call] /\ handlers' = handlers /\ task' = task
      /\ running' = running /\ events' = events /\ deliveries' = deliveries
  BY <1>1, <1>2, <1>3 DEF HandlerReturns
<1>6. /\ stack' \in Seq(Calling) /\ Len(stack') = Len(stack)
      /\ \A k \in 1..Len(stack) : stack'[k].event = stack[k].event /\ stack'[k].next = stack[k].next
  BY <1>1, <1>2, <1>4, <1>5
<1>7. Nested(stack)'
  BY <1>5, <1>6 DEF TelemetryInv, Nested
<1>8. ASSUME NEW e \in 1..Len(events') PROVE GotFrom(events'[e], GotOf(deliveries', e), e, stack')
  <2>1. GotFrom(events[e], GotOf(deliveries, e), e, stack)
    BY <1>5, GotIs DEF TelemetryInv
  <2> QED BY <1>5, <1>6, <2>1 DEF GotFrom
<1>9. TelemetryType'
  BY <1>5, <1>6 DEF TelemetryInv, TelemetryType
<1> QED BY <1>5, <1>7, <1>8, <1>9, GotNextIs DEF TelemetryInv

(* execute returns: no handler that matches is left.                        *)
LEMMA ExecuteReturnsKeeps ==
    ASSUME TelemetryInv, ExecuteReturns
    PROVE  TelemetryInv'
<1>1. PICK n, top, log : n = Len(stack) /\ top = Top /\ log = events[Top.event]
  OBVIOUS
<1>2. stack # <<>>
  BY DEF ExecuteReturns
<1>3. /\ stack \in Seq(Calling) /\ n \in 1..n /\ n \in Nat /\ top = stack[n]
      /\ top \in Calling /\ top.event \in 1..Len(events) /\ log \in EventLogs
      /\ log.attached = handlers /\ top.next \in 1..(Len(handlers) + 1)
      /\ handlers \in Seq(HandlerPrefixes)
      /\ Matching(top.next) = {i \in MatchedBy(log) : top.next <= i}
      /\ GotFrom(log, GotOf(deliveries, top.event), top.event, stack)
  BY <1>1, <1>2, TopIs
<1>4. PICK log2 : log2 = [log EXCEPT !.ended = TRUE]
  OBVIOUS
<1>5. /\ log2 \in EventLogs /\ log2.name = log.name /\ log2.attached = log.attached /\ log2.ended
  BY <1>3, <1>4 DEF EventLogs
<1>6. /\ events' = [events EXCEPT ![top.event] = log2] /\ Matching(top.next) = {}
      /\ stack' = Front(stack) /\ handlers' = handlers /\ running' = running /\ deliveries' = deliveries
  BY <1>1, <1>4 DEF ExecuteReturns
<1>7. /\ events \in Seq(EventLogs) /\ events' \in Seq(EventLogs) /\ Len(events') = Len(events)
      /\ events'[top.event] = log2 /\ \A e \in 1..Len(events) : e # top.event => events'[e] = events[e]
  BY <1>3, <1>5, <1>6 DEF TelemetryInv, TelemetryType
<1>8. /\ stack' \in Seq(Calling) /\ Len(stack') = n - 1 /\ \A k \in 1..(n - 1) : stack'[k] = stack[k]
  <2>1. stack' = SubSeq(stack, 1, n - 1)
    BY <1>1, <1>6 DEF Front
  <2>2. 1 \in Int /\ n - 1 \in Int /\ \A k \in 1..(n - 1) : stack[k] \in Calling
    BY <1>1, <1>3
  <2>3. /\ SubSeq(stack, 1, n - 1) \in Seq(Calling)
        /\ Len(SubSeq(stack, 1, n - 1)) = IF 1 <= n - 1 THEN (n - 1) - 1 + 1 ELSE 0
        /\ \A k \in 1..((n - 1) - 1 + 1) : SubSeq(stack, 1, n - 1)[k] = stack[1 + k - 1]
    BY <2>2, SubSeqProperties
  <2> QED BY <1>3, <2>1, <2>3
<1>9. \A k \in 1..(n - 1) : stack[k].event < top.event /\ stack[k].event \in 1..Len(events)
  BY <1>1, <1>3 DEF TelemetryInv, Nested
<1>10. Nested(stack)'
  <2>1. \A e \in 1..Len(events) : events'[e].attached = events[e].attached
    BY <1>1, <1>5, <1>7
  <2>2. \A k \in 1..(n - 1) : k \in 1..Len(stack)
    BY <1>1, <1>3
  <2>3. /\ \A k \in 1..(n - 1) : /\ stack[k].event \in 1..Len(events)
                                 /\ events[stack[k].event].attached = handlers
                                 /\ stack[k].next \in 1..(Len(handlers) + 1)
        /\ \A k, l \in 1..(n - 1) : k < l => stack[k].event < stack[l].event
    BY <2>2 DEF TelemetryInv, Nested
  <2>4. ASSUME NEW k \in 1..(n - 1)
        PROVE  /\ stack'[k].event \in 1..Len(events')
               /\ events'[stack'[k].event].attached = handlers'
               /\ stack'[k].next \in 1..(Len(handlers') + 1)
    BY <1>6, <1>7, <1>8, <2>1, <2>3
  <2>5. \A k, l \in 1..(n - 1) : k < l => stack'[k].event < stack'[l].event
    BY <1>8, <2>3
  <2> QED BY <1>8, <2>4, <2>5 DEF Nested
<1>11. ASSUME NEW e \in 1..Len(events') PROVE GotFrom(events'[e], GotOf(deliveries', e), e, stack')
  <2>1. CASE e = top.event
    <3>1. PICK m \in 0..Len(log.attached) :
            /\ GotOf(deliveries, e) = FirstDue(log, m)
            /\ log.ended => m = Len(log.attached)
            /\ \A k \in 1..Len(stack) : stack[k].event = e => m = stack[k].next - 1
      BY <1>3, <2>1 DEF GotFrom
    <3>2. PICK l \in Nat : l = Len(log.attached)
      BY <1>3
    <3>3. m = top.next - 1 /\ m \in Nat /\ m <= l
      BY <1>1, <1>3, <2>1, <3>1, <3>2
    <3>4. \A j \in (m + 1)..l : j \notin MatchedBy(log)
      BY <1>3, <1>6, <3>2, <3>3, SMTT(30)
    <3>5. FirstDue(log, l) = FirstDue(log, m)
      BY <3>3, <3>4, FirstDueSkip
    <3>6. FirstDue(log2, l) = FirstDue(log, l)
      BY <1>5 DEF FirstDue, MatchedBy
    <3>7. \A k \in 1..Len(stack') : stack'[k].event # e
      BY <1>3, <1>8, <1>9, <2>1, SMTT(30)
    <3>8. GotFrom(log2, GotOf(deliveries, e), e, stack')
      BY <1>5, <3>1, <3>2, <3>5, <3>6, <3>7 DEF GotFrom
    <3> QED BY <1>6, <1>7, <2>1, <3>8
  <2>2. CASE e # top.event
    <3>1. GotFrom(events[e], GotOf(deliveries, e), e, stack)
      BY <1>7, GotIs DEF TelemetryInv
    <3>2. \A k \in 1..Len(stack') : k \in 1..Len(stack) /\ stack'[k] = stack[k]
      BY <1>1, <1>3, <1>8
    <3>3. GotFrom(events[e], GotOf(deliveries, e), e, stack')
      BY <3>1, <3>2 DEF GotFrom
    <3> QED BY <1>6, <1>7, <2>2, <3>3
  <2> QED BY <2>1, <2>2
<1>12. TelemetryType'
  <2>1. task' \in [Tasks -> [pc : TaskPcs, name : SpanNames]]
    BY DEF ExecuteReturns, TelemetryInv, TelemetryType, TaskPcs
  <2> QED BY <1>6, <1>7, <1>8, <2>1 DEF TelemetryInv, TelemetryType
<1>13. \A k \in 1..Len(deliveries') : deliveries'[k][1] \in 1..Len(events')
  BY <1>6, <1>7 DEF TelemetryInv
<1> QED BY <1>10, <1>11, <1>12, <1>13, GotNextIs DEF TelemetryInv

(* Every step keeps the invariant of telemetry.                             *)
LEMMA TelemetryStepKeeps ==
    ASSUME TelemetryInv, [TelemetryNext]_telemetryVars
    PROVE  TelemetryInv'
<1>1. /\ task \in [Tasks -> [pc : TaskPcs, name : SpanNames]] /\ running \in Tasks
      /\ handlers \in Seq(HandlerPrefixes)
  BY DEF TelemetryInv, TelemetryType
<1>2. ASSUME NEW t \in Tasks, ExecuteEvent(t) PROVE TelemetryInv'
  <2>1. PICK n \in EventNames : Calls(t, "idle", "executing", n)
    BY <1>2 DEF ExecuteEvent
  <2>2. n \in Names /\ Execute(n) /\ running' \in Tasks
    BY <2>1 DEF Calls, Names
  <2>3. task' \in [Tasks -> [pc : TaskPcs, name : SpanNames]]
    BY <1>1, <2>1 DEF Calls, TaskPcs
  <2> QED BY <2>2, <2>3, ExecuteKeeps
<1>3. ASSUME NEW t \in Tasks, SpanStart(t) PROVE TelemetryInv'
  <2>1. PICK n \in EventNames :
          /\ running' = t /\ task' = [task EXCEPT ![t] = [pc |-> "starting", name |-> n]]
          /\ Execute(Append(n, "start"))
    BY <1>3 DEF SpanStart
  <2>2. Append(n, "start") \in Names /\ running' \in Tasks
    BY <2>1 DEF Names
  <2>3. task' \in [Tasks -> [pc : TaskPcs, name : SpanNames]]
    BY <1>1, <2>1 DEF TaskPcs, SpanNames
  <2> QED BY <2>1, <2>2, <2>3, ExecuteKeeps
<1>4. ASSUME NEW t \in Tasks, SpanStop(t) PROVE TelemetryInv'
  <2>1. Calls(t, "body", "stopping", Append(task[t].name, "stop"))
    BY <1>4 DEF SpanStop
  <2>2. Append(task[t].name, "stop") \in Names /\ Execute(Append(task[t].name, "stop")) /\ running' \in Tasks
    BY <1>1, <2>1 DEF Calls, Names
  <2>3. task' \in [Tasks -> [pc : TaskPcs, name : SpanNames]]
    BY <1>1, <2>1 DEF Calls, TaskPcs
  <2> QED BY <2>2, <2>3, ExecuteKeeps
<1>5. ASSUME NEW t \in Tasks, SpanAbandoned(t) PROVE TelemetryInv'
  <2>1. task' \in [Tasks -> [pc : TaskPcs, name : SpanNames]]
    BY <1>1, <1>5 DEF SpanAbandoned, TaskPcs
  <2> QED BY <1>1, <1>5, <2>1, QuietKeeps DEF SpanAbandoned
<1>6. CASE Attach
  <2>1. PICK p \in AttachPrefixes : handlers' = Append(handlers, p)
    BY <1>6 DEF Attach
  <2>2. handlers' \in Seq(HandlerPrefixes)
    BY <1>1, <2>1 DEF HandlerPrefixes
  <2> QED BY <1>1, <1>6, <2>2, QuietKeeps DEF Attach
<1>7. CASE CallHandler
  BY <1>7, CallHandlerKeeps
<1>8. CASE HandlerReturns
  BY <1>8, HandlerReturnsKeeps
<1>9. CASE HandlerExecutes
  <2>1. PICK n \in EventNames : Execute(n)
    BY <1>9 DEF HandlerExecutes
  <2>2. n \in Names /\ task' = task /\ running' = running
    BY <1>9 DEF HandlerExecutes, Names
  <2> QED BY <1>1, <2>1, <2>2, ExecuteKeeps
<1>10. CASE HandlerAttaches
  <2>1. task' \in [Tasks -> [pc : TaskPcs, name : SpanNames]]
    BY <1>1, <1>10 DEF HandlerAttaches, TaskPcs
  <2> QED BY <1>1, <1>10, <2>1, QuietKeeps DEF HandlerAttaches
<1>11. CASE ExecuteReturns
  BY <1>11, ExecuteReturnsKeeps
<1>12. CASE UNCHANGED telemetryVars
  BY <1>1, <1>12, QuietKeeps DEF telemetryVars
<1> QED BY <1>2, <1>3, <1>4, <1>5, <1>6, <1>7, <1>8, <1>9, <1>10, <1>11, <1>12 DEF TelemetryNext

(* At the start nothing was executed.                                       *)
LEMMA TelemetryStarts ==
    ASSUME TelemetryInit
    PROVE  TelemetryInv
<1>1. stack = <<>> /\ events = <<>> /\ deliveries = <<>>
  BY DEF TelemetryInit
<1>2. handlers \in Seq(HandlerPrefixes)
  <2>1. handlers = <<<<"mahalo">>, <<"ice_cream">>>> /\ <<"mahalo">> \in HandlerPrefixes
        /\ <<"ice_cream">> \in HandlerPrefixes
    BY DEF TelemetryInit, HandlerPrefixes
  <2> QED BY <2>1
<1>3. task \in [Tasks -> [pc : TaskPcs, name : SpanNames]] /\ running \in Tasks
  <2>1. "idle" \in TaskPcs /\ <<>> \in SpanNames
    BY DEF TaskPcs, SpanNames
  <2>2. task = [t \in Tasks |-> [pc |-> "idle", name |-> <<>>]] /\ running \in Tasks
    BY DEF TelemetryInit
  <2> QED BY <2>1, <2>2
<1>4. <<>> \in Seq(Calling) /\ <<>> \in Seq(EventLogs) /\ <<>> \in Seq(Nat \X Nat) /\ Len(<<>>) = 0
  OBVIOUS
<1>5. TelemetryType
  BY <1>1, <1>2, <1>3, <1>4 DEF TelemetryType
<1>6. Nested(stack)
  BY <1>1, <1>4 DEF Nested
<1> QED BY <1>1, <1>4, <1>5, <1>6 DEF TelemetryInv

(* The invariant of telemetry holds in every reachable state.               *)
LEMMA TelemetryAlways == TelemetryInit /\ [][TelemetryNext]_telemetryVars => []TelemetryInv
BY TelemetryStarts, TelemetryStepKeeps, PTL

(* Telemetry.execute: for any handlers, event names, tasks and depth of     *)
(* nesting, an event has reached the first of the handlers that matched     *)
(* when it was executed, in their order and once each, and all of them once *)
(* execute has returned; a handler attached meanwhile is never among them.  *)
THEOREM DeliveredOnceInOrderHolds ==
    TelemetryInit /\ [][TelemetryNext]_telemetryVars => []DeliveredOnceInOrder
<1>1. ASSUME TelemetryInv PROVE DeliveredOnceInOrder
  <2> SUFFICES ASSUME NEW e \in DOMAIN events
               PROVE  IsPrefix(Got(e), Due(e)) /\ (events[e].ended => Got(e) = Due(e))
    BY DEF DeliveredOnceInOrder
  <2>1. e \in 1..Len(events) /\ events[e] \in EventLogs
    BY <1>1 DEF TelemetryInv, TelemetryType
  <2>2. PICK log \in EventLogs, n \in Nat : log = events[e] /\ n = Len(log.attached)
    BY <2>1 DEF EventLogs
  <2>3. Due(e) = FirstDue(log, n)
    <3>1. DOMAIN log.attached = 1..n
      BY <2>2 DEF EventLogs
    <3> QED BY <2>2, <3>1 DEF Due, FirstDue, Upto, MatchedBy
  <2>4. PICK m \in 0..n : Got(e) = FirstDue(log, m) /\ (log.ended => m = n)
    BY <1>1, <2>1, <2>2 DEF TelemetryInv, GotFrom
  <2>5. IsPrefix(FirstDue(log, m), FirstDue(log, n))
    <3>1. PICK places : places = MatchedBy(log)
      OBVIOUS
    <3>2. m \in Nat /\ m <= n
      OBVIOUS
    <3>3. IsPrefix(Kept(Upto(m), places), Kept(Upto(n), places))
      BY <3>2, KeptUptoPrefix
    <3> QED BY <3>1, <3>3 DEF FirstDue
  <2> QED BY <2>2, <2>3, <2>4, <2>5
<1> QED BY <1>1, TelemetryAlways, PTL
=============================================================================
