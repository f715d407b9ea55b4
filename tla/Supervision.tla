----------------------------- MODULE Supervision -----------------------------
(* How a program runs its endpoint: MahaloEndpoint::start blocks on scoped  *)
(* worker threads; MahaloApplication::start builds a supervision tree of    *)
(* the PubSub child, the channel supervisor and the endpoint child, whose   *)
(* worker threads are detached. A worker binds, builds its own router and   *)
(* accepts connections. The channel supervisor is left out: nothing in the  *)
(* repository adds a connection to it.                                      *)
EXTENDS Naturals, Sequences, FiniteSets

CONSTANTS
    NumWorkers,         \* available_parallelism
    MaxLives            \* bound: times the endpoint child is started

ASSUME NumWorkersAssumption == NumWorkers \in Nat \ {0}

VARIABLES
    mode,               \* "blocking" | "supervised"
    tree,               \* the top-level supervisor: "up" | "down"
    commandRx,          \* the RefCell<Option<Receiver>> of new_supervised: "some" | "none"
    pubsubChild,        \* "down" | "polling" | "exited" | "panicked"
    pubsubServer,       \* the server thread: "none" | "running" | "ended"
    endpoint,           \* start, or the endpoint child: [pc, next, lives]
    threads             \* worker threads ever spawned, in order: their states

supervisionVars ==
    <<mode, tree, commandRx, pubsubChild, pubsubServer, endpoint, threads>>

pubsubParts   == <<commandRx, pubsubChild, pubsubServer>>
endpointParts == <<endpoint, threads>>

(* build panics without an address, so that a program that starts has one.  *)
SupervisionInit ==
    /\ mode \in {"blocking", "supervised"}
    /\ tree = IF mode = "supervised" THEN "up" ELSE "down"
    /\ commandRx = "some" /\ pubsubChild = "down" /\ pubsubServer = "none"
    /\ endpoint = [pc |-> "down", next |-> 1, lives |-> 0]
    /\ threads = <<>>

-----------------------------------------------------------------------------
(* The PubSub child. The supervisor of rebar starts a Permanent child again *)
(* whenever it has ended.                                                   *)

PubSubChildStarts ==
    /\ tree = "up" /\ pubsubChild \in {"down", "exited", "panicked"}
    /\ IF commandRx = "some"
       THEN commandRx' = "none" /\ pubsubServer' = "running" /\ pubsubChild' = "polling"
       ELSE pubsubChild' = "panicked" /\ UNCHANGED <<commandRx, pubsubServer>>
    /\ UNCHANGED <<mode, tree, endpointParts>>

(* A Shutdown command, or a panic of the thread.                            *)
PubSubServerEnds ==
    /\ pubsubServer = "running"
    /\ pubsubServer' = "ended"
    /\ UNCHANGED <<mode, tree, commandRx, pubsubChild, endpointParts>>

(* try_recv: Ok or Disconnected.                                            *)
PubSubChildSeesEnd ==
    /\ pubsubChild = "polling" /\ pubsubServer = "ended"
    /\ pubsubChild' = "exited"
    /\ UNCHANGED <<mode, tree, commandRx, pubsubServer, endpointParts>>

TreeShutdown ==
    /\ tree = "up" /\ tree' = "down"
    /\ UNCHANGED <<mode, pubsubParts, endpointParts>>

-----------------------------------------------------------------------------
(* The endpoint: a loop that spawns the workers, one thread at a time.      *)

EndpointStarts ==
    /\ mode = "blocking" \/ tree = "up"
    /\ \/ endpoint.pc = "down"
       \/ endpoint.pc = "exited" /\ mode = "supervised"
    /\ endpoint.lives < MaxLives
    /\ endpoint' = [pc |-> "spawning", next |-> 1, lives |-> endpoint.lives + 1]
    /\ UNCHANGED <<mode, tree, pubsubParts, threads>>

SpawnWorker ==
    /\ endpoint.pc = "spawning" /\ endpoint.next <= NumWorkers
    /\ threads' = Append(threads, "starting")
    /\ endpoint' = [endpoint EXCEPT !.next = @ + 1]
    /\ UNCHANGED <<mode, tree, pubsubParts>>

(* The `?` of spawn: the child exits abnormally and leaves the threads it   *)
(* has; start leaves the scope, which waits for them all.                   *)
SpawnFails ==
    /\ endpoint.pc = "spawning" /\ endpoint.next <= NumWorkers
    /\ endpoint' = [endpoint EXCEPT !.pc = IF mode = "blocking" THEN "err_scope" ELSE "exited",
                                    !.next = 1]
    /\ UNCHANGED <<mode, tree, pubsubParts, threads>>

(* The child parks for good; start joins the first handle.                  *)
SpawningEnds ==
    /\ endpoint.pc = "spawning" /\ endpoint.next > NumWorkers
    /\ endpoint' = [endpoint EXCEPT !.pc = IF mode = "blocking" THEN "joining" ELSE "parked",
                                    !.next = 1]
    /\ UNCHANGED <<mode, tree, pubsubParts, threads>>

Over(i) == threads[i] \in {"ended", "panicked", "joined_ok", "joined_err"}

(* join takes the result of a thread.                                       *)
JoinResult(i) == IF threads[i] = "panicked" THEN "joined_err" ELSE "joined_ok"

(* Fault: the result of join is dropped.                                    *)
JoinIgnoring ==
    /\ endpoint.pc = "joining" /\ endpoint.next <= NumWorkers /\ Over(endpoint.next)
    /\ threads' = [threads EXCEPT ![endpoint.next] = JoinResult(endpoint.next)]
    /\ endpoint' = [endpoint EXCEPT !.next = @ + 1]
    /\ UNCHANGED <<mode, tree, pubsubParts>>

(* The first panic ends the loop.                                           *)
Join ==
    /\ endpoint.pc = "joining" /\ endpoint.next <= NumWorkers /\ Over(endpoint.next)
    /\ threads' = [threads EXCEPT ![endpoint.next] = JoinResult(endpoint.next)]
    /\ endpoint' = IF threads[endpoint.next] = "panicked"
                   THEN [endpoint EXCEPT !.pc = "err_scope"]
                   ELSE [endpoint EXCEPT !.next = @ + 1]
    /\ UNCHANGED <<mode, tree, pubsubParts>>

JoinedAll ==
    /\ endpoint.pc = "joining" /\ endpoint.next > NumWorkers
    /\ endpoint' = [endpoint EXCEPT !.pc = "ok"]
    /\ UNCHANGED <<mode, tree, pubsubParts, threads>>

(* scope waits for every thread, and panics itself when one panicked whose  *)
(* result nobody took.                                                      *)
ScopeEnds ==
    /\ endpoint.pc = "err_scope" /\ \A i \in DOMAIN threads : Over(i)
    /\ endpoint' = [endpoint EXCEPT !.pc = IF \E i \in DOMAIN threads : threads[i] = "panicked"
                                           THEN "scope_panicked" ELSE "err"]
    /\ UNCHANGED <<mode, tree, pubsubParts, threads>>

(* A worker. It returns when it cannot bind; a panic of the executor, of a  *)
(* factory or out of the accept loop ends the thread.                       *)
WorkerMoves(i, from, to) ==
    /\ threads[i] \in from
    /\ threads' = [threads EXCEPT ![i] = to]
    /\ UNCHANGED <<mode, tree, pubsubParts, endpoint>>

WorkerServes(i)    == WorkerMoves(i, {"starting"}, "serving")
WorkerBindFails(i) == WorkerMoves(i, {"starting"}, "ended")
WorkerPanics(i)    == WorkerMoves(i, {"starting", "serving"}, "panicked")

-----------------------------------------------------------------------------
EndpointNext ==
    \/ EndpointStarts \/ SpawnWorker \/ SpawnFails \/ SpawningEnds
    \/ Join \/ JoinedAll \/ ScopeEnds
    \/ \E i \in DOMAIN threads : WorkerServes(i) \/ WorkerBindFails(i) \/ WorkerPanics(i)

PubSubChildNext == PubSubChildStarts \/ PubSubServerEnds \/ PubSubChildSeesEnd

SupervisionNext == EndpointNext \/ PubSubChildNext \/ TreeShutdown

(* The supervisor starts its children and the child polls; nobody has to    *)
(* end the server, and the program need not shut the tree down.             *)
SupervisedSpec ==
    /\ SupervisionInit /\ [][SupervisionNext]_supervisionVars
    /\ WF_supervisionVars(PubSubChildStarts) /\ WF_supervisionVars(PubSubChildSeesEnd)

-----------------------------------------------------------------------------
(* start never hides a worker that panicked: it returns Ok only after all   *)
(* of its workers have ended and none of them panicked, and it comes back   *)
(* at all - with Ok, an error, or the panic of the scope after a second     *)
(* worker's panic - only when no thread it spawned is left.                 *)
StartReportsPanics ==
    mode = "blocking" /\ endpoint.pc \in {"ok", "err", "scope_panicked"} =>
        /\ \A i \in DOMAIN threads : Over(i)
        /\ endpoint.pc = "ok" => \A i \in DOMAIN threads : threads[i] = "joined_ok"

(* "The supervised process is the server loop - if it crashes the           *)
(* supervisor will restart it correctly" (PubSub::new_supervised): a server *)
(* that ended is running again, as long as the tree is up.                  *)
PubSubServedAgain == (pubsubServer = "ended" /\ tree = "up") ~> (pubsubServer = "running" \/ tree = "down")
=============================================================================
