------------------------------ MODULE MCServices ------------------------------
(* The parts beside a connection's protocol, which share no state, one at a *)
(* time: a behaviour runs one of them, chosen in its initial state, and     *)
(* leaves the others as they start. Router and plugs as in MCRequestCycle.  *)
(* The store has two workers, two flavors (one out of stock), an i64 of     *)
(* -8..7, clients that send prices at its edge (8 is cast to -8), requests  *)
(* that create, update and delete the ids that clients guess; a node of the *)
(* cluster has two peers; two watchers follow the presence of one topic;    *)
(* two tasks share a thread's telemetry; two worker threads serve.          *)
EXTENDS MCRequestCycle, IceCreamStore, Presence, ClusterBridge, Telemetry, Supervision

ApiPath(s)       == <<Empty, Static("api"), Static(s)>>
ApiPathId(s, id) == <<Empty, Static("api"), Static(s), Static(id)>>

NoBody  == [json |-> FALSE]
Req(method, path, key, body) == [method |-> method, path |-> path, key |-> key, body |-> body]
Get(path) == Req("GET", path, TRUE, NoBody)

Raw(n, vessel) == [scoops |-> [i \in 1..n |-> 1], vessel |-> vessel]

MCRequests ==
    {Req("GET", Root, FALSE, NoBody), Req("GET", <<Empty, Static("order")>>, FALSE, NoBody),
     Get(<<Empty, Static("health")>>), Get(<<Empty, Static("nowhere")>>),
     Get(<<Empty, Static("api"), Static("prices"), Static("stream")>>),
     Get(ApiPathId("flavors", "x")),
     Req("POST", ApiPath("flavors"), FALSE, [json |-> TRUE]),
     Req("POST", ApiPath("flavors"), FALSE, NoBody),
     Req("PUT", ApiPathId("flavors", "1"), FALSE, [json |-> TRUE, price |-> 8]),
     Req("DELETE", ApiPathId("flavors", "1"), FALSE, NoBody),
     Req("DELETE", ApiPathId("flavors", "2"), FALSE, NoBody),
     Req("GET", ApiPath("orders"), FALSE, NoBody), Get(ApiPath("orders")),
     Get(ApiPathId("orders", "1")),
     Req("POST", ApiPath("orders"), TRUE, NoBody),
     Req("POST", ApiPath("orders"), TRUE, [json |-> TRUE, items |-> <<Raw(0, "cup"), Raw(4, "cone")>>]),
     Req("POST", ApiPath("orders"), FALSE, [json |-> TRUE]),
     Req("PUT", ApiPathId("orders", "1"), TRUE, [json |-> TRUE, status |-> "delivered"]),
     Req("DELETE", ApiPathId("orders", "1"), TRUE, NoBody)}

MCItemsSent   == {Raw(0, "cone"), Raw(4, "bowl")}
MCChatsSent   == {{"price", "hi"}, {}}
MCInitFlavors == <<[id |-> 1, price |-> 4, in_stock |-> TRUE], [id |-> 2, price |-> 4, in_stock |-> FALSE]>>
MCDeltas      == {-1, 1}

MCEventNames == {<<"mahalo">>, <<"mahalo", "router">>}
MCPrefixes   == {<<>>, <<"mahalo", "router", "start">>}

-----------------------------------------------------------------------------
Parts == {"router", "plugs", "orders", "flavors", "presence", "cluster", "bridge",
          "telemetry", "endpoint", "pubsub"}

routingVars == <<requestVars, plugVars>>
allVars == <<part, routingVars, vars, presenceVars, clusterBridgeVars, telemetryVars,
             supervisionVars>>

(* The choices of Init matter to the part they belong to only.              *)
MCInit ==
    /\ part \in Parts
    /\ RoutingInit /\ Init /\ PresenceInit /\ ClusterBridgeInit /\ TelemetryInit
    /\ SupervisionInit
    /\ part # "cluster" => poll.current = {}
    /\ part # "telemetry" => running = CHOOSE t \in Tasks : TRUE
    /\ part # "endpoint" => mode = "supervised"

RoutingPart ==
    /\ RoutingStep
    /\ UNCHANGED <<vars, presenceVars, clusterBridgeVars, telemetryVars, supervisionVars>>

(* Orders and flavors share no state but the workers: a behaviour that      *)
(* changes the orders leaves the flavors alone.                             *)
OrdersIdle  == orders = <<>> /\ sims = <<>> /\ joined \subseteq {Lobby, Support}
FlavorsIdle == flavors = InitFlavors /\ ticker.tick = 0 /\ stream.pc = "closed"

StorePart ==
    /\ part \in {"orders", "flavors"}
    /\ Next
    /\ IF part = "orders" THEN FlavorsIdle' ELSE OrdersIdle'
    /\ UNCHANGED <<routingVars, presenceVars, clusterBridgeVars, telemetryVars, supervisionVars>>

PresencePart ==
    /\ part = "presence" /\ PresenceNext
    /\ UNCHANGED <<routingVars, vars, clusterBridgeVars, telemetryVars, supervisionVars>>

ClusterBridgePart ==
    /\ \/ part = "cluster" /\ ClusterNext
       \/ part = "bridge" /\ BridgeNext
    /\ UNCHANGED <<routingVars, vars, presenceVars, telemetryVars, supervisionVars>>

TelemetryPart ==
    /\ part = "telemetry" /\ TelemetryNext
    /\ UNCHANGED <<routingVars, vars, presenceVars, clusterBridgeVars, supervisionVars>>

SupervisionPart ==
    /\ \/ part = "endpoint" /\ (EndpointNext \/ TreeShutdown)
       \/ part = "pubsub" /\ (PubSubChildNext \/ TreeShutdown)
    /\ UNCHANGED <<routingVars, vars, presenceVars, clusterBridgeVars, telemetryVars>>

MCNext ==
    /\ \/ RoutingPart \/ StorePart \/ PresencePart \/ ClusterBridgePart
       \/ TelemetryPart \/ SupervisionPart
    /\ UNCHANGED part

MCSpec == MCInit /\ [][MCNext]_allVars

(* No guard and no property reads the last output of the store.             *)
MCView == <<part, routingVars, flavors, poisoned, orders, worker, sims, ticker, stream, joined,
            announced, calls, presenceVars, clusterBridgeVars, telemetryVars, supervisionVars>>
=============================================================================
