---------------------------- MODULE ClusterBridge ----------------------------
(* A node of a cluster: MahaloCluster polls a topology and broadcasts the   *)
(* differences on "mahalo:cluster"; DistributedPubSub broadcasts to the     *)
(* local PubSub and then sends to every registered peer, whose relay thread *)
(* broadcasts into its own local PubSub. The application registers peers;   *)
(* there is no call that removes one. A peer that dies takes its channel    *)
(* with it and may come back with a new one.                                *)
EXTENDS Naturals, Sequences, SequencesExt, FiniteSets

CONSTANTS
    Peers, Broadcasters,
    MaxSent,        \* bound: broadcasts per broadcaster
    MaxPolls,       \* bound: polls of the topology
    MaxRestarts     \* bound: restarts per peer

VARIABLES
    known,          \* known_peers
    poll,           \* the round under way: [pc, current, ups, downs]
    polls,          \* rounds so far
    clusterView,    \* what one who listens on "mahalo:cluster" from the start believes
    peers,          \* DistributedPubSub.peers: a sequence of [peer, life]
    peerNode,       \* per peer: [life, up, channel, relayed, from], where from is
                    \* what its registration covers of each broadcaster (a history)
    sender,         \* per broadcaster: [sent, pc, next]; "retain" holds the lock on peers
    localFeed       \* what the local PubSub was given, in order

clusterVars == <<known, poll, polls, clusterView>>
bridgeVars  == <<peers, peerNode, sender, localFeed>>
clusterBridgeVars == <<clusterVars, bridgeVars>>

NotCovered == [b \in Broadcasters |-> 0]

(* start: the initial peers are announced before the loop runs.             *)
ClusterBridgeInit ==
    /\ known = {} /\ clusterView = {} /\ polls = 0
    /\ poll \in {[pc |-> "announce", current |-> ps, ups |-> ps, downs |-> {}] : ps \in SUBSET Peers}
    /\ peers = <<>>
    /\ peerNode = [p \in Peers |-> [life |-> 1, up |-> TRUE, channel |-> <<>>, relayed |-> <<>>,
                                   from |-> NotCovered]]
    /\ sender = [b \in Broadcasters |-> [sent |-> 0, pc |-> "idle", next |-> 1]]
    /\ localFeed = <<>>

-----------------------------------------------------------------------------
(* The cluster's loop. A topology may return anything; a failed DNS lookup  *)
(* returns the empty list.                                                  *)

PollPeers ==
    /\ poll.pc = "idle" /\ polls < MaxPolls
    /\ polls' = polls + 1
    /\ \E current \in SUBSET Peers :
         poll' = [pc |-> "announce", current |-> current,
                  ups |-> current \ known, downs |-> known \ current]
    /\ UNCHANGED <<known, clusterView, bridgeVars>>

AnnounceUp ==
    \E p \in poll.ups :
        /\ poll' = [poll EXCEPT !.ups = @ \ {p}]
        /\ clusterView' = clusterView \cup {p}
        /\ UNCHANGED <<known, polls, bridgeVars>>

AnnounceDown ==
    /\ poll.ups = {}
    /\ \E p \in poll.downs :
         /\ poll' = [poll EXCEPT !.downs = @ \ {p}]
         /\ clusterView' = clusterView \ {p}
    /\ UNCHANGED <<known, polls, bridgeVars>>

(* Fault: peers are only ever added to the known ones.                      *)
PollEndsMerging ==
    /\ poll.pc = "announce" /\ poll.ups = {} /\ poll.downs = {}
    /\ known' = known \cup poll.current
    /\ poll' = [poll EXCEPT !.pc = "idle"]
    /\ UNCHANGED <<polls, clusterView, bridgeVars>>

PollEnds ==
    /\ poll.pc = "announce" /\ poll.ups = {} /\ poll.downs = {}
    /\ known' = poll.current
    /\ poll' = [poll EXCEPT !.pc = "idle"]
    /\ UNCHANGED <<polls, clusterView, bridgeVars>>

-----------------------------------------------------------------------------
(* The bridge.                                                              *)

Live(e) == peerNode[e.peer].up /\ peerNode[e.peer].life = e.life
Registered(p) == \E i \in DOMAIN peers : peers[i].peer = p /\ Live(peers[i])

(* peers is behind a lock, which retain keeps to its end.                   *)
Unlocked == \A b \in Broadcasters : sender[b].pc # "retain"

(* The application registers the channel of a peer once.                    *)
AddPeer(p) ==
    /\ peerNode[p].up /\ ~Registered(p) /\ Unlocked
    /\ peers' = Append(peers, [peer |-> p, life |-> peerNode[p].life])
    /\ peerNode' = [peerNode EXCEPT ![p].from =
                      [b \in Broadcasters |-> IF sender[b].pc = "fan_out" THEN sender[b].sent
                                              ELSE sender[b].sent + 1]]
    /\ UNCHANGED <<clusterVars, sender, localFeed>>

(* broadcast: the local PubSub first, without the lock on peers...          *)
BroadcastLocally(b) ==
    /\ sender[b].pc = "idle" /\ sender[b].sent < MaxSent
    /\ sender' = [sender EXCEPT ![b].sent = @ + 1, ![b].pc = "fan_out"]
    /\ localFeed' = Append(localFeed, <<b, sender[b].sent + 1>>)
    /\ UNCHANGED <<clusterVars, peers, peerNode>>

(* ... then, under the write lock, retain: one peer after the other, ...    *)
LockPeers(b) ==
    /\ sender[b].pc = "fan_out" /\ Unlocked
    /\ sender' = [sender EXCEPT ![b].pc = "retain", ![b].next = 1]
    /\ UNCHANGED <<clusterVars, peers, peerNode, localFeed>>

(* ... to whose channel the message goes ...                                *)
SendToPeer(b) ==
    LET i == sender[b].next
    IN  /\ sender[b].pc = "retain" /\ i <= Len(peers) /\ Live(peers[i])
        /\ peerNode' = [peerNode EXCEPT ![peers[i].peer].channel =
                          Append(@, <<b, sender[b].sent>>)]
        /\ sender' = [sender EXCEPT ![b].next = i + 1]
        /\ UNCHANGED <<clusterVars, peers, localFeed>>

(* Fault: the first peer that has gone ends the round.                      *)
PrunePeerStops(b) ==
    /\ sender[b].pc = "retain" /\ sender[b].next <= Len(peers)
    /\ ~Live(peers[sender[b].next])
    /\ peers' = RemoveAt(peers, sender[b].next)
    /\ sender' = [sender EXCEPT ![b].pc = "idle"]
    /\ UNCHANGED <<clusterVars, peerNode, localFeed>>

(* ... or that is dropped, when its receiver has gone.                      *)
PrunePeer(b) ==
    /\ sender[b].pc = "retain" /\ sender[b].next <= Len(peers)
    /\ ~Live(peers[sender[b].next])
    /\ peers' = RemoveAt(peers, sender[b].next)
    /\ UNCHANGED <<clusterVars, peerNode, sender, localFeed>>

UnlockPeers(b) ==
    /\ sender[b].pc = "retain" /\ sender[b].next > Len(peers)
    /\ sender' = [sender EXCEPT ![b].pc = "idle"]
    /\ UNCHANGED <<clusterVars, peers, peerNode, localFeed>>

(* The relay thread of a peer: into its local PubSub, never back to a peer. *)
Relay(p) ==
    /\ peerNode[p].up /\ peerNode[p].channel # <<>>
    /\ peerNode' = [peerNode EXCEPT ![p].channel = Tail(@),
                                    ![p].relayed = Append(@, Head(peerNode[p].channel))]
    /\ UNCHANGED <<clusterVars, peers, sender, localFeed>>

PeerDies(p) ==
    /\ peerNode[p].up
    /\ peerNode' = [peerNode EXCEPT ![p].up = FALSE, ![p].channel = <<>>,
                                    ![p].relayed = <<>>, ![p].from = NotCovered]
    /\ UNCHANGED <<clusterVars, peers, sender, localFeed>>

PeerReturns(p) ==
    /\ ~peerNode[p].up /\ peerNode[p].life <= MaxRestarts
    /\ peerNode' = [peerNode EXCEPT ![p].up = TRUE, ![p].life = @ + 1]
    /\ UNCHANGED <<clusterVars, peers, sender, localFeed>>

ClusterNext == PollPeers \/ AnnounceUp \/ AnnounceDown \/ PollEnds

BridgeNext ==
    \/ \E b \in Broadcasters : \/ BroadcastLocally(b) \/ LockPeers(b)
                               \/ SendToPeer(b) \/ PrunePeer(b) \/ UnlockPeers(b)
    \/ \E p \in Peers : AddPeer(p) \/ Relay(p) \/ PeerDies(p) \/ PeerReturns(p)

ClusterBridgeSpec ==
    ClusterBridgeInit /\ [][ClusterNext \/ BridgeNext]_clusterBridgeVars

-----------------------------------------------------------------------------
(* Between two rounds, one who has applied every node_up and node_down      *)
(* since the start knows just the peers the cluster knows, also over lookup *)
(* failures that empty the list.                                            *)
ClusterViewMatches == poll.pc = "idle" => clusterView = known

(* What reached, or will reach, the local PubSub of a peer.                 *)
Received(p) == peerNode[p].relayed \o peerNode[p].channel

(* The last broadcast of b that retain has offered to the registered p.     *)
Offered(b, p) ==
    IF \/ sender[b].pc = "fan_out"
       \/ /\ sender[b].pc = "retain"
          /\ \E i \in DOMAIN peers : i >= sender[b].next /\ peers[i].peer = p /\ Live(peers[i])
    THEN sender[b].sent - 1 ELSE sender[b].sent

(* A registered peer that lives gets of each broadcaster just the           *)
(* broadcasts from its registration to the last one that retain offered it, *)
(* each once and in order, whichever other peers die, are pruned or return  *)
(* meanwhile; no other peer gets anything; and nothing reaches a peer that  *)
(* was not first handed to the local PubSub.                                *)
RelayFollows ==
    \A p \in Peers :
        LET got == Received(p)
        IN  /\ got # <<>> => Registered(p)
            /\ \A i \in DOMAIN got : \E j \in DOMAIN localFeed : localFeed[j] = got[i]
            /\ \A i, j \in DOMAIN got : i < j /\ got[i][1] = got[j][1] => got[i][2] < got[j][2]
            /\ Registered(p) =>
                 \A b \in Broadcasters, n \in 0..MaxSent :
                    (\E i \in DOMAIN got : got[i] = <<b, n>>)
                        <=> n \in peerNode[p].from[b]..Offered(b, p)
=============================================================================
