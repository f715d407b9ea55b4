----------------------------- MODULE TopicFeed -----------------------------
(***************************************************************************)
(* What mahalo's PubSub promises, with the server thread, its command      *)
(* queue and the per-subscriber channels hidden.                           *)
(*                                                                         *)
(* Every topic is an append-only log.  A subscription opens at the current *)
(* end of its topic's log and is a gap-free, in-order, duplicate-free feed *)
(* of what is published from there on, until it is closed by its owner or  *)
(* cut by the server; a subscription that was cut still hands out what was *)
(* published before the cut.                                               *)
(***************************************************************************)
EXTENDS Naturals, Sequences

CONSTANTS Topics,    \* topic names
          Subs,      \* identities of subscriptions, each used at most once
          Messages,  \* what may be published
          NoTopic    \* the topic of a subscription that was never opened

VARIABLES log,    \* log[t]: everything published to topic t, in order
          feed,   \* feed[s]: "unused", "live", "cut", "ended" or "closed"
          topic,  \* topic[s]: the topic subscription s is for
          from,   \* from[s]: the length of the log when s was opened
          end,    \* end[s]: where the feed of a cut subscription ends
          got     \* got[s]: the messages s has handed to its owner, in order

vars == <<log, feed, topic, from, end, got>>

Init ==
    /\ log = [t \in Topics |-> << >>]
    /\ feed = [s \in Subs |-> "unused"]
    /\ topic = [s \in Subs |-> NoTopic]
    /\ from = [s \in Subs |-> 0]
    /\ end = [s \in Subs |-> 0]
    /\ got = [s \in Subs |-> << >>]

Publish(t, m) ==
    /\ log' = [log EXCEPT ![t] = Append(@, m)]
    /\ UNCHANGED <<feed, topic, from, end, got>>

Open(s, t) ==
    /\ feed[s] = "unused"
    /\ feed' = [feed EXCEPT ![s] = "live"]
    /\ topic' = [topic EXCEPT ![s] = t]
    /\ from' = [from EXCEPT ![s] = Len(log[t])]
    /\ UNCHANGED <<log, end, got>>

(* The owner of s takes the next message of the log.                       *)
Take(s) ==
    LET next == from[s] + Len(got[s]) + 1 IN
    /\ \/ feed[s] = "live"
       \/ feed[s] = "cut" /\ next <= end[s]
    /\ next <= Len(log[topic[s]])
    /\ got' = [got EXCEPT ![s] = Append(@, log[topic[s]][next])]
    /\ UNCHANGED <<log, feed, topic, from, end>>

(* The owner of a cut subscription learns that nothing more will come: it  *)
(* has been handed everything published before the cut.                    *)
End(s) ==
    /\ feed[s] = "cut"
    /\ from[s] + Len(got[s]) = end[s]
    /\ feed' = [feed EXCEPT ![s] = "ended"]
    /\ end' = [end EXCEPT ![s] = 0]
    /\ UNCHANGED <<log, topic, from, got>>

(* The server stops feeding the live subscriptions of the topics in T.     *)
Cut(T) ==
    /\ feed' = [s \in Subs |->
                  IF feed[s] = "live" /\ topic[s] \in T THEN "cut" ELSE feed[s]]
    /\ end' = [s \in Subs |->
                  IF feed[s] = "live" /\ topic[s] \in T
                  THEN Len(log[topic[s]]) ELSE end[s]]
    /\ UNCHANGED <<log, topic, from, got>>

Close(s) ==
    /\ feed[s] \in {"live", "cut"}
    /\ feed' = [feed EXCEPT ![s] = "closed"]
    /\ end' = [end EXCEPT ![s] = 0]
    /\ UNCHANGED <<log, topic, from, got>>

Next ==
    \/ \E t \in Topics, m \in Messages : Publish(t, m)
    \/ \E s \in Subs, t \in Topics : Open(s, t)
    \/ \E s \in Subs : Take(s) \/ End(s) \/ Close(s)
    \/ \E T \in SUBSET Topics : Cut(T)

Spec == Init /\ [][Next]_vars
=============================================================================
