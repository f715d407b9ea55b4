------------------------------ MODULE MCPubSub ------------------------------
(* Small instances of PubSub, two of them explored by one run:              *)
(*   "feed"     one caller, two topics and two subscriptions that come and  *)
(*              go (the other caller drops its handle before anything else);*)
(*   "callers"  both callers, which use one topic and one subscription.     *)
(* Topics, subscriptions and callers are interchangeable, and of behaviours *)
(* that differ in their names only one is explored (Representative,         *)
(* OneFeed): TLC's SYMMETRY is not sound for the temporal properties.       *)
EXTENDS PubSub

CONSTANTS c1, c2, s1, s2, t1, t2

VARIABLE instance

Concerns(cmd, t) ==
    CASE cmd.op = "Shutdown"  -> FALSE
      [] cmd.op = "Broadcast" -> cmd.msg.topic = t
      [] OTHER                -> cmd.topic = t

(* The subscription made first is s1, of topic t1.                          *)
Representative == /\ phase[s1] = "unused" => phase[s2] = "unused"
                  /\ topicOf[s1] # t2

(* Only t1 and s1 are in use, and the caller that subscribes is c1.         *)
OneFeed == /\ phase[s2] = "unused"
           /\ waiting[c2] = NoSub
           /\ \A cmd \in Range(queue) : ~Concerns(cmd, t2)

MCInit == Init /\ instance \in {"feed", "callers"}

MCNext ==
    /\ Next
    /\ Representative'
    /\ CASE instance = "feed"    -> c2 \in holds => DropHandle(c2)
         [] instance = "callers" -> OneFeed'
    /\ UNCHANGED instance

MCSpec == MCInit /\ [][MCNext]_<<vars, instance>> /\ Fairness
=============================================================================
