------------------------------- MODULE PubSub -------------------------------
(***************************************************************************)
(* crates/mahalo-pubsub/src/pubsub.rs: the in-process publish/subscribe    *)
(* server.  One server thread (run_server) owns the topic table and pops   *)
(* commands from one unbounded mpsc queue; any number of callers on other  *)
(* threads hold clones of the handle and push commands; every subscription *)
(* is an mpsc channel from the server to one receiver.                     *)
(*                                                                         *)
(* The retain loop of a broadcast visits the senders one at a time, and    *)
(* receivers take messages and are dropped on other threads between two    *)
(* visits, so the loop is one step per sender.  A send on an mpsc channel, *)
(* its receipt and the drop of one of its ends are atomic (std::sync::mpsc *)
(* is external).                                                           *)
(***************************************************************************)
EXTENDS Naturals, Sequences, SequencesExt, FiniteSets

CONSTANTS Topics,         \* topic names
          Callers,        \* threads and tasks that own a clone of the handle
          Subs,           \* subscriptions (channels), each created at most once
          NoTopic, NoSub, \* "none" values
          MaxBroadcasts,  \* bound: broadcasts issued by one caller
          MaxQueue        \* bound: commands waiting in the (unbounded) queue

ASSUME NoneAssumption == NoTopic \notin Topics /\ NoSub \notin Subs
ASSUME BoundAssumption == MaxBroadcasts \in Nat /\ MaxQueue \in Nat

VARIABLES queue,    \* commands sent and not yet popped by the server thread
          pc,       \* server: "recv", "retain", "stopping" or "stopped"
          topics,   \* the topic table; an absent topic has no senders
          cur, pos, \* the message and the place of the retain loop
          chan,     \* chan[s]: everything ever sent on the channel of s
          taken,    \* taken[s]: how much of it the receiver has taken
          phase,    \* phase[s]: the life of subscription s, see Phase
          topicOf,  \* topicOf[s]: the topic of s
          waiting,  \* waiting[c]: the subscription caller c is blocked on
          holds,    \* the callers that still own a handle
          issued,   \* issued[c]: broadcasts caller c has issued
          log,      \* history: the broadcasts popped, per topic, in order
          from      \* history: Len(log) of its topic when s was registered

serverVars == <<pc, topics, cur, pos>>
callerVars == <<waiting, holds, issued>>
subVars    == <<chan, taken, phase, topicOf>>
histVars   == <<log, from>>
vars == <<queue, serverVars, callerVars, subVars, histVars>>

-----------------------------------------------------------------------------
(* A message is identified by who issued it and as which of its broadcasts; *)
(* event name and payload are carried along and never looked at.           *)
Messages == [topic : Topics, by : Callers, nr : 1..MaxBroadcasts]

(* enum PubSubCommand.  The reply sender of a Subscribe is named by the     *)
(* subscription it will answer.                                            *)
Commands == [op : {"Subscribe"}, topic : Topics, sub : Subs]
            \cup [op : {"Broadcast"}, msg : Messages]
            \cup [op : {"Unsubscribe"}, topic : Topics]
            \cup [op : {"Shutdown"}]

(* "unused"    no subscribe call yet                                       *)
(* "requested" the command was sent and the caller waits for the reply     *)
(* "replied"   the receiver is in the reply channel                        *)
(* "open"      the caller has the receiver                                 *)
(* "dropped"   the receiver was dropped                                    *)
(* "ended"     the receiver saw Disconnected                               *)
(* "failed"    subscribe returned None                                     *)
Phase == {"unused", "requested", "replied", "open", "dropped", "ended", "failed"}

ReceiverExists(s) == phase[s] \in {"replied", "open"}

Registered(s) == topicOf[s] \in Topics /\ s \in Range(topics[topicOf[s]])

NoMessage == [topic |-> NoTopic]

Init ==
    /\ queue = << >>
    /\ pc = "recv"
    /\ topics = [t \in Topics |-> << >>]
    /\ cur = NoMessage
    /\ pos = 1
    /\ chan = [s \in Subs |-> << >>]
    /\ taken = [s \in Subs |-> 0]
    /\ phase = [s \in Subs |-> "unused"]
    /\ topicOf = [s \in Subs |-> NoTopic]
    /\ waiting = [c \in Callers |-> NoSub]
    /\ holds = Callers
    /\ issued = [c \in Callers |-> 0]
    /\ log = [t \in Topics |-> << >>]
    /\ from = [s \in Subs |-> 0]

-----------------------------------------------------------------------------
(* The handle, used by any caller that is not blocked in subscribe.        *)

CanCall(c) == c \in holds /\ waiting[c] = NoSub

(* cmd_tx.send: queued while the receiving end exists, otherwise an error. *)
Send(cmd) ==
    IF pc = "stopped"
    THEN UNCHANGED queue
    ELSE Len(queue) < MaxQueue /\ queue' = Append(queue, cmd)

(* subscribe(), up to the blocking receive on the reply channel.           *)
SubscribeCall(c, s, t) ==
    /\ CanCall(c)
    /\ phase[s] = "unused"
    /\ Send([op |-> "Subscribe", topic |-> t, sub |-> s])
    /\ IF pc = "stopped"
       THEN /\ phase' = [phase EXCEPT ![s] = "failed"]
            /\ UNCHANGED <<topicOf, waiting>>
       ELSE /\ phase' = [phase EXCEPT ![s] = "requested"]
            /\ topicOf' = [topicOf EXCEPT ![s] = t]
            /\ waiting' = [waiting EXCEPT ![c] = s]
    /\ UNCHANGED <<serverVars, holds, issued, chan, taken, histVars>>

(* Fault: a reply sender that is dropped unanswered does not wake the call. *)
SubscribeReturnOnReplyOnly(c) ==
    LET s == waiting[c] IN
    /\ s # NoSub
    /\ phase[s] = "replied"
    /\ phase' = [phase EXCEPT ![s] = "open"]
    /\ waiting' = [waiting EXCEPT ![c] = NoSub]
    /\ UNCHANGED <<queue, serverVars, holds, issued, chan, taken, topicOf, histVars>>

(* reply_rx.recv().ok(): the receiver, or None once the reply sender is    *)
(* gone with the queue it was waiting in.                                  *)
SubscribeReturn(c) ==
    LET s == waiting[c] IN
    /\ s # NoSub
    /\ \/ /\ phase[s] = "replied"
          /\ phase' = [phase EXCEPT ![s] = "open"]
       \/ /\ phase[s] = "requested"
          /\ pc = "stopped"
          /\ phase' = [phase EXCEPT ![s] = "failed"]
    /\ waiting' = [waiting EXCEPT ![c] = NoSub]
    /\ UNCHANGED <<queue, serverVars, holds, issued, chan, taken, topicOf, histVars>>

(* broadcast() and broadcast_arc(): fire and forget.                       *)
BroadcastCall(c, t) ==
    /\ CanCall(c)
    /\ issued[c] < MaxBroadcasts
    /\ issued' = [issued EXCEPT ![c] = @ + 1]
    /\ Send([op |-> "Broadcast",
             msg |-> [topic |-> t, by |-> c, nr |-> issued[c] + 1]])
    /\ UNCHANGED <<serverVars, waiting, holds, subVars, histVars>>

UnsubscribeCall(c, t) ==
    /\ CanCall(c)
    /\ Send([op |-> "Unsubscribe", topic |-> t])
    /\ UNCHANGED <<serverVars, callerVars, subVars, histVars>>

ShutdownCall(c) ==
    /\ CanCall(c)
    /\ Send([op |-> "Shutdown"])
    /\ UNCHANGED <<serverVars, callerVars, subVars, histVars>>

(* The caller drops its clone of the handle.                               *)
DropHandle(c) ==
    /\ CanCall(c)
    /\ holds' = holds \ {c}
    /\ UNCHANGED <<queue, serverVars, waiting, issued, subVars, histVars>>

-----------------------------------------------------------------------------
(* The receiving end of a subscription, on whatever thread it lives.       *)

Receive(s) ==
    /\ phase[s] = "open"
    /\ taken[s] < Len(chan[s])
    /\ taken' = [taken EXCEPT ![s] = @ + 1]
    /\ UNCHANGED <<queue, serverVars, callerVars, chan, phase, topicOf, histVars>>

Disconnected(s) ==
    /\ phase[s] = "open"
    /\ taken[s] = Len(chan[s])
    /\ ~Registered(s)
    /\ phase' = [phase EXCEPT ![s] = "ended"]
    /\ UNCHANGED <<queue, serverVars, callerVars, chan, taken, topicOf, histVars>>

DropReceiver(s) ==
    /\ phase[s] = "open"
    /\ phase' = [phase EXCEPT ![s] = "dropped"]
    /\ UNCHANGED <<queue, serverVars, callerVars, chan, taken, topicOf, histVars>>

-----------------------------------------------------------------------------
(* The server thread: run_server and handle_command.                       *)

Popped(op) ==
    /\ pc = "recv"
    /\ queue # << >>
    /\ Head(queue).op = op
    /\ queue' = Tail(queue)

(* Fault: the new sender replaces those the topic has.                     *)
HandleSubscribeReplaces ==
    /\ Popped("Subscribe")
    /\ LET s == Head(queue).sub
           t == Head(queue).topic
       IN  /\ topics' = [topics EXCEPT ![t] = <<s>>]
           /\ phase' = [phase EXCEPT ![s] = "replied"]
           /\ from' = [from EXCEPT ![s] = Len(log[t])]
    /\ UNCHANGED <<pc, cur, pos, callerVars, chan, taken, topicOf, log>>

(* The sender is pushed first, then the receiver goes into the reply       *)
(* channel; the caller is still blocked on it, so the send succeeds.       *)
HandleSubscribe ==
    /\ Popped("Subscribe")
    /\ LET s == Head(queue).sub
           t == Head(queue).topic
       IN  /\ topics' = [topics EXCEPT ![t] = Append(@, s)]
           /\ phase' = [phase EXCEPT ![s] = "replied"]
           /\ from' = [from EXCEPT ![s] = Len(log[t])]
    /\ UNCHANGED <<pc, cur, pos, callerVars, chan, taken, topicOf, log>>

(* The retain loop starts, unless the topic is absent.                     *)
HandleBroadcast ==
    /\ Popped("Broadcast")
    /\ LET m == Head(queue).msg
       IN  /\ log' = [log EXCEPT ![m.topic] = Append(@, m)]
           /\ IF topics[m.topic] = << >>
              THEN UNCHANGED <<pc, cur>>
              ELSE pc' = "retain" /\ cur' = m
    /\ UNCHANGED <<topics, pos, callerVars, subVars, from>>

(* Fault: the loop advances over the place a dead sender was removed from. *)
RetainStepSkips ==
    /\ pc = "retain"
    /\ pos <= Len(topics[cur.topic])
    /\ LET s == topics[cur.topic][pos]
       IN  IF ReceiverExists(s)
           THEN chan' = [chan EXCEPT ![s] = Append(@, cur)] /\ UNCHANGED topics
           ELSE topics' = [topics EXCEPT ![cur.topic] = RemoveAt(@, pos)] /\ UNCHANGED chan
    /\ pos' = pos + 1
    /\ UNCHANGED <<queue, pc, cur, callerVars, taken, phase, topicOf, histVars>>

(* Fault: the loop starts again after the removal of a dead sender.        *)
RetainStepRestarts ==
    /\ pc = "retain"
    /\ pos <= Len(topics[cur.topic])
    /\ LET s == topics[cur.topic][pos]
       IN  IF ReceiverExists(s)
           THEN /\ chan' = [chan EXCEPT ![s] = Append(@, cur)]
                /\ pos' = pos + 1
                /\ UNCHANGED topics
           ELSE /\ topics' = [topics EXCEPT ![cur.topic] = RemoveAt(@, pos)]
                /\ pos' = 1
                /\ UNCHANGED chan
    /\ UNCHANGED <<queue, pc, cur, callerVars, taken, phase, topicOf, histVars>>

(* Fault: a receiver that has not taken the last message misses this one.  *)
RetainStepMissesBusy ==
    /\ pc = "retain"
    /\ pos <= Len(topics[cur.topic])
    /\ LET s == topics[cur.topic][pos]
       IN  IF ReceiverExists(s)
           THEN /\ chan' = IF taken[s] < Len(chan[s]) THEN chan
                           ELSE [chan EXCEPT ![s] = Append(@, cur)]
                /\ pos' = pos + 1
                /\ UNCHANGED topics
           ELSE /\ topics' = [topics EXCEPT ![cur.topic] = RemoveAt(@, pos)]
                /\ UNCHANGED <<chan, pos>>
    /\ UNCHANGED <<queue, pc, cur, callerVars, taken, phase, topicOf, histVars>>

(* Fault: one dead sender takes its whole topic out of the table.          *)
RetainStepClears ==
    /\ pc = "retain"
    /\ pos <= Len(topics[cur.topic])
    /\ LET s == topics[cur.topic][pos]
       IN  IF ReceiverExists(s)
           THEN chan' = [chan EXCEPT ![s] = Append(@, cur)] /\ UNCHANGED topics
           ELSE topics' = [topics EXCEPT ![cur.topic] = << >>] /\ UNCHANGED chan
    /\ pos' = pos + 1
    /\ UNCHANGED <<queue, pc, cur, callerVars, taken, phase, topicOf, histVars>>

(* One sender: the send fails exactly when the receiver is gone, and then  *)
(* the sender is not retained.                                             *)
RetainStep ==
    /\ pc = "retain"
    /\ pos <= Len(topics[cur.topic])
    /\ LET s == topics[cur.topic][pos]
       IN  IF ReceiverExists(s)
           THEN /\ chan' = [chan EXCEPT ![s] = Append(@, cur)]
                /\ pos' = pos + 1
                /\ UNCHANGED topics
           ELSE /\ topics' = [topics EXCEPT ![cur.topic] = RemoveAt(@, pos)]
                /\ UNCHANGED <<chan, pos>>
    /\ UNCHANGED <<queue, pc, cur, callerVars, taken, phase, topicOf, histVars>>

(* Every sender was visited; a topic left without senders is removed.      *)
RetainDone ==
    /\ pc = "retain"
    /\ pos > Len(topics[cur.topic])
    /\ pc' = "recv"
    /\ cur' = NoMessage
    /\ pos' = 1
    /\ UNCHANGED <<queue, topics, callerVars, subVars, histVars>>

(* The senders are dropped and the topic removed, live receivers or not.   *)
HandleUnsubscribe ==
    /\ Popped("Unsubscribe")
    /\ topics' = [topics EXCEPT ![Head(queue).topic] = << >>]
    /\ UNCHANGED <<pc, cur, pos, callerVars, subVars, histVars>>

(* handle_command returns true; run_server returns and drops its locals,   *)
(* the topic table first.                                                  *)
HandleShutdown ==
    /\ Popped("Shutdown")
    /\ pc' = "stopping"
    /\ topics' = [t \in Topics |-> << >>]
    /\ UNCHANGED <<cur, pos, callerVars, subVars, histVars>>

(* recv returns Err: every handle is gone and the queue is empty.          *)
AllHandlesDropped ==
    /\ pc = "recv"
    /\ queue = << >>
    /\ holds = {}
    /\ pc' = "stopping"
    /\ topics' = [t \in Topics |-> << >>]
    /\ UNCHANGED <<queue, cur, pos, callerVars, subVars, histVars>>

(* The queue's receiving end is dropped last, with the commands in it and  *)
(* the reply senders they carry.                                           *)
ServerStopped ==
    /\ pc = "stopping"
    /\ pc' = "stopped"
    /\ queue' = << >>
    /\ UNCHANGED <<topics, cur, pos, callerVars, subVars, histVars>>

-----------------------------------------------------------------------------
ServerStep ==
    \/ HandleSubscribe \/ HandleBroadcast \/ RetainStep \/ RetainDone
    \/ HandleUnsubscribe \/ HandleShutdown \/ AllHandlesDropped \/ ServerStopped

Next ==
    \/ ServerStep
    \/ \E c \in Callers :
         \/ \E s \in Subs, t \in Topics : SubscribeCall(c, s, t)
         \/ SubscribeReturn(c)
         \/ \E t \in Topics : BroadcastCall(c, t) \/ UnsubscribeCall(c, t)
         \/ ShutdownCall(c)
         \/ DropHandle(c)
    \/ \E s \in Subs : Receive(s) \/ Disconnected(s) \/ DropReceiver(s)

Spec == Init /\ [][Next]_vars

(* The server thread is scheduled by the operating system and never waits  *)
(* for anyone but its queue; a caller blocked in recv is woken by it; a    *)
(* receiver's owner keeps taking what arrives.                             *)
Fairness ==
    /\ WF_vars(ServerStep)
    /\ \A c \in Callers : WF_vars(SubscribeReturn(c))
    /\ \A s \in Subs : WF_vars(Receive(s))
-----------------------------------------------------------------------------
(* The type invariant: what every variable of the server, the callers and  *)
(* the receivers ranges over.                                              *)
TypeOK ==
    /\ queue \in Seq(Commands)
    /\ pc \in {"recv", "retain", "stopping", "stopped"}
    /\ topics \in [Topics -> Seq(Subs)]
    /\ cur \in Messages \cup {NoMessage}
    /\ pos \in Nat \ {0}
    /\ chan \in [Subs -> Seq(Messages)]
    /\ taken \in [Subs -> Nat]
    /\ phase \in [Subs -> Phase]
    /\ topicOf \in [Subs -> Topics \cup {NoTopic}]
    /\ waiting \in [Callers -> Subs \cup {NoSub}]
    /\ holds \subseteq Callers
    /\ issued \in [Callers -> Nat]
    /\ log \in [Topics -> Seq(Messages)]
    /\ from \in [Subs -> Nat]

(* The length the channel of the i-th sender of topic t must have: it is   *)
(* behind by the message the retain loop has not yet brought to it.        *)
Due(t, i) ==
    IF pc = "retain" /\ cur.topic = t /\ i >= pos THEN Len(log[t]) - 1 ELSE Len(log[t])

(* handle_command, Broadcast arm.  What is sent to a receiver is exactly   *)
(* the part of its topic's broadcasts that were popped after it was        *)
(* registered: nothing lost, doubled, reordered or taken from another      *)
(* topic, whichever receivers come, go and are purged during the retain    *)
(* loop; and a receiver that is still in the table is up to date.          *)
GapFree ==
    /\ \A s \in Subs : topicOf[s] \in Topics =>
         /\ from[s] + Len(chan[s]) <= Len(log[topicOf[s]])
         /\ \A i \in 1..Len(chan[s]) : chan[s][i] = log[topicOf[s]][from[s] + i]
    /\ \A t \in Topics : \A i \in 1..Len(topics[t]) :
         LET s == topics[t][i] IN
         ReceiverExists(s) => from[s] + Len(chan[s]) = Due(t, i)

(* One caller's broadcasts reach every receiver in the order in which that *)
(* caller issued them.                                                     *)
CallerOrder ==
    \A s \in Subs : \A i, j \in 1..Len(chan[s]) :
        i < j /\ chan[s][i].by = chan[s][j].by => chan[s][i].nr < chan[s][j].nr

(* A sender whose receiver still exists leaves the topic table only for an *)
(* explicit reason: an Unsubscribe of its topic, a Shutdown, or the end of *)
(* the last handle.  In particular the purge of dead senders in a retain   *)
(* loop never takes a living one with it.  (That an Unsubscribe cuts the   *)
(* living is what the code does and not what its documents say: see        *)
(* UnsubscribeSparesLiving.)                                               *)
CutOnlyOnRequest ==
    [][\A s \in Subs :
         ReceiverExists(s) /\ Registered(s) /\ ~Registered(s)' =>
            \/ HandleShutdown
            \/ AllHandlesDropped
            \/ HandleUnsubscribe /\ Head(queue).topic = topicOf[s]]_vars

(* A thread blocked in subscribe() is always released, with a receiver or  *)
(* with None, whatever happens to the server while its command is queued.  *)
SubscribeReturns == \A c \in Callers : waiting[c] # NoSub ~> waiting[c] = NoSub

(* A broadcast that is in the queue once subscribe has returned reaches    *)
(* the receiver: it is taken, unless the owner drops the receiver or the   *)
(* subscription is cut before the server comes to the broadcast.  A cut,   *)
(* or the end of the server, after that takes nothing back.                *)
BroadcastReceived ==
    \A s \in Subs, c \in Callers, n \in 1..MaxBroadcasts :
        LET m == [topic |-> topicOf[s], by |-> c, nr |-> n] IN
        (/\ phase[s] = "open" /\ Registered(s)
         /\ [op |-> "Broadcast", msg |-> m] \in Range(queue))
            ~> \/ m \in Range(SubSeq(chan[s], 1, taken[s]))
               \/ phase[s] = "dropped"
               \/ ~Registered(s) /\ m \notin Range(chan[s])

-----------------------------------------------------------------------------
(* What the documents say and the code does not do.                        *)

(* PubSub::unsubscribe, "If there are no remaining subscribers the         *)
(* internal channel is removed": a subscriber that remains keeps its feed, *)
(* whoever calls unsubscribe on its topic.  The Unsubscribe arm clears the *)
(* topic without a look at its receivers.                                  *)
UnsubscribeSparesLiving ==
    [][HandleUnsubscribe =>
         \A s \in Subs : ReceiverExists(s) /\ Registered(s) => Registered(s)']_vars

-----------------------------------------------------------------------------
(* The server implements the abstract feed.                                *)

FeedState(s) ==
    CASE phase[s] \in {"unused", "requested", "failed"} -> "unused"
      [] phase[s] = "dropped" -> "closed"
      [] phase[s] = "ended"   -> "ended"
      [] OTHER -> IF Registered(s) THEN "live" ELSE "cut"

Feed == INSTANCE TopicFeed WITH
    log   <- log,
    feed  <- [s \in Subs |-> FeedState(s)],
    topic <- [s \in Subs |-> IF FeedState(s) = "unused" THEN NoTopic ELSE topicOf[s]],
    from  <- from,
    end   <- [s \in Subs |-> IF FeedState(s) = "cut" THEN from[s] + Len(chan[s]) ELSE 0],
    got   <- [s \in Subs |-> SubSeq(chan[s], 1, taken[s])]

(* Every behaviour of the queue, the retain loop and the receivers is a    *)
(* behaviour of TopicFeed: an in-order, gap-free feed per subscription     *)
(* that, once cut, still hands out all that was published before the cut.  *)
ImplementsFeed == Feed!Spec
=============================================================================
