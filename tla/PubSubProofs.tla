---------------------------- MODULE PubSubProofs ----------------------------
(* Proofs about PubSub, for any number of topics, callers, subscriptions    *)
(* and broadcasts: its invariants, and that it implements TopicFeed.        *)
EXTENDS PubSub, SequenceTheorems, TLAPS

(* RemoveAt, used by the retain loop for a dead sender, gives the sequence  *)
(* without its i-th element.                                                *)
LEMMA RemoveAtFacts ==
    ASSUME NEW S, NEW q \in Seq(S), NEW i \in 1..Len(q)
    PROVE  /\ RemoveAt(q, i) \in Seq(S)
           /\ Len(RemoveAt(q, i)) = Len(q) - 1
           /\ \A j \in 1..(Len(q) - 1) :
                RemoveAt(q, i)[j] = IF j < i THEN q[j] ELSE q[j + 1]
<1> DEFINE a == SubSeq(q, 1, i - 1)
           b == SubSeq(q, i + 1, Len(q))
<1>1. \A j \in 1..Len(q) : q[j] \in S
  BY ElementOfSeq
<1>2. a \in Seq(S) /\ Len(a) = i - 1 /\ \A j \in 1..(i - 1) : a[j] = q[j]
  <2>1. \A j \in 1..(i - 1) : q[j] \in S
    BY <1>1
  <2> QED BY <2>1, SubSeqProperties
<1>3. b \in Seq(S) /\ Len(b) = Len(q) - i /\ \A j \in 1..(Len(q) - i) : b[j] = q[i + j]
  <2>1. \A j \in (i + 1)..Len(q) : q[j] \in S
    BY <1>1
  <2> QED BY <2>1, SubSeqProperties
<1> HIDE DEF a, b
<1>4. /\ a \o b \in Seq(S)
      /\ Len(a \o b) = Len(q) - 1
      /\ \A j \in 1..(Len(q) - 1) : (a \o b)[j] = IF j <= i - 1 THEN a[j] ELSE b[j - (i - 1)]
  BY <1>2, <1>3, ConcatProperties, SMTT(30)
<1>5. ASSUME NEW j \in 1..(Len(q) - 1)
      PROVE  (a \o b)[j] = IF j < i THEN q[j] ELSE q[j + 1]
  <2>1. CASE j < i
    <3>1. (a \o b)[j] = a[j]
      BY <1>4, <2>1
    <3> QED BY <1>2, <2>1, <3>1
  <2>2. CASE ~(j < i)
    <3>1. (a \o b)[j] = b[j - (i - 1)]
      BY <1>4, <2>2
    <3>2. j - (i - 1) \in 1..(Len(q) - i) /\ i + (j - (i - 1)) = j + 1
      BY <2>2
    <3>3. b[j - (i - 1)] = q[i + (j - (i - 1))]
      BY <1>3, <3>2
    <3>4. (a \o b)[j] = q[j + 1]
      BY <3>1, <3>2, <3>3
    <3> QED BY <2>2, <3>4
  <2> QED BY <2>1, <2>2
<1> QED BY <1>4, <1>5 DEF RemoveAt, a, b

-----------------------------------------------------------------------------
(* What the commands in the queue carry, by kind.                          *)
LEMMA CommandFacts ==
    ASSUME NEW cmd \in Commands
    PROVE  /\ cmd.op = "Subscribe" => cmd.topic \in Topics /\ cmd.sub \in Subs
           /\ cmd.op = "Broadcast" => cmd.msg \in Messages
           /\ cmd.op = "Unsubscribe" => cmd.topic \in Topics
  BY DEF Commands

(* The fields of a message.                                                 *)
LEMMA MessageFacts ==
    ASSUME NEW m \in Messages
    PROVE  m.topic \in Topics /\ m.by \in Callers /\ m.nr \in 1..MaxBroadcasts
  BY DEF Messages

(* The type invariant is inductive together with: the message of a retain  *)
(* loop that runs is a message.                                            *)
TypeInv == TypeOK /\ (pc = "retain" => cur \in Messages)

(* The variables start within their types.                                  *)
LEMMA TypeInit == Init => TypeInv
  BY BoundAssumption DEF Init, TypeInv, TypeOK, Phase, NoMessage

(* Sending a command keeps the queue a sequence of commands.               *)
LEMMA SendFacts ==
    ASSUME queue \in Seq(Commands), NEW cmd \in Commands, Send(cmd)
    PROVE  queue' \in Seq(Commands)
  BY DEF Send

(* Every step keeps the types.                                              *)
LEMMA TypeStep == TypeInv /\ [Next]_vars => TypeInv'
<1> SUFFICES ASSUME TypeInv, [Next]_vars PROVE TypeInv'
  OBVIOUS
<1> USE DEF TypeInv, TypeOK, serverVars, callerVars, subVars, histVars
<1>1. ASSUME NEW c \in Callers, NEW s \in Subs, NEW t \in Topics, SubscribeCall(c, s, t)
      PROVE  TypeInv'
  <2>1. [op |-> "Subscribe", topic |-> t, sub |-> s] \in Commands
    BY DEF Commands
  <2>2. queue' \in Seq(Commands)
    BY <1>1, <2>1, SendFacts DEF SubscribeCall
  <2> QED BY <1>1, <2>2, ZenonT(30) DEF SubscribeCall, Phase
<1>2. ASSUME NEW c \in Callers, SubscribeReturn(c)
      PROVE  TypeInv'
  <2>1. waiting[c] \in Subs
    BY <1>2 DEF SubscribeReturn
  <2> QED BY <1>2, <2>1 DEF SubscribeReturn, Phase
<1>3. ASSUME NEW c \in Callers, NEW t \in Topics, BroadcastCall(c, t)
      PROVE  TypeInv'
  <2> DEFINE m == [topic |-> t, by |-> c, nr |-> issued[c] + 1]
  <2>1. m \in Messages
    BY <1>3, BoundAssumption DEF BroadcastCall, Messages
  <2>2. [op |-> "Broadcast", msg |-> m] \in Commands
    BY <2>1 DEF Commands
  <2>3. queue' \in Seq(Commands)
    BY <1>3, <2>2, SendFacts DEF BroadcastCall
  <2> QED BY <1>3, <2>3 DEF BroadcastCall
<1>4. ASSUME NEW c \in Callers, NEW t \in Topics, UnsubscribeCall(c, t)
      PROVE  TypeInv'
  <2>1. [op |-> "Unsubscribe", topic |-> t] \in Commands
    BY DEF Commands
  <2>2. queue' \in Seq(Commands)
    BY <1>4, <2>1, SendFacts DEF UnsubscribeCall
  <2> QED BY <1>4, <2>2 DEF UnsubscribeCall
<1>5. ASSUME NEW c \in Callers, ShutdownCall(c)
      PROVE  TypeInv'
  <2>1. [op |-> "Shutdown"] \in Commands
    BY DEF Commands
  <2>2. queue' \in Seq(Commands)
    BY <1>5, <2>1, SendFacts DEF ShutdownCall
  <2> QED BY <1>5, <2>2 DEF ShutdownCall
<1>6. ASSUME NEW c \in Callers, DropHandle(c)
      PROVE  TypeInv'
  BY <1>6 DEF DropHandle
<1>7. ASSUME NEW s \in Subs, Receive(s) \/ Disconnected(s) \/ DropReceiver(s)
      PROVE  TypeInv'
  <2>1. CASE Receive(s)
    BY <2>1 DEF Receive
  <2>2. CASE Disconnected(s)
    BY <2>2 DEF Disconnected, Phase
  <2>3. CASE DropReceiver(s)
    BY <2>3 DEF DropReceiver, Phase
  <2> QED BY <1>7, <2>1, <2>2, <2>3
<1>8. ASSUME NEW op, Popped(op)
      PROVE  /\ queue # << >>
             /\ Head(queue) \in Commands
             /\ queue' \in Seq(Commands)
  BY <1>8 DEF Popped
<1>9. CASE HandleSubscribe
  <2>1. /\ Head(queue).sub \in Subs /\ Head(queue).topic \in Topics
        /\ queue' \in Seq(Commands)
    BY <1>8, <1>9, CommandFacts DEF HandleSubscribe, Popped
  <2>2. topics' \in [Topics -> Seq(Subs)]
    BY <1>9, <2>1 DEF HandleSubscribe
  <2>3. phase' \in [Subs -> Phase]
    BY <1>9, <2>1 DEF HandleSubscribe, Phase
  <2>4. from' \in [Subs -> Nat]
    BY <1>9, <2>1 DEF HandleSubscribe
  <2> QED BY <1>9, <2>1, <2>2, <2>3, <2>4 DEF HandleSubscribe
<1>10. CASE HandleBroadcast
  <2>1. Head(queue).msg \in Messages /\ queue' \in Seq(Commands)
    BY <1>8, <1>10, CommandFacts DEF HandleBroadcast, Popped
  <2>2. Head(queue).msg.topic \in Topics
    BY <2>1, MessageFacts
  <2>3. log' \in [Topics -> Seq(Messages)]
    BY <1>10, <2>1, <2>2 DEF HandleBroadcast
  <2>4. /\ pc' \in {"recv", "retain"}
        /\ cur' \in Messages \cup {NoMessage}
        /\ pc' = "retain" => cur' \in Messages
    BY <1>10, <2>1 DEF HandleBroadcast, Popped
  <2> QED BY <1>10, <2>1, <2>3, <2>4 DEF HandleBroadcast
<1>11. CASE RetainStep
  <2>1. cur \in Messages /\ cur.topic \in Topics
    BY <1>11, MessageFacts DEF RetainStep
  <2>2. pos \in 1..Len(topics[cur.topic]) /\ topics[cur.topic] \in Seq(Subs)
    BY <1>11, <2>1 DEF RetainStep
  <2>3. topics[cur.topic][pos] \in Subs
    BY <2>2
  <2>4. RemoveAt(topics[cur.topic], pos) \in Seq(Subs)
    BY <2>2, RemoveAtFacts
  <2>5. topics' \in [Topics -> Seq(Subs)]
    BY <1>11, <2>1, <2>4 DEF RetainStep
  <2>6. chan' \in [Subs -> Seq(Messages)] /\ pos' \in Nat \ {0}
    <3>1. CASE ReceiverExists(topics[cur.topic][pos])
      <4>1. /\ chan' = [chan EXCEPT ![topics[cur.topic][pos]] = Append(@, cur)]
            /\ pos' = pos + 1
        BY <1>11, <3>1 DEF RetainStep
      <4> QED BY <2>1, <2>3, <4>1
    <3>2. CASE ~ReceiverExists(topics[cur.topic][pos])
      BY <1>11, <3>2 DEF RetainStep
    <3> QED BY <3>1, <3>2
  <2> QED BY <1>11, <2>1, <2>5, <2>6 DEF RetainStep
<1>12. CASE RetainDone
  BY <1>12 DEF RetainDone
<1>13. CASE HandleUnsubscribe
  <2>1. Head(queue).topic \in Topics /\ queue' \in Seq(Commands)
    BY <1>8, <1>13, CommandFacts DEF HandleUnsubscribe, Popped
  <2> QED BY <1>13, <2>1 DEF HandleUnsubscribe
<1>14. CASE HandleShutdown
  <2>1. queue' \in Seq(Commands)
    BY <1>8, <1>14 DEF HandleShutdown
  <2> QED BY <1>14, <2>1 DEF HandleShutdown
<1>15. CASE AllHandlesDropped
  BY <1>15 DEF AllHandlesDropped
<1>16. CASE ServerStopped
  BY <1>16 DEF ServerStopped
<1>17. CASE UNCHANGED vars
  BY <1>17 DEF vars
<1> QED
  BY <1>1, <1>2, <1>3, <1>4, <1>5, <1>6, <1>7, <1>9, <1>10, <1>11, <1>12, <1>13,
     <1>14, <1>15, <1>16, <1>17 DEF Next, ServerStep

(* Type correctness of the PubSub server, its callers and its receivers.   *)
THEOREM TypeCorrect == Spec => []TypeOK
<1>1. TypeInv => TypeOK
  BY DEF TypeInv
<1> QED BY <1>1, TypeInit, TypeStep, PTL DEF Spec

-----------------------------------------------------------------------------
(* GapFree is not inductive: that a sender is up to date says nothing of   *)
(* which message the retain loop brings next, nor that a new subscription  *)
(* starts with an empty channel, nor that no sender occurs twice.          *)

(* A queued Subscribe belongs to a call that waits for it, and to one only. *)
QueueInv ==
    /\ \A i \in 1..Len(queue) : queue[i].op = "Subscribe" =>
         /\ phase[queue[i].sub] = "requested"
         /\ topicOf[queue[i].sub] = queue[i].topic
    /\ \A i, j \in 1..Len(queue) :
         (/\ queue[i].op = "Subscribe" /\ queue[j].op = "Subscribe"
          /\ queue[i].sub = queue[j].sub) => i = j
    /\ pc = "stopped" => queue = << >>

(* A topic lists the senders of its own subscriptions, each of them once.  *)
TableInv ==
    \A t \in Topics :
        /\ \A i \in 1..Len(topics[t]) :
             /\ topicOf[topics[t][i]] = t
             /\ phase[topics[t][i]] \in {"replied", "open", "dropped"}
        /\ \A i, j \in 1..Len(topics[t]) : topics[t][i] = topics[t][j] => i = j

(* Nothing is sent to a subscription before it is registered.              *)
FreshInv ==
    \A s \in Subs : phase[s] \in {"unused", "requested"} => chan[s] = << >> /\ from[s] = 0

(* The retain loop distributes the last message of its topic's log, and    *)
(* between two loops the index is at the first sender.                     *)
RetainInv ==
    /\ pc = "retain" => /\ log[cur.topic] # << >>
                        /\ cur = log[cur.topic][Len(log[cur.topic])]
    /\ pc # "retain" => pos = 1

(* The two halves of GapFree.                                              *)
ContentInv ==
    \A s \in Subs : topicOf[s] \in Topics =>
        /\ from[s] + Len(chan[s]) <= Len(log[topicOf[s]])
        /\ \A i \in 1..Len(chan[s]) : chan[s][i] = log[topicOf[s]][from[s] + i]

UpToDateInv ==
    \A t \in Topics : \A i \in 1..Len(topics[t]) :
        ReceiverExists(topics[t][i]) =>
            from[topics[t][i]] + Len(chan[topics[t][i]]) = Due(t, i)

IInv == TypeInv /\ QueueInv /\ TableInv /\ FreshInv /\ RetainInv /\ ContentInv /\ UpToDateInv

(* The invariant holds at the start.                                        *)
LEMMA IInvInit == Init => IInv
<1> SUFFICES ASSUME Init PROVE IInv
  OBVIOUS
<1>1. TypeInv
  BY TypeInit
<1> QED BY <1>1, NoneAssumption DEF Init, IInv, QueueInv, TableInv, FreshInv, RetainInv, ContentInv,
                    UpToDateInv

(* Everything the invariant says of the table and the channels survives a  *)
(* step that leaves them alone and ends no receiver's existence in a way   *)
(* that GapFree could notice.                                              *)
LEMMA TableUntouched ==
    ASSUME IInv, TypeInv',
           UNCHANGED <<serverVars, chan, log, from>>,
           \A s \in Subs : \/ topicOf'[s] = topicOf[s]
                           \/ phase[s] = "unused" /\ phase'[s] = "requested",
           \A s \in Subs : phase'[s] \in {"unused", "requested"} =>
                             phase[s] \in {"unused", "requested"},
           \A s \in Subs : phase[s] \in {"replied", "open", "dropped"} =>
                             \/ phase'[s] \in {"replied", "open", "dropped"}
                             \/ ~Registered(s),
           \A s \in Subs : ReceiverExists(s)' /\ Registered(s) => ReceiverExists(s)
    PROVE  TableInv' /\ FreshInv' /\ RetainInv' /\ ContentInv' /\ UpToDateInv'
<1> USE DEF serverVars
<1>1. \A t \in Topics : \A i \in 1..Len(topics[t]) :
        topics[t][i] \in Subs /\ topicOf[topics[t][i]] = t /\ Registered(topics[t][i])
  BY DEF IInv, TypeInv, TypeOK, TableInv, Registered, Range
<1>2. TableInv'
  <2>1. ASSUME NEW t \in Topics, NEW i \in 1..Len(topics[t])
        PROVE  /\ topicOf'[topics[t][i]] = t
               /\ phase'[topics[t][i]] \in {"replied", "open", "dropped"}
    <3>1. /\ topics[t][i] \in Subs /\ topicOf[topics[t][i]] = t /\ Registered(topics[t][i])
          /\ phase[topics[t][i]] \in {"replied", "open", "dropped"}
      BY <1>1 DEF IInv, TableInv
    <3> QED BY <3>1
  <2> QED BY <2>1 DEF IInv, TableInv
<1>3. FreshInv'
  BY DEF IInv, FreshInv
<1>4. RetainInv'
  BY DEF IInv, RetainInv
<1>5. ContentInv'
  <2> SUFFICES ASSUME NEW s \in Subs, topicOf'[s] \in Topics
               PROVE  /\ from[s] + Len(chan[s]) <= Len(log[topicOf'[s]])
                      /\ \A i \in 1..Len(chan[s]) : chan[s][i] = log[topicOf'[s]][from[s] + i]
    BY DEF ContentInv
  <2>1. CASE topicOf'[s] = topicOf[s]
    BY <2>1 DEF IInv, ContentInv
  <2>2. CASE phase[s] = "unused"
    <3>1. chan[s] = << >> /\ from[s] = 0
      BY <2>2 DEF IInv, FreshInv
    <3>2. Len(log[topicOf'[s]]) \in Nat
      BY DEF IInv, TypeInv, TypeOK
    <3> QED BY <3>1, <3>2
  <2> QED BY <2>1, <2>2
<1>6. UpToDateInv'
  BY <1>1 DEF IInv, UpToDateInv, Due
<1> QED BY <1>2, <1>3, <1>4, <1>5, <1>6

(* A sender in the table belongs to a subscription that was answered.      *)
LEMMA RegisteredPhase ==
    ASSUME TypeInv, TableInv, NEW s \in Subs, Registered(s)
    PROVE  phase[s] \in {"replied", "open", "dropped"}
<1>1. topicOf[s] \in Topics /\ topics[topicOf[s]] \in Seq(Subs)
  BY DEF TypeInv, TypeOK, Registered
<1>2. PICK i \in 1..Len(topics[topicOf[s]]) : topics[topicOf[s]][i] = s
  BY <1>1 DEF Registered, Range
<1> QED BY <1>1, <1>2 DEF TableInv

(* The commands in the queue, one by one.                                  *)
LEMMA QueuedSubscribe ==
    ASSUME TypeInv, NEW i \in 1..Len(queue), queue[i].op = "Subscribe"
    PROVE  queue[i].sub \in Subs /\ queue[i].topic \in Topics
<1>1. queue[i] \in Commands
  BY DEF TypeInv, TypeOK
<1> QED BY <1>1, CommandFacts

(* Every step keeps the invariant.                                          *)
LEMMA IInvStep == IInv /\ [Next]_vars => IInv'
<1> SUFFICES ASSUME IInv, [Next]_vars PROVE IInv'
  OBVIOUS
<1>t. TypeInv /\ TypeInv'
  BY TypeStep DEF IInv
<1>1. ASSUME NEW c \in Callers, NEW s \in Subs, NEW t \in Topics, SubscribeCall(c, s, t)
      PROVE  IInv'
  <2> USE DEF TypeInv, TypeOK
  <2>1. \A r \in Subs : r # s => phase'[r] = phase[r] /\ topicOf'[r] = topicOf[r]
    BY <1>1, <1>t DEF SubscribeCall
  <2>2. phase[s] = "unused" /\ phase'[s] \in {"requested", "failed"}
    BY <1>1, <1>t DEF SubscribeCall
  <2>3. phase'[s] = "failed" => topicOf' = topicOf
    BY <1>1, <1>t DEF SubscribeCall
  <2>4. TableInv' /\ FreshInv' /\ RetainInv' /\ ContentInv' /\ UpToDateInv'
    <3>1. UNCHANGED <<serverVars, chan, log, from>>
      BY <1>1 DEF SubscribeCall, histVars
    <3> QED BY <1>t, <2>1, <2>2, <2>3, <3>1, TableUntouched DEF ReceiverExists
  <2>5. QueueInv'
    <3>1. CASE pc = "stopped"
      <4>1. queue' = << >> /\ pc' = pc
        BY <1>1, <3>1 DEF SubscribeCall, Send, IInv, QueueInv, serverVars
      <4> QED BY <4>1 DEF QueueInv
    <3>2. CASE pc # "stopped"
      <4> DEFINE cmd == [op |-> "Subscribe", topic |-> t, sub |-> s]
      <4>1. queue' = Append(queue, cmd) /\ pc' = pc /\ phase'[s] = "requested" /\ topicOf'[s] = t
        BY <1>1, <1>t, <3>2 DEF SubscribeCall, Send, serverVars
      <4>2. /\ queue \in Seq(Commands) /\ Len(queue') = Len(queue) + 1
            /\ \A i \in 1..Len(queue) : queue'[i] = queue[i]
            /\ queue'[Len(queue) + 1] = cmd
        BY <1>t, <4>1
      <4>3. \A i \in 1..Len(queue) : queue[i].op = "Subscribe" =>
              /\ queue[i].sub \in Subs /\ queue[i].sub # s
              /\ phase'[queue[i].sub] = "requested"
              /\ topicOf'[queue[i].sub] = queue[i].topic
        <5> SUFFICES ASSUME NEW i \in 1..Len(queue), queue[i].op = "Subscribe"
                     PROVE  /\ queue[i].sub \in Subs /\ queue[i].sub # s
                            /\ phase'[queue[i].sub] = "requested"
                            /\ topicOf'[queue[i].sub] = queue[i].topic
          OBVIOUS
        <5>1. queue[i].sub \in Subs
          BY <1>t, QueuedSubscribe
        <5>2. phase[queue[i].sub] = "requested" /\ topicOf[queue[i].sub] = queue[i].topic
          BY DEF IInv, QueueInv
        <5> QED BY <2>1, <2>2, <5>1, <5>2
      <4>4. cmd.op = "Subscribe" /\ cmd.sub = s /\ cmd.topic = t
        OBVIOUS
      <4> HIDE DEF cmd
      <4>5. \A i \in 1..Len(queue') : queue'[i].op = "Subscribe" =>
              /\ phase'[queue'[i].sub] = "requested"
              /\ topicOf'[queue'[i].sub] = queue'[i].topic
        BY <4>1, <4>2, <4>3, <4>4
      <4>6. \A i, j \in 1..Len(queue) :
              (/\ queue[i].op = "Subscribe" /\ queue[j].op = "Subscribe"
               /\ queue[i].sub = queue[j].sub) => i = j
        BY DEF IInv, QueueInv
      <4>7. \A i, j \in 1..Len(queue') :
              (/\ queue'[i].op = "Subscribe" /\ queue'[j].op = "Subscribe"
               /\ queue'[i].sub = queue'[j].sub) => i = j
        BY <4>2, <4>3, <4>4, <4>6
      <4> QED BY <3>2, <4>1, <4>5, <4>7 DEF QueueInv
    <3> QED BY <3>1, <3>2
  <2> QED BY <1>t, <2>4, <2>5 DEF IInv
<1>2. ASSUME NEW c \in Callers, SubscribeReturn(c)
      PROVE  IInv'
  <2> USE DEF TypeInv, TypeOK
  <2> DEFINE s == waiting[c]
  <2>1. s \in Subs
    BY <1>2, <1>t DEF SubscribeReturn
  <2>2. /\ \A r \in Subs : r # s => phase'[r] = phase[r]
        /\ \/ phase[s] = "replied" /\ phase'[s] = "open"
           \/ phase[s] = "requested" /\ phase'[s] = "failed" /\ pc = "stopped"
    BY <1>2, <1>t, <2>1 DEF SubscribeReturn
  <2>3. UNCHANGED <<queue, serverVars, chan, log, from, topicOf>>
    BY <1>2 DEF SubscribeReturn, histVars
  <2> HIDE DEF s
  <2>4. TableInv' /\ FreshInv' /\ RetainInv' /\ ContentInv' /\ UpToDateInv'
    <3>1. phase[s] = "requested" => ~Registered(s)
      BY <2>1, RegisteredPhase DEF IInv
    <3> QED BY <1>t, <2>1, <2>2, <2>3, <3>1, TableUntouched DEF ReceiverExists
  <2>5. QueueInv'
    <3>1. \A i \in 1..Len(queue) : queue[i].op = "Subscribe" => queue[i].sub \in Subs
      BY <1>t, CommandFacts
    <3> QED BY <2>1, <2>2, <2>3, <3>1 DEF IInv, QueueInv, serverVars
  <2> QED BY <1>t, <2>4, <2>5 DEF IInv
<1>3. ASSUME NEW cmd \in Commands, cmd.op # "Subscribe", Send(cmd),
             UNCHANGED <<serverVars, subVars, histVars>>
      PROVE  IInv'
  <2> USE DEF TypeInv, TypeOK
  <2>1. TableInv' /\ FreshInv' /\ RetainInv' /\ ContentInv' /\ UpToDateInv'
    BY <1>3, <1>t, TableUntouched DEF ReceiverExists, subVars, histVars
  <2>2. QueueInv'
    <3>1. CASE pc = "stopped"
      BY <1>3, <3>1 DEF Send, IInv, QueueInv, serverVars, subVars
    <3>2. CASE pc # "stopped"
      <4>1. queue' = Append(queue, cmd) /\ pc' = pc /\ phase' = phase /\ topicOf' = topicOf
        BY <1>3, <3>2 DEF Send, serverVars, subVars
      <4>2. /\ queue \in Seq(Commands) /\ Len(queue') = Len(queue) + 1
            /\ \A i \in 1..Len(queue) : queue'[i] = queue[i]
            /\ queue'[Len(queue) + 1] = cmd
        BY <1>t, <4>1
      <4> QED BY <1>3, <3>2, <4>1, <4>2 DEF IInv, QueueInv
    <3> QED BY <3>1, <3>2
  <2> QED BY <1>t, <2>1, <2>2 DEF IInv
<1>4. ASSUME NEW c \in Callers, NEW t \in Topics, BroadcastCall(c, t)
      PROVE  IInv'
  <2> DEFINE m == [topic |-> t, by |-> c, nr |-> issued[c] + 1]
             cmd == [op |-> "Broadcast", msg |-> m]
  <2>1. m \in Messages
    BY <1>4, <1>t, BoundAssumption DEF BroadcastCall, Messages, TypeInv, TypeOK
  <2>2. cmd \in Commands /\ cmd.op # "Subscribe"
    BY <2>1 DEF Commands
  <2>3. Send(cmd) /\ UNCHANGED <<serverVars, subVars, histVars>>
    BY <1>4 DEF BroadcastCall
  <2> QED BY <1>3, <2>2, <2>3
<1>5. ASSUME NEW c \in Callers, NEW t \in Topics, UnsubscribeCall(c, t)
      PROVE  IInv'
  <2> DEFINE cmd == [op |-> "Unsubscribe", topic |-> t]
  <2>1. cmd \in Commands /\ cmd.op # "Subscribe"
    BY DEF Commands
  <2>2. Send(cmd) /\ UNCHANGED <<serverVars, subVars, histVars>>
    BY <1>5 DEF UnsubscribeCall
  <2> QED BY <1>3, <2>1, <2>2
<1>6. ASSUME NEW c \in Callers, ShutdownCall(c)
      PROVE  IInv'
  <2> DEFINE cmd == [op |-> "Shutdown"]
  <2>1. cmd \in Commands /\ cmd.op # "Subscribe"
    BY DEF Commands
  <2>2. Send(cmd) /\ UNCHANGED <<serverVars, subVars, histVars>>
    BY <1>6 DEF ShutdownCall
  <2> QED BY <1>3, <2>1, <2>2
<1>7. ASSUME NEW c \in Callers, DropHandle(c)
      PROVE  IInv'
  BY <1>7, <1>t, TableUntouched
     DEF DropHandle, IInv, QueueInv, serverVars, subVars, histVars, ReceiverExists
<1>8. ASSUME NEW s \in Subs, Receive(s)
      PROVE  IInv'
  BY <1>8, <1>t, TableUntouched
     DEF Receive, IInv, QueueInv, serverVars, histVars, ReceiverExists
<1>9. ASSUME NEW s \in Subs, Disconnected(s) \/ DropReceiver(s)
      PROVE  IInv'
  <2>1. /\ phase[s] = "open"
        /\ \A r \in Subs : r # s => phase'[r] = phase[r]
        /\ phase'[s] = "dropped" \/ (phase'[s] = "ended" /\ ~Registered(s))
        /\ UNCHANGED <<queue, serverVars, chan, log, from, topicOf>>
    BY <1>9, <1>t DEF Disconnected, DropReceiver, histVars, TypeInv, TypeOK
  <2>2. TableInv' /\ FreshInv' /\ RetainInv' /\ ContentInv' /\ UpToDateInv'
    BY <1>t, <2>1, TableUntouched DEF ReceiverExists
  <2>3. QueueInv'
    <3>1. \A i \in 1..Len(queue) : queue[i].op = "Subscribe" =>
            queue[i].sub \in Subs /\ queue[i].sub # s
      BY <1>t, <2>1, QueuedSubscribe DEF IInv, QueueInv
    <3> QED BY <2>1, <3>1 DEF IInv, QueueInv, serverVars
  <2> QED BY <1>t, <2>2, <2>3 DEF IInv
<1>10. ASSUME NEW op, Popped(op)
       PROVE  /\ queue # << >> /\ Head(queue) = queue[1] /\ 1 \in 1..Len(queue)
              /\ Len(queue') = Len(queue) - 1
              /\ \A i \in 1..Len(queue') : queue'[i] = queue[i + 1] /\ i + 1 \in 1..Len(queue)
  BY <1>10, <1>t DEF Popped, TypeInv, TypeOK
(* Popping a command leaves the queue as it should be, if the subscription *)
(* it names is the only one that moves on.                                 *)
<1>11. ASSUME NEW op, Popped(op), topicOf' = topicOf, pc' # "stopped",
              \A r \in Subs : phase'[r] = phase[r] \/ (op = "Subscribe" /\ r = Head(queue).sub)
       PROVE  QueueInv'
  <2>1. Head(queue).op = op
    BY <1>11 DEF Popped
  <2>2. ASSUME NEW i \in 1..Len(queue'), queue'[i].op = "Subscribe"
        PROVE  /\ phase'[queue'[i].sub] = "requested"
               /\ topicOf'[queue'[i].sub] = queue'[i].topic
    <3>1. /\ i + 1 \in 1..Len(queue) /\ queue'[i] = queue[i + 1] /\ i + 1 # 1
          /\ 1 \in 1..Len(queue) /\ Head(queue) = queue[1]
      BY <1>10, <1>11
    <3>2. queue[i + 1].sub \in Subs
      BY <1>t, <2>2, <3>1, QueuedSubscribe
    <3>3. op = "Subscribe" => queue[i + 1].sub # queue[1].sub
      BY <2>1, <2>2, <3>1 DEF IInv, QueueInv
    <3>4. phase'[queue[i + 1].sub] = phase[queue[i + 1].sub]
      BY <1>11, <3>1, <3>2, <3>3
    <3> QED BY <1>11, <2>2, <3>1, <3>4 DEF IInv, QueueInv
  <2>3. ASSUME NEW i \in 1..Len(queue'), NEW j \in 1..Len(queue'),
               queue'[i].op = "Subscribe", queue'[j].op = "Subscribe",
               queue'[i].sub = queue'[j].sub
        PROVE  i = j
    <3>1. /\ i + 1 \in 1..Len(queue) /\ queue'[i] = queue[i + 1]
          /\ j + 1 \in 1..Len(queue) /\ queue'[j] = queue[j + 1]
      BY <1>10, <1>11
    <3>2. i + 1 = j + 1
      BY <2>3, <3>1 DEF IInv, QueueInv
    <3> QED BY <3>2
  <2> QED BY <1>11, <2>2, <2>3 DEF QueueInv
<1>12. CASE HandleSubscribe
  <2> USE DEF TypeInv, TypeOK
  <2> DEFINE s == Head(queue).sub
             t == Head(queue).topic
  <2>1. /\ s \in Subs /\ t \in Topics
        /\ phase[s] = "requested" /\ topicOf[s] = t
    <3>1. /\ Head(queue) = queue[1] /\ 1 \in 1..Len(queue)
          /\ Head(queue).op = "Subscribe"
      BY <1>10, <1>12 DEF HandleSubscribe, Popped
    <3> QED BY <1>t, <3>1, QueuedSubscribe DEF IInv, QueueInv
  <2>2. /\ pc = "recv" /\ pc' = pc /\ pos' = pos /\ cur' = cur
        /\ chan' = chan /\ log' = log /\ topicOf' = topicOf
        /\ topics' = [topics EXCEPT ![t] = Append(@, s)]
        /\ phase' = [phase EXCEPT ![s] = "replied"]
        /\ from' = [from EXCEPT ![s] = Len(log[t])]
    BY <1>12 DEF HandleSubscribe, Popped
  <2>3. QueueInv'
    <3>1. Popped("Subscribe") /\ pc' # "stopped"
      BY <1>12, <2>2 DEF HandleSubscribe
    <3>2. \A r \in Subs : phase'[r] = phase[r] \/ r = Head(queue).sub
      BY <1>t, <2>2
    <3> QED BY <1>11, <2>2, <3>1, <3>2
  <2> HIDE DEF s, t
  <2>4. \A u \in Topics : u # t => topics'[u] = topics[u]
    BY <1>t, <2>2
  <2>5. /\ topics[t] \in Seq(Subs)
        /\ Len(topics'[t]) = Len(topics[t]) + 1
        /\ topics'[t][Len(topics[t]) + 1] = s
        /\ \A i \in 1..Len(topics[t]) : topics'[t][i] = topics[t][i]
    BY <1>t, <2>1, <2>2
  <2>6. ASSUME NEW u \in Topics, NEW i \in 1..Len(topics[u])
        PROVE  topics[u][i] \in Subs /\ topics[u][i] # s
    <3>1. topics[u] \in Seq(Subs)
      BY <1>t
    <3>2. topics[u][i] \in Subs
      BY <3>1
    <3>3. phase[topics[u][i]] \in {"replied", "open", "dropped"}
      BY DEF IInv, TableInv
    <3> QED BY <2>1, <3>2, <3>3
  <2>7. /\ phase'[s] = "replied" /\ from'[s] = Len(log[t]) /\ chan[s] = << >>
        /\ \A r \in Subs : r # s => phase'[r] = phase[r] /\ from'[r] = from[r]
    BY <1>t, <2>1, <2>2 DEF IInv, FreshInv
  <2>8. TableInv'
    <3> SUFFICES ASSUME NEW u \in Topics
                 PROVE  /\ \A i \in 1..Len(topics'[u]) :
                             /\ topicOf[topics'[u][i]] = u
                             /\ phase'[topics'[u][i]] \in {"replied", "open", "dropped"}
                        /\ \A i, j \in 1..Len(topics'[u]) :
                             topics'[u][i] = topics'[u][j] => i = j
      BY <2>2 DEF TableInv
    <3>1. \A i \in 1..Len(topics[u]) :
            /\ topicOf[topics[u][i]] = u
            /\ phase'[topics[u][i]] \in {"replied", "open", "dropped"}
      BY <2>6, <2>7 DEF IInv, TableInv
    <3>2. \A i, j \in 1..Len(topics[u]) : topics[u][i] = topics[u][j] => i = j
      BY DEF IInv, TableInv
    <3>3. CASE u # t
      BY <2>4, <3>1, <3>2, <3>3
    <3>4. CASE u = t
      <4>1. \A i \in 1..Len(topics'[t]) :
              \/ i \in 1..Len(topics[t]) /\ topics'[t][i] = topics[t][i]
              \/ i = Len(topics[t]) + 1 /\ topics'[t][i] = s
        BY <2>5
      <4>2. \A i \in 1..Len(topics'[t]) :
              /\ topicOf[topics'[t][i]] = t
              /\ phase'[topics'[t][i]] \in {"replied", "open", "dropped"}
        BY <2>1, <2>7, <3>1, <3>4, <4>1
      <4>3. \A i, j \in 1..Len(topics'[t]) : topics'[t][i] = topics'[t][j] => i = j
        BY <2>1, <2>6, <3>2, <3>4, <4>1
      <4> QED BY <3>4, <4>2, <4>3
    <3> QED BY <3>3, <3>4
  <2>9. FreshInv'
    BY <2>2, <2>7 DEF IInv, FreshInv
  <2>10. RetainInv'
    BY <2>2 DEF IInv, RetainInv
  <2>11. ContentInv'
    <3> SUFFICES ASSUME NEW r \in Subs, topicOf[r] \in Topics
                 PROVE  /\ from'[r] + Len(chan[r]) <= Len(log[topicOf[r]])
                        /\ \A i \in 1..Len(chan[r]) : chan[r][i] = log[topicOf[r]][from'[r] + i]
      BY <2>2 DEF ContentInv
    <3>1. CASE r = s
      <4>1. Len(log[t]) \in Nat
        BY <1>t, <2>1
      <4> QED BY <2>1, <2>7, <3>1, <4>1
    <3>2. CASE r # s
      BY <2>7, <3>2 DEF IInv, ContentInv
    <3> QED BY <3>1, <3>2
  <2>12. UpToDateInv'
    <3> SUFFICES ASSUME NEW u \in Topics, NEW i \in 1..Len(topics'[u]),
                        phase'[topics'[u][i]] \in {"replied", "open"}
                 PROVE  from'[topics'[u][i]] + Len(chan[topics'[u][i]]) = Len(log[u])
      BY <2>2 DEF UpToDateInv, Due, ReceiverExists
    <3>1. ASSUME NEW j \in 1..Len(topics[u]), phase'[topics[u][j]] \in {"replied", "open"}
          PROVE  from'[topics[u][j]] + Len(chan[topics[u][j]]) = Len(log[u])
      <4>1. ReceiverExists(topics[u][j])
        BY <2>6, <2>7, <3>1 DEF ReceiverExists
      <4> QED BY <2>2, <2>6, <2>7, <4>1, ZenonT(30) DEF IInv, UpToDateInv, Due
    <3>2. CASE topics'[u][i] = s /\ u = t
      <4>1. Len(log[t]) \in Nat
        BY <1>t, <2>1
      <4> QED BY <2>7, <3>2, <4>1
    <3>3. CASE ~(topics'[u][i] = s /\ u = t)
      <4>1. i \in 1..Len(topics[u]) /\ topics'[u][i] = topics[u][i]
        BY <2>4, <2>5, <3>3
      <4>2. phase'[topics[u][i]] \in {"replied", "open"}
        BY <4>1
      <4> QED BY <3>1, <4>1, <4>2
    <3> QED BY <3>2, <3>3
  <2> QED BY <1>t, <2>3, <2>8, <2>9, <2>10, <2>11, <2>12 DEF IInv
<1>13. CASE HandleBroadcast
  <2> USE DEF TypeInv, TypeOK
  <2> DEFINE m == Head(queue).msg
             t == m.topic
  <2>1. m \in Messages /\ t \in Topics
    <3>1. Head(queue) \in Commands /\ Head(queue).op = "Broadcast"
      BY <1>13, <1>t DEF HandleBroadcast, Popped
    <3>2. m \in Messages
      BY <3>1, CommandFacts
    <3> QED BY <3>2, MessageFacts
  <2>2. /\ pc = "recv" /\ pos' = pos /\ topics' = topics /\ chan' = chan /\ phase' = phase
        /\ topicOf' = topicOf /\ from' = from
        /\ log' = [log EXCEPT ![t] = Append(@, m)]
        /\ IF topics[t] = << >> THEN pc' = pc /\ cur' = cur ELSE pc' = "retain" /\ cur' = m
    BY <1>13 DEF HandleBroadcast, Popped, subVars
  <2>3. QueueInv'
    <3>1. Popped("Broadcast") /\ pc' # "stopped"
      BY <1>13, <2>2 DEF HandleBroadcast
    <3> QED BY <1>11, <2>2, <3>1
  <2> HIDE DEF m, t
  <2>4. /\ log[t] \in Seq(Messages) /\ Len(log'[t]) = Len(log[t]) + 1
        /\ log'[t][Len(log[t]) + 1] = m
        /\ \A i \in 1..Len(log[t]) : log'[t][i] = log[t][i]
        /\ \A u \in Topics : u # t => log'[u] = log[u]
    BY <1>t, <2>1, <2>2
  <2>5. TableInv' /\ FreshInv'
    BY <2>2 DEF IInv, TableInv, FreshInv
  <2>6. m.topic = t
    BY DEF t
  <2>7. RetainInv'
    <3>1. pos = 1
      BY <2>2 DEF IInv, RetainInv
    <3>2. pc' = "retain" => cur' = m
      BY <2>2
    <3>3. log'[t] # << >>
      BY <2>4
    <3> QED BY <2>2, <2>4, <2>6, <3>1, <3>2, <3>3 DEF RetainInv
  <2>8. ContentInv'
    <3> SUFFICES ASSUME NEW s \in Subs, topicOf[s] \in Topics
                 PROVE  /\ from[s] + Len(chan[s]) <= Len(log'[topicOf[s]])
                        /\ \A i \in 1..Len(chan[s]) : chan[s][i] = log'[topicOf[s]][from[s] + i]
      BY <2>2 DEF ContentInv
    <3>1. /\ from[s] + Len(chan[s]) <= Len(log[topicOf[s]])
          /\ \A i \in 1..Len(chan[s]) : chan[s][i] = log[topicOf[s]][from[s] + i]
      BY DEF IInv, ContentInv
    <3>2. from[s] \in Nat /\ Len(chan[s]) \in Nat /\ Len(log[topicOf[s]]) \in Nat
      BY <1>t
    <3>3. CASE topicOf[s] = t
      <4>1. \A i \in 1..Len(chan[s]) : from[s] + i \in 1..Len(log[t])
        BY <3>1, <3>2, <3>3
      <4>2. \A i \in 1..Len(chan[s]) : chan[s][i] = log'[t][from[s] + i]
        BY <2>4, <3>1, <3>3, <4>1
      <4>3. from[s] + Len(chan[s]) <= Len(log'[t])
        BY <2>4, <3>1, <3>2, <3>3
      <4> QED BY <3>3, <4>2, <4>3
    <3>4. CASE topicOf[s] # t
      BY <2>4, <3>1, <3>4
    <3> QED BY <3>3, <3>4
  <2>9. UpToDateInv'
    <3> SUFFICES ASSUME NEW u \in Topics, NEW i \in 1..Len(topics[u]), ReceiverExists(topics[u][i])
                 PROVE  from[topics[u][i]] + Len(chan[topics[u][i]]) = Due(u, i)'
      BY <2>2 DEF UpToDateInv, ReceiverExists
    <3>1. from[topics[u][i]] + Len(chan[topics[u][i]]) = Len(log[u])
      BY <2>2 DEF IInv, UpToDateInv, Due
    <3>2. CASE u = t
      <4>1. topics[t] # << >>
        BY <1>t, <2>1, <3>2
      <4>2. pc' = "retain" /\ cur' = m /\ pos' = 1 /\ i >= pos'
        BY <2>2, <4>1 DEF IInv, RetainInv
      <4>3. Due(u, i)' = Len(log'[t]) - 1
        BY <2>6, <3>2, <4>2 DEF Due
      <4>4. Len(log[t]) \in Nat /\ Len(log'[t]) = Len(log[t]) + 1
        BY <2>4
      <4> QED BY <3>1, <3>2, <4>3, <4>4
    <3>3. CASE u # t
      <4>1. ~(pc' = "retain" /\ cur'.topic = u)
        BY <2>2, <2>6, <3>3
      <4> QED BY <2>4, <3>1, <3>3, <4>1 DEF Due
    <3> QED BY <3>2, <3>3
  <2> QED BY <1>t, <2>3, <2>5, <2>7, <2>8, <2>9 DEF IInv
<1>14. CASE RetainStep
  <2> USE DEF TypeInv, TypeOK
  <2> DEFINE t == cur.topic
             s == topics[t][pos]
  <2>1. /\ cur \in Messages /\ t \in Topics /\ topics[t] \in Seq(Subs)
        /\ pos \in 1..Len(topics[t]) /\ s \in Subs
    <3>1. cur \in Messages
      BY <1>t, <1>14 DEF RetainStep
    <3>2. t \in Topics
      BY <3>1, MessageFacts
    <3>3. topics[t] \in Seq(Subs) /\ pos \in 1..Len(topics[t])
      BY <1>t, <1>14, <3>2 DEF RetainStep
    <3> QED BY <3>1, <3>2, <3>3
  <2>2. /\ pc = "retain" /\ pc' = pc /\ cur' = cur /\ queue' = queue /\ phase' = phase
        /\ topicOf' = topicOf /\ log' = log /\ from' = from
    BY <1>14 DEF RetainStep, histVars
  <2>3. QueueInv'
    BY <2>2 DEF IInv, QueueInv
  <2>4. RetainInv'
    BY <2>2 DEF IInv, RetainInv
  <2>5. topicOf[s] = t /\ phase[s] \in {"replied", "open", "dropped"}
    BY <2>1 DEF IInv, TableInv
  <2>6. CASE ReceiverExists(s)
    <3>1. /\ chan' = [chan EXCEPT ![s] = Append(@, cur)] /\ pos' = pos + 1 /\ topics' = topics
      BY <1>14, <2>6 DEF RetainStep
    <3> HIDE DEF s, t
    <3>2. /\ chan[s] \in Seq(Messages) /\ Len(chan'[s]) = Len(chan[s]) + 1
          /\ chan'[s][Len(chan[s]) + 1] = cur
          /\ \A i \in 1..Len(chan[s]) : chan'[s][i] = chan[s][i]
          /\ \A r \in Subs : r # s => chan'[r] = chan[r]
      BY <1>t, <2>1, <3>1
    <3>3. /\ from[s] + Len(chan[s]) = Len(log[t]) - 1
          /\ from[s] \in Nat /\ Len(log[t]) \in Nat /\ Len(chan[s]) \in Nat
      <4>1. Due(t, pos) = Len(log[t]) - 1
        BY <1>t, <2>2 DEF Due, t
      <4>2. topics[t][pos] = s
        BY DEF s
      <4>3. from[s] + Len(chan[s]) = Due(t, pos)
        BY <2>1, <2>6, <4>2 DEF IInv, UpToDateInv
      <4>4. from[s] \in Nat /\ log[t] \in Seq(Messages) /\ chan[s] \in Seq(Messages)
        BY <1>t, <2>1
      <4>5. Len(log[t]) \in Nat /\ Len(chan[s]) \in Nat
        BY <4>4
      <4> QED BY <4>1, <4>3, <4>4, <4>5
    <3>next. from[s] + (Len(chan[s]) + 1) = Len(log[t])
      BY <3>3
    <3>4. TableInv'
      BY <2>2, <3>1 DEF IInv, TableInv
    <3>5. FreshInv'
      BY <2>1, <2>2, <2>5, <3>2 DEF IInv, FreshInv
    <3>6. ContentInv'
      <4> SUFFICES ASSUME NEW r \in Subs, topicOf[r] \in Topics
                   PROVE  /\ from[r] + Len(chan'[r]) <= Len(log[topicOf[r]])
                          /\ \A i \in 1..Len(chan'[r]) : chan'[r][i] = log[topicOf[r]][from[r] + i]
        BY <2>2 DEF ContentInv
      <4>1. /\ from[r] + Len(chan[r]) <= Len(log[topicOf[r]])
            /\ \A i \in 1..Len(chan[r]) : chan[r][i] = log[topicOf[r]][from[r] + i]
        BY DEF IInv, ContentInv
      <4>2. CASE r # s
        BY <3>2, <4>1, <4>2
      <4>3. CASE r = s
        <5>1. cur = log[t][Len(log[t])]
          BY <2>2 DEF IInv, RetainInv, t
        <5>2. from[s] + (Len(chan[s]) + 1) = Len(log[t])
          BY <3>next
        <5>3. \A i \in 1..Len(chan'[s]) : i \in 1..Len(chan[s]) \/ i = Len(chan[s]) + 1
          BY <3>2
        <5>4. \A i \in 1..Len(chan'[s]) : chan'[s][i] = log[t][from[s] + i]
          BY <2>5, <3>2, <4>1, <4>3, <5>1, <5>2, <5>3
        <5>5. from[s] + Len(chan'[s]) <= Len(log[t])
          BY <3>2, <3>3, <5>2
        <5> QED BY <2>5, <4>3, <5>4, <5>5
      <4> QED BY <4>2, <4>3
    <3>7. UpToDateInv'
      <4> SUFFICES ASSUME NEW u \in Topics, NEW i \in 1..Len(topics[u]), ReceiverExists(topics[u][i])
                   PROVE  from[topics[u][i]] + Len(chan'[topics[u][i]]) = Due(u, i)'
        BY <2>2, <3>1 DEF UpToDateInv, ReceiverExists
      <4>1. topics[u][i] \in Subs /\ topicOf[topics[u][i]] = u
        BY <1>t, SMTT(30) DEF IInv, TableInv
      <4>2. from[topics[u][i]] + Len(chan[topics[u][i]]) = Due(u, i)
        BY DEF IInv, UpToDateInv
      <4>3. CASE topics[u][i] = s
        <5>1. u = t /\ i = pos
          <6>1. u = t
            BY <2>5, <4>1, <4>3
          <6>2. topics[t][pos] = s
            BY DEF s
          <6> QED BY <2>1, <4>3, <6>1, <6>2, SMTT(30) DEF IInv, TableInv
        <5>2. Due(u, i)' = Len(log[t])
          BY <1>t, <2>2, <3>1, <5>1 DEF Due
        <5>3. from[s] + Len(chan'[s]) = Len(log[t])
          <6>1. Len(chan'[s]) = Len(chan[s]) + 1
            BY <3>2
          <6> QED BY <3>next, <6>1
        <5> QED BY <4>3, <5>2, <5>3
      <4>4. CASE topics[u][i] # s
        <5>1. u = t => i # pos
          BY <4>4 DEF s
        <5>2. Due(u, i)' = Due(u, i)
          <6>1. pos \in Nat /\ i \in Nat
            BY <1>t
          <6>2. u = t => (i >= pos <=> i >= pos + 1)
            BY <5>1, <6>1
          <6> QED BY <2>2, <3>1, <6>2 DEF Due, t
        <5> QED BY <3>2, <4>1, <4>2, <4>4, <5>2
      <4> QED BY <4>3, <4>4
    <3> QED BY <1>t, <2>3, <2>4, <3>4, <3>5, <3>6, <3>7 DEF IInv
  <2>7. CASE ~ReceiverExists(s)
    <3>1. /\ topics' = [topics EXCEPT ![t] = RemoveAt(@, pos)] /\ chan' = chan /\ pos' = pos
      BY <1>14, <2>7 DEF RetainStep
    <3> HIDE DEF s, t
    <3>2. /\ Len(topics'[t]) = Len(topics[t]) - 1
          /\ \A j \in 1..(Len(topics[t]) - 1) :
               topics'[t][j] = IF j < pos THEN topics[t][j] ELSE topics[t][j + 1]
          /\ \A u \in Topics : u # t => topics'[u] = topics[u]
      <4>1. topics'[t] = RemoveAt(topics[t], pos)
        BY <1>t, <2>1, <3>1
      <4>2. \A u \in Topics : u # t => topics'[u] = topics[u]
        BY <1>t, <3>1
      <4>3. topics[t] \in Seq(Subs) /\ pos \in 1..Len(topics[t])
        BY <2>1
      <4> QED BY <4>1, <4>2, <4>3, RemoveAtFacts, ZenonT(30)
    (* The place an entry of the new table had in the old one.             *)
    <3> DEFINE old(u, j) == IF u = t /\ ~(j < pos) THEN j + 1 ELSE j
    <3>3. ASSUME NEW u \in Topics, NEW j \in 1..Len(topics'[u])
          PROVE  old(u, j) \in 1..Len(topics[u]) /\ topics'[u][j] = topics[u][old(u, j)]
      <4>1. CASE u # t
        BY <3>2, <4>1
      <4>2. CASE u = t
        <5>1. Len(topics[t]) \in Nat /\ j \in 1..(Len(topics[t]) - 1)
          BY <2>1, <3>2, <4>2
        <5>2. CASE j < pos
          BY <3>2, <4>2, <5>1, <5>2
        <5>3. CASE ~(j < pos)
          <6>1. topics'[t][j] = topics[t][j + 1]
            BY <3>2, <5>1, <5>3
          <6>2. j + 1 \in 1..Len(topics[t])
            BY <5>1
          <6> QED BY <4>2, <5>3, <6>1, <6>2
        <5> QED BY <5>2, <5>3
      <4> QED BY <4>1, <4>2
    <3>4. ASSUME NEW u \in Topics, NEW i \in 1..Len(topics'[u]), NEW j \in 1..Len(topics'[u]),
                 old(u, i) = old(u, j)
          PROVE  i = j
      <4>1. i \in Int /\ j \in Int /\ pos \in Int
        BY <1>t
      <4> QED BY <3>4, <4>1
    <3>5. TableInv'
      <4> SUFFICES ASSUME NEW u \in Topics
                   PROVE  /\ \A i \in 1..Len(topics'[u]) :
                               /\ topicOf[topics'[u][i]] = u
                               /\ phase[topics'[u][i]] \in {"replied", "open", "dropped"}
                          /\ \A i, j \in 1..Len(topics'[u]) :
                               topics'[u][i] = topics'[u][j] => i = j
        BY <2>2 DEF TableInv
      <4>1. \A i \in 1..Len(topics[u]) :
              /\ topicOf[topics[u][i]] = u
              /\ phase[topics[u][i]] \in {"replied", "open", "dropped"}
        BY DEF IInv, TableInv
      <4>2. \A i, j \in 1..Len(topics[u]) : topics[u][i] = topics[u][j] => i = j
        BY DEF IInv, TableInv
      <4> HIDE DEF old
      <4>3. \A i \in 1..Len(topics'[u]) :
              /\ topicOf[topics'[u][i]] = u
              /\ phase[topics'[u][i]] \in {"replied", "open", "dropped"}
        BY <3>3, <4>1
      <4>4. ASSUME NEW i \in 1..Len(topics'[u]), NEW j \in 1..Len(topics'[u]),
                   topics'[u][i] = topics'[u][j]
            PROVE  i = j
        <5>1. old(u, i) = old(u, j)
          BY <3>3, <4>2, <4>4, SMTT(30)
        <5> QED BY <3>4, <5>1
      <4> QED BY <4>3, <4>4
    <3>6. FreshInv' /\ ContentInv'
      BY <2>2, <3>1 DEF IInv, FreshInv, ContentInv
    <3>7. UpToDateInv'
      <4> SUFFICES ASSUME NEW u \in Topics, NEW i \in 1..Len(topics'[u]),
                          phase[topics'[u][i]] \in {"replied", "open"}
                   PROVE  from[topics'[u][i]] + Len(chan[topics'[u][i]]) = Due(u, i)'
        BY <2>2, <3>1 DEF UpToDateInv, ReceiverExists
      <4>1. old(u, i) \in 1..Len(topics[u]) /\ topics'[u][i] = topics[u][old(u, i)]
        BY <3>3
      <4>2. from[topics'[u][i]] + Len(chan[topics'[u][i]]) = Due(u, old(u, i))
        <5> HIDE DEF old
        <5> QED BY <4>1 DEF IInv, UpToDateInv, ReceiverExists
      <4>3. Due(u, i)' = Due(u, old(u, i))
        <5>1. i \in Int /\ pos \in Int
          BY <1>t
        <5>2. u = t => (i >= pos <=> old(u, i) >= pos)
          BY <5>1
        <5> HIDE DEF old
        <5> QED BY <2>2, <3>1, <5>2 DEF Due, t
      <4> QED BY <4>2, <4>3
    <3> QED BY <1>t, <2>3, <2>4, <3>5, <3>6, <3>7 DEF IInv
  <2> QED BY <2>6, <2>7
<1>15. CASE RetainDone
  <2> USE DEF TypeInv, TypeOK
  <2>1. /\ pc = "retain" /\ pc' = "recv" /\ pos' = 1 /\ pos > Len(topics[cur.topic])
        /\ UNCHANGED <<queue, topics, chan, phase, topicOf, log, from>>
    BY <1>15 DEF RetainDone, subVars, histVars
  <2>2. QueueInv' /\ TableInv' /\ FreshInv' /\ RetainInv' /\ ContentInv'
    <3>1. QueueInv'
      BY <2>1, ZenonT(30) DEF IInv, QueueInv
    <3>t. TableInv'
      BY <2>1, ZenonT(30) DEF IInv, TableInv
    <3>2. FreshInv' /\ RetainInv'
      BY <2>1 DEF IInv, FreshInv, RetainInv
    <3>3. ContentInv'
      BY <2>1 DEF IInv, ContentInv
    <3> QED BY <3>1, <3>2, <3>3, <3>t
  <2>3. UpToDateInv'
    <3> SUFFICES ASSUME NEW t \in Topics, NEW i \in 1..Len(topics[t]), ReceiverExists(topics[t][i])
                 PROVE  from[topics[t][i]] + Len(chan[topics[t][i]]) = Len(log[t])
      BY <2>1 DEF UpToDateInv, ReceiverExists, Due
    <3>1. Len(topics[t]) \in Nat /\ pos \in Nat /\ i \in Nat
      BY <1>t
    <3>2. cur.topic = t => ~(i >= pos)
      BY <2>1, <3>1
    <3> QED BY <3>2 DEF IInv, UpToDateInv, Due
  <2> QED BY <1>t, <2>2, <2>3 DEF IInv
(* Dropping senders leaves nothing to be up to date.                       *)
<1>16. ASSUME UNCHANGED <<pos, chan, phase, topicOf, log, from>>, pc \in {"recv", "stopping"},
              pc' # "retain", QueueInv',
              \A t \in Topics : topics'[t] = topics[t] \/ topics'[t] = << >>
       PROVE  IInv'
  <2> USE DEF TypeInv, TypeOK
  <2>1. FreshInv' /\ RetainInv' /\ ContentInv'
    BY <1>16 DEF IInv, FreshInv, RetainInv, ContentInv
  <2>2. ASSUME NEW t \in Topics, NEW i \in 1..Len(topics'[t])
        PROVE  topics'[t] = topics[t] /\ i \in 1..Len(topics[t])
    <3>1. topics'[t] # << >>
      BY <2>2
    <3> QED BY <1>16, <2>2, <3>1
  <2>3. TableInv'
    BY <1>16, <2>2, SMTT(60) DEF IInv, TableInv
  <2>4. UpToDateInv'
    <3> SUFFICES ASSUME NEW t \in Topics, NEW i \in 1..Len(topics'[t]),
                        phase[topics'[t][i]] \in {"replied", "open"}
                 PROVE  from[topics'[t][i]] + Len(chan[topics'[t][i]]) = Len(log[t])
      BY <1>16 DEF UpToDateInv, ReceiverExists, Due
    <3>1. topics'[t] = topics[t] /\ i \in 1..Len(topics[t])
      BY <2>2
    <3> QED BY <1>16, <3>1 DEF IInv, UpToDateInv, ReceiverExists, Due
  <2> QED BY <1>t, <1>16, <2>1, <2>3, <2>4 DEF IInv
<1>17. CASE HandleUnsubscribe
  <2>1. /\ Popped("Unsubscribe") /\ pc = "recv" /\ pc' = pc
        /\ UNCHANGED <<pos, chan, phase, topicOf, log, from>>
        /\ topics' = [topics EXCEPT ![Head(queue).topic] = << >>]
    BY <1>17 DEF HandleUnsubscribe, Popped, subVars, histVars
  <2>2. QueueInv'
    BY <1>11, <2>1
  <2>3. \A t \in Topics : topics'[t] = topics[t] \/ topics'[t] = << >>
    BY <1>t, <2>1 DEF TypeInv, TypeOK
  <2> QED BY <1>16, <2>1, <2>2, <2>3
<1>18. CASE HandleShutdown
  <2>1. /\ Popped("Shutdown") /\ pc = "recv" /\ pc' = "stopping"
        /\ UNCHANGED <<pos, chan, phase, topicOf, log, from>>
        /\ topics' = [t \in Topics |-> << >>]
    BY <1>18 DEF HandleShutdown, Popped, subVars, histVars
  <2>2. QueueInv'
    BY <1>11, <2>1
  <2> QED BY <1>16, <2>1, <2>2
<1>19. CASE AllHandlesDropped
  <2>1. /\ queue' = queue /\ pc = "recv" /\ pc' = "stopping"
        /\ UNCHANGED <<pos, chan, phase, topicOf, log, from>>
        /\ topics' = [t \in Topics |-> << >>]
    BY <1>19 DEF AllHandlesDropped, subVars, histVars
  <2>2. QueueInv'
    BY <2>1 DEF IInv, QueueInv
  <2> QED BY <1>16, <2>1, <2>2
<1>20. CASE ServerStopped
  <2>1. /\ queue' = << >> /\ pc = "stopping" /\ pc' = "stopped" /\ topics' = topics
        /\ UNCHANGED <<pos, chan, phase, topicOf, log, from>>
    BY <1>20 DEF ServerStopped, subVars, histVars
  <2>2. QueueInv'
    BY <2>1 DEF QueueInv
  <2> QED BY <1>16, <2>1, <2>2
<1>21. CASE UNCHANGED vars
  <2>1. QueueInv'
    BY <1>21 DEF IInv, QueueInv, vars, serverVars, subVars
  <2> QED BY <1>21, <1>t, <2>1, TableUntouched
          DEF IInv, vars, serverVars, subVars, histVars, ReceiverExists
<1> QED
  BY <1>1, <1>2, <1>4, <1>5, <1>6, <1>7, <1>8, <1>9, <1>12, <1>13, <1>14, <1>15, <1>17,
     <1>18, <1>19, <1>20, <1>21 DEF Next, ServerStep

(* The main safety result for PubSub: every receiver is sent exactly the   *)
(* broadcasts of its topic that were popped after it was registered, in    *)
(* order, and is up to date while it is in the table.                      *)
THEOREM FeedsAreGapFree == Spec => []GapFree
<1>1. IInv => GapFree
  BY DEF IInv, GapFree, ContentInv, UpToDateInv
<1> QED BY <1>1, IInvInit, IInvStep, PTL DEF Spec

-----------------------------------------------------------------------------
(* CallerOrder says nothing of the queue, through which every broadcast    *)
(* passes: what a caller has in the queue is in the order of its calls,    *)
(* and follows what of it was popped.                                      *)
Queued(i) == i \in 1..Len(queue) /\ queue[i].op = "Broadcast"

QueueOrder ==
    /\ \A i, j \in 1..Len(queue) :
         (/\ i < j /\ Queued(i) /\ Queued(j)
          /\ queue[i].msg.by = queue[j].msg.by) => queue[i].msg.nr < queue[j].msg.nr
    /\ \A i \in 1..Len(queue) : Queued(i) => queue[i].msg.nr <= issued[queue[i].msg.by]

LogOrder ==
    \A t \in Topics : \A i \in 1..Len(log[t]) :
        /\ log[t][i].nr <= issued[log[t][i].by]
        /\ \A j \in 1..Len(log[t]) :
             i < j /\ log[t][i].by = log[t][j].by => log[t][i].nr < log[t][j].nr
        /\ \A j \in 1..Len(queue) :
             Queued(j) /\ log[t][i].by = queue[j].msg.by => log[t][i].nr < queue[j].msg.nr

OrderInv == QueueOrder /\ LogOrder

(* A command appended to the queue keeps the order, if it is no broadcast  *)
(* or the next one of its caller.                                          *)
LEMMA SendKeepsOrder ==
    ASSUME TypeInv, OrderInv, NEW cmd \in Commands, Send(cmd), log' = log,
           issued' \in [Callers -> Nat],
           \A c \in Callers : issued'[c] >= issued[c],
           cmd.op = "Broadcast" => /\ cmd.msg.nr = issued[cmd.msg.by] + 1
                                   /\ cmd.msg.nr <= issued'[cmd.msg.by]
    PROVE  OrderInv'
<1>1. \A t \in Topics : \A i \in 1..Len(log[t]) : log[t][i].by \in Callers /\ log[t][i].nr \in Nat
  <2> SUFFICES ASSUME NEW t \in Topics, NEW i \in 1..Len(log[t])
               PROVE  log[t][i].by \in Callers /\ log[t][i].nr \in Nat
    OBVIOUS
  <2>1. log[t][i] \in Messages
    BY DEF TypeInv, TypeOK
  <2> QED BY <2>1, MessageFacts, BoundAssumption
<1>2. \A i \in 1..Len(queue) : Queued(i) =>
        queue[i].msg.by \in Callers /\ queue[i].msg.nr \in Nat
  <2> SUFFICES ASSUME NEW i \in 1..Len(queue), Queued(i)
               PROVE  queue[i].msg.by \in Callers /\ queue[i].msg.nr \in Nat
    OBVIOUS
  <2>1. queue[i] \in Commands
    BY DEF TypeInv, TypeOK
  <2>2. queue[i].msg \in Messages
    BY <2>1, CommandFacts DEF Queued
  <2> QED BY <2>2, MessageFacts, BoundAssumption
<1>i. \A c \in Callers : issued[c] \in Nat
  BY DEF TypeInv, TypeOK
<1>3. cmd.op = "Broadcast" => cmd.msg.by \in Callers /\ cmd.msg.nr \in Nat
  BY CommandFacts, MessageFacts, BoundAssumption
<1>4. CASE queue' = queue
  BY <1>1, <1>2, <1>i, <1>4, SMTT(30) DEF OrderInv, QueueOrder, LogOrder, Queued
<1>5. CASE queue' = Append(queue, cmd)
  <2>1. /\ Len(queue) \in Nat /\ Len(queue') = Len(queue) + 1
        /\ \A i \in 1..Len(queue) : queue'[i] = queue[i]
        /\ queue'[Len(queue) + 1] = cmd
    BY <1>5 DEF TypeInv, TypeOK
  <2>2. \A i \in 1..Len(queue') :
          \/ i \in 1..Len(queue) /\ queue'[i] = queue[i] /\ i # Len(queue) + 1
          \/ i = Len(queue) + 1 /\ queue'[i] = cmd
    BY <2>1
  <2>3. \A i \in 1..Len(queue') : Queued(i)' <=> queue'[i].op = "Broadcast"
    BY DEF Queued
  <2>4. \A i \in 1..Len(queue) : Queued(i) <=> queue[i].op = "Broadcast"
    BY DEF Queued
  <2>5. ASSUME NEW i \in 1..Len(queue'), Queued(i)'
        PROVE  queue'[i].msg.nr <= issued'[queue'[i].msg.by]
    <3>1. CASE i \in 1..Len(queue) /\ queue'[i] = queue[i]
      <4>1. Queued(i) /\ queue[i].msg.nr <= issued[queue[i].msg.by]
        BY <2>3, <2>4, <2>5, <3>1 DEF OrderInv, QueueOrder
      <4> QED BY <1>2, <1>i, <3>1, <4>1
    <3>2. CASE queue'[i] = cmd
      BY <2>3, <2>5, <3>2
    <3> QED BY <2>2, <3>1, <3>2
  <2>6. ASSUME NEW i \in 1..Len(queue'), NEW j \in 1..Len(queue'), i < j,
               Queued(i)', Queued(j)', queue'[i].msg.by = queue'[j].msg.by
        PROVE  queue'[i].msg.nr < queue'[j].msg.nr
    <3>1. i \in 1..Len(queue) /\ queue'[i] = queue[i] /\ Queued(i)
      BY <2>1, <2>2, <2>3, <2>4, <2>6
    <3>2. CASE j \in 1..Len(queue) /\ queue'[j] = queue[j]
      <4>1. Queued(j)
        BY <2>3, <2>4, <2>6, <3>2
      <4> QED BY <2>6, <3>1, <3>2, <4>1 DEF OrderInv, QueueOrder
    <3>3. CASE queue'[j] = cmd
      <4>1. cmd.op = "Broadcast" /\ queue[i].msg.by = cmd.msg.by
        BY <2>3, <2>6, <3>1, <3>3
      <4>2. queue[i].msg.nr <= issued[cmd.msg.by]
        BY <3>1, <4>1 DEF OrderInv, QueueOrder
      <4> QED BY <1>2, <1>3, <1>i, <3>1, <3>3, <4>1, <4>2, SMTT(30)
    <3> QED BY <2>2, <3>2, <3>3
  <2>7. LogOrder'
    <3> SUFFICES ASSUME NEW t \in Topics, NEW i \in 1..Len(log[t])
                 PROVE  /\ log[t][i].nr <= issued'[log[t][i].by]
                        /\ \A j \in 1..Len(log[t]) :
                             i < j /\ log[t][i].by = log[t][j].by => log[t][i].nr < log[t][j].nr
                        /\ \A j \in 1..Len(queue') :
                             Queued(j)' /\ log[t][i].by = queue'[j].msg.by =>
                                log[t][i].nr < queue'[j].msg.nr
      BY DEF LogOrder
    <3>1. log[t][i].nr <= issued[log[t][i].by] /\ log[t][i].nr <= issued'[log[t][i].by]
      <4>1. log[t][i].nr <= issued[log[t][i].by]
        BY DEF OrderInv, LogOrder
      <4> QED BY <1>1, <1>i, <4>1
    <3>2. \A j \in 1..Len(log[t]) :
            i < j /\ log[t][i].by = log[t][j].by => log[t][i].nr < log[t][j].nr
      BY DEF OrderInv, LogOrder
    <3>3. ASSUME NEW j \in 1..Len(queue'), Queued(j)', log[t][i].by = queue'[j].msg.by
          PROVE  log[t][i].nr < queue'[j].msg.nr
      <4>1. CASE j \in 1..Len(queue) /\ queue'[j] = queue[j]
        <5>1. Queued(j)
          BY <2>3, <2>4, <3>3, <4>1
        <5> QED BY <3>3, <4>1, <5>1 DEF OrderInv, LogOrder
      <4>2. CASE queue'[j] = cmd
        <5>1. cmd.op = "Broadcast"
          BY <2>3, <3>3, <4>2
        <5>2. log[t][i].nr <= issued[cmd.msg.by] /\ cmd.msg.nr = issued[cmd.msg.by] + 1
          BY <3>1, <3>3, <4>2, <5>1
        <5>3. log[t][i].nr \in Nat /\ issued[cmd.msg.by] \in Nat
          BY <1>1, <1>3, <1>i, <5>1
        <5> QED BY <4>2, <5>2, <5>3, SMTT(30)
      <4> QED BY <2>2, <4>1, <4>2
    <3> QED BY <3>1, <3>2, <3>3
  <2> QED BY <2>5, <2>6, <2>7 DEF OrderInv, QueueOrder
<1> QED BY <1>4, <1>5 DEF Send

(* A popped broadcast goes to the end of its topic's log; it is above all  *)
(* that its caller has in any log and below all it still has in the queue. *)
LEMMA PopKeepsOrder ==
    ASSUME TypeInv, TypeInv', OrderInv, NEW op, Popped(op), issued' = issued,
           \/ log' = log
           \/ op = "Broadcast" /\ log' = [log EXCEPT ![Head(queue).msg.topic] = Append(@, Head(queue).msg)]
    PROVE  OrderInv'
<1>1. /\ Head(queue) = queue[1] /\ 1 \in 1..Len(queue) /\ Head(queue) \in Commands
      /\ Head(queue).op = op
      /\ Len(queue') = Len(queue) - 1 /\ Len(queue) \in Nat
      /\ \A i \in 1..Len(queue') : queue'[i] = queue[i + 1] /\ i + 1 \in 1..Len(queue)
  BY DEF Popped, TypeInv, TypeOK
<1>2. \A i \in 1..Len(queue') : Queued(i)' <=> Queued(i + 1)
  BY <1>1 DEF Queued
<1>3. QueueOrder'
  <2>1. ASSUME NEW i \in 1..Len(queue'), NEW j \in 1..Len(queue'), i < j,
               Queued(i)', Queued(j)', queue'[i].msg.by = queue'[j].msg.by
        PROVE  queue'[i].msg.nr < queue'[j].msg.nr
    <3>1. /\ i + 1 < j + 1 /\ Queued(i + 1) /\ Queued(j + 1)
          /\ i + 1 \in 1..Len(queue) /\ queue'[i] = queue[i + 1]
          /\ j + 1 \in 1..Len(queue) /\ queue'[j] = queue[j + 1]
      BY <1>1, <1>2, <2>1
    <3> QED BY <2>1, <3>1 DEF OrderInv, QueueOrder
  <2>2. ASSUME NEW i \in 1..Len(queue'), Queued(i)'
        PROVE  queue'[i].msg.nr <= issued'[queue'[i].msg.by]
    BY <1>1, <1>2, <2>2 DEF OrderInv, QueueOrder
  <2> QED BY <2>1, <2>2 DEF QueueOrder
<1>4. CASE log' = log
  <2>1. LogOrder'
    <3> SUFFICES ASSUME NEW t \in Topics, NEW i \in 1..Len(log[t]),
                        NEW j \in 1..Len(queue'), Queued(j)', log[t][i].by = queue'[j].msg.by
                 PROVE  log[t][i].nr < queue'[j].msg.nr
      BY <1>4 DEF OrderInv, LogOrder
    <3>1. queue'[j] = queue[j + 1] /\ j + 1 \in 1..Len(queue) /\ Queued(j + 1)
      BY <1>1, <1>2
    <3> QED BY <3>1, SMTT(30) DEF OrderInv, LogOrder
  <2> QED BY <1>3, <2>1 DEF OrderInv
<1>5. CASE op = "Broadcast" /\ log' = [log EXCEPT ![Head(queue).msg.topic] = Append(@, Head(queue).msg)]
  <2> DEFINE m == Head(queue).msg
  <2>1. m \in Messages /\ m.topic \in Topics /\ m.by \in Callers /\ m.nr \in Nat /\ Queued(1)
    <3>1. m \in Messages
      BY <1>1, <1>5, CommandFacts
    <3> QED BY <1>1, <1>5, <3>1, MessageFacts, BoundAssumption DEF Queued
  <2>2. /\ log[m.topic] \in Seq(Messages) /\ Len(log'[m.topic]) = Len(log[m.topic]) + 1
        /\ log'[m.topic][Len(log[m.topic]) + 1] = m
        /\ \A i \in 1..Len(log[m.topic]) : log'[m.topic][i] = log[m.topic][i]
        /\ \A u \in Topics : u # m.topic => log'[u] = log[u]
    BY <1>5, <2>1 DEF TypeInv, TypeOK
  <2>3. queue[1].msg = m
    BY <1>1
  <2> HIDE DEF m
  (* An entry of a log is an old one or the popped message, at the end.    *)
  <2>4. \A t \in Topics : \A i \in 1..Len(log'[t]) :
          \/ i \in 1..Len(log[t]) /\ log'[t][i] = log[t][i]
          \/ t = m.topic /\ i = Len(log[t]) + 1 /\ log'[t][i] = m
    BY <2>1, <2>2, SMTT(30)
  <2>5. LogOrder'
    <3> SUFFICES ASSUME NEW t \in Topics, NEW i \in 1..Len(log'[t])
                 PROVE  /\ log'[t][i].nr <= issued[log'[t][i].by]
                        /\ \A j \in 1..Len(log'[t]) :
                             i < j /\ log'[t][i].by = log'[t][j].by => log'[t][i].nr < log'[t][j].nr
                        /\ \A j \in 1..Len(queue') :
                             Queued(j)' /\ log'[t][i].by = queue'[j].msg.by =>
                                log'[t][i].nr < queue'[j].msg.nr
      BY DEF LogOrder
    <3>1. log'[t][i].nr <= issued[log'[t][i].by]
      BY <1>1, <2>1, <2>3, <2>4 DEF OrderInv, LogOrder, QueueOrder
    <3>2. ASSUME NEW j \in 1..Len(log'[t]), i < j, log'[t][i].by = log'[t][j].by
          PROVE  log'[t][i].nr < log'[t][j].nr
      <4>0. Len(log[t]) \in Nat
        BY DEF TypeInv, TypeOK
      <4>1. i \in 1..Len(log[t]) /\ log'[t][i] = log[t][i]
        BY <2>2, <2>4, <3>2, <4>0, SMTT(30)
      <4>2. CASE j \in 1..Len(log[t]) /\ log'[t][j] = log[t][j]
        BY <3>2, <4>1, <4>2 DEF OrderInv, LogOrder
      <4>3. CASE log'[t][j] = m
        <5>1. 1 \in 1..Len(queue) /\ Queued(1) /\ log[t][i].by = queue[1].msg.by
          BY <1>1, <2>1, <2>3, <3>2, <4>1, <4>3
        <5>2. log[t][i].nr < queue[1].msg.nr
          BY <4>1, <5>1 DEF OrderInv, LogOrder
        <5> QED BY <2>3, <4>1, <4>3, <5>2
      <4> QED BY <2>4, <4>2, <4>3
    <3>3. ASSUME NEW j \in 1..Len(queue'), Queued(j)', log'[t][i].by = queue'[j].msg.by
          PROVE  log'[t][i].nr < queue'[j].msg.nr
      <4>1. queue'[j] = queue[j + 1] /\ j + 1 \in 1..Len(queue) /\ Queued(j + 1) /\ 1 < j + 1
        BY <1>1, <1>2, <3>3, SMTT(30)
      <4>2. CASE i \in 1..Len(log[t]) /\ log'[t][i] = log[t][i]
        BY <3>3, <4>1, <4>2 DEF OrderInv, LogOrder
      <4>3. CASE log'[t][i] = m
        BY <1>1, <2>1, <2>3, <3>3, <4>1, <4>3 DEF OrderInv, QueueOrder
      <4> QED BY <2>4, <4>2, <4>3
    <3> QED BY <3>1, <3>2, <3>3
  <2> QED BY <1>3, <2>5 DEF OrderInv
<1> QED BY <1>4, <1>5

(* Every step keeps the order of each caller's broadcasts.                  *)
LEMMA OrderStep == IInv /\ OrderInv /\ [Next]_vars => OrderInv'
<1> SUFFICES ASSUME IInv, OrderInv, [Next]_vars PROVE OrderInv'
  OBVIOUS
<1>t. TypeInv /\ TypeInv'
  BY TypeStep DEF IInv
<1> USE DEF callerVars, subVars, histVars
<1>s. \A c \in Callers : issued[c] \in Nat /\ issued[c] >= issued[c]
  BY <1>t DEF TypeInv, TypeOK
<1>i. issued' \in [Callers -> Nat]
  BY <1>t DEF TypeInv, TypeOK
<1>1. ASSUME NEW c \in Callers, NEW s \in Subs, NEW t \in Topics, SubscribeCall(c, s, t)
      PROVE  OrderInv'
  <2> DEFINE cmd == [op |-> "Subscribe", topic |-> t, sub |-> s]
  <2>1. cmd \in Commands /\ cmd.op # "Broadcast"
    BY DEF Commands
  <2>2. Send(cmd) /\ log' = log /\ issued' = issued
    BY <1>1 DEF SubscribeCall
  <2> HIDE DEF cmd
  <2> QED BY <1>t, <1>s, <1>i, <2>1, <2>2, SendKeepsOrder
<1>2. ASSUME NEW c \in Callers, NEW t \in Topics, BroadcastCall(c, t)
      PROVE  OrderInv'
  <2> DEFINE m == [topic |-> t, by |-> c, nr |-> issued[c] + 1]
             cmd == [op |-> "Broadcast", msg |-> m]
  <2>1. m \in Messages
    BY <1>2, <1>t, BoundAssumption DEF BroadcastCall, Messages, TypeInv, TypeOK
  <2>2. cmd \in Commands /\ cmd.msg = m /\ m.by = c /\ m.nr = issued[c] + 1
    BY <2>1 DEF Commands
  <2>3. Send(cmd) /\ log' = log /\ issued' = [issued EXCEPT ![c] = @ + 1]
    BY <1>2 DEF BroadcastCall
  <2>4. \A d \in Callers : issued'[d] >= issued[d]
    BY <1>t, <2>3 DEF TypeInv, TypeOK
  <2>5. issued'[c] = issued[c] + 1 /\ issued[c] \in Nat
    BY <1>t, <2>3 DEF TypeInv, TypeOK
  <2> HIDE DEF m, cmd
  <2>6. cmd.msg.nr = issued[cmd.msg.by] + 1 /\ cmd.msg.nr <= issued'[cmd.msg.by]
    BY <2>2, <2>5
  <2> QED BY <1>t, <1>i, <2>2, <2>3, <2>4, <2>6, SendKeepsOrder
<1>3. ASSUME NEW c \in Callers, NEW t \in Topics, UnsubscribeCall(c, t)
      PROVE  OrderInv'
  <2> DEFINE cmd == [op |-> "Unsubscribe", topic |-> t]
  <2>1. cmd \in Commands /\ cmd.op # "Broadcast"
    BY DEF Commands
  <2>2. Send(cmd) /\ log' = log /\ issued' = issued
    BY <1>3 DEF UnsubscribeCall
  <2> HIDE DEF cmd
  <2> QED BY <1>t, <1>s, <1>i, <2>1, <2>2, SendKeepsOrder
<1>4. ASSUME NEW c \in Callers, ShutdownCall(c)
      PROVE  OrderInv'
  <2> DEFINE cmd == [op |-> "Shutdown"]
  <2>1. cmd \in Commands /\ cmd.op # "Broadcast"
    BY DEF Commands
  <2>2. Send(cmd) /\ log' = log /\ issued' = issued
    BY <1>4 DEF ShutdownCall
  <2> HIDE DEF cmd
  <2> QED BY <1>t, <1>s, <1>i, <2>1, <2>2, SendKeepsOrder
<1>5. CASE HandleSubscribe \/ HandleUnsubscribe \/ HandleShutdown
  <2>1. (\E op \in {"Subscribe", "Unsubscribe", "Shutdown"} : Popped(op)) /\ log' = log /\ issued' = issued
    BY <1>5 DEF HandleSubscribe, HandleUnsubscribe, HandleShutdown
  <2> QED BY <1>t, <2>1, PopKeepsOrder
<1>6. CASE HandleBroadcast
  <2>1. /\ Popped("Broadcast") /\ issued' = issued
        /\ log' = [log EXCEPT ![Head(queue).msg.topic] = Append(@, Head(queue).msg)]
    BY <1>6 DEF HandleBroadcast
  <2> QED BY <1>t, <2>1, PopKeepsOrder
<1>7. CASE ServerStopped
  <2>1. queue' = << >> /\ log' = log /\ issued' = issued
    BY <1>7 DEF ServerStopped
  <2> QED BY <2>1 DEF OrderInv, QueueOrder, LogOrder, Queued
<1>8. CASE UNCHANGED <<queue, log, issued>>
  BY <1>8 DEF OrderInv, QueueOrder, LogOrder, Queued
<1>9. ASSUME NEW c \in Callers, SubscribeReturn(c) \/ DropHandle(c)
      PROVE  OrderInv'
  BY <1>8, <1>9 DEF SubscribeReturn, DropHandle
<1>10. ASSUME NEW s \in Subs, Receive(s) \/ Disconnected(s) \/ DropReceiver(s)
       PROVE  OrderInv'
  BY <1>8, <1>10 DEF Receive, Disconnected, DropReceiver
<1>11. CASE RetainStep \/ RetainDone \/ AllHandlesDropped
  BY <1>8, <1>11 DEF RetainStep, RetainDone, AllHandlesDropped
<1>12. CASE UNCHANGED vars
  BY <1>8, <1>12 DEF vars
<1> QED
  BY <1>1, <1>2, <1>3, <1>4, <1>5, <1>6, <1>7, <1>9, <1>10, <1>11, <1>12 DEF Next, ServerStep

(* What belongs to a receiver: it takes no more than was sent to it, and a  *)
(* subscription that was ever queued has a topic.                          *)
OwnerInv ==
    \A s \in Subs :
        /\ taken[s] <= Len(chan[s])
        /\ topicOf[s] \in Topics \/ (phase[s] \in {"unused", "failed"} /\ chan[s] = << >>)

(* At the start no subscription has been queued.                            *)
LEMMA OwnerInit == Init => OwnerInv
  BY DEF Init, OwnerInv

(* Every step keeps what belongs to a receiver.                             *)
LEMMA OwnerStep == IInv /\ OwnerInv /\ [Next]_vars => OwnerInv'
<1> SUFFICES ASSUME IInv, OwnerInv, [Next]_vars PROVE OwnerInv'
  OBVIOUS
<1>t. TypeOK /\ TypeOK' /\ TypeInv
  BY TypeStep DEF IInv, TypeInv
<1> USE DEF subVars, histVars, serverVars
<1>1. CASE UNCHANGED <<taken, chan, topicOf, phase>>
  BY <1>1 DEF OwnerInv
<1>2. ASSUME NEW c \in Callers, NEW s \in Subs, NEW t \in Topics, SubscribeCall(c, s, t)
      PROVE  OwnerInv'
  BY <1>2, <1>t, ZenonT(30) DEF SubscribeCall, OwnerInv, TypeOK
<1>3. ASSUME NEW c \in Callers, SubscribeReturn(c)
      PROVE  OwnerInv'
  <2>1. waiting[c] \in Subs /\ phase[waiting[c]] \in {"replied", "requested"}
    BY <1>3, <1>t DEF SubscribeReturn, TypeOK
  <2> QED BY <1>3, <1>t, <2>1 DEF SubscribeReturn, OwnerInv, TypeOK
<1>4. ASSUME NEW s \in Subs, Receive(s) \/ Disconnected(s) \/ DropReceiver(s)
      PROVE  OwnerInv'
  <2>1. CASE Receive(s)
    <3>1. taken' = [taken EXCEPT ![s] = @ + 1] /\ taken[s] < Len(chan[s]) /\ UNCHANGED <<chan, phase, topicOf>>
      BY <2>1 DEF Receive
    <3> QED BY <1>t, <3>1, SMTT(30) DEF OwnerInv, TypeOK
  <2>2. CASE Disconnected(s) \/ DropReceiver(s)
    <3>1. /\ phase[s] = "open" /\ UNCHANGED <<taken, chan, topicOf>>
          /\ phase' = [phase EXCEPT ![s] = "ended"] \/ phase' = [phase EXCEPT ![s] = "dropped"]
      BY <2>2 DEF Disconnected, DropReceiver
    <3> QED BY <1>t, <3>1 DEF OwnerInv, TypeOK
  <2> QED BY <1>4, <2>1, <2>2
<1>5. CASE HandleSubscribe
  <2>1. /\ Head(queue).sub \in Subs /\ topicOf[Head(queue).sub] \in Topics
        /\ phase' = [phase EXCEPT ![Head(queue).sub] = "replied"]
        /\ UNCHANGED <<chan, taken, topicOf>>
    <3>1. 1 \in 1..Len(queue) /\ Head(queue) = queue[1] /\ Head(queue).op = "Subscribe"
      BY <1>5, <1>t DEF HandleSubscribe, Popped, TypeOK
    <3> QED BY <1>5, <1>t, <3>1, QueuedSubscribe DEF HandleSubscribe, IInv, QueueInv
  <2> QED BY <1>t, <2>1 DEF OwnerInv, TypeOK
<1>6. CASE RetainStep
  <2> DEFINE s == topics[cur.topic][pos]
  <2>1. cur \in Messages /\ cur.topic \in Topics
    BY <1>6, <1>t, MessageFacts DEF RetainStep, TypeInv
  <2>2. pos \in 1..Len(topics[cur.topic]) /\ s \in Subs
    BY <1>6, <1>t, <2>1 DEF RetainStep, TypeOK
  <2>3. topicOf[s] = cur.topic
    BY <2>1, <2>2 DEF IInv, TableInv
  <2>4. UNCHANGED <<taken, phase, topicOf>> /\ (chan' = chan \/ chan' = [chan EXCEPT ![s] = Append(@, cur)])
    BY <1>6 DEF RetainStep
  <2> HIDE DEF s
  <2>5. Len(chan'[s]) >= Len(chan[s]) /\ \A r \in Subs : r # s => chan'[r] = chan[r]
    BY <1>t, <2>1, <2>2, <2>4 DEF TypeOK
  <2>6. ASSUME NEW r \in Subs
        PROVE  taken[r] <= Len(chan'[r])
    <3>1. taken[r] \in Nat /\ Len(chan[r]) \in Nat /\ Len(chan'[r]) \in Nat /\ taken[r] <= Len(chan[r])
      BY <1>t DEF OwnerInv, TypeOK
    <3> QED BY <2>5, <3>1
  <2>7. ASSUME NEW r \in Subs
        PROVE  topicOf[r] \in Topics \/ (phase[r] \in {"unused", "failed"} /\ chan'[r] = << >>)
    BY <2>1, <2>3, <2>5 DEF OwnerInv
  <2> QED BY <2>4, <2>6, <2>7 DEF OwnerInv
<1>7. ASSUME NEW c \in Callers, NEW t \in Topics,
             BroadcastCall(c, t) \/ UnsubscribeCall(c, t)
      PROVE  OwnerInv'
  BY <1>1, <1>7 DEF BroadcastCall, UnsubscribeCall
<1>8. ASSUME NEW c \in Callers, ShutdownCall(c) \/ DropHandle(c)
      PROVE  OwnerInv'
  BY <1>1, <1>8 DEF ShutdownCall, DropHandle
<1>9. CASE \/ HandleBroadcast \/ RetainDone \/ HandleUnsubscribe \/ HandleShutdown
           \/ AllHandlesDropped \/ ServerStopped
  BY <1>1, <1>9 DEF HandleBroadcast, RetainDone, HandleUnsubscribe, HandleShutdown,
                    AllHandlesDropped, ServerStopped
<1>10. CASE UNCHANGED vars
  BY <1>1, <1>10 DEF vars
<1> QED
  BY <1>2, <1>3, <1>4, <1>5, <1>6, <1>7, <1>8, <1>9, <1>10 DEF Next, ServerStep

(* Whatever the callers do at the same time, what one of them broadcasts   *)
(* reaches every receiver in the order of its calls: the logs are in that  *)
(* order and a channel is a piece of a log.                                *)
THEOREM BroadcastsInCallOrder == Spec => []CallerOrder
<1>1. Init => OrderInv
  BY DEF Init, OrderInv, QueueOrder, LogOrder, Queued
<1>2. IInv /\ OrderInv /\ OwnerInv => CallerOrder
  <2> SUFFICES ASSUME IInv, OrderInv, OwnerInv,
                      NEW s \in Subs, NEW i \in 1..Len(chan[s]), NEW j \in 1..Len(chan[s]),
                      i < j, chan[s][i].by = chan[s][j].by
               PROVE  chan[s][i].nr < chan[s][j].nr
    BY DEF CallerOrder
  <2>1. topicOf[s] \in Topics
    BY DEF OwnerInv
  <2>2. /\ from[s] + Len(chan[s]) <= Len(log[topicOf[s]])
        /\ chan[s][i] = log[topicOf[s]][from[s] + i]
        /\ chan[s][j] = log[topicOf[s]][from[s] + j]
    BY <2>1 DEF IInv, ContentInv
  <2>3. from[s] \in Nat /\ Len(chan[s]) \in Nat /\ Len(log[topicOf[s]]) \in Nat
    BY <2>1 DEF IInv, TypeInv, TypeOK
  <2>4. /\ from[s] + i \in 1..Len(log[topicOf[s]]) /\ from[s] + j \in 1..Len(log[topicOf[s]])
        /\ from[s] + i < from[s] + j
    BY <2>2, <2>3, SMTT(30)
  <2> QED BY <2>1, <2>2, <2>4 DEF OrderInv, LogOrder
<1> QED BY <1>1, <1>2, IInvInit, IInvStep, OrderStep, OwnerInit, OwnerStep, PTL DEF Spec

-----------------------------------------------------------------------------
(* Which steps a sender whose receiver exists can leave the table in: the  *)
(* retain loop takes out the sender at its index only, and that one is     *)
(* dead.                                                                   *)
LEMMA CutStep ==
    ASSUME IInv, [Next]_vars, NEW s \in Subs,
           ReceiverExists(s), Registered(s), ~Registered(s)'
    PROVE  \/ HandleShutdown
           \/ AllHandlesDropped
           \/ HandleUnsubscribe /\ Head(queue).topic = topicOf[s]
<1> USE DEF subVars, histVars, serverVars
<1> DEFINE t == topicOf[s]
<1>t. TypeOK /\ TypeInv
  BY DEF IInv, TypeInv
<1>p. /\ t \in Topics /\ topics[t] \in Seq(Subs) /\ phase[s] \in {"replied", "open"}
      /\ \E i \in 1..Len(topics[t]) : topics[t][i] = s
  <2>1. t \in Topics /\ s \in Range(topics[t]) /\ phase[s] \in {"replied", "open"}
    BY DEF Registered, ReceiverExists
  <2>2. topics[t] \in Seq(Subs)
    BY <1>t, <2>1 DEF TypeOK
  <2>3. DOMAIN topics[t] = 1..Len(topics[t])
    BY <2>2
  <2>4. \E i \in DOMAIN topics[t] : topics[t][i] = s
    BY <2>1 DEF Range
  <2> QED BY <2>1, <2>2, <2>3, <2>4
<1> HIDE DEF t
<1>1. ASSUME topicOf' = topicOf, topics'[t] = topics[t]
      PROVE  FALSE
  BY <1>1 DEF Registered, t
<1>2. ASSUME NEW c \in Callers, NEW r \in Subs, NEW u \in Topics, SubscribeCall(c, r, u)
      PROVE  FALSE
  <2>1. r # s /\ topics' = topics
    BY <1>2, <1>p DEF SubscribeCall
  <2>2. topicOf'[s] = topicOf[s]
    BY <1>2, <1>t, <2>1 DEF SubscribeCall, TypeOK
  <2> QED BY <2>1, <2>2 DEF Registered
<1>3. ASSUME NEW c \in Callers, SubscribeReturn(c) \/ ShutdownCall(c) \/ DropHandle(c)
      PROVE  FALSE
  BY <1>1, <1>3 DEF SubscribeReturn, ShutdownCall, DropHandle, Registered
<1>4. ASSUME NEW c \in Callers, NEW u \in Topics, BroadcastCall(c, u) \/ UnsubscribeCall(c, u)
      PROVE  FALSE
  BY <1>4 DEF BroadcastCall, UnsubscribeCall, Registered
<1>5. ASSUME NEW r \in Subs, Receive(r) \/ Disconnected(r) \/ DropReceiver(r)
      PROVE  FALSE
  BY <1>5 DEF Receive, Disconnected, DropReceiver, Registered
<1>6. CASE HandleSubscribe
  <2> DEFINE h == Head(queue)
  <2>1. /\ h \in Commands /\ h.op = "Subscribe" /\ topicOf' = topicOf
        /\ topics' = [topics EXCEPT ![h.topic] = Append(@, h.sub)]
    BY <1>6, <1>t DEF HandleSubscribe, Popped, TypeOK
  <2>2. h.topic \in Topics /\ h.sub \in Subs
    BY <2>1, CommandFacts
  <2> HIDE DEF h
  <2>3. topics'[t] = topics[t] \/ topics'[t] = Append(topics[t], h.sub)
    BY <1>t, <1>p, <2>1, <2>2 DEF TypeOK
  <2>4. \E i \in 1..Len(topics'[t]) : topics'[t][i] = s
    BY <1>p, <2>2, <2>3, SMTT(30)
  <2> QED BY <1>p, <2>1, <2>4 DEF Registered, Range, t
<1>7. CASE HandleBroadcast \/ RetainDone \/ ServerStopped
  BY <1>7 DEF HandleBroadcast, RetainDone, ServerStopped, Registered
<1>8. CASE RetainStep
  <2>1. cur \in Messages /\ cur.topic \in Topics
    BY <1>8, <1>t, MessageFacts DEF RetainStep, TypeInv
  <2>2. pos \in 1..Len(topics[cur.topic]) /\ topics[cur.topic] \in Seq(Subs)
    BY <1>8, <1>t, <2>1 DEF RetainStep, TypeOK
  <2>3. topicOf' = topicOf /\ topics' # topics
    BY <1>8 DEF RetainStep, Registered
  <2>4. /\ ~ReceiverExists(topics[cur.topic][pos])
        /\ topics' = [topics EXCEPT ![cur.topic] = RemoveAt(@, pos)]
    BY <1>8, <2>3 DEF RetainStep
  <2>5. cur.topic = t
    BY <1>1, <1>t, <1>p, <2>1, <2>3, <2>4 DEF TypeOK
  <2>6. topics'[t] = RemoveAt(topics[t], pos)
    BY <1>t, <1>p, <2>4, <2>5 DEF TypeOK
  <2>7. PICK i \in 1..Len(topics[t]) : topics[t][i] = s
    BY <1>p
  <2>8. i # pos
    BY <2>4, <2>5, <2>7
  <2> DEFINE j == IF i < pos THEN i ELSE i - 1
  <2>9. /\ Len(topics'[t]) = Len(topics[t]) - 1
        /\ \A k \in 1..(Len(topics[t]) - 1) :
             topics'[t][k] = IF k < pos THEN topics[t][k] ELSE topics[t][k + 1]
    <3>1. topics[t] \in Seq(Subs) /\ pos \in 1..Len(topics[t])
      BY <2>2, <2>5
    <3> QED BY <2>6, <3>1, RemoveAtFacts
  <2>10. /\ j \in 1..(Len(topics[t]) - 1)
         /\ i < pos => j < pos /\ j = i
         /\ ~(i < pos) => ~(j < pos) /\ j + 1 = i
    BY <1>p, <2>2, <2>5, <2>7, <2>8
  <2> HIDE DEF j
  <2>11. topics'[t][j] = s
    BY <2>7, <2>9, <2>10
  <2>12. j \in DOMAIN topics'[t]
    <3>1. topics'[t] \in Seq(Subs)
      BY <1>p, TypeStep DEF IInv, TypeInv, TypeOK
    <3> QED BY <2>9, <2>10, <3>1
  <2> QED BY <1>p, <2>3, <2>11, <2>12 DEF Registered, Range, t
<1>9. CASE HandleUnsubscribe
  <2>1. Head(queue).topic # t => topics'[t] = topics[t]
    BY <1>9, <1>t, <1>p DEF HandleUnsubscribe, TypeOK
  <2>2. topicOf' = topicOf
    BY <1>9 DEF HandleUnsubscribe
  <2> QED BY <1>1, <1>9, <2>1, <2>2 DEF t
<1>10. CASE UNCHANGED vars
  BY <1>10 DEF vars, Registered
<1> QED
  BY <1>2, <1>3, <1>4, <1>5, <1>6, <1>7, <1>8, <1>9, <1>10 DEF Next, ServerStep

(* The purge of dead senders never takes a living one with it: a receiver  *)
(* loses its sender only by an Unsubscribe of its topic, a Shutdown or the *)
(* end of the last handle.                                                 *)
THEOREM SendersCutOnlyOnRequest == Spec => CutOnlyOnRequest
<1>1. Spec => []IInv
  BY IInvInit, IInvStep, PTL DEF Spec
<1>2. IInv /\ [Next]_vars =>
        [\A s \in Subs :
           ReceiverExists(s) /\ Registered(s) /\ ~Registered(s)' =>
              \/ HandleShutdown
              \/ AllHandlesDropped
              \/ HandleUnsubscribe /\ Head(queue).topic = topicOf[s]]_vars
  BY CutStep
<1> QED BY <1>1, <1>2, PTL DEF Spec, CutOnlyOnRequest

-----------------------------------------------------------------------------
(* PubSub implements TopicFeed: the queue, the retain loop and the channels *)
(* are hidden behind an in-order, gap-free feed per subscription.           *)

(* The abstract variables that are not variables of PubSub.                *)
feedBar  == [s \in Subs |-> FeedState(s)]
topicBar == [s \in Subs |-> IF FeedState(s) = "unused" THEN NoTopic ELSE topicOf[s]]
endBar   == [s \in Subs |-> IF FeedState(s) = "cut" THEN from[s] + Len(chan[s]) ELSE 0]
gotBar   == [s \in Subs |-> SubSeq(chan[s], 1, taken[s])]

MapInv == IInv /\ OwnerInv

(* What the abstract state of a subscription says of the concrete one.     *)
LEMMA FeedStateFacts ==
    ASSUME TypeOK, NEW s \in Subs
    PROVE  /\ FeedState(s) = "unused" <=> phase[s] \in {"unused", "requested", "failed"}
           /\ FeedState(s) = "closed" <=> phase[s] = "dropped"
           /\ FeedState(s) = "ended" <=> phase[s] = "ended"
           /\ FeedState(s) = "live" <=> ReceiverExists(s) /\ Registered(s)
           /\ FeedState(s) = "cut" <=> ReceiverExists(s) /\ ~Registered(s)
<1>1. phase[s] \in Phase
  BY DEF TypeOK
<1> QED BY <1>1 DEF FeedState, ReceiverExists, Phase

(* What was handed out is a piece of the channel that later sends to the   *)
(* channel do not change.                                                  *)
LEMMA HandedOut ==
    ASSUME NEW q \in Seq(Messages), NEW n \in Nat, n <= Len(q), NEW m \in Messages
    PROVE  /\ SubSeq(q, 1, n) \in Seq(Messages) /\ Len(SubSeq(q, 1, n)) = n
           /\ SubSeq(Append(q, m), 1, n) = SubSeq(q, 1, n)
           /\ n < Len(q) => SubSeq(q, 1, n + 1) = Append(SubSeq(q, 1, n), q[n + 1])
  OBVIOUS

(* A step that the abstract feed does not see.                             *)
LEMMA Hidden ==
    ASSUME UNCHANGED <<log, from>>,
           \A s \in Subs :
              /\ FeedState(s)' = FeedState(s)
              /\ FeedState(s) # "unused" => topicOf'[s] = topicOf[s]
              /\ FeedState(s) = "cut" => chan'[s] = chan[s]
              /\ SubSeq(chan[s], 1, taken[s])' = SubSeq(chan[s], 1, taken[s])
    PROVE  UNCHANGED Feed!vars
<1>1. feedBar' = feedBar
  BY DEF feedBar
<1>2. topicBar' = topicBar
  BY DEF topicBar
<1>3. endBar' = endBar
  BY DEF endBar
<1>4. gotBar' = gotBar
  BY DEF gotBar
<1> QED BY <1>1, <1>2, <1>3, <1>4 DEF Feed!vars, feedBar, topicBar, endBar, gotBar

-----------------------------------------------------------------------------
(* The steps of a receiver.                                                *)

(* A receiver that gets a message takes one from its feed.                  *)
LEMMA ReceiveTakes ==
    ASSUME MapInv, NEW s \in Subs, Receive(s)
    PROVE  Feed!Take(s)
<1> USE DEF MapInv, histVars, serverVars
<1>1. TypeOK /\ taken[s] \in Nat /\ from[s] \in Nat /\ chan[s] \in Seq(Messages)
  BY DEF IInv, TypeInv, TypeOK
<1>2. /\ phase[s] = "open" /\ taken[s] < Len(chan[s]) /\ taken' = [taken EXCEPT ![s] = @ + 1]
      /\ UNCHANGED <<chan, phase, topicOf, topics, log, from>>
  BY DEF Receive
<1>3. topicOf[s] \in Topics
  BY <1>2 DEF OwnerInv
<1>4. /\ from[s] + Len(chan[s]) <= Len(log[topicOf[s]])
      /\ chan[s][taken[s] + 1] = log[topicOf[s]][from[s] + taken[s] + 1]
  <2>1. \A i \in 1..Len(chan[s]) : chan[s][i] = log[topicOf[s]][from[s] + i]
    BY <1>3 DEF IInv, ContentInv
  <2>2. taken[s] + 1 \in 1..Len(chan[s]) /\ from[s] + (taken[s] + 1) = from[s] + taken[s] + 1
    BY <1>1, <1>2
  <2>3. chan[s][taken[s] + 1] = log[topicOf[s]][from[s] + (taken[s] + 1)]
    BY <2>1, <2>2
  <2> QED BY <1>3, <2>2, <2>3 DEF IInv, ContentInv
<1>5. Len(log[topicOf[s]]) \in Nat /\ Len(chan[s]) \in Nat
  BY <1>1, <1>3 DEF TypeOK
<1>6. /\ Len(SubSeq(chan[s], 1, taken[s])) = taken[s]
      /\ SubSeq(chan[s], 1, taken[s] + 1) = Append(SubSeq(chan[s], 1, taken[s]), chan[s][taken[s] + 1])
  <2>1. chan[s][taken[s] + 1] \in Messages
    BY <1>1, <1>2
  <2> QED BY <1>1, <1>2, <2>1, HandedOut
<1>7. FeedState(s) \in {"live", "cut"}
  BY <1>1, <1>2, FeedStateFacts DEF ReceiverExists
<1>8. \A r \in Subs : FeedState(r)' = FeedState(r)
  BY <1>2 DEF FeedState, Registered
<1>9. /\ feedBar' = feedBar /\ topicBar' = topicBar /\ endBar' = endBar
      /\ gotBar' = [gotBar EXCEPT ![s] = Append(@, chan[s][taken[s] + 1])]
  <2>1. feedBar' = feedBar /\ topicBar' = topicBar /\ endBar' = endBar
    BY <1>2, <1>8 DEF feedBar, topicBar, endBar
  <2>2. taken'[s] = taken[s] + 1 /\ \A r \in Subs : r # s => taken'[r] = taken[r]
    BY <1>1, <1>2 DEF TypeOK
  <2> DEFINE x == chan[s][taken[s] + 1]
             g(r) == SubSeq(chan[r], 1, taken[r])
  <2>3. g(s)' = Append(g(s), x) /\ \A r \in Subs : r # s => g(r)' = g(r)
    BY <1>2, <1>6, <2>2
  <2>4. gotBar = [r \in Subs |-> g(r)] /\ gotBar' = [r \in Subs |-> g(r)']
    BY DEF gotBar
  <2> HIDE DEF x, g
  <2>5. gotBar' = [gotBar EXCEPT ![s] = Append(@, x)]
    BY <2>3, <2>4
  <2> QED BY <2>1, <2>5 DEF x
<1> DEFINE next == from[s] + Len(gotBar[s]) + 1
<1>10. /\ feedBar[s] = "live" \/ (feedBar[s] = "cut" /\ next <= endBar[s])
       /\ next <= Len(log[topicBar[s]])
       /\ gotBar' = [gotBar EXCEPT ![s] = Append(@, log[topicBar[s]][next])]
  <2>1. /\ feedBar[s] = FeedState(s) /\ topicBar[s] = topicOf[s]
        /\ gotBar[s] = SubSeq(chan[s], 1, taken[s])
        /\ FeedState(s) = "cut" => endBar[s] = from[s] + Len(chan[s])
    BY <1>7 DEF feedBar, topicBar, gotBar, endBar
  <2>2. next = from[s] + taken[s] + 1
    BY <1>6, <2>1
  <2>3. next <= from[s] + Len(chan[s])
    BY <1>1, <1>2, <1>5, <2>2
  <2>4. next <= Len(log[topicOf[s]])
    BY <1>1, <1>4, <1>5, <2>2, <2>3, SMTT(30)
  <2> HIDE DEF next
  <2> QED BY <1>4, <1>7, <1>9, <2>1, <2>2, <2>3, <2>4
<1> QED BY <1>2, <1>9, <1>10 DEF Feed!Take, feedBar, topicBar, endBar, gotBar

(* A receiver that finds its channel closed has reached the end of its      *)
(* feed.                                                                    *)
LEMMA DisconnectedEnds ==
    ASSUME MapInv, NEW s \in Subs, Disconnected(s)
    PROVE  Feed!End(s)
<1> USE DEF MapInv, histVars, serverVars
<1>1. TypeOK /\ taken[s] \in Nat /\ from[s] \in Nat /\ chan[s] \in Seq(Messages)
  BY DEF IInv, TypeInv, TypeOK
<1>2. /\ phase[s] = "open" /\ taken[s] = Len(chan[s]) /\ ~Registered(s)
      /\ phase' = [phase EXCEPT ![s] = "ended"]
      /\ UNCHANGED <<taken, chan, topicOf, topics, log, from>>
  BY DEF Disconnected
<1>3. FeedState(s) = "cut" /\ FeedState(s)' = "ended"
  <2>1. phase'[s] = "ended"
    BY <1>1, <1>2 DEF TypeOK
  <2> QED BY <1>2, <2>1 DEF FeedState
<1>4. \A r \in Subs : r # s => FeedState(r)' = FeedState(r)
  <2>1. \A r \in Subs : r # s => phase'[r] = phase[r]
    BY <1>1, <1>2 DEF TypeOK
  <2> QED BY <1>2, <2>1 DEF FeedState, Registered
<1>5. Len(SubSeq(chan[s], 1, taken[s])) = taken[s]
  BY <1>1, <1>2
<1>6. /\ feedBar' = [feedBar EXCEPT ![s] = "ended"]
      /\ endBar' = [endBar EXCEPT ![s] = 0]
      /\ topicBar' = topicBar /\ gotBar' = gotBar
  BY <1>2, <1>3, <1>4 DEF feedBar, endBar, topicBar, gotBar
<1>7. feedBar[s] = "cut" /\ from[s] + Len(gotBar[s]) = endBar[s]
  BY <1>2, <1>3, <1>5 DEF feedBar, gotBar, endBar
<1> QED BY <1>2, <1>6, <1>7 DEF Feed!End, feedBar, topicBar, endBar, gotBar

(* Dropping a receiver closes its feed.                                     *)
LEMMA DropCloses ==
    ASSUME MapInv, NEW s \in Subs, DropReceiver(s)
    PROVE  Feed!Close(s)
<1> USE DEF MapInv, histVars, serverVars
<1>1. TypeOK
  BY DEF IInv, TypeInv
<1>2. /\ phase[s] = "open" /\ phase' = [phase EXCEPT ![s] = "dropped"]
      /\ UNCHANGED <<taken, chan, topicOf, topics, log, from>>
  BY DEF DropReceiver
<1>3. FeedState(s) \in {"live", "cut"} /\ FeedState(s)' = "closed"
  <2>1. phase'[s] = "dropped"
    BY <1>1, <1>2 DEF TypeOK
  <2> QED BY <1>2, <2>1 DEF FeedState
<1>4. \A r \in Subs : r # s => FeedState(r)' = FeedState(r)
  <2>1. \A r \in Subs : r # s => phase'[r] = phase[r]
    BY <1>1, <1>2 DEF TypeOK
  <2> QED BY <1>2, <2>1 DEF FeedState, Registered
<1>5. /\ feedBar' = [feedBar EXCEPT ![s] = "closed"]
      /\ endBar' = [endBar EXCEPT ![s] = 0]
      /\ topicBar' = topicBar /\ gotBar' = gotBar
  BY <1>2, <1>3, <1>4 DEF feedBar, endBar, topicBar, gotBar
<1> QED BY <1>2, <1>3, <1>5 DEF Feed!Close, feedBar, topicBar, endBar, gotBar

-----------------------------------------------------------------------------
(* The steps of the server thread.                                         *)

(* Handling a Subscribe opens a feed at the end of the log.                 *)
LEMMA SubscribeOpens ==
    ASSUME MapInv, HandleSubscribe
    PROVE  \E s \in Subs, t \in Topics : Feed!Open(s, t)
<1> USE DEF MapInv
<1>1. TypeOK /\ TypeInv /\ IInv
  BY DEF IInv, TypeInv
<1>2. PICK s \in Subs, t \in Topics :
        /\ Head(queue).sub = s /\ Head(queue).topic = t
        /\ phase[s] = "requested" /\ topicOf[s] = t
  <2>1. 1 \in 1..Len(queue) /\ Head(queue) = queue[1] /\ Head(queue).op = "Subscribe"
    BY <1>1 DEF HandleSubscribe, Popped, TypeOK
  <2> QED BY <1>1, <2>1, QueuedSubscribe DEF IInv, QueueInv
<1>3. /\ topics' = [topics EXCEPT ![t] = Append(@, s)]
      /\ phase' = [phase EXCEPT ![s] = "replied"]
      /\ from' = [from EXCEPT ![s] = Len(log[t])]
      /\ UNCHANGED <<chan, taken, topicOf, log>>
  BY <1>2 DEF HandleSubscribe
<1>4. /\ phase'[s] = "replied" /\ from'[s] = Len(log[t])
      /\ \A r \in Subs : r # s => phase'[r] = phase[r] /\ from'[r] = from[r]
  BY <1>1, <1>2, <1>3 DEF TypeOK
<1>5. \A r \in Subs : topicOf[r] \in Topics =>
        (r \in Range(topics'[topicOf[r]]) <=> r \in Range(topics[topicOf[r]]) \/ r = s)
  <2> SUFFICES ASSUME NEW r \in Subs, topicOf[r] \in Topics
               PROVE  r \in Range(topics'[topicOf[r]]) <=> r \in Range(topics[topicOf[r]]) \/ r = s
    OBVIOUS
  <2> DEFINE u == topicOf[r]
             q == topics[u]
  <2>1. q \in Seq(Subs)
    BY <1>1 DEF TypeOK
  <2>2. CASE u # t
    <3>1. topics'[u] = q /\ r # s
      BY <1>1, <1>2, <1>3, <2>2 DEF TypeOK
    <3> QED BY <3>1
  <2>3. CASE u = t
    <3>1. topics'[u] = Append(q, s)
      BY <1>1, <1>3, <2>3 DEF TypeOK
    <3> HIDE DEF q
    <3>2. /\ DOMAIN q = 1..Len(q) /\ DOMAIN Append(q, s) = 1..(Len(q) + 1) /\ Len(q) \in Nat
          /\ Append(q, s)[Len(q) + 1] = s /\ \A i \in 1..Len(q) : Append(q, s)[i] = q[i]
      BY <1>2, <2>1
    <3>3. \A i \in 1..(Len(q) + 1) : i \in 1..Len(q) \/ i = Len(q) + 1
      BY <3>2
    <3>4. Len(q) + 1 \in 1..(Len(q) + 1) /\ \A i \in 1..Len(q) : i \in 1..(Len(q) + 1)
      BY <3>2
    <3>5. r \in Range(Append(q, s)) <=> r \in Range(q) \/ r = s
      BY <3>2, <3>3, <3>4 DEF Range
    <3> QED BY <3>1, <3>5 DEF q
  <2> QED BY <2>2, <2>3
<1>6. FeedState(s) = "unused" /\ FeedState(s)' = "live"
  <2>1. topicOf'[s] \in Topics /\ s \in Range(topics'[topicOf'[s]])
    BY <1>2, <1>3, <1>5
  <2>2. Registered(s)'
    BY <2>1 DEF Registered
  <2> QED BY <1>2, <1>4, <2>2 DEF FeedState
<1>7. \A r \in Subs : r # s => FeedState(r)' = FeedState(r)
  BY <1>3, <1>4, <1>5 DEF FeedState, Registered
<1>8. /\ feedBar' = [feedBar EXCEPT ![s] = "live"]
      /\ topicBar' = [topicBar EXCEPT ![s] = t]
      /\ endBar' = endBar /\ gotBar' = gotBar
  <2>f. feedBar' = [feedBar EXCEPT ![s] = "live"]
    BY <1>6, <1>7 DEF feedBar
  <2>1. topicBar' = [topicBar EXCEPT ![s] = t]
    <3> DEFINE g(r) == IF FeedState(r) = "unused" THEN NoTopic ELSE topicOf[r]
    <3>1. g(s)' = t /\ \A r \in Subs : r # s => g(r)' = g(r)
      BY <1>2, <1>3, <1>6, <1>7
    <3>2. topicBar = [r \in Subs |-> g(r)] /\ topicBar' = [r \in Subs |-> g(r)']
      BY DEF topicBar
    <3> HIDE DEF g
    <3> QED BY <3>1, <3>2
  <2>2. endBar' = endBar
    <3> DEFINE g(r) == IF FeedState(r) = "cut" THEN from[r] + Len(chan[r]) ELSE 0
    <3>1. \A r \in Subs : g(r)' = g(r)
      BY <1>3, <1>4, <1>6, <1>7
    <3>2. endBar = [r \in Subs |-> g(r)] /\ endBar' = [r \in Subs |-> g(r)']
      BY DEF endBar
    <3> HIDE DEF g
    <3> QED BY <3>1, <3>2
  <2>3. gotBar' = gotBar
    BY <1>3 DEF gotBar
  <2> QED BY <2>f, <2>1, <2>2, <2>3
<1>9. feedBar[s] = "unused"
  BY <1>2, <1>6 DEF feedBar
<1>10. Feed!Open(s, t)
  BY <1>2, <1>3, <1>8, <1>9 DEF Feed!Open, feedBar, topicBar, endBar, gotBar
<1> QED BY <1>10

(* Taking a Broadcast from the queue publishes it to every open feed.       *)
LEMMA BroadcastPublishes ==
    ASSUME MapInv, HandleBroadcast
    PROVE  \E t \in Topics, m \in Messages : Feed!Publish(t, m)
<1> USE DEF MapInv
<1> DEFINE m == Head(queue).msg
<1>1. m \in Messages /\ m.topic \in Topics
  <2>1. Head(queue) \in Commands /\ Head(queue).op = "Broadcast"
    BY DEF HandleBroadcast, Popped, IInv, TypeInv, TypeOK
  <2>2. m \in Messages
    BY <2>1, CommandFacts
  <2> QED BY <2>2, MessageFacts
<1>2. /\ log' = [log EXCEPT ![m.topic] = Append(@, m)]
      /\ UNCHANGED <<topics, chan, taken, phase, topicOf, from>>
  BY DEF HandleBroadcast, subVars
<1> HIDE DEF m
<1>3. \A s \in Subs : FeedState(s)' = FeedState(s)
  BY <1>2 DEF FeedState, Registered
<1>4. feedBar' = feedBar /\ topicBar' = topicBar /\ endBar' = endBar /\ gotBar' = gotBar
  BY <1>2, <1>3 DEF feedBar, topicBar, endBar, gotBar
<1>5. Feed!Publish(m.topic, m)
  BY <1>2, <1>4 DEF Feed!Publish, feedBar, topicBar, endBar, gotBar
<1> QED BY <1>1, <1>5

(* A visit of the retain loop is hidden: a send puts a message into a      *)
(* channel, from which it has still to be taken, and the purge of a dead   *)
(* sender concerns a subscription that is closed.                          *)
LEMMA RetainHidden ==
    ASSUME MapInv, RetainStep
    PROVE  UNCHANGED Feed!vars
<1> USE DEF MapInv, histVars
<1> DEFINE t == cur.topic
           s == topics[t][pos]
<1>1. TypeOK /\ TypeInv
  BY DEF IInv, TypeInv
<1>2. cur \in Messages /\ t \in Topics
  BY <1>1, MessageFacts DEF RetainStep, TypeInv
<1>3. topics[t] \in Seq(Subs) /\ pos \in 1..Len(topics[t]) /\ s \in Subs
  BY <1>1, <1>2 DEF RetainStep, TypeOK
<1>4. UNCHANGED <<taken, phase, topicOf, log, from>>
  BY DEF RetainStep
<1>5. /\ topicOf[s] = t /\ phase[s] \in {"replied", "open", "dropped"} /\ Registered(s)
  BY <1>2, <1>3, SMTT(30) DEF IInv, TableInv, Registered, Range
<1>6. CASE ReceiverExists(s)
  <2>1. chan' = [chan EXCEPT ![s] = Append(@, cur)] /\ topics' = topics
    BY <1>6 DEF RetainStep
  <2> HIDE DEF s, t
  <2>2. \A r \in Subs : FeedState(r)' = FeedState(r)
    BY <1>4, <2>1 DEF FeedState, Registered
  <2>3. FeedState(s) = "live"
    BY <1>1, <1>3, <1>5, <1>6, FeedStateFacts
  <2>4. ASSUME NEW r \in Subs
        PROVE  SubSeq(chan[r], 1, taken[r])' = SubSeq(chan[r], 1, taken[r])
    <3>1. chan'[r] = chan[r] \/ chan'[r] = Append(chan[r], cur)
      BY <1>1, <2>1 DEF TypeOK
    <3>2. chan[r] \in Seq(Messages) /\ taken[r] \in Nat /\ taken[r] <= Len(chan[r])
      BY <1>1 DEF TypeOK, OwnerInv
    <3> QED BY <1>2, <1>4, <3>1, <3>2, HandedOut
  <2>5. \A r \in Subs : FeedState(r) = "cut" => chan'[r] = chan[r]
    BY <1>1, <2>1, <2>3 DEF TypeOK
  <2> QED BY <1>4, <2>2, <2>4, <2>5, Hidden
<1>7. CASE ~ReceiverExists(s)
  <2>1. topics' = [topics EXCEPT ![t] = RemoveAt(@, pos)] /\ chan' = chan
    BY <1>7 DEF RetainStep
  <2>2. ASSUME NEW r \in Subs, ReceiverExists(r)
        PROVE  Registered(r)' <=> Registered(r)
    <3>1. CASE Registered(r)
      <4>1. [Next]_vars /\ ~HandleShutdown /\ ~AllHandlesDropped /\ ~HandleUnsubscribe
        BY DEF Next, ServerStep, RetainStep, HandleShutdown, AllHandlesDropped, HandleUnsubscribe, Popped
      <4> QED BY <2>2, <3>1, <4>1, CutStep
    <3>2. CASE ~Registered(r)
      <4>1. CASE topicOf[r] = t
        <5>1. topics'[t] = RemoveAt(topics[t], pos)
          BY <1>1, <1>2, <2>1 DEF TypeOK
        <5> HIDE DEF t
        <5>2. /\ RemoveAt(topics[t], pos) \in Seq(Subs)
              /\ Len(RemoveAt(topics[t], pos)) = Len(topics[t]) - 1 /\ Len(topics[t]) \in Nat
              /\ \A j \in 1..(Len(topics[t]) - 1) :
                   RemoveAt(topics[t], pos)[j] = IF j < pos THEN topics[t][j] ELSE topics[t][j + 1]
          <6>1. topics[t] \in Seq(Subs) /\ pos \in 1..Len(topics[t])
            BY <1>3
          <6>2. Len(topics[t]) \in Nat
            BY <6>1
          <6> QED BY <6>1, <6>2, RemoveAtFacts
        <5>3. \A j \in 1..Len(topics[t]) : topics[t][j] # r
          BY <1>2, <1>3, <3>2, <4>1 DEF Registered, Range
        <5>4. \A j \in 1..(Len(topics[t]) - 1) : j \in 1..Len(topics[t]) /\ j + 1 \in 1..Len(topics[t])
          BY <5>2
        <5>5. \A j \in 1..(Len(topics[t]) - 1) : RemoveAt(topics[t], pos)[j] # r
          BY <5>2, <5>3, <5>4
        <5>6. DOMAIN RemoveAt(topics[t], pos) = 1..(Len(topics[t]) - 1)
          BY <5>2
        <5> QED BY <1>4, <3>2, <4>1, <5>1, <5>5, <5>6 DEF Registered, Range
      <4>2. CASE topicOf[r] # t
        <5>1. topicOf[r] \in Topics => topics'[topicOf[r]] = topics[topicOf[r]]
          BY <1>1, <2>1, <4>2 DEF TypeOK
        <5> QED BY <1>4, <3>2, <5>1 DEF Registered
      <4> QED BY <4>1, <4>2
    <3> QED BY <3>1, <3>2
  <2>3. \A r \in Subs : FeedState(r)' = FeedState(r)
    <3> SUFFICES ASSUME NEW r \in Subs PROVE FeedState(r)' = FeedState(r)
      OBVIOUS
    <3>1. CASE ReceiverExists(r)
      BY <1>4, <2>2, <3>1 DEF FeedState
    <3>2. CASE ~ReceiverExists(r)
      <4>1. phase[r] \in Phase \ {"replied", "open"}
        BY <1>1, <3>2 DEF TypeOK, ReceiverExists
      <4> QED BY <1>4, <4>1 DEF FeedState, Phase
    <3> QED BY <3>1, <3>2
  <2> HIDE DEF s, t
  <2> QED BY <1>4, <2>1, <2>3, Hidden
<1> QED BY <1>6, <1>7

(* Unsubscribe, Shutdown and the end of the last handle cut the topics in  *)
(* T.  They come between two retain loops, when every live receiver has    *)
(* been sent the whole log of its topic.                                   *)
LEMMA CutMapped ==
    ASSUME MapInv, pc = "recv", NEW T \in SUBSET Topics,
           \A t \in Topics : topics'[t] = IF t \in T THEN << >> ELSE topics[t],
           UNCHANGED <<chan, taken, phase, topicOf, log, from>>
    PROVE  Feed!Cut(T)
<1> USE DEF MapInv
<1>1. TypeOK
  BY DEF IInv, TypeInv
<1> DEFINE hit(s) == FeedState(s) = "live" /\ topicOf[s] \in T
<1>2. ASSUME NEW s \in Subs
      PROVE  /\ topicOf[s] \in T => ~Registered(s)'
             /\ topicOf[s] \notin T => (Registered(s)' <=> Registered(s))
  BY DEF Registered, Range
<1>3. ASSUME NEW s \in Subs
      PROVE  FeedState(s)' = IF hit(s) THEN "cut" ELSE FeedState(s)
  <2>1. phase'[s] = phase[s] /\ phase[s] \in Phase
    BY <1>1 DEF TypeOK
  <2>2. CASE ReceiverExists(s)
    <3>1. FeedState(s) = IF Registered(s) THEN "live" ELSE "cut"
      BY <2>2 DEF FeedState, ReceiverExists
    <3>2. FeedState(s)' = IF Registered(s)' THEN "live" ELSE "cut"
      BY <2>1, <2>2 DEF FeedState, ReceiverExists
    <3>3. topicOf[s] \notin T => (Registered(s)' <=> Registered(s))
      BY <1>2
    <3>4. topicOf[s] \in T => ~Registered(s)'
      BY <1>2
    <3> QED BY <3>1, <3>2, <3>3, <3>4
  <2>3. CASE ~ReceiverExists(s)
    BY <2>1, <2>3 DEF FeedState, ReceiverExists, Phase
  <2> QED BY <2>2, <2>3
<1>4. ASSUME NEW s \in Subs, FeedState(s) = "live"
      PROVE  from[s] + Len(chan[s]) = Len(log[topicOf[s]])
  <2>1. ReceiverExists(s) /\ Registered(s)
    BY <1>1, <1>4, FeedStateFacts
  <2>2. topicOf[s] \in Topics /\ topics[topicOf[s]] \in Seq(Subs)
    BY <1>1, <2>1 DEF Registered, TypeOK
  <2>3. PICK i \in 1..Len(topics[topicOf[s]]) : topics[topicOf[s]][i] = s
    BY <2>1, <2>2 DEF Registered, Range
  <2> QED BY <2>1, <2>2, <2>3 DEF IInv, UpToDateInv, Due
<1>5. \A s \in Subs : hit(s) <=> feedBar[s] = "live" /\ topicBar[s] \in T
  BY DEF feedBar, topicBar
<1>6. feedBar' = [s \in Subs |-> IF feedBar[s] = "live" /\ topicBar[s] \in T
                                THEN "cut" ELSE feedBar[s]]
  <2>1. feedBar' = [s \in Subs |-> FeedState(s)'] /\ \A s \in Subs : feedBar[s] = FeedState(s)
    BY DEF feedBar
  <2> HIDE DEF hit
  <2> QED BY <1>3, <1>5, <2>1
<1>7. topicBar' = topicBar
  <2>1. \A s \in Subs : FeedState(s)' = "unused" <=> FeedState(s) = "unused"
    BY <1>3
  <2> QED BY <2>1 DEF topicBar
<1>8. endBar' = [s \in Subs |-> IF feedBar[s] = "live" /\ topicBar[s] \in T
                               THEN Len(log[topicBar[s]]) ELSE endBar[s]]
  <2>1. ASSUME NEW s \in Subs
        PROVE  (IF FeedState(s) = "cut" THEN from[s] + Len(chan[s]) ELSE 0)'
                 = IF hit(s) THEN Len(log[topicBar[s]]) ELSE endBar[s]
    <3>1. FeedState(s)' = IF hit(s) THEN "cut" ELSE FeedState(s)
      BY <1>3
    <3>2. hit(s) => topicBar[s] = topicOf[s]
      BY DEF topicBar
    <3>3. endBar[s] = IF FeedState(s) = "cut" THEN from[s] + Len(chan[s]) ELSE 0
      BY DEF endBar
    <3>4. hit(s) => FeedState(s) = "live"
      OBVIOUS
    <3> HIDE DEF hit
    <3> QED BY <1>4, <3>1, <3>2, <3>3, <3>4
  <2> DEFINE e(s) == IF FeedState(s) = "cut" THEN from[s] + Len(chan[s]) ELSE 0
  <2>2. endBar' = [s \in Subs |-> e(s)']
    BY DEF endBar
  <2>3. \A s \in Subs : e(s)' = IF hit(s) THEN Len(log[topicBar[s]]) ELSE endBar[s]
    BY <2>1
  <2> HIDE DEF hit, e
  <2> QED BY <1>5, <2>2, <2>3
<1>9. gotBar' = gotBar
  BY DEF gotBar
<1> QED BY <1>6, <1>7, <1>8, <1>9 DEF Feed!Cut, feedBar, topicBar, endBar, gotBar

-----------------------------------------------------------------------------
(* Every step of PubSub is a step of the feed or leaves it alone.           *)
LEMMA NextMapped == MapInv /\ [Next]_vars => [Feed!Next]_(Feed!vars)
<1> SUFFICES ASSUME MapInv, [Next]_vars
             PROVE  Feed!Next \/ UNCHANGED Feed!vars
  OBVIOUS
<1> USE DEF subVars, histVars, serverVars
<1>t. TypeOK /\ TypeInv /\ IInv
  BY DEF MapInv, IInv, TypeInv
<1>1. ASSUME UNCHANGED <<topics, chan, taken, phase, topicOf, log, from>>
      PROVE  UNCHANGED Feed!vars
  <2>1. \A s \in Subs : FeedState(s)' = FeedState(s)
    BY <1>1 DEF FeedState, Registered
  <2> QED BY <1>1, <2>1, Hidden
<1>2. ASSUME NEW c \in Callers, NEW s \in Subs, NEW t \in Topics, SubscribeCall(c, s, t)
      PROVE  UNCHANGED Feed!vars
  <2>1. /\ phase[s] = "unused" /\ phase'[s] \in {"requested", "failed"}
        /\ \A r \in Subs : r # s => phase'[r] = phase[r] /\ topicOf'[r] = topicOf[r]
        /\ UNCHANGED <<topics, chan, taken, log, from>>
    BY <1>2, <1>t DEF SubscribeCall, TypeOK
  <2>2. FeedState(s) = "unused" /\ FeedState(s)' = "unused"
    BY <2>1 DEF FeedState
  <2>3. \A r \in Subs : r # s => FeedState(r)' = FeedState(r)
    BY <2>1 DEF FeedState, Registered
  <2>4. \A r \in Subs : FeedState(r)' = FeedState(r)
    BY <2>2, <2>3
  <2>5. \A r \in Subs : FeedState(r) # "unused" => topicOf'[r] = topicOf[r]
    BY <2>1, <2>2
  <2> QED BY <2>1, <2>4, <2>5, Hidden
<1>3. ASSUME NEW c \in Callers, SubscribeReturn(c)
      PROVE  UNCHANGED Feed!vars
  <2>1. PICK s \in Subs : waiting[c] = s
    BY <1>3, <1>t DEF SubscribeReturn, TypeOK
  <2>2. /\ \/ phase[s] = "replied" /\ phase'[s] = "open"
           \/ phase[s] = "requested" /\ phase'[s] = "failed"
        /\ \A r \in Subs : r # s => phase'[r] = phase[r]
        /\ UNCHANGED <<topics, chan, taken, topicOf, log, from>>
    BY <1>3, <1>t, <2>1 DEF SubscribeReturn, TypeOK
  <2>3. \A r \in Subs : Registered(r)' <=> Registered(r)
    BY <2>2 DEF Registered
  <2>4. FeedState(s)' = FeedState(s)
    BY <2>2, <2>3 DEF FeedState
  <2>5. \A r \in Subs : r # s => FeedState(r)' = FeedState(r)
    BY <2>2, <2>3 DEF FeedState
  <2> QED BY <2>2, <2>4, <2>5, Hidden
<1>4. ASSUME NEW c \in Callers, ShutdownCall(c) \/ DropHandle(c)
      PROVE  UNCHANGED Feed!vars
  BY <1>1, <1>4 DEF ShutdownCall, DropHandle
<1>5. ASSUME NEW c \in Callers, NEW t \in Topics, BroadcastCall(c, t) \/ UnsubscribeCall(c, t)
      PROVE  UNCHANGED Feed!vars
  BY <1>1, <1>5 DEF BroadcastCall, UnsubscribeCall
<1>6. ASSUME NEW s \in Subs, Receive(s) \/ Disconnected(s) \/ DropReceiver(s)
      PROVE  Feed!Next
  BY <1>6, ReceiveTakes, DisconnectedEnds, DropCloses DEF Feed!Next
<1>7. CASE HandleSubscribe
  BY <1>7, SubscribeOpens DEF Feed!Next
<1>8. CASE HandleBroadcast
  BY <1>8, BroadcastPublishes DEF Feed!Next
<1>9. CASE RetainStep
  BY <1>9, RetainHidden
<1>10. CASE RetainDone \/ ServerStopped
  BY <1>1, <1>10 DEF RetainDone, ServerStopped
<1>11. CASE HandleUnsubscribe
  <2>1. Head(queue) \in Commands /\ Head(queue).op = "Unsubscribe"
    BY <1>11, <1>t DEF HandleUnsubscribe, Popped, TypeOK
  <2>2. PICK t \in Topics : Head(queue).topic = t
    BY <2>1, CommandFacts
  <2>3. /\ pc = "recv" /\ UNCHANGED <<chan, taken, phase, topicOf, log, from>>
        /\ topics' = [topics EXCEPT ![t] = << >>]
    BY <1>11, <2>2 DEF HandleUnsubscribe, Popped
  <2>4. \A u \in Topics : topics'[u] = IF u \in {t} THEN << >> ELSE topics[u]
    BY <1>t, <2>3 DEF TypeOK
  <2>5. Feed!Cut({t})
    BY <2>3, <2>4, CutMapped
  <2>6. {t} \in SUBSET Topics
    OBVIOUS
  <2> QED BY <2>5, <2>6 DEF Feed!Next
<1>12. CASE HandleShutdown \/ AllHandlesDropped
  <2>1. /\ pc = "recv" /\ UNCHANGED <<chan, taken, phase, topicOf, log, from>>
        /\ \A u \in Topics : topics'[u] = IF u \in Topics THEN << >> ELSE topics[u]
    BY <1>12 DEF HandleShutdown, AllHandlesDropped, Popped
  <2>2. Feed!Cut(Topics)
    BY <2>1, CutMapped
  <2> QED BY <2>2 DEF Feed!Next
<1>13. CASE UNCHANGED vars
  BY <1>1, <1>13 DEF vars
<1> QED
  BY <1>2, <1>3, <1>4, <1>5, <1>6, <1>7, <1>8, <1>9, <1>10, <1>11, <1>12, <1>13
     DEF Next, ServerStep

(* Every behaviour of the queue, the retain loop and the receivers is one  *)
(* of the abstract feed: in order, without a gap or a duplicate, and after *)
(* a cut still handing out all that was published before it.               *)
THEOREM PubSubImplementsFeed == Spec => ImplementsFeed
<1>1. Init => Feed!Init
  BY DEF Init, Feed!Init, FeedState
<1>2. Spec => []MapInv
  BY IInvInit, IInvStep, OwnerInit, OwnerStep, PTL DEF Spec, MapInv
<1> QED BY <1>1, <1>2, NextMapped, PTL DEF Spec, ImplementsFeed, Feed!Spec
=============================================================================
