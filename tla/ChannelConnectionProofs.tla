----------------------- MODULE ChannelConnectionProofs -----------------------
(***************************************************************************)
(* Proofs about ChannelConnection, for any topics, instances, requests,    *)
(* timers and failures: the mailbox, the forwarders and the client agree   *)
(* whatever interleaving of casts, broadcasts, ticks, joins and ends of    *)
(* the process happens.                                                    *)
(***************************************************************************)
EXTENDS ChannelConnection, TLAPS

USE DEF Instances, NoInstance

(* An element of a sequence that grew or lost its head is where it was.    *)
LEMMA AppendFacts ==
    ASSUME NEW S, NEW q \in Seq(S), NEW e \in S
    PROVE  /\ Append(q, e) \in Seq(S) /\ Len(q) \in Nat
           /\ Len(Append(q, e)) = Len(q) + 1
           /\ \A i \in 1..Len(q) : Append(q, e)[i] = q[i]
           /\ Append(q, e)[Len(q) + 1] = e
           /\ \A i \in 1..(Len(q) + 1) : i \in 1..Len(q) \/ i = Len(q) + 1
  OBVIOUS

(* What is left of a sequence that lost its head.                           *)
LEMMA TailFacts ==
    ASSUME NEW S, NEW q \in Seq(S), q # << >>
    PROVE  /\ Tail(q) \in Seq(S) /\ Len(q) \in Nat \ {0}
           /\ Head(q) = q[1] /\ Head(q) \in S
           /\ Len(Tail(q)) = Len(q) - 1
           /\ \A i \in 1..(Len(q) - 1) : Tail(q)[i] = q[i + 1] /\ i + 1 \in 1..Len(q)
           /\ \A i \in 1..Len(q) : i # 1 => i - 1 \in 1..(Len(q) - 1) /\ Tail(q)[i - 1] = q[i]
  OBVIOUS

(* What lies in the mailbox, by kind, and what is sent to the client.      *)
LEMMA MailFacts ==
    ASSUME NEW e \in Mail
    PROVE  /\ e.kind = "cast" => e.req \in Requests
           /\ e.kind = "info" => e.topic \in Topics /\ e.via \in Instances /\ e.msg \in 0..MaxPublish
           /\ e.kind \in {"cast", "info"}
  BY DEF Mail

(* The fields of a request of the client.                                   *)
LEMMA RequestFacts ==
    ASSUME NEW q \in Requests
    PROVE  q.topic \in Topics /\ q.ref \in 0..MaxRequests /\ q.ev \in Events \cup {"event"}
  BY DEF Requests

(* The fields of a cast, and that it is mail.                               *)
LEMMA CastFacts ==
    ASSUME NEW q \in Requests
    PROVE  Cast(q) \in Mail /\ Cast(q).kind = "cast" /\ Cast(q).req = q
  BY DEF Cast, Mail

(* The fields of a broadcast or a tick on its way to handle_info.           *)
LEMMA InfoFacts ==
    ASSUME NEW t \in Topics, NEW k \in Instances, NEW m \in 0..MaxPublish
    PROVE  /\ Info(t, k, m) \in Mail /\ Info(t, k, m).kind = "info" /\ Info(t, k, m).topic = t
           /\ Info(t, k, m).via = k /\ Info(t, k, m).msg = m
           /\ PushFrame(t, k, m) \in Frames /\ PushFrame(t, k, m).kind = "push"
           /\ PushFrame(t, k, m).topic = t
           /\ PushFrame(t, k, m).via = k /\ PushFrame(t, k, m).msg = m
  BY DEF Info, Mail, PushFrame, Frames

(* The fields of a reply, and that it is a frame.                           *)
LEMMA ReplyFacts ==
    ASSUME NEW t \in Topics \cup {NoTopic}, NEW ev \in {"phx_join", "phx_leave", "heartbeat", "event"},
           NEW status \in {"ok", "error"}, NEW ref \in 0..MaxRequests
    PROVE  /\ ReplyFrame(t, ev, status, ref) \in Frames
           /\ ReplyFrame(t, ev, status, ref).kind = "reply"
           /\ ReplyFrame(t, ev, status, ref).topic = t
           /\ ReplyFrame(t, ev, status, ref).ev = ev
           /\ ReplyFrame(t, ev, status, ref).status = status
           /\ ReplyFrame(t, ev, status, ref).ref = ref
  BY DEF ReplyFrame, Frames

-----------------------------------------------------------------------------
(* What handling a cast does to mailbox and client, whatever it is.        *)
LEMMA CastHandled ==
    ASSUME TypeOK, NEW ev, HandlingCast(ev)
    PROVE  /\ proc = "alive" /\ joining = NoInstance /\ mailbox # << >>
           /\ Head(mailbox) \in Mail /\ Head(mailbox).kind = "cast"
           /\ Request \in Requests /\ Request.topic \in Topics /\ Request.ref \in 0..MaxRequests
           /\ Request.ev = ev
           /\ mailbox' = Tail(mailbox) /\ mailbox' \in Seq(Mail)
<1>1. /\ proc = "alive" /\ joining = NoInstance /\ mailbox # << >> /\ mailbox \in Seq(Mail)
      /\ Head(mailbox).kind = "cast" /\ mailbox' = Tail(mailbox) /\ Request.ev = ev
  BY DEF HandlingCast, CanHandle, TypeOK, Request
<1>2. Head(mailbox) \in Mail /\ Tail(mailbox) \in Seq(Mail)
  BY <1>1, TailFacts
<1>3. Request \in Requests
  BY <1>1, <1>2, MailFacts DEF Request
<1> QED BY <1>1, <1>2, <1>3, RequestFacts

(* ReplyIfRef adds the reply to what was sent, or nothing.                  *)
LEMMA ReplySent ==
    ASSUME TypeOK, Request \in Requests,
           NEW ev \in {"phx_join", "phx_leave", "heartbeat", "event"}, NEW status \in {"ok", "error"},
           ReplyIfRef(ev, status)
    PROVE  /\ out' \in Seq(Frames)
           /\ \/ out' = out /\ Request.ref = 0
              \/ /\ Request.ref # 0
                 /\ out' = Append(out, ReplyFrame(Request.topic, ev, status, Request.ref))
                 /\ ReplyFrame(Request.topic, ev, status, Request.ref) \in Frames
<1>1. Request.topic \in Topics /\ Request.ref \in 0..MaxRequests
  BY RequestFacts
<1>2. ReplyFrame(Request.topic, ev, status, Request.ref) \in Frames
  BY <1>1, ReplyFacts
<1>3. out \in Seq(Frames)
  BY DEF TypeOK
<1> QED BY <1>2, <1>3, AppendFacts DEF ReplyIfRef

-----------------------------------------------------------------------------
(* The inductive invariant.                                                *)

(* JoinedIsLive is inductive with what a suspended join is in the middle   *)
(* of, and with: an instance that was used has a topic.                    *)
LifeInv ==
    /\ JoinedIsLive
    /\ joining # NoInstance => proc = "alive" /\ inst[joining] = "joining"
    /\ \A k \in Instances : inst[k] = "joining" => joining = k
    /\ \A k \in Instances : inst[k] # "unused" => at[k] \in Topics

(* PubSub as this connection sees it: the logs are numbered in the order   *)
(* of publication, and a subscription, opened for the topic of its         *)
(* instance, has handed out a piece of the log without a gap.              *)
LogInv ==
    \A t \in Topics : \A i \in 1..Len(log[t]) :
        /\ log[t][i] <= published
        /\ \A j \in 1..Len(log[t]) : i < j => log[t][i] < log[t][j]

FeedInv ==
    \A k \in Instances :
        /\ feed[k] = "unused" => got[k] = << >> /\ forwarder[k] = "none"
        /\ feed[k] # "unused" =>
             /\ inst[k] \notin {"unused", "joining"}
             /\ topic[k] = at[k]
             /\ from[k] + Len(got[k]) <= Len(log[topic[k]])
             /\ \A i \in 1..Len(got[k]) : got[k][i] = log[topic[k]][from[k] + i]

(* Timers and what lies in the mailbox carry the topic of their instance.  *)
MailInv ==
    /\ \A tm \in timers : inst[tm.inst] # "unused" /\ tm.topic = at[tm.inst]
    /\ \A i \in 1..Len(mailbox) : mailbox[i].kind = "info" =>
         inst[mailbox[i].via] # "unused" /\ mailbox[i].topic = at[mailbox[i].via]

(* Pushed and waiting broadcasts come from the forwarder they name, each   *)
(* once and in publication order, whether or not the instance is joined.   *)
Got(k, m) == \E n \in 1..Len(got[k]) : got[k][n] = m

OrderInv ==
    \A k \in Instances :
        /\ \A i \in Pushed(k) : Got(k, out[i].msg)
        /\ \A i \in Due(k) : Got(k, mailbox[i].msg)
        /\ \A i, j \in Pushed(k) : i < j => out[i].msg < out[j].msg
        /\ \A i, j \in Due(k) : i < j => mailbox[i].msg < mailbox[j].msg
        /\ \A i \in Pushed(k), j \in Due(k) : out[i].msg < mailbox[j].msg

(* Nothing the forwarder of a joined instance has taken is missing.        *)
CompleteInv ==
    \A t \in Topics : joined[t] # NoInstance =>
        \A n \in 1..Len(got[joined[t]]) :
            \/ \E i \in Pushed(joined[t]) : out[i].msg = got[joined[t]][n]
            \/ \E i \in Due(joined[t]) : mailbox[i].msg = got[joined[t]][n]

IInv == TypeOK /\ LifeInv /\ LogInv /\ FeedInv /\ MailInv /\ OrderInv /\ CompleteInv

(* Requests on their way are numbered in the order in which they were      *)
(* sent, and answers are below what is still to be answered: the refs of   *)
(* out, mailbox and wsIn, read in this order, rise.                        *)
MailRef(e) == IF e.kind = "cast" THEN e.req.ref ELSE 0
FrameRef(f) == IF f.kind = "reply" THEN f.ref ELSE 0
Below(r, s) == r # 0 /\ s # 0 => r < s

RefInv ==
    /\ \A i \in 1..Len(wsIn) : wsIn[i].ref <= sent
    /\ \A i \in 1..Len(mailbox) : MailRef(mailbox[i]) <= sent
    /\ \A i \in 1..Len(out) : FrameRef(out[i]) <= sent
    /\ \A i, j \in 1..Len(wsIn) : i < j => Below(wsIn[i].ref, wsIn[j].ref)
    /\ \A i, j \in 1..Len(mailbox) : i < j => Below(MailRef(mailbox[i]), MailRef(mailbox[j]))
    /\ \A i, j \in 1..Len(out) : i < j => Below(FrameRef(out[i]), FrameRef(out[j]))
    /\ \A i \in 1..Len(mailbox), j \in 1..Len(wsIn) : Below(MailRef(mailbox[i]), wsIn[j].ref)
    /\ \A i \in 1..Len(out), j \in 1..Len(wsIn) : Below(FrameRef(out[i]), wsIn[j].ref)
    /\ \A i \in 1..Len(out), j \in 1..Len(mailbox) : Below(FrameRef(out[i]), MailRef(mailbox[j]))

(* A topic is open to the client once the ok answer to a join went out and *)
(* no answer to a leave followed.                                          *)
LeaveReply(h, t) == out[h].kind = "reply" /\ out[h].ev = "phx_leave" /\ out[h].topic = t
JoinReply(h, t) ==
    out[h].kind = "reply" /\ out[h].ev = "phx_join" /\ out[h].status = "ok" /\ out[h].topic = t

OpenToClient(t) ==
    \E i \in 1..Len(out) : JoinReply(i, t) /\ \A h \in i..Len(out) : ~LeaveReply(h, t)

QuietInv ==
    /\ QuietUnlessJoined
    /\ \A i \in 1..Len(wsIn) : wsIn[i].ev \in {"phx_join", "phx_leave"} => wsIn[i].ref # 0
    /\ \A i \in 1..Len(mailbox) :
         mailbox[i].kind = "cast" /\ mailbox[i].req.ev \in {"phx_join", "phx_leave"} =>
            mailbox[i].req.ref # 0
    /\ \A t \in Topics : joined[t] # NoInstance => OpenToClient(t)
    /\ joining # NoInstance => OpenToClient(at[joining])

-----------------------------------------------------------------------------
(* The variables start within their types.                                  *)
LEMMA TypeInit == Init => TypeOK
  BY BoundAssumption, SubAssumption DEF Init, PS!Init, TypeOK, InstanceState

(* Every step keeps the types; a broadcast has its topic from FeedInv.      *)
LEMMA TypeStep == TypeOK /\ LifeInv /\ FeedInv /\ [Next]_vars => TypeOK'
<1> SUFFICES ASSUME TypeOK, LifeInv, FeedInv, [Next]_vars PROVE TypeOK'
  OBVIOUS
<1> USE DEF feedVars, envVars, procVars, taskVars
<1>m. mailbox \in Seq(Mail) /\ out \in Seq(Frames) /\ wsIn \in Seq(Requests)
  BY DEF TypeOK
<1>1. ASSUME NEW ev \in Events \ {"send_event"}, NEW t \in Topics, NEW hasRef \in Refs,
             ClientSend(ev, t, hasRef)
      PROVE  TypeOK'
  <2>1. [ev |-> ev, topic |-> t, ref |-> IF hasRef THEN sent + 1 ELSE 0] \in Requests /\ sent' \in 0..MaxRequests
    BY <1>1, BoundAssumption DEF ClientSend, Requests, TypeOK
  <2>2. wsIn' \in Seq(Requests)
    BY <1>1, <1>m, <2>1 DEF ClientSend
  <2> QED BY <1>1, <2>1, <2>2 DEF ClientSend, TypeOK
<1>2. CASE ClientClose
  BY <1>2 DEF ClientClose, TypeOK
<1>3. ASSUME NEW t \in Topics, Publish(t)
      PROVE  TypeOK'
  <2>1. published + 1 \in Messages /\ published' \in 0..MaxPublish
    BY <1>3, BoundAssumption DEF Publish, Messages, TypeOK
  <2> QED BY <1>3, <2>1, SMTT(30) DEF Publish, PS!Publish, TypeOK
<1>4. ASSUME NEW T \in SUBSET Topics, PS!Cut(T)
      PROVE  /\ feed' \in [Subs -> {"unused", "live", "cut", "ended", "closed"}]
             /\ end' \in [Subs -> Nat] /\ UNCHANGED <<log, topic, from, got>>
  BY <1>4 DEF PS!Cut, TypeOK
<1>5. ASSUME NEW t \in Topics, UnsubscribeTopic(t)
      PROVE  TypeOK'
  <2>1. PS!Cut({t}) /\ {t} \in SUBSET Topics
    BY <1>5 DEF UnsubscribeTopic, TypeOK
  <2> QED BY <1>4, <1>5, <2>1 DEF UnsubscribeTopic, TypeOK
<1>6. CASE ShutdownPubSub
  <2>1. PS!Cut(Topics) /\ Topics \in SUBSET Topics
    BY <1>6 DEF ShutdownPubSub, TypeOK
  <2> QED BY <1>4, <1>6, <2>1 DEF ShutdownPubSub, TypeOK
<1>7. ASSUME NEW t \in Topics, SendEvent(t)
      PROVE  TypeOK'
  <2>1. [ev |-> "event", topic |-> t, ref |-> 0] \in Requests /\ sent' \in 0..MaxRequests
    BY <1>7, BoundAssumption DEF SendEvent, Requests, TypeOK
  <2>2. mailbox' \in Seq(Mail)
    BY <1>7, <2>1, CastFacts, AppendFacts DEF SendEvent, TypeOK
  <2> QED BY <1>7, <2>1, <2>2 DEF SendEvent, TypeOK
<1>8. ASSUME NEW after, after \in [Instances -> {"terminated", "vetoed", "lost"}], ProcessGone(after)
      PROVE  /\ proc' = "dead" /\ mailbox' \in Seq(Mail) /\ joining' = NoInstance
             /\ joined' \in [Topics -> Instances \cup {NoInstance}]
             /\ inst' \in [Instances -> InstanceState] /\ at' = at
  BY <1>8 DEF ProcessGone, InstanceState, TypeOK
<1>9. CASE HandlerPanics
  <2>1. [k \in Instances |-> "lost"] \in [Instances -> {"terminated", "vetoed", "lost"}]
    OBVIOUS
  <2> QED BY <1>8, <1>9, <2>1 DEF HandlerPanics, TypeOK
<1>10. CASE ReadLoopCast
  <2>1. Head(wsIn) \in Requests /\ Tail(wsIn) \in Seq(Requests)
    BY <1>10, TailFacts DEF ReadLoopCast, TypeOK
  <2>2. mailbox' \in Seq(Mail)
    <3>1. Cast(Head(wsIn)) \in Mail
      BY <2>1, CastFacts
    <3>2. mailbox' = mailbox \/ mailbox' = Append(mailbox, Cast(Head(wsIn)))
      BY <1>10 DEF ReadLoopCast, TypeOK
    <3> QED BY <1>m, <3>1, <3>2, AppendFacts
  <2> QED BY <1>10, <2>1, <2>2 DEF ReadLoopCast, TypeOK
<1>11. CASE ReadLoopEnd
  <2>1. CASE proc = "alive"
    <3>1. PICK after \in [Instances -> {"terminated", "vetoed", "lost"}] : ProcessGone(after)
      BY <1>11, <2>1 DEF ReadLoopEnd, Terminate, TypeOK
    <3> QED BY <1>8, <1>11, <3>1 DEF ReadLoopEnd, TypeOK
  <2>2. CASE proc # "alive"
    BY <1>11, <2>2 DEF ReadLoopEnd, TypeOK
  <2> QED BY <2>1, <2>2
<1>12. CASE JoinUnrouted
  BY <1>12, CastHandled DEF JoinUnrouted, TypeOK
<1>13. CASE JoinRefused
  BY <1>13, CastHandled, ReplySent DEF JoinRefused, TypeOK
<1>14. ASSUME NEW k \in Instances, JoinAccepted(k)
       PROVE  TypeOK'
  <2>1. Request \in Requests /\ Request.topic \in Topics /\ mailbox' \in Seq(Mail)
    BY <1>14, CastHandled DEF JoinAccepted
  <2>2. out' \in Seq(Frames)
    BY <1>14, <2>1, ReplySent DEF JoinAccepted, TypeOK
  <2>3. timers' \subseteq [inst : Instances, topic : Topics, kind : Timers]
    BY <1>14, <2>1 DEF JoinAccepted, TypeOK
  <2>4. inst' \in [Instances -> InstanceState] /\ at' \in [Instances -> Topics \cup {NoTopic}]
    BY <1>14, <2>1 DEF JoinAccepted, InstanceState, TypeOK
  <2> QED BY <1>14, <2>1, <2>2, <2>3, <2>4 DEF JoinAccepted, TypeOK
<1>15. CASE JoinCompleted
  <2>1. joining \in Instances
    BY <1>15 DEF JoinCompleted, TypeOK
  <2>2. inst' \in [Instances -> InstanceState] /\ joined' \in [Topics -> Instances \cup {NoInstance}]
    BY <1>15, <2>1 DEF JoinCompleted, InstanceState, TypeOK
  <2>3. CASE pubsubUp
    <3>1. PS!Open(joining, at[joining]) /\ forwarder' = [forwarder EXCEPT ![joining] = "running"]
      BY <1>15, <2>3 DEF JoinCompleted, TypeOK
    <3>2. at[joining] \in Topics
      BY <1>15, <2>1 DEF JoinCompleted, LifeInv, TypeOK
    <3> QED BY <1>15, <2>1, <2>2, <3>1, <3>2 DEF JoinCompleted, PS!Open, TypeOK
  <2>4. CASE ~pubsubUp
    BY <1>15, <2>2, <2>4 DEF JoinCompleted, TypeOK
  <2> QED BY <2>3, <2>4
<1>16. CASE Leave
  <2>1. Request \in Requests /\ Request.topic \in Topics /\ mailbox' \in Seq(Mail)
    BY <1>16, CastHandled DEF Leave
  <2>2. out' \in Seq(Frames)
    BY <1>16, <2>1, ReplySent DEF Leave, TypeOK
  <2>3. inst' \in [Instances -> InstanceState] /\ joined' \in [Topics -> Instances \cup {NoInstance}]
    BY <1>16, <2>1 DEF Leave, InstanceState, TypeOK
  <2> QED BY <1>16, <2>1, <2>2, <2>3 DEF Leave, TypeOK
<1>17. CASE Heartbeat
  <2>1. Request.ref \in 0..MaxRequests /\ mailbox' \in Seq(Mail)
    BY <1>17, CastHandled DEF Heartbeat
  <2>2. ReplyFrame(NoTopic, "heartbeat", "ok", Request.ref) \in Frames
    BY <2>1 DEF ReplyFrame, Frames
  <2> QED BY <1>17, <2>1, <2>2, AppendFacts DEF Heartbeat, TypeOK
<1>18. CASE Event
  <2>1. Request \in Requests /\ mailbox' \in Seq(Mail)
    BY <1>18, CastHandled DEF Event
  <2>2. out' \in Seq(Frames)
    BY <1>18, <2>1, ReplySent DEF Event, TypeOK
  <2> QED BY <1>18, <2>1, <2>2 DEF Event, TypeOK
<1>19. CASE HandleInfo
  <2>1. Head(mailbox) \in Mail /\ mailbox' \in Seq(Mail)
    BY <1>19, TailFacts DEF HandleInfo, CanHandle, TypeOK
  <2>2. PushFrame(Head(mailbox).topic, Head(mailbox).via, Head(mailbox).msg) \in Frames
    BY <1>19, <2>1, MailFacts, InfoFacts DEF HandleInfo, TypeOK
  <2> QED BY <1>19, <2>1, <2>2, AppendFacts, SMTT(30) DEF HandleInfo, TypeOK
<1>20. ASSUME NEW k \in Instances, Forward(k)
       PROVE  TypeOK'
  <2> DEFINE next == from[k] + Len(got[k]) + 1
  <2>1. topic[k] \in Topics
    BY <1>20 DEF Forward, LifeInv, FeedInv, TypeOK
  <2>2. /\ next \in Nat \ {0} /\ next <= Len(log[topic[k]])
        /\ got' = [got EXCEPT ![k] = Append(@, log[topic[k]][next])]
        /\ UNCHANGED <<log, feed, topic, from, end>>
    BY <1>20, SMTT(30) DEF Forward, PS!Take, TypeOK
  <2>3. log[topic[k]] \in Seq(Messages) /\ got[k] \in Seq(Messages)
    BY <2>1 DEF TypeOK
  <2> HIDE DEF next
  <2>4. log[topic[k]][next] \in Messages
    BY <2>2, <2>3 DEF TypeOK
  <2>5. got' \in [Subs -> Seq(Messages)] /\ got'[k] = Append(got[k], log[topic[k]][next])
    BY <2>2, <2>3, <2>4 DEF TypeOK
  <2>6. Last(got'[k]) = log[topic[k]][next]
    BY <2>3, <2>4, <2>5 DEF Last, TypeOK
  <2>7. Info(topic[k], k, Last(got'[k])) \in Mail
    BY <2>1, <2>4, <2>6, InfoFacts DEF Messages, TypeOK
  <2>8. mailbox' \in Seq(Mail)
    <3>1. mailbox' = mailbox \/ mailbox' = Append(mailbox, Info(topic[k], k, Last(got'[k])))
      BY <1>20 DEF Forward
    <3> QED BY <1>m, <2>7, <3>1, AppendFacts
  <2>9. forwarder' \in [Instances -> {"none", "running", "ending", "done"}]
    BY <1>20 DEF Forward, TypeOK
  <2> QED BY <1>20, <2>2, <2>5, <2>8, <2>9 DEF Forward, TypeOK
<1>21. ASSUME NEW k \in Instances, ForwarderEnds(k) \/ ForwarderDisconnected(k)
       PROVE  TypeOK'
  <2>1. PS!Close(k) \/ PS!End(k)
    BY <1>21 DEF ForwarderEnds, ForwarderDisconnected, TypeOK
  <2>2. /\ feed' \in [Subs -> {"unused", "live", "cut", "ended", "closed"}]
        /\ end' \in [Subs -> Nat] /\ UNCHANGED <<log, topic, from, got>>
    <3>1. CASE PS!Close(k)
      BY <3>1 DEF PS!Close, TypeOK
    <3>2. CASE PS!End(k)
      BY <3>2 DEF PS!End, TypeOK
    <3> QED BY <2>1, <3>1, <3>2
  <2>3. forwarder' \in [Instances -> {"none", "running", "ending", "done"}]
    BY <1>21 DEF ForwarderEnds, ForwarderDisconnected, TypeOK
  <2> QED BY <1>21, <2>2, <2>3 DEF ForwarderEnds, ForwarderDisconnected, TypeOK
<1>22. ASSUME NEW tm \in timers, TimerFires(tm)
       PROVE  TypeOK'
  <2>1. Info(tm.topic, tm.inst, 0) \in Mail
    BY InfoFacts, BoundAssumption, SMTT(30) DEF TypeOK
  <2>2. mailbox' \in Seq(Mail)
    BY <1>22, <2>1, AppendFacts DEF TimerFires, TypeOK
  <2> QED BY <1>22, <2>2 DEF TimerFires, TypeOK
<1>23. CASE UNCHANGED vars
  BY <1>23 DEF vars, TypeOK
<1> QED
  BY <1>1, <1>2, <1>3, <1>5, <1>6, <1>7, <1>9, <1>10, <1>11, <1>12, <1>13, <1>14, <1>15, <1>16,
     <1>17, <1>18, <1>19, <1>20, <1>21, <1>22, <1>23
     DEF Next, ReadLoop, HandleMessage, ForwarderStep
-----------------------------------------------------------------------------
(* The life of the instances.                                              *)

Gone == /\ \E after \in [Instances -> {"terminated", "vetoed", "lost"}] : ProcessGone(after)
        /\ UNCHANGED <<feedVars, published, sent, wsIn, forwarder, timers, out>>

(* The steps that touch the process's own state: few of all there are.     *)
LEMMA ProcSteps ==
    ASSUME [Next]_vars
    PROVE  \/ UNCHANGED procVars
           \/ \E k \in Instances : JoinAccepted(k)
           \/ JoinCompleted
           \/ Leave
           \/ Gone
<1> USE DEF envVars, taskVars
<1>1. CASE HandlerPanics
  <2>1. [k \in Instances |-> "lost"] \in [Instances -> {"terminated", "vetoed", "lost"}]
    OBVIOUS
  <2> QED BY <1>1, <2>1 DEF HandlerPanics, Gone
<1>2. CASE ReadLoopEnd
  <2>1. CASE proc = "alive"
    <3>1. PICK after \in [Instances -> {"terminated", "vetoed", "lost"}] : ProcessGone(after)
      BY <1>2, <2>1 DEF ReadLoopEnd, Terminate
    <3> QED BY <1>2, <3>1 DEF ReadLoopEnd, Gone
  <2>2. CASE proc # "alive"
    BY <1>2, <2>2 DEF ReadLoopEnd
  <2> QED BY <2>1, <2>2
<1>3. ASSUME NEW ev, NEW t, NEW hasRef, ClientSend(ev, t, hasRef) PROVE UNCHANGED procVars
  BY <1>3 DEF ClientSend
<1>4. ASSUME NEW t, Publish(t) \/ UnsubscribeTopic(t) \/ SendEvent(t) PROVE UNCHANGED procVars
  BY <1>4 DEF Publish, UnsubscribeTopic, SendEvent
<1>5. CASE ClientClose \/ ShutdownPubSub \/ ReadLoopCast
  BY <1>5 DEF ClientClose, ShutdownPubSub, ReadLoopCast
<1>6. CASE JoinUnrouted \/ JoinRefused \/ Heartbeat \/ Event \/ HandleInfo
  BY <1>6 DEF JoinUnrouted, JoinRefused, Heartbeat, Event, HandleInfo
<1>7. ASSUME NEW k, ForwarderStep(k) PROVE UNCHANGED procVars
  BY <1>7 DEF ForwarderStep, Forward, ForwarderEnds, ForwarderDisconnected
<1>8. ASSUME NEW tm, TimerFires(tm) PROVE UNCHANGED procVars
  BY <1>8 DEF TimerFires
<1>9. CASE UNCHANGED vars
  BY <1>9 DEF vars
<1> QED
  BY <1>1, <1>2, <1>3, <1>4, <1>5, <1>6, <1>7, <1>8, <1>9 DEF Next, ReadLoop, HandleMessage

(* The end of the process leaves no instance joined or joining.            *)
LEMMA GoneFacts ==
    ASSUME TypeOK, Gone
    PROVE  /\ proc' = "dead" /\ mailbox' = << >> /\ joining' = NoInstance /\ at' = at
           /\ \A t \in Topics : joined'[t] = NoInstance
           /\ \A k \in Instances : /\ inst'[k] \notin {"joining", "live"}
                                   /\ inst'[k] = "unused" <=> inst[k] = "unused"
           /\ UNCHANGED <<feedVars, published, sent, wsIn, forwarder, timers, out>>
<1>1. PICK after \in [Instances -> {"terminated", "vetoed", "lost"}] : ProcessGone(after)
  BY DEF Gone
<1>2. \A k \in Instances : after[k] \in {"terminated", "vetoed", "lost"}
  OBVIOUS
<1> QED BY <1>1, <1>2 DEF Gone, ProcessGone

(* What a completed join does to the instances.                            *)
LEMMA JoinFacts ==
    ASSUME TypeOK, LifeInv, JoinCompleted
    PROVE  /\ joining \in Instances /\ at[joining] \in Topics /\ proc = "alive"
           /\ joined'[at[joining]] = joining /\ joining' = NoInstance /\ proc' = proc /\ at' = at
           /\ \A t \in Topics : t # at[joining] => joined'[t] = joined[t]
           /\ inst[joining] = "joining" /\ inst'[joining] = "live"
           /\ \A k \in Instances : k # joining =>
                inst'[k] = IF k = joined[at[joining]] THEN "lost" ELSE inst[k]
<1>1. joining \in Instances
  BY DEF JoinCompleted, TypeOK
<1>2. inst[joining] = "joining" /\ at[joining] \in Topics
  BY <1>1, SubAssumption DEF LifeInv
<1>3. joined'[at[joining]] = joining /\ \A t \in Topics : t # at[joining] => joined'[t] = joined[t]
  BY <1>1, <1>2 DEF JoinCompleted, TypeOK
<1> QED BY <1>1, <1>2, <1>3 DEF JoinCompleted, TypeOK

(* A leave ends the instance of its topic, if it has one, and answers.      *)
LEMMA LeaveFacts ==
    ASSUME TypeOK, LifeInv, Leave
    PROVE  /\ Request.topic \in Topics /\ UNCHANGED <<proc, joining, at>> /\ joining = NoInstance
           /\ \/ joined[Request.topic] = NoInstance /\ UNCHANGED <<joined, inst, out>>
              \/ /\ joined[Request.topic] \in Instances
                 /\ joined' = [joined EXCEPT ![Request.topic] = NoInstance]
                 /\ inst' = [inst EXCEPT ![joined[Request.topic]] = "terminated"]
                 /\ ReplyIfRef("phx_leave", "ok")
<1>1. Request.topic \in Topics /\ joining = NoInstance
  BY CastHandled DEF Leave
<1> QED BY <1>1 DEF Leave, TypeOK

(* Every step keeps the agreement of joined topics and instances.           *)
LEMMA LifeStep == TypeOK /\ LifeInv /\ [Next]_vars => LifeInv'
<1> SUFFICES ASSUME TypeOK, LifeInv, [Next]_vars PROVE LifeInv'
  OBVIOUS
<1>1. CASE UNCHANGED procVars
  BY <1>1 DEF LifeInv, JoinedIsLive, procVars
<1>2. ASSUME NEW k \in Instances, JoinAccepted(k)
      PROVE  LifeInv'
  <2>1. proc = "alive" /\ joining = NoInstance /\ Request.topic \in Topics
    BY <1>2, CastHandled DEF JoinAccepted
  <2>2. /\ inst[k] = "unused" /\ joining' = k /\ proc' = proc /\ joined' = joined
        /\ inst'[k] = "joining" /\ at'[k] \in Topics
        /\ \A j \in Instances : j # k => inst'[j] = inst[j] /\ at'[j] = at[j]
    BY <1>2, <2>1 DEF JoinAccepted, TypeOK
  <2>3. \A t \in Topics : joined[t] # NoInstance => joined[t] \in Instances /\ joined[t] # k
    BY <2>2 DEF TypeOK, LifeInv, JoinedIsLive
  <2>4. JoinedIsLive'
    BY <2>1, <2>2, <2>3 DEF LifeInv, JoinedIsLive
  <2> QED BY <2>1, <2>2, <2>4, SubAssumption DEF LifeInv
<1>3. CASE JoinCompleted
  <2> DEFINE k == joining
             t == at[joining]
  <2>1. /\ k \in Instances /\ t \in Topics /\ proc = "alive"
        /\ joined'[t] = k /\ joining' = NoInstance /\ proc' = proc /\ at' = at
        /\ \A u \in Topics : u # t => joined'[u] = joined[u]
        /\ inst[k] = "joining" /\ inst'[k] = "live"
        /\ \A j \in Instances : j # k => inst'[j] = IF j = joined[t] THEN "lost" ELSE inst[j]
    BY <1>3, JoinFacts
  <2>2. t = at[k]
    OBVIOUS
  <2> HIDE DEF k, t
  <2>3. \A j \in Instances : inst[j] = "joining" => j = k
    BY DEF LifeInv, k
  <2>4. ASSUME NEW u \in Topics, joined'[u] # NoInstance
        PROVE  inst'[joined'[u]] = "live" /\ at[joined'[u]] = u
    <3>1. CASE u = t
      BY <2>1, <2>2, <3>1
    <3>2. CASE u # t
      <4>1. /\ joined'[u] = joined[u] /\ joined[u] \in Instances
            /\ inst[joined[u]] = "live" /\ at[joined[u]] = u
        BY <2>1, <2>4, <3>2 DEF TypeOK, LifeInv, JoinedIsLive
      <4>2. joined[u] # k /\ joined[u] # joined[t]
        BY <2>1, <2>2, <3>2, <4>1, SubAssumption DEF LifeInv, JoinedIsLive
      <4> QED BY <2>1, <4>1, <4>2
    <3> QED BY <3>1, <3>2
  <2>5. ASSUME NEW j \in Instances, inst'[j] = "live"
        PROVE  joined'[at[j]] = j
    <3>1. CASE j = k
      BY <2>1, <2>2, <3>1
    <3>2. CASE j # k
      <4>1. j # joined[t] /\ inst[j] = "live"
        BY <2>1, <2>5, <3>2
      <4>2. joined[at[j]] = j /\ at[j] \in Topics
        BY <4>1 DEF LifeInv, JoinedIsLive
      <4> QED BY <2>1, <4>1, <4>2
    <3> QED BY <3>1, <3>2
  <2>6. JoinedIsLive'
    BY <2>1, <2>4, <2>5 DEF JoinedIsLive
  <2>7. \A j \in Instances : inst'[j] # "joining"
    BY <2>1, <2>3
  <2>8. \A j \in Instances : inst'[j] # "unused" => at[j] \in Topics
    BY <2>1, <2>2, SubAssumption DEF LifeInv, JoinedIsLive
  <2> QED BY <2>1, <2>6, <2>7, <2>8 DEF LifeInv
<1>4. CASE Leave
  <2> DEFINE t == Request.topic
             k == joined[t]
  <2>1. /\ t \in Topics /\ UNCHANGED <<proc, joining, at>> /\ joining = NoInstance
        /\ \/ UNCHANGED <<joined, inst>>
           \/ /\ k \in Instances /\ joined' = [joined EXCEPT ![t] = NoInstance]
              /\ inst' = [inst EXCEPT ![k] = "terminated"]
    BY <1>4, LeaveFacts
  <2>2. k = joined[t]
    OBVIOUS
  <2> HIDE DEF t, k
  <2>3. CASE UNCHANGED <<joined, inst>>
    BY <2>1, <2>3 DEF LifeInv, JoinedIsLive
  <2>4. CASE /\ k \in Instances /\ joined' = [joined EXCEPT ![t] = NoInstance]
             /\ inst' = [inst EXCEPT ![k] = "terminated"]
    <3>1. /\ joined'[t] = NoInstance /\ \A u \in Topics : u # t => joined'[u] = joined[u]
          /\ inst'[k] = "terminated" /\ \A j \in Instances : j # k => inst'[j] = inst[j]
      BY <2>1, <2>4 DEF TypeOK
    <3>2. inst[k] = "live" /\ at[k] = t
      BY <2>1, <2>2, <2>4, SubAssumption DEF LifeInv, JoinedIsLive
    <3>3. \A u \in Topics : u # t /\ joined[u] # NoInstance => joined[u] \in Instances /\ joined[u] # k
      BY <3>2 DEF TypeOK, LifeInv, JoinedIsLive
    <3>4. \A j \in Instances : j # k /\ inst[j] = "live" => at[j] \in Topics /\ at[j] # t
      BY <2>2 DEF LifeInv, JoinedIsLive
    <3>5. JoinedIsLive'
      BY <2>1, <3>1, <3>3, <3>4 DEF LifeInv, JoinedIsLive
    <3> QED BY <2>1, <3>1, <3>2, <3>5 DEF LifeInv
  <2> QED BY <2>1, <2>3, <2>4
<1>5. CASE Gone
  BY <1>5, GoneFacts DEF LifeInv, JoinedIsLive
<1> QED BY <1>1, <1>2, <1>3, <1>4, <1>5, ProcSteps

-----------------------------------------------------------------------------
(* PubSub as the connection sees it.                                       *)

(* The steps that touch PubSub or a forwarder.                             *)
LEMMA FeedSteps ==
    ASSUME [Next]_vars
    PROVE  \/ UNCHANGED <<feedVars, forwarder, published>>
           \/ JoinCompleted
           \/ /\ UNCHANGED <<procVars, mailbox, out>>
              /\ \/ \E t \in Topics : Publish(t)
                 \/ (\E T \in SUBSET Topics : PS!Cut(T)) /\ UNCHANGED <<forwarder, published>>
                 \/ \E k \in Instances : /\ ForwarderEnds(k) \/ ForwarderDisconnected(k)
                                         /\ published' = published
           \/ \E k \in Instances : Forward(k)
<1> USE DEF envVars, taskVars
<1>1. CASE HandlerPanics \/ ReadLoopEnd \/ ReadLoopCast \/ ClientClose
  BY <1>1 DEF HandlerPanics, ReadLoopEnd, ReadLoopCast, ClientClose
<1>2. ASSUME NEW ev, NEW t, NEW hasRef, ClientSend(ev, t, hasRef)
      PROVE  UNCHANGED <<feedVars, forwarder, published>>
  BY <1>2 DEF ClientSend
<1>3. ASSUME NEW t \in Topics, Publish(t) \/ UnsubscribeTopic(t) \/ SendEvent(t)
      PROVE  \/ UNCHANGED <<feedVars, forwarder, published>>
             \/ /\ UNCHANGED <<procVars, mailbox, out>>
                /\ Publish(t) \/ (PS!Cut({t}) /\ UNCHANGED <<forwarder, published>>)
  BY <1>3 DEF Publish, UnsubscribeTopic, SendEvent
<1>4. CASE ShutdownPubSub
  BY <1>4 DEF ShutdownPubSub
<1>5. CASE JoinUnrouted \/ JoinRefused \/ Leave \/ Heartbeat \/ Event \/ HandleInfo
  BY <1>5 DEF JoinUnrouted, JoinRefused, Leave, Heartbeat, Event, HandleInfo
<1>6. ASSUME NEW k, JoinAccepted(k) PROVE UNCHANGED <<feedVars, forwarder, published>>
  BY <1>6 DEF JoinAccepted
<1>7. ASSUME NEW k \in Instances, ForwarderEnds(k) \/ ForwarderDisconnected(k)
      PROVE  UNCHANGED <<procVars, mailbox, out, published>>
  BY <1>7 DEF ForwarderEnds, ForwarderDisconnected
<1>8. ASSUME NEW tm, TimerFires(tm) PROVE UNCHANGED <<feedVars, forwarder, published>>
  BY <1>8 DEF TimerFires
<1>9. CASE UNCHANGED vars
  BY <1>9 DEF vars
<1>10. \A t \in Topics : {t} \in SUBSET Topics
  OBVIOUS
<1> QED
  BY <1>1, <1>2, <1>3, <1>4, <1>5, <1>6, <1>7, <1>8, <1>9, <1>10
     DEF Next, ReadLoop, HandleMessage, ForwarderStep

(* What a forwarder takes: the next entry of the log, above all the former. *)
LEMMA ForwardFacts ==
    ASSUME TypeOK, LifeInv, LogInv, FeedInv, NEW k \in Instances, Forward(k)
    PROVE  LET n == from[k] + Len(got[k]) + 1
               m == log[topic[k]][n]
           IN  /\ topic[k] \in Topics /\ topic[k] = at[k] /\ feed[k] # "unused"
               /\ inst[k] \notin {"unused", "joining"}
               /\ n \in 1..Len(log[topic[k]]) /\ m \in Messages
               /\ got[k] \in Seq(Messages) /\ got'[k] = Append(got[k], m)
               /\ \A j \in Instances : j # k => got'[j] = got[j]
               /\ \A i \in 1..Len(got[k]) : got[k][i] < m
               /\ Last(got'[k]) = m
               /\ UNCHANGED <<log, feed, topic, from, end, published, procVars>>
<1> DEFINE n == from[k] + Len(got[k]) + 1
           m == log[topic[k]][n]
<1>1. /\ feed[k] # "unused" /\ forwarder[k] = "running" /\ n <= Len(log[topic[k]])
      /\ got' = [got EXCEPT ![k] = Append(@, m)]
      /\ UNCHANGED <<log, feed, topic, from, end, published, procVars>>
  BY DEF Forward, PS!Take, envVars
<1>2. /\ inst[k] \notin {"unused", "joining"} /\ topic[k] = at[k] /\ topic[k] \in Topics
      /\ from[k] + Len(got[k]) <= Len(log[topic[k]])
      /\ \A i \in 1..Len(got[k]) : got[k][i] = log[topic[k]][from[k] + i]
  BY <1>1 DEF FeedInv, LifeInv
<1>3. log[topic[k]] \in Seq(Messages) /\ got[k] \in Seq(Messages) /\ from[k] \in Nat
  BY <1>2 DEF TypeOK
<1>4. n \in 1..Len(log[topic[k]])
  BY <1>1, <1>3
<1>5. \A i \in 1..Len(got[k]) : from[k] + i \in 1..Len(log[topic[k]]) /\ from[k] + i < n
  BY <1>3, <1>4, SMTT(30)
<1> HIDE DEF n
<1>6. m \in Messages
  BY <1>3, <1>4
<1>7. \A i \in 1..Len(got[k]) : got[k][i] < m
  BY <1>2, <1>4, <1>5 DEF LogInv
<1>8. got'[k] = Append(got[k], m) /\ \A j \in Instances : j # k => got'[j] = got[j]
  BY <1>1 DEF TypeOK
<1> HIDE DEF m
<1>9. Last(got'[k]) = m
  BY <1>3, <1>6, <1>8 DEF Last
<1> QED BY <1>1, <1>2, <1>3, <1>4, <1>6, <1>7, <1>8, <1>9 DEF n, m

(* Every step keeps the logs in order and the feeds pieces of them.         *)
LEMMA FeedStep ==
    TypeOK /\ LifeInv /\ LogInv /\ FeedInv /\ [Next]_vars => LogInv' /\ FeedInv'
<1> SUFFICES ASSUME TypeOK, LifeInv, LogInv, FeedInv, [Next]_vars PROVE LogInv' /\ FeedInv'
  OBVIOUS
<1>t. TypeOK'
  BY TypeStep
(* An instance that got past its join stays past it.                       *)
<1>p. ASSUME NEW k \in Instances, inst[k] \notin {"unused", "joining"}
      PROVE  inst'[k] \notin {"unused", "joining"} /\ at'[k] = at[k]
  <2>1. CASE UNCHANGED procVars
    BY <1>p, <2>1 DEF procVars
  <2>2. ASSUME NEW j \in Instances, JoinAccepted(j)
        PROVE  inst'[k] = inst[k] /\ at'[k] = at[k]
    BY <1>p, <2>2 DEF JoinAccepted, TypeOK
  <2>3. CASE JoinCompleted
    BY <1>p, <2>3, JoinFacts
  <2>4. CASE Leave
    BY <1>p, <2>4, LeaveFacts DEF TypeOK
  <2>5. CASE Gone
    BY <1>p, <2>5, GoneFacts
  <2> QED BY <1>p, <2>1, <2>2, <2>3, <2>4, <2>5, ProcSteps
<1>1. CASE UNCHANGED <<feedVars, forwarder, published>>
  BY <1>1, <1>p DEF LogInv, FeedInv, feedVars
<1>2. CASE JoinCompleted
  <2>1. /\ joining \in Instances /\ at[joining] \in Topics /\ inst[joining] = "joining"
        /\ inst'[joining] = "live" /\ at' = at
    BY <1>2, JoinFacts
  <2>2. feed[joining] = "unused" /\ got[joining] = << >>
    BY <2>1 DEF FeedInv
  <2>3. published' = published
    BY <1>2 DEF JoinCompleted, envVars
  <2>4. CASE ~pubsubUp
    BY <1>1, <1>2, <2>3, <2>4 DEF JoinCompleted
  <2>5. CASE pubsubUp
    <3>1. PICK k \in Instances : k = joining
      BY <2>1
    <3>2. PS!Open(k, at[k]) /\ forwarder' = [forwarder EXCEPT ![k] = "running"]
      BY <1>2, <2>5, <3>1 DEF JoinCompleted
    <3>3. /\ feed'[k] = "live" /\ topic'[k] = at[k] /\ from'[k] = Len(log[at[k]])
          /\ got' = got /\ log' = log
          /\ \A j \in Instances : j # k =>
               /\ feed'[j] = feed[j] /\ topic'[j] = topic[j] /\ from'[j] = from[j]
               /\ forwarder'[j] = forwarder[j]
      BY <3>2 DEF PS!Open, TypeOK
    <3>4. Len(log[at[k]]) \in Nat
      BY <2>1, <3>1 DEF TypeOK
    <3>5. LogInv'
      BY <2>3, <3>3 DEF LogInv
    <3>6. ASSUME NEW j \in Instances
          PROVE  /\ feed'[j] = "unused" => got'[j] = << >> /\ forwarder'[j] = "none"
                 /\ feed'[j] # "unused" =>
                      /\ inst'[j] \notin {"unused", "joining"}
                      /\ topic'[j] = at'[j]
                      /\ from'[j] + Len(got'[j]) <= Len(log'[topic'[j]])
                      /\ \A i \in 1..Len(got'[j]) : got'[j][i] = log'[topic'[j]][from'[j] + i]
      <4>1. CASE j = k
        BY <2>1, <2>2, <3>1, <3>3, <3>4, <4>1
      <4>2. CASE j # k
        BY <1>p, <3>3, <4>2 DEF FeedInv
      <4> QED BY <4>1, <4>2
    <3> QED BY <3>5, <3>6 DEF FeedInv
  <2> QED BY <2>4, <2>5
<1>3. ASSUME NEW t \in Topics, Publish(t), UNCHANGED procVars
      PROVE  LogInv' /\ FeedInv'
  <2>1. /\ published' = published + 1 /\ published \in Nat /\ published + 1 \in Messages
        /\ log' = [log EXCEPT ![t] = Append(@, published + 1)]
        /\ UNCHANGED <<feed, topic, from, end, got, forwarder>>
    BY <1>3, BoundAssumption DEF Publish, PS!Publish, taskVars, Messages, TypeOK
  <2>2. /\ log[t] \in Seq(Messages) /\ Len(log[t]) \in Nat /\ Len(log'[t]) = Len(log[t]) + 1
        /\ log'[t][Len(log[t]) + 1] = published + 1
        /\ \A i \in 1..Len(log[t]) : log'[t][i] = log[t][i]
        /\ \A u \in Topics : u # t => log'[u] = log[u]
    BY <2>1 DEF TypeOK
  <2>3. \A u \in Topics : \A i \in 1..Len(log[u]) : log[u][i] \in Nat /\ log[u][i] <= published
    <3> TAKE u \in Topics
    <3> TAKE i \in 1..Len(log[u])
    <3>1. log[u] \in Seq(Messages)
      BY DEF TypeOK
    <3>2. log[u][i] \in Messages
      BY <3>1
    <3> QED BY <3>2 DEF LogInv, Messages
  <2>4. \A i \in 1..Len(log'[t]) : i \in 1..Len(log[t]) \/ i = Len(log[t]) + 1
    BY <2>2
  <2>5. LogInv'
    <3>1. ASSUME NEW u \in Topics, NEW i \in 1..Len(log'[u])
          PROVE  log'[u][i] <= published'
      BY <2>1, <2>2, <2>3, <2>4
    <3>2. ASSUME NEW u \in Topics, NEW i \in 1..Len(log'[u]), NEW j \in 1..Len(log'[u]), i < j
          PROVE  log'[u][i] < log'[u][j]
      <4>1. CASE u # t
        BY <2>2, <3>2, <4>1 DEF LogInv
      <4>2. CASE u = t
        <5>1. i \in 1..Len(log[t]) /\ log'[t][i] = log[t][i]
          BY <2>2, <2>4, <3>2, <4>2
        <5>2. CASE j \in 1..Len(log[t])
          BY <2>2, <3>2, <4>2, <5>1, <5>2 DEF LogInv
        <5>3. CASE j = Len(log[t]) + 1
          BY <2>1, <2>2, <2>3, <4>2, <5>1, <5>3
        <5> QED BY <2>4, <4>2, <5>2, <5>3
      <4> QED BY <4>1, <4>2
    <3> QED BY <3>1, <3>2 DEF LogInv
  <2>6. ASSUME NEW k \in Instances, feed[k] # "unused"
        PROVE  /\ from[k] + Len(got[k]) <= Len(log'[topic[k]])
               /\ \A i \in 1..Len(got[k]) : got[k][i] = log'[topic[k]][from[k] + i]
    <3>1. /\ topic[k] \in Topics /\ from[k] \in Nat /\ Len(got[k]) \in Nat
          /\ Len(log[topic[k]]) \in Nat
      BY <2>6 DEF FeedInv, LifeInv, TypeOK
    <3>2. /\ from[k] + Len(got[k]) <= Len(log[topic[k]])
          /\ \A i \in 1..Len(got[k]) : got[k][i] = log[topic[k]][from[k] + i]
      BY <2>6 DEF FeedInv
    <3>3. \A i \in 1..Len(got[k]) : from[k] + i \in 1..Len(log[topic[k]])
      BY <3>1, <3>2
    <3>4. CASE topic[k] # t
      BY <2>2, <3>1, <3>2, <3>4
    <3>5. CASE topic[k] = t
      <4>1. from[k] + Len(got[k]) <= Len(log'[t])
        BY <2>2, <3>1, <3>2, <3>5
      <4>2. \A i \in 1..Len(got[k]) : got[k][i] = log'[t][from[k] + i]
        BY <2>2, <3>2, <3>3, <3>5
      <4> QED BY <3>5, <4>1, <4>2
    <3> QED BY <3>4, <3>5
  <2>7. UNCHANGED <<inst, at>>
    BY <1>3 DEF procVars
  <2>8. ASSUME NEW k \in Instances
        PROVE  /\ feed'[k] = "unused" => got'[k] = << >> /\ forwarder'[k] = "none"
               /\ feed'[k] # "unused" =>
                    /\ inst'[k] \notin {"unused", "joining"}
                    /\ topic'[k] = at'[k]
                    /\ from'[k] + Len(got'[k]) <= Len(log'[topic'[k]])
                    /\ \A i \in 1..Len(got'[k]) : got'[k][i] = log'[topic'[k]][from'[k] + i]
    <3>1. /\ feed[k] = "unused" => got[k] = << >> /\ forwarder[k] = "none"
          /\ feed[k] # "unused" => inst[k] \notin {"unused", "joining"} /\ topic[k] = at[k]
      BY DEF FeedInv
    <3>2. UNCHANGED <<feed, topic, from, got, forwarder>>
      BY <2>1
    <3> QED BY <2>6, <2>7, <3>1, <3>2
  <2>9. FeedInv'
    BY <2>8 DEF FeedInv
  <2> QED BY <2>5, <2>9
<1>4. ASSUME NEW T \in SUBSET Topics, PS!Cut(T), UNCHANGED <<procVars, forwarder, published>>
      PROVE  LogInv' /\ FeedInv'
  <2>1. /\ UNCHANGED <<log, topic, from, got>>
        /\ \A k \in Instances : feed'[k] = "unused" <=> feed[k] = "unused"
    BY <1>4 DEF PS!Cut
  <2> QED BY <1>4, <2>1 DEF LogInv, FeedInv, procVars
<1>5. ASSUME NEW k \in Instances, ForwarderEnds(k) \/ ForwarderDisconnected(k),
             UNCHANGED <<procVars, published>>
      PROVE  LogInv' /\ FeedInv'
  <2>1. PS!Close(k) \/ PS!End(k)
    BY <1>5 DEF ForwarderEnds, ForwarderDisconnected
  <2>2. /\ UNCHANGED <<log, topic, from, got>> /\ feed[k] # "unused" /\ feed'[k] # "unused"
        /\ \A j \in Instances : j # k => feed'[j] = feed[j]
    BY <2>1 DEF PS!Close, PS!End, TypeOK
  <2>3. \A j \in Instances : j # k => forwarder'[j] = forwarder[j]
    BY <1>5 DEF ForwarderEnds, ForwarderDisconnected, TypeOK
  <2> QED BY <1>5, <2>2, <2>3 DEF LogInv, FeedInv, procVars
<1>6. ASSUME NEW k \in Instances, Forward(k)
      PROVE  LogInv' /\ FeedInv'
  <2> DEFINE n == from[k] + Len(got[k]) + 1
             m == log[topic[k]][n]
  <2>1. /\ topic[k] \in Topics /\ topic[k] = at[k] /\ feed[k] # "unused"
        /\ inst[k] \notin {"unused", "joining"}
        /\ n \in 1..Len(log[topic[k]]) /\ m \in Messages
        /\ got[k] \in Seq(Messages) /\ got'[k] = Append(got[k], m)
        /\ \A j \in Instances : j # k => got'[j] = got[j]
        /\ UNCHANGED <<log, feed, topic, from, end, published, procVars>>
    BY <1>6, ForwardFacts
  <2>2. n = from[k] + (Len(got[k]) + 1) /\ m = log[topic[k]][n] /\ n = from[k] + Len(got[k]) + 1
    BY <2>1 DEF TypeOK
  <2> HIDE DEF n, m
  <2>3. /\ Len(got'[k]) = Len(got[k]) + 1 /\ got'[k][Len(got[k]) + 1] = m
        /\ \A i \in 1..Len(got[k]) : got'[k][i] = got[k][i]
        /\ \A i \in 1..Len(got'[k]) : i \in 1..Len(got[k]) \/ i = Len(got[k]) + 1
    BY <2>1
  <2>4. \A j \in Instances : j # k => forwarder'[j] = forwarder[j]
    BY <1>6 DEF Forward, TypeOK
  <2>5. /\ from[k] + Len(got'[k]) <= Len(log[topic[k]])
        /\ \A i \in 1..Len(got'[k]) : got'[k][i] = log[topic[k]][from[k] + i]
    <3>1. \A i \in 1..Len(got[k]) : got[k][i] = log[topic[k]][from[k] + i]
      BY <2>1 DEF FeedInv
    <3>2. from[k] + Len(got'[k]) <= Len(log[topic[k]])
      BY <2>1, <2>2, <2>3
    <3> QED BY <2>2, <2>3, <3>1, <3>2
  <2>6. FeedInv'
    <3> SUFFICES ASSUME NEW j \in Instances
                 PROVE  /\ feed[j] = "unused" => got'[j] = << >> /\ forwarder'[j] = "none"
                        /\ feed[j] # "unused" =>
                             /\ inst[j] \notin {"unused", "joining"}
                             /\ topic[j] = at[j]
                             /\ from[j] + Len(got'[j]) <= Len(log[topic[j]])
                             /\ \A i \in 1..Len(got'[j]) : got'[j][i] = log[topic[j]][from[j] + i]
      BY <2>1 DEF FeedInv, procVars
    <3>1. CASE j = k
      BY <2>1, <2>5, <3>1
    <3>2. CASE j # k
      <4>1. got'[j] = got[j] /\ forwarder'[j] = forwarder[j]
        BY <2>1, <2>4, <3>2
      <4> QED BY <4>1 DEF FeedInv
    <3> QED BY <3>1, <3>2
  <2>7. LogInv'
    BY <2>1 DEF LogInv
  <2> QED BY <2>6, <2>7
<1> QED BY <1>1, <1>2, <1>3, <1>4, <1>5, <1>6, FeedSteps

-----------------------------------------------------------------------------
(* The mailbox.                                                            *)

(* How a step changes the mailbox: a cast or an info is added, the head is *)
(* taken and, if it is an info for a joined topic, pushed; or it is gone.  *)
CastAdded ==
    \E q \in Requests : mailbox' = Append(mailbox, Cast(q)) /\ UNCHANGED <<out, got, procVars, timers>>

InfoAdded(k, m) ==
    /\ proc = "alive" /\ mailbox' = Append(mailbox, Info(at[k], k, m))
    /\ UNCHANGED <<out, procVars>>

CastTaken ==
    /\ proc = "alive" /\ joining = NoInstance /\ mailbox # << >>
    /\ Head(mailbox).kind = "cast" /\ mailbox' = Tail(mailbox)
    /\ \/ out' = out
       \/ \E f \in Frames : f.kind = "reply" /\ out' = Append(out, f)
    /\ UNCHANGED got

(* A step by what it does to mailbox, timers and instances.                 *)
LEMMA MailSteps ==
    ASSUME TypeOK, LifeInv, LogInv, FeedInv, MailInv, [Next]_vars
    PROVE  \/ UNCHANGED <<mailbox, out, got, procVars>> /\ timers' \subseteq timers
           \/ Gone
           \/ CastAdded
           \/ /\ CastTaken
              /\ \/ UNCHANGED <<procVars, timers>>
                 \/ \E k \in Instances : JoinAccepted(k)
                 \/ Leave /\ UNCHANGED timers
           \/ JoinCompleted
           \/ HandleInfo
           \/ \E k \in Instances : Forward(k) /\ UNCHANGED timers
           \/ \E tm \in timers : InfoAdded(tm.inst, 0) /\ UNCHANGED got /\ timers' \subseteq timers
<1> USE DEF envVars, taskVars, feedVars
<1>1. CASE HandlerPanics
  <2>1. [k \in Instances |-> "lost"] \in [Instances -> {"terminated", "vetoed", "lost"}]
    OBVIOUS
  <2> QED BY <1>1, <2>1 DEF HandlerPanics, Gone
<1>2. CASE ReadLoopEnd
  <2>1. CASE proc = "alive"
    <3>1. PICK after \in [Instances -> {"terminated", "vetoed", "lost"}] : ProcessGone(after)
      BY <1>2, <2>1 DEF ReadLoopEnd, Terminate
    <3> QED BY <1>2, <3>1 DEF ReadLoopEnd, Gone
  <2>2. CASE proc # "alive"
    BY <1>2, <2>2 DEF ReadLoopEnd
  <2> QED BY <2>1, <2>2
<1>3. CASE ReadLoopCast
  <2>1. Head(wsIn) \in Requests
    BY <1>3, TailFacts DEF ReadLoopCast, TypeOK
  <2> QED BY <1>3, <2>1 DEF ReadLoopCast, CastAdded
<1>4. ASSUME NEW ev, NEW t, NEW hasRef, ClientSend(ev, t, hasRef)
      PROVE  UNCHANGED <<mailbox, out, got, procVars, timers>>
  BY <1>4 DEF ClientSend
<1>5. ASSUME NEW t \in Topics, SendEvent(t)
      PROVE  CastAdded
  <2>1. [ev |-> "event", topic |-> t, ref |-> 0] \in Requests
    BY BoundAssumption DEF Requests
  <2> QED BY <1>5, <2>1 DEF SendEvent, CastAdded
<1>6. ASSUME NEW t \in Topics, Publish(t) \/ UnsubscribeTopic(t)
      PROVE  UNCHANGED <<mailbox, out, got, procVars, timers>>
  BY <1>6 DEF Publish, UnsubscribeTopic, PS!Publish, PS!Cut
<1>7. CASE ClientClose \/ ShutdownPubSub
  BY <1>7 DEF ClientClose, ShutdownPubSub, PS!Cut
<1>8. ASSUME NEW ev \in {"phx_join", "phx_leave", "heartbeat", "event"}, HandlingCast(ev), UNCHANGED got,
             out' = out \/ \E e \in {"phx_join", "phx_leave", "event"}, st \in {"ok", "error"} : ReplyIfRef(e, st)
      PROVE  CastTaken
  <2>1. /\ proc = "alive" /\ joining = NoInstance /\ mailbox # << >>
        /\ Head(mailbox).kind = "cast" /\ mailbox' = Tail(mailbox)
        /\ Request \in Requests /\ Request.topic \in Topics /\ Request.ref \in 0..MaxRequests
    BY <1>8, CastHandled
  <2>2. out' = out \/ \E f \in Frames : f.kind = "reply" /\ out' = Append(out, f)
    <3> SUFFICES ASSUME NEW e \in {"phx_join", "phx_leave", "event"}, NEW st \in {"ok", "error"},
                        ReplyIfRef(e, st)
                 PROVE  out' = out \/ \E f \in Frames : f.kind = "reply" /\ out' = Append(out, f)
      BY <1>8
    <3>1. \/ out' = out
          \/ /\ out' = Append(out, ReplyFrame(Request.topic, e, st, Request.ref))
             /\ ReplyFrame(Request.topic, e, st, Request.ref) \in Frames
      BY <2>1, ReplySent
    <3>2. ReplyFrame(Request.topic, e, st, Request.ref).kind = "reply"
      BY DEF ReplyFrame
    <3> QED BY <3>1, <3>2
  <2> QED BY <1>8, <2>1, <2>2 DEF CastTaken
<1>9. CASE JoinUnrouted \/ JoinRefused
  BY <1>8, <1>9 DEF JoinUnrouted, JoinRefused
<1>10. ASSUME NEW k \in Instances, JoinAccepted(k)
       PROVE  CastTaken
  BY <1>8, <1>10 DEF JoinAccepted
<1>11. CASE Leave
  BY <1>8, <1>11 DEF Leave
<1>12. CASE Event
  BY <1>8, <1>12 DEF Event
<1>13. CASE Heartbeat
  <2>1. /\ proc = "alive" /\ joining = NoInstance /\ mailbox # << >>
        /\ Head(mailbox).kind = "cast" /\ mailbox' = Tail(mailbox) /\ Request.ref \in 0..MaxRequests
    BY <1>13, CastHandled DEF Heartbeat
  <2>2. ReplyFrame(NoTopic, "heartbeat", "ok", Request.ref) \in Frames
    BY <2>1 DEF ReplyFrame, Frames
  <2>3. ReplyFrame(NoTopic, "heartbeat", "ok", Request.ref).kind = "reply"
    BY DEF ReplyFrame
  <2> QED BY <1>13, <2>1, <2>2, <2>3 DEF Heartbeat, CastTaken
<1>14. ASSUME NEW k \in Instances, ForwarderEnds(k) \/ ForwarderDisconnected(k)
       PROVE  UNCHANGED <<mailbox, out, got, procVars, timers>>
  BY <1>14 DEF ForwarderEnds, ForwarderDisconnected, PS!Close, PS!End
<1>15. ASSUME NEW k \in Instances, Forward(k) PROVE UNCHANGED timers
  BY <1>15 DEF Forward
<1>16. ASSUME NEW tm \in timers, TimerFires(tm)
       PROVE  \/ UNCHANGED <<mailbox, out, got, procVars>> /\ timers' \subseteq timers
              \/ InfoAdded(tm.inst, 0) /\ UNCHANGED got /\ timers' \subseteq timers
  <2>1. tm.topic = at[tm.inst]
    BY DEF MailInv
  <2> QED BY <1>16, <2>1 DEF TimerFires, InfoAdded
<1>17. CASE UNCHANGED vars
  BY <1>17 DEF vars
<1> QED
  BY <1>1, <1>2, <1>3, <1>4, <1>5, <1>6, <1>7, <1>9, <1>10, <1>11, <1>12, <1>13, <1>14, <1>15,
     <1>16, <1>17 DEF Next, ReadLoop, HandleMessage, ForwarderStep, Heartbeat, Event, JoinUnrouted,
                      JoinRefused, Leave

(* An instance once used stays used, and for the same topic.               *)
LEMMA UsedStays ==
    ASSUME TypeOK, LifeInv, [Next]_vars, NEW k \in Instances, inst[k] # "unused"
    PROVE  inst'[k] # "unused" /\ at'[k] = at[k]
<1>1. CASE UNCHANGED procVars
  BY <1>1 DEF procVars
<1>2. ASSUME NEW j \in Instances, JoinAccepted(j)
      PROVE  inst'[k] = inst[k] /\ at'[k] = at[k]
  BY <1>2 DEF JoinAccepted, TypeOK
<1>3. CASE JoinCompleted
  BY <1>3, JoinFacts
<1>4. CASE Leave
  BY <1>4, LeaveFacts DEF TypeOK
<1>5. CASE Gone
  BY <1>5, GoneFacts
<1> QED BY <1>1, <1>2, <1>3, <1>4, <1>5, ProcSteps

(* Every step keeps the topics of timers and mail.                          *)
LEMMA MailStep ==
    TypeOK /\ LifeInv /\ LogInv /\ FeedInv /\ MailInv /\ [Next]_vars => MailInv'
<1> SUFFICES ASSUME TypeOK, LifeInv, LogInv, FeedInv, MailInv, [Next]_vars PROVE MailInv'
  OBVIOUS
<1> DEFINE Fits(e) == e.kind = "info" => inst[e.via] # "unused" /\ e.topic = at[e.via]
           Lasts(e) == e.kind = "info" => inst'[e.via] # "unused" /\ e.topic = at'[e.via]
<1>m. mailbox \in Seq(Mail)
  BY DEF TypeOK
<1>1. ASSUME NEW e \in Mail, Fits(e) PROVE Lasts(e)
  BY <1>1, MailFacts, UsedStays
<1>2. \A i \in 1..Len(mailbox) : mailbox[i] \in Mail /\ Fits(mailbox[i])
  BY <1>m DEF MailInv
<1>3. \A i \in 1..Len(mailbox) : Lasts(mailbox[i])
  BY <1>1, <1>2
<1> HIDE DEF Fits, Lasts
<1>4. ASSUME NEW e \in Mail, Lasts(e), mailbox' = Append(mailbox, e)
      PROVE  \A i \in 1..Len(mailbox') : Lasts(mailbox'[i])
  BY <1>m, <1>3, <1>4, AppendFacts
<1>5. ASSUME mailbox # << >>, mailbox' = Tail(mailbox)
      PROVE  \A i \in 1..Len(mailbox') : Lasts(mailbox'[i])
  <2>1. \A i \in 1..Len(mailbox') : mailbox'[i] = mailbox[i + 1] /\ i + 1 \in 1..Len(mailbox)
    BY <1>m, <1>5, TailFacts
  <2> QED BY <1>3, <2>1
<1>6. ASSUME NEW k \in Instances, inst[k] # "unused", at[k] \in Topics, NEW x \in 0..MaxPublish
      PROVE  Info(at[k], k, x) \in Mail /\ Lasts(Info(at[k], k, x))
  BY <1>1, <1>6, InfoFacts DEF Fits
<1>7. \A tm \in timers : tm.inst \in Instances /\ inst[tm.inst] # "unused" /\ tm.topic = at[tm.inst]
  BY DEF MailInv, TypeOK
<1>8. \A i \in 1..Len(mailbox') : Lasts(mailbox'[i])
  <2>1. CASE mailbox' = mailbox
    BY <1>3, <2>1
  <2>2. CASE Gone
    BY <2>2, GoneFacts
  <2>3. CASE CastAdded
    <3>1. PICK q \in Requests : mailbox' = Append(mailbox, Cast(q))
      BY <2>3 DEF CastAdded
    <3> QED BY <1>4, <3>1, CastFacts DEF Lasts
  <2>4. CASE CastTaken
    BY <1>5, <2>4 DEF CastTaken
  <2>5. CASE JoinCompleted
    BY <2>1, <2>5 DEF JoinCompleted
  <2>6. CASE HandleInfo
    BY <1>5, <2>6 DEF HandleInfo, CanHandle
  <2>7. ASSUME NEW k \in Instances, Forward(k)
        PROVE  \A i \in 1..Len(mailbox') : Lasts(mailbox'[i])
    <3>1. /\ inst[k] # "unused" /\ topic[k] = at[k] /\ at[k] \in Topics
          /\ Last(got'[k]) \in Messages
      BY <2>7, ForwardFacts
    <3>2. Last(got'[k]) \in 0..MaxPublish
      BY <3>1, BoundAssumption DEF Messages
    <3>3. mailbox' = mailbox \/ mailbox' = Append(mailbox, Info(at[k], k, Last(got'[k])))
      BY <2>7, <3>1 DEF Forward
    <3> QED BY <1>4, <1>6, <2>1, <3>1, <3>2, <3>3
  <2>8. ASSUME NEW tm \in timers, InfoAdded(tm.inst, 0)
        PROVE  \A i \in 1..Len(mailbox') : Lasts(mailbox'[i])
    <3>1. tm.inst \in Instances /\ inst[tm.inst] # "unused" /\ at[tm.inst] \in Topics
      BY <1>7 DEF LifeInv
    <3>2. Info(at[tm.inst], tm.inst, 0) \in Mail /\ Lasts(Info(at[tm.inst], tm.inst, 0))
      BY <1>6, <3>1, BoundAssumption
    <3> QED BY <1>4, <2>8, <3>2 DEF InfoAdded
  <2> QED BY <2>1, <2>2, <2>3, <2>4, <2>5, <2>6, <2>7, <2>8, MailSteps
<1>9. ASSUME NEW tm \in timers' PROVE inst'[tm.inst] # "unused" /\ tm.topic = at'[tm.inst]
  <2>1. CASE tm \in timers
    BY <1>7, <2>1, UsedStays
  <2>2. CASE tm \notin timers
    <3>1. PICK k \in Instances : JoinAccepted(k)
      BY <1>9, <2>2, MailSteps, GoneFacts
         DEF CastAdded, JoinCompleted, HandleInfo, taskVars
    <3>2. Request.topic \in Topics
      BY <3>1, CastHandled DEF JoinAccepted
    <3>3. tm.inst = k /\ tm.topic = Request.topic
      BY <1>9, <2>2, <3>1 DEF JoinAccepted
    <3> QED BY <3>1, <3>2, <3>3 DEF JoinAccepted, TypeOK
  <2> QED BY <2>1, <2>2
<1> QED BY <1>8, <1>9 DEF MailInv, Lasts

-----------------------------------------------------------------------------
(* Pushed and due broadcasts.                                              *)

(* A frame that is no broadcast of k leaves what was pushed for k alone,   *)
(* one that is comes last.                                                 *)
LEMMA PushedAppend ==
    ASSUME out \in Seq(Frames), NEW f \in Frames, out' = Append(out, f), NEW k \in Instances
    PROVE  /\ \A i \in Pushed(k) : out'[i] = out[i] /\ i \in 1..Len(out)
           /\ ~(f.kind = "push" /\ f.via = k /\ f.msg # 0) => Pushed(k)' = Pushed(k)
           /\ (f.kind = "push" /\ f.via = k /\ f.msg # 0) =>
                /\ Pushed(k)' = Pushed(k) \cup {Len(out) + 1}
                /\ out'[Len(out) + 1] = f
<1>1. /\ Len(out) \in Nat /\ Len(out') = Len(out) + 1 /\ \A i \in 1..Len(out) : out'[i] = out[i]
      /\ out'[Len(out) + 1] = f
      /\ \A i \in 1..(Len(out) + 1) : i \in 1..Len(out) \/ i = Len(out) + 1
  BY AppendFacts
<1> QED BY <1>1 DEF Pushed

(* What is due through a forwarder after something joined the mailbox.      *)
LEMMA DueAppend ==
    ASSUME mailbox \in Seq(Mail), NEW e \in Mail, mailbox' = Append(mailbox, e), NEW k \in Instances
    PROVE  /\ \A i \in Due(k) : mailbox'[i] = mailbox[i] /\ i \in 1..Len(mailbox)
           /\ ~(e.kind = "info" /\ e.via = k /\ e.msg # 0) => Due(k)' = Due(k)
           /\ (e.kind = "info" /\ e.via = k /\ e.msg # 0) =>
                /\ Due(k)' = Due(k) \cup {Len(mailbox) + 1}
                /\ mailbox'[Len(mailbox) + 1] = e
<1>1. /\ Len(mailbox) \in Nat /\ Len(mailbox') = Len(mailbox) + 1
      /\ \A i \in 1..Len(mailbox) : mailbox'[i] = mailbox[i]
      /\ mailbox'[Len(mailbox) + 1] = e
      /\ \A i \in 1..(Len(mailbox) + 1) : i \in 1..Len(mailbox) \/ i = Len(mailbox) + 1
  BY AppendFacts
<1> QED BY <1>1 DEF Due

(* Taking the head moves every other entry up.                             *)
LEMMA DueTail ==
    ASSUME mailbox \in Seq(Mail), mailbox # << >>, mailbox' = Tail(mailbox), NEW k \in Instances
    PROVE  /\ \A i \in Due(k)' : i \in Nat /\ i + 1 \in Due(k) /\ mailbox'[i] = mailbox[i + 1]
           /\ \A i \in Due(k) : i \in 1..Len(mailbox)
           /\ \A i \in Due(k) : i # 1 => i - 1 \in Due(k)' /\ mailbox'[i - 1] = mailbox[i]
           /\ 1 \in Due(k) <=>
                /\ Head(mailbox).kind = "info" /\ Head(mailbox).via = k
                /\ Head(mailbox).msg # 0
<1>1. /\ Len(mailbox) \in Nat \ {0} /\ Head(mailbox) = mailbox[1]
      /\ Len(mailbox') = Len(mailbox) - 1
      /\ \A i \in 1..(Len(mailbox) - 1) : mailbox'[i] = mailbox[i + 1] /\ i + 1 \in 1..Len(mailbox)
      /\ \A i \in 1..Len(mailbox) : i # 1 =>
           i - 1 \in 1..(Len(mailbox) - 1) /\ mailbox'[i - 1] = mailbox[i]
  BY TailFacts
<1> QED BY <1>1 DEF Due

(* A broadcast is a number.                                                *)
LEMMA MsgFacts ==
    ASSUME TypeOK, NEW k \in Instances
    PROVE  /\ \A i \in Pushed(k) : i \in 1..Len(out) /\ out[i].msg \in Nat
           /\ \A i \in Due(k) : i \in 1..Len(mailbox) /\ mailbox[i].msg \in Nat
           /\ \A i \in 1..Len(got[k]) : got[k][i] \in Nat \ {0}
<1>1. \A f \in Frames : f.kind = "push" => f.msg \in Nat
  BY BoundAssumption DEF Frames
<1>2. \A e \in Mail : e.kind = "info" => e.msg \in Nat
  BY BoundAssumption DEF Mail
<1>3. got[k] \in Seq(Messages)
  BY DEF TypeOK
<1>4. \A i \in 1..Len(got[k]) : got[k][i] \in Messages
  BY <1>3
<1>5. out \in Seq(Frames) /\ mailbox \in Seq(Mail)
  BY DEF TypeOK
<1>6. /\ \A i \in 1..Len(out) : out[i] \in Frames
      /\ \A i \in 1..Len(mailbox) : mailbox[i] \in Mail
  BY <1>5
<1> QED BY <1>1, <1>2, <1>4, <1>6, BoundAssumption DEF Pushed, Due, Messages

(* The two invariants, for one instance.                                   *)
InOrder(k) ==
    /\ \A i \in Pushed(k) : Got(k, out[i].msg)
    /\ \A i \in Due(k) : Got(k, mailbox[i].msg)
    /\ \A i, j \in Pushed(k) : i < j => out[i].msg < out[j].msg
    /\ \A i, j \in Due(k) : i < j => mailbox[i].msg < mailbox[j].msg
    /\ \A i \in Pushed(k), j \in Due(k) : out[i].msg < mailbox[j].msg

Complete(k) ==
    \A n \in 1..Len(got[k]) :
        \/ \E i \in Pushed(k) : out[i].msg = got[k][n]
        \/ \E i \in Due(k) : mailbox[i].msg = got[k][n]

(* As long as nothing is taken from PubSub, and out and the mailbox keep   *)
(* what is in them, nothing changes.                                       *)
LEMMA SameSets ==
    ASSUME NEW k \in Instances, Pushed(k)' = Pushed(k), Due(k)' = Due(k), got'[k] = got[k],
           \A i \in Pushed(k) : out'[i] = out[i],
           \A i \in Due(k) : mailbox'[i] = mailbox[i]
    PROVE  /\ InOrder(k) => InOrder(k)'
           /\ Complete(k) => Complete(k)'
  BY DEF InOrder, Complete, Got

(* One entry is taken from the mailbox and is no broadcast of k, or its    *)
(* topic is not joined.                                                    *)
LEMMA TakenElse ==
    ASSUME TypeOK, NEW k \in Instances, InOrder(k), mailbox # << >>, mailbox' = Tail(mailbox),
           got' = got, Pushed(k)' = Pushed(k), \A i \in Pushed(k) : out'[i] = out[i]
    PROVE  /\ InOrder(k)'
           /\ 1 \notin Due(k) /\ Complete(k) => Complete(k)'
<1>m. mailbox \in Seq(Mail)
  BY DEF TypeOK
<1>1. /\ \A i \in Due(k)' : i \in Nat /\ i + 1 \in Due(k) /\ mailbox'[i] = mailbox[i + 1]
      /\ \A i \in Due(k) : i # 1 => i - 1 \in Due(k)' /\ mailbox'[i - 1] = mailbox[i]
  BY <1>m, DueTail
<1>2. \A i, j \in Due(k)' : i < j => i + 1 < j + 1
  BY <1>1
<1>3. InOrder(k)'
  <2>0. \A m : Got(k, m)' <=> Got(k, m)
    BY DEF Got
  <2>1. (\A i \in Pushed(k) : Got(k, out[i].msg))'
    BY <2>0 DEF InOrder
  <2>2. (\A i \in Due(k) : Got(k, mailbox[i].msg))'
    <3> SUFFICES ASSUME NEW i \in Due(k)', NEW m, m = mailbox'[i].msg PROVE Got(k, m)'
      BY DEF Got
    <3>1. mailbox'[i] = mailbox[i + 1] /\ Got(k, mailbox[i + 1].msg)
      BY <1>1 DEF InOrder
    <3> QED BY <2>0, <3>1
  <2>3. (\A i, j \in Pushed(k) : i < j => out[i].msg < out[j].msg)'
    BY DEF InOrder
  <2>4. (\A i, j \in Due(k) : i < j => mailbox[i].msg < mailbox[j].msg)'
    BY <1>1, <1>2 DEF InOrder
  <2>5. (\A i \in Pushed(k), j \in Due(k) : out[i].msg < mailbox[j].msg)'
    <3> SUFFICES ASSUME NEW i \in Pushed(k)', NEW j \in Due(k)' PROVE out'[i].msg < mailbox'[j].msg
      OBVIOUS
    <3>1. mailbox'[j] = mailbox[j + 1] /\ j + 1 \in Due(k)
      BY <1>1
    <3> QED BY <3>1 DEF InOrder
  <2> QED BY <2>1, <2>2, <2>3, <2>4, <2>5 DEF InOrder
<1>4. ASSUME 1 \notin Due(k), Complete(k) PROVE Complete(k)'
  <2> SUFFICES ASSUME NEW n \in 1..Len(got[k])
               PROVE  \/ \E i \in Pushed(k)' : out'[i].msg = got[k][n]
                      \/ \E i \in Due(k)' : mailbox'[i].msg = got[k][n]
    BY DEF Complete
  <2>1. CASE \E i \in Pushed(k) : out[i].msg = got[k][n]
    BY <2>1
  <2>2. CASE \E i \in Due(k) : mailbox[i].msg = got[k][n]
    <3>1. PICK i \in Due(k) : mailbox[i].msg = got[k][n]
      BY <2>2
    <3>2. i - 1 \in Due(k)' /\ mailbox'[i - 1].msg = got[k][n]
      BY <1>1, <1>4, <3>1
    <3> QED BY <3>2
  <2> QED BY <1>4, <2>1, <2>2 DEF Complete
<1> QED BY <1>3, <1>4

(* A broadcast of k goes from the head of the mailbox to the client.       *)
LEMMA TakenPushed ==
    ASSUME TypeOK, NEW k \in Instances, InOrder(k), mailbox # << >>, mailbox' = Tail(mailbox),
           got' = got, NEW f \in Frames, out' = Append(out, f), 1 \in Due(k),
           f.kind = "push", f.via = k, f.msg = Head(mailbox).msg
    PROVE  InOrder(k)' /\ (Complete(k) => Complete(k)')
<1>m. mailbox \in Seq(Mail) /\ out \in Seq(Frames)
  BY DEF TypeOK
<1> DEFINE l == Len(out) + 1
<1>1. /\ \A i \in Due(k)' : i \in Nat /\ i + 1 \in Due(k) /\ mailbox'[i] = mailbox[i + 1]
      /\ \A i \in Due(k) : i # 1 => i - 1 \in Due(k)' /\ mailbox'[i - 1] = mailbox[i]
      /\ \A i \in Due(k) : i \in 1..Len(mailbox)
      /\ Head(mailbox).msg # 0
  BY <1>m, DueTail
<1>2. mailbox[1].msg = f.msg
  BY <1>m, TailFacts
<1>3. \A i, j \in Due(k)' : i < j => i + 1 < j + 1
  BY <1>1
<1>4. \A i \in Due(k)' : 1 < i + 1
  <2> SUFFICES ASSUME NEW i \in Due(k)' PROVE 1 < i + 1
    OBVIOUS
  <2>1. i \in 1..Len(mailbox')
    BY DEF Due
  <2> QED BY <2>1
<1>5. /\ \A i \in Pushed(k) : out'[i] = out[i] /\ i \in 1..Len(out)
      /\ Pushed(k)' = Pushed(k) \cup {l} /\ out'[l] = f
  BY <1>m, <1>1, PushedAppend
<1>6. Len(out) \in Nat /\ \A i \in Pushed(k) : i < l /\ ~(l < i)
  BY <1>m, <1>5
<1>7. ~(l < l)
  BY <1>6
<1> HIDE DEF l
<1>8. InOrder(k)'
  <2>0. \A m : Got(k, m)' <=> Got(k, m)
    BY DEF Got
  <2>f. /\ \A i \in Pushed(k) : Got(k, out[i].msg) /\ out[i].msg < f.msg
        /\ \A i \in Due(k) : Got(k, mailbox[i].msg) /\ (1 < i => f.msg < mailbox[i].msg)
        /\ Got(k, f.msg)
    BY <1>2 DEF InOrder
  <2>1. (\A i \in Pushed(k) : Got(k, out[i].msg))'
    <3> SUFFICES ASSUME NEW i \in Pushed(k)', NEW m, m = out'[i].msg PROVE Got(k, m)'
      BY ZenonT(30) DEF Got
    <3> QED BY <1>5, <2>0, <2>f
  <2>2. (\A i \in Due(k) : Got(k, mailbox[i].msg))'
    <3> SUFFICES ASSUME NEW i \in Due(k)', NEW m, m = mailbox'[i].msg PROVE Got(k, m)'
      BY ZenonT(30) DEF Got
    <3>1. mailbox'[i] = mailbox[i + 1] /\ i + 1 \in Due(k)
      BY <1>1
    <3> QED BY <2>0, <2>f, <3>1
  <2>3. (\A i, j \in Pushed(k) : i < j => out[i].msg < out[j].msg)'
    <3> SUFFICES ASSUME NEW i \in Pushed(k)', NEW j \in Pushed(k)', i < j
                 PROVE  out'[i].msg < out'[j].msg
      OBVIOUS
    <3>1. i \in Pushed(k) /\ out'[i] = out[i]
      BY <1>5, <1>6, <1>7
    <3>2. CASE j = l
      BY <1>5, <2>f, <3>1, <3>2
    <3>3. CASE j # l
      BY <1>5, <3>1, <3>3 DEF InOrder
    <3> QED BY <3>2, <3>3
  <2>4. (\A i, j \in Due(k) : i < j => mailbox[i].msg < mailbox[j].msg)'
    <3> SUFFICES ASSUME NEW i \in Due(k)', NEW j \in Due(k)', i < j
                 PROVE  mailbox'[i].msg < mailbox'[j].msg
      OBVIOUS
    <3>1. /\ mailbox'[i] = mailbox[i + 1] /\ i + 1 \in Due(k)
          /\ mailbox'[j] = mailbox[j + 1] /\ j + 1 \in Due(k) /\ i + 1 < j + 1
      BY <1>1, <1>3
    <3> QED BY <3>1 DEF InOrder
  <2>5. (\A i \in Pushed(k), j \in Due(k) : out[i].msg < mailbox[j].msg)'
    <3> SUFFICES ASSUME NEW i \in Pushed(k)', NEW j \in Due(k)' PROVE out'[i].msg < mailbox'[j].msg
      OBVIOUS
    <3>1. mailbox'[j] = mailbox[j + 1] /\ j + 1 \in Due(k) /\ 1 < j + 1
      BY <1>1, <1>4
    <3>2. CASE i = l
      BY <1>5, <2>f, <3>1, <3>2
    <3>3. CASE i # l
      BY <1>5, <3>1, <3>3 DEF InOrder
    <3> QED BY <3>2, <3>3
  <2> QED BY <2>1, <2>2, <2>3, <2>4, <2>5 DEF InOrder
<1>9. ASSUME Complete(k) PROVE Complete(k)'
  <2> SUFFICES ASSUME NEW n \in 1..Len(got[k])
               PROVE  \/ \E i \in Pushed(k)' : out'[i].msg = got[k][n]
                      \/ \E i \in Due(k)' : mailbox'[i].msg = got[k][n]
    BY DEF Complete
  <2>1. CASE \E i \in Pushed(k) : out[i].msg = got[k][n]
    BY <1>5, <2>1
  <2>2. CASE \E i \in Due(k) : mailbox[i].msg = got[k][n]
    <3>1. PICK i \in Due(k) : mailbox[i].msg = got[k][n]
      BY <2>2
    <3>2. CASE i = 1
      BY <1>2, <1>5, <3>1, <3>2
    <3>3. CASE i # 1
      <4>1. i - 1 \in Due(k)' /\ mailbox'[i - 1].msg = got[k][n]
        BY <1>1, <3>1, <3>3
      <4> QED BY <4>1
    <3> QED BY <3>2, <3>3
  <2> QED BY <1>9, <2>1, <2>2 DEF Complete
<1> QED BY <1>8, <1>9

(* The forwarder of k takes a broadcast above all it has taken and sends   *)
(* it to the process.                                                      *)
LEMMA TakenFromFeed ==
    ASSUME TypeOK, NEW k \in Instances, InOrder(k), NEW e \in Mail,
           got'[k] = Append(got[k], e.msg), \A i \in 1..Len(got[k]) : got[k][i] < e.msg,
           e.msg \in Messages, out' = out,
           \/ mailbox' = mailbox
           \/ mailbox' = Append(mailbox, e) /\ e.kind = "info" /\ e.via = k
    PROVE  InOrder(k)' /\ (Complete(k) /\ mailbox' # mailbox => Complete(k)')
<1>m. mailbox \in Seq(Mail) /\ got[k] \in Seq(Messages)
  BY DEF TypeOK
<1>1. /\ Len(got[k]) \in Nat /\ Len(got'[k]) = Len(got[k]) + 1
      /\ \A i \in 1..Len(got[k]) : got'[k][i] = got[k][i] /\ i \in 1..Len(got'[k])
      /\ got'[k][Len(got[k]) + 1] = e.msg /\ Len(got[k]) + 1 \in 1..Len(got'[k])
      /\ \A i \in 1..Len(got'[k]) : i \in 1..Len(got[k]) \/ i = Len(got[k]) + 1
  BY <1>m, AppendFacts
<1>2. \A m : Got(k, m) => Got(k, m)' /\ m < e.msg
  BY <1>1 DEF Got
<1>3. Got(k, e.msg)'
  BY <1>1 DEF Got
<1>4. Pushed(k)' = Pushed(k)
  BY DEF Pushed
<1>5. CASE mailbox' = mailbox
  <2>1. Due(k)' = Due(k)
    BY <1>5 DEF Due
  <2> QED BY <1>2, <1>4, <1>5, <2>1 DEF InOrder
<1>6. CASE mailbox' = Append(mailbox, e) /\ e.kind = "info" /\ e.via = k
  <2> DEFINE l == Len(mailbox) + 1
  <2>0. e.msg # 0
    BY DEF Messages
  <2>1. /\ \A i \in Due(k) : mailbox'[i] = mailbox[i] /\ i \in 1..Len(mailbox)
        /\ Due(k)' = Due(k) \cup {l} /\ mailbox'[l] = e
    BY <1>m, <1>6, <2>0, DueAppend
  <2>2. Len(mailbox) \in Nat /\ \A i \in Due(k) : i < l /\ ~(l < i)
    BY <1>m, <2>1
  <2>3. ~(l < l)
    BY <2>2
  <2> HIDE DEF l
  <2>4. (\A i \in Pushed(k) : Got(k, out[i].msg))'
    BY <1>2, <1>4 DEF InOrder
  <2>5. (\A i \in Due(k) : Got(k, mailbox[i].msg))'
    BY <1>2, <1>3, <2>1 DEF InOrder
  <2>6. (\A i, j \in Pushed(k) : i < j => out[i].msg < out[j].msg)'
    BY <1>4 DEF InOrder
  <2>7. (\A i, j \in Due(k) : i < j => mailbox[i].msg < mailbox[j].msg)'
    BY <1>2, <2>1, <2>2, <2>3 DEF InOrder
  <2>8. (\A i \in Pushed(k), j \in Due(k) : out[i].msg < mailbox[j].msg)'
    BY <1>2, <1>4, <2>1 DEF InOrder
  <2>9. Complete(k) => Complete(k)'
    <3> SUFFICES ASSUME Complete(k), NEW n \in 1..Len(got'[k])
                 PROVE  \/ \E i \in Pushed(k)' : out'[i].msg = got'[k][n]
                        \/ \E i \in Due(k)' : mailbox'[i].msg = got'[k][n]
      BY DEF Complete
    <3>1. CASE n \in 1..Len(got[k])
      <4>1. CASE \E i \in Pushed(k) : out[i].msg = got[k][n]
        BY <1>1, <1>4, <3>1, <4>1
      <4>2. CASE \E i \in Due(k) : mailbox[i].msg = got[k][n]
        BY <1>1, <2>1, <3>1, <4>2
      <4> QED BY <3>1, <4>1, <4>2 DEF Complete
    <3>2. CASE n = Len(got[k]) + 1
      BY <1>1, <2>1, <3>2
    <3> QED BY <1>1, <3>1, <3>2
  <2> QED BY <2>4, <2>5, <2>6, <2>7, <2>8, <2>9 DEF InOrder
<1> QED BY <1>5, <1>6

(* Every step keeps pushed and waiting broadcasts in order.                 *)
LEMMA OrderOfStep ==
    ASSUME TypeOK, LifeInv, LogInv, FeedInv, MailInv, [Next]_vars, NEW k \in Instances, InOrder(k)
    PROVE  InOrder(k)' /\ \A t \in Topics : joined'[t] = k /\ Complete(k) => Complete(k)'
<1>m. mailbox \in Seq(Mail) /\ out \in Seq(Frames)
  BY DEF TypeOK
<1>k. k # NoInstance
  BY SubAssumption
<1>1. ASSUME UNCHANGED <<mailbox, out, got>>
      PROVE  InOrder(k)' /\ (Complete(k) => Complete(k)')
  <2>1. Pushed(k)' = Pushed(k) /\ Due(k)' = Due(k)
    BY <1>1 DEF Pushed, Due
  <2> QED BY <1>1, <2>1, SameSets
<1>2. CASE Gone
  <2>1. mailbox' = << >> /\ UNCHANGED <<out, got>> /\ \A t \in Topics : joined'[t] = NoInstance
    BY <1>2, GoneFacts DEF feedVars
  <2>2. Pushed(k)' = Pushed(k) /\ Due(k)' = {}
    BY <2>1 DEF Pushed, Due
  <2> QED BY <1>k, <2>1, <2>2 DEF InOrder, Got
<1>3. CASE CastAdded
  <2>1. PICK q \in Requests : mailbox' = Append(mailbox, Cast(q)) /\ UNCHANGED <<out, got>>
    BY <1>3 DEF CastAdded
  <2>2. Cast(q) \in Mail /\ Cast(q).kind # "info"
    BY CastFacts
  <2>3. Due(k)' = Due(k) /\ \A i \in Due(k) : mailbox'[i] = mailbox[i]
    BY <1>m, <2>1, <2>2, DueAppend
  <2>4. Pushed(k)' = Pushed(k)
    BY <2>1 DEF Pushed
  <2> QED BY <2>1, <2>3, <2>4, SameSets
<1>4. CASE CastTaken
  <2>1. /\ mailbox # << >> /\ Head(mailbox).kind = "cast" /\ mailbox' = Tail(mailbox) /\ got' = got
        /\ out' = out \/ \E f \in Frames : f.kind = "reply" /\ out' = Append(out, f)
    BY <1>4 DEF CastTaken
  <2>2. Pushed(k)' = Pushed(k) /\ \A i \in Pushed(k) : out'[i] = out[i]
    <3>1. CASE out' = out
      BY <3>1 DEF Pushed
    <3>2. ASSUME NEW f \in Frames, f.kind = "reply", out' = Append(out, f)
          PROVE  Pushed(k)' = Pushed(k) /\ \A i \in Pushed(k) : out'[i] = out[i]
      BY <1>m, <3>2, PushedAppend
    <3> QED BY <2>1, <3>1, <3>2
  <2>3. 1 \notin Due(k)
    BY <1>m, <2>1, DueTail
  <2> QED BY <2>1, <2>2, <2>3, TakenElse
<1>5. CASE JoinCompleted
  <2>1. UNCHANGED <<mailbox, out, got>>
    BY <1>5 DEF JoinCompleted, PS!Open, feedVars
  <2> QED BY <1>1, <2>1
<1>6. CASE HandleInfo
  <2>1. PICK e \in Mail : e = Head(mailbox)
    BY <1>6, <1>m, TailFacts DEF HandleInfo, CanHandle
  <2>2. /\ mailbox # << >> /\ mailbox' = Tail(mailbox) /\ got' = got /\ e.kind = "info"
        /\ joined' = joined
        /\ out' = IF joined[e.topic] = NoInstance THEN out
                  ELSE Append(out, PushFrame(e.topic, e.via, e.msg))
    BY <1>6, <2>1 DEF HandleInfo, CanHandle, feedVars, procVars
  <2>3. e.topic \in Topics /\ e.via \in Instances /\ e.msg \in 0..MaxPublish
    BY <2>2, MailFacts
  <2>4. e.topic = at[e.via]
    <3>1. 1 \in 1..Len(mailbox) /\ mailbox[1] = e
      BY <1>m, <2>1, <2>2, TailFacts
    <3> QED BY <2>2, <3>1 DEF MailInv
  <2>5. 1 \in Due(k) <=> e.via = k /\ e.msg # 0
    BY <1>m, <2>1, <2>2, DueTail
  <2>6. CASE joined[e.topic] = NoInstance
    <3>1. Pushed(k)' = Pushed(k) /\ \A i \in Pushed(k) : out'[i] = out[i]
      BY <2>2, <2>6 DEF Pushed
    <3>2. \A t \in Topics : joined'[t] = k => e.via # k
      BY <1>k, <2>2, <2>4, <2>6 DEF LifeInv, JoinedIsLive
    <3> QED BY <2>2, <2>5, <3>1, <3>2, TakenElse
  <2>7. CASE joined[e.topic] # NoInstance
    <3> DEFINE f == PushFrame(e.topic, e.via, e.msg)
    <3>1. /\ f \in Frames /\ f.kind = "push" /\ f.via = e.via /\ f.msg = e.msg
          /\ out' = Append(out, f)
      BY <2>2, <2>3, <2>7, InfoFacts
    <3> HIDE DEF f
    <3>2. CASE 1 \in Due(k)
      BY <2>1, <2>2, <2>5, <3>1, <3>2, TakenPushed
    <3>3. CASE 1 \notin Due(k)
      <4>1. Pushed(k)' = Pushed(k) /\ \A i \in Pushed(k) : out'[i] = out[i]
        BY <1>m, <2>5, <3>1, <3>3, PushedAppend
      <4> QED BY <2>2, <3>3, <4>1, TakenElse
    <3> QED BY <3>2, <3>3
  <2> QED BY <2>6, <2>7
<1>7. ASSUME NEW j \in Instances, Forward(j)
      PROVE  InOrder(k)' /\ \A t \in Topics : joined'[t] = k /\ Complete(k) => Complete(k)'
  <2>1. PICK m \in Messages : m = Last(got'[j])
    BY <1>7, ForwardFacts
  <2>2. /\ at[j] \in Topics /\ topic[j] = at[j] /\ got'[j] = Append(got[j], m)
        /\ \A i \in Instances : i # j => got'[i] = got[i]
        /\ \A i \in 1..Len(got[j]) : got[j][i] < m
    BY <1>7, <2>1, ForwardFacts
  <2>3. m \in 0..MaxPublish
    BY BoundAssumption DEF Messages
  <2>4. PICK e \in Mail : e = Info(at[j], j, m)
    BY <2>2, <2>3, InfoFacts
  <2>5. e.kind = "info" /\ e.via = j /\ e.msg = m
    BY <2>2, <2>3, <2>4, InfoFacts
  <2>6. /\ IF proc = "alive" THEN mailbox' = Append(mailbox, e) ELSE mailbox' = mailbox
        /\ out' = out /\ joined' = joined
    BY <1>7, <2>1, <2>2, <2>4 DEF Forward, procVars
  <2>7. CASE j = k
    <3>1. InOrder(k)' /\ (Complete(k) /\ mailbox' # mailbox => Complete(k)')
      BY <2>2, <2>5, <2>6, <2>7, TakenFromFeed
    <3>2. mailbox' = mailbox => \A t \in Topics : joined'[t] # k
      <4>1. Append(mailbox, e) # mailbox
        BY <1>m, AppendFacts
      <4> QED BY <1>k, <2>6, <4>1 DEF LifeInv, JoinedIsLive
    <3> QED BY <3>1, <3>2
  <2>8. CASE j # k
    <3>1. Due(k)' = Due(k) /\ \A i \in Due(k) : mailbox'[i] = mailbox[i]
      <4>1. CASE mailbox' = mailbox
        BY <4>1 DEF Due
      <4>2. CASE mailbox' = Append(mailbox, e)
        BY <1>m, <2>5, <2>8, <4>2, DueAppend
      <4> QED BY <2>6, <4>1, <4>2
    <3>2. Pushed(k)' = Pushed(k) /\ got'[k] = got[k]
      BY <2>2, <2>6, <2>8 DEF Pushed
    <3> QED BY <2>6, <3>1, <3>2, SameSets
  <2> QED BY <2>7, <2>8
<1>8. ASSUME NEW tm \in timers, InfoAdded(tm.inst, 0), got' = got
      PROVE  InOrder(k)' /\ (Complete(k) => Complete(k)')
  <2>1. tm.inst \in Instances /\ at[tm.inst] \in Topics
    BY DEF LifeInv, MailInv, TypeOK
  <2>2. PICK e \in Mail : e = Info(at[tm.inst], tm.inst, 0) /\ e.msg = 0
    BY <2>1, InfoFacts, BoundAssumption
  <2>3. mailbox' = Append(mailbox, e) /\ out' = out
    BY <1>8, <2>2 DEF InfoAdded
  <2>4. Due(k)' = Due(k) /\ \A i \in Due(k) : mailbox'[i] = mailbox[i]
    BY <1>m, <2>2, <2>3, DueAppend
  <2>5. Pushed(k)' = Pushed(k)
    BY <2>3 DEF Pushed
  <2> QED BY <1>8, <2>3, <2>4, <2>5, SameSets
<1> QED BY <1>1, <1>2, <1>3, <1>4, <1>5, <1>6, <1>7, <1>8, MailSteps

(* The invariant holds at the start.                                        *)
LEMMA IInvInit == Init => IInv
<1> SUFFICES ASSUME Init PROVE IInv
  OBVIOUS
<1>1. TypeOK
  BY TypeInit
<1>2. LifeInv
  BY SubAssumption DEF Init, LifeInv, JoinedIsLive
<1>3. LogInv /\ FeedInv
  BY DEF Init, PS!Init, LogInv, FeedInv
<1>4. MailInv
  BY DEF Init, MailInv
<1>5. Len(out) = 0 /\ Len(mailbox) = 0 /\ \A k \in Instances : Len(got[k]) = 0
  BY DEF Init, PS!Init
<1>6. OrderInv /\ CompleteInv
  BY <1>1, <1>5 DEF OrderInv, CompleteInv, Pushed, Due, TypeOK
<1> QED BY <1>1, <1>2, <1>3, <1>4, <1>6 DEF IInv

(* Every step keeps the invariant.                                          *)
LEMMA IInvStep == IInv /\ [Next]_vars => IInv'
<1> SUFFICES ASSUME IInv, [Next]_vars PROVE IInv'
  OBVIOUS
<1>1. TypeOK /\ LifeInv /\ LogInv /\ FeedInv /\ MailInv /\ OrderInv /\ CompleteInv
  BY DEF IInv
<1>2. TypeOK' /\ LifeInv' /\ LogInv' /\ FeedInv' /\ MailInv'
  BY <1>1, TypeStep, LifeStep, FeedStep, MailStep
<1>3. \A k \in Instances : InOrder(k)
  BY <1>1 DEF OrderInv, InOrder
<1>4. \A k \in Instances :
        InOrder(k)' /\ \A t \in Topics : joined'[t] = k /\ Complete(k) => Complete(k)'
  BY <1>1, <1>3, OrderOfStep
<1>5. OrderInv'
  BY <1>4 DEF OrderInv, InOrder
<1>6. ASSUME NEW t \in Topics, joined'[t] # NoInstance
      PROVE  joined'[t] \in Instances /\ Complete(joined'[t])
  <2>1. joined'[t] \in Instances
    BY <1>2, <1>6 DEF TypeOK
  <2>2. CASE joined'[t] = joined[t]
    BY <1>1, <1>6, <2>1, <2>2 DEF CompleteInv, Complete
  <2>3. CASE joined'[t] # joined[t]
    <3>1. JoinCompleted
      <4>1. ASSUME NEW k \in Instances, JoinAccepted(k) PROVE joined' = joined
        BY <4>1 DEF JoinAccepted
      <4>2. CASE Leave
        BY <1>1, <1>6, <2>3, <4>2, LeaveFacts DEF TypeOK
      <4> QED BY <1>1, <1>6, <2>3, <4>1, <4>2, ProcSteps, GoneFacts DEF procVars
    <3>2. joined'[t] = joining /\ inst[joining] = "joining"
      BY <1>1, <2>3, <3>1, JoinFacts
    <3>3. got[joined'[t]] = << >>
      BY <1>1, <2>1, <3>2 DEF FeedInv
    <3> QED BY <2>1, <3>3 DEF Complete
  <2> QED BY <2>2, <2>3
<1>7. CompleteInv'
  <2> SUFFICES ASSUME NEW t \in Topics, joined'[t] # NoInstance,
                      NEW k \in Instances, k = joined'[t]
               PROVE  Complete(k)'
    BY <1>6 DEF CompleteInv, Complete
  <2> QED BY <1>4, <1>6
<1> QED BY <1>2, <1>5, <1>7 DEF IInv

-----------------------------------------------------------------------------
(* Answers come in the order of the requests.                              *)

(* The refs of frames, mail and requests are numbers.                       *)
LEMMA RefTypes ==
    ASSUME TypeOK
    PROVE  /\ sent \in Nat
           /\ wsIn \in Seq(Requests) /\ mailbox \in Seq(Mail) /\ out \in Seq(Frames)
           /\ \A q \in Requests : q.ref \in Nat
           /\ \A e \in Mail : MailRef(e) \in Nat
           /\ \A f \in Frames : FrameRef(f) \in Nat
           /\ \A i \in 1..Len(wsIn) : wsIn[i] \in Requests
           /\ \A i \in 1..Len(mailbox) : mailbox[i] \in Mail
           /\ \A i \in 1..Len(out) : out[i] \in Frames
<1>1. \A q \in Requests : q.ref \in Nat
  BY BoundAssumption DEF Requests
<1>2. \A e \in Mail : MailRef(e) \in Nat
  BY <1>1, MailFacts DEF MailRef
<1>3. \A f \in Frames : FrameRef(f) \in Nat
  BY BoundAssumption DEF FrameRef, Frames
<1>4. /\ sent \in Nat
      /\ wsIn \in Seq(Requests) /\ mailbox \in Seq(Mail) /\ out \in Seq(Frames)
  BY BoundAssumption DEF TypeOK
<1> QED BY <1>1, <1>2, <1>3, <1>4

(* The ways in which a step moves refs.                                    *)
Unasked(e) == MailRef(e) = 0 /\ (e.kind = "cast" => e.req.ev = "event")

(* A step by what it does to the refs on their way.                         *)
LEMMA RefSteps ==
    ASSUME TypeOK, LifeInv, FeedInv, MailInv, LogInv, [Next]_vars
    PROVE  \/ UNCHANGED <<wsIn, mailbox, out, sent>>
           \/ /\ UNCHANGED <<mailbox, out>> /\ sent' = sent + 1
              /\ \E q \in Requests : /\ q.ref = sent + 1 \/ (q.ref = 0 /\ FALSE \in Refs)
                                     /\ wsIn' = Append(wsIn, q)
           \/ /\ wsIn # << >> /\ wsIn' = Tail(wsIn) /\ UNCHANGED <<out, sent>>
              /\ mailbox' = mailbox \/ mailbox' = Append(mailbox, Cast(Head(wsIn)))
           \/ /\ UNCHANGED <<wsIn, out>> /\ sent' \in {sent, sent + 1}
              /\ \E e \in Mail : Unasked(e) /\ mailbox' = Append(mailbox, e)
           \/ /\ UNCHANGED <<wsIn, sent>> /\ mailbox # << >> /\ mailbox' = Tail(mailbox)
              /\ \/ out' = out
                 \/ \E f \in Frames : /\ FrameRef(f) \in {0, MailRef(Head(mailbox))}
                                      /\ out' = Append(out, f)
           \/ UNCHANGED <<wsIn, out, sent>> /\ mailbox' = << >>
<1> USE DEF envVars
<1>1. ASSUME NEW ev \in Events \ {"send_event"}, NEW t \in Topics, NEW hasRef \in Refs,
             ClientSend(ev, t, hasRef)
      PROVE  /\ UNCHANGED <<mailbox, out>> /\ sent' = sent + 1
             /\ \E q \in Requests : /\ q.ref = sent + 1 \/ (q.ref = 0 /\ FALSE \in Refs)
                                    /\ wsIn' = Append(wsIn, q)
  <2> DEFINE q == [ev |-> ev, topic |-> t, ref |-> IF hasRef THEN sent + 1 ELSE 0]
  <2>0. hasRef \/ FALSE \in Refs
    <3>1. hasRef \in BOOLEAN
      BY RefAssumption
    <3> QED BY <3>1
  <2>1. q \in Requests /\ (q.ref = sent + 1 \/ (q.ref = 0 /\ FALSE \in Refs))
    <3>1. q \in Requests
      BY <1>1, BoundAssumption DEF ClientSend, Requests, TypeOK
    <3>2. hasRef => q.ref = sent + 1
      OBVIOUS
    <3>3. ~hasRef => q.ref = 0
      OBVIOUS
    <3> QED BY <2>0, <3>1, <3>2, <3>3
  <2>2. wsIn' = Append(wsIn, q)
    BY <1>1 DEF ClientSend
  <2> QED BY <1>1, <2>1, <2>2 DEF ClientSend
<1>2. CASE ClientClose \/ ShutdownPubSub \/ JoinCompleted
  BY <1>2 DEF ClientClose, ShutdownPubSub, JoinCompleted
<1>3. ASSUME NEW t \in Topics, SendEvent(t)
      PROVE  /\ UNCHANGED <<wsIn, out>> /\ sent' \in {sent, sent + 1}
             /\ \E e \in Mail : Unasked(e) /\ mailbox' = Append(mailbox, e)
  <2>1. [ev |-> "event", topic |-> t, ref |-> 0] \in Requests
    BY BoundAssumption DEF Requests
  <2>2. /\ Cast([ev |-> "event", topic |-> t, ref |-> 0]) \in Mail
        /\ Unasked(Cast([ev |-> "event", topic |-> t, ref |-> 0]))
    BY <2>1, CastFacts DEF Unasked, MailRef
  <2> QED BY <1>3, <2>2 DEF SendEvent
<1>4. ASSUME NEW t \in Topics, Publish(t) \/ UnsubscribeTopic(t)
      PROVE  UNCHANGED <<wsIn, mailbox, out, sent>>
  BY <1>4 DEF Publish, UnsubscribeTopic
<1>5. CASE HandlerPanics
  BY <1>5 DEF HandlerPanics, ProcessGone
<1>6. CASE ReadLoopEnd
  BY <1>6 DEF ReadLoopEnd, Terminate, ProcessGone
<1>7. CASE ReadLoopCast
  BY <1>7 DEF ReadLoopCast
<1>8. ASSUME NEW ev, HandlingCast(ev), UNCHANGED <<wsIn, sent>>,
             out' = out \/ \E e \in {"phx_join", "phx_leave", "event"}, st \in {"ok", "error"} : ReplyIfRef(e, st)
      PROVE  /\ UNCHANGED <<wsIn, sent>> /\ mailbox # << >> /\ mailbox' = Tail(mailbox)
             /\ \/ out' = out
                \/ \E f \in Frames : /\ FrameRef(f) \in {0, MailRef(Head(mailbox))}
                                     /\ out' = Append(out, f)
  <2>1. /\ mailbox # << >> /\ Head(mailbox).kind = "cast" /\ mailbox' = Tail(mailbox)
        /\ Request \in Requests /\ Request.topic \in Topics /\ Request.ref \in 0..MaxRequests
    BY <1>8, CastHandled
  <2>2. MailRef(Head(mailbox)) = Request.ref
    BY <2>1 DEF MailRef, Request
  <2>3. ASSUME NEW e \in {"phx_join", "phx_leave", "event"}, NEW st \in {"ok", "error"}, ReplyIfRef(e, st)
        PROVE  \/ out' = out
               \/ \E f \in Frames : /\ FrameRef(f) \in {0, MailRef(Head(mailbox))}
                                    /\ out' = Append(out, f)
    <3>1. \/ out' = out
          \/ /\ out' = Append(out, ReplyFrame(Request.topic, e, st, Request.ref))
             /\ ReplyFrame(Request.topic, e, st, Request.ref) \in Frames
      BY <2>1, <2>3, ReplySent
    <3>2. FrameRef(ReplyFrame(Request.topic, e, st, Request.ref)) = Request.ref
      BY DEF FrameRef, ReplyFrame
    <3> QED BY <2>2, <3>1, <3>2
  <2> QED BY <1>8, <2>1, <2>3
<1>9. CASE JoinUnrouted \/ JoinRefused
  BY <1>8, <1>9 DEF JoinUnrouted, JoinRefused
<1>10. ASSUME NEW k \in Instances, JoinAccepted(k)
       PROVE  /\ UNCHANGED <<wsIn, sent>> /\ mailbox # << >> /\ mailbox' = Tail(mailbox)
              /\ \/ out' = out
                 \/ \E f \in Frames : /\ FrameRef(f) \in {0, MailRef(Head(mailbox))}
                                      /\ out' = Append(out, f)
  BY <1>8, <1>10 DEF JoinAccepted
<1>11. CASE Leave
  BY <1>8, <1>11 DEF Leave
<1>12. CASE Event
  BY <1>8, <1>12 DEF Event
<1>13. CASE Heartbeat
  <2>1. /\ mailbox # << >> /\ Head(mailbox).kind = "cast" /\ mailbox' = Tail(mailbox)
        /\ Request.ref \in 0..MaxRequests
    BY <1>13, CastHandled DEF Heartbeat
  <2> DEFINE f == ReplyFrame(NoTopic, "heartbeat", "ok", Request.ref)
  <2>2. f \in Frames /\ FrameRef(f) = Request.ref
    BY <2>1 DEF ReplyFrame, Frames, FrameRef
  <2>3. MailRef(Head(mailbox)) = Request.ref
    BY <2>1 DEF MailRef, Request
  <2> QED BY <1>13, <2>1, <2>2, <2>3 DEF Heartbeat
<1>14. CASE HandleInfo
  <2>1. mailbox # << >> /\ mailbox' = Tail(mailbox) /\ Head(mailbox).kind = "info" /\ UNCHANGED <<wsIn, sent>>
    BY <1>14 DEF HandleInfo, CanHandle
  <2>2. PICK e \in Mail : e = Head(mailbox)
    BY <2>1, TailFacts DEF TypeOK
  <2>3. e.topic \in Topics /\ e.via \in Instances /\ e.msg \in 0..MaxPublish
    BY <2>1, <2>2, MailFacts
  <2>4. PushFrame(e.topic, e.via, e.msg) \in Frames /\ FrameRef(PushFrame(e.topic, e.via, e.msg)) = 0
    BY <2>3, InfoFacts DEF FrameRef
  <2> QED BY <1>14, <2>1, <2>2, <2>4 DEF HandleInfo
<1>15. ASSUME NEW k \in Instances, ForwarderEnds(k) \/ ForwarderDisconnected(k)
       PROVE  UNCHANGED <<wsIn, mailbox, out, sent>>
  BY <1>15 DEF ForwarderEnds, ForwarderDisconnected
<1>16. ASSUME NEW t \in Topics, NEW k \in Instances, NEW m \in 0..MaxPublish
       PROVE  Info(t, k, m) \in Mail /\ Unasked(Info(t, k, m))
  BY InfoFacts DEF Unasked, MailRef
<1>17. ASSUME NEW k \in Instances, Forward(k)
       PROVE  /\ UNCHANGED <<wsIn, out>> /\ sent' \in {sent, sent + 1}
              /\ \/ mailbox' = mailbox /\ sent' = sent
                 \/ \E e \in Mail : Unasked(e) /\ mailbox' = Append(mailbox, e)
  <2>1. topic[k] \in Topics /\ Last(got'[k]) \in Messages
    BY <1>17, ForwardFacts
  <2>2. Last(got'[k]) \in 0..MaxPublish
    BY <2>1, BoundAssumption DEF Messages
  <2>3. mailbox' = mailbox \/ mailbox' = Append(mailbox, Info(topic[k], k, Last(got'[k])))
    BY <1>17 DEF Forward
  <2>4. Info(topic[k], k, Last(got'[k])) \in Mail /\ Unasked(Info(topic[k], k, Last(got'[k])))
    BY <1>16, <2>1, <2>2
  <2> QED BY <1>17, <2>3, <2>4 DEF Forward
<1>18. ASSUME NEW tm \in timers, TimerFires(tm)
       PROVE  /\ UNCHANGED <<wsIn, out>> /\ sent' \in {sent, sent + 1}
              /\ \/ mailbox' = mailbox /\ sent' = sent
                 \/ \E e \in Mail : Unasked(e) /\ mailbox' = Append(mailbox, e)
  <2>1. tm.topic \in Topics /\ tm.inst \in Instances
    BY DEF TypeOK
  <2>2. Info(tm.topic, tm.inst, 0) \in Mail /\ Unasked(Info(tm.topic, tm.inst, 0))
    BY <1>16, <2>1, BoundAssumption
  <2> QED BY <1>18, <2>2 DEF TimerFires
<1>19. CASE UNCHANGED vars
  BY <1>19 DEF vars
<1> QED
  BY <1>1, <1>2, <1>3, <1>4, <1>5, <1>6, <1>7, <1>9, <1>10, <1>11, <1>12, <1>13, <1>14, <1>15,
     <1>17, <1>18, <1>19 DEF Next, ReadLoop, HandleMessage, ForwarderStep

(* Every step keeps the refs rising.                                        *)
LEMMA RefStep ==
    TypeOK /\ LifeInv /\ LogInv /\ FeedInv /\ MailInv /\ RefInv /\ [Next]_vars => RefInv'
<1> SUFFICES ASSUME TypeOK, LifeInv, LogInv, FeedInv, MailInv, RefInv, [Next]_vars PROVE RefInv'
  OBVIOUS
<1>t. /\ sent \in Nat
      /\ wsIn \in Seq(Requests) /\ mailbox \in Seq(Mail) /\ out \in Seq(Frames)
      /\ \A q \in Requests : q.ref \in Nat
      /\ \A e \in Mail : MailRef(e) \in Nat
      /\ \A f \in Frames : FrameRef(f) \in Nat
      /\ \A i \in 1..Len(wsIn) : wsIn[i] \in Requests
      /\ \A i \in 1..Len(mailbox) : mailbox[i] \in Mail
      /\ \A i \in 1..Len(out) : out[i] \in Frames
  BY RefTypes
<1>1. CASE UNCHANGED <<wsIn, mailbox, out, sent>>
  BY <1>1 DEF RefInv
<1>2. ASSUME NEW q \in Requests, q.ref \in {0, sent + 1}, wsIn' = Append(wsIn, q),
             UNCHANGED <<mailbox, out>>, sent' = sent + 1
      PROVE  RefInv'
  <2>1. /\ Len(wsIn) \in Nat /\ Len(wsIn') = Len(wsIn) + 1 /\ wsIn'[Len(wsIn) + 1] = q
        /\ \A i \in 1..Len(wsIn) : wsIn'[i] = wsIn[i]
        /\ \A i \in 1..Len(wsIn') : i \in 1..Len(wsIn) \/ i = Len(wsIn) + 1
    BY <1>t, <1>2, AppendFacts
  <2>2. \A i, j \in 1..Len(wsIn') : i < j => i \in 1..Len(wsIn)
    BY <2>1
  <2>3. ASSUME NEW r \in Nat, r <= sent PROVE r <= sent' /\ Below(r, q.ref)
    BY <1>t, <1>2, <2>3 DEF Below
  <2>4. (\A i \in 1..Len(wsIn) : wsIn[i].ref <= sent)'
    BY <1>t, <1>2, <2>1 DEF RefInv
  <2>5. (\A i, j \in 1..Len(wsIn) : i < j => Below(wsIn[i].ref, wsIn[j].ref))'
    BY <1>t, <2>1, <2>2, <2>3 DEF RefInv
  <2>6. (\A i \in 1..Len(mailbox), j \in 1..Len(wsIn) : Below(MailRef(mailbox[i]), wsIn[j].ref))'
    BY <1>t, <1>2, <2>1, <2>3 DEF RefInv
  <2>7. (\A i \in 1..Len(out), j \in 1..Len(wsIn) : Below(FrameRef(out[i]), wsIn[j].ref))'
    BY <1>t, <1>2, <2>1, <2>3 DEF RefInv
  <2> QED BY <1>t, <1>2, <2>3, <2>4, <2>5, <2>6, <2>7 DEF RefInv
<1>3. ASSUME wsIn # << >>, wsIn' = Tail(wsIn), UNCHANGED <<out, sent>>,
             mailbox' = mailbox \/ mailbox' = Append(mailbox, Cast(Head(wsIn)))
      PROVE  RefInv'
  <2>1. PICK q \in Requests : q = Head(wsIn)
    BY <1>t, <1>3, TailFacts
  <2>2. /\ wsIn[1] = q /\ 1 \in 1..Len(wsIn)
        /\ \A i \in 1..Len(wsIn') : wsIn'[i] = wsIn[i + 1] /\ i + 1 \in 1..Len(wsIn)
    BY <1>t, <1>3, <2>1, TailFacts
  <2>3. \A i, j \in 1..Len(wsIn') : i < j => i + 1 < j + 1
    OBVIOUS
  <2>4. \A i \in 1..Len(wsIn') : 1 < i + 1
    OBVIOUS
  <2>5. /\ \A i \in 1..Len(wsIn') : Below(q.ref, wsIn'[i].ref) /\ wsIn'[i].ref <= sent
        /\ \A i, j \in 1..Len(wsIn') : i < j => Below(wsIn'[i].ref, wsIn'[j].ref)
        /\ \A i \in 1..Len(mailbox) : /\ Below(MailRef(mailbox[i]), q.ref)
                                      /\ \A j \in 1..Len(wsIn') : Below(MailRef(mailbox[i]), wsIn'[j].ref)
        /\ \A i \in 1..Len(out) : /\ Below(FrameRef(out[i]), q.ref)
                                  /\ \A j \in 1..Len(wsIn') : Below(FrameRef(out[i]), wsIn'[j].ref)
        /\ q.ref <= sent
    BY <2>2, <2>3, <2>4 DEF RefInv
  <2>6. CASE mailbox' = mailbox
    BY <1>3, <2>5, <2>6 DEF RefInv
  <2>7. CASE mailbox' = Append(mailbox, Cast(q))
    <3>1. Cast(q) \in Mail /\ MailRef(Cast(q)) = q.ref
      BY CastFacts DEF MailRef
    <3>2. /\ Len(mailbox) \in Nat /\ Len(mailbox') = Len(mailbox) + 1
          /\ \A i \in 1..Len(mailbox) : mailbox'[i] = mailbox[i]
          /\ MailRef(mailbox'[Len(mailbox) + 1]) = q.ref
          /\ \A i \in 1..Len(mailbox') : i \in 1..Len(mailbox) \/ i = Len(mailbox) + 1
      BY <1>t, <2>7, <3>1, AppendFacts
    <3>3. \A i, j \in 1..Len(mailbox') : i < j => i \in 1..Len(mailbox)
      BY <3>2
    <3>4. (\A i, j \in 1..Len(mailbox) : i < j => Below(MailRef(mailbox[i]), MailRef(mailbox[j])))'
      BY <2>5, <3>2, <3>3 DEF RefInv
    <3>5. (\A i \in 1..Len(mailbox) : MailRef(mailbox[i]) <= sent)'
      BY <1>3, <2>5, <3>2 DEF RefInv
    <3>6. (\A i \in 1..Len(mailbox), j \in 1..Len(wsIn) : Below(MailRef(mailbox[i]), wsIn[j].ref))'
      BY <2>5, <3>2
    <3>7. (\A i \in 1..Len(out), j \in 1..Len(mailbox) : Below(FrameRef(out[i]), MailRef(mailbox[j])))'
      BY <1>3, <2>5, <3>2 DEF RefInv
    <3> QED BY <1>3, <2>5, <3>4, <3>5, <3>6, <3>7 DEF RefInv
  <2> QED BY <1>3, <2>1, <2>6, <2>7
<1>4. ASSUME NEW e \in Mail, MailRef(e) = 0, mailbox' = Append(mailbox, e), UNCHANGED <<wsIn, out>>,
             sent' \in {sent, sent + 1}
      PROVE  RefInv'
  <2>1. /\ Len(mailbox) \in Nat /\ Len(mailbox') = Len(mailbox) + 1
        /\ \A i \in 1..Len(mailbox) : mailbox'[i] = mailbox[i]
        /\ MailRef(mailbox'[Len(mailbox) + 1]) = 0
        /\ \A i \in 1..Len(mailbox') : i \in 1..Len(mailbox) \/ i = Len(mailbox) + 1
    BY <1>t, <1>4, AppendFacts
  <2>2. \A r : Below(r, 0) /\ Below(0, r)
    BY DEF Below
  <2>3. \A r \in Nat : r <= sent => r <= sent'
    BY <1>t, <1>4
  <2>4. (\A i, j \in 1..Len(mailbox) : i < j => Below(MailRef(mailbox[i]), MailRef(mailbox[j])))'
    BY <2>1, <2>2 DEF RefInv
  <2>5. (\A i \in 1..Len(mailbox) : MailRef(mailbox[i]) <= sent)'
    BY <1>t, <1>4, <2>1, <2>3 DEF RefInv
  <2>6. (\A i \in 1..Len(mailbox), j \in 1..Len(wsIn) : Below(MailRef(mailbox[i]), wsIn[j].ref))'
    BY <1>4, <2>1, <2>2 DEF RefInv
  <2>7. (\A i \in 1..Len(out), j \in 1..Len(mailbox) : Below(FrameRef(out[i]), MailRef(mailbox[j])))'
    BY <1>4, <2>1, <2>2 DEF RefInv
  <2> QED BY <1>t, <1>4, <2>3, <2>4, <2>5, <2>6, <2>7 DEF RefInv
<1>5. ASSUME UNCHANGED <<wsIn, sent>>, mailbox # << >>, mailbox' = Tail(mailbox),
             \/ out' = out
             \/ \E f \in Frames : /\ FrameRef(f) \in {0, MailRef(Head(mailbox))}
                                  /\ out' = Append(out, f)
      PROVE  RefInv'
  <2>1. PICK e \in Mail : e = Head(mailbox)
    BY <1>t, <1>5, TailFacts
  <2>2. /\ mailbox[1] = e /\ 1 \in 1..Len(mailbox)
        /\ \A i \in 1..Len(mailbox') : mailbox'[i] = mailbox[i + 1] /\ i + 1 \in 1..Len(mailbox)
    BY <1>t, <1>5, <2>1, TailFacts
  <2>3. \A i, j \in 1..Len(mailbox') : i < j => i + 1 < j + 1
    OBVIOUS
  <2>4. \A i \in 1..Len(mailbox') : 1 < i + 1
    OBVIOUS
  <2>5. \A r : Below(r, 0) /\ Below(0, r)
    BY DEF Below
  <2>6. ASSUME NEW r \in {0, MailRef(e)}
        PROVE  /\ \A i \in 1..Len(mailbox') : Below(r, MailRef(mailbox'[i]))
               /\ \A j \in 1..Len(wsIn) : Below(r, wsIn[j].ref)
               /\ \A i \in 1..Len(out) : Below(FrameRef(out[i]), r)
               /\ r <= sent
    BY <1>t, <2>2, <2>4, <2>5 DEF RefInv
  <2>7. /\ \A i \in 1..Len(mailbox') : MailRef(mailbox'[i]) <= sent
        /\ \A i, j \in 1..Len(mailbox') : i < j => Below(MailRef(mailbox'[i]), MailRef(mailbox'[j]))
        /\ \A i \in 1..Len(mailbox'), j \in 1..Len(wsIn) : Below(MailRef(mailbox'[i]), wsIn[j].ref)
        /\ \A i \in 1..Len(out), j \in 1..Len(mailbox') : Below(FrameRef(out[i]), MailRef(mailbox'[j]))
    BY <2>2, <2>3 DEF RefInv
  <2>8. CASE out' = out
    BY <1>5, <2>7, <2>8 DEF RefInv
  <2>9. ASSUME NEW f \in Frames, FrameRef(f) \in {0, MailRef(e)}, out' = Append(out, f)
        PROVE  RefInv'
    <3>1. /\ Len(out) \in Nat /\ Len(out') = Len(out) + 1 /\ out'[Len(out) + 1] = f
          /\ \A i \in 1..Len(out) : out'[i] = out[i]
          /\ \A i \in 1..Len(out') : i \in 1..Len(out) \/ i = Len(out) + 1
      BY <1>t, <2>9, AppendFacts
    <3>2. \A i, j \in 1..Len(out') : i < j => i \in 1..Len(out)
      BY <3>1
    <3>3. (\A i, j \in 1..Len(out) : i < j => Below(FrameRef(out[i]), FrameRef(out[j])))'
      BY <2>6, <2>9, <3>1, <3>2 DEF RefInv
    <3>4. (\A i \in 1..Len(out) : FrameRef(out[i]) <= sent)'
      BY <1>5, <2>6, <2>9, <3>1 DEF RefInv
    <3>5. (\A i \in 1..Len(out), j \in 1..Len(wsIn) : Below(FrameRef(out[i]), wsIn[j].ref))'
      BY <1>5, <2>6, <2>9, <3>1 DEF RefInv
    <3>6. (\A i \in 1..Len(out), j \in 1..Len(mailbox) : Below(FrameRef(out[i]), MailRef(mailbox[j])))'
      BY <2>6, <2>7, <2>9, <3>1
    <3> QED BY <1>5, <2>7, <3>3, <3>4, <3>5, <3>6 DEF RefInv
  <2> QED BY <1>5, <2>1, <2>8, <2>9
<1>6. CASE UNCHANGED <<wsIn, out, sent>> /\ mailbox' = << >>
  BY <1>6 DEF RefInv
<1> QED BY <1>1, <1>2, <1>3, <1>4, <1>5, <1>6, RefSteps DEF Unasked

-----------------------------------------------------------------------------
(* A topic that is not joined is quiet.                                    *)

(* A frame added to what was sent keeps every topic open that it is not    *)
(* the leave answer of, and the pushes in their place.                     *)
LEMMA OpenAppend ==
    ASSUME out \in Seq(Frames), NEW f \in Frames, out' = Append(out, f), NEW t,
           OpenToClient(t), ~(f.kind = "reply" /\ f.ev = "phx_leave" /\ f.topic = t)
    PROVE  OpenToClient(t)'
<1>1. /\ Len(out) \in Nat /\ Len(out') = Len(out) + 1 /\ \A i \in 1..Len(out) : out'[i] = out[i]
      /\ out'[Len(out) + 1] = f
  BY AppendFacts
<1>2. PICK i \in 1..Len(out) : JoinReply(i, t) /\ \A h \in i..Len(out) : ~LeaveReply(h, t)
  BY DEF OpenToClient
<1>3. i \in 1..Len(out') /\ JoinReply(i, t)'
  BY <1>1, <1>2 DEF JoinReply
<1>4. ASSUME NEW h \in i..Len(out') PROVE ~LeaveReply(h, t)'
  <2>1. CASE h = Len(out) + 1
    BY <1>1, <2>1 DEF LeaveReply
  <2>2. CASE h # Len(out) + 1
    <3>1. h \in i..Len(out) /\ h \in 1..Len(out)
      BY <1>1, <1>2, <2>2
    <3> QED BY <1>1, <1>2, <3>1 DEF LeaveReply
  <2> QED BY <2>1, <2>2
<1> QED BY <1>3, <1>4 DEF OpenToClient

(* A frame more keeps QuietUnlessJoined, if a push is on an open topic.     *)
LEMMA QuietAppend ==
    ASSUME out \in Seq(Frames), NEW f \in Frames, out' = Append(out, f), QuietUnlessJoined,
           f.kind = "push" => OpenToClient(f.topic)
    PROVE  QuietUnlessJoined'
<1>1. /\ Len(out) \in Nat /\ Len(out') = Len(out) + 1 /\ \A i \in 1..Len(out) : out'[i] = out[i]
      /\ out'[Len(out) + 1] = f
  BY AppendFacts
<1> SUFFICES ASSUME NEW j \in 1..Len(out'), out'[j].kind = "push"
             PROVE  \E i \in 1..(j - 1) :
                      /\ out'[i].kind = "reply" /\ out'[i].topic = out'[j].topic
                      /\ out'[i].ev = "phx_join" /\ out'[i].status = "ok"
                      /\ \A h \in i..j : ~( /\ out'[h].kind = "reply" /\ out'[h].ev = "phx_leave"
                                            /\ out'[h].topic = out'[j].topic )
  BY DEF QuietUnlessJoined
<1>2. CASE j = Len(out) + 1
  <2>1. PICK i \in 1..Len(out) :
          JoinReply(i, f.topic) /\ \A h \in i..Len(out) : ~LeaveReply(h, f.topic)
    BY <1>1, <1>2 DEF OpenToClient
  <2>2. i \in 1..(j - 1) /\ out'[i] = out[i]
    BY <1>1, <1>2
  <2>3. ASSUME NEW h \in i..j
        PROVE  ~( /\ out'[h].kind = "reply" /\ out'[h].ev = "phx_leave"
                  /\ out'[h].topic = f.topic )
    <3>1. CASE h = j
      BY <1>1, <1>2, <3>1
    <3>2. CASE h # j
      <4>1. h \in i..Len(out) /\ h \in 1..Len(out)
        BY <1>1, <1>2, <3>2
      <4> QED BY <1>1, <2>1, <4>1 DEF LeaveReply
    <3> QED BY <3>1, <3>2
  <2> QED BY <1>1, <1>2, <2>1, <2>2, <2>3 DEF JoinReply
<1>3. CASE j # Len(out) + 1
  <2>1. j \in 1..Len(out) /\ out'[j] = out[j] /\ out[j].kind = "push"
    BY <1>1, <1>3
  <2>2. PICK i \in 1..(j - 1) :
          /\ out[i].kind = "reply" /\ out[i].topic = out[j].topic
          /\ out[i].ev = "phx_join" /\ out[i].status = "ok"
          /\ \A h \in i..j : ~( /\ out[h].kind = "reply" /\ out[h].ev = "phx_leave"
                                /\ out[h].topic = out[j].topic )
    BY <2>1 DEF QuietUnlessJoined
  <2>3. i \in 1..Len(out) /\ \A h \in i..j : h \in 1..Len(out)
    BY <1>1, <2>1
  <2> QED BY <1>1, <2>1, <2>2, <2>3
<1> QED BY <1>2, <1>3

(* What a step sends to the client.                                        *)
LEMMA OutSteps ==
    ASSUME TypeOK, [Next]_vars
    PROVE  \/ out' = out
           \/ /\ UNCHANGED procVars
              /\ \E f \in Frames : /\ f.kind = "reply" /\ f.ev # "phx_leave"
                                   /\ out' = Append(out, f)
           \/ \E k \in Instances : JoinAccepted(k)
           \/ Leave
           \/ HandleInfo /\ UNCHANGED procVars
<1> USE DEF envVars, taskVars
<1>1. ASSUME NEW ev, HandlingCast(ev), NEW e \in {"phx_join", "event"}, NEW st \in {"ok", "error"},
             ReplyIfRef(e, st)
      PROVE  \/ out' = out
             \/ \E f \in Frames : f.kind = "reply" /\ f.ev # "phx_leave" /\ out' = Append(out, f)
  <2>1. Request \in Requests
    BY <1>1, CastHandled
  <2>2. \/ out' = out
        \/ /\ out' = Append(out, ReplyFrame(Request.topic, e, st, Request.ref))
           /\ ReplyFrame(Request.topic, e, st, Request.ref) \in Frames
    BY <1>1, <2>1, ReplySent
  <2>3. /\ ReplyFrame(Request.topic, e, st, Request.ref).kind = "reply"
        /\ ReplyFrame(Request.topic, e, st, Request.ref).ev # "phx_leave"
    BY DEF ReplyFrame
  <2> QED BY <2>2, <2>3
<1>2. CASE JoinRefused
  BY <1>1, <1>2 DEF JoinRefused
<1>3. CASE Event
  BY <1>1, <1>3 DEF Event
<1>4. CASE Heartbeat
  <2>1. Request.ref \in 0..MaxRequests
    BY <1>4, CastHandled DEF Heartbeat
  <2> DEFINE f == ReplyFrame(NoTopic, "heartbeat", "ok", Request.ref)
  <2>2. f \in Frames /\ f.kind = "reply" /\ f.ev # "phx_leave"
    BY <2>1 DEF ReplyFrame, Frames
  <2> QED BY <1>4, <2>2 DEF Heartbeat
<1>5. CASE HandleInfo
  BY <1>5 DEF HandleInfo
<1>6. ASSUME NEW ev, NEW t, NEW hasRef, ClientSend(ev, t, hasRef) PROVE out' = out
  BY <1>6 DEF ClientSend
<1>7. ASSUME NEW t, Publish(t) \/ UnsubscribeTopic(t) \/ SendEvent(t) PROVE out' = out
  BY <1>7 DEF Publish, UnsubscribeTopic, SendEvent
<1>8. CASE ClientClose \/ ShutdownPubSub \/ HandlerPanics \/ ReadLoop \/ JoinUnrouted \/ JoinCompleted
  BY <1>8 DEF ClientClose, ShutdownPubSub, HandlerPanics, ReadLoop, ReadLoopCast, ReadLoopEnd,
              JoinUnrouted, JoinCompleted
<1>9. ASSUME NEW k, ForwarderStep(k) PROVE out' = out
  BY <1>9 DEF ForwarderStep, Forward, ForwarderEnds, ForwarderDisconnected
<1>10. ASSUME NEW tm, TimerFires(tm) PROVE out' = out
  BY <1>10 DEF TimerFires
<1>11. CASE UNCHANGED vars
  BY <1>11 DEF vars
<1> QED
  BY <1>2, <1>3, <1>4, <1>5, <1>6, <1>7, <1>8, <1>9, <1>10, <1>11 DEF Next, HandleMessage

(* Joins and leaves keep their refs on the way to the process.             *)
LEMMA NumberedStep ==
    ASSUME TypeOK, LifeInv, LogInv, FeedInv, MailInv, QuietInv, Refs \subseteq {TRUE}, [Next]_vars
    PROVE  /\ (\A i \in 1..Len(wsIn) : wsIn[i].ev \in {"phx_join", "phx_leave"} => wsIn[i].ref # 0)'
           /\ (\A i \in 1..Len(mailbox) :
                 mailbox[i].kind = "cast" /\ mailbox[i].req.ev \in {"phx_join", "phx_leave"} =>
                    mailbox[i].req.ref # 0)'
<1> DEFINE Num(q) == q.ev \in {"phx_join", "phx_leave"} => q.ref # 0
           Mailed(e) == e.kind = "cast" /\ e.req.ev \in {"phx_join", "phx_leave"} => e.req.ref # 0
<1>0. FALSE \notin Refs
  OBVIOUS
<1>t. wsIn \in Seq(Requests) /\ mailbox \in Seq(Mail) /\ sent \in Nat
  BY RefTypes
<1>1. /\ \A i \in 1..Len(wsIn) : Num(wsIn[i])
      /\ \A i \in 1..Len(mailbox) : Mailed(mailbox[i])
  BY DEF QuietInv
<1>2. \A q \in Requests : q.ref = sent + 1 => Num(q)
  BY <1>t
<1>3. \A q \in Requests : Num(q) => Mailed(Cast(q)) /\ Cast(q) \in Mail
  BY CastFacts
<1>4. \A e \in Mail : Unasked(e) => Mailed(e)
  BY DEF Unasked
<1> SUFFICES /\ \A i \in 1..Len(wsIn') : Num(wsIn'[i])
             /\ \A i \in 1..Len(mailbox') : Mailed(mailbox'[i])
  OBVIOUS
<1> HIDE DEF Num, Mailed
<1>5. ASSUME NEW q \in Requests, wsIn' = Append(wsIn, q), Num(q)
      PROVE  \A i \in 1..Len(wsIn') : Num(wsIn'[i])
  BY <1>t, <1>1, <1>5, AppendFacts
<1>6. ASSUME NEW e \in Mail, mailbox' = Append(mailbox, e), Mailed(e)
      PROVE  \A i \in 1..Len(mailbox') : Mailed(mailbox'[i])
  BY <1>t, <1>1, <1>6, AppendFacts
<1>7. ASSUME wsIn # << >>, wsIn' = Tail(wsIn)
      PROVE  Num(Head(wsIn)) /\ Head(wsIn) \in Requests /\ \A i \in 1..Len(wsIn') : Num(wsIn'[i])
  <2>1. /\ Head(wsIn) = wsIn[1] /\ Head(wsIn) \in Requests /\ 1 \in 1..Len(wsIn)
        /\ \A i \in 1..Len(wsIn') : wsIn'[i] = wsIn[i + 1] /\ i + 1 \in 1..Len(wsIn)
    BY <1>t, <1>7, TailFacts
  <2> QED BY <1>1, <2>1
<1>8. ASSUME mailbox # << >>, mailbox' = Tail(mailbox)
      PROVE  \A i \in 1..Len(mailbox') : Mailed(mailbox'[i])
  <2>1. \A i \in 1..Len(mailbox') : mailbox'[i] = mailbox[i + 1] /\ i + 1 \in 1..Len(mailbox)
    BY <1>t, <1>8, TailFacts
  <2> QED BY <1>1, <2>1
<1>9. mailbox' = << >> => \A i \in 1..Len(mailbox') : Mailed(mailbox'[i])
  OBVIOUS
<1> QED BY <1>0, <1>1, <1>2, <1>3, <1>4, <1>5, <1>6, <1>7, <1>8, <1>9, RefSteps

(* Every step keeps joined topics open to the client and pushes inside.     *)
LEMMA QuietStep ==
    ASSUME TypeOK, LifeInv, LogInv, FeedInv, MailInv, QuietInv, Refs \subseteq {TRUE}, [Next]_vars
    PROVE  QuietInv'
<1>t. out \in Seq(Frames) /\ mailbox \in Seq(Mail)
  BY DEF TypeOK
<1>q. /\ QuietUnlessJoined
      /\ \A t \in Topics : joined[t] # NoInstance => OpenToClient(t)
      /\ joining # NoInstance => OpenToClient(at[joining])
  BY DEF QuietInv
<1>r. ASSUME NEW ev \in {"phx_join", "phx_leave"}, HandlingCast(ev) PROVE Request.ref # 0
  <2>1. mailbox # << >> /\ Head(mailbox).kind = "cast" /\ Request.ev = ev
    BY <1>r, CastHandled
  <2>2. Head(mailbox) = mailbox[1] /\ 1 \in 1..Len(mailbox)
    BY <1>t, <2>1, TailFacts
  <2> QED BY <2>1, <2>2 DEF QuietInv, Request
<1> SUFFICES /\ QuietUnlessJoined'
             /\ \A t \in Topics : joined'[t] # NoInstance => OpenToClient(t)'
             /\ joining' # NoInstance => \E k : k = at'[joining'] /\ OpenToClient(k)'
  <2>1. ASSUME NEW k, k = at'[joining'], OpenToClient(k)' PROVE OpenToClient(at[joining])'
    BY <2>1 DEF OpenToClient, JoinReply, LeaveReply
  <2> QED BY <2>1, NumberedStep DEF QuietInv
<1>s. ASSUME out' = out PROVE QuietUnlessJoined' /\ \A t : OpenToClient(t)' <=> OpenToClient(t)
  BY <1>q, <1>s DEF QuietUnlessJoined, OpenToClient, JoinReply, LeaveReply
<1>1. CASE UNCHANGED procVars
  <2>0. UNCHANGED <<joined, joining, at>>
    BY <1>1 DEF procVars
  <2>1. CASE out' = out
    BY <1>q, <1>s, <2>0, <2>1
  <2>2. ASSUME NEW f \in Frames, out' = Append(out, f), f.kind = "reply" => f.ev # "phx_leave",
               f.kind = "push" => OpenToClient(f.topic)
        PROVE  /\ QuietUnlessJoined'
               /\ \A t \in Topics : joined'[t] # NoInstance => OpenToClient(t)'
               /\ joining' # NoInstance => \E k : k = at'[joining'] /\ OpenToClient(k)'
    <3>1. QuietUnlessJoined'
      BY <1>t, <1>q, <2>2, QuietAppend
    <3>2. \A t : OpenToClient(t) => OpenToClient(t)'
      BY <1>t, <2>2, OpenAppend
    <3> QED BY <1>q, <2>0, <3>1, <3>2
  <2>3. CASE HandleInfo
    <3>1. PICK e \in Mail : e = Head(mailbox)
      BY <1>t, <2>3, TailFacts DEF HandleInfo, CanHandle
    <3>2. e.kind = "info" /\ out' = IF joined[e.topic] = NoInstance THEN out
                                    ELSE Append(out, PushFrame(e.topic, e.via, e.msg))
      BY <2>3, <3>1 DEF HandleInfo
    <3>3. e.topic \in Topics /\ e.via \in Instances /\ e.msg \in 0..MaxPublish
      BY <3>2, MailFacts
    <3> DEFINE f == PushFrame(e.topic, e.via, e.msg)
    <3>4. f \in Frames /\ f.kind = "push" /\ f.topic = e.topic
      BY <3>3, InfoFacts
    <3> HIDE DEF f
    <3>5. CASE joined[e.topic] = NoInstance
      BY <2>1, <3>2, <3>5
    <3>6. CASE joined[e.topic] # NoInstance
      <4>1. out' = Append(out, f) /\ OpenToClient(f.topic)
        BY <1>q, <3>2, <3>3, <3>4, <3>6 DEF f
      <4> QED BY <2>2, <3>4, <4>1
    <3> QED BY <3>5, <3>6
  <2>4. ASSUME NEW k \in Instances, JoinAccepted(k) PROVE FALSE
    BY <2>0, <2>4, SubAssumption, CastHandled DEF JoinAccepted
  <2>5. CASE Leave
    <3>1. /\ Request.topic \in Topics
          /\ \/ joined[Request.topic] = NoInstance /\ UNCHANGED <<joined, inst, out>>
             \/ /\ joined[Request.topic] \in Instances
                /\ joined' = [joined EXCEPT ![Request.topic] = NoInstance]
      BY <2>5, LeaveFacts
    <3>2. out' = out
      BY <2>0, <3>1, SubAssumption DEF TypeOK
    <3> QED BY <2>1, <3>2
  <2> QED BY <2>1, <2>2, <2>3, <2>4, <2>5, OutSteps
<1>2. ASSUME NEW k \in Instances, JoinAccepted(k)
      PROVE  /\ QuietUnlessJoined'
             /\ \A t \in Topics : joined'[t] # NoInstance => OpenToClient(t)'
             /\ joining' # NoInstance => \E u : u = at'[joining'] /\ OpenToClient(u)'
  <2>1. /\ Request \in Requests /\ Request.topic \in Topics /\ Request.ref # 0
        /\ Request.ref \in 0..MaxRequests
    BY <1>2, <1>r, CastHandled DEF JoinAccepted
  <2>2. PICK t \in Topics : t = Request.topic
    BY <2>1
  <2>3. PICK f \in Frames : f = ReplyFrame(t, "phx_join", "ok", Request.ref) /\ out' = Append(out, f)
    BY <1>2, <2>1, <2>2, ReplySent DEF JoinAccepted
  <2>4. f.kind = "reply" /\ f.topic = t /\ f.ev = "phx_join" /\ f.status = "ok"
    BY <2>3 DEF ReplyFrame
  <2>5. joined' = joined /\ joining' = k /\ at'[k] = t
    BY <1>2, <2>2 DEF JoinAccepted, TypeOK
  <2>6. QuietUnlessJoined'
    BY <1>t, <1>q, <2>3, <2>4, QuietAppend
  <2>7. \A u : OpenToClient(u) => OpenToClient(u)'
    BY <1>t, <2>3, <2>4, OpenAppend
  <2>8. OpenToClient(t)'
    <3>1. Len(out) \in Nat /\ Len(out') = Len(out) + 1 /\ out'[Len(out) + 1] = f
      BY <1>t, <2>3, AppendFacts
    <3>2. Len(out) + 1 \in 1..Len(out') /\ \A h \in (Len(out) + 1)..Len(out') : h = Len(out) + 1
      BY <3>1
    <3> QED BY <2>4, <3>1, <3>2 DEF OpenToClient, JoinReply, LeaveReply
  <2> QED BY <1>q, <2>5, <2>6, <2>7, <2>8
<1>3. CASE JoinCompleted
  <2>1. out' = out
    BY <1>3 DEF JoinCompleted
  <2>2. /\ joining \in Instances /\ joining' = NoInstance
        /\ \A t \in Topics : t # at[joining] => joined'[t] = joined[t]
    BY <1>3, JoinFacts
  <2>3. OpenToClient(at[joining])
    BY <1>q, <2>2, SubAssumption
  <2>4. \A t \in Topics : joined'[t] # NoInstance => OpenToClient(t)
    BY <1>q, <2>2, <2>3
  <2> QED BY <1>s, <2>1, <2>2, <2>4
<1>4. CASE Leave
  <2>1. PICK t \in Topics : t = Request.topic
    BY <1>4, LeaveFacts
  <2>2. /\ UNCHANGED joining /\ joining = NoInstance
        /\ \/ UNCHANGED <<joined, out>>
           \/ joined' = [joined EXCEPT ![t] = NoInstance] /\ ReplyIfRef("phx_leave", "ok")
    BY <1>4, <2>1, LeaveFacts
  <2>3. CASE UNCHANGED <<joined, out>>
    BY <1>q, <1>s, <2>2, <2>3
  <2>4. CASE joined' = [joined EXCEPT ![t] = NoInstance] /\ ReplyIfRef("phx_leave", "ok")
    <3>1. Request \in Requests
      BY <1>4, CastHandled DEF Leave
    <3>2. PICK f \in Frames : f.kind = "reply" /\ f.topic = t /\ out' = Append(out, f)
      <4>1. ReplyFrame(Request.topic, "phx_leave", "ok", Request.ref).kind = "reply"
        BY DEF ReplyFrame
      <4>2. ReplyFrame(Request.topic, "phx_leave", "ok", Request.ref).topic = Request.topic
        BY DEF ReplyFrame
      <4>3. Request.ref # 0
        BY <1>4, <1>r DEF Leave
      <4> QED BY <2>1, <2>4, <3>1, <4>1, <4>2, <4>3, ReplySent
    <3>3. QuietUnlessJoined'
      BY <1>t, <1>q, <3>2, QuietAppend
    <3>4. \A u : u # t /\ OpenToClient(u) => OpenToClient(u)'
      BY <1>t, <3>2, OpenAppend
    <3>5. \A u \in Topics : joined'[u] # NoInstance => u # t /\ joined[u] # NoInstance
      BY <2>4 DEF TypeOK
    <3> QED BY <1>q, <2>2, <3>3, <3>4, <3>5
  <2> QED BY <2>2, <2>3, <2>4
<1>5. CASE Gone
  <2>1. out' = out /\ joining' = NoInstance /\ \A t \in Topics : joined'[t] = NoInstance
    BY <1>5, GoneFacts
  <2> QED BY <1>s, <2>1
<1> QED BY <1>1, <1>2, <1>3, <1>4, <1>5, ProcSteps

-----------------------------------------------------------------------------
(* The theorems.                                                           *)

(* Type correctness: queues, tables and tasks of the connection keep their *)
(* types.                                                                  *)
THEOREM TypeCorrect == Spec => []TypeOK
<1>1. IInv => TypeOK
  BY DEF IInv
<1> QED BY <1>1, IInvInit, IInvStep, PTL DEF Spec

(* joined_channels names live instances and every live instance, for every *)
(* interleaving of joins, second joins, leaves, panics and kills.          *)
THEOREM JoinedTopicsLive == Spec => []JoinedIsLive
<1>1. IInv => JoinedIsLive
  BY DEF IInv, LifeInv
<1> QED BY <1>1, IInvInit, IInvStep, PTL DEF Spec

(* While a topic is joined, what its forwarder took from PubSub is in the  *)
(* mailbox or was pushed, once each and in publication order.              *)
THEOREM NoBroadcastLost == Spec => []NothingLostWhileJoined
<1>1. IInv => NothingLostWhileJoined
  <2> SUFFICES ASSUME IInv, NEW t \in Topics, joined[t] # NoInstance, NEW k \in Instances, k = joined[t]
               PROVE  /\ {out[i].msg : i \in Pushed(k)} \cup {mailbox[i].msg : i \in Due(k)} = Range(got[k])
                      /\ \A i, j \in Pushed(k) : i < j => out[i].msg < out[j].msg
                      /\ \A i, j \in Due(k) : i < j => mailbox[i].msg < mailbox[j].msg
                      /\ \A i \in Pushed(k), j \in Due(k) : out[i].msg < mailbox[j].msg
    BY DEF NothingLostWhileJoined, IInv, TypeOK
  <2>1. got[k] \in Seq(Messages)
    BY DEF IInv, TypeOK
  <2>2. \A m : m \in Range(got[k]) <=> Got(k, m)
    BY <2>1 DEF Range, Got
  <2>3. \A m : m \in {out[i].msg : i \in Pushed(k)} \cup {mailbox[i].msg : i \in Due(k)} <=> Got(k, m)
    BY DEF IInv, OrderInv, CompleteInv, Got
  <2> QED BY <2>2, <2>3 DEF IInv, OrderInv
<1> QED BY <1>1, IInvInit, IInvStep, PTL DEF Spec

(* A request is answered at most once and in the order of the requests,    *)
(* however casts, broadcasts, ticks and suspended joins interleave.        *)
THEOREM AnswersInOrder == Spec => []RepliesInOrder
<1>1. Init => RefInv
  BY BoundAssumption DEF Init, RefInv
<1>2. IInv /\ RefInv /\ [Next]_vars => RefInv'
  BY RefStep DEF IInv
<1>3. RefInv => RepliesInOrder
  BY DEF RefInv, RepliesInOrder, FrameRef, Below
<1> QED BY <1>1, <1>2, <1>3, IInvInit, IInvStep, PTL DEF Spec

(* For a client that numbers its requests, nothing is pushed on a topic    *)
(* before the answer to its join nor after the answer to its leave,        *)
(* although forwarders and timers of a left channel go on.                 *)
THEOREM QuietUnlessOpen ==
    ASSUME Refs \subseteq {TRUE}
    PROVE  Spec => []QuietUnlessJoined
<1>1. Init => QuietInv
  BY DEF Init, QuietInv, QuietUnlessJoined
<1>2. IInv /\ QuietInv /\ [Next]_vars => QuietInv'
  BY QuietStep DEF IInv
<1>3. QuietInv => QuietUnlessJoined
  BY DEF QuietInv
<1> QED BY <1>1, <1>2, <1>3, IInvInit, IInvStep, PTL DEF Spec
=============================================================================
