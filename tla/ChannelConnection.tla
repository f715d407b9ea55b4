-------------------------- MODULE ChannelConnection --------------------------
(***************************************************************************)
(* crates/mahalo-channel/src/socket.rs and channel.rs: one WebSocket       *)
(* channel connection.                                                     *)
(*                                                                         *)
(*   client --wsIn--> handle_websocket loop --casts--> mailbox             *)
(*   PubSub --feed--> forwarder task (one per subscription) --> mailbox    *)
(*   timer task --> mailbox                                                *)
(*   mailbox --> ChannelConnectionServer callbacks --> out --> client      *)
(*                                                                         *)
(* PubSub is taken as its abstract specification TopicFeed, which module   *)
(* PubSub implements: a broadcast and a subscription take effect in the    *)
(* order in which their commands enter the server's queue, delivery comes  *)
(* later.  Other connections appear as publishers.  The application's      *)
(* Channel callbacks are free choices: join may refuse, handle_in may      *)
(* reply, stay silent or fail, started may schedule timers, stopping may   *)
(* veto; handle_info is the trait's default, which pushes to the client.   *)
(* What the other callbacks push themselves (join() before its ok reply,    *)
(* handle_in, started()) is left out: it depends on the application alone. *)
(* The rebar process runtime (mailboxes, kill, panics) is external.        *)
(***************************************************************************)
EXTENDS Naturals, Sequences, SequencesExt, FiniteSets

CONSTANTS Topics, NoTopic,
          Routed,      \* topics for which channel_router.find succeeds
          Subs, NoSub, \* subscriptions, and the absence of one
          Events,      \* the kinds of request the client sends
          Refs,        \* subset of BOOLEAN: may a request carry a ref
          Timers,      \* timers started() may schedule: "later", "interval"
          Failures,    \* faults that may happen: "panic", "cut", "shutdown"
          MaxRequests, \* bound: requests on this connection
          MaxPublish,  \* bound: broadcasts
          MaxOut       \* bound: no timer fires once so much was sent or is due

ASSUME TopicAssumption == Routed \subseteq Topics /\ NoTopic \notin Topics
ASSUME SubAssumption == NoSub \notin Subs
ASSUME RefAssumption == Refs \subseteq BOOLEAN
ASSUME BoundAssumption == {MaxRequests, MaxPublish, MaxOut} \subseteq Nat

Messages == 1..MaxPublish

(* A socket instance (the ChannelSocket of one accepted join) is known by   *)
(* the subscription slot set aside for it.                                  *)
Instances == Subs
NoInstance == NoSub

VARIABLES log, feed, topic, from, end, got,  \* PubSub, see TopicFeed
          published, \* how many broadcasts were made
          pubsubUp,  \* the PubSub server has not been shut down
          sent,      \* how many requests the connection has been sent
          wsIn,      \* text messages from the transport, not yet read
          wsOpen,    \* the transport still owns the sending end of wsIn
          reader,    \* the handle_websocket loop: "running" or "done"
          proc,      \* the GenServer process: "alive" or "dead"
          mailbox,   \* its mailbox
          joining,   \* the instance whose join is suspended in started()
          joined,    \* joined_channels: topic -> instance
          inst,      \* inst[k]: the life of instance k, see InstanceState
          at,        \* at[k]: the topic instance k was made for
          forwarder, \* forwarder[k]: the task that feeds k's mailbox entries
          timers,    \* timer tasks: [inst, topic, kind]
          out        \* everything sent to the client, in order

feedVars == <<log, feed, topic, from, end, got>>
envVars  == <<published, pubsubUp, sent, wsOpen>>
procVars == <<proc, joining, joined, inst, at>>
taskVars == <<forwarder, timers>>
vars == <<feedVars, envVars, wsIn, reader, mailbox, procVars, taskVars, out>>

PS == INSTANCE TopicFeed

-----------------------------------------------------------------------------
(* "joining"    join accepted, socket not yet in joined_channels           *)
(* "live"       in joined_channels                                         *)
(* "terminated" its terminate callback ran                                 *)
(* "vetoed"     stopping() said No when the process ended                  *)
(* "lost"       dropped without terminate: replaced by a second join of    *)
(*              its topic, or the process went away without its hook       *)
InstanceState == {"unused", "joining", "live", "terminated", "vetoed", "lost"}

Requests == [ev : Events \cup {"event"}, topic : Topics, ref : 0..MaxRequests]

(* A PhoenixMessage sent to the client.  via is the forwarder a pushed     *)
(* broadcast came through and msg the broadcast; 0 stands for a timer.     *)
ReplyFrame(t, ev, status, ref) ==
    [kind |-> "reply", topic |-> t, ev |-> ev, status |-> status, ref |-> ref]
PushFrame(t, k, m) == [kind |-> "push", topic |-> t, via |-> k, msg |-> m]

Frames ==
    [kind : {"reply"}, topic : Topics \cup {NoTopic}, ev : {"phx_join", "phx_leave", "heartbeat", "event"},
     status : {"ok", "error"}, ref : 0..MaxRequests]
    \cup [kind : {"push"}, topic : Topics, via : Instances, msg : 0..MaxPublish]

(* What lies in the mailbox: casts, broadcasts and timer ticks.            *)
Cast(r) == [kind |-> "cast", req |-> r]
Info(t, k, m) == [kind |-> "info", topic |-> t, via |-> k, msg |-> m]

Mail ==
    [kind : {"cast"}, req : Requests]
    \cup [kind : {"info"}, topic : Topics, via : Instances, msg : 0..MaxPublish]

Init ==
    /\ PS!Init
    /\ published = 0
    /\ pubsubUp = TRUE
    /\ sent = 0
    /\ wsIn = << >>
    /\ wsOpen = TRUE
    /\ reader = "running"
    /\ proc = "alive"
    /\ mailbox = << >>
    /\ joining = NoInstance
    /\ joined = [t \in Topics |-> NoInstance]
    /\ inst = [k \in Instances |-> "unused"]
    /\ at = [k \in Instances |-> NoTopic]
    /\ forwarder = [k \in Instances |-> "none"]
    /\ timers = {}
    /\ out = << >>

-----------------------------------------------------------------------------
(* The environment: client, transport, other users of PubSub.              *)

ClientSend(ev, t, hasRef) ==
    /\ wsOpen
    /\ sent < MaxRequests
    /\ sent' = sent + 1
    /\ wsIn' = Append(wsIn, [ev |-> ev, topic |-> t, ref |-> IF hasRef THEN sent + 1 ELSE 0])
    /\ UNCHANGED <<feedVars, published, pubsubUp, wsOpen, reader, mailbox, procVars, taskVars, out>>

(* The socket closes: the transport drops its sender.                      *)
ClientClose ==
    /\ wsOpen
    /\ wsOpen' = FALSE
    /\ UNCHANGED <<feedVars, published, pubsubUp, sent, wsIn, reader, mailbox, procVars, taskVars, out>>

(* A broadcast by anyone, this connection's own channels included.         *)
Publish(t) ==
    /\ pubsubUp
    /\ published < MaxPublish
    /\ published' = published + 1
    /\ PS!Publish(t, published + 1)
    /\ UNCHANGED <<pubsubUp, sent, wsOpen, wsIn, reader, mailbox, procVars, taskVars, out>>

(* PubSub::unsubscribe and PubSub::shutdown called by the application.     *)
UnsubscribeTopic(t) ==
    /\ "cut" \in Failures
    /\ pubsubUp
    /\ PS!Cut({t})
    /\ UNCHANGED <<envVars, wsIn, reader, mailbox, procVars, taskVars, out>>

ShutdownPubSub ==
    /\ "shutdown" \in Failures
    /\ pubsubUp
    /\ pubsubUp' = FALSE
    /\ PS!Cut(Topics)
    /\ UNCHANGED <<published, sent, wsOpen, wsIn, reader, mailbox, procVars, taskVars, out>>

-----------------------------------------------------------------------------
(* The process ends.  Its state is dropped, and with it joined_channels;    *)
(* an instance suspended in started() is dropped with its handler.         *)

ProcessGone(after) ==
    /\ proc' = "dead"
    /\ mailbox' = << >>
    /\ joining' = NoInstance
    /\ joined' = [t \in Topics |-> NoInstance]
    /\ inst' = [k \in Instances |->
                  IF inst[k] = "joining" THEN "lost"
                  ELSE IF inst[k] = "live" THEN after[k] ELSE inst[k]]
    /\ UNCHANGED at

(* GenServer::terminate asks stopping() of every joined channel and calls  *)
(* terminate() on those that do not veto.  Whether the runtime runs it for *)
(* a process that is killed is not decided by this code (external).        *)
Terminate ==
    \/ \E after \in [Instances -> {"terminated", "vetoed"}] : ProcessGone(after)
    \/ ProcessGone([k \in Instances |-> "lost"])

(* A panic in an application callback takes the process down.              *)
HandlerPanics ==
    /\ "panic" \in Failures
    /\ proc = "alive"
    /\ joining # NoInstance \/ mailbox # << >>
    /\ ProcessGone([k \in Instances |-> "lost"])
    /\ UNCHANGED <<feedVars, envVars, wsIn, reader, taskVars, out>>

-----------------------------------------------------------------------------
(* handle_websocket: the loop that casts text messages to the process.     *)

(* Fault: the newest cast is handled first.                                *)
ReadLoopCastAhead ==
    /\ reader = "running"
    /\ wsIn # << >>
    /\ wsIn' = Tail(wsIn)
    /\ IF proc = "alive"
       THEN mailbox' = <<Cast(Head(wsIn))>> \o mailbox /\ UNCHANGED reader
       ELSE reader' = "done" /\ UNCHANGED mailbox
    /\ UNCHANGED <<feedVars, envVars, procVars, taskVars, out>>

(* A cast to a dead process fails and ends the loop; the kill that follows *)
(* has nothing left to kill.                                               *)
ReadLoopCast ==
    /\ reader = "running"
    /\ wsIn # << >>
    /\ wsIn' = Tail(wsIn)
    /\ IF proc = "alive"
       THEN mailbox' = Append(mailbox, Cast(Head(wsIn))) /\ UNCHANGED reader
       ELSE reader' = "done" /\ UNCHANGED mailbox
    /\ UNCHANGED <<feedVars, envVars, procVars, taskVars, out>>

(* Fault: the loop ends without stopping the process.                      *)
ReadLoopEndNoKill ==
    /\ reader = "running"
    /\ wsIn = << >>
    /\ ~wsOpen
    /\ reader' = "done"
    /\ UNCHANGED <<feedVars, envVars, wsIn, mailbox, procVars, taskVars, out>>

(* recv returned None: runtime.kill(pid).                                  *)
ReadLoopEnd ==
    /\ reader = "running"
    /\ wsIn = << >>
    /\ ~wsOpen
    /\ reader' = "done"
    /\ IF proc = "alive" THEN Terminate ELSE UNCHANGED <<mailbox, procVars>>
    /\ UNCHANGED <<feedVars, envVars, wsIn, taskVars, out>>

(* ChannelAddr::send_event from another channel: a cast without a ref.     *)
SendEvent(t) ==
    /\ "send_event" \in Events
    /\ proc = "alive"
    /\ sent < MaxRequests
    /\ sent' = sent + 1
    /\ mailbox' = Append(mailbox, Cast([ev |-> "event", topic |-> t, ref |-> 0]))
    /\ UNCHANGED <<feedVars, published, pubsubUp, wsOpen, wsIn, reader, procVars, taskVars, out>>

-----------------------------------------------------------------------------
(* ChannelConnectionServer::handle_cast.  Messages are handled one at a    *)
(* time; only a join can be suspended with an effect others can observe.   *)

(* Fault: other messages are handled while a join is suspended.            *)
CanHandleDuringJoin == proc = "alive" /\ mailbox # << >>

CanHandle == proc = "alive" /\ joining = NoInstance /\ mailbox # << >>

HandlingCast(ev) ==
    /\ CanHandle
    /\ Head(mailbox).kind = "cast"
    /\ Head(mailbox).req.ev = ev
    /\ mailbox' = Tail(mailbox)

Request == Head(mailbox).req

(* socket.reply, called only if the request carried a ref.                 *)
ReplyIfRef(ev, status) ==
    out' = IF Request.ref = 0 THEN out
           ELSE Append(out, ReplyFrame(Request.topic, ev, status, Request.ref))

(* No channel is registered for the topic: nothing happens, no reply.      *)
JoinUnrouted ==
    /\ HandlingCast("phx_join")
    /\ Request.topic \notin Routed
    /\ UNCHANGED <<feedVars, envVars, wsIn, reader, procVars, taskVars, out>>

JoinRefused ==
    /\ HandlingCast("phx_join")
    /\ Request.topic \in Routed
    /\ ReplyIfRef("phx_join", "error")
    /\ UNCHANGED <<feedVars, envVars, wsIn, reader, procVars, taskVars>>

(* channel.join succeeds: the ok reply goes out, started() is called.      *)
JoinAccepted(k) ==
    /\ HandlingCast("phx_join")
    /\ Request.topic \in Routed
    /\ inst[k] = "unused"
    /\ ReplyIfRef("phx_join", "ok")
    /\ joining' = k
    /\ inst' = [inst EXCEPT ![k] = "joining"]
    /\ at' = [at EXCEPT ![k] = Request.topic]
    /\ \E kinds \in SUBSET Timers :
         timers' = timers \cup [inst : {k}, topic : {Request.topic}, kind : kinds]
    /\ UNCHANGED <<feedVars, envVars, wsIn, reader, proc, joined, forwarder>>

(* Fault: subscribe never returns once the PubSub server is shut down.     *)
JoinCompletedBlocks ==
    LET k == joining
        t == at[k]
    IN  /\ proc = "alive"
        /\ k # NoInstance
        /\ pubsubUp
        /\ PS!Open(k, t)
        /\ forwarder' = [forwarder EXCEPT ![k] = "running"]
        /\ joined' = [joined EXCEPT ![t] = k]
        /\ inst' = [j \in Instances |->
                      IF j = k THEN "live" ELSE IF j = joined[t] THEN "lost" ELSE inst[j]]
        /\ joining' = NoInstance
        /\ UNCHANGED <<envVars, wsIn, reader, mailbox, proc, at, timers, out>>

(* started() returns; subscribe (None once the server is shut down), spawn *)
(* the forwarder, put the socket into joined_channels over whatever is     *)
(* there.                                                                  *)
JoinCompleted ==
    LET k == joining
        t == at[k]
    IN  /\ proc = "alive"
        /\ k # NoInstance
        /\ IF pubsubUp
           THEN PS!Open(k, t) /\ forwarder' = [forwarder EXCEPT ![k] = "running"]
           ELSE UNCHANGED <<feedVars, forwarder>>
        /\ joined' = [joined EXCEPT ![t] = k]
        /\ inst' = [j \in Instances |->
                      IF j = k THEN "live" ELSE IF j = joined[t] THEN "lost" ELSE inst[j]]
        /\ joining' = NoInstance
        /\ UNCHANGED <<envVars, wsIn, reader, mailbox, proc, at, timers, out>>

(* Fault: the socket stays in joined_channels.                             *)
LeaveKeepsSocket ==
    /\ HandlingCast("phx_leave")
    /\ LET k == joined[Request.topic] IN
       IF k = NoInstance
       THEN UNCHANGED <<inst, out>>
       ELSE inst' = [inst EXCEPT ![k] = "terminated"] /\ ReplyIfRef("phx_leave", "ok")
    /\ UNCHANGED <<feedVars, envVars, wsIn, reader, proc, joining, joined, at, taskVars>>

(* handle_leave: the forwarder and the timers of the instance go on.       *)
Leave ==
    /\ HandlingCast("phx_leave")
    /\ LET k == joined[Request.topic] IN
       IF k = NoInstance
       THEN UNCHANGED <<joined, inst, out>>
       ELSE /\ joined' = [joined EXCEPT ![Request.topic] = NoInstance]
            /\ inst' = [inst EXCEPT ![k] = "terminated"]
            /\ ReplyIfRef("phx_leave", "ok")
    /\ UNCHANGED <<feedVars, envVars, wsIn, reader, proc, joining, at, taskVars>>

(* handle_heartbeat answers on topic "phoenix", ref or not.                *)
Heartbeat ==
    /\ HandlingCast("heartbeat")
    /\ out' = Append(out, ReplyFrame(NoTopic, "heartbeat", "ok", Request.ref))
    /\ UNCHANGED <<feedVars, envVars, wsIn, reader, procVars, taskVars>>

(* dispatch_event: handle_in replies, stays silent or fails.               *)
Event ==
    /\ HandlingCast("event")
    /\ \/ joined[Request.topic] # NoInstance
          /\ \E status \in {"ok", "error"} : ReplyIfRef("event", status)
       \/ UNCHANGED out
    /\ UNCHANGED <<feedVars, envVars, wsIn, reader, procVars, taskVars>>

(* handle_info, for a broadcast and for a timer tick: only the topic tells *)
(* which socket it is for.                                                 *)
HandleInfo ==
    /\ CanHandle
    /\ Head(mailbox).kind = "info"
    /\ mailbox' = Tail(mailbox)
    /\ LET i == Head(mailbox) IN
       out' = IF joined[i.topic] = NoInstance THEN out
              ELSE Append(out, PushFrame(i.topic, i.via, i.msg))
    /\ UNCHANGED <<feedVars, envVars, wsIn, reader, procVars, taskVars>>

-----------------------------------------------------------------------------
(* The detached tasks.                                                     *)

(* Fault: a message is dropped when the mailbox is not empty.              *)
ForwardLossy(k) ==
    /\ forwarder[k] = "running"
    /\ PS!Take(k)
    /\ IF proc = "alive"
       THEN /\ mailbox' = IF mailbox = << >> THEN <<Info(topic[k], k, Last(got'[k]))>> ELSE mailbox
            /\ UNCHANGED forwarder
       ELSE /\ forwarder' = [forwarder EXCEPT ![k] = "ending"]
            /\ UNCHANGED mailbox
    /\ UNCHANGED <<envVars, wsIn, reader, procVars, timers, out>>

(* Fault: the failed send to a dead process is ignored.                    *)
ForwardForever(k) ==
    /\ forwarder[k] = "running"
    /\ PS!Take(k)
    /\ mailbox' = IF proc = "alive" THEN Append(mailbox, Info(topic[k], k, Last(got'[k]))) ELSE mailbox
    /\ UNCHANGED <<envVars, wsIn, reader, procVars, taskVars, out>>

(* try_recv gave a message: it is sent to the process, and the loop ends   *)
(* if the process is gone.                                                 *)
Forward(k) ==
    /\ forwarder[k] = "running"
    /\ PS!Take(k)
    /\ IF proc = "alive"
       THEN /\ mailbox' = Append(mailbox, Info(topic[k], k, Last(got'[k])))
            /\ UNCHANGED forwarder
       ELSE /\ forwarder' = [forwarder EXCEPT ![k] = "ending"]
            /\ UNCHANGED mailbox
    /\ UNCHANGED <<envVars, wsIn, reader, procVars, timers, out>>

(* The task ends and drops its receiver.                                   *)
ForwarderEnds(k) ==
    /\ forwarder[k] = "ending"
    /\ PS!Close(k)
    /\ forwarder' = [forwarder EXCEPT ![k] = "done"]
    /\ UNCHANGED <<envVars, wsIn, reader, mailbox, procVars, timers, out>>

(* try_recv gave Disconnected.                                             *)
ForwarderDisconnected(k) ==
    /\ forwarder[k] = "running"
    /\ PS!End(k)
    /\ forwarder' = [forwarder EXCEPT ![k] = "done"]
    /\ UNCHANGED <<envVars, wsIn, reader, mailbox, procVars, timers, out>>

(* Fault: an interval timer ignores the failed send to a dead process.     *)
TimerFiresForever(tm) ==
    /\ tm \in timers
    /\ proc = "alive" => Len(out) + Len(mailbox) < MaxOut
    /\ mailbox' = IF proc = "alive" THEN Append(mailbox, Info(tm.topic, tm.inst, 0)) ELSE mailbox
    /\ timers' = IF tm.kind = "interval" THEN timers ELSE timers \ {tm}
    /\ UNCHANGED <<feedVars, envVars, wsIn, reader, procVars, forwarder, out>>

(* run_later fires once; run_interval goes on until a send fails.          *)
TimerFires(tm) ==
    /\ tm \in timers
    /\ proc = "alive" => Len(out) + Len(mailbox) < MaxOut
    /\ mailbox' = IF proc = "alive" THEN Append(mailbox, Info(tm.topic, tm.inst, 0)) ELSE mailbox
    /\ timers' = IF proc = "alive" /\ tm.kind = "interval" THEN timers ELSE timers \ {tm}
    /\ UNCHANGED <<feedVars, envVars, wsIn, reader, procVars, forwarder, out>>

-----------------------------------------------------------------------------
ReadLoop == ReadLoopCast \/ ReadLoopEnd

HandleMessage ==
    \/ JoinUnrouted \/ JoinRefused \/ (\E k \in Instances : JoinAccepted(k))
    \/ JoinCompleted \/ Leave \/ Heartbeat \/ Event \/ HandleInfo

ForwarderStep(k) == Forward(k) \/ ForwarderEnds(k) \/ ForwarderDisconnected(k)

Next ==
    \/ \E ev \in Events \ {"send_event"}, t \in Topics, hasRef \in Refs : ClientSend(ev, t, hasRef)
    \/ ClientClose
    \/ \E t \in Topics : Publish(t) \/ UnsubscribeTopic(t) \/ SendEvent(t)
    \/ ShutdownPubSub
    \/ HandlerPanics
    \/ ReadLoop
    \/ HandleMessage
    \/ \E k \in Instances : ForwarderStep(k)
    \/ \E tm \in timers : TimerFires(tm)

Spec == Init /\ [][Next]_vars

(* The loop, the process and the forwarders are tasks of one cooperative   *)
(* executor: each of them is polled again and again, and sleeps end.       *)
(* Clients and publishers owe nothing.                                     *)
FairSpec ==
    /\ Spec
    /\ WF_vars(ReadLoop)
    /\ WF_vars(HandleMessage)
    /\ \A k \in Instances : WF_vars(ForwarderStep(k))
    /\ \A tm \in [inst : Instances, topic : Topics, kind : Timers] : WF_vars(TimerFires(tm))

-----------------------------------------------------------------------------
(* The type invariant of the connection, its tasks and its queues.         *)
TypeOK ==
    /\ log \in [Topics -> Seq(Messages)]
    /\ feed \in [Subs -> {"unused", "live", "cut", "ended", "closed"}]
    /\ topic \in [Subs -> Topics \cup {NoTopic}]
    /\ from \in [Subs -> Nat] /\ end \in [Subs -> Nat]
    /\ got \in [Subs -> Seq(Messages)]
    /\ published \in 0..MaxPublish
    /\ pubsubUp \in BOOLEAN
    /\ sent \in 0..MaxRequests
    /\ wsIn \in Seq(Requests)
    /\ wsOpen \in BOOLEAN
    /\ reader \in {"running", "done"}
    /\ proc \in {"alive", "dead"}
    /\ mailbox \in Seq(Mail)
    /\ joining \in Instances \cup {NoInstance}
    /\ joined \in [Topics -> Instances \cup {NoInstance}]
    /\ inst \in [Instances -> InstanceState]
    /\ at \in [Instances -> Topics \cup {NoTopic}]
    /\ forwarder \in [Instances -> {"none", "running", "ending", "done"}]
    /\ timers \subseteq [inst : Instances, topic : Topics, kind : Timers]
    /\ out \in Seq(Frames)

(* Where the broadcasts that came through forwarder k are: sent to the      *)
(* client, or waiting in the mailbox.                                      *)
Pushed(k) == {i \in 1..Len(out) : out[i].kind = "push" /\ out[i].via = k /\ out[i].msg # 0}
Due(k) == {i \in 1..Len(mailbox) : mailbox[i].kind = "info" /\ mailbox[i].via = k /\ mailbox[i].msg # 0}

(* While a topic stays joined, every broadcast its forwarder has taken     *)
(* from PubSub, and no other, is on its way: in the mailbox or pushed to   *)
(* the client, once each and in publication order, which is the order of   *)
(* their numbers (handle_join's forwarder loop, handle_info).              *)
NothingLostWhileJoined ==
    \A t \in Topics : joined[t] # NoInstance =>
        LET k == joined[t] IN
        /\ {out[i].msg : i \in Pushed(k)} \cup {mailbox[i].msg : i \in Due(k)} = Range(got[k])
        /\ \A i, j \in Pushed(k) : i < j => out[i].msg < out[j].msg
        /\ \A i, j \in Due(k) : i < j => mailbox[i].msg < mailbox[j].msg
        /\ \A i \in Pushed(k), j \in Due(k) : out[i].msg < mailbox[j].msg

(* A request is answered at most once and answers come in the order of the *)
(* requests, though a join suspends half way and casts, broadcasts and     *)
(* timer ticks share the mailbox.                                          *)
RepliesInOrder ==
    \A i, j \in 1..Len(out) :
        (/\ i < j /\ out[i].kind = "reply" /\ out[j].kind = "reply"
         /\ out[i].ref # 0 /\ out[j].ref # 0) => out[i].ref < out[j].ref

(* For a client that sends refs: after the answer to phx_leave nothing is  *)
(* pushed on the topic until the ok answer to a later phx_join, whatever   *)
(* the forwarders and timers left behind still put into the mailbox; and   *)
(* nothing is pushed on a topic before its first ok.                       *)
QuietUnlessJoined ==
    \A j \in 1..Len(out) : out[j].kind = "push" =>
        \E i \in 1..(j - 1) :
            /\ out[i].kind = "reply" /\ out[i].topic = out[j].topic
            /\ out[i].ev = "phx_join" /\ out[i].status = "ok"
            /\ \A h \in i..j : ~( /\ out[h].kind = "reply" /\ out[h].ev = "phx_leave"
                                  /\ out[h].topic = out[j].topic )

(* joined_channels and the instances agree: a joined topic has a live      *)
(* instance of its own, made for that topic, and a live instance is the    *)
(* one joined on its topic as long as the process runs, none afterwards.   *)
(* It says nothing of the instances that are no longer live.  One that was *)
(* replaced is dropped without terminate (NoneLostWhileAlive).  One that   *)
(* answers ShouldStop::No has left joined_channels before it is asked, and *)
(* is dropped with the process: "vetoed" ends a channel as "terminated"    *)
(* does, though channel.rs says that it "keeps the channel alive".         *)
JoinedIsLive ==
    /\ \A t \in Topics : joined[t] # NoInstance =>
         inst[joined[t]] = "live" /\ at[joined[t]] = t
    /\ \A k \in Instances : inst[k] = "live" => proc = "alive" /\ joined[at[k]] = k

(* A heartbeat that carries a ref is answered unless the connection ends:  *)
(* neither a suspended join, nor a failed subscribe, nor forwarders and    *)
(* timers that outlive their channel wedge the process.                    *)
HeartbeatAnswered ==
    \A n \in 1..MaxRequests :
        (\E i \in 1..Len(wsIn) : wsIn[i].ev = "heartbeat" /\ wsIn[i].ref = n)
            ~> \/ proc = "dead"
               \/ \E i \in 1..Len(out) : out[i].kind = "reply" /\ out[i].ref = n

(* When the client has gone, the loop ends and the process is stopped.     *)
ClosedIsReaped == ~wsOpen ~> (reader = "done" /\ proc = "dead")

(* A forwarder does not outlive its process for longer than it takes a     *)
(* message to reach it: it ends at the first broadcast after the death, or *)
(* when PubSub cuts the subscription.                                      *)
ForwarderReaped ==
    \A k \in Instances :
        (/\ proc = "dead" /\ forwarder[k] = "running"
         /\ from[k] + Len(got[k]) < Len(log[topic[k]]))
            ~> forwarder[k] = "done"

(* run_interval "continues until the GenServer is stopped": the timers a   *)
(* channel scheduled, interval or not, are gone some time after the end of *)
(* its process.                                                            *)
TimersStop == proc = "dead" ~> timers = {}

-----------------------------------------------------------------------------
(* What the documents say and the code does not do.                        *)

(* docs/channels.md: "Each client's PubSub forwarder task pushes it to     *)
(* their WebSocket": one forwarder per client and topic, one push per      *)
(* broadcast.                                                              *)
PushedOnce ==
    \A i, j \in 1..Len(out) :
        (i < j /\ out[i].kind = "push" /\ out[j].kind = "push" /\ out[i].msg # 0)
            => out[i].msg # out[j].msg

(* docs/channels.md, terminate: "Called on leave or disconnect. Cleanup    *)
(* resources here."  While the process runs no accepted channel goes away  *)
(* without it; a second phx_join puts its socket over the first.           *)
NoneLostWhileAlive ==
    \A k \in Instances : inst[k] = "lost" => proc = "dead"
=============================================================================
