------------------------------ MODULE Presence ------------------------------
(* mahalo-presence: one task, the tracker, owns the entries of every topic  *)
(* and the senders of its diff subscribers, and takes commands from one     *)
(* unbounded queue; Presence handles put them there. A watcher is a client  *)
(* that calls subscribe_diff, then list, and from then on applies the diffs *)
(* it receives to what list returned.                                       *)
EXTENDS Subsequences, SequencesExt

CONSTANTS
    PresenceTopics, Keys, Metas, Watchers,
    MaxCommands,    \* bound: track, untrack and shutdown calls
    MaxPending      \* bound: commands in the queue

VARIABLES
    tracker,        \* [alive, queue, state, subscribers]; state: topic -> Vec<PresenceEntry>
    watcher,        \* per watcher: [topic, pc, inbox, view]
    commands        \* calls so far

presenceVars == <<tracker, watcher, commands>>

PresenceInit ==
    /\ tracker = [alive |-> TRUE, queue |-> <<>>,
                  state |-> [t \in PresenceTopics |-> <<>>],
                  subscribers |-> [t \in PresenceTopics |-> <<>>]]
    /\ watcher \in [Watchers -> [topic : PresenceTopics, pc : {"out"}, inbox : {<<>>}, view : {{}}]]
    /\ commands = 0

-----------------------------------------------------------------------------
(* The handle. A command sent to a tracker that has ended is dropped.       *)

Enqueue(cmd) ==
    /\ Len(tracker.queue) < MaxPending
    /\ tracker' = IF tracker.alive THEN [tracker EXCEPT !.queue = Append(@, cmd)] ELSE tracker

Cast(cmd) ==
    /\ commands < MaxCommands /\ commands' = commands + 1
    /\ Enqueue(cmd)
    /\ UNCHANGED watcher

Track ==
    \E t \in PresenceTopics, k \in Keys, m \in Metas :
        Cast([kind |-> "track", topic |-> t, entry |-> [key |-> k, meta |-> m]])

Untrack == \E t \in PresenceTopics, k \in Keys : Cast([kind |-> "untrack", topic |-> t, key |-> k])

StopTracker == Cast([kind |-> "shutdown"])

(* subscribe_diff and list wait for a reply; a reply that will never come   *)
(* counts as a closed receiver, or as an empty list.                        *)
Ask(w, kind, from, to) ==
    /\ watcher[w].pc = from
    /\ Enqueue([kind |-> kind, topic |-> watcher[w].topic, from |-> w])
    /\ watcher' = [watcher EXCEPT ![w].pc = to]
    /\ UNCHANGED commands

SubscribeDiff(w) == Ask(w, "subscribe", "out", "subscribing")
List(w)          == Ask(w, "list", "subscribed", "listing")

Unanswered(w) ==
    /\ ~tracker.alive /\ watcher[w].pc \in {"subscribing", "listing"}
    /\ watcher' = [watcher EXCEPT ![w].pc = IF @ = "listing" THEN "watching" ELSE "subscribed"]
    /\ UNCHANGED <<tracker, commands>>

ApplyDiff(view, diff) ==
    {e \in view : \A c \in diff.joins \cup diff.leaves : c.key # e.key} \cup diff.joins

WatcherReceives(w) ==
    /\ watcher[w].pc = "watching" /\ watcher[w].inbox # <<>>
    /\ watcher' = [watcher EXCEPT ![w].view = ApplyDiff(@, Head(watcher[w].inbox)),
                                  ![w].inbox = Tail(@)]
    /\ UNCHANGED <<tracker, commands>>

(* The receiver is dropped; its sender stays until the next diff.           *)
WatcherLeaves(w) ==
    /\ watcher[w].pc \in {"subscribed", "watching"}
    /\ watcher' = [watcher EXCEPT ![w] = [@ EXCEPT !.pc = "gone", !.inbox = <<>>]]
    /\ UNCHANGED <<tracker, commands>>

-----------------------------------------------------------------------------
(* The tracker's loop.                                                      *)

Handling(kind) == tracker.alive /\ tracker.queue # <<>> /\ Head(tracker.queue).kind = kind

(* Fault: the first closed receiver ends the round of notifications.        *)
NotifiedUpToClosed(subs) ==
    LET closed == {i \in DOMAIN subs : watcher[subs[i]].pc = "gone"}
    IN  IF closed = {} THEN subs
        ELSE SubSeq(subs, 1, (CHOOSE i \in closed : \A j \in closed : i <= j) - 1)

(* retain: the subscribers whose receiver is still there.                   *)
Notified(subs) == Kept(subs, {i \in DOMAIN subs : watcher[subs[i]].pc # "gone"})

(* The state of the topic becomes entries, and its subscribers get the diff.*)
Changed(topic, entries, diff) ==
    LET kept == Notified(tracker.subscribers[topic])
    IN  /\ tracker' = [tracker EXCEPT !.queue = Tail(@), !.state[topic] = entries,
                                      !.subscribers[topic] = kept]
        /\ watcher' = [w \in Watchers |->
                         IF Contains(kept, w) THEN [watcher[w] EXCEPT !.inbox = Append(@, diff)]
                         ELSE watcher[w]]
        /\ UNCHANGED commands

Upsert(entries, e) ==
    IF \E i \in DOMAIN entries : entries[i].key = e.key
    THEN [i \in DOMAIN entries |-> IF entries[i].key = e.key THEN e ELSE entries[i]]
    ELSE Append(entries, e)

HandleTrack ==
    /\ Handling("track")
    /\ LET cmd == Head(tracker.queue)
       IN  Changed(cmd.topic, Upsert(tracker.state[cmd.topic], cmd.entry),
                   [joins |-> {cmd.entry}, leaves |-> {}])

(* position and remove: the first entry of the key, if there is one.        *)
HandleUntrack ==
    /\ Handling("untrack")
    /\ LET cmd     == Head(tracker.queue)
           entries == tracker.state[cmd.topic]
           i       == SelectInSeq(entries, LAMBDA e : e.key = cmd.key)
       IN  IF i = 0
           THEN tracker' = [tracker EXCEPT !.queue = Tail(@)] /\ UNCHANGED <<watcher, commands>>
           ELSE Changed(cmd.topic, RemoveAt(entries, i), [joins |-> {}, leaves |-> {entries[i]}])

HandleList ==
    /\ Handling("list")
    /\ LET cmd == Head(tracker.queue)
       IN  watcher' = [watcher EXCEPT ![cmd.from] =
                         [@ EXCEPT !.pc = "watching", !.view = ToSet(tracker.state[cmd.topic])]]
    /\ tracker' = [tracker EXCEPT !.queue = Tail(@)]
    /\ UNCHANGED commands

HandleSubscribeDiff ==
    /\ Handling("subscribe")
    /\ LET cmd == Head(tracker.queue)
       IN  /\ tracker' = [tracker EXCEPT !.queue = Tail(@),
                                         !.subscribers[cmd.topic] = Append(@, cmd.from)]
           /\ watcher' = [watcher EXCEPT ![cmd.from].pc = "subscribed"]
    /\ UNCHANGED commands

(* The loop breaks; the commands behind it go with the queue.               *)
HandleStop ==
    /\ Handling("shutdown")
    /\ tracker' = [tracker EXCEPT !.alive = FALSE, !.queue = <<>>]
    /\ UNCHANGED <<watcher, commands>>

PresenceNext ==
    \/ Track \/ Untrack \/ StopTracker
    \/ \E w \in Watchers : \/ SubscribeDiff(w) \/ List(w) \/ Unanswered(w)
                           \/ WatcherReceives(w) \/ WatcherLeaves(w)
    \/ HandleTrack \/ HandleUntrack \/ HandleList \/ HandleSubscribeDiff \/ HandleStop

-----------------------------------------------------------------------------
(* A watcher that subscribes first and lists second is never wrong for good:*)
(* what it lists, with every diff it has been sent applied in order - also  *)
(* the diffs from between the two calls, which the list already contains -  *)
(* is the tracker's state of the topic, one entry per key.                  *)
WatcherConverges ==
    \A w \in Watchers :
        tracker.alive /\ watcher[w].pc = "watching" =>
            FoldLeft(ApplyDiff, watcher[w].view, watcher[w].inbox)
                = ToSet(tracker.state[watcher[w].topic])
=============================================================================
