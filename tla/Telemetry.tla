------------------------------ MODULE Telemetry ------------------------------
(* One thread's Telemetry: handlers called inline, in the order in which    *)
(* they were attached, while the shared borrow of their list is held. A     *)
(* handler may execute an event itself (a second shared borrow); one that   *)
(* attaches a handler panics in borrow_mut and takes its task with it.      *)
(* Tasks of the thread give up control only in the body of a span.          *)
EXTENDS Naturals, Subsequences, SequencesExt

CONSTANTS
    Tasks,
    EventNames,         \* names given to execute and span: sequences
    AttachPrefixes,     \* prefixes given to attach
    MaxHandlers,        \* bound: handlers attached
    MaxEvents,          \* bound: events executed
    MaxDepth            \* bound: nested calls of execute

VARIABLES
    handlers,           \* Vec<HandlerEntry>: the prefixes, in order
    stack,              \* the calls of execute under way: [event, next, busy]
    task,               \* per task: [pc, name]
    running,            \* the task whose call is on the stack
    events,             \* history: [name, attached, ended] of every event
    deliveries          \* history: <<event, handler>>, in order

telemetryVars == <<handlers, stack, task, running, events, deliveries>>

(* make_telemetry attaches one handler for the framework and one for the    *)
(* application.                                                             *)
TelemetryInit ==
    /\ handlers = <<<<"mahalo">>, <<"ice_cream">>>>
    /\ stack = <<>> /\ events = <<>> /\ deliveries = <<>>
    /\ task = [t \in Tasks |-> [pc |-> "idle", name |-> <<>>]]
    /\ running \in Tasks

EventMatches(name, prefix) == IsPrefix(prefix, name)

Execute(name) ==
    /\ Len(events) < MaxEvents
    /\ events' = Append(events, [name |-> name, attached |-> handlers, ended |-> FALSE])
    /\ stack' = Append(stack, [event |-> Len(events) + 1, next |-> 1, busy |-> FALSE])
    /\ UNCHANGED <<handlers, deliveries>>

(* A task that calls execute or enters, or leaves, the body of a span.      *)
Calls(t, from, to, name) ==
    /\ stack = <<>> /\ task[t].pc = from
    /\ running' = t
    /\ task' = [task EXCEPT ![t].pc = to]
    /\ Execute(name)

ExecuteEvent(t) == \E n \in EventNames : Calls(t, "idle", "executing", n)

SpanStart(t) ==
    \E n \in EventNames :
        /\ stack = <<>> /\ task[t].pc = "idle" /\ running' = t
        /\ task' = [task EXCEPT ![t] = [pc |-> "starting", name |-> n]]
        /\ Execute(Append(n, "start"))

SpanStop(t) == Calls(t, "body", "stopping", Append(task[t].name, "stop"))

(* The closure panics, or the future of the span is dropped: no stop.       *)
SpanAbandoned(t) ==
    /\ stack = <<>> /\ task[t].pc = "body"
    /\ task' = [task EXCEPT ![t].pc = "gone"]
    /\ UNCHANGED <<handlers, stack, running, events, deliveries>>

Attach ==
    /\ stack = <<>> /\ Len(handlers) < MaxHandlers
    /\ \E p \in AttachPrefixes : handlers' = Append(handlers, p)
    /\ UNCHANGED <<stack, task, running, events, deliveries>>

-----------------------------------------------------------------------------
(* The loop of execute. The list it iterates is the live one.               *)

Top == Last(stack)

Matching(from) == {i \in from..Len(handlers) : EventMatches(events[Top.event].name, handlers[i])}

CallHandler ==
    /\ stack # <<>> /\ ~Top.busy /\ Matching(Top.next) # {}
    /\ LET i == CHOOSE i \in Matching(Top.next) : \A j \in Matching(Top.next) : i <= j
       IN  /\ deliveries' = Append(deliveries, <<Top.event, i>>)
           /\ stack' = [stack EXCEPT ![Len(stack)] = [@ EXCEPT !.next = i + 1, !.busy = TRUE]]
    /\ UNCHANGED <<handlers, task, running, events>>

HandlerReturns ==
    /\ stack # <<>> /\ Top.busy
    /\ stack' = [stack EXCEPT ![Len(stack)].busy = FALSE]
    /\ UNCHANGED <<handlers, task, running, events, deliveries>>

HandlerExecutes ==
    /\ stack # <<>> /\ Top.busy /\ Len(stack) < MaxDepth
    /\ \E n \in EventNames : Execute(n)
    /\ UNCHANGED <<task, running>>

(* Fault: the list is no longer borrowed while the handlers run, so that a  *)
(* handler may push to it.                                                  *)
HandlerAttachesLive ==
    /\ stack # <<>> /\ Top.busy /\ Len(handlers) < MaxHandlers
    /\ \E p \in AttachPrefixes : handlers' = Append(handlers, p)
    /\ UNCHANGED <<stack, task, running, events, deliveries>>

HandlerAttaches ==
    /\ stack # <<>> /\ Top.busy
    /\ stack' = <<>>
    /\ task' = [task EXCEPT ![running].pc = "gone"]
    /\ UNCHANGED <<handlers, running, events, deliveries>>

ExecuteReturns ==
    /\ stack # <<>> /\ ~Top.busy /\ Matching(Top.next) = {}
    /\ events' = [events EXCEPT ![Top.event].ended = TRUE]
    /\ stack' = Front(stack)
    /\ task' = IF Len(stack) > 1 THEN task
               ELSE [task EXCEPT ![running].pc = IF @ = "starting" THEN "body" ELSE "idle"]
    /\ UNCHANGED <<handlers, running, deliveries>>

TelemetryNext ==
    \/ \E t \in Tasks : ExecuteEvent(t) \/ SpanStart(t) \/ SpanStop(t) \/ SpanAbandoned(t)
    \/ Attach \/ CallHandler \/ HandlerReturns \/ HandlerExecutes \/ HandlerAttaches
    \/ ExecuteReturns

-----------------------------------------------------------------------------
(* The handlers an event has reached, in the order in which they ran, and   *)
(* the ones that it is to reach.                                            *)
Got(e) ==
    LET reached == Kept(deliveries, {k \in DOMAIN deliveries : deliveries[k][1] = e})
    IN  [k \in DOMAIN reached |-> reached[k][2]]

Due(e) ==
    LET attached == events[e].attached
    IN  Kept([i \in DOMAIN attached |-> i],
             {i \in DOMAIN attached : EventMatches(events[e].name, attached[i])})

(* Over nested calls, spans of other tasks that are open meanwhile, and     *)
(* handlers that panic: the handlers an event has reached are, in the order *)
(* of attachment, the first ones - and once execute has returned all - of   *)
(* those that matched when it was called; none sees it twice, and none      *)
(* attached later sees it.                                                  *)
DeliveredOnceInOrder ==
    \A e \in DOMAIN events :
        /\ IsPrefix(Got(e), Due(e))
        /\ events[e].ended => Got(e) = Due(e)
=============================================================================
