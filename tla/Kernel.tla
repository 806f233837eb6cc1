-------------------------------- MODULE Kernel ------------------------------
(***************************************************************************)
(* The SystemC kernel the simulator is linked with, as far as the          *)
(* simulator uses it: sc_start in slices (sc_simcontext::simulate and      *)
(* crunch), the queues of runnable processes (sc_runnable), sc_event with  *)
(* its three kinds of notification, wait(event) and wait(time) of threads, *)
(* static sensitivity of methods, and the update of a signal               *)
(* (packages/systemc/src/sysc).                                            *)
(*                                                                         *)
(* A process that runs does any operations, then waits.                    *)
(***************************************************************************)
EXTENDS Integers, SequencesExt

CONSTANTS
  Thread, Method, None,
  UserEvent,        \* events notified by the processes
  change,           \* value_changed_event of the signal
  timeout,          \* per thread: m_timeout_event_p
  Sensitive,        \* per method: the events of its static sensitivity
  Delay,            \* delays asked for; 0 is SC_ZERO_TIME
  Slices,           \* durations of the calls of sc_start
  MaxTime, Budget   \* bounds: of the simulated time, of the operations of one run

Event == UserEvent \cup {change} \cup {timeout[t] : t \in Thread}
Process == Thread \cup Method

ASSUME KernelAssumption ==
  /\ IsFiniteSet(Process) /\ IsFiniteSet(Event)
  /\ Thread \cap Method = {} /\ None \notin Process \cup Event \cup Nat
  /\ change \notin UserEvent
  /\ \A t \in Thread : timeout[t] \notin UserEvent \cup {change}
  /\ \A t, u \in Thread : timeout[t] = timeout[u] => t = u
  /\ Delay \subseteq Nat /\ Slices \subseteq Nat \ {0}
  /\ MaxTime \in Nat /\ Budget \in Nat
  /\ \A m \in Method : Sensitive[m] \subseteq Event

VARIABLES
  phase,         \* of simulate and crunch: stopped, methods, threads, update, timed
  now, until_t,  \* m_curr_time, and where this sc_start ends
  current,       \* the running process, or None
  left,          \* operations the running process may still do
  queue,         \* sc_runnable: methods_pop, methods_push, threads_pop, threads_push
  waiting,       \* per event: m_threads_dynamic
  event,         \* per event: m_notify_type, m_delta_event_index, m_timed
  delta_events,  \* m_delta_events
  timed_events,  \* m_timed_events: [event, time]; event None once it is cancelled
  cur_val, new_val   \* of the signal

timeVars   == <<phase, now, until_t>>
runVars    == <<current, left>>
eventVars  == <<event, delta_events, timed_events>>
signalVars == <<cur_val, new_val>>
vars == <<timeVars, runVars, queue, waiting, eventVars, signalVars>>

None0 == [type |-> "none", index |-> -1, time |-> None]

-----------------------------------------------------------------------------
(* sc_runnable *)

Queued(q) == ToSet(q.methods_pop) \cup ToSet(q.methods_push)
             \cup ToSet(q.threads_pop) \cup ToSet(q.threads_push)

toggle_methods(q) ==
  IF q.methods_pop # <<>> THEN q
  ELSE [q EXCEPT !.methods_pop = q.methods_push, !.methods_push = <<>>]

toggle_threads(q) ==
  IF q.threads_pop # <<>> THEN q
  ELSE [q EXCEPT !.threads_pop = q.threads_push, !.threads_push = <<>>]

-----------------------------------------------------------------------------
(* sc_event::trigger for each of a sequence of events: queue the methods       *)
(* sensitive to it, then the threads that wait for it.  A thread waits for one *)
(* event at a time; running is the process that notifies, or None.             *)

\* The list is compacted while it is walked through: its first thread is replaced
\* by the last one.
Walk(list) == IF list = <<>> THEN list ELSE <<Head(list)>> \o Reverse(Tail(list))

Woken(events) ==
  LET upTo[k \in 0..Len(events)] ==
        IF k = 0 THEN <<>> ELSE upTo[k - 1] \o Walk(waiting[events[k]])
  IN upTo[Len(events)]

\* Mutant: a method that is queued already is queued again.
TriggerAgain(events, running) ==
  LET methods == {m \in Method \ {running} : Sensitive[m] \cap ToSet(events) # {}}
  IN [queue EXCEPT !.methods_push = @ \o SetToSeq(methods), !.threads_push = @ \o Woken(events)]

Trigger(events, running) ==
  LET methods == {m \in Method \ ({running} \cup Queued(queue)) :
                    Sensitive[m] \cap ToSet(events) # {}}
  IN [queue EXCEPT !.methods_push = @ \o SetToSeq(methods), !.threads_push = @ \o Woken(events)]

NoLongerWaiting(events) ==
  waiting' = [e \in Event |-> IF e \in ToSet(events) THEN <<>> ELSE waiting[e]]

-----------------------------------------------------------------------------
(* sc_event: the pending notification.  ev stands for the event variables.     *)

Events == [event |-> event, delta |-> delta_events, timed |-> timed_events]

\* sc_simcontext::remove_delta_event: the last entry takes the place of e.
remove_delta_event(ev, e) ==
  LET i == ev.event[e].index
      last == Last(ev.delta)
      moved == IF last = e THEN ev.delta ELSE [ev.delta EXCEPT ![i] = last]
  IN [ev EXCEPT !.delta = Front(moved), !.event[last].index = i, !.event[e] = None0]

\* The entry stays in the queue without its event.
remove_timed(ev, e) ==
  LET t == ev.event[e].time
  IN [ev EXCEPT !.timed = (@ \ {[event |-> e, time |-> t]}) \cup {[event |-> None, time |-> t]},
                !.event[e] = None0]

\* Mutant: the moved entry keeps its old index.
cancelMisplaced(ev, e) ==
  CASE ev.event[e].type = "delta" ->
         LET i == ev.event[e].index
             last == Last(ev.delta)
             moved == IF last = e THEN ev.delta ELSE [ev.delta EXCEPT ![i] = last]
         IN [ev EXCEPT !.delta = Front(moved), !.event[e] = None0]
    [] ev.event[e].type = "timed" -> remove_timed(ev, e)
    [] OTHER -> ev

cancel(ev, e) ==
  CASE ev.event[e].type = "delta" -> remove_delta_event(ev, e)
    [] ev.event[e].type = "timed" -> remove_timed(ev, e)
    [] OTHER -> ev

add_delta_event(ev, e) ==
  [ev EXCEPT !.delta = Append(@, e),
             !.event[e] = [type |-> "delta", index |-> Len(ev.delta) + 1, time |-> None]]

add_timed_event(ev, e, t) ==
  [ev EXCEPT !.timed = @ \cup {[event |-> e, time |-> t]},
             !.event[e] = [type |-> "timed", index |-> -1, time |-> t]]

\* notify_internal, for the timeout event of a thread.
notify_internal(ev, e, d) ==
  IF d = 0 THEN add_delta_event(ev, e) ELSE add_timed_event(ev, e, now + d)

\* Mutant: the newest notification counts.
NotifiedLater(ev, e, d) ==
  IF ev.event[e].type = "delta" THEN ev
  ELSE notify_internal(cancel(ev, e), e, d)

\* notify(d): the earliest notification counts.
Notified(ev, e, d) ==
  IF ev.event[e].type = "delta" THEN ev
  ELSE IF d # 0 /\ ev.event[e].type = "timed" /\ ev.event[e].time <= now + d THEN ev
  ELSE notify_internal(cancel(ev, e), e, d)

SetEvents(ev) ==
  /\ event' = ev.event
  /\ delta_events' = ev.delta
  /\ timed_events' = ev.timed

-----------------------------------------------------------------------------
(* Processes *)

Runs(p) == current = p /\ UNCHANGED timeVars
Operates == current # None /\ left > 0 /\ left' = left - 1 /\ UNCHANGED <<timeVars, current>>

\* notify(): cancel what is pending, and trigger.
NotifyImmediately(e) ==
  /\ Operates
  /\ SetEvents(cancel(Events, e))
  /\ queue' = Trigger(<<e>>, current)
  /\ NoLongerWaiting(<<e>>)
  /\ UNCHANGED signalVars

NotifyAfter(e, d) ==
  /\ Operates
  /\ SetEvents(Notified(Events, e, d))
  /\ UNCHANGED <<queue, waiting, signalVars>>

\* sc_signal::write; request_update is left out, for the update of a signal that
\* has not been written does nothing.
Write(v) ==
  /\ Operates
  /\ new_val' = v
  /\ UNCHANGED <<queue, waiting, eventVars, cur_val>>

\* A thread waits for an event, or for some time; a method returns.
Suspend == current' = None /\ left' = 0 /\ UNCHANGED <<queue, signalVars>>

WaitForEvent(t, e) ==
  /\ Runs(t) /\ Suspend
  /\ waiting' = [waiting EXCEPT ![e] = Append(@, t)]
  /\ UNCHANGED eventVars

WaitForTime(t, d) ==
  /\ Runs(t) /\ Suspend
  /\ SetEvents(notify_internal(Events, timeout[t], d))
  /\ waiting' = [waiting EXCEPT ![timeout[t]] = Append(@, t)]

Return(m) ==
  /\ Runs(m) /\ Suspend
  /\ UNCHANGED <<waiting, eventVars>>

-----------------------------------------------------------------------------
(* crunch: all methods that were queued when the round began, then all threads *)
(* (sc_simcontext::next_cor), until nothing is queued.                         *)

Crunches(where) == phase = where /\ current = None

\* Mutant: pop_method leaves the method where it is.
RunMethodPeek ==
  /\ Crunches("methods") /\ queue.methods_pop # <<>>
  /\ current' = Head(queue.methods_pop) /\ left' = Budget
  /\ UNCHANGED <<timeVars, queue, waiting, eventVars, signalVars>>

RunMethod ==
  /\ Crunches("methods") /\ queue.methods_pop # <<>>
  /\ current' = Head(queue.methods_pop) /\ left' = Budget
  /\ queue' = [queue EXCEPT !.methods_pop = Tail(@)]
  /\ UNCHANGED <<timeVars, waiting, eventVars, signalVars>>

MethodsDone ==
  /\ Crunches("methods") /\ queue.methods_pop = <<>>
  /\ phase' = "threads"
  /\ queue' = toggle_threads(queue)
  /\ UNCHANGED <<now, until_t, runVars, waiting, eventVars, signalVars>>

RunThread ==
  /\ Crunches("threads") /\ queue.threads_pop # <<>>
  /\ current' = Head(queue.threads_pop) /\ left' = Budget
  /\ queue' = [queue EXCEPT !.threads_pop = Tail(@)]
  /\ UNCHANGED <<timeVars, waiting, eventVars, signalVars>>

ThreadsDone ==
  /\ Crunches("threads") /\ queue.threads_pop = <<>>
  /\ phase' = IF Queued(queue) = {} THEN "update" ELSE "methods"
  /\ queue' = toggle_methods(queue)
  /\ UNCHANGED <<now, until_t, runVars, waiting, eventVars, signalVars>>

\* The update phase, whose change is notified for this delta cycle, and the
\* notification phase, which triggers the delta events from the last to the first.
UpdateAndNotify ==
  /\ Crunches("update")
  /\ cur_val' = new_val
  /\ LET ev == IF new_val # cur_val THEN add_delta_event(Events, change) ELSE Events
         events == Reverse(ev.delta)
         q == Trigger(events, None)
     IN /\ event' = [e \in Event |-> IF event[e].type = "timed" THEN event[e] ELSE None0]
        /\ phase' = IF Queued(q) = {} THEN "timed" ELSE "methods"
        /\ queue' = toggle_methods(q)
        /\ NoLongerWaiting(events)
  /\ delta_events' = <<>>
  /\ UNCHANGED <<now, until_t, runVars, timed_events, new_val>>

-----------------------------------------------------------------------------
(* simulate, and the time step at the end of sc_start *)

Live == {r \in timed_events : r.event # None}
NextTime == IF Live = {} THEN until_t + 1 ELSE Min({r.time : r \in Live})

\* The earliest notifications; those of one time in any order.
TimeStep ==
  /\ Crunches("timed") /\ NextTime <= until_t
  /\ now' = NextTime
  /\ LET due == {r.event : r \in {x \in Live : x.time = NextTime}} IN
     /\ \E order \in SetToSeqs(due) :
          LET q == Trigger(order, None) IN
          /\ phase' = IF Queued(q) = {} THEN "timed"
                      ELSE IF NextTime < until_t THEN "methods" ELSE "stopped"
          /\ queue' = IF phase' = "methods" THEN toggle_methods(q) ELSE q
          /\ NoLongerWaiting(order)
     /\ event' = [e \in Event |-> IF e \in due THEN None0 ELSE event[e]]
  /\ timed_events' = {r \in timed_events : r.time > NextTime}
  /\ UNCHANGED <<until_t, runVars, delta_events, signalVars>>

\* Mutant: a slice of sc_start takes the events after it along.
ExitTimeLate ==
  /\ Crunches("timed") /\ NextTime > until_t
  /\ now' = NextTime /\ phase' = "stopped"
  /\ UNCHANGED <<until_t, runVars, queue, waiting, eventVars, signalVars>>

ExitTime ==
  /\ Crunches("timed") /\ NextTime > until_t
  /\ now' = until_t /\ phase' = "stopped"
  /\ timed_events' = {r \in timed_events : r.event # None \/ r.time > NextTime}
  /\ UNCHANGED <<until_t, runVars, queue, waiting, event, delta_events, signalVars>>

Start(duration) ==
  /\ phase = "stopped"
  /\ now + duration <= MaxTime
  /\ until_t' = now + duration
  /\ phase' = "methods"
  /\ queue' = toggle_methods(queue)
  /\ UNCHANGED <<now, runVars, waiting, eventVars, signalVars>>

-----------------------------------------------------------------------------
\* sc_simcontext::initialize: every process is made runnable.
Init ==
  /\ phase = "stopped" /\ now = 0 /\ until_t = 0
  /\ current = None /\ left = 0
  /\ queue = [methods_pop |-> <<>>, methods_push |-> SetToSeq(Method),
              threads_pop |-> <<>>, threads_push |-> SetToSeq(Thread)]
  /\ waiting = [e \in Event |-> <<>>]
  /\ event = [e \in Event |-> None0]
  /\ delta_events = <<>> /\ timed_events = {}
  /\ cur_val = FALSE /\ new_val = FALSE

ProcessNext ==
  \/ \E e \in UserEvent :
       \/ NotifyImmediately(e)
       \/ \E d \in Delay : NotifyAfter(e, d)
       \/ \E t \in Thread : WaitForEvent(t, e)
  \/ \E v \in BOOLEAN : Write(v)
  \/ \E t \in Thread : \E d \in Delay : WaitForTime(t, d)
  \/ \E m \in Method : Return(m)

KernelNext ==
  \/ RunMethod \/ MethodsDone \/ RunThread \/ ThreadsDone
  \/ UpdateAndNotify \/ TimeStep \/ ExitTime
  \/ \E duration \in Slices : Start(duration)

Next == ProcessNext \/ KernelNext

Spec == Init /\ [][Next]_vars

\* The simulator goes on, and no process runs for ever.
FairSpec == Spec /\ WF_vars(Next)
=============================================================================
