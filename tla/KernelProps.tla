----------------------------- MODULE KernelProps ----------------------------
(***************************************************************************)
(* What the kernel must guarantee.                                         *)
(***************************************************************************)
EXTENDS Kernel

CONSTANT delta   \* in Scheduler: a pending delta notification

ASSUME DeltaAssumption == delta \notin Nat \cup {None}

Notification == [type: {"none", "delta", "timed"}, index: Int, time: Nat \cup {None}]

\* Every variable holds a value of its type.
TypeOK ==
  /\ phase \in {"stopped", "methods", "threads", "update", "timed"}
  /\ now \in 0..until_t /\ until_t \in 0..MaxTime
  /\ current \in Process \cup {None} /\ left \in 0..Budget
  /\ queue \in [methods_pop: Seq(Method), methods_push: Seq(Method),
                threads_pop: Seq(Thread), threads_push: Seq(Thread)]
  /\ waiting \in [Event -> Seq(Thread)]
  /\ event \in [Event -> Notification]
  /\ delta_events \in Seq(Event)
  /\ \A r \in timed_events : r.event \in Event \cup {None} /\ r.time \in Nat
  /\ cur_val \in BOOLEAN /\ new_val \in BOOLEAN

\* A process is in one place at a time - it runs, is queued once, or waits for one
\* event ("Can't queue twice" in sc_runnable::push_back_thread, an assertion that
\* is commented out) - so that no wake-up is lost or doubled.
Times(p, s) == Cardinality({i \in DOMAIN s : s[i] = p})
Waits(p) == UNION {{<<e, i>> : i \in {j \in DOMAIN waiting[e] : waiting[e][j] = p}} : e \in Event}
Places(p) ==
  Times(p, queue.methods_pop) + Times(p, queue.methods_push)
  + Times(p, queue.threads_pop) + Times(p, queue.threads_push)
  + Cardinality(Waits(p)) + IF current = p THEN 1 ELSE 0
OnePlace == \A p \in Process : IF p \in Thread THEN Places(p) = 1 ELSE Places(p) <= 1

\* The pending notification of an event is where the event says it is, and nowhere
\* else: in m_delta_events at m_delta_event_index ("assert" in remove_delta_event),
\* or in m_timed_events at its time, which is still to come.
NotificationInPlace ==
  \A e \in Event :
    /\ {i \in DOMAIN delta_events : delta_events[i] = e} =
         IF event[e].type = "delta" THEN {event[e].index} ELSE {}
    /\ {r.time : r \in {x \in timed_events : x.event = e}} =
         IF event[e].type = "timed" THEN {event[e].time} ELSE {}
    /\ event[e].type = "timed" => event[e].time > now

\* Whoever is made runnable runs, in spite of processes that keep notifying each
\* other without any time passing.
EveryoneRuns == \A p \in Process : p \in Queued(queue) ~> (current = p \/ phase = "stopped")

\* Together the queues, the lists and the phases are a scheduler.
Pending(notifications) ==
  [e \in Event |-> CASE notifications[e].type = "none"  -> None
                     [] notifications[e].type = "delta" -> delta
                     [] notifications[e].type = "timed" -> notifications[e].time]

Sleeping(lists) ==
  [t \in Thread |-> IF \E e \in Event : t \in ToSet(lists[e])
                    THEN CHOOSE e \in Event : t \in ToSet(lists[e]) ELSE None]

Abstract == INSTANCE Scheduler WITH
  pending <- Pending(event),
  runnable <- Queued(queue),
  running <- current,
  sleeping <- Sleeping(waiting),
  value <- cur_val, new <- new_val

\* The kernel keeps the scheduler's promises, in whatever slices it is run.
ImplementsScheduler == Abstract!Spec
=============================================================================
