------------------------------ MODULE Scheduler -----------------------------
(***************************************************************************)
(* What the SystemC scheduler promises the processes of the simulator.     *)
(* One process runs at a time, until it waits.  An event has one pending   *)
(* notification at most, the earliest of those asked for.  A thread is     *)
(* made runnable by the event it waits for and by nothing else, a method   *)
(* by every event it is sensitive to; what is runnable already, or is the  *)
(* running method, is not made runnable again.  When nothing is runnable,  *)
(* signals take their new values and all delta notifications are           *)
(* delivered together; when there are none left, time goes on, and never   *)
(* past a pending notification.                                            *)
(***************************************************************************)
EXTENDS Integers

CONSTANTS
  Thread, Method, Event,
  None, delta, \* no notification, and one for the next delta cycle
  Sensitive,   \* per method: the events it is sensitive to
  change,      \* the event of the signal
  Delay        \* the delays that processes ask for

VARIABLES
  now,
  pending,    \* per event: None, delta, or the time of its notification
  runnable,   \* the processes to be run
  running,    \* the process that runs, or None
  sleeping,   \* per thread: the event it waits for, or None
  value, new  \* of the signal

vars == <<now, pending, runnable, running, sleeping, value, new>>

Init ==
  /\ now = 0
  /\ pending = [e \in Event |-> None]
  /\ runnable = Thread \cup Method
  /\ running = None
  /\ sleeping = [t \in Thread |-> None]
  /\ value = FALSE /\ new = FALSE

\* The events in E occur.
Occur(E, methods) ==
  /\ runnable' = runnable \cup {m \in methods : Sensitive[m] \cap E # {}}
                          \cup {t \in Thread : sleeping[t] \in E}
  /\ sleeping' = [t \in Thread |-> IF sleeping[t] \in E THEN None ELSE sleeping[t]]

Run(p) ==
  /\ running = None
  /\ p \in runnable
  /\ running' = p
  /\ runnable' = runnable \ {p}
  /\ UNCHANGED <<now, pending, sleeping, value, new>>

NotifyImmediately(e) ==
  /\ running # None
  /\ Occur({e}, Method \ {running})
  /\ pending' = [pending EXCEPT ![e] = None]
  /\ UNCHANGED <<now, running, value, new>>

\* The earlier of a pending notification and one after the time d.
Earlier(old, d) ==
  IF old = delta \/ d = 0 THEN delta
  ELSE IF old # None /\ old <= now + d THEN old ELSE now + d

NotifyAfter(e, d) ==
  /\ running # None
  /\ pending' = [pending EXCEPT ![e] = Earlier(@, d)]
  /\ UNCHANGED <<now, runnable, running, sleeping, value, new>>

Write(v) ==
  /\ running # None
  /\ new' = v
  /\ UNCHANGED <<now, pending, runnable, running, sleeping, value>>

\* The running process waits: for an event, or for the time d with an event of its
\* own; a method just returns.
Wait(e) ==
  /\ running \in Thread
  /\ sleeping' = [sleeping EXCEPT ![running] = e]
  /\ running' = None
  /\ \/ UNCHANGED pending
     \/ \E d \in Delay : /\ pending[e] = None
                       /\ pending' = [pending EXCEPT ![e] = IF d = 0 THEN delta ELSE now + d]
  /\ UNCHANGED <<now, runnable, value, new>>

Return ==
  /\ running \in Method
  /\ running' = None
  /\ UNCHANGED <<now, pending, runnable, sleeping, value, new>>

Deltas == {e \in Event : pending[e] = delta} \cup (IF value # new THEN {change} ELSE {})
Quiet == running = None /\ runnable = {}

DeltaCycle ==
  /\ Quiet
  /\ value' = new
  /\ pending' = [e \in Event |-> IF e \in Deltas THEN None ELSE pending[e]]
  /\ Occur(Deltas, Method)
  /\ UNCHANGED <<now, running, new>>

Timed == {e \in Event : pending[e] \notin {None, delta}}

\* Time goes on, and what has been notified for the new time occurs.
Advance ==
  /\ Quiet /\ Deltas = {}
  /\ now' \in Nat /\ now' > now
  /\ \A e \in Timed : pending[e] >= now'
  /\ LET E == {e \in Timed : pending[e] = now'} IN
     /\ pending' = [e \in Event |-> IF e \in E THEN None ELSE pending[e]]
     /\ Occur(E, Method)
  /\ UNCHANGED <<running, value, new>>

Next ==
  \/ \E p \in Thread \cup Method : Run(p)
  \/ \E e \in Event :
       \/ NotifyImmediately(e)
       \/ \E d \in Delay : NotifyAfter(e, d)
       \/ Wait(e)
  \/ \E v \in BOOLEAN : Write(v)
  \/ Return
  \/ DeltaCycle
  \/ Advance

Spec == Init /\ [][Next]_vars
=============================================================================
