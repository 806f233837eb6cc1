------------------------------- MODULE Clocked ------------------------------
(***************************************************************************)
(* The clocked primitives with their events: ClockDomain, which remembers  *)
(* what is to be notified at the next edge, an FSM with the thread and the *)
(* PulsePort of its execution unit, a register (RegNext, RegEnable or      *)
(* RegPipe), and the CommitQueue (utils/, core/xbar/ArrayGroup.cpp).       *)
(*                                                                         *)
(* ClockDomain keeps the events in a set ordered by address and notifies   *)
(* them in that order: an FSM's trigger before its finish_exec, and both   *)
(* before the reset_event of the PulsePort, as the classes declare them.   *)
(* What is left to the delta cycles of the edge is part of the edge.       *)
(***************************************************************************)
EXTENDS Sequences

CONSTANTS
  Value, Empty,  \* payloads, and the invalid one
  Kind           \* the class of the register

VARIABLES
  pos_edge_events,      \* ClockDomain
  input, unit,          \* of the unit: the signal it reads, and the rest
  reg_in, enable,       \* signals the register reads,
  reg_value, reg_out,   \* its member value, and its output
  queue, queue_out      \* CommitQueue

unitVars == <<input, unit>>
regVars == <<reg_in, enable, reg_value, reg_out>>
queueVars == <<queue, queue_out>>
vars == <<pos_edge_events, unitVars, regVars, queueVars>>

Notify(events) == pos_edge_events' = pos_edge_events \cup events
Due(e) == e \in pos_edge_events

-----------------------------------------------------------------------------
(* The methods of FSM and PulsePort, as functions of the unit *)

\* FSM::process; start_exec is lost on a thread that does not wait for it.
process(u) ==
  IF u.is_ready /\ input # Empty
  THEN [u EXCEPT !.value = input, !.is_ready = FALSE,
                 !.thread = IF @ = "waiting" THEN "executing" ELSE @]
  ELSE u

\* FSM::_finishExec and the callback, PulsePort::write.
finishExec(u) ==
  [u EXCEPT !.is_ready = TRUE, !.value_to_write = u.finish_value, !.write_new_value = TRUE]

\* PulsePort::me_writeValue.
me_writeValue(u) ==
  [u EXCEPT !.out_port = IF u.write_new_value THEN u.value_to_write ELSE Empty,
            !.write_new_value = FALSE]

\* At an edge; write_event follows finish_exec one delta cycle later.
UnitAtEdge ==
  LET started == IF Due("trigger") THEN process(unit) ELSE unit
      finished == IF Due("finish_exec") THEN finishExec(started) ELSE started
      reset == IF Due("reset_event") THEN me_writeValue(finished) ELSE finished
  IN IF Due("finish_exec") THEN me_writeValue(reset) ELSE reset

-----------------------------------------------------------------------------
(* Between two edges *)

\* FSM::processInput.
InputChanges(v) ==
  /\ v # input /\ input' = v
  /\ Notify(IF v # Empty THEN {"trigger"} ELSE {})
  /\ UNCHANGED <<unit, regVars, queueVars>>

\* The thread has executed its instruction: FSM::finishExec, and back to wait.
ThreadFinishes ==
  /\ unit.thread = "executing"
  /\ unit' = [unit EXCEPT !.thread = "waiting", !.finish_value = unit.value]
  /\ Notify({"finish_exec"})
  /\ UNCHANGED <<input, regVars, queueVars>>

\* processInput of the three registers.
RegisterInputChanges(v) ==
  /\ v # reg_in /\ reg_in' = v
  /\ Notify(IF Kind = "RegPipe" \/ reg_value # v THEN {"update"} ELSE {})
  /\ UNCHANGED <<enable, reg_value, reg_out, unitVars, queueVars>>

\* RegEnable::processEnable, RegPipe::me_processOutReady.
EnableChanges ==
  /\ Kind # "RegNext"
  /\ enable' = ~enable
  /\ Notify(IF enable' THEN {"update"} ELSE {})
  /\ UNCHANGED <<reg_in, reg_value, reg_out, unitVars, queueVars>>

\* CommitQueue::commit, by any array group.
QueueCommit(v) ==
  /\ queue' = Append(queue, v)
  /\ Notify({"commit"})
  /\ UNCHANGED <<queue_out, unitVars, regVars>>

-----------------------------------------------------------------------------
(* An edge: ClockDomain::process clears the set, notifies what was in it, and *)
(* the methods run.                                                           *)

ClockEdge ==
  LET updates == Due("update") /\ enable
      pops == Due("commit") /\ queue # <<>>
  IN /\ unit' = UnitAtEdge
     /\ reg_value' = IF updates THEN reg_in ELSE reg_value
     /\ reg_out' = IF updates THEN reg_in ELSE reg_out
     /\ queue' = IF pops THEN Tail(queue) ELSE queue
     /\ queue_out' = IF pops THEN Head(queue) ELSE IF Due("commit") THEN Empty ELSE queue_out
     /\ pos_edge_events' = (IF Due("finish_exec") THEN {"trigger", "reset_event"} ELSE {})
                           \cup (IF pops THEN {"commit"} ELSE {})
     /\ UNCHANGED <<input, reg_in, enable>>

\* The initialization phase runs every method once: _finishExec asks for trigger,
\* and the registers compare their input with a value that is not initialised.
Init ==
  /\ input = Empty
  /\ unit = [is_ready |-> TRUE, value |-> Empty, thread |-> "waiting", finish_value |-> Empty,
             write_new_value |-> FALSE, value_to_write |-> Empty, out_port |-> Empty]
  /\ reg_in = Empty /\ reg_out = Empty /\ reg_value \in Value \cup {Empty}
  /\ enable = (Kind = "RegNext")
  /\ queue = <<>> /\ queue_out = Empty
  /\ pos_edge_events =
       {"trigger"} \cup IF Kind = "RegPipe" \/ reg_value # Empty THEN {"update"} ELSE {}

Next ==
  \/ \E v \in Value \cup {Empty} : InputChanges(v) \/ RegisterInputChanges(v)
  \/ \E v \in Value : QueueCommit(v)
  \/ ThreadFinishes \/ EnableChanges \/ ClockEdge

Spec == Init /\ [][Next]_vars

-----------------------------------------------------------------------------
(* Properties *)

\* start_exec is notified at an edge only: a unit that is ready waits for it, and an
\* instruction that is at its input has asked for the next edge.
StartIsHeard ==
  unit.is_ready => unit.thread = "waiting" /\ (input # Empty => Due("trigger"))

\* No commit is replaced by the default value: when a unit finishes, the pulse of the
\* instruction before is over.
PulseIsKept == Due("finish_exec") => unit.out_port = Empty

\* The clocked primitives implement UnitCycle.

FsmState ==
  IF unit.is_ready THEN "ready" ELSE IF unit.thread = "executing" THEN "busy" ELSE "finishing"

Promise == INSTANCE UnitCycle WITH
  fsm <- [state |-> FsmState, value |-> unit.value], out <- unit.out_port
=============================================================================
