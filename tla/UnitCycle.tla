------------------------------ MODULE UnitCycle -----------------------------
(***************************************************************************)
(* What a cycle promises to the pipeline: an execution unit with its FSM   *)
(* and its commit port, a register between two stages and the commit queue *)
(* of the array groups, whose state only moves at the edges, as Cycle      *)
(* says, whatever the signals did since the edge before.                   *)
(***************************************************************************)
EXTENDS Cycle

CONSTANTS Value, Empty

VARIABLES
  input, fsm, out,             \* the unit
  reg_in, enable, reg_out,     \* the register
  queue, queue_out             \* the commit queue

signals == <<input, reg_in, enable>>
state == <<fsm, out, reg_out, queue, queue_out>>
vars == <<signals, state>>

Init ==
  /\ input = Empty /\ fsm = [state |-> "ready", value |-> Empty] /\ out = Empty
  /\ reg_in = Empty /\ enable \in BOOLEAN /\ reg_out = Empty
  /\ queue = <<>> /\ queue_out = Empty

\* The signals between two edges.
Settle == UNCHANGED state

\* The thread of the unit has done its work.
Complete ==
  /\ fsm.state = "busy"
  /\ fsm' = [fsm EXCEPT !.state = "finishing"]
  /\ UNCHANGED <<signals, out, reg_out, queue, queue_out>>

Commit == \E v \in Value :
  /\ queue' = Append(queue, v)
  /\ UNCHANGED <<signals, fsm, out, reg_out, queue_out>>

Edge ==
  /\ fsm' = FsmAfter(fsm, input, Empty)
  /\ out' = PulseAfter(fsm, out, Empty)
  /\ reg_out' = Latched(enable, reg_in, reg_out)
  /\ queue' = Popped(queue)
  /\ queue_out' = Offered(queue, Empty)
  /\ UNCHANGED signals

Next == Settle \/ Complete \/ Commit \/ Edge

Spec == Init /\ [][Next]_vars
=============================================================================
