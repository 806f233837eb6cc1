-------------------------------- MODULE Cycle -------------------------------
(***************************************************************************)
(* What a rising clock edge does to the clocked primitives (utils/) and to *)
(* the CommitQueue (core/xbar/ArrayGroup.cpp), once the signals have       *)
(* settled.  Clocked has the events and methods behind these effects.      *)
(***************************************************************************)
EXTENDS Sequences

\* RegNext, RegEnable and RegPipe.
Latched(enable, input, value) == IF enable THEN input ELSE value

\* FSM::process and FSM::_finishExec.
FsmAfter(fsm, input, none) ==
  CASE fsm.state = "ready" /\ input # none -> [state |-> "busy", value |-> input]
    [] fsm.state = "finishing" -> [fsm EXCEPT !.state = "ready"]
    [] OTHER -> fsm

\* PulsePort: the value for one cycle.  Written again at the edge that resets
\* it, the new value is replaced by the default a delta cycle later.
PulseAfter(fsm, out, none) ==
  IF fsm.state = "finishing" /\ out = none THEN fsm.value ELSE none

\* CommitQueue::me_processCommit.
Popped(q) == IF q = <<>> THEN q ELSE Tail(q)
Offered(q, none) == IF q = <<>> THEN none ELSE Head(q)
=============================================================================
