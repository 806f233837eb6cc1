------------------------------ MODULE Pipeline ------------------------------
(***************************************************************************)
(* One core: the front end and the back end on one clock.                  *)
(* dispatcher_ready_port is the only signal that goes back from the second *)
(* to the first, passed through by InstDecode::me_checkStall.              *)
(***************************************************************************)
EXTENDS BackEnd

vars == <<configVars, frontVars, backVars>>

Init == FrontInit /\ BackInit

PosEdge == (Looping => run_rounds < Laps) /\ BackEdge /\ FrontEdge(IsDispatchable)
Finishes(x) == Complete(x) /\ UNCHANGED frontVars

Next == ((\E x \in Executor : Finishes(x)) \/ PosEdge) /\ UNCHANGED configVars

Spec == Init /\ [][Next]_vars

\* The simulation goes on: the clock does not stop, and a stalled core waits for a
\* unit that will finish.
FairSpec == Spec /\ WF_vars(Next)
=============================================================================
