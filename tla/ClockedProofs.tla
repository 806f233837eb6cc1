---------------------------- MODULE ClockedProofs ---------------------------
(***************************************************************************)
(* The events behind a clock edge have the effects that the model of the   *)
(* pipeline gives them (Cycle), for all payloads, in any order of changes. *)
(***************************************************************************)
EXTENDS Clocked, TLAPS

Payload == Value \cup {Empty}

Unit == [is_ready: BOOLEAN, value: Payload, thread: {"waiting", "executing"},
         finish_value: Payload, write_new_value: BOOLEAN, value_to_write: Payload,
         out_port: Payload]

TypeOK ==
  /\ pos_edge_events \subseteq {"trigger", "finish_exec", "reset_event", "update", "commit"}
  /\ unit \in Unit
  /\ {input, reg_in, reg_value, reg_out, queue_out} \subseteq Payload
  /\ enable \in BOOLEAN
  /\ queue \in Seq(Value)

\* A unit is ready, or its thread executes, or it is about to finish.
UnitInv ==
  /\ unit.is_ready => unit.thread = "waiting" /\ ~Due("finish_exec")
  /\ ~unit.is_ready => (unit.thread = "waiting" <=> Due("finish_exec"))
  /\ unit.is_ready /\ input # Empty => Due("trigger")
  /\ Due("finish_exec") => unit.finish_value = unit.value
  /\ ~unit.write_new_value
  /\ unit.out_port # Empty => Due("reset_event")
  /\ Due("reset_event") => unit.is_ready

\* What has not been copied yet will be, at the next edge.
RegInv == enable /\ (reg_value # reg_in \/ reg_out # reg_value) => Due("update")
QueueInv == queue # <<>> \/ queue_out # Empty => Due("commit")

Inv == TypeOK /\ UnitInv /\ RegInv /\ QueueInv

-----------------------------------------------------------------------------
\* The invariant holds initially: every method has run once.
LEMMA InitInv == Init => Inv
BY DEF Init, Inv, TypeOK, UnitInv, RegInv, QueueInv, Unit, Payload, Due

\* What happens to the unit at an edge.
LEMMA AtEdge ==
  ASSUME Inv
  PROVE  /\ UnitAtEdge \in Unit
         /\ ~UnitAtEdge.write_new_value
         /\ Due("finish_exec") =>
              UnitAtEdge.is_ready /\ UnitAtEdge.thread = "waiting"
              /\ UnitAtEdge.out_port = unit.value /\ UnitAtEdge.value = unit.value
         /\ ~Due("finish_exec") /\ unit.is_ready /\ input # Empty =>
              ~UnitAtEdge.is_ready /\ UnitAtEdge.thread = "executing"
              /\ UnitAtEdge.out_port = Empty /\ UnitAtEdge.value = input
         /\ ~Due("finish_exec") /\ ~(unit.is_ready /\ input # Empty) =>
              UnitAtEdge = [unit EXCEPT !.out_port = Empty]
<1> USE DEF Inv, TypeOK, UnitInv
<1>1. CASE Due("finish_exec")
  <2>1. process(unit) = unit
    BY <1>1 DEF process
  <2>2. UnitAtEdge = me_writeValue(finishExec(unit))
    BY <1>1, <2>1 DEF UnitAtEdge
  <2>3. QED
    BY <1>1, <2>2 DEF finishExec, me_writeValue, Unit, Payload
<1>2. CASE ~Due("finish_exec") /\ unit.is_ready /\ input # Empty
  BY <1>2 DEF UnitAtEdge, process, finishExec, me_writeValue, Unit, Payload
<1>3. CASE ~Due("finish_exec") /\ ~(unit.is_ready /\ input # Empty)
  <2>1. UnitAtEdge = IF Due("reset_event") THEN me_writeValue(unit) ELSE unit
    BY <1>3 DEF UnitAtEdge, process
  <2>2. CASE Due("reset_event")
    BY <1>3, <2>1, <2>2 DEF me_writeValue, Unit, Payload
  <2>3. CASE ~Due("reset_event")
    BY <1>3, <2>1, <2>3 DEF Unit, Payload
  <2>4. QED
    BY <2>2, <2>3
<1>4. QED
  BY <1>1, <1>2, <1>3

\* Every step keeps the invariant.
LEMMA NextInv == Inv /\ [Next]_vars => Inv'
<1> SUFFICES ASSUME Inv, [Next]_vars PROVE Inv'
  OBVIOUS
<1> USE DEF Inv
<1>1. ASSUME NEW v \in Value \cup {Empty}, InputChanges(v) PROVE Inv'
  BY <1>1 DEF InputChanges, Notify, TypeOK, UnitInv, RegInv, QueueInv, Due, Payload,
              regVars, queueVars
<1>2. ASSUME NEW v \in Value \cup {Empty}, RegisterInputChanges(v) PROVE Inv'
  BY <1>2 DEF RegisterInputChanges, Notify, TypeOK, UnitInv, RegInv, QueueInv, Due, Payload,
              unitVars, queueVars
<1>3. ASSUME NEW v \in Value, QueueCommit(v) PROVE Inv'
  BY <1>3 DEF QueueCommit, Notify, TypeOK, UnitInv, RegInv, QueueInv, Due,
              unitVars, regVars
<1>4. CASE ThreadFinishes
  BY <1>4 DEF ThreadFinishes, Notify, TypeOK, UnitInv, RegInv, QueueInv, Due, Unit, Payload,
              regVars, queueVars
<1>5. CASE EnableChanges
  BY <1>5 DEF EnableChanges, Notify, TypeOK, UnitInv, RegInv, QueueInv, Due,
              unitVars, queueVars
<1>6. CASE ClockEdge
  <2>1. TypeOK'
    BY <1>6, AtEdge DEF ClockEdge, TypeOK, Payload
  <2>2. UnitInv'
    BY <1>6, AtEdge DEF ClockEdge, TypeOK, UnitInv, Unit, Due
  <2>3. RegInv'
    BY <1>6 DEF ClockEdge, RegInv, Due
  <2>4. QueueInv'
    BY <1>6 DEF ClockEdge, QueueInv, Due
  <2>5. QED
    BY <2>1, <2>2, <2>3, <2>4
<1>7. CASE UNCHANGED vars
  BY <1>7 DEF vars, unitVars, regVars, queueVars, TypeOK, UnitInv, RegInv, QueueInv, Due
<1>8. QED
  BY <1>1, <1>2, <1>3, <1>4, <1>5, <1>6, <1>7 DEF Next

THEOREM Invariance == Spec => []Inv
<1>1. QED
  BY InitInv, NextInv, PTL DEF Spec

-----------------------------------------------------------------------------
\* FSM::process never notifies start_exec in vain, and never misses an instruction
\* (FSM.hpp:38-60, VectorUnit.cpp:45-48).
THEOREM StartsAreHeard == Spec => []StartIsHeard
<1>1. Inv => StartIsHeard
  BY DEF Inv, UnitInv, StartIsHeard
<1>2. QED
  BY <1>1, Invariance, PTL

\* A PulsePort is never written at the edge that resets it (PulseSignal.h:27-40).
THEOREM PulsesAreKept == Spec => []PulseIsKept
<1>1. Inv => PulseIsKept
  BY DEF Inv, UnitInv, PulseIsKept
<1>2. QED
  BY <1>1, Invariance, PTL

\* An edge is one of UnitCycle.
LEMMA EdgeIsCycle == Inv /\ ClockEdge => Promise!Edge
<1> SUFFICES ASSUME Inv, ClockEdge PROVE Promise!Edge
  OBVIOUS
<1>1. UNCHANGED Promise!signals
  BY DEF ClockEdge, Promise!signals
<1>2. reg_out' = Promise!Latched(enable, reg_in, reg_out)
  BY DEF ClockEdge, Inv, RegInv, Promise!Latched
<1>3. queue' = Promise!Popped(queue) /\ queue_out' = Promise!Offered(queue, Empty)
  BY DEF ClockEdge, Inv, QueueInv, Promise!Popped, Promise!Offered
<1> DEFINE fsm == [state |-> FsmState, value |-> unit.value]
<1>4. /\ fsm' = Promise!FsmAfter(fsm, input, Empty)
      /\ unit'.out_port = Promise!PulseAfter(fsm, unit.out_port, Empty)
  <2> USE AtEdge DEF ClockEdge, Inv, TypeOK, UnitInv, Unit, FsmState,
                     Promise!FsmAfter, Promise!PulseAfter
  <2>1. CASE Due("finish_exec")
    BY <2>1
  <2>2. CASE ~Due("finish_exec") /\ unit.is_ready /\ input # Empty
    BY <2>2
  <2>3. CASE ~Due("finish_exec") /\ ~(unit.is_ready /\ input # Empty)
    BY <2>3
  <2>4. QED
    BY <2>1, <2>2, <2>3
<1>5. QED
  BY <1>1, <1>2, <1>3, <1>4 DEF Promise!Edge

\* The primitives implement the cycle that BackEnd and FrontEnd are written with:
\* initial states are initial states, and every step is one of UnitCycle.
THEOREM ImplementsUnitCycle == Spec => Promise!Spec
<1>1. Init => Promise!Init
  BY DEF Init, Promise!Init, FsmState
<1>2. Inv /\ [Next]_vars => [Promise!Next]_Promise!vars
  <2> SUFFICES ASSUME Inv, [Next]_vars PROVE Promise!Next \/ UNCHANGED Promise!vars
    OBVIOUS
  <2> USE DEF Promise!Next, Promise!state
  <2>1. ASSUME NEW v \in Value \cup {Empty}, InputChanges(v) PROVE Promise!Settle
    BY <2>1 DEF InputChanges, regVars, queueVars, FsmState, Promise!Settle
  <2>2. ASSUME NEW v \in Value \cup {Empty}, RegisterInputChanges(v) PROVE Promise!Settle
    BY <2>2 DEF RegisterInputChanges, unitVars, queueVars, FsmState, Promise!Settle
  <2>3. ASSUME NEW v \in Value, QueueCommit(v) PROVE Promise!Commit
    BY <2>3 DEF QueueCommit, unitVars, regVars, FsmState, Promise!Commit, Promise!signals
  <2>4. CASE ThreadFinishes
    <3>1. Promise!Complete
      BY <2>4 DEF ThreadFinishes, Inv, TypeOK, UnitInv, Unit, FsmState, regVars, queueVars,
                  Promise!Complete, Promise!signals
    <3>2. QED
      BY <3>1
  <2>5. CASE EnableChanges
    <3>1. Promise!Settle
      BY <2>5 DEF EnableChanges, unitVars, queueVars, FsmState, Promise!Settle
    <3>2. QED
      BY <3>1
  <2>6. CASE ClockEdge
    BY <2>6, EdgeIsCycle
  <2>7. CASE UNCHANGED vars
    BY <2>7 DEF vars, unitVars, regVars, queueVars, FsmState, Promise!vars, Promise!signals
  <2>8. QED
    BY <2>1, <2>2, <2>3, <2>4, <2>5, <2>6, <2>7 DEF Next
<1>3. QED
  BY <1>1, <1>2, Invariance, PTL DEF Spec, Promise!Spec
=============================================================================
