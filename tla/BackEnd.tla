------------------------------- MODULE BackEnd ------------------------------
(***************************************************************************)
(* The back end of one core: Dispatcher, ReorderBuffer, and the execution  *)
(* units as the pipeline sees them - the FSM of the vector unit, of the    *)
(* transfer unit and of every array group, the AGDispatcher and the        *)
(* CommitQueue of the matrix unit, and the commit ports                    *)
(* (core/component, core/xbar/ArrayGroup.cpp, utils/FSM.hpp).              *)
(*                                                                         *)
(* As in FrontEnd the state is the settled one.  BackEdge is a rising      *)
(* edge; between two edges a busy unit may call finishExec (Complete).     *)
(* Each FSM hears an instruction that arrives before it hears that it has  *)
(* finished, both being due at the same edge: ClockDomain notifies in the  *)
(* order of the events' addresses, and FSM declares trigger first.  Cycle   *)
(* has the effect, Clocked the events.                                     *)
(*                                                                         *)
(* A nop is issued and enters the reorder buffer, but has no unit: it      *)
(* never leaves it.  PerformanceCounter is part of the reorder buffer; its *)
(* keys are the instructions in execution.                                 *)
(***************************************************************************)
EXTENDS FrontEnd, RingBuffer

VARIABLES
  dispatcher_reg,  \* Dispatcher::dispatcher_reg
  ring_buffer,     \* ReorderBuffer::ring_buffer
  inst_map,        \* PerformanceCounter::inst_map, its keys
  fsm,             \* per executor: its state and the instruction it holds
  ag_reg,          \* AGDispatcher::reg
  commit_queue,    \* CommitQueue::q
  commit,          \* the three commit ports
  finish_running,  \* Core::finish_running
  thrown           \* the reorder buffer has thrown

backVars == <<dispatcher_reg, ring_buffer, inst_map, fsm, ag_reg, commit_queue, commit,
              finish_running, thrown>>

Executor == {"vector", "transfer"} \cup ArrayGroup
Port == {"matrix", "vector", "transfer"}

Idle == [state |-> "ready", value |-> NoExec]

ExecUnit(e) ==
  IF e = NoExec THEN "none"
  ELSE IF Inst(e.pc).op = "nop" THEN "nop"
  ELSE IF Inst(e.pc).op \in VectorOp THEN "vector"
  ELSE IF Inst(e.pc).op \in TransferOp THEN "transfer" ELSE "matrix"

-----------------------------------------------------------------------------
(* ExecInfo::setMemoryReadWriteAddr and isConflict.  A range is a pair of    *)
(* addresses as the code keeps it: start, and start plus size.               *)

Size(e) == IF ExecUnit(e) = "transfer" THEN Inst(e.pc).imm ELSE e.bytes
Bounds(a, n) == <<a, a + n>>

\* lmv keeps its length in another field than the one read here.
MemoryReadAddr(e) ==
  CASE Inst(e.pc).op \in {"mvmul", "vrelu", "st", "send"} -> {Bounds(e.rs1_value, Size(e))}
    [] Inst(e.pc).op = "vvadd" -> {Bounds(e.rs1_value, Size(e)), Bounds(e.rs2_value, Size(e))}
    [] Inst(e.pc).op = "lmv" -> {Bounds(e.rs1_value, 0)}
    [] OTHER -> {}

MemoryWriteAddr(e) ==
  CASE Inst(e.pc).op \in {"mvmul", "vrelu", "vvadd", "ld", "recv"} -> {Bounds(e.rd_value, Size(e))}
    [] Inst(e.pc).op = "lmv" -> {Bounds(e.rd_value, 0)}
    [] OTHER -> {}

IsOverlap(a, b) == ~(a[2] < b[1] \/ a[1] > b[2])
Meet(A, B) == \E a \in A, b \in B : IsOverlap(a, b)

\* Mutants: one of the pairs of loops is missing.
IsConflictNoRAW(e, older) == Meet(MemoryWriteAddr(e), MemoryReadAddr(older))
IsConflictNoWAR(e, older) == Meet(MemoryReadAddr(e), MemoryWriteAddr(older))

\* The pair of loops labelled WAW compares with the read addresses as well.
IsConflict(e, older) ==
  \/ Meet(MemoryWriteAddr(e), MemoryReadAddr(older))
  \/ Meet(MemoryReadAddr(e), MemoryWriteAddr(older))

CheckConflict == \E older \in ValidEntries(ring_buffer) : IsConflict(dispatcher_reg, older)

-----------------------------------------------------------------------------
(* Dispatcher *)

\* Mutant: the last free entry is taken for two.
RobReadyLate == ring_buffer.size <= Capacity

RobReady == ~Full(ring_buffer)

\* AGDispatcher::me_dispatch: in_ready, which is also reg_enable.
MatrixReady == ag_reg = NoExec \/ fsm[Inst(ag_reg.pc).group].state = "ready"

IsDispatchable ==
  /\ RobReady
  /\ dispatcher_reg # NoExec =>
       /\ ~CheckConflict
       /\ ExecUnit(dispatcher_reg) = "matrix" => MatrixReady
       /\ ExecUnit(dispatcher_reg) \in DOMAIN fsm => fsm[ExecUnit(dispatcher_reg)].state = "ready"

\* dispatcher_out_port.
Issued == IF IsDispatchable THEN dispatcher_reg ELSE NoExec
IssuedTo(unit) == IF ExecUnit(Issued) = unit THEN Issued ELSE NoExec

-----------------------------------------------------------------------------
(* The units *)

FsmInput(x) ==
  IF x \notin ArrayGroup THEN IssuedTo(x)
  ELSE IF ag_reg # NoExec /\ Inst(ag_reg.pc).group = x THEN ag_reg ELSE NoExec

FsmEdge(x) == FsmAfter(fsm[x], FsmInput(x), NoExec)
Pulse(x) == PulseAfter(fsm[x], commit[x], NoExec)

\* Mutant: the commit queue has room for one.
CommitEdgeLossy ==
  /\ commit_queue' = <<>>
  /\ commit' = [p \in Port |-> IF p = "matrix" THEN Offered(commit_queue, NoExec) ELSE Pulse(p)]

CommitEdge ==
  /\ commit_queue' = Popped(commit_queue)
  /\ commit' = [p \in Port |-> IF p = "matrix" THEN Offered(commit_queue, NoExec) ELSE Pulse(p)]

\* The thread of unit x calls finishExec; an array group then queues its commit.
Complete(x) ==
  /\ ~thrown
  /\ fsm[x].state = "busy"
  /\ fsm' = [fsm EXCEPT ![x].state = "finishing"]
  /\ commit_queue' = IF x \in ArrayGroup THEN Append(commit_queue, fsm[x].value) ELSE commit_queue
  /\ UNCHANGED <<dispatcher_reg, ring_buffer, inst_map, ag_reg, commit, finish_running, thrown>>

-----------------------------------------------------------------------------
(* ReorderBuffer::me_updateROB: push the issued instruction, then retire what  *)
(* the ports committed in the cycle before, in the order of commit_infos.      *)

Pushed == IF Issued = NoExec THEN ring_buffer ELSE Push(ring_buffer, Issued)
Started == inst_map \cup ({Issued} \ {NoExec})
PushThrows == Issued # NoExec /\ (Full(ring_buffer) \/ Issued \in inst_map)

\* Step p retires commit[p] from the buffer b.
Commits(b, p) == commit[p] # NoExec /\ Contains(b, commit[p])
RetireFrom(b, p) == IF Commits(b, p) THEN Retire(b, commit[p]) ELSE b

\* retire, or PerformanceCounter::finishRecord.
StepThrows(b, p) == commit[p] # NoExec /\ (~Contains(b, commit[p]) \/ commit[p] \notin Started)

CommittedTwice == \E p, q \in Port : p # q /\ commit[p] # NoExec /\ commit[p] = commit[q]

\* Mutant: the last instruction has been committed.
StepFinishesEarly(b, p) == ~Looping /\ Commits(b, p) /\ commit[p].pc = max_pc

\* Mutant: only the retiring instruction is compared, not the last one it pops.
StepFinishesOwn(b, p) ==
  ~Looping /\ Commits(b, p) /\ Pops(b, commit[p]) /\ commit[p].pc = max_pc

\* The last instruction of the program has left the buffer.
StepFinishes(b, p) ==
  /\ ~Looping
  /\ Commits(b, p) /\ Pops(b, commit[p])
  /\ LastRetired(b, commit[p]).pc = max_pc

UpdateROB ==
  \E b1 \in {Pushed} : \E b2 \in {RetireFrom(b1, "matrix")} : \E b3 \in {RetireFrom(b2, "vector")} :
    LET Some(Step(_, _)) == Step(b1, "matrix") \/ Step(b2, "vector") \/ Step(b3, "transfer")
        throws == PushThrows \/ Some(StepThrows) \/ CommittedTwice
    IN
    \/ /\ throws
       /\ thrown' = TRUE
       /\ UNCHANGED <<ring_buffer, inst_map, finish_running>>
    \/ /\ ~throws
       /\ ring_buffer' = RetireFrom(b3, "transfer")
       /\ inst_map' = Started \ {commit[p] : p \in Port}
       /\ finish_running' = (finish_running \/ Some(StepFinishes) \/ ScalarFinishes)
       /\ UNCHANGED thrown

-----------------------------------------------------------------------------
BackInit ==
  /\ dispatcher_reg = NoExec
  /\ ring_buffer = NewBuffer(NoExec)
  /\ inst_map = {}
  /\ fsm = [x \in Executor |-> Idle]
  /\ ag_reg = NoExec
  /\ commit_queue = <<>>
  /\ commit = [p \in Port |-> NoExec]
  /\ finish_running = (prog = <<>>)     \* InstFetch finishes an empty program at once
  /\ thrown = FALSE

BackEdge ==
  /\ ~thrown
  /\ dispatcher_reg' = Latched(IsDispatchable, ToDispatcher, dispatcher_reg)
  /\ fsm' = [x \in Executor |-> FsmEdge(x)]
  /\ ag_reg' = Latched(MatrixReady, IssuedTo("matrix"), ag_reg)
  /\ CommitEdge
  /\ UpdateROB
=============================================================================
