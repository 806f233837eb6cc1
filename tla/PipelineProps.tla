---------------------------- MODULE PipelineProps ---------------------------
(***************************************************************************)
(* What the pipeline of a core must guarantee.                             *)
(***************************************************************************)
EXTENDS Pipeline, FiniteSets

Sets == INSTANCE FiniteSetsExt

\* What is fetched, as far as it is looked at.
Fetchable == IF Looping THEN Laps * inst_buffer_size ELSE inst_buffer_size
Pc == 0..(Fetchable - 1)
Word == Int

-----------------------------------------------------------------------------
(* The program read one instruction at a time *)

\* Registers after an instruction.
Computed(regs, inst) ==
  CASE inst.op = "sldi"  -> [regs EXCEPT ![inst.rd] = inst.imm]
    [] inst.op = "saddi" -> [regs EXCEPT ![inst.rd] = regs[inst.rs1] + inst.imm]
    [] inst.op = "smuli" -> [regs EXCEPT ![inst.rd] = regs[inst.rs1] * inst.imm]
    [] inst.op = "sadd"  -> [regs EXCEPT ![inst.rd] = regs[inst.rs1] + regs[inst.rs2]]
    [] inst.op = "ssub"  -> [regs EXCEPT ![inst.rd] = regs[inst.rs1] - regs[inst.rs2]]
    [] inst.op = "smul"  -> [regs EXCEPT ![inst.rd] = regs[inst.rs1] * regs[inst.rs2]]
    [] inst.op = "sld"   -> [regs EXCEPT ![0] = 0]
    [] OTHER -> regs

\* The bytes that the unit of an instruction reads and writes, e being its operands.
Bytes(a, n) == a..(a + n - 1)
ReadBytes(inst, e) ==
  LET n == IF inst.op \in TransferOp THEN inst.imm ELSE e.bytes IN
  CASE inst.op \in {"mvmul", "vrelu", "st", "lmv"} -> Bytes(e.rs1_value, n)
    [] inst.op = "vvadd" -> Bytes(e.rs1_value, n) \cup Bytes(e.rs2_value, n)
    [] inst.op = "send" -> Bytes(e.rd_value, n)
    [] OTHER -> {}
WrittenBytes(inst, e) ==
  LET n == IF inst.op \in TransferOp THEN inst.imm ELSE e.bytes IN
  IF inst.op \in {"mvmul", "vrelu", "vvadd", "ld", "recv", "lmv"} THEN Bytes(e.rd_value, n) ELSE {}

\* Registers and byte width before the program, and after an instruction.
Reset == [regs |-> [r \in Register |-> 0], bytes |-> 0]
Executed(m, inst) ==
  [regs  |-> Computed(m.regs, inst),
   bytes |-> IF inst.op = "setbw" THEN inst.imm ELSE m.bytes]

\* Instruction i is executed with m: its ExecInfo (a register pair is in fields of
\* its own), and what ProgramOrder is told about it.
InfoOf(i, m, inst) ==
  LET pair == inst.op \in {"sld", "ld", "st"} IN
  [pc |-> i, rs1_value |-> IF pair THEN 0 ELSE m.regs[inst.rs1],
   rs2_value |-> m.regs[inst.rs2], rd_value |-> IF pair THEN 0 ELSE m.regs[inst.rd],
   bytes |-> m.bytes]

Execution(i, m, inst) ==
  LET e == InfoOf(i, m, inst) IN
  [before |-> m, info |-> e, exec |-> inst.op \notin ScalarOp \cup {"setbw"},
   reads |-> ReadBytes(inst, e), writes |-> WrittenBytes(inst, e)]

\* Of a program, so many times.
Executions(p, times) ==
  LET n == times * Len(p)
      code(i) == p[(i % Len(p)) + 1]
      before[i \in 0..n] == IF i = 0 THEN Reset ELSE Executed(before[i - 1], code(i - 1))
  IN [i \in 1..n |-> Execution(i - 1, before[i - 1], code(i - 1))]

\* Of every program, as often as it is looked at.
Sequential ==
  [c \in {<<p, 1>> : p \in Programs} \cup {<<p, Laps>> : p \in LoopPrograms} |->
     Executions(c[1], c[2])]

Stream == Sequential[<<prog, IF Looping THEN Laps ELSE 1>>]
SequentialExec(i) == Stream[i + 1].info

Reads(e) == ReadBytes(Inst(e.pc), e)
Writes(e) == WrittenBytes(Inst(e.pc), e)

-----------------------------------------------------------------------------
(* The programs that the back end handles as it says; of the others, some *)
(* break a property below.                                                *)

\* The ranges that isConflict compares hold all the bytes the units touch: a send
\* has one address register (it reads at rd, its range starts at rs1), and an lmv
\* copies one byte (its range is one byte whatever its immediate).
RangesSuffice ==
  \A p \in Programs \cup LoopPrograms : \A i \in DOMAIN p :
    /\ p[i].op = "send" => p[i].rd = p[i].rs1
    /\ p[i].op = "lmv" => p[i].imm <= 1

\* The last instruction is not one of the scalar unit, which reports the end
\* whatever the reorder buffer still holds.
EndsInBuffer ==
  \A p \in Programs : p # <<>> => p[Len(p)].op \notin ScalarOp

\* No nop: it has no unit, and its entry of the reorder buffer is never committed.
NoNop == \A p \in Programs \cup LoopPrograms : \A i \in DOMAIN p : p[i].op # "nop"

\* An instruction that gives another result when it is executed twice.
Accumulates(inst) ==
  \/ inst.op \in {"saddi", "smuli"} /\ inst.rd = inst.rs1
  \/ inst.op \in {"sadd", "ssub", "smul"} /\ inst.rd \in {inst.rs1, inst.rs2}

\* None of these can meet a stall: what comes before it has no unit, in a program that
\* is repeated also what comes after it.
AccumulatesFirst ==
  LET Passed(p, i) == p[i].op \in ScalarOp \cup {"setbw"} IN
  /\ \A p \in Programs : \A i, j \in DOMAIN p : Accumulates(p[i]) /\ j < i => Passed(p, j)
  /\ \A p \in LoopPrograms : \A i, j \in DOMAIN p : Accumulates(p[i]) => Passed(p, j)

\* None is in the decoder when the dispatcher stalls: it would be executed again.
NoneStalls == decode # NoPc /\ Accumulates(Inst(decode)) => IsDispatchable

-----------------------------------------------------------------------------
(* Where an issued instruction can be *)

ExecPc == {i \in Pc : Inst(i).op \notin ScalarOp \cup {"setbw"}}

\* An array group queues its commit when it finishes, the other units carry
\* theirs to the next edge.
HeldBy(i) ==
  {x \in Executor : /\ fsm[x].value.pc = i
                    /\ fsm[x].state \in IF x \in ArrayGroup THEN {"busy"} ELSE {"busy", "finishing"}}
QueuedAt(i) == {k \in DOMAIN commit_queue : commit_queue[k].pc = i}
CommittedAt(i) == {p \in Port : commit[p].pc = i}

Places(i) == Cardinality(HeldBy(i)) + Cardinality(QueuedAt(i)) + Cardinality(CommittedAt(i))
             + IF ag_reg.pc = i THEN 1 ELSE 0

InBuffer == {e.pc : e \in ValidEntries(ring_buffer)}

-----------------------------------------------------------------------------
(* Properties *)

ExecInfo == [pc: Pc \cup {NoPc}, rs1_value: Word, rs2_value: Word,
             rd_value: Word, bytes: Nat]

\* Every signal and register holds a value of its type, and the ring buffer
\* keeps its indices inside the array.
TypeOK ==
  /\ sim_mode \in {0, 1} /\ prog \in Seq(Instr)
  /\ pc \in 0..Fetchable
  /\ decode \in Pc \cup {NoPc}
  /\ bitwidth \in Nat
  /\ {scalar, dispatcher_reg, ag_reg} \subseteq ExecInfo
  /\ cur_write \in [rd_addr: Register, rd_value: Word]
  /\ last_write \in [rd_addr: Register, rd_value: Word]
  /\ reg_data \in [Register -> Word]
  /\ ring_buffer \in Buffer(ExecInfo)
  /\ inst_map \subseteq ExecInfo
  /\ fsm \in [Executor -> [state: {"ready", "busy", "finishing"}, value: ExecInfo]]
  /\ commit_queue \in Seq(ExecInfo)
  /\ commit \in [Port -> ExecInfo]
  /\ finish_running \in BOOLEAN /\ thrown \in BOOLEAN

\* The reorder buffer never throws: nothing is pushed when it is full (rob_ready
\* is read one cycle after it was computed) and every commit finds its entry.
BufferNeverThrows == ~thrown

\* What the reorder buffer holds is what is being executed: an instruction with
\* a valid entry is in one register, unit, queue or commit port, once, and none
\* is anywhere without an entry - started twice, lost at a port or committed twice.
\* The performance counter times just these.
BufferTracksUnits ==
  /\ \A i \in ExecPc : Places(i) = IF i \in InBuffer THEN 1 ELSE 0
  /\ inst_map = ValidEntries(ring_buffer)

\* An instruction is issued with the operands and the byte width of the program
\* read in order, in spite of stalls, the write bypass and the pipelined setbw.
OperandsAreSequential ==
  \A e \in {dispatcher_reg} \cup ValidEntries(ring_buffer) :
    e # NoExec => e = SequentialExec(e.pc)

\* No two instructions that execute together write the same byte
\* ("// WAW" in ExecInfo::isConflict).
NoWriteAfterWrite ==
  \A e, f \in ValidEntries(ring_buffer) :
    e # f => Writes(e) \cap Writes(f) = {}

\* No instruction executes together with an older one whose result it reads or
\* whose operands it overwrites ("// RAW", "// WAR" in ExecInfo::isConflict), in
\* terms of the bytes the units really touch.
NoDataHazard ==
  \A e, f \in ValidEntries(ring_buffer) :
    e # f => Writes(e) \cap Reads(f) = {}

\* A core that has reported its end has nothing in execution (README: latency
\* mode "processes one input sample and stops when all loaded cores finish").
FinishIsLast == finish_running => InBuffer = {}

\* In throughput mode a round is counted when its last instruction is fetched; those
\* that are counted and not executed are no more than the core has places for
\* ("output count" of the report).
Unfinished == InBuffer \cup ({dispatcher_reg.pc, decode, pc} \ {NoPc})
RoundsAreNearlyDone ==
  Looping => run_rounds - Sets!Min(Unfinished) \div inst_buffer_size <= Capacity + 1

\* The program ends, and the core reports it; in throughput mode it goes on.
ProgramFinishes ==
  <>[](IF Looping THEN run_rounds = Laps ELSE finish_running /\ InBuffer = {})

-----------------------------------------------------------------------------
(* The pipeline implements ProgramOrder: instruction i of the code is i + 1,  *)
(* and what has not been issued starts in the first nonempty stage.           *)

NextToIssue ==
  IF dispatcher_reg # NoExec THEN dispatcher_reg.pc
  ELSE IF decode # NoPc THEN decode ELSE pc

Order == INSTANCE ProgramOrder WITH
  stream <- Stream,
  next <- NextToIssue + 1,
  window <- [k \in 1..ring_buffer.size |-> Entry(ring_buffer, k - 1).value.pc + 1],
  done <- {Entry(ring_buffer, k).value.pc + 1 :
             k \in {j \in 0..(ring_buffer.size - 1) : ~Entry(ring_buffer, j).valid}}

\* Issue in order without RAW or WAR, completion out of order, retirement in order.
ImplementsProgramOrder == Order!Spec
=============================================================================
