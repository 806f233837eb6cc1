------------------------------ MODULE FrontEnd ------------------------------
(***************************************************************************)
(* The front end of one core: InstFetch, InstDecode, the ScalarUnit and    *)
(* the RegFile with its write bypass (core/component).                     *)
(*                                                                         *)
(* In throughput mode the program is repeated.  A pc counts on from lap to *)
(* lap here, and the code's is its remainder: an instruction decoded again *)
(* is another ExecInfo, for those are compared by their pointers.          *)
(*                                                                         *)
(* State is taken once the signals have settled after a clock edge; what   *)
(* the SC_METHODs compute from the registers is an operator.  FrontEdge    *)
(* is the next rising edge.  decode_reg, pc_reg and bitwidth_reg move only *)
(* when the dispatcher is ready; scalar_reg always does, because           *)
(* ScalarUnit::self_ready is never false.                                  *)
(***************************************************************************)
EXTENDS Integers, Cycle

CONSTANTS
  Register,      \* register indices, a set of naturals with 0
  ArrayGroup,    \* ids of the core's array groups
  Programs,      \* the instruction streams considered in latency mode,
  LoopPrograms,  \* and in throughput mode
  Laps           \* bound: the rounds of those

ScalarOp   == {"sldi", "sadd", "ssub", "smul", "saddi", "smuli", "sld"}
VectorOp   == {"vrelu", "vvadd"}
TransferOp == {"ld", "st", "lmv", "send", "recv"}
Op == {"nop", "setbw", "mvmul"} \cup ScalarOp \cup VectorOp \cup TransferOp

\* imm: immediate of a scalar, byte width of a setbw, size of a transfer.
Instr == [op: Op, rd: Register, rs1: Register, rs2: Register, imm: Nat, group: ArrayGroup]

ASSUME FrontEndAssumption ==
  /\ Register \subseteq Nat /\ 0 \in Register
  /\ \A p \in Programs \cup LoopPrograms : p \in Seq(Instr)
  /\ ArrayGroup \cap {"vector", "transfer", "matrix", "nop", "none"} = {}  \* they are numbers
  /\ Laps \in Nat
  /\ \A p \in LoopPrograms : Len(p) >= 2

VARIABLES
  sim_mode,    \* 0: throughput, 1: latency; never changes
  prog,        \* inst_buffer; never changes
  pc,          \* InstFetch::pc_reg: instructions fetched before
  decode,      \* InstDecode::decode_reg: a pc, or NoPc for an invalid payload
  bitwidth,    \* InstDecode::bitwidth_reg (byte width; input and output alike)
  scalar,      \* ScalarUnit::scalar_reg
  cur_write,   \* reg_file_write_port
  last_write,  \* RegFile::write_info_reg
  reg_data     \* RegFile::reg_data

configVars == <<sim_mode, prog>>
frontVars == <<pc, decode, bitwidth, scalar, cur_write, last_write, reg_data>>

NoPc == -1
inst_buffer_size == Len(prog)
max_pc == inst_buffer_size - 1
Looping == sim_mode = 0
CodePc(i) == IF Looping THEN i % inst_buffer_size ELSE i
Inst(i) == prog[CodePc(i) + 1]            \* inst_buffer[i]

-----------------------------------------------------------------------------
(* RegFile::readValue: the newest of the three copies of a register *)

\* Mutant: no bypass of the write in progress.
ReadNoBypass(r) == IF r = last_write.rd_addr THEN last_write.rd_value ELSE reg_data[r]

Read(r) ==
  IF r = cur_write.rd_addr THEN cur_write.rd_value
  ELSE IF r = last_write.rd_addr THEN last_write.rd_value
  ELSE reg_data[r]

-----------------------------------------------------------------------------
(* InstFetch and InstDecode *)

More == Looping \/ pc < inst_buffer_size
Fetched == IF More THEN pc ELSE NoPc

\* addRunRounds, when the last instruction of a lap comes to be fetched.
run_rounds == IF Looping THEN (pc + 1) \div inst_buffer_size ELSE 0

DecodeHas(ops) == decode # NoPc /\ Inst(decode).op \in ops

\* ExecInfo: the instruction with the operand values and the byte width of the
\* moment it is decoded.  What reads register pairs (double_word) gets its pairs
\* in fields of their own, addresses of the global memory; its rd_value and
\* rs1_value stay 0.  A nop reads nothing; nobody looks at its operands.
NoExec == [pc |-> NoPc, rs1_value |-> 0, rs2_value |-> 0, rd_value |-> 0, bytes |-> 0]

DoubleWord(i) == Inst(i).op \in {"sld", "ld", "st"}

ExecInfoOf(i) ==
  [pc |-> i,
   rs1_value |-> IF DoubleWord(i) THEN 0 ELSE Read(Inst(i).rs1),
   rs2_value |-> Read(Inst(i).rs2),
   rd_value  |-> IF DoubleWord(i) THEN 0 ELSE Read(Inst(i).rd),
   bytes |-> bitwidth]

\* id_dispatch_port; a scalar or setbw is a bubble for the dispatcher.
ToDispatcher ==
  IF DecodeHas(Op \ (ScalarOp \cup {"setbw"})) THEN ExecInfoOf(decode) ELSE NoExec

\* id_scalar_port.
ToScalar == IF DecodeHas(ScalarOp) THEN ExecInfoOf(decode) ELSE NoExec

-----------------------------------------------------------------------------
(* ScalarUnit::process; sld sends the empty write, to register 0 *)

RegFileWrite(s) ==
  LET inst == Inst(s.pc)
      result == [sldi  |-> inst.imm,
                 saddi |-> s.rs1_value + inst.imm,
                 smuli |-> s.rs1_value * inst.imm,
                 sadd  |-> s.rs1_value + s.rs2_value,
                 ssub  |-> s.rs1_value - s.rs2_value,
                 smul  |-> s.rs1_value * s.rs2_value,
                 sld   |-> 0]
  IN [rd_addr  |-> IF inst.op = "sld" THEN 0 ELSE inst.rd,
      rd_value |-> result[inst.op]]

\* ScalarInfo, by which two payloads of id_scalar_port are told apart.
ScalarInfo(s) == [pc |-> CodePc(s.pc), rs1_value |-> s.rs1_value, rs2_value |-> s.rs2_value]

\* The scalar unit runs when the output of its register changes.
ScalarRuns ==
  /\ ToScalar # NoExec
  /\ scalar = NoExec \/ ScalarInfo(ToScalar) # ScalarInfo(scalar)

\* setFinish at the end of ScalarUnit::process.
ScalarFinishes == ScalarRuns /\ ~Looping /\ ToScalar.pc = max_pc

-----------------------------------------------------------------------------
FrontInit ==
  /\ sim_mode \in {0, 1}
  /\ prog \in IF Looping THEN LoopPrograms ELSE Programs
  /\ pc = 0
  /\ decode = NoPc
  /\ bitwidth = 0
  /\ scalar = NoExec
  /\ cur_write = [rd_addr |-> 0, rd_value |-> 0]
  /\ last_write = [rd_addr |-> 0, rd_value |-> 0]
  /\ reg_data = [r \in Register |-> 0]

\* Mutant: a stall does not reach the pc.
NextPcNoStall(ready) == IF More THEN pc + 1 ELSE pc

NextPc(ready) == IF ready /\ More THEN pc + 1 ELSE pc

FrontEdge(ready) ==
  /\ pc' = NextPc(ready)
  /\ decode' = Latched(ready, Fetched, decode)
  /\ bitwidth' = Latched(ready /\ DecodeHas({"setbw"}), Inst(decode).imm, bitwidth)
  /\ scalar' = ToScalar
  /\ cur_write' = IF ScalarRuns THEN RegFileWrite(ToScalar) ELSE cur_write
  /\ last_write' = cur_write
  /\ reg_data' = [reg_data EXCEPT ![cur_write.rd_addr] = cur_write.rd_value]
=============================================================================
