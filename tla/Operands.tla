------------------------------ MODULE Operands ------------------------------
(***************************************************************************)
(* What an instruction does to the local memory of its core, twice: the    *)
(* ranges ExecInfo computes when it is decoded, which the dispatcher       *)
(* compares (core/payloads/ExecInfo.cpp), and the requests its unit makes  *)
(* when it executes (VectorUnit.cpp, ArrayGroup.cpp, TransferUnit.cpp),    *)
(* with the addresses and widths both take from the instruction.           *)
(*                                                                         *)
(* An instruction that has been decoded is a record                        *)
(*   op, rs1_value, rs2_value, rd_value,                                   *)
(*   len, size, offset_value, offset_select, group, mbiw,                  *)
(*   input_bitwidth, output_bitwidth.                                      *)
(***************************************************************************)
EXTENDS Memory

CONSTANTS
  MatrixConfig,      \* MatrixUnitConfig, latencies in cycles
  ArrayGroupMap      \* number of crossbars of each array group

\* MatrixUnitConfig, as far as it determines latencies; checkValid rejects what is
\* negative, but does not look at input_buffer.
MatrixUnitConfig ==
  [rows: Nat, columns: Nat, cell_precision: Nat, period: Nat, pipeline_mode: BOOLEAN,
   dac_resolution: Nat, dac_count: Nat, adc_count: Nat, input_buffer: Nat, dac: Nat,
   xbar_read: Nat, sample_hold: Nat, adc: Nat, shift_adder: Nat, output_buffer: Nat]

inst_read_double_vector == {"vvadd", "vvsub", "vvmul", "vvdmul", "vvmax", "vvsll", "vvsra"}
inst_read_single_vector == {"vavg", "vrelu", "vtanh", "vsigm", "vmv", "vrsu", "vrsl"}
inst_use_output_byte == {"vvmul", "vvsll", "vvsra", "vtanh", "vsigm", "vrsu", "vrsl"}

VectorOp == inst_read_double_vector \cup inst_read_single_vector
TransferOp == {"ld", "st", "lldi", "lmv", "send", "recv"}

input_byte(e) == CeilDiv(e.input_bitwidth, 8)
output_byte(e) == CeilDiv(e.output_bitwidth, 8)

-----------------------------------------------------------------------------
(* OffsetField; x & RD_SELECT, x & RS1_SELECT, x & RS2_SELECT *)

Selects(x, bit) == (x \div bit) % 2 = 1
Offset(e, x, bit) == IF Selects(x, bit) THEN e.offset_value ELSE 0

getRdOffsetValue(e)  == Offset(e, e.offset_select, 1)
getRs1OffsetValue(e) == Offset(e, e.offset_value, 2)
getRs2OffsetValue(e) == Offset(e, e.offset_value, 4)

getFinalRS1(e) ==
  IF e.op \in TransferOp THEN e.rs1_value + getRs1OffsetValue(e)
  ELSE IF e.op \in VectorOp \ {"vmv"} THEN e.rs1_value + input_byte(e) * getRs1OffsetValue(e)
  ELSE e.rs1_value

getFinalRS2(e) ==
  IF e.op \in VectorOp \ {"vavg", "vmv", "vrsu", "vrsl"}
  THEN e.rs2_value + input_byte(e) * getRs2OffsetValue(e)
  ELSE e.rs2_value

getFinalRD(e) ==
  IF e.op \in TransferOp THEN e.rd_value + getRdOffsetValue(e)
  ELSE IF e.op \in {"vvadd", "vvsub", "vvmax", "vrelu"}
       THEN e.rd_value + input_byte(e) * getRdOffsetValue(e)
  ELSE IF e.op \in VectorOp \ {"vvdmul", "vavg", "vmv"}
       THEN e.rd_value + output_byte(e) * getRdOffsetValue(e)
  ELSE e.rd_value

-----------------------------------------------------------------------------
(* ExecInfo::setMemoryReadWriteAddr: sets of pairs (start, start plus size) *)

Bounds(a, n) == <<a, a + n>>

\* XbarArray::getWeightShape: the columns left for weights of e.mbiw bits.
WeightColumns(e) == (MatrixConfig.cell_precision * MatrixConfig.columns) \div e.mbiw

MemoryReadAddr(e) ==
  LET rs1 == getFinalRS1(e)
      rs2 == getFinalRS2(e)
      n == e.len * input_byte(e)
  IN CASE e.op = "mvmul" -> {Bounds(rs1, MatrixConfig.rows * input_byte(e))}
       [] e.op \in {"vrelu", "vtanh", "vsigm", "vavg"} -> {Bounds(rs1, n)}
       [] e.op \in VectorOp \ {"vrelu", "vtanh", "vsigm", "vavg", "vmv"} ->
            {Bounds(rs1, n), Bounds(rs2, n)}
       [] e.op \in {"st", "lmv", "send"} -> {Bounds(rs1, e.size)}
       [] OTHER -> {}

\* Mutant: every result has the width of the inputs.
MemoryWriteAddrNarrow(e) ==
  LET rd == getFinalRD(e)
  IN CASE e.op = "mvmul" ->
            {Bounds(rd, WeightColumns(e) * ArrayGroupMap[e.group] * output_byte(e))}
       [] e.op \in VectorOp \ {"vmv"} -> {Bounds(rd, e.len * input_byte(e))}
       [] e.op = "lldi" -> {Bounds(rd, 1)}
       [] e.op \in {"ld", "lmv", "recv"} -> {Bounds(rd, e.size)}
       [] OTHER -> {}

MemoryWriteAddr(e) ==
  LET rd == getFinalRD(e)
  IN CASE e.op = "mvmul" ->
            {Bounds(rd, WeightColumns(e) * ArrayGroupMap[e.group] * output_byte(e))}
       [] e.op = "vavg" -> {Bounds(rd, output_byte(e))}
       [] e.op \in {"vvadd", "vvsub", "vvmax"} -> {Bounds(rd, e.len * input_byte(e))}
       [] e.op \in VectorOp \ {"vavg", "vmv", "vvadd", "vvsub", "vvmax"} ->
            {Bounds(rd, e.len * output_byte(e))}
       [] e.op = "lldi" -> {Bounds(rd, 1)}
       [] e.op \in {"ld", "lmv", "recv"} -> {Bounds(rd, e.size)}
       [] OTHER -> {}

IsOverlap(a, b) == ~(a[2] < b[1] \/ a[1] > b[2])
Meet(A, B) == \E a \in A, b \in B : IsOverlap(a, b)

\* ExecInfo::isConflict; the loops labelled WAW compare with reads again.
IsConflict(e, older) ==
  \/ Meet(MemoryWriteAddr(e), MemoryReadAddr(older))
  \/ Meet(MemoryReadAddr(e), MemoryWriteAddr(older))

-----------------------------------------------------------------------------
(* XbarArray::calcXbarArrayLatency *)

MaxOf(a, b) == IF a > b THEN a ELSE b

\* Rounds down: the quotient is only incremented for operands of different sign.
divideWithCeiling(n, d) == IF d = 0 THEN 0 ELSE n \div d

XbarCycles(input_precision) ==
  LET c == MatrixConfig
      total_times == divideWithCeiling(input_precision, c.dac_resolution)
                     * divideWithCeiling(c.rows, c.dac_count)
      front == c.input_buffer + c.dac + c.xbar_read + c.sample_hold
      shift == c.shift_adder + c.output_buffer
      back == c.adc + shift
              + (divideWithCeiling(c.columns, c.adc_count) - 1) * MaxOf(c.adc, shift)
  IN IF c.pipeline_mode THEN front + back + (total_times - 1) * MaxOf(front, back)
                        ELSE (front + back) * total_times

-----------------------------------------------------------------------------
(* The requests of an instruction, one after the other: in each stage the    *)
(* unit first waits for another part of the chip (remote), makes requests of *)
(* one memory at one moment, and waits until they are served and it has      *)
(* worked for the time compute.                                              *)

Access(command, a, n) == [command |-> command, addr |-> a, data_size |-> n]
Stage(remote, mem, requests, compute) ==
  [remote |-> remote, mem |-> mem, requests |-> requests, compute |-> compute]

\* VectorUnit::process; vvdmul and vavg are not in inst_use_output_byte.
VectorStages(e, compute) ==
  LET n == input_byte(e) * e.len
      written == (IF e.op \in inst_use_output_byte THEN output_byte(e) ELSE input_byte(e)) * e.len
      src1 == Access("read", getFinalRS1(e), n)
      src2 == Access("read", getFinalRS2(e), n)
  IN << Stage(FALSE, "local",
              IF e.op \in inst_read_double_vector THEN <<src1, src2>> ELSE <<src1>>, compute),
        Stage(FALSE, "local", << Access("write", getFinalRD(e), written) >>, 0) >>

\* ArrayGroup::th_processMVM; the read counts eight times ("for compare with mnsim").
MatrixStages(e) ==
  LET read == 8 * MatrixConfig.rows * input_byte(e)
      written == WeightColumns(e) * output_byte(e) * ArrayGroupMap[e.group]
  IN << Stage(FALSE, "local", << Access("read", getFinalRS1(e), read) >>,
              XbarCycles(e.input_bitwidth) * MatrixConfig.period),
        Stage(FALSE, "local", << Access("write", getFinalRD(e), written) >>, 0) >>

\* TransferUnit::processSendInst, processRecvInst, processGlobalMemoryInst.
TransferStages(e) ==
  LET rs1 == getFinalRS1(e)
      rd == getFinalRD(e)
      \* the network adds nothing to a response of zero bytes
      global(command) == Stage(TRUE, "global", << Access(command, 0, e.size) >>, 0)
      local(remote, requests) == Stage(remote, "local", requests, 0)
  IN CASE e.op = "send" -> << local(TRUE, << Access("read", rd, e.size) >>) >>
       [] e.op = "recv" -> << local(TRUE, << Access("write", rd, e.size) >>) >>
       [] e.op = "ld"   -> << global("read"), local(FALSE, << Access("write", rd, e.size) >>) >>
       [] e.op = "st"   -> << local(FALSE, << Access("read", rs1, e.size) >>), global("write") >>
       [] e.op = "lldi" -> << local(FALSE, << Access("write", rd, e.len) >>) >>
       [] e.op = "lmv"  -> << local(FALSE, << Access("read", rs1, e.len),
                                              Access("write", rd, e.len) >>) >>

-----------------------------------------------------------------------------
(* The instructions whose unit accesses no more than ExecInfo takes into      *)
(* account: vmv is not checked at all, vavg, and vrelu and vvdmul of wide     *)
(* inputs, write more than their checked range, send reads at rd, lldi and    *)
(* lmv take another field for the size.                                       *)

AccessIsChecked(e) ==
  /\ e.op \notin {"vmv", "vavg"}
  /\ e.op \in {"vrelu", "vvdmul"} => input_byte(e) <= output_byte(e)
  /\ e.op = "send" => getFinalRD(e) = getFinalRS1(e)
  /\ e.op = "lldi" => e.len <= 1
  /\ e.op = "lmv"  => e.len <= e.size
=============================================================================
