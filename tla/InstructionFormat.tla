-------------------------- MODULE InstructionFormat -------------------------
(***************************************************************************)
(* The binary instruction record (isa/Instruction.h, isa/Instruction.cpp): *)
(* toBinaryRecord and fromBinaryRecord, and the 20 bytes of a record in    *)
(* the file, little endian.                                                *)
(*                                                                         *)
(* An instruction has the fields of its type; the parts of the C++ struct  *)
(* that belong to other types are null pointers and left out.              *)
(***************************************************************************)
EXTENDS Integers, Sequences

-----------------------------------------------------------------------------
(* Opcodes *)

ScalarOp   == {"sldi", "sld", "sadd", "ssub", "smul", "saddi", "smuli"}
MatrixOp   == {"setbw", "mvmul"}
VectorOp   == {"vvadd", "vvsub", "vvmul", "vvdmul", "vvmax", "vvsll", "vvsra", "vavg",
               "vrelu", "vtanh", "vsigm", "vmv", "vrsu", "vrsl"}
TransferOp == {"ld", "st", "lldi", "lmv", "send", "recv", "wait", "sync"}
Opcode == {"nop"} \cup ScalarOp \cup MatrixOp \cup VectorOp \cup TransferOp

\* The code of an opcode is its place, from 0; vsoftmax is not supported.
CodeTable == <<
  "nop", "sldi", "sld", "sadd", "ssub", "smul", "saddi", "smuli", "setbw", "mvmul",
  "vvadd", "vvsub", "vvmul", "vvdmul", "vvmax", "vvsll", "vvsra", "vavg", "vrelu", "vtanh",
  "vsigm", "vsoftmax", "vmv", "vrsu", "vrsl", "ld", "st", "lldi", "lmv", "send",
  "recv", "wait", "sync">>

decodeBinaryOpcode(c) == CodeTable[c + 1]
BinaryOpcode == {c \in 0..32 : c # 21}
encodeBinaryOpcode(op) == CHOOSE c \in BinaryOpcode : decodeBinaryOpcode(c) = op

-----------------------------------------------------------------------------
(* Instructions and records *)

\* The literals are 2^31 and, below, 2^32: the prover does not expand a power.
Int32 == {v \in Int : -2147483648 <= v /\ v <= 2147483647}
Byte == 0..255

ScalarField   == [imm: Int32, offset_value: Int32]
MatrixField   == [mbiw: Int32, group: Int32, relu: Int32, ibiw: Int32, obiw: Int32]
VectorField   == [len: Int32, offset_select: Int32, offset_value: Int32]
TransferField == [len: Int32, size: Int32, imm: Int32, core: Int32,
                  offset_select: Int32, offset_value: Int32,
                  wait_value: Int32, event_register: Int32]

NoField == [none |-> 0]
FieldOf(op) ==
  CASE op \in ScalarOp   -> ScalarField
    [] op \in MatrixOp   -> MatrixField
    [] op \in VectorOp   -> VectorField
    [] op \in TransferOp -> TransferField
    [] OTHER -> {NoField}

\* What readInst makes of the JSON form.
IsInstruction(i) ==
  /\ i = [op |-> i.op, rd |-> i.rd, rs1 |-> i.rs1, rs2 |-> i.rs2, field |-> i.field]
  /\ i.op \in Opcode
  /\ i.rd \in Int32 /\ i.rs1 \in Int32 /\ i.rs2 \in Int32
  /\ i.field \in FieldOf(i.op)

InstructionRecord == [opcode: BinaryOpcode, rd: Byte, r1: Byte, flags: Byte, r2_or_imm: Int32,
                      generic1: Int32, generic2: Int32, generic3: Int32]

-----------------------------------------------------------------------------
(* toBinaryRecord: what each type puts into the words of the record *)

Words(a, b, c, d) == [r2_or_imm |-> a, generic1 |-> b, generic2 |-> c, generic3 |-> d]

ScalarWords(f) == Words(f.imm, 0, f.offset_value, 0)

MatrixWords(op, f) ==
  IF op = "setbw" THEN Words(0, f.ibiw, f.obiw, 0) ELSE Words(f.mbiw, f.relu, f.group, 0)

VectorWords(rs2, f) == Words(rs2, f.offset_select, f.offset_value, f.len)

TransferWords(op, f) ==
  Words(IF op \in {"send", "recv", "sync"} THEN f.core ELSE IF op = "lldi" THEN f.imm ELSE 0,
        IF op \in {"sync", "wait"} THEN f.event_register ELSE f.offset_select,
        IF op = "wait" THEN f.wait_value ELSE f.offset_value,
        IF f.len # 0 THEN f.len ELSE f.size)

WordsOf(i) ==
  CASE i.op \in ScalarOp   -> ScalarWords(i.field)
    [] i.op \in MatrixOp   -> MatrixWords(i.op, i.field)
    [] i.op \in VectorOp   -> VectorWords(i.rs2, i.field)
    [] i.op \in TransferOp -> TransferWords(i.op, i.field)
    [] OTHER -> Words(0, 0, 0, 0)

\* The register addresses are cut to a byte.
toBinaryRecord(i) ==
  LET w == WordsOf(i) IN
  [opcode |-> encodeBinaryOpcode(i.op), rd |-> i.rd % 256, r1 |-> i.rs1 % 256, flags |-> 0,
   r2_or_imm |-> w.r2_or_imm,
   generic1 |-> w.generic1, generic2 |-> w.generic2, generic3 |-> w.generic3]

-----------------------------------------------------------------------------
(* fromBinaryRecord *)

ToScalar(r) == [imm |-> r.r2_or_imm, offset_value |-> r.generic2]

ToMatrix(op, r) ==
  IF op = "setbw"
  THEN [mbiw |-> 0, group |-> 0, relu |-> 0, ibiw |-> r.generic1, obiw |-> r.generic2]
  ELSE [mbiw |-> r.r2_or_imm, group |-> r.generic2, relu |-> r.generic1, ibiw |-> 0, obiw |-> 0]

ToVector(r) ==
  [len |-> r.generic3, offset_select |-> r.generic1, offset_value |-> r.generic2]

ToTransfer(op, r) ==
  LET signal == op \in {"wait", "sync"}
      sized  == op \in {"ld", "st", "send", "recv"}
  IN [len  |-> IF signal \/ sized THEN 0 ELSE r.generic3,
      size |-> IF sized THEN r.generic3 ELSE 0,
      imm  |-> IF op = "lldi" THEN r.r2_or_imm ELSE 0,
      core |-> IF op \in {"send", "recv", "sync"} THEN r.r2_or_imm ELSE 0,
      offset_select |-> IF signal THEN 0 ELSE r.generic1,
      offset_value  |-> IF signal THEN 0 ELSE r.generic2,
      wait_value |-> IF op = "wait" THEN r.generic2 ELSE 0,
      event_register |-> IF signal THEN r.generic1 ELSE 0]

FieldFrom(op, r) ==
  CASE op \in ScalarOp   -> ToScalar(r)
    [] op \in MatrixOp   -> ToMatrix(op, r)
    [] op \in VectorOp   -> ToVector(r)
    [] op \in TransferOp -> ToTransfer(op, r)
    [] OTHER -> NoField

fromBinaryRecord(r) ==
  LET op == decodeBinaryOpcode(r.opcode) IN
  [op |-> op, rd |-> r.rd, rs1 |-> r.r1,
   rs2 |-> IF op \in VectorOp THEN r.r2_or_imm ELSE 0,
   field |-> FieldFrom(op, r)]

-----------------------------------------------------------------------------
(* The bytes of the file.  writeScalarLE and readScalarLE of a word; int32 is  *)
(* converted to and from uint32.                                               *)

UInt32(v) == IF v < 0 THEN v + 4294967296 ELSE v
ToInt32(u) == IF u >= 2147483648 THEN u - 4294967296 ELSE u

writeScalarLE(v) ==
  LET raw == UInt32(v) IN
  <<raw % 256, (raw \div 256) % 256, (raw \div 65536) % 256, (raw \div 16777216) % 256>>
readScalarLE(b) == ToInt32(b[1] + 256 * b[2] + 65536 * b[3] + 16777216 * b[4])

WriteRecord(r) ==
  [head |-> <<r.opcode, r.rd, r.r1, r.flags>>,
   words |-> <<writeScalarLE(r.r2_or_imm), writeScalarLE(r.generic1),
               writeScalarLE(r.generic2), writeScalarLE(r.generic3)>>]
ReadRecord(bytes) ==
  [opcode |-> bytes.head[1], rd |-> bytes.head[2], r1 |-> bytes.head[3],
   flags |-> bytes.head[4], r2_or_imm |-> readScalarLE(bytes.words[1]),
   generic1 |-> readScalarLE(bytes.words[2]), generic2 |-> readScalarLE(bytes.words[3]),
   generic3 |-> readScalarLE(bytes.words[4])]

\* An instruction written to the file and read back.
ReadBack(i) == fromBinaryRecord(ReadRecord(WriteRecord(toBinaryRecord(i))))

-----------------------------------------------------------------------------
(* What the record has room for: the fields an opcode uses, a length or a size *)
(* as the opcode wants it, rs2 of vector instructions only.                    *)

Unused(op) ==
  CASE op = "setbw" -> {"mbiw", "group", "relu"}
    [] op = "mvmul" -> {"ibiw", "obiw"}
    [] op \in {"ld", "st"} -> {"len", "imm", "core", "wait_value", "event_register"}
    [] op \in {"send", "recv"} -> {"len", "imm", "wait_value", "event_register"}
    [] op = "lldi" -> {"size", "core", "wait_value", "event_register"}
    [] op = "lmv"  -> {"size", "imm", "core", "wait_value", "event_register"}
    [] op = "sync" -> {"len", "size", "imm", "offset_select", "offset_value", "wait_value"}
    [] op = "wait" -> {"len", "size", "imm", "core", "offset_select", "offset_value"}
    [] OTHER -> {}

Representable(i) ==
  /\ i.rd \in Byte /\ i.rs1 \in Byte
  /\ i.op \notin VectorOp => i.rs2 = 0
  /\ \A name \in Unused(i.op) : i.field[name] = 0
=============================================================================
