-------------------------------- MODULE RecordProofs ------------------------
(***************************************************************************)
(* What the binary record keeps of an instruction and what it loses, and   *)
(* that the time in the records of the executed instructions is shared.    *)
(***************************************************************************)
EXTENDS InstructionFormat, PerformanceCounter, TLAPS

-----------------------------------------------------------------------------
(* The opcode table *)

\* Every opcode has a code, and the code stands for it.
LEMMA DecodeEncode ==
  ASSUME NEW op \in Opcode
  PROVE  /\ encodeBinaryOpcode(op) \in BinaryOpcode
         /\ decodeBinaryOpcode(encodeBinaryOpcode(op)) = op
<1>1. \A o \in Opcode : \E c \in BinaryOpcode : decodeBinaryOpcode(c) = o
  <2>1. \A o \in Opcode : \E c \in 0..32 : c # 21 /\ CodeTable[c + 1] = o
    BY DEF Opcode, ScalarOp, MatrixOp, VectorOp, TransferOp, CodeTable
  <2> QED BY <2>1 DEF BinaryOpcode, decodeBinaryOpcode
<1> QED BY <1>1 DEF encodeBinaryOpcode

\* A code stands for an opcode.
LEMMA DecodeType ==
  ASSUME NEW c \in BinaryOpcode
  PROVE  decodeBinaryOpcode(c) \in Opcode
BY DEF Opcode, ScalarOp, MatrixOp, VectorOp, TransferOp, BinaryOpcode, decodeBinaryOpcode,
       CodeTable

\* An opcode has one type.
LEMMA OneType ==
  /\ ScalarOp \cap MatrixOp = {} /\ ScalarOp \cap VectorOp = {} /\ ScalarOp \cap TransferOp = {}
  /\ MatrixOp \cap VectorOp = {} /\ MatrixOp \cap TransferOp = {}
  /\ VectorOp \cap TransferOp = {}
  /\ "nop" \notin ScalarOp \cup MatrixOp \cup VectorOp \cup TransferOp
BY DEF ScalarOp, MatrixOp, VectorOp, TransferOp

-----------------------------------------------------------------------------
(* The bytes *)

\* Four bytes hold an unsigned word.
LEMMA FourBytes ==
  ASSUME NEW u \in Int, 0 <= u, u < 4294967296
  PROVE  u = (u % 256) + 256 * ((u \div 256) % 256) + 65536 * ((u \div 65536) % 256)
               + 16777216 * ((u \div 16777216) % 256)
BY SMT

\* The bytes of a signed word give it back.
LEMMA WordReadBack ==
  ASSUME NEW v \in Int32
  PROVE  readScalarLE(writeScalarLE(v)) = v
<1>1. /\ UInt32(v) \in Int /\ 0 <= UInt32(v) /\ UInt32(v) < 4294967296
      /\ ToInt32(UInt32(v)) = v
  BY SMT DEF Int32, UInt32, ToInt32
<1> QED BY <1>1, FourBytes, SMT DEF readScalarLE, writeScalarLE

\* A record written to the file is the record read from it.
LEMMA RecordReadBack ==
  ASSUME NEW r \in InstructionRecord
  PROVE  ReadRecord(WriteRecord(r)) = r
<1>1. /\ readScalarLE(writeScalarLE(r.r2_or_imm)) = r.r2_or_imm
      /\ readScalarLE(writeScalarLE(r.generic1)) = r.generic1
      /\ readScalarLE(writeScalarLE(r.generic2)) = r.generic2
      /\ readScalarLE(writeScalarLE(r.generic3)) = r.generic3
  BY WordReadBack DEF InstructionRecord
<1> QED BY <1>1 DEF InstructionRecord, ReadRecord, WriteRecord

-----------------------------------------------------------------------------
(* The words: what an opcode uses comes back *)

\* The words of an instruction are words.
LEMMA WordsType ==
  ASSUME NEW i, IsInstruction(i)
  PROVE  WordsOf(i) \in [r2_or_imm: Int32, generic1: Int32, generic2: Int32, generic3: Int32]
<1>0. 0 \in Int32
  BY SMT DEF Int32
<1>1. CASE i.op \in ScalarOp
  BY <1>0, <1>1, OneType DEF IsInstruction, FieldOf, ScalarField, WordsOf, ScalarWords, Words
<1>2. CASE i.op \in MatrixOp
  BY <1>0, <1>2, OneType DEF IsInstruction, FieldOf, MatrixField, WordsOf, MatrixWords, Words
<1>3. CASE i.op \in VectorOp
  BY <1>0, <1>3, OneType DEF IsInstruction, FieldOf, VectorField, WordsOf, VectorWords, Words
<1>4. CASE i.op \in TransferOp
  BY <1>0, <1>4, OneType DEF IsInstruction, FieldOf, TransferField, WordsOf, TransferWords, Words
<1>5. CASE i.op = "nop"
  BY <1>0, <1>5, OneType DEF WordsOf, Words
<1> QED BY <1>1, <1>2, <1>3, <1>4, <1>5 DEF IsInstruction, Opcode

\* What is read back is the record's instruction; the file takes nothing away.
LEMMA FileIsTransparent ==
  ASSUME NEW i, IsInstruction(i)
  PROVE  LET w == WordsOf(i)
             r == [opcode |-> encodeBinaryOpcode(i.op), rd |-> i.rd % 256, r1 |-> i.rs1 % 256,
                   flags |-> 0, r2_or_imm |-> w.r2_or_imm, generic1 |-> w.generic1,
                   generic2 |-> w.generic2, generic3 |-> w.generic3]
         IN /\ r \in InstructionRecord
            /\ ReadBack(i) = [op |-> i.op, rd |-> i.rd % 256, rs1 |-> i.rs1 % 256,
                              rs2 |-> IF i.op \in VectorOp THEN w.r2_or_imm ELSE 0,
                              field |-> FieldFrom(i.op, r)]
<1> DEFINE r == toBinaryRecord(i)
<1>1. r \in InstructionRecord
  <2>1. i.rd % 256 \in Byte /\ i.rs1 % 256 \in Byte /\ 0 \in Byte
    BY SMT DEF IsInstruction, Int32, Byte
  <2>2. encodeBinaryOpcode(i.op) \in BinaryOpcode
    BY DecodeEncode DEF IsInstruction
  <2> QED BY <2>1, <2>2, WordsType DEF InstructionRecord, toBinaryRecord
<1>2. ReadRecord(WriteRecord(r)) = r
  BY <1>1, RecordReadBack
<1>3. decodeBinaryOpcode(r.opcode) = i.op
  BY DecodeEncode DEF toBinaryRecord, IsInstruction
<1> QED BY <1>1, <1>2, <1>3 DEF ReadBack, fromBinaryRecord, toBinaryRecord

\* The fields come back, if the record has room for them.
LEMMA FieldReadBack ==
  ASSUME NEW i, IsInstruction(i), Representable(i),
         NEW r, r.r2_or_imm = WordsOf(i).r2_or_imm, r.generic1 = WordsOf(i).generic1,
         r.generic2 = WordsOf(i).generic2, r.generic3 = WordsOf(i).generic3
  PROVE  FieldFrom(i.op, r) = i.field
<1>1. CASE i.op \in ScalarOp
  BY <1>1, OneType DEF IsInstruction, FieldOf, ScalarField, WordsOf, ScalarWords, Words,
                       FieldFrom, ToScalar
<1>2. CASE i.op \in MatrixOp
  <2>1. i.field \in MatrixField /\ FieldFrom(i.op, r) = ToMatrix(i.op, r)
    BY <1>2, OneType DEF IsInstruction, FieldOf, FieldFrom
  <2>2. WordsOf(i) = MatrixWords(i.op, i.field)
    BY <1>2, OneType DEF WordsOf
  <2>3. CASE i.op = "setbw"
    <3>1. i.field.mbiw = 0 /\ i.field.group = 0 /\ i.field.relu = 0
      BY <2>3 DEF Representable, Unused
    <3> QED BY <2>1, <2>2, <2>3, <3>1 DEF MatrixField, MatrixWords, Words, ToMatrix
  <2>4. CASE i.op = "mvmul"
    <3>1. i.field.ibiw = 0 /\ i.field.obiw = 0
      BY <2>4 DEF Representable, Unused
    <3> QED BY <2>1, <2>2, <2>4, <3>1 DEF MatrixField, MatrixWords, Words, ToMatrix
  <2> QED BY <1>2, <2>3, <2>4 DEF MatrixOp
<1>3. CASE i.op \in VectorOp
  BY <1>3, OneType DEF IsInstruction, FieldOf, VectorField, WordsOf, VectorWords, Words,
                       FieldFrom, ToVector
<1>4. CASE i.op \in TransferOp
  <2>1. i.field \in TransferField /\ FieldFrom(i.op, r) = ToTransfer(i.op, r)
    BY <1>4, OneType DEF IsInstruction, FieldOf, FieldFrom
  <2>2. WordsOf(i) = TransferWords(i.op, i.field)
    BY <1>4, OneType DEF WordsOf
  <2>3. CASE i.op \in {"ld", "st"}
    <3>1. /\ i.field.len = 0 /\ i.field.imm = 0 /\ i.field.core = 0
          /\ i.field.wait_value = 0 /\ i.field.event_register = 0
      BY <2>3 DEF Representable, Unused
    <3> QED BY <2>1, <2>2, <2>3, <3>1 DEF TransferField, TransferWords, Words, ToTransfer
  <2>4. CASE i.op \in {"send", "recv"}
    <3>1. /\ i.field.len = 0 /\ i.field.imm = 0 /\ i.field.wait_value = 0
          /\ i.field.event_register = 0
      BY <2>4 DEF Representable, Unused
    <3> QED BY <2>1, <2>2, <2>4, <3>1 DEF TransferField, TransferWords, Words, ToTransfer
  <2>5. CASE i.op = "lldi"
    <3>1. /\ i.field.size = 0 /\ i.field.core = 0 /\ i.field.wait_value = 0
          /\ i.field.event_register = 0
      BY <2>5 DEF Representable, Unused
    <3> QED BY <2>1, <2>2, <2>5, <3>1 DEF TransferField, TransferWords, Words, ToTransfer
  <2>6. CASE i.op = "lmv"
    <3>1. /\ i.field.size = 0 /\ i.field.imm = 0 /\ i.field.core = 0
          /\ i.field.wait_value = 0 /\ i.field.event_register = 0
      BY <2>6 DEF Representable, Unused
    <3> QED BY <2>1, <2>2, <2>6, <3>1 DEF TransferField, TransferWords, Words, ToTransfer
  <2>7. CASE i.op = "sync"
    <3>1. /\ i.field.len = 0 /\ i.field.size = 0 /\ i.field.imm = 0
          /\ i.field.offset_select = 0 /\ i.field.offset_value = 0 /\ i.field.wait_value = 0
      BY <2>7 DEF Representable, Unused
    <3> QED BY <2>1, <2>2, <2>7, <3>1 DEF TransferField, TransferWords, Words, ToTransfer
  <2>8. CASE i.op = "wait"
    <3>1. /\ i.field.len = 0 /\ i.field.size = 0 /\ i.field.imm = 0
          /\ i.field.core = 0 /\ i.field.offset_select = 0 /\ i.field.offset_value = 0
      BY <2>8 DEF Representable, Unused
    <3> QED BY <2>1, <2>2, <2>8, <3>1 DEF TransferField, TransferWords, Words, ToTransfer
  <2> QED BY <1>4, <2>3, <2>4, <2>5, <2>6, <2>7, <2>8 DEF TransferOp
<1>5. CASE i.op = "nop"
  BY <1>5, OneType DEF IsInstruction, FieldOf, FieldFrom
<1> QED BY <1>1, <1>2, <1>3, <1>4, <1>5 DEF IsInstruction, Opcode

-----------------------------------------------------------------------------
(* The round trip *)

\* An instruction that the record has room for is the same after toBinaryRecord,
\* the file and fromBinaryRecord: isa/Instruction.cpp 137-254, 270-310.
THEOREM RecordIsLossless ==
  ASSUME NEW i, IsInstruction(i), Representable(i)
  PROVE  ReadBack(i) = i
<1> DEFINE w == WordsOf(i)
           r == [opcode |-> encodeBinaryOpcode(i.op), rd |-> i.rd % 256, r1 |-> i.rs1 % 256,
                 flags |-> 0, r2_or_imm |-> w.r2_or_imm, generic1 |-> w.generic1,
                 generic2 |-> w.generic2, generic3 |-> w.generic3]
<1>1. ReadBack(i) = [op |-> i.op, rd |-> i.rd % 256, rs1 |-> i.rs1 % 256,
                     rs2 |-> IF i.op \in VectorOp THEN w.r2_or_imm ELSE 0,
                     field |-> FieldFrom(i.op, r)]
  BY FileIsTransparent
<1>2. i.rd % 256 = i.rd /\ i.rs1 % 256 = i.rs1
  BY SMT DEF Representable, Byte
<1>3. FieldFrom(i.op, r) = i.field
  BY FieldReadBack
<1>4. (IF i.op \in VectorOp THEN w.r2_or_imm ELSE 0) = i.rs2
  BY OneType DEF Representable, WordsOf, VectorWords, Words
<1>5. i = [op |-> i.op, rd |-> i.rd, rs1 |-> i.rs1, rs2 |-> i.rs2, field |-> i.field]
  BY DEF IsInstruction
<1> QED BY <1>1, <1>2, <1>3, <1>4, <1>5

\* sadd, ssub and smul need two source registers, and the record has no place for
\* the second: every scalar instruction comes back with rs2 = 0
\* (isa/Instruction.cpp 144-149 and 203-207).
THEOREM ScalarLosesRs2 ==
  ASSUME NEW i, IsInstruction(i), i.op \in ScalarOp, i.rd \in Byte, i.rs1 \in Byte
  PROVE  ReadBack(i) = [i EXCEPT !.rs2 = 0]
<1> DEFINE j == [i EXCEPT !.rs2 = 0]
<1>1. j = [op |-> i.op, rd |-> i.rd, rs1 |-> i.rs1, rs2 |-> 0, field |-> i.field]
  BY DEF IsInstruction
<1>2. IsInstruction(j)
  <2>1. 0 \in Int32
    BY SMT DEF Int32
  <2> QED BY <1>1, <2>1 DEF IsInstruction
<1>3. Representable(j)
  <2>1. Unused(i.op) = {}
    BY SMT DEF Unused, ScalarOp
  <2> QED BY <1>1, <2>1 DEF Representable
<1>4. ReadBack(j) = j
  BY <1>2, <1>3, RecordIsLossless
<1>5. toBinaryRecord(i) = toBinaryRecord(j)
  BY <1>1, OneType DEF toBinaryRecord, WordsOf, ScalarWords
<1> QED BY <1>4, <1>5 DEF ReadBack

\* What a file holds is representable, so converting it again loses nothing more.
THEOREM SecondConversionIsLossless ==
  ASSUME NEW r \in InstructionRecord
  PROVE  ReadBack(fromBinaryRecord(r)) = fromBinaryRecord(r)
<1> DEFINE i == fromBinaryRecord(r)
           op == decodeBinaryOpcode(r.opcode)
<1>1. op \in Opcode
  BY DecodeType DEF InstructionRecord
<1>2. \A b \in Byte : b \in Int32
  BY SMT DEF Byte, Int32
<1>3. 0 \in Int32 /\ 0 \in Byte
  BY SMT DEF Int32, Byte
<1>4. FieldFrom(op, r) \in FieldOf(op) /\ \A name \in Unused(op) : FieldFrom(op, r)[name] = 0
  <2>1. CASE op \in ScalarOp
    <3>1. Unused(op) = {}
      BY <2>1, SMT DEF Unused, ScalarOp
    <3> QED BY <1>3, <2>1, <3>1, OneType
            DEF FieldFrom, FieldOf, ToScalar, ScalarField, InstructionRecord
  <2>2. CASE op \in MatrixOp
    <3>1. FieldFrom(op, r) = ToMatrix(op, r) /\ FieldOf(op) = MatrixField
      BY <2>2, OneType DEF FieldFrom, FieldOf
    <3>2. ToMatrix(op, r) \in MatrixField
      BY <1>3 DEF ToMatrix, MatrixField, InstructionRecord
    <3>3. \A name \in Unused(op) : ToMatrix(op, r)[name] = 0
      BY <2>2 DEF Unused, MatrixOp, ToMatrix
    <3> QED BY <3>1, <3>2, <3>3
  <2>3. CASE op \in VectorOp
    <3>1. Unused(op) = {}
      BY <2>3, SMT DEF Unused, VectorOp
    <3> QED BY <1>3, <2>3, <3>1, OneType
            DEF FieldFrom, FieldOf, ToVector, VectorField, InstructionRecord
  <2>4. CASE op \in TransferOp
    <3>1. FieldFrom(op, r) = ToTransfer(op, r) /\ FieldOf(op) = TransferField
      BY <2>4, OneType DEF FieldFrom, FieldOf
    <3>2. ToTransfer(op, r) \in TransferField
      BY <1>3 DEF ToTransfer, TransferField, InstructionRecord
    <3>3. \A name \in Unused(op) : ToTransfer(op, r)[name] = 0
      <4>1. CASE op \in {"ld", "st"}
        BY <4>1 DEF Unused, ToTransfer
      <4>2. CASE op \in {"send", "recv"}
        BY <4>2 DEF Unused, ToTransfer
      <4>3. CASE op = "lldi"
        BY <4>3 DEF Unused, ToTransfer
      <4>4. CASE op = "lmv"
        BY <4>4 DEF Unused, ToTransfer
      <4>5. CASE op = "sync"
        BY <4>5 DEF Unused, ToTransfer
      <4>6. CASE op = "wait"
        BY <4>6 DEF Unused, ToTransfer
      <4> QED BY <2>4, <4>1, <4>2, <4>3, <4>4, <4>5, <4>6 DEF TransferOp
    <3> QED BY <3>1, <3>2, <3>3
  <2>5. CASE op = "nop"
    <3>1. Unused(op) = {}
      BY <2>5, SMT DEF Unused
    <3> QED BY <2>5, <3>1, OneType DEF FieldFrom, FieldOf
  <2> QED BY <1>1, <2>1, <2>2, <2>3, <2>4, <2>5 DEF Opcode
<1>5. IsInstruction(i)
  BY <1>1, <1>2, <1>3, <1>4 DEF IsInstruction, fromBinaryRecord, InstructionRecord
<1>6. Representable(i)
  BY <1>3, <1>4 DEF Representable, fromBinaryRecord, InstructionRecord
<1> QED BY <1>5, <1>6, RecordIsLossless

-----------------------------------------------------------------------------
(* The weighted statistics are right for any set of executed instructions *)

Past == {t \in Nat : t < cur_time}

\* The heaps hold what their names say, so that the top is never overdue.
Inv ==
  /\ inst_traces \in [Id -> Trace]
  /\ cur_time \in Nat
  /\ start_queue = {i \in Id : cur_time <= Start[i]}
  /\ end_queue = {i \in Id : Start[i] < cur_time /\ cur_time <= End[i]}
  /\ weighted_time = [i \in Id |-> Share(i, Past)]

LEMMA InitInv == Init => Inv
<1> SUFFICES ASSUME Init PROVE Inv
  OBVIOUS
<1>1. \A i \in Id : Start[i] \in Nat
  BY DEF Init, Trace, Start
<1>2. Past = {}
  BY DEF Init, Past
<1>3. \A i \in Id : Share(i, Past) = {}
  BY <1>2 DEF Share
<1>4. QED
  BY <1>1, <1>3 DEF Init, Inv

LEMMA NextInv == Inv /\ [Loop]_vars => Inv'
<1> SUFFICES ASSUME Inv, [Loop]_vars PROVE Inv'
  OBVIOUS
<1>1. CASE Loop
  <2> DEFINE started == Taken(start_queue, Start)
             running == end_queue \cup started
  <2>1. \A i \in Id : Start[i] \in Nat /\ End[i] \in Nat /\ Start[i] <= End[i]
    BY DEF Inv, Trace, Start, End
  <2>2. started = {i \in Id : Start[i] = cur_time}
    BY <2>1 DEF Inv, Taken
  <2>3. running = Running(cur_time)
    <3>1. ASSUME NEW i \in Id
          PROVE  i \in running <=> Start[i] <= cur_time /\ cur_time <= End[i]
      <4>1. i \in started <=> Start[i] = cur_time
        BY <2>2
      <4>2. i \in end_queue <=> Start[i] < cur_time /\ cur_time <= End[i]
        BY DEF Inv
      <4>3. cur_time \in Nat /\ Start[i] \in Nat /\ End[i] \in Nat /\ Start[i] <= End[i]
        BY <2>1 DEF Inv
      <4>4. Start[i] <= cur_time <=> Start[i] < cur_time \/ Start[i] = cur_time
        BY <4>3
      <4>5. i \in running <=> i \in started \/ i \in end_queue
        OBVIOUS
      <4>6. QED
        BY <4>1, <4>2, <4>3, <4>4, <4>5
    <3>2. running \subseteq Id
      BY <2>2 DEF Inv
    <3>3. QED
      BY <3>1, <3>2 DEF Running
  <2>4. Taken(running, End) = {i \in running : End[i] = cur_time}
    BY <2>1, <2>3 DEF Inv, Taken, Running
  <2>5. /\ cur_time' = cur_time + 1
        /\ start_queue' = start_queue \ started
        /\ end_queue' = running \ Taken(running, End)
        /\ Start' = Start /\ End' = End
    BY <1>1 DEF Loop, Start, End
  <2>6. start_queue' = {i \in Id : cur_time' <= Start[i]'}
    <3>1. \A i \in Id : cur_time + 1 <= Start[i] <=> cur_time <= Start[i] /\ Start[i] # cur_time
      BY <2>1 DEF Inv
    <3>2. QED
      BY <2>2, <2>5, <3>1 DEF Inv
  <2>7. end_queue' = {i \in Id : Start[i]' < cur_time' /\ cur_time' <= End[i]'}
    <3>1. \A i \in Id : /\ Start[i] < cur_time + 1 <=> Start[i] <= cur_time
                        /\ cur_time + 1 <= End[i] <=> cur_time <= End[i] /\ End[i] # cur_time
      BY <2>1 DEF Inv
    <3>2. QED
      BY <2>3, <2>4, <2>5, <3>1 DEF Running
  <2>8. \A i \in Id : Share(i, Past)' = IF i \in running
                                        THEN Share(i, Past) \cup {<<cur_time, Cardinality(running)>>}
                                        ELSE Share(i, Past)
    <3>1. \A t : Running(t)' = Running(t)
      BY <2>5 DEF Running
    <3>2. Past' = Past \cup {cur_time}
      BY <1>1 DEF Loop, Inv, Past
    <3>3. ASSUME NEW i \in Id
          PROVE  {u \in Past' : i \in Running(u)} =
                   {u \in Past : i \in Running(u)} \cup
                   IF i \in Running(cur_time) THEN {cur_time} ELSE {}
      BY <3>2
    <3>4. QED
      BY <2>3, <3>1, <3>3 DEF Share
  <2>9. weighted_time' = [i \in Id |-> Share(i, Past)']
    BY <1>1, <2>8 DEF Loop, Inv
  <2>10. inst_traces' \in [Id -> Trace] /\ cur_time' \in Nat
    BY <1>1 DEF Loop, Inv
  <2>11. QED
    BY <2>6, <2>7, <2>9, <2>10 DEF Inv
<1>2. CASE UNCHANGED vars
  BY <1>2 DEF vars, Inv, Start, End, Share, Running, Past
<1>3. QED
  BY <1>1, <1>2

\* PerformanceCounter.cpp:43-82: the time that the report gives to the instructions of
\* each kind is the sum of their shares, from their start to their end inclusive.
THEOREM WeightedTimeIsShared == Spec => []TimeIsShared
<1>1. Inv => TimeIsShared
  <2> SUFFICES ASSUME Inv, start_queue = {}, end_queue = {}, NEW i \in Id
               PROVE  weighted_time[i] = Share(i, Nat)
    BY DEF TimeIsShared
  <2>1. Start[i] \in Nat /\ End[i] \in Nat /\ Start[i] <= End[i]
    BY DEF Inv, Trace, Start, End
  <2>2. End[i] < cur_time
    BY <2>1 DEF Inv
  <2>3. {u \in Past : i \in Running(u)} = {u \in Nat : i \in Running(u)}
    BY <2>1, <2>2 DEF Inv, Past, Running
  <2>4. QED
    BY <2>3 DEF Inv, Share
<1>2. QED
  BY <1>1, InitInv, NextInv, PTL DEF Spec
=============================================================================
