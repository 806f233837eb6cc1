----------------------------- MODULE UnitsProofs ----------------------------
(***************************************************************************)
(* OperandsAreStable for every configuration and every workload: the       *)
(* ranges that ExecInfo computes cover what the units access, so that the  *)
(* dispatcher, which compares the ranges, keeps the accesses apart.  Then  *)
(* type correctness: no unit waits for a moment that is over.              *)
(***************************************************************************)
EXTENDS UnitsProps, TLAPS, FiniteSetTheorems, SequenceTheorems

-----------------------------------------------------------------------------
(* Arithmetic *)

LEMMA ProductType ==
  ASSUME NEW a \in Int, NEW b \in Int
  PROVE  /\ a * b \in Int
         /\ a * b = b * a
BY SMT

LEMMA ProductOrder ==
  ASSUME NEW a \in Int, NEW b \in Int, NEW n \in Nat, a <= b
  PROVE  a * n <= b * n
BY SMT

LEMMA ProductOfThree ==
  ASSUME NEW a \in Int, NEW b \in Int, NEW c \in Int
  PROVE  a * b * c \in Int /\ a * b * c = a * c * b
<1>1. (a * b) * c = a * (b * c) /\ (a * c) * b = a * (c * b)
  BY SMT
<1> QED BY <1>1, SMT

LEMMA EighthOfEight ==
  ASSUME NEW a \in Int, NEW b \in Int
  PROVE  8 * a * b \in Int /\ (8 * a * b) \div 8 = a * b
<1>1. a * b \in Int /\ 8 * a * b = 8 * (a * b)
  BY SMT
<1>2. \A n \in Int : (8 * n) \div 8 = n
  BY SMT
<1> QED BY <1>1, <1>2

-----------------------------------------------------------------------------
(* Operands are integers *)

LEMMA MatrixType ==
  MatrixConfig.rows \in Nat /\ MatrixConfig.columns \in Nat /\ MatrixConfig.cell_precision \in Nat
BY UnitsAssumption DEF MatrixUnitConfig

LEMMA OperandType ==
  ASSUME NEW e \in Instruction
  PROVE  /\ input_byte(e) \in Int /\ output_byte(e) \in Int
         /\ getFinalRS1(e) \in Int /\ getFinalRS2(e) \in Int /\ getFinalRD(e) \in Int
         /\ WeightColumns(e) \in Int
<1>1. input_byte(e) \in Int /\ output_byte(e) \in Int
  BY SMT DEF Instruction, input_byte, output_byte, CeilDiv
<1>2. \A x, b : Offset(e, x, b) \in Int
  BY DEF Instruction, Offset
<1>3. getRs1OffsetValue(e) \in Int /\ getRs2OffsetValue(e) \in Int /\ getRdOffsetValue(e) \in Int
  BY <1>2 DEF getRs1OffsetValue, getRs2OffsetValue, getRdOffsetValue
<1>4. /\ input_byte(e) * getRs1OffsetValue(e) \in Int /\ input_byte(e) * getRs2OffsetValue(e) \in Int
      /\ input_byte(e) * getRdOffsetValue(e) \in Int /\ output_byte(e) * getRdOffsetValue(e) \in Int
  BY <1>1, <1>3, ProductType
<1>5. e.rs1_value \in Int /\ e.rs2_value \in Int /\ e.rd_value \in Int
  BY SMT DEF Instruction
<1>6. getFinalRS1(e) \in Int
  BY <1>3, <1>4, <1>5 DEF getFinalRS1
<1>7. getFinalRS2(e) \in Int
  BY <1>3, <1>4, <1>5 DEF getFinalRS2
<1>8. getFinalRD(e) \in Int
  BY <1>3, <1>4, <1>5 DEF getFinalRD
<1>9. WeightColumns(e) \in Int
  <2>1. MatrixConfig.cell_precision * MatrixConfig.columns \in Int
    BY MatrixType, ProductType
  <2>2. e.mbiw \in Nat \ {0}
    BY DEF Instruction
  <2> HIDE DEF Instruction
  <2> QED BY <2>1, <2>2, SMT DEF WeightColumns
<1> QED BY <1>1, <1>6, <1>7, <1>8, <1>9

-----------------------------------------------------------------------------
(* The ranges cover the accesses *)

\* An access lies in a checked range.
Within(a, n, range) == range[1] <= a /\ a + n <= range[2]

\* The access of request r, as Bytes counts it.
SizeOf(e, r) == IF e.op = "mvmul" /\ r.command = "read" THEN r.data_size \div 8 ELSE r.data_size

Ranges(e, command) == IF command = "read" THEN MemoryReadAddr(e) ELSE MemoryWriteAddr(e)

Covered(e, r) ==
  /\ r.addr \in Int /\ SizeOf(e, r) \in Int /\ r.command \in {"read", "write"}
  /\ \E range \in Ranges(e, r.command) :
       /\ range[1] \in Int /\ range[2] \in Int
       /\ Within(r.addr, SizeOf(e, r), range)

\* A request for no more bytes than a range at the same address has is covered.
LEMMA CoveredBy ==
  ASSUME NEW e, NEW command \in {"read", "write"}, NEW a \in Int, NEW n, NEW m \in Int,
         SizeOf(e, Access(command, a, n)) \in Int,
         SizeOf(e, Access(command, a, n)) <= m,
         Bounds(a, m) \in Ranges(e, command)
  PROVE  Covered(e, Access(command, a, n))
<1>1. Bounds(a, m)[1] = a /\ Bounds(a, m)[2] = a + m
  BY DEF Bounds
<1>2. Within(a, SizeOf(e, Access(command, a, n)), Bounds(a, m))
  BY <1>1, SMT DEF Within
<1>3. a + m \in Int
  BY SMT
<1>4. Access(command, a, n).addr = a /\ Access(command, a, n).command = command
  BY DEF Access
<1> QED BY <1>1, <1>2, <1>3, <1>4 DEF Covered

\* Covered accesses of ranges that do not meet have no byte in common.
LEMMA CoveredApart ==
  ASSUME NEW e, NEW f, NEW r, NEW q, Covered(e, r), Covered(f, q),
         ~Meet(Ranges(e, r.command), Ranges(f, q.command))
  PROVE  Bytes(e, r) \cap Bytes(f, q) = {}
<1>1. PICK a \in Ranges(e, r.command) :
        a[1] \in Int /\ a[2] \in Int /\ Within(r.addr, SizeOf(e, r), a)
  BY DEF Covered
<1>2. PICK b \in Ranges(f, q.command) :
        b[1] \in Int /\ b[2] \in Int /\ Within(q.addr, SizeOf(f, q), b)
  BY DEF Covered
<1>3. ~IsOverlap(a, b)
  BY <1>1, <1>2 DEF Meet
<1>4. a[2] < b[1] \/ a[1] > b[2]
  BY <1>3 DEF IsOverlap
<1>5. Bytes(e, r) = r.addr .. (r.addr + SizeOf(e, r) - 1)
  BY DEF Bytes, SizeOf
<1>6. Bytes(f, q) = q.addr .. (q.addr + SizeOf(f, q) - 1)
  BY DEF Bytes, SizeOf
<1>7. r.addr \in Int /\ SizeOf(e, r) \in Int /\ q.addr \in Int /\ SizeOf(f, q) \in Int
  BY DEF Covered
<1>8. r.addr + SizeOf(e, r) <= q.addr - 1 \/ q.addr + SizeOf(f, q) <= r.addr - 1
  BY <1>1, <1>2, <1>4, <1>7, SMT DEF Within
<1>9. \A i, j, m, n \in Int :
        i + m <= j - 1 \/ j + n <= i - 1 => (i .. (i + m - 1)) \cap (j .. (j + n - 1)) = {}
  BY SMT
<1> QED BY <1>5, <1>6, <1>7, <1>8, <1>9

-----------------------------------------------------------------------------
(* The requests of each kind of instruction *)

LEMMA RangeOfTuple ==
  /\ \A a : Range(<<a>>) = {a}
  /\ \A a, b : Range(<<a, b>>) = {a, b}
<1>1. \A a : DOMAIN <<a>> = {1} /\ <<a>>[1] = a
  BY SMT
<1>2. \A a, b : DOMAIN <<a, b>> = {1, 2} /\ <<a, b>>[1] = a /\ <<a, b>>[2] = b
  BY SMT
<1> QED BY <1>1, <1>2 DEF Range

\* The requests of a list of two stages, of a list of one.
LEMMA RequestsOfTwo ==
  ASSUME NEW e, NEW s, NEW t, StagesOf(e) = <<s, t>>
  PROVE  /\ LocalRequests(e) \subseteq Range(s.requests) \cup Range(t.requests)
         /\ s.mem # "local" => LocalRequests(e) \subseteq Range(t.requests)
         /\ t.mem # "local" => LocalRequests(e) \subseteq Range(s.requests)
<1>1. Range(StagesOf(e)) = {s, t}
  BY RangeOfTuple
<1> QED BY <1>1 DEF LocalRequests

LEMMA RequestsOfOne ==
  ASSUME NEW e, NEW s, StagesOf(e) = <<s>>
  PROVE  LocalRequests(e) \subseteq Range(s.requests)
<1>1. Range(StagesOf(e)) = {s}
  BY RangeOfTuple
<1> QED BY <1>1 DEF LocalRequests

LEMMA SizeOfVectorOrTransfer ==
  ASSUME NEW e, e.op # "mvmul", NEW command, NEW a, NEW n
  PROVE  SizeOf(e, Access(command, a, n)) = n
BY DEF SizeOf, Access

LEMMA VectorCovered ==
  ASSUME NEW e \in Instruction, AccessIsChecked(e), e.op \in VectorOp,
         NEW r \in LocalRequests(e)
  PROVE  Covered(e, r)
<1> DEFINE n == input_byte(e) * e.len
           written == (IF e.op \in inst_use_output_byte THEN output_byte(e) ELSE input_byte(e)) * e.len
           src1 == Access("read", getFinalRS1(e), n)
           src2 == Access("read", getFinalRS2(e), n)
           dest == Access("write", getFinalRD(e), written)
           first == Stage(FALSE, "local",
                          IF e.op \in inst_read_double_vector THEN <<src1, src2>> ELSE <<src1>>,
                          VectorCompute(e))
           second == Stage(FALSE, "local", <<dest>>, 0)
<1>1. StagesOf(e) = <<first, second>>
  BY DEF StagesOf, VectorStages
<1>2. Range(second.requests) = {dest}
  BY RangeOfTuple DEF Stage
<1>3. Range(first.requests) = IF e.op \in inst_read_double_vector THEN {src1, src2} ELSE {src1}
  BY RangeOfTuple DEF Stage
<1>4. \/ r = src1
      \/ r = src2 /\ e.op \in inst_read_double_vector
      \/ r = dest
  <2> HIDE DEF first, second, src1, src2, dest
  <2> QED BY <1>1, <1>2, <1>3, RequestsOfTwo
<1>5. /\ e.op # "mvmul" /\ e.op \notin {"lldi", "ld", "lmv", "recv", "st", "send"}
      /\ e.op \notin {"vmv", "vavg"}
  BY DEF VectorOp, inst_read_double_vector, inst_read_single_vector, AccessIsChecked
<1>6. /\ e.len \in Nat /\ n \in Int /\ written \in Int
      /\ n = e.len * input_byte(e)
      /\ input_byte(e) * e.len \in Int /\ output_byte(e) * e.len \in Int
      /\ input_byte(e) * e.len = e.len * input_byte(e)
      /\ output_byte(e) * e.len = e.len * output_byte(e)
  <2>1. e.len \in Nat /\ e.len \in Int
    BY DEF Instruction
  <2>2. input_byte(e) \in Int /\ output_byte(e) \in Int
    BY OperandType
  <2> QED BY <2>1, <2>2, ProductType
<1>7. Bounds(getFinalRS1(e), n) \in Ranges(e, "read")
  BY <1>5, <1>6 DEF Ranges, MemoryReadAddr
<1>8. e.op \in inst_read_double_vector => Bounds(getFinalRS2(e), n) \in Ranges(e, "read")
  BY <1>5, <1>6 DEF Ranges, MemoryReadAddr, inst_read_double_vector, VectorOp
<1>9. PICK m \in Int : written <= m /\ Bounds(getFinalRD(e), m) \in Ranges(e, "write")
  <2>1. CASE e.op \in {"vvadd", "vvsub", "vvmax"}
    <3>1. written = e.len * input_byte(e)
      BY <1>6, <2>1 DEF inst_use_output_byte
    <3>2. Bounds(getFinalRD(e), written) \in Ranges(e, "write")
      BY <2>1, <3>1 DEF Ranges, MemoryWriteAddr
    <3>3. written <= written
      BY <1>6, SMT
    <3> QED BY <1>6, <3>2, <3>3
  <2>2. CASE e.op \notin {"vvadd", "vvsub", "vvmax"}
    <3>1. Bounds(getFinalRD(e), e.len * output_byte(e)) \in Ranges(e, "write")
      BY <1>5, <2>2 DEF Ranges, MemoryWriteAddr
    <3>2. CASE e.op \in inst_use_output_byte
      <4>1. written = e.len * output_byte(e) /\ written <= written
        BY <1>6, <3>2, SMT
      <4> QED BY <1>6, <3>1, <4>1
    <3>3. CASE e.op \notin inst_use_output_byte
      <4>1. e.op \in {"vrelu", "vvdmul"}
        BY <1>5, <2>2, <3>3
           DEF inst_use_output_byte, VectorOp, inst_read_double_vector, inst_read_single_vector
      <4>2. input_byte(e) <= output_byte(e)
        BY <4>1 DEF AccessIsChecked
      <4>3. written <= output_byte(e) * e.len
        BY <1>6, <3>3, <4>2, OperandType, ProductOrder
      <4> QED BY <1>6, <3>1, <4>3
    <3> QED BY <3>2, <3>3
  <2> QED BY <2>1, <2>2
<1>10. n <= n
  BY <1>6, SMT
<1>11. Covered(e, src1)
  <2> HIDE DEF n
  <2> QED BY <1>5, <1>6, <1>7, <1>10, CoveredBy, SizeOfVectorOrTransfer, OperandType
<1>12. e.op \in inst_read_double_vector => Covered(e, src2)
  <2> HIDE DEF n
  <2> QED BY <1>5, <1>6, <1>8, <1>10, CoveredBy, SizeOfVectorOrTransfer, OperandType
<1>13. Covered(e, dest)
  <2> HIDE DEF written
  <2> QED BY <1>5, <1>6, <1>9, CoveredBy, SizeOfVectorOrTransfer, OperandType
<1> QED BY <1>4, <1>11, <1>12, <1>13

LEMMA MatrixCovered ==
  ASSUME NEW e \in Instruction, e.op = "mvmul", NEW r \in LocalRequests(e)
  PROVE  Covered(e, r)
<1> DEFINE read == 8 * MatrixConfig.rows * input_byte(e)
           written == WeightColumns(e) * output_byte(e) * ArrayGroupMap[e.group]
           src == Access("read", getFinalRS1(e), read)
           dest == Access("write", getFinalRD(e), written)
           first == Stage(FALSE, "local", <<src>>,
                          XbarCycles(e.input_bitwidth) * MatrixConfig.period)
           second == Stage(FALSE, "local", <<dest>>, 0)
           m1 == MatrixConfig.rows * input_byte(e)
           m2 == WeightColumns(e) * ArrayGroupMap[e.group] * output_byte(e)
<1>1. e.op \notin VectorOp
  BY DEF VectorOp, inst_read_double_vector, inst_read_single_vector
<1>2. StagesOf(e) = <<first, second>>
  BY DEF StagesOf, MatrixStages, VectorOp, TransferOp, inst_read_double_vector,
         inst_read_single_vector
<1>3. Range(first.requests) = {src} /\ Range(second.requests) = {dest}
  BY RangeOfTuple DEF Stage
<1>4. r = src \/ r = dest
  <2> HIDE DEF first, second, src, dest
  <2> QED BY <1>2, <1>3, RequestsOfTwo
<1>5. /\ m1 \in Int /\ read \div 8 = m1
      /\ m2 \in Int /\ written = m2
  <2>1. /\ MatrixConfig.rows \in Int /\ ArrayGroupMap[e.group] \in Int
        /\ input_byte(e) \in Int /\ output_byte(e) \in Int /\ WeightColumns(e) \in Int
    BY MatrixType, UnitsAssumption, OperandType DEF Instruction
  <2> QED BY <2>1, ProductType, ProductOfThree, EighthOfEight
<1>6. SizeOf(e, src) = m1 /\ SizeOf(e, dest) = m2
  BY <1>5 DEF SizeOf, Access
<1>7. Bounds(getFinalRS1(e), m1) \in Ranges(e, "read")
  BY <1>1 DEF Ranges, MemoryReadAddr
<1>8. Bounds(getFinalRD(e), m2) \in Ranges(e, "write")
  BY <1>1 DEF Ranges, MemoryWriteAddr
<1>9. m1 <= m1 /\ m2 <= m2
  BY <1>5, SMT
<1>10. Covered(e, src) /\ Covered(e, dest)
  <2> HIDE DEF m1, m2, read, written
  <2> QED BY <1>5, <1>6, <1>7, <1>8, <1>9, CoveredBy, OperandType
<1> QED BY <1>4, <1>10

LEMMA TransferCovered ==
  ASSUME NEW e \in Instruction, AccessIsChecked(e), e.op \in TransferOp,
         NEW r \in LocalRequests(e)
  PROVE  Covered(e, r)
<1> DEFINE rs1 == getFinalRS1(e)
           rd == getFinalRD(e)
<1>1. /\ e.size \in Int /\ e.len \in Int /\ e.size <= e.size
      /\ rs1 \in Int /\ rd \in Int /\ 1 \in Int
  BY OperandType, SMT DEF Instruction
<1>2. e.op \notin VectorOp /\ e.op # "mvmul" /\ StagesOf(e) = TransferStages(e)
  BY DEF StagesOf, VectorOp, TransferOp, inst_read_double_vector, inst_read_single_vector
<1>3. CASE e.op = "send"
  <2>1. StagesOf(e) = << Stage(TRUE, "local", << Access("read", rd, e.size) >>, 0) >>
    BY <1>2, <1>3 DEF TransferStages
  <2>2. r = Access("read", rd, e.size)
    BY <2>1, RequestsOfOne, RangeOfTuple DEF Stage
  <2>3. Bounds(rd, e.size) \in Ranges(e, "read")
    BY <1>3, <1>2 DEF Ranges, MemoryReadAddr, AccessIsChecked
  <2> QED BY <2>2, <2>3, <1>1, <1>2, CoveredBy, SizeOfVectorOrTransfer
<1>4. CASE e.op = "recv"
  <2>1. StagesOf(e) = << Stage(TRUE, "local", << Access("write", rd, e.size) >>, 0) >>
    BY <1>2, <1>4 DEF TransferStages
  <2>2. r = Access("write", rd, e.size)
    BY <2>1, RequestsOfOne, RangeOfTuple DEF Stage
  <2>3. Bounds(rd, e.size) \in Ranges(e, "write")
    BY <1>4, <1>2 DEF Ranges, MemoryWriteAddr
  <2> QED BY <2>2, <2>3, <1>1, <1>2, CoveredBy, SizeOfVectorOrTransfer
<1>5. CASE e.op = "ld"
  <2>1. StagesOf(e) = << Stage(TRUE, "global", << Access("read", 0, e.size) >>, 0),
                      Stage(FALSE, "local", << Access("write", rd, e.size) >>, 0) >>
    BY <1>2, <1>5 DEF TransferStages
  <2>2. r = Access("write", rd, e.size)
    BY <2>1, RequestsOfTwo, RangeOfTuple DEF Stage
  <2>3. Bounds(rd, e.size) \in Ranges(e, "write")
    BY <1>5, <1>2 DEF Ranges, MemoryWriteAddr
  <2> QED BY <2>2, <2>3, <1>1, <1>2, CoveredBy, SizeOfVectorOrTransfer
<1>6. CASE e.op = "st"
  <2>1. StagesOf(e) = << Stage(FALSE, "local", << Access("read", rs1, e.size) >>, 0),
                      Stage(TRUE, "global", << Access("write", 0, e.size) >>, 0) >>
    BY <1>2, <1>6 DEF TransferStages
  <2>2. r = Access("read", rs1, e.size)
    BY <2>1, RequestsOfTwo, RangeOfTuple DEF Stage
  <2>3. Bounds(rs1, e.size) \in Ranges(e, "read")
    BY <1>6, <1>2 DEF Ranges, MemoryReadAddr
  <2> QED BY <2>2, <2>3, <1>1, <1>2, CoveredBy, SizeOfVectorOrTransfer
<1>7. CASE e.op = "lldi"
  <2>1. StagesOf(e) = << Stage(FALSE, "local", << Access("write", rd, e.len) >>, 0) >>
    BY <1>2, <1>7 DEF TransferStages
  <2>2. r = Access("write", rd, e.len)
    BY <2>1, RequestsOfOne, RangeOfTuple DEF Stage
  <2>3. Bounds(rd, 1) \in Ranges(e, "write") /\ e.len <= 1
    BY <1>7, <1>2 DEF Ranges, MemoryWriteAddr, AccessIsChecked
  <2> QED BY <2>2, <2>3, <1>1, <1>2, CoveredBy, SizeOfVectorOrTransfer
<1>8. CASE e.op = "lmv"
  <2>1. StagesOf(e) = << Stage(FALSE, "local", << Access("read", rs1, e.len),
                                                 Access("write", rd, e.len) >>, 0) >>
    BY <1>2, <1>8 DEF TransferStages
  <2>2. r = Access("read", rs1, e.len) \/ r = Access("write", rd, e.len)
    BY <2>1, RequestsOfOne, RangeOfTuple DEF Stage
  <2>3. /\ Bounds(rs1, e.size) \in Ranges(e, "read")
        /\ Bounds(rd, e.size) \in Ranges(e, "write")
        /\ e.len <= e.size
    BY <1>8, <1>2 DEF Ranges, MemoryReadAddr, MemoryWriteAddr, AccessIsChecked
  <2> QED BY <2>2, <2>3, <1>1, <1>2, CoveredBy, SizeOfVectorOrTransfer
<1> QED BY <1>3, <1>4, <1>5, <1>6, <1>7, <1>8 DEF TransferOp

\* Every access of every instruction lies in a range that ExecInfo computed for it
\* (setMemoryReadWriteAddr), whatever the widths, lengths and offsets.
THEOREM RangesCoverAccesses ==
  ASSUME NEW e \in Instruction, AccessIsChecked(e), NEW r \in LocalRequests(e)
  PROVE  Covered(e, r)
BY VectorCovered, MatrixCovered, TransferCovered DEF Instruction

-----------------------------------------------------------------------------
(* The dispatcher keeps the ranges of executing instructions apart *)

\* isConflict does not depend on which of two instructions is the older one.
LEMMA ConflictIsSymmetric ==
  ASSUME NEW e, NEW f, ~IsConflict(e, f)
  PROVE  ~IsConflict(f, e)
BY DEF IsConflict, Meet, IsOverlap

ConflictFree ==
  \A c \in Core : \A u, v \in Executing(c) : u # v => ~IsConflict(Executes(u), Executes(v))

IInv ==
  /\ program \in Workloads
  /\ DOMAIN next = Core
  /\ unit \in [Unit -> UnitState]
  /\ \A c \in Core : next[c] \in Nat \ {0}
  /\ \A u \in Unit : unit[u].inst \in {0} \cup DOMAIN program[u[1]]
  /\ ConflictFree

\* What a core executes is in its program.
LEMMA ExecutesType ==
  ASSUME IInv, NEW c \in Core, NEW u \in Executing(c)
  PROVE  Executes(u) \in Instruction /\ AccessIsChecked(Executes(u))
<1>1. /\ u \in Unit /\ u[1] = c
      /\ unit[u].inst \in DOMAIN program[c]
  BY DEF IInv, Executing
<1>2. /\ program[c] \in Seq(Instruction)
      /\ \A i \in DOMAIN program[c] : AccessIsChecked(program[c][i])
  BY WorkloadsAssumption DEF IInv
<1>3. \A i \in DOMAIN program[c] : program[c][i] \in Instruction
  BY <1>2
<1> QED BY <1>1, <1>2, <1>3 DEF Executes, Inst

\* Ranges that are apart keep the bytes apart.
LEMMA ApartIsStable ==
  ASSUME IInv
  PROVE  OperandsAreStable
<1> SUFFICES ASSUME NEW c \in Core, NEW u \in Executing(c), NEW v \in Executing(c), u # v
             PROVE  Touched(Executes(u), "write") \cap Touched(Executes(v), "read") = {}
  BY DEF OperandsAreStable
<1> DEFINE e == Executes(u)
           f == Executes(v)
<1>1. /\ e \in Instruction /\ AccessIsChecked(e)
      /\ f \in Instruction /\ AccessIsChecked(f)
  BY ExecutesType
<1>2. ~Meet(MemoryWriteAddr(e), MemoryReadAddr(f))
  BY DEF IInv, ConflictFree, IsConflict
<1> HIDE DEF e, f
<1>3. ASSUME NEW r \in LocalRequests(e), r.command = "write",
             NEW q \in LocalRequests(f), q.command = "read"
      PROVE  Bytes(e, r) \cap Bytes(f, q) = {}
  <2>1. Covered(e, r) /\ Covered(f, q)
    BY <1>1, <1>3, RangesCoverAccesses
  <2>2. ~Meet(Ranges(e, r.command), Ranges(f, q.command))
    BY <1>2, <1>3 DEF Ranges
  <2> QED BY <2>1, <2>2, CoveredApart
<1>4. Touched(e, "write") \cap Touched(f, "read") = {}
  BY <1>3 DEF Touched
<1> QED BY <1>4 DEF e, f

LEMMA InitIInv == Init => IInv
<1> SUFFICES ASSUME Init PROVE IInv
  OBVIOUS
<1>1. \A c \in Core : Executing(c) = {}
  BY DEF Init, Executing, Idle
<1>2. ConflictFree
  BY <1>1 DEF ConflictFree
<1>3. Idle \in UnitState
  BY DEF Idle, UnitState
<1> QED BY <1>2, <1>3 DEF Init, IInv, Idle

\* A step that starts no instruction, and gives none to a unit that had none.
LEMMA NothingStarts ==
  ASSUME IInv, UNCHANGED <<program, next>>,
         unit' \in [Unit -> UnitState],
         \A u \in Unit : unit'[u].inst \in {0, unit[u].inst}
  PROVE  IInv'
<1>1. ASSUME NEW c \in Core, NEW u \in Executing(c)'
      PROVE  u \in Executing(c) /\ Executes(u)' = Executes(u)
  BY <1>1 DEF Executing, Executes, Inst
<1>2. ConflictFree'
  BY <1>1 DEF ConflictFree, IInv
<1>3. \A u \in Unit : unit'[u].inst \in {0} \cup DOMAIN program[u[1]]
  BY DEF IInv
<1>4. program' = program /\ next' = next
  OBVIOUS
<1> QED BY <1>2, <1>3, <1>4 DEF IInv

LEMMA IssueIInv ==
  ASSUME IInv, NEW c \in Core, Issue(c)
  PROVE  IInv'
<1> DEFINE e == Inst(c, next[c])
           x == UnitOf(c, e)
           state == IF StagesOf(e)[1].remote THEN "remote" ELSE "ready"
<1>1. e \in Instruction /\ next[c] \in Nat \ {0} /\ next[c] \in DOMAIN program[c]
  <2>1. program[c] \in Seq(Instruction)
    BY WorkloadsAssumption DEF IInv
  <2>2. next[c] \in DOMAIN program[c]
    BY DEF Issue
  <2> QED BY <2>1, <2>2 DEF IInv, Inst
<1>2. x \in Unit /\ x[1] = c
  BY <1>1 DEF UnitOf, Unit, Instruction
<1>3. unit' = [unit EXCEPT ![x] = [inst |-> next[c], stage |-> 1, state |-> state]]
  BY DEF Issue
<1>4. /\ unit[x].inst = 0
      /\ \A u \in Executing(c) : ~IsConflict(e, Executes(u))
      /\ next' = [next EXCEPT ![c] = @ + 1] /\ program' = program
  BY DEF Issue
<1> HIDE DEF e, x, state
<1>5. state \in {"ready", "remote"}
  BY DEF state
<1>6. unit' \in [Unit -> UnitState]
  BY <1>1, <1>2, <1>3, <1>5 DEF IInv, UnitState
<1>7. /\ DOMAIN next' = Core
      /\ \A d \in Core : next'[d] \in Nat \ {0}
  BY <1>4 DEF IInv
<1>8. \A u \in Unit : unit'[u].inst \in {0} \cup DOMAIN program'[u[1]]
  BY <1>1, <1>2, <1>3, <1>4 DEF IInv
<1>9. ASSUME NEW d \in Core, NEW u \in Executing(d)'
      PROVE  \/ u # x /\ u \in Executing(d) /\ Executes(u)' = Executes(u)
             \/ u = x /\ d = c /\ Executes(u)' = e
  <2>1. u \in Unit /\ u[1] = d /\ unit'[u].inst # 0
    BY <1>9 DEF Executing
  <2>2. CASE u = x
    <3>1. unit'[x].inst = next[c]
      BY <1>2, <1>3 DEF IInv
    <3> QED BY <1>2, <1>4, <2>1, <2>2, <3>1 DEF Executes, Inst, e
  <2>3. CASE u # x
    <3>1. unit'[u] = unit[u]
      BY <1>3, <2>1, <2>3 DEF IInv
    <3> QED BY <1>4, <2>1, <2>3, <3>1 DEF Executing, Executes, Inst
  <2> QED BY <2>2, <2>3
<1>10. ConflictFree'
  <2> SUFFICES ASSUME NEW d \in Core, NEW u \in Executing(d)', NEW v \in Executing(d)', u # v
               PROVE  ~IsConflict(Executes(u)', Executes(v)')
    BY DEF ConflictFree
  <2>1. CASE u # x /\ v # x
    BY <1>9, <2>1 DEF IInv, ConflictFree
  <2>2. CASE u = x
    BY <1>4, <1>9, <2>2
  <2>3. CASE v = x
    BY <1>4, <1>9, <2>3, ConflictIsSymmetric
  <2> QED BY <2>1, <2>2, <2>3
<1> QED BY <1>4, <1>6, <1>7, <1>8, <1>10 DEF IInv

LEMMA StepIInv == IInv /\ [Next]_vars => IInv'
<1> SUFFICES ASSUME IInv, [Next]_vars PROVE IInv'
  OBVIOUS
<1>1. ASSUME NEW c \in Core, Issue(c) PROVE IInv'
  BY <1>1, IssueIInv
<1>2. ASSUME NEW u \in Unit, Begin(u) PROVE IInv'
  <2>1. unit' = [unit EXCEPT ![u].stage = unit[u].stage, ![u].state = "waiting"]
    BY <1>2 DEF Begin, Transact
  <2>2. unit' \in [Unit -> UnitState]
    BY <2>1 DEF IInv, UnitState
  <2>3. \A v \in Unit : unit'[v].inst \in {0, unit[v].inst}
    BY <2>1 DEF IInv, UnitState
  <2> QED BY <1>2, <2>2, <2>3, NothingStarts DEF Begin
<1>3. ASSUME NEW u \in Unit, Proceed(u) PROVE IInv'
  <2> DEFINE k == unit[u].stage + 1
  <2>1. k \in Nat
    BY DEF IInv, UnitState
  <2>2. \/ unit' = [unit EXCEPT ![u].stage = k, ![u].state = "waiting"]
        \/ unit' = [unit EXCEPT ![u].stage = k, ![u].state = "remote"]
        \/ unit' = [unit EXCEPT ![u] = Idle]
    BY <1>3 DEF Proceed, Transact
  <2>3. UNCHANGED <<program, next>>
    BY <1>3 DEF Proceed
  <2> HIDE DEF k
  <2>4. unit' \in [Unit -> UnitState]
    <3>1. Idle \in UnitState
      BY DEF Idle, UnitState
    <3>2. unit \in [Unit -> UnitState]
      BY DEF IInv
    <3>3. CASE unit' = [unit EXCEPT ![u] = Idle]
      BY <3>1, <3>2, <3>3
    <3>4. CASE unit' = [unit EXCEPT ![u].stage = k, ![u].state = "waiting"]
      BY <2>1, <3>2, <3>4 DEF UnitState
    <3>5. CASE unit' = [unit EXCEPT ![u].stage = k, ![u].state = "remote"]
      BY <2>1, <3>2, <3>5 DEF UnitState
    <3> QED BY <2>2, <3>3, <3>4, <3>5
  <2>5. \A v \in Unit : unit'[v].inst \in {0, unit[v].inst}
    BY <2>2 DEF IInv, Idle, UnitState
  <2> QED BY <2>3, <2>4, <2>5, NothingStarts
<1>4. CASE Tick
  BY <1>4, NothingStarts DEF Tick, IInv
<1>5. CASE UNCHANGED vars
  BY <1>5, NothingStarts DEF vars, IInv
<1> QED BY <1>1, <1>2, <1>3, <1>4, <1>5 DEF Next

\* While an instruction executes, no other unit of the core writes what it reads:
\* for every number of cores and array groups, every configuration of the
\* memories and crossbars, and every program of instructions that ExecInfo
\* checks.
THEOREM OperandsStable == Spec => []OperandsAreStable
<1>1. Init => IInv
  BY InitIInv
<1>2. IInv /\ [Next]_vars => IInv'
  BY StepIInv
<1>3. IInv => OperandsAreStable
  BY ApartIsStable
<1> QED BY <1>1, <1>2, <1>3, PTL DEF Spec

-----------------------------------------------------------------------------
(* Types: the requests of every stage take some time, and no wait lies in  *)
(* the past.                                                               *)

Transactions == [command: {"read", "write"}, addr: Int, data_size: Nat]
Stages == [remote: BOOLEAN, mem: {"local", "global"}, requests: Seq(Transactions), compute: Nat]

\* The stages of an instruction, with one or two requests each.
StagesFit(stages) ==
  /\ stages \in Seq(Stages) /\ Len(stages) \in {1, 2}
  /\ \A k \in DOMAIN stages : Len(stages[k].requests) \in {1, 2}

LEMMA ProductOfNats ==
  ASSUME NEW a \in Nat, NEW b \in Nat
  PROVE  a * b \in Nat
BY SMT

LEMMA CeilDivType ==
  ASSUME NEW a \in Nat, NEW b \in Nat \ {0}
  PROVE  CeilDiv(a, b) \in Nat
BY SMT DEF CeilDiv

LEMMA LatencyType ==
  ASSUME NEW m \in MemoryId, NEW r \in Transactions
  PROVE  Latency(Config(m), r) \in Nat
<1>1. Config(m) \in MemoryConfig
  BY UnitsAssumption DEF Config
<1> DEFINE config == Config(m)
           cycles == IF r.command = "read" THEN config.read_latency_cycle
                                           ELSE config.write_latency_cycle
<1>2. cycles \in Nat /\ config.period \in Nat /\ config.data_width \in Nat \ {0}
  BY <1>1 DEF MemoryConfig
<1>3. CeilDiv(r.data_size, config.data_width) \in Nat
  BY <1>2, CeilDivType DEF Transactions
<1> HIDE DEF config
<1>4. Latency(config, r) = CeilDiv(r.data_size, config.data_width) * cycles * config.period
  BY DEF Latency
<1> HIDE DEF cycles
<1> QED BY <1>2, <1>3, <1>4, ProductOfNats DEF config

LEMMA VectorComputeType ==
  ASSUME NEW e \in Instruction
  PROVE  VectorCompute(e) \in Nat
<1>1. CeilDiv(e.len, vector_width) \in Nat /\ vector_latency_cycle \in Nat
  BY UnitsAssumption, CeilDivType DEF Instruction
<1> QED BY <1>1, ProductOfNats DEF VectorCompute

LEMMA XbarCyclesType ==
  ASSUME NEW n \in Nat
  PROVE  XbarCycles(n) \in Nat
<1> DEFINE c == MatrixConfig
           t == divideWithCeiling(n, c.dac_resolution) * divideWithCeiling(c.rows, c.dac_count)
           front == c.input_buffer + c.dac + c.xbar_read + c.sample_hold
           shift == c.shift_adder + c.output_buffer
           d == divideWithCeiling(c.columns, c.adc_count)
           back == c.adc + shift + (d - 1) * MaxOf(c.adc, shift)
<1>1. \A a, b \in Nat : divideWithCeiling(a, b) \in Nat
  BY SMT DEF divideWithCeiling
<1>2. c \in MatrixUnitConfig
  BY UnitsAssumption
<1>3. t \in Nat
  <2>1. divideWithCeiling(n, c.dac_resolution) \in Nat /\ divideWithCeiling(c.rows, c.dac_count) \in Nat
    BY <1>1, <1>2 DEF MatrixUnitConfig
  <2> QED BY <2>1, ProductOfNats
<1>4. front \in Nat /\ shift \in Nat /\ c.adc \in Nat /\ c.pipeline_mode \in BOOLEAN
  BY <1>2 DEF MatrixUnitConfig
<1>5. d \in Nat
  BY <1>1, <1>2 DEF MatrixUnitConfig
<1>6. \A a, b, k \in Nat : a + b + (k - 1) * MaxOf(a, b) \in Nat
  <2> TAKE a, b, k \in Nat
  <2>1. MaxOf(a, b) \in Nat /\ MaxOf(a, b) <= a + b
    BY DEF MaxOf
  <2>2. CASE k = 0
    BY <2>1, <2>2
  <2>3. CASE k # 0
    <3>1. k - 1 \in Nat
      BY <2>3
    <3>2. (k - 1) * MaxOf(a, b) \in Nat
      BY <2>1, <3>1, ProductOfNats
    <3> QED BY <3>2
  <2> QED BY <2>2, <2>3
<1>7. XbarCycles(n) = IF c.pipeline_mode THEN front + back + (t - 1) * MaxOf(front, back)
                                         ELSE (front + back) * t
  BY DEF XbarCycles
<1>8. back \in Nat
  <2> HIDE DEF shift, d
  <2> QED BY <1>4, <1>5, <1>6
<1> HIDE DEF c, t, front, back
<1>9. (front + back) * t \in Nat
  BY <1>3, <1>4, <1>8, ProductOfNats
<1>10. front + back + (t - 1) * MaxOf(front, back) \in Nat
  BY <1>3, <1>4, <1>6, <1>8
<1> QED BY <1>7, <1>9, <1>10

LEMMA AccessType ==
  ASSUME NEW c \in {"read", "write"}, NEW a \in Int, NEW n \in Nat
  PROVE  Access(c, a, n) \in Transactions
BY DEF Access, Transactions

LEMMA StageType ==
  ASSUME NEW remote \in BOOLEAN, NEW mem \in {"local", "global"}, NEW compute \in Nat,
         NEW r \in Transactions
  PROVE  /\ Stage(remote, mem, <<r>>, compute) \in Stages
         /\ Len(Stage(remote, mem, <<r>>, compute).requests) = 1
         /\ \A q \in Transactions :
              /\ Stage(remote, mem, <<r, q>>, compute) \in Stages
              /\ Len(Stage(remote, mem, <<r, q>>, compute).requests) = 2
<1>1. <<r>> \in Seq(Transactions) /\ Len(<<r>>) = 1
  OBVIOUS
<1>2. \A q \in Transactions : <<r, q>> \in Seq(Transactions) /\ Len(<<r, q>>) = 2
  OBVIOUS
<1> HIDE DEF Transactions
<1> QED BY <1>1, <1>2 DEF Stage, Stages

Fits(s) == s \in Stages /\ Len(s.requests) \in {1, 2}

LEMMA OneOrTwoStages ==
  ASSUME NEW s, NEW t, Fits(s), Fits(t)
  PROVE  StagesFit(<<s>>) /\ StagesFit(<<s, t>>)
<1>1. <<s>> \in Seq(Stages) /\ Len(<<s>>) = 1 /\ DOMAIN <<s>> = {1} /\ <<s>>[1] = s
  BY DEF Fits
<1>2. <<s, t>> \in Seq(Stages) /\ Len(<<s, t>>) = 2
  BY DEF Fits
<1>3. DOMAIN <<s, t>> = {1, 2} /\ <<s, t>>[1] = s /\ <<s, t>>[2] = t
  OBVIOUS
<1> HIDE DEF Stages
<1>4. StagesFit(<<s>>)
  BY <1>1 DEF StagesFit, Fits
<1>5. StagesFit(<<s, t>>)
  BY <1>2, <1>3 DEF StagesFit, Fits
<1> QED BY <1>4, <1>5

LEMMA WidthType ==
  ASSUME NEW e \in Instruction
  PROVE  /\ input_byte(e) \in Nat /\ output_byte(e) \in Nat /\ WeightColumns(e) \in Nat
         /\ e.len \in Nat /\ e.size \in Nat /\ ArrayGroupMap[e.group] \in Nat
         /\ e.input_bitwidth \in Nat
<1>1. /\ e.len \in Nat /\ e.size \in Nat /\ e.input_bitwidth \in Nat
      /\ e.output_bitwidth \in Nat /\ e.mbiw \in Nat \ {0} /\ e.group \in ArrayGroup
  BY DEF Instruction
<1>2. input_byte(e) \in Nat /\ output_byte(e) \in Nat
  BY <1>1, CeilDivType DEF input_byte, output_byte
<1>3. MatrixConfig.cell_precision * MatrixConfig.columns \in Nat
  BY MatrixType, ProductOfNats
<1>4. WeightColumns(e) \in Nat
  BY <1>1, <1>3 DEF WeightColumns
<1> QED BY <1>1, <1>2, <1>4, UnitsAssumption

LEMMA VectorFit ==
  ASSUME NEW e \in Instruction
  PROVE  StagesFit(VectorStages(e, VectorCompute(e)))
<1> DEFINE n == input_byte(e) * e.len
           written == (IF e.op \in inst_use_output_byte THEN output_byte(e) ELSE input_byte(e)) * e.len
           src1 == Access("read", getFinalRS1(e), n)
           src2 == Access("read", getFinalRS2(e), n)
           dest == Access("write", getFinalRD(e), written)
           first == Stage(FALSE, "local",
                          IF e.op \in inst_read_double_vector THEN <<src1, src2>> ELSE <<src1>>,
                          VectorCompute(e))
           second == Stage(FALSE, "local", <<dest>>, 0)
<1>1. VectorStages(e, VectorCompute(e)) = <<first, second>>
  BY DEF VectorStages
<1>2. n \in Nat /\ written \in Nat
  BY WidthType, ProductOfNats
<1>3. src1 \in Transactions /\ src2 \in Transactions /\ dest \in Transactions
  <2> HIDE DEF n, written
  <2> QED BY <1>2, OperandType, AccessType
<1> HIDE DEF src1, src2, dest
<1>4. Fits(first) /\ Fits(second)
  BY <1>3, VectorComputeType, StageType DEF Fits
<1> HIDE DEF first, second
<1> QED BY <1>1, <1>4, OneOrTwoStages

LEMMA MatrixFit ==
  ASSUME NEW e \in Instruction
  PROVE  StagesFit(MatrixStages(e))
<1> DEFINE read == 8 * MatrixConfig.rows * input_byte(e)
           written == WeightColumns(e) * output_byte(e) * ArrayGroupMap[e.group]
           compute == XbarCycles(e.input_bitwidth) * MatrixConfig.period
           src == Access("read", getFinalRS1(e), read)
           dest == Access("write", getFinalRD(e), written)
           first == Stage(FALSE, "local", <<src>>, compute)
           second == Stage(FALSE, "local", <<dest>>, 0)
<1>1. MatrixStages(e) = <<first, second>>
  BY DEF MatrixStages
<1>2. read \in Nat
  <2>1. 8 * MatrixConfig.rows \in Nat
    BY MatrixType
  <2> QED BY <2>1, WidthType, ProductOfNats
<1>3. written \in Nat
  <2>1. WeightColumns(e) * output_byte(e) \in Nat
    BY WidthType, ProductOfNats
  <2> QED BY <2>1, WidthType, ProductOfNats
<1>4. compute \in Nat
  <2>1. MatrixConfig.period \in Nat
    BY UnitsAssumption DEF MatrixUnitConfig
  <2> QED BY <2>1, WidthType, XbarCyclesType, ProductOfNats
<1> HIDE DEF read, written, compute
<1>5. src \in Transactions /\ dest \in Transactions
  BY <1>2, <1>3, OperandType, AccessType
<1> HIDE DEF src, dest
<1>6. Fits(first) /\ Fits(second)
  BY <1>4, <1>5, StageType DEF Fits
<1> HIDE DEF first, second
<1> QED BY <1>1, <1>6, OneOrTwoStages

LEMMA TransferFit ==
  ASSUME NEW e \in Instruction, e.op \in TransferOp
  PROVE  StagesFit(TransferStages(e))
<1> DEFINE rs1 == getFinalRS1(e)
           rd == getFinalRD(e)
           t(command, a, n) == Access(command, a, n)
<1>1. \A command \in {"read", "write"} :
        /\ Access(command, 0, e.size) \in Transactions
        /\ Access(command, rd, e.size) \in Transactions
        /\ Access(command, rs1, e.size) \in Transactions
        /\ Access(command, rd, e.len) \in Transactions
        /\ Access(command, rs1, e.len) \in Transactions
  BY OperandType, WidthType, AccessType
<1>2. ASSUME NEW remote \in BOOLEAN, NEW mem \in {"local", "global"}, NEW r \in Transactions,
             NEW q \in Transactions
      PROVE  Fits(Stage(remote, mem, <<r>>, 0)) /\ Fits(Stage(remote, mem, <<r, q>>, 0))
  BY StageType DEF Fits
<1> HIDE DEF rs1, rd
<1>3. /\ e.op = "send" => TransferStages(e) = << Stage(TRUE, "local", << Access("read", rd, e.size) >>, 0) >>
      /\ e.op = "recv" => TransferStages(e) = << Stage(TRUE, "local", << Access("write", rd, e.size) >>, 0) >>
      /\ e.op = "ld" => TransferStages(e) = << Stage(TRUE, "global", << Access("read", 0, e.size) >>, 0),
                                              Stage(FALSE, "local", << Access("write", rd, e.size) >>, 0) >>
      /\ e.op = "st" => TransferStages(e) = << Stage(FALSE, "local", << Access("read", rs1, e.size) >>, 0),
                                              Stage(TRUE, "global", << Access("write", 0, e.size) >>, 0) >>
      /\ e.op = "lldi" => TransferStages(e) = << Stage(FALSE, "local", << Access("write", rd, e.len) >>, 0) >>
      /\ e.op = "lmv" => TransferStages(e) = << Stage(FALSE, "local", << Access("read", rs1, e.len),
                                                     Access("write", rd, e.len) >>, 0) >>
  BY DEF TransferStages, rs1, rd
<1>4. e.op \in {"ld", "st", "lldi", "lmv", "send", "recv"}
  BY DEF TransferOp
<1>5. CASE e.op \in {"send", "recv", "lldi"}
  BY <1>1, <1>2, <1>3, <1>5, OneOrTwoStages
<1>6. CASE e.op = "lmv"
  BY <1>1, <1>2, <1>3, <1>6, OneOrTwoStages
<1>7. CASE e.op \in {"ld", "st"}
  BY <1>1, <1>2, <1>3, <1>7, OneOrTwoStages
<1> QED BY <1>4, <1>5, <1>6, <1>7

LEMMA StagesType ==
  ASSUME NEW e \in Instruction
  PROVE  StagesFit(StagesOf(e))
BY VectorFit, MatrixFit, TransferFit DEF StagesOf

-----------------------------------------------------------------------------
(* The requests that a unit makes at one moment *)

LEMMA UpToTwo ==
  ASSUME NEW n \in {1, 2}
  PROVE  /\ \A k \in 0..n : k \in {0, 1, 2} /\ (k = 2 => n = 2) /\ (k # 0 => k - 1 \in 0..n)
         /\ \A k \in 1..n : k \in 0..n /\ k # 0
         /\ 0 \in 0..n /\ 1 \in 1..n /\ (n = 2 => 2 \in 1..n) /\ 1 - 1 = 0 /\ 2 - 1 = 1
BY SMT

\* The function of Transported, unfolded.
LEMMA TransportedUnfolds ==
  ASSUME NEW m, NEW r \in Seq(Transactions), Len(r) \in {1, 2}
  PROVE  /\ DOMAIN Transported(m, r) = 0..Len(r)
         /\ Transported(m, r)[0] = [delay |-> 0, latest |-> latest[m]]
         /\ \A k \in 1..Len(r) :
              Transported(m, r)[k] = Transport(Transported(m, r)[k - 1], now, Latency(Config(m), r[k]))
<1> DEFINE a == [delay |-> 0, latest |-> latest[m]]
           T(s, k) == Transport(s, now, Latency(Config(m), r[k]))
           Is(f) == f = [k \in 0..Len(r) |-> IF k = 0 THEN a ELSE T(f[k - 1], k)]
           g == [k \in 0..Len(r) |-> IF k = 0 THEN a ELSE IF k = 1 THEN T(a, 1) ELSE T(T(a, 1), 2)]
<1>1. Transported(m, r) = CHOOSE f : Is(f)
  BY DEF Transported
<1> HIDE DEF a, T
<1>2. Is(g)
  <2>1. ASSUME NEW k \in 0..Len(r)
        PROVE  g[k] = IF k = 0 THEN a ELSE T(g[k - 1], k)
    <3>1. k \in {0, 1, 2} /\ (k # 0 => k - 1 \in 0..Len(r))
      BY UpToTwo
    <3>2. g[k] = IF k = 0 THEN a ELSE IF k = 1 THEN T(a, 1) ELSE T(T(a, 1), 2)
      OBVIOUS
    <3>3. k # 0 => g[k - 1] = IF k - 1 = 0 THEN a ELSE IF k - 1 = 1 THEN T(a, 1) ELSE T(T(a, 1), 2)
      BY <3>1
    <3> HIDE DEF g
    <3>4. CASE k = 0
      BY <3>2, <3>4
    <3>5. CASE k = 1
      BY <3>2, <3>3, <3>5
    <3>6. CASE k = 2
      BY <3>2, <3>3, <3>6
    <3> QED BY <3>1, <3>4, <3>5, <3>6
  <2> QED BY <2>1
<1>3. Is(Transported(m, r))
  <2> HIDE DEF Is, g
  <2> QED BY <1>1, <1>2
<1>4. \A k \in 1..Len(r) : k \in 0..Len(r) /\ k # 0
  BY UpToTwo
<1>5. 0 \in 0..Len(r)
  BY UpToTwo
<1> DEFINE f == Transported(m, r)
<1> HIDE DEF f
<1>6. f = [k \in 0..Len(r) |-> IF k = 0 THEN a ELSE T(f[k - 1], k)]
  BY <1>3 DEF f
<1>7. DOMAIN f = 0..Len(r) /\ f[0] = a /\ \A k \in 1..Len(r) : f[k] = T(f[k - 1], k)
  BY <1>4, <1>5, <1>6
<1> QED BY <1>7 DEF a, T, f

TransportState == [delay: Nat, latest: Nat]

LEMMA TransportType ==
  ASSUME NEW s \in TransportState, NEW time \in Nat, NEW t \in Nat
  PROVE  Transport(s, time, t) \in TransportState
BY SMT DEF Transport, FinishTime, TransportState

LEMMA TransportedType ==
  ASSUME NEW m \in MemoryId, latest[m] \in Nat, now \in Nat,
         NEW r \in Seq(Transactions), Len(r) \in {1, 2}
  PROVE  \A k \in 0..Len(r) : Transported(m, r)[k] \in TransportState
<1>0. \A k \in 1..Len(r) :
        Transported(m, r)[k] = Transport(Transported(m, r)[k - 1], now, Latency(Config(m), r[k]))
  BY TransportedUnfolds, Zenon
<1>1. Transported(m, r)[0] \in TransportState
  <2>1. Transported(m, r)[0] = [delay |-> 0, latest |-> latest[m]]
    BY TransportedUnfolds
  <2> QED BY <2>1 DEF TransportState
<1>2. ASSUME NEW k \in 1..Len(r), Transported(m, r)[k - 1] \in TransportState
      PROVE  Transported(m, r)[k] \in TransportState
  <2>1. r[k] \in Transactions
    OBVIOUS
  <2>2. Latency(Config(m), r[k]) \in Nat
    BY <2>1, LatencyType
  <2>3. Transported(m, r)[k] = Transport(Transported(m, r)[k - 1], now, Latency(Config(m), r[k]))
    BY <1>0
  <2> QED BY <1>2, <2>2, <2>3, TransportType
<1>3. 1 \in 1..Len(r) /\ 1 - 1 = 0 /\ (Len(r) = 2 => 2 \in 1..Len(r)) /\ 2 - 1 = 1
  BY UpToTwo
<1>4. Transported(m, r)[1] \in TransportState
  BY <1>1, <1>2, <1>3
<1>5. Len(r) = 2 => Transported(m, r)[2] \in TransportState
  BY <1>2, <1>3, <1>4
<1>6. \A k \in 0..Len(r) : k = 0 \/ k = 1 \/ (k = 2 /\ Len(r) = 2)
  BY UpToTwo
<1> QED BY <1>1, <1>4, <1>5, <1>6

\* The function of Logged, unfolded.
WithRequest(q, u, m, r, k) ==
  IF Latency(Config(m), r[k]) = 0 THEN q
  ELSE Append(q, [client |-> u, time |-> Latency(Config(m), r[k]),
                  finish |-> Transported(m, r)[k].latest])

LEMMA LoggedUnfolds ==
  ASSUME NEW u, NEW m, NEW r \in Seq(Transactions), Len(r) \in {1, 2}
  PROVE  /\ Logged(u, m, r)[0] = log[m]
         /\ \A k \in 1..Len(r) :
              Logged(u, m, r)[k] = WithRequest(Logged(u, m, r)[k - 1], u, m, r, k)
<1> DEFINE a == log[m]
           T(q, k) == WithRequest(q, u, m, r, k)
           Is(f) == f = [k \in 0..Len(r) |-> IF k = 0 THEN a ELSE T(f[k - 1], k)]
           g == [k \in 0..Len(r) |-> IF k = 0 THEN a ELSE IF k = 1 THEN T(a, 1) ELSE T(T(a, 1), 2)]
<1>1. Logged(u, m, r) = CHOOSE f : Is(f)
  BY Zenon DEF Logged, WithRequest
<1> HIDE DEF a, T
<1>2. Is(g)
  <2>1. ASSUME NEW k \in 0..Len(r)
        PROVE  g[k] = IF k = 0 THEN a ELSE T(g[k - 1], k)
    <3>1. k \in {0, 1, 2} /\ (k # 0 => k - 1 \in 0..Len(r))
      BY UpToTwo
    <3>2. g[k] = IF k = 0 THEN a ELSE IF k = 1 THEN T(a, 1) ELSE T(T(a, 1), 2)
      OBVIOUS
    <3>3. k # 0 => g[k - 1] = IF k - 1 = 0 THEN a ELSE IF k - 1 = 1 THEN T(a, 1) ELSE T(T(a, 1), 2)
      BY <3>1
    <3> HIDE DEF g
    <3>4. CASE k = 0
      BY <3>2, <3>4
    <3>5. CASE k = 1
      BY <3>2, <3>3, <3>5
    <3>6. CASE k = 2
      BY <3>2, <3>3, <3>6
    <3> QED BY <3>1, <3>4, <3>5, <3>6
  <2> QED BY <2>1
<1>3. Is(Logged(u, m, r))
  <2> HIDE DEF Is, g
  <2> QED BY <1>1, <1>2
<1>4. (\A k \in 1..Len(r) : k \in 0..Len(r) /\ k # 0) /\ 0 \in 0..Len(r)
  BY UpToTwo
<1> DEFINE f == Logged(u, m, r)
<1> HIDE DEF f
<1>5. f = [k \in 0..Len(r) |-> IF k = 0 THEN a ELSE T(f[k - 1], k)]
  BY <1>3 DEF f
<1>6. f[0] = a /\ \A k \in 1..Len(r) : f[k] = T(f[k - 1], k)
  BY <1>4, <1>5
<1> QED BY <1>6 DEF a, T, f

LEMMA LoggedType ==
  ASSUME NEW u \in Unit, NEW m \in MemoryId, latest[m] \in Nat, now \in Nat, log[m] \in Seq(Request),
         NEW r \in Seq(Transactions), Len(r) \in {1, 2}
  PROVE  Logged(u, m, r)[Len(r)] \in Seq(Request)
<1>0. \A k \in 1..Len(r) : Logged(u, m, r)[k] = WithRequest(Logged(u, m, r)[k - 1], u, m, r, k)
  BY LoggedUnfolds
<1>1. ASSUME NEW k \in 1..Len(r), Logged(u, m, r)[k - 1] \in Seq(Request)
      PROVE  Logged(u, m, r)[k] \in Seq(Request)
  <2> DEFINE q == Logged(u, m, r)[k - 1]
             t == Latency(Config(m), r[k])
             f == Transported(m, r)[k].latest
  <2>1. r[k] \in Transactions
    OBVIOUS
  <2>2. t \in Nat
    BY <2>1, LatencyType
  <2>3. f \in Nat
    <3>1. k \in 0..Len(r)
      BY UpToTwo
    <3> QED BY <3>1, TransportedType DEF TransportState
  <2>4. Logged(u, m, r)[k] = IF t = 0 THEN q ELSE Append(q, [client |-> u, time |-> t, finish |-> f])
    BY <1>0 DEF WithRequest
  <2>5. q \in Seq(Request)
    BY <1>1
  <2> HIDE DEF q, t, f
  <2>6. t # 0 => [client |-> u, time |-> t, finish |-> f] \in Request
    BY <2>2, <2>3 DEF Request
  <2> HIDE DEF Request
  <2> QED BY <2>4, <2>5, <2>6
<1>2. Logged(u, m, r)[0] \in Seq(Request)
  BY LoggedUnfolds
<1>3. 1 \in 1..Len(r) /\ 1 - 1 = 0 /\ (Len(r) = 2 => 2 \in 1..Len(r)) /\ 2 - 1 = 1
  BY UpToTwo
<1>4. Logged(u, m, r)[1] \in Seq(Request)
  BY <1>1, <1>2, <1>3
<1>5. Len(r) = 2 => Logged(u, m, r)[2] \in Seq(Request)
  BY <1>1, <1>3, <1>4
<1> QED BY <1>4, <1>5

-----------------------------------------------------------------------------
(* The invariant *)

\* A unit that does not rest is at a stage of its instruction.
AtAStage ==
  \A u \in Unit : unit[u].state # "idle" =>
    unit[u].inst # 0 /\ unit[u].stage \in DOMAIN StagesOf(Executes(u))

NoWaitIsOver == \A u \in Unit : unit[u].state = "waiting" => until[u] >= now

TypeInv ==
  /\ IInv
  /\ now \in Nat
  /\ \A c \in Core : next[c] \in 1..(Len(program[c]) + 1)
  /\ until \in [Unit -> Nat]
  /\ latest \in [MemoryId -> Nat]
  /\ log \in [MemoryId -> Seq(Request)]
  /\ NoWaitIsOver /\ AtAStage

LEMMA TypeInvInit == Init => TypeInv
<1> SUFFICES ASSUME Init PROVE TypeInv
  OBVIOUS
<1>1. IInv
  BY InitIInv
<1>2. /\ now = 0 /\ until = [u \in Unit |-> 0] /\ latest = [m \in MemoryId |-> 0]
      /\ log = [m \in MemoryId |-> <<>>] /\ next = [c \in Core |-> 1]
      /\ \A u \in Unit : unit[u].state = "idle"
      /\ program \in Workloads
  BY DEF Init, Idle
<1>3. log \in [MemoryId -> Seq(Request)]
  <2>1. <<>> \in Seq(Request)
    OBVIOUS
  <2> QED BY <1>2, <2>1
<1>4. \A c \in Core : next[c] \in 1..(Len(program[c]) + 1)
  <2>1. \A c \in Core : Len(program[c]) \in Nat
    BY <1>2, WorkloadsAssumption
  <2> QED BY <1>2, <2>1
<1> QED BY <1>1, <1>2, <1>3, <1>4 DEF TypeInv, NoWaitIsOver, AtAStage

LEMMA UnitOfCore ==
  ASSUME NEW u \in Unit
  PROVE  u[1] \in Core /\ u[1] \in MemoryId /\ "global" \in MemoryId
BY DEF Unit, MemoryId

\* The instruction of a unit.
LEMMA ExecutesInstruction ==
  ASSUME IInv, NEW u \in Unit, unit[u].inst # 0
  PROVE  Executes(u) \in Instruction
<1>1. u \in Executing(u[1])
  BY DEF Executing
<1> QED BY <1>1, UnitOfCore, ExecutesType

LEMMA TransactType ==
  ASSUME TypeInv, NEW u \in Unit, unit[u].inst # 0,
         NEW k \in DOMAIN StagesOf(Executes(u)), Transact(u, Executes(u), k)
  PROVE  /\ until' \in [Unit -> Nat] /\ until'[u] >= now
         /\ \A v \in Unit : v # u => until'[v] = until[v]
         /\ latest' \in [MemoryId -> Nat]
         /\ log' \in [MemoryId -> Seq(Request)]
         /\ unit' = [unit EXCEPT ![u].stage = k, ![u].state = "waiting"]
<1> DEFINE stage == StagesOf(Executes(u))[k]
           m == IF stage.mem = "global" THEN "global" ELSE u[1]
           r == stage.requests
           f == Transported(m, r)
           n == Len(r)
           logged == Logged(u, m, r)[n]
<1>1. stage \in Stages /\ Len(r) \in {1, 2}
  <2>1. Executes(u) \in Instruction
    BY ExecutesInstruction DEF TypeInv
  <2>2. StagesFit(StagesOf(Executes(u)))
    BY <2>1, StagesType
  <2> HIDE DEF Stages
  <2> QED BY <2>2 DEF StagesFit
<1>2. m \in MemoryId
  BY UnitOfCore
<1>3. r \in Seq(Transactions) /\ stage.compute \in Nat
  BY <1>1 DEF Stages
<1>4. /\ latest' = [latest EXCEPT ![m] = f[n].latest]
      /\ until' = [until EXCEPT ![u] = now + f[n].delay + stage.compute]
      /\ unit' = [unit EXCEPT ![u].stage = k, ![u].state = "waiting"]
      /\ log' = [log EXCEPT ![m] = logged]
  BY Zenon DEF Transact
<1> HIDE DEF stage, m, f, n, logged
<1>5. /\ now \in Nat /\ until \in [Unit -> Nat] /\ latest \in [MemoryId -> Nat]
      /\ log \in [MemoryId -> Seq(Request)]
  BY DEF TypeInv
<1>6. \A i \in 0..n : f[i] \in TransportState
  BY <1>1, <1>2, <1>3, <1>5, TransportedType DEF f, n
<1>7. n \in {1, 2} /\ \A i \in 1..n : i \in 0..n
  <2>1. n \in {1, 2}
    BY <1>1 DEF n
  <2> QED BY <2>1, UpToTwo
<1>8. n \in 0..n
  BY <1>7
<1>9. f[n].delay \in Nat /\ f[n].latest \in Nat
  BY <1>6, <1>8 DEF TransportState
<1>10. until' \in [Unit -> Nat] /\ until'[u] >= now
  BY <1>3, <1>4, <1>5, <1>9
<1>11. latest' \in [MemoryId -> Nat]
  BY <1>2, <1>4, <1>5, <1>9
<1>12. logged \in Seq(Request)
  BY <1>1, <1>2, <1>3, <1>5, LoggedType DEF logged, n
<1>13. log' \in [MemoryId -> Seq(Request)]
  BY <1>4, <1>5, <1>12
<1>14. \A v \in Unit : v # u => until'[v] = until[v]
  BY <1>4, <1>5
<1> QED BY <1>4, <1>10, <1>11, <1>13, <1>14

\* The units that a step leaves alone stay at their stages.
LEMMA OthersStay ==
  ASSUME TypeInv, NEW u \in Unit, \A v \in Unit : v # u => unit'[v] = unit[v],
         program' = program, unit'[u].state # "idle" =>
           unit'[u].inst # 0 /\ unit'[u].stage \in DOMAIN StagesOf(Executes(u)')
  PROVE  AtAStage'
<1>1. \A v \in Unit : v # u => Executes(v)' = Executes(v)
  BY DEF Executes, Inst
<1> QED BY <1>1 DEF AtAStage, TypeInv

LEMMA TransactTypeInv ==
  ASSUME TypeInv, IInv', NEW u \in Unit, unit[u].inst # 0,
         NEW k \in DOMAIN StagesOf(Executes(u)), Transact(u, Executes(u), k),
         UNCHANGED <<program, now, next>>
  PROVE  TypeInv'
<1>1. /\ until' \in [Unit -> Nat] /\ until'[u] >= now
      /\ \A v \in Unit : v # u => until'[v] = until[v]
      /\ latest' \in [MemoryId -> Nat]
      /\ log' \in [MemoryId -> Seq(Request)]
      /\ unit' = [unit EXCEPT ![u].stage = k, ![u].state = "waiting"]
  BY TransactType
<1>2. unit \in [Unit -> UnitState]
  BY DEF TypeInv, IInv
<1>3. \A v \in Unit : v # u => unit'[v] = unit[v]
  BY <1>1, <1>2
<1>4. unit'[u].inst = unit[u].inst /\ unit'[u].stage = k
  BY <1>1, <1>2 DEF UnitState
<1>5. Executes(u)' = Executes(u)
  BY <1>4 DEF Executes, Inst
<1>6. AtAStage'
  BY <1>3, <1>4, <1>5, OthersStay
<1>7. NoWaitIsOver'
  BY <1>1, <1>3 DEF NoWaitIsOver, TypeInv
<1> QED BY <1>1, <1>6, <1>7 DEF TypeInv

LEMMA IssueTypeInv ==
  ASSUME TypeInv, IInv', NEW c \in Core, Issue(c)
  PROVE  TypeInv'
<1>1. PICK e \in Instruction : e = Inst(c, next[c])
  <2>1. program[c] \in Seq(Instruction) /\ next[c] \in DOMAIN program[c]
    BY WorkloadsAssumption DEF TypeInv, IInv, Issue
  <2>2. Inst(c, next[c]) \in Instruction
    BY <2>1 DEF Inst
  <2> QED BY <2>2
<1>2. Len(program[c]) \in Nat /\ next[c] \in 1..Len(program[c])
  <2>1. program[c] \in Seq(Instruction) /\ next[c] \in DOMAIN program[c]
    BY WorkloadsAssumption DEF TypeInv, IInv, Issue
  <2> QED BY <2>1
<1>3. PICK x \in Unit : x = UnitOf(c, e) /\ x[1] = c
  <2>1. UnitOf(c, e) \in Unit /\ UnitOf(c, e)[1] = c
    BY DEF UnitOf, Unit, Instruction
  <2> QED BY <2>1
<1> DEFINE start == [inst |-> next[c], stage |-> 1,
                     state |-> IF StagesOf(e)[1].remote THEN "remote" ELSE "ready"]
<1>4. /\ unit' = [unit EXCEPT ![x] = start]
      /\ next' = [next EXCEPT ![c] = @ + 1]
      /\ UNCHANGED <<program, now, until, latest, log>>
  BY <1>1, <1>3 DEF Issue
<1>5. unit \in [Unit -> UnitState] /\ DOMAIN next = Core
  BY DEF TypeInv, IInv
<1>6. start.inst = next[c] /\ start.stage = 1 /\ start.state # "waiting"
  OBVIOUS
<1>7. 1 \in DOMAIN StagesOf(e)
  <2>1. StagesFit(StagesOf(e))
    BY StagesType
  <2> QED BY <2>1 DEF StagesFit
<1> HIDE DEF start
<1>8. unit'[x] = start /\ \A v \in Unit : v # x => unit'[v] = unit[v]
  BY <1>4, <1>5
<1>9. Executes(x)' = e
  <2>1. unit'[x].inst = next[c] /\ program' = program
    BY <1>4, <1>6, <1>8
  <2> QED BY <1>1, <1>3, <2>1 DEF Executes, Inst
<1>10. unit'[x].inst # 0 /\ unit'[x].stage \in DOMAIN StagesOf(Executes(x)')
  BY <1>2, <1>6, <1>7, <1>8, <1>9
<1>11. AtAStage'
  BY <1>4, <1>8, <1>10, OthersStay
<1>12. NoWaitIsOver'
  BY <1>4, <1>6, <1>8 DEF NoWaitIsOver, TypeInv
<1>13. \A d \in Core : next'[d] \in 1..(Len(program'[d]) + 1)
  <2>1. next[c] + 1 \in 1..(Len(program[c]) + 1)
    BY <1>2
  <2> QED BY <1>4, <1>5, <2>1 DEF TypeInv
<1> QED BY <1>4, <1>11, <1>12, <1>13 DEF TypeInv

LEMMA ProceedTypeInv ==
  ASSUME TypeInv, IInv', NEW u \in Unit, Proceed(u)
  PROVE  TypeInv'
<1> DEFINE stages == StagesOf(Executes(u))
           k == unit[u].stage + 1
<1>1. unit \in [Unit -> UnitState] /\ unit[u].state = "waiting"
  BY DEF TypeInv, IInv, Proceed
<1>2. unit[u].inst # 0
  BY <1>1 DEF TypeInv, AtAStage
<1>3. UNCHANGED <<program, now, next>>
  BY DEF Proceed
<1>4. CASE k \in DOMAIN stages /\ Transact(u, Executes(u), k)
  BY <1>2, <1>3, <1>4, TransactTypeInv
<1>5. CASE /\ k \in DOMAIN stages
           /\ unit' = [unit EXCEPT ![u].stage = k, ![u].state = "remote"]
           /\ UNCHANGED <<until, latest, log>>
  <2> HIDE DEF k
  <2>1. /\ \A v \in Unit : v # u => unit'[v] = unit[v]
        /\ unit'[u].inst = unit[u].inst /\ unit'[u].stage = k /\ unit'[u].state = "remote"
    BY <1>1, <1>5 DEF UnitState
  <2>2. Executes(u)' = Executes(u)
    BY <1>3, <2>1 DEF Executes, Inst
  <2>3. AtAStage'
    BY <1>2, <1>3, <1>5, <2>1, <2>2, OthersStay
  <2>4. NoWaitIsOver'
    BY <1>3, <1>5, <2>1 DEF NoWaitIsOver, TypeInv
  <2> QED BY <1>3, <1>5, <2>3, <2>4 DEF TypeInv
<1>6. CASE unit' = [unit EXCEPT ![u] = Idle] /\ UNCHANGED <<until, latest, log>>
  <2>1. (\A v \in Unit : v # u => unit'[v] = unit[v]) /\ unit'[u].state = "idle"
    BY <1>1, <1>6 DEF Idle
  <2>2. AtAStage'
    BY <1>3, <2>1, OthersStay
  <2>3. NoWaitIsOver'
    BY <1>3, <1>6, <2>1 DEF NoWaitIsOver, TypeInv
  <2> QED BY <1>3, <1>6, <2>2, <2>3 DEF TypeInv
<1> QED BY <1>4, <1>5, <1>6 DEF Proceed

\* What is left of a log.
LEMMA UnfinishedType ==
  ASSUME NEW m \in MemoryId, log[m] \in Seq(Request), NEW t \in Nat
  PROVE  Unfinished(m, t) \in Seq(Request)
<1> DEFINE s == log[m]
           D == {i \in DOMAIN s : s[i].finish <= t}
<1>1. IsFiniteSet(1..Len(s))
  <2>1. 1 \in Int /\ Len(s) \in Int
    OBVIOUS
  <2> QED BY <2>1, FS_Interval, Zenon
<1>2. D \subseteq 1..Len(s)
  OBVIOUS
<1>3. Cardinality(D) \in Nat
  BY <1>1, <1>2, FS_Subset, FS_CardinalityType
<1> HIDE DEF D
<1>4. /\ Cardinality(D) + 1 \in Int /\ Len(s) \in Int
      /\ \A i \in (Cardinality(D) + 1)..Len(s) : s[i] \in Request
  BY <1>3
<1>5. SubSeq(s, Cardinality(D) + 1, Len(s)) \in Seq(Request)
  BY <1>4, SubSeqProperties
<1> QED BY <1>5 DEF Unfinished, D

LEMMA TickTypeInv ==
  ASSUME TypeInv, IInv', Tick
  PROVE  TypeInv'
<1>1. /\ now' = now + 1 /\ UNCHANGED <<program, next, unit, until, latest>>
      /\ log' = [m \in MemoryId |-> Unfinished(m, now + 1)]
      /\ \A u \in Unit : unit[u].state = "waiting" => until[u] # now
  BY DEF Tick, Due
<1>2. now \in Nat /\ until \in [Unit -> Nat]
  BY DEF TypeInv
<1>3. NoWaitIsOver'
  <2>1. ASSUME NEW u \in Unit, unit[u].state = "waiting"
        PROVE  until[u] >= now + 1
    <3>1. until[u] >= now /\ until[u] # now /\ until[u] \in Nat
      BY <1>1, <1>2, <2>1 DEF TypeInv, NoWaitIsOver
    <3> QED BY <1>2, <3>1
  <2> QED BY <1>1, <2>1 DEF NoWaitIsOver
<1>4. AtAStage'
  <2>1. \A u : Executes(u)' = Executes(u)
    BY <1>1 DEF Executes, Inst
  <2> QED BY <1>1, <2>1 DEF AtAStage, TypeInv
<1>5. log' \in [MemoryId -> Seq(Request)]
  <2>1. \A m \in MemoryId : Unfinished(m, now + 1) \in Seq(Request)
    BY <1>2, UnfinishedType DEF TypeInv
  <2> QED BY <1>1, <2>1
<1> QED BY <1>1, <1>2, <1>3, <1>4, <1>5 DEF TypeInv

LEMMA StepTypeInv == TypeInv /\ [Next]_vars => TypeInv'
<1> SUFFICES ASSUME TypeInv, [Next]_vars PROVE TypeInv'
  OBVIOUS
<1>1. IInv'
  BY StepIInv DEF TypeInv
<1>2. ASSUME NEW u \in Unit, Begin(u) PROVE TypeInv'
  <2>1. unit[u].inst # 0 /\ unit[u].stage \in DOMAIN StagesOf(Executes(u))
    BY <1>2 DEF Begin, TypeInv, AtAStage
  <2>2. Transact(u, Executes(u), unit[u].stage) /\ UNCHANGED <<program, now, next>>
    BY <1>2 DEF Begin
  <2> QED BY <1>1, <2>1, <2>2, TransactTypeInv
<1>3. CASE UNCHANGED vars
  <2>1. \A u : Executes(u)' = Executes(u)
    BY <1>3 DEF Executes, Inst, vars
  <2> QED BY <1>1, <1>3, <2>1 DEF TypeInv, vars, NoWaitIsOver, AtAStage
<1> QED BY <1>1, <1>2, <1>3, IssueTypeInv, ProceedTypeInv, TickTypeInv DEF Next

\* All values have their types, and no unit waits for a moment that is over: for
\* every configuration and workload, no latency is negative
\* (Memory.cpp:21-53, XbarArray.cpp:32-68).
THEOREM TypeCorrect == Spec => []TypeOK
<1>1. Init => TypeInv
  BY TypeInvInit
<1>2. TypeInv /\ [Next]_vars => TypeInv'
  BY StepTypeInv
<1>3. TypeInv => TypeOK
  BY DEF TypeInv, TypeOK, IInv, NoWaitIsOver
<1> QED BY <1>1, <1>2, <1>3, PTL DEF Spec

-----------------------------------------------------------------------------
(* A memory is a FIFO server: the log of requests as a queue *)

\* q is the log at time t of a memory whose latest request is finished at time l:
\* every request begins when the one before it is finished.
InService(q, t, l) ==
  /\ \A i \in DOMAIN q : q[i].finish > t /\ q[i].finish <= l
  /\ q # <<>> => q[1].finish - t <= q[1].time /\ q[Len(q)].finish = l
  /\ \A i \in DOMAIN q : i > 1 => q[i].finish = q[i - 1].finish + q[i].time
  /\ q = <<>> => l <= t

\* What has to be served of a log at time t.
LeftOf(q, t) == [i \in DOMAIN q |-> [client |-> q[i].client, left |-> MinOf(q[i].time, q[i].finish - t)]]

\* q with new requests of u at its end.
LongerBy(q, longer, u) ==
  /\ Len(q) <= Len(longer)
  /\ \A i \in 1..Len(q) : longer[i] = q[i]
  /\ \A i \in (Len(q) + 1)..Len(longer) : longer[i].client = u

LEMMA LeftType ==
  ASSUME NEW q \in Seq(Request), NEW t \in Nat, NEW l \in Nat, InService(q, t, l)
  PROVE  /\ LeftOf(q, t) \in Seq([client: Unit, left: Nat \ {0}])
         /\ Len(LeftOf(q, t)) = Len(q)
         /\ \A i \in 1..Len(q) : /\ LeftOf(q, t)[i].client = q[i].client
                                 /\ LeftOf(q, t)[i].left = MinOf(q[i].time, q[i].finish - t)
         /\ q # <<>> => LeftOf(q, t)[1].left = q[1].finish - t
         /\ \A i \in 2..Len(q) : LeftOf(q, t)[i].left = q[i].time
<1> DEFINE L == [client: Unit, left: Nat \ {0}]
           x(i) == [client |-> q[i].client, left |-> MinOf(q[i].time, q[i].finish - t)]
<1>1. DOMAIN q = 1..Len(q) /\ Len(q) \in Nat /\ \A i \in 1..Len(q) : q[i] \in Request
  OBVIOUS
<1>2. LeftOf(q, t) = [i \in 1..Len(q) |-> x(i)]
  BY <1>1 DEF LeftOf
<1>3. ASSUME NEW i \in 1..Len(q)
      PROVE  /\ q[i].client \in Unit /\ q[i].time \in Nat \ {0} /\ q[i].finish \in Nat
             /\ q[i].finish > t
             /\ MinOf(q[i].time, q[i].finish - t) \in Nat \ {0}
  <2>1. q[i].client \in Unit /\ q[i].time \in Nat \ {0} /\ q[i].finish \in Nat
    BY <1>1 DEF Request
  <2>2. q[i].finish > t
    BY <1>1 DEF InService
  <2> QED BY <2>1, <2>2 DEF MinOf
<1>4. \A i \in 1..Len(q) : x(i) \in L
  BY <1>3
<1> HIDE DEF L
<1>5. LeftOf(q, t) \in Seq(L) /\ Len(LeftOf(q, t)) = Len(q)
  <2> HIDE DEF x
  <2> QED BY <1>1, <1>2, <1>4
<1>6. \A i \in 1..Len(q) : LeftOf(q, t)[i] = x(i)
  <2> HIDE DEF x
  <2> QED BY <1>2
<1>7. \A i \in 1..Len(q) : /\ LeftOf(q, t)[i].client = q[i].client
                           /\ LeftOf(q, t)[i].left = MinOf(q[i].time, q[i].finish - t)
  <2> SUFFICES ASSUME NEW i \in 1..Len(q)
               PROVE  /\ LeftOf(q, t)[i].client = q[i].client
                      /\ LeftOf(q, t)[i].left = MinOf(q[i].time, q[i].finish - t)
    OBVIOUS
  <2>1. LeftOf(q, t)[i] = x(i)
    BY <1>6
  <2> QED BY <2>1
<1>8. q # <<>> => LeftOf(q, t)[1].left = q[1].finish - t
  <2> SUFFICES ASSUME q # <<>> PROVE LeftOf(q, t)[1].left = q[1].finish - t
    OBVIOUS
  <2>1. 1 \in 1..Len(q) /\ q[1].finish - t <= q[1].time
    BY DEF InService
  <2> QED BY <2>1, <1>3, <1>7 DEF MinOf
<1>9. ASSUME NEW i \in 2..Len(q)
      PROVE  LeftOf(q, t)[i].left = q[i].time
  <2>1. i \in 1..Len(q) /\ i - 1 \in 1..Len(q) /\ i > 1
    OBVIOUS
  <2>2. q[i].finish = q[i - 1].finish + q[i].time
    BY <1>1, <2>1 DEF InService
  <2>3. q[i - 1].finish > t
    BY <1>3, <2>1
  <2>4. /\ q[i].time \in Nat \ {0} /\ q[i].finish \in Nat
        /\ q[i - 1].finish \in Nat
    BY <1>3, <2>1
  <2>5. MinOf(q[i].time, q[i].finish - t) = q[i].time
    BY <2>2, <2>3, <2>4 DEF MinOf
  <2> QED BY <2>1, <2>5, <1>7
<1> QED BY <1>5, <1>7, <1>8, <1>9 DEF L

\* A request begins when the latest one is finished, at once if it is.
LEMMA RequestServed ==
  ASSUME NEW q \in Seq(Request), NEW t \in Nat, NEW l \in Nat, InService(q, t, l),
         NEW u \in Unit, NEW time \in Nat, NEW x \in Nat, x = FinishTime(l, t, time)
  PROVE  /\ time = 0 => InService(q, t, x)
         /\ time # 0 => InService(Append(q, [client |-> u, time |-> time, finish |-> x]), t, x)
<1>1. Len(q) \in Nat /\ DOMAIN q = 1..Len(q) /\ \A i \in 1..Len(q) : q[i].finish \in Nat /\ q[i].time \in Nat
  <2>1. \A i \in 1..Len(q) : q[i] \in Request
    OBVIOUS
  <2>2. \A e \in Request : e.finish \in Nat /\ e.time \in Nat
    BY DEF Request
  <2> QED BY <2>1, <2>2
<1>2. q = <<>> => l <= t /\ x = t + time
  <2> SUFFICES ASSUME q = <<>> PROVE l <= t /\ x = t + time
    OBVIOUS
  <2>1. l <= t
    BY DEF InService
  <2> QED BY <2>1 DEF FinishTime
<1>3. q # <<>> => x = l + time
  <2> SUFFICES ASSUME q # <<>> PROVE x = l + time
    OBVIOUS
  <2>1. Len(q) \in 1..Len(q)
    BY <1>1
  <2>2. q[Len(q)].finish > t /\ q[Len(q)].finish = l
    BY <1>1, <2>1 DEF InService
  <2>3. l > t
    BY <2>2
  <2> QED BY <2>3 DEF FinishTime
<1>4. ASSUME time = 0
      PROVE  InService(q, t, x)
  <2>1. CASE q = <<>>
    BY <1>2, <1>4, <2>1 DEF InService
  <2>2. CASE q # <<>>
    <3>1. x = l
      BY <1>3, <1>4, <2>2
    <3> QED BY <3>1
  <2> QED BY <2>1, <2>2
<1>5. ASSUME time # 0
      PROVE  InService(Append(q, [client |-> u, time |-> time, finish |-> x]), t, x)
  <2>1. PICK e \in Request : e = [client |-> u, time |-> time, finish |-> x]
    BY <1>5 DEF Request
  <2>2. e.time = time /\ e.finish = x
    BY <2>1
  <2>3. PICK p \in Seq(Request) : p = Append(q, e)
    <3>1. Append(q, e) \in Seq(Request)
      OBVIOUS
    <3> QED BY <3>1
  <2>4. /\ Len(p) = Len(q) + 1 /\ DOMAIN p = 1..(Len(q) + 1) /\ p[Len(q) + 1] = e /\ p # <<>>
        /\ \A i \in 1..Len(q) : p[i] = q[i]
    BY <1>1, <2>3
  <2>5. \A i \in 1..(Len(q) + 1) : i \in 1..Len(q) \/ i = Len(q) + 1
    BY <1>1
  <2>6. \A i \in 1..Len(q) : q[i].finish > t /\ q[i].finish <= l
    BY <1>1 DEF InService
  <2>7. x > t /\ x >= l
    BY <1>2, <1>3, <1>5, <2>6, <1>1 DEF FinishTime
  <2>8. \A i \in DOMAIN p : p[i].finish > t /\ p[i].finish <= x
    <3>1. \A i \in 1..Len(q) : p[i].finish > t /\ p[i].finish <= x
      BY <1>1, <2>4, <2>6, <2>7
    <3> QED BY <2>2, <2>4, <2>5, <2>7, <3>1
  <2>9. p[1].finish - t <= p[1].time
    <3>1. CASE q = <<>>
      <4>1. Len(q) = 0 /\ p[1] = e
        BY <2>4, <3>1
      <4> QED BY <1>2, <2>2, <3>1, <4>1
    <3>2. CASE q # <<>>
      <4>1. 1 \in 1..Len(q) /\ p[1] = q[1]
        BY <1>1, <2>4, <3>2
      <4> QED BY <3>2, <4>1 DEF InService
    <3> QED BY <3>1, <3>2
  <2>10. ASSUME NEW i \in DOMAIN p, i > 1
         PROVE  p[i].finish = p[i - 1].finish + p[i].time
    <3>1. i - 1 \in 1..Len(q) /\ p[i - 1] = q[i - 1]
      BY <1>1, <2>4, <2>10
    <3>2. CASE i \in 1..Len(q)
      <4>1. q[i].finish = q[i - 1].finish + q[i].time /\ p[i] = q[i]
        BY <1>1, <2>4, <2>10, <3>2 DEF InService
      <4> QED BY <3>1, <4>1
    <3>3. CASE i = Len(q) + 1
      <4>1. q # <<>> /\ i - 1 = Len(q) /\ p[i] = e
        BY <1>1, <2>4, <3>1, <3>3
      <4>2. q[Len(q)].finish = l
        BY <4>1 DEF InService
      <4> QED BY <1>3, <2>2, <3>1, <4>1, <4>2
    <3> QED BY <2>4, <2>5, <3>2, <3>3
  <2>11. p[Len(p)].finish = x
    BY <2>2, <2>4
  <2>12. InService(p, t, x)
    BY <2>4, <2>8, <2>9, <2>10, <2>11 DEF InService
  <2> QED BY <2>1, <2>3, <2>12
<1> QED BY <1>4, <1>5

LEMMA RequestFields ==
  ASSUME NEW q \in Seq(Request)
  PROVE  /\ Len(q) \in Nat /\ DOMAIN q = 1..Len(q)
         /\ \A i \in 1..Len(q) : /\ q[i] \in Request
                                 /\ q[i].time \in Nat \ {0} /\ q[i].finish \in Nat
<1>1. Len(q) \in Nat /\ DOMAIN q = 1..Len(q) /\ \A i \in 1..Len(q) : q[i] \in Request
  OBVIOUS
<1>2. \A e \in Request : e.time \in Nat \ {0} /\ e.finish \in Nat
  BY DEF Request
<1> QED BY <1>1, <1>2

\* A tick serves the first request, and only that.
LEMMA OneIsServed ==
  ASSUME NEW q \in Seq(Request), NEW t \in Nat, NEW l \in Nat, InService(q, t, l)
  PROVE  \A i \in DOMAIN q : q[i].finish <= t + 1 <=> i = 1 /\ q[1].finish = t + 1
<1>1. ASSUME NEW i \in DOMAIN q
      PROVE  q[i].finish <= t + 1 <=> i = 1 /\ q[1].finish = t + 1
  <2>1. i \in 1..Len(q) /\ Len(q) \in Nat /\ q[i].finish \in Nat /\ q[i].time \in Nat \ {0}
    BY <1>1, RequestFields
  <2>2. q[i].finish > t
    BY <1>1 DEF InService
  <2>3. CASE i = 1
    BY <2>1, <2>2, <2>3
  <2>4. CASE i # 1
    <3>1. i > 1 /\ i - 1 \in 1..Len(q)
      BY <2>1, <2>4
    <3>2. q[i - 1].finish > t /\ q[i - 1].finish \in Nat
      BY <3>1, RequestFields DEF InService
    <3>3. q[i].finish = q[i - 1].finish + q[i].time
      BY <1>1, <3>1 DEF InService
    <3> QED BY <2>1, <2>4, <3>2, <3>3
  <2> QED BY <2>3, <2>4
<1> QED BY <1>1

\* What is left of a log after a tick.
LEMMA RestOfLog ==
  ASSUME NEW q \in Seq(Request), NEW t \in Nat, NEW l \in Nat, InService(q, t, l)
  PROVE  SubSeq(q, Cardinality({i \in DOMAIN q : q[i].finish <= t + 1}) + 1, Len(q))
           = IF q # <<>> /\ q[1].finish = t + 1 THEN Tail(q) ELSE q
<1> DEFINE D == {i \in DOMAIN q : q[i].finish <= t + 1}
<1>1. \A i \in DOMAIN q : q[i].finish <= t + 1 <=> i = 1 /\ q[1].finish = t + 1
  BY OneIsServed
<1>2. CASE q # <<>> /\ q[1].finish = t + 1
  <2>1. 1 \in DOMAIN q
    BY <1>2, RequestFields
  <2>2. D = {1}
    BY <1>1, <1>2, <2>1
  <2>3. Cardinality(D) = 1
    BY <2>2, FS_Singleton
  <2>4. SubSeq(q, 2, Len(q)) = Tail(q)
    <3>1. q \in Seq(Request) /\ 2 \in Int /\ Len(q) \in Nat /\ Len(q) >= 1
      BY <1>2, RequestFields
    <3> HIDE DEF Request
    <3> QED BY <3>1, <1>2
  <2>5. 1 + 1 = 2
    OBVIOUS
  <2> QED BY <1>2, <2>3, <2>4, <2>5
<1>3. CASE ~(q # <<>> /\ q[1].finish = t + 1)
  <2>1. D = {}
    BY <1>1, <1>3, RequestFields
  <2>2. Cardinality(D) = 0
    BY <2>1, FS_EmptySet
  <2>3. SubSeq(q, 1, Len(q)) = q
    OBVIOUS
  <2>4. 0 + 1 = 1
    OBVIOUS
  <2> QED BY <1>3, <2>2, <2>3, <2>4
<1> QED BY <1>2, <1>3

LEMMA TailFields ==
  ASSUME NEW q \in Seq(Request), q # <<>>
  PROVE  /\ Tail(q) \in Seq(Request) /\ Len(Tail(q)) = Len(q) - 1
         /\ \A i \in 1..(Len(q) - 1) : Tail(q)[i] = q[i + 1]
BY DEF Request

\* The log is in service after the tick.
LEMMA TickInService ==
  ASSUME NEW q \in Seq(Request), NEW t \in Nat, NEW l \in Nat, InService(q, t, l)
  PROVE  /\ q # <<>> /\ q[1].finish = t + 1 => InService(Tail(q), t + 1, l)
         /\ ~(q # <<>> /\ q[1].finish = t + 1) => InService(q, t + 1, l)
<1>1. \A i \in DOMAIN q : q[i].finish <= t + 1 <=> i = 1 /\ q[1].finish = t + 1
  BY OneIsServed
<1>2. /\ Len(q) \in Nat /\ DOMAIN q = 1..Len(q)
      /\ \A i \in 1..Len(q) : q[i].time \in Nat \ {0} /\ q[i].finish \in Nat
  BY RequestFields
<1>3. ASSUME q # <<>>, q[1].finish = t + 1
      PROVE  InService(Tail(q), t + 1, l)
  <2>1. PICK p \in Seq(Request) : p = Tail(q)
    BY <1>3, TailFields
  <2>2. /\ Len(p) = Len(q) - 1 /\ DOMAIN p = 1..(Len(q) - 1) /\ Len(q) >= 1
        /\ \A i \in 1..(Len(q) - 1) : p[i] = q[i + 1]
    BY <1>2, <1>3, <2>1, TailFields, RequestFields
  <2>3. \A i \in DOMAIN p : p[i].finish > t + 1 /\ p[i].finish <= l
    <3> SUFFICES ASSUME NEW i \in DOMAIN p PROVE p[i].finish > t + 1 /\ p[i].finish <= l
      OBVIOUS
    <3>1. p[i] = q[i + 1] /\ i + 1 \in 1..Len(q) /\ i + 1 # 1
      BY <1>2, <2>2
    <3>2. ~(q[i + 1].finish <= t + 1)
      BY <1>1, <1>2, <3>1
    <3>3. q[i + 1].finish <= l
      BY <1>2, <3>1 DEF InService
    <3> QED BY <1>2, <3>1, <3>2, <3>3
  <2>4. ASSUME NEW i \in DOMAIN p
        PROVE  p[i].finish = q[i].finish + p[i].time
    <3>1. p[i] = q[i + 1] /\ i + 1 \in 1..Len(q) /\ i + 1 > 1 /\ (i + 1) - 1 = i
      BY <1>2, <2>2
    <3>2. q[i + 1].finish = q[(i + 1) - 1].finish + q[i + 1].time
      BY <1>2, <3>1 DEF InService
    <3> QED BY <3>1, <3>2
  <2>5. ASSUME NEW i \in DOMAIN p, i > 1
        PROVE  p[i].finish = p[i - 1].finish + p[i].time
    <3>1. i - 1 \in 1..(Len(q) - 1) /\ (i - 1) + 1 = i
      BY <1>2, <2>2, <2>5
    <3>2. p[i - 1] = q[i]
      BY <2>2, <3>1
    <3> QED BY <2>4, <3>2
  <2>6. ASSUME p # <<>>
        PROVE  p[1].finish - (t + 1) <= p[1].time /\ p[Len(p)].finish = l
    <3>1. 1 \in DOMAIN p /\ Len(p) \in 1..(Len(q) - 1) /\ Len(p) + 1 = Len(q)
      BY <1>2, <2>2, <2>6, RequestFields
    <3>2. p[1].finish = q[1].finish + p[1].time
      BY <2>4, <3>1
    <3>3. p[Len(p)] = q[Len(q)]
      BY <2>2, <3>1
    <3>4. q[Len(q)].finish = l
      BY <1>3 DEF InService
    <3>5. p[1].time \in Nat
      BY <3>1, RequestFields
    <3> QED BY <1>3, <3>2, <3>3, <3>4, <3>5
  <2>7. ASSUME p = <<>>
        PROVE  l <= t + 1
    <3>1. Len(p) = 0
      <4>1. Len(<<>>) = 0
        OBVIOUS
      <4> QED BY <2>7, <4>1
    <3>2. q[Len(q)].finish = l
      BY <1>3 DEF InService
    <3>3. Len(q) = 1
      <4>1. Len(q) - 1 = 0 /\ Len(q) \in Nat
        BY <1>2, <2>2, <3>1
      <4>2. \A n \in Nat : n - 1 = 0 => n = 1
        OBVIOUS
      <4> QED BY <4>1, <4>2
    <3> QED BY <1>3, <3>2, <3>3
  <2>8. InService(p, t + 1, l)
    BY <2>3, <2>5, <2>6, <2>7 DEF InService
  <2> QED BY <2>1, <2>8
<1>4. ASSUME ~(q # <<>> /\ q[1].finish = t + 1)
      PROVE  InService(q, t + 1, l)
  <2>1. \A i \in DOMAIN q : q[i].finish > t + 1 /\ q[i].finish <= l
    <3> SUFFICES ASSUME NEW i \in DOMAIN q PROVE q[i].finish > t + 1 /\ q[i].finish <= l
      OBVIOUS
    <3>1. i \in 1..Len(q) /\ q # <<>>
      BY <1>2
    <3>2. ~(q[i].finish <= t + 1)
      BY <1>1, <1>4, <3>1
    <3>3. q[i].finish <= l
      BY DEF InService
    <3> QED BY <1>2, <3>1, <3>2, <3>3
  <2>2. ASSUME q # <<>>
        PROVE  q[1].finish - (t + 1) <= q[1].time /\ q[Len(q)].finish = l
    <3>1. q[1].finish - t <= q[1].time /\ q[Len(q)].finish = l
      BY <2>2 DEF InService
    <3>2. 1 \in 1..Len(q)
      BY <1>2, <2>2
    <3> QED BY <1>2, <3>1, <3>2
  <2>3. q = <<>> => l <= t + 1
    BY DEF InService
  <2>4. \A i \in DOMAIN q : i > 1 => q[i].finish = q[i - 1].finish + q[i].time
    BY DEF InService
  <2> QED BY <2>1, <2>2, <2>3, <2>4 DEF InService
<1> QED BY <1>3, <1>4

\* A tick of the memory is a tick of the server.
LEMMA TickServes ==
  ASSUME NEW q \in Seq(Request), NEW t \in Nat, NEW l \in Nat, InService(q, t, l)
  PROVE  /\ q # <<>> /\ q[1].finish = t + 1 =>
              LeftOf(Tail(q), t + 1) = Memories!Serve(LeftOf(q, t))
         /\ ~(q # <<>> /\ q[1].finish = t + 1) =>
              LeftOf(q, t + 1) = Memories!Serve(LeftOf(q, t))
<1> DEFINE L == [client: Unit, left: Nat \ {0}]
<1>1. PICK x \in Seq(L) : /\ x = LeftOf(q, t)
                          /\ Len(x) = Len(q)
                          /\ \A i \in 1..Len(q) : x[i].client = q[i].client
                          /\ q # <<>> => x[1].left = q[1].finish - t
                          /\ \A i \in 2..Len(q) : x[i].left = q[i].time
  BY LeftType
<1>2. /\ Len(q) \in Nat /\ DOMAIN q = 1..Len(q) /\ (q # <<>> => 1 \in 1..Len(q))
      /\ \A i \in 1..Len(q) : q[i].time \in Nat \ {0} /\ q[i].finish \in Nat
  BY RequestFields
<1>3. q = <<>> <=> x = <<>>
  BY <1>1, <1>2
<1>4. \A a, b \in L : a.client = b.client /\ a.left = b.left => a = b
  OBVIOUS
<1> HIDE DEF L
<1>5. ASSUME q # <<>>, q[1].finish = t + 1
      PROVE  LeftOf(Tail(q), t + 1) = Memories!Serve(LeftOf(q, t))
  <2>1. PICK p \in Seq(Request) : p = Tail(q)
    BY <1>5, TailFields
  <2>2. /\ Len(p) = Len(q) - 1 /\ \A i \in 1..(Len(q) - 1) : p[i] = q[i + 1]
    BY <1>5, <2>1, TailFields
  <2>3. InService(p, t + 1, l) /\ t + 1 \in Nat
    BY <1>5, <2>1, TickInService
  <2>4. PICK y \in Seq(L) : /\ y = LeftOf(p, t + 1)
                            /\ Len(y) = Len(p)
                            /\ \A i \in 1..Len(p) : y[i].client = p[i].client
                            /\ p # <<>> => y[1].left = p[1].finish - (t + 1)
                            /\ \A i \in 2..Len(p) : y[i].left = p[i].time
    BY <2>3, LeftType DEF L
  <2>5. x # <<>> /\ x[1].left = 1
    BY <1>1, <1>3, <1>5
  <2>6. Memories!Serve(x) = Tail(x)
    BY <2>5 DEF Memories!Serve
  <2>7. Tail(x) \in Seq(L) /\ Len(Tail(x)) = Len(q) - 1 /\ \A i \in 1..(Len(q) - 1) : Tail(x)[i] = x[i + 1]
    BY <1>1, <2>5
  <2>8. ASSUME NEW i \in 1..(Len(q) - 1)
        PROVE  y[i] = x[i + 1]
    <3>1. i + 1 \in 2..Len(q) /\ i + 1 \in 1..Len(q) /\ p[i] = q[i + 1] /\ i \in 1..Len(p)
      BY <1>2, <2>2
    <3>2. y[i].client = x[i + 1].client
      BY <1>1, <2>4, <3>1
    <3>3. x[i + 1].left = q[i + 1].time
      BY <1>1, <3>1
    <3>4. y[i].left = q[i + 1].time
      <4>1. CASE i = 1
        <5>1. p # <<>> /\ y[1].left = p[1].finish - (t + 1) /\ p[1] = q[2] /\ 2 \in DOMAIN q
          BY <1>2, <2>2, <2>4, <3>1, <4>1
        <5>2. q[2].finish = q[2 - 1].finish + q[2].time
          BY <5>1 DEF InService
        <5>3. 2 - 1 = 1 /\ q[2].time \in Nat
          BY <1>2, <5>1
        <5> QED BY <1>5, <4>1, <5>1, <5>2, <5>3
      <4>2. CASE i # 1
        <5>1. i \in 2..Len(p)
          BY <1>2, <3>1, <4>2
        <5> QED BY <2>4, <3>1, <5>1
      <4> QED BY <4>1, <4>2
    <3>5. y[i] \in L /\ x[i + 1] \in L
      BY <1>1, <2>4, <3>1
    <3> QED BY <1>4, <3>2, <3>3, <3>4, <3>5
  <2>9. Len(y) = Len(Tail(x)) /\ \A i \in 1..Len(y) : y[i] = Tail(x)[i]
    BY <2>2, <2>4, <2>7, <2>8
  <2>10. y = Tail(x)
    BY <2>4, <2>7, <2>9, SeqEqual
  <2> QED BY <1>1, <2>1, <2>4, <2>6, <2>10
<1>6. ASSUME ~(q # <<>> /\ q[1].finish = t + 1)
      PROVE  LeftOf(q, t + 1) = Memories!Serve(LeftOf(q, t))
  <2>1. InService(q, t + 1, l) /\ t + 1 \in Nat
    BY <1>6, TickInService
  <2>2. PICK y \in Seq(L) : /\ y = LeftOf(q, t + 1)
                            /\ Len(y) = Len(q)
                            /\ \A i \in 1..Len(q) : y[i].client = q[i].client
                            /\ q # <<>> => y[1].left = q[1].finish - (t + 1)
                            /\ \A i \in 2..Len(q) : y[i].left = q[i].time
    BY <2>1, LeftType DEF L
  <2>3. CASE q = <<>>
    <3>1. y = <<>> /\ x = <<>>
      BY <1>1, <2>2, <2>3
    <3> QED BY <1>1, <2>2, <3>1 DEF Memories!Serve
  <2>4. CASE q # <<>>
    <3>1. x # <<>> /\ x[1].left # 1 /\ y[1].left = x[1].left - 1
      <4>1. x[1].left = q[1].finish - t /\ y[1].left = q[1].finish - (t + 1)
        BY <1>1, <2>2, <2>4
      <4>2. q[1].finish # t + 1 /\ q[1].finish \in Nat
        BY <1>2, <1>6, <2>4
      <4>3. \A f \in Nat : f # t + 1 => f - t # 1 /\ f - (t + 1) = (f - t) - 1
        OBVIOUS
      <4> QED BY <1>3, <2>4, <4>1, <4>2, <4>3
    <3>2. PICK z : z = [x EXCEPT ![1].left = @ - 1]
      OBVIOUS
    <3>3. Memories!Serve(x) = z
      BY <3>1, <3>2 DEF Memories!Serve
    <3>4. DOMAIN x = 1..Len(q) /\ DOMAIN y = 1..Len(q)
      BY <1>1, <2>2
    <3>5. ASSUME NEW i \in 1..Len(q)
          PROVE  y[i] = z[i]
      <4>1. y[i] \in L /\ x[i] \in L
        BY <3>4
      <4>2. CASE i = 1
        <5>1. z[1] = [x[1] EXCEPT !.left = @ - 1]
          BY <3>2, <3>4, <4>2
        <5>2. z[1].client = x[1].client /\ z[1].left = x[1].left - 1 /\ x[1].left - 1 \in Nat
          BY <4>1, <4>2, <5>1 DEF L
        <5>3. y[1].client = x[1].client
          BY <1>1, <2>2, <4>2
        <5>4. y[1] = [client |-> x[1].client, left |-> x[1].left - 1]
          BY <3>1, <4>1, <4>2, <5>3 DEF L
        <5>5. z[1] = [client |-> x[1].client, left |-> x[1].left - 1]
          BY <4>1, <4>2, <5>1 DEF L
        <5> QED BY <4>2, <5>4, <5>5
      <4>3. CASE i # 1
        <5>1. z[i] = x[i]
          BY <3>2, <3>4, <4>3
        <5>2. i \in 2..Len(q)
          BY <1>2, <4>3
        <5>3. y[i].left = x[i].left
          BY <1>1, <2>2, <5>2
        <5>4. y[i].client = x[i].client
          BY <1>1, <2>2
        <5> QED BY <1>4, <4>1, <5>1, <5>3, <5>4
      <4> QED BY <4>2, <4>3
    <3>6. y = [i \in 1..Len(q) |-> y[i]]
      BY <3>4
    <3>7. z = [i \in 1..Len(q) |-> z[i]]
      <4>1. \A v : [x EXCEPT ![1] = v] = [i \in DOMAIN x |-> [x EXCEPT ![1] = v][i]]
        OBVIOUS
      <4> QED BY <3>2, <3>4, <4>1
    <3>8. y = z
      BY <3>5, <3>6, <3>7
    <3> QED BY <1>1, <2>2, <3>3, <3>8
  <2> QED BY <2>3, <2>4
<1> QED BY <1>5, <1>6

\* New requests at the end of a log are new requests at the end of the queue.
LEMMA LongerExtends ==
  ASSUME NEW q \in Seq(Request), NEW longer \in Seq(Request), NEW t \in Nat, NEW l \in Nat,
         NEW x \in Nat, InService(q, t, l), InService(longer, t, x),
         NEW u, LongerBy(q, longer, u)
  PROVE  Memories!Extends(LeftOf(q, t), LeftOf(longer, t), u)
<1> DEFINE L == [client: Unit, left: Nat \ {0}]
<1>1. PICK a \in Seq(L) : a = LeftOf(q, t) /\ Len(a) = Len(q)
  BY LeftType
<1>2. PICK b \in Seq(L) : /\ b = LeftOf(longer, t) /\ Len(b) = Len(longer)
                          /\ \A i \in 1..Len(longer) : b[i].client = longer[i].client
  BY LeftType
<1>3. /\ Len(q) \in Nat /\ Len(longer) \in Nat /\ Len(q) <= Len(longer)
      /\ DOMAIN q = 1..Len(q) /\ DOMAIN longer = 1..Len(longer)
  BY RequestFields DEF LongerBy
<1>4. \A i \in 1..Len(q) : a[i] = b[i]
  <2> SUFFICES ASSUME NEW i \in 1..Len(q) PROVE a[i] = b[i]
    OBVIOUS
  <2>1. longer[i] = q[i] /\ i \in 1..Len(longer)
    BY <1>3 DEF LongerBy
  <2>2. a[i] = [client |-> q[i].client, left |-> MinOf(q[i].time, q[i].finish - t)]
    BY <1>1, <1>3 DEF LeftOf
  <2>3. b[i] = [client |-> longer[i].client, left |-> MinOf(longer[i].time, longer[i].finish - t)]
    BY <1>2, <1>3, <2>1 DEF LeftOf
  <2> QED BY <2>1, <2>2, <2>3
<1>5. \A i \in (Len(q) + 1)..Len(longer) : b[i].client = u /\ b[i].left > 0
  <2> SUFFICES ASSUME NEW i \in (Len(q) + 1)..Len(longer) PROVE b[i].client = u /\ b[i].left > 0
    OBVIOUS
  <2>1. i \in 1..Len(longer) /\ longer[i].client = u
    BY <1>3 DEF LongerBy
  <2>2. b[i] \in L
    <3> HIDE DEF L
    <3> QED BY <1>2, <2>1
  <2> QED BY <1>2, <2>1, <2>2
<1> HIDE DEF L
<1>6. Memories!IsPrefix(a, b)
  <2>1. /\ SubSeq(a, 1, Len(a)) \in Seq(L) /\ Len(SubSeq(a, 1, Len(a))) = Len(a)
        /\ \A i \in 1..Len(a) : SubSeq(a, 1, Len(a))[i] = a[i]
    OBVIOUS
  <2>2. /\ SubSeq(b, 1, Len(a)) \in Seq(L) /\ Len(SubSeq(b, 1, Len(a))) = Len(a)
        /\ \A i \in 1..Len(a) : SubSeq(b, 1, Len(a))[i] = b[i]
    <3>1. Len(a) \in Nat /\ Len(a) <= Len(b)
      BY <1>1, <1>2, <1>3
    <3> QED BY <3>1
  <2>3. SubSeq(a, 1, Len(a)) = SubSeq(b, 1, Len(a))
    BY <1>1, <1>4, <2>1, <2>2, SeqEqual
  <2> QED BY <1>1, <1>2, <1>3, <2>3 DEF Memories!IsPrefix
<1> QED BY <1>1, <1>2, <1>5, <1>6 DEF Memories!Extends

\* Whatever a unit asks for at one moment, its delay ends with the last request.
LEMMA TransportedTimes ==
  ASSUME NEW m \in MemoryId, latest[m] \in Nat, now \in Nat,
         NEW r \in Seq(Transactions), Len(r) \in {1, 2}
  PROVE  \A k \in 1..Len(r) :
           LET f == Transported(m, r) IN
           /\ f[k].latest = FinishTime(f[k - 1].latest, now, Latency(Config(m), r[k]))
           /\ f[k].latest >= now /\ f[k].delay = f[k].latest - now
<1> DEFINE f == Transported(m, r)
           t(k) == Latency(Config(m), r[k])
<1>1. f[0] = [delay |-> 0, latest |-> latest[m]]
  BY TransportedUnfolds
<1>2. \A k \in 1..Len(r) : f[k] = Transport(f[k - 1], now, t(k))
  BY TransportedUnfolds, Zenon
<1>3. \A k \in 0..Len(r) : f[k] \in TransportState
  BY TransportedType
<1>4. \A k \in 1..Len(r) : t(k) \in Nat
  <2>1. \A k \in 1..Len(r) : r[k] \in Transactions
    OBVIOUS
  <2> QED BY <2>1, LatencyType
<1> HIDE DEF f, t
<1>5. ASSUME NEW k \in 1..Len(r), k - 1 \in 0..Len(r),
             f[k - 1].delay = 0 \/ f[k - 1].latest >= now
      PROVE  /\ f[k].latest = FinishTime(f[k - 1].latest, now, t(k))
             /\ f[k].latest >= now /\ f[k].delay = f[k].latest - now
  <2>1. PICK a \in Nat, b \in Nat, time \in Nat : a = f[k - 1].delay /\ b = f[k - 1].latest /\ time = t(k)
    BY <1>3, <1>4, <1>5 DEF TransportState
  <2>2. f[k] = [delay |-> IF now > b THEN a + time ELSE b + time - now,
                latest |-> FinishTime(b, now, time)]
    BY <1>2, <2>1 DEF Transport
  <2>3. f[k].latest = FinishTime(b, now, time) /\ f[k].delay = IF now > b THEN a + time ELSE b + time - now
    BY <2>2
  <2>4. a = 0 \/ b >= now
    BY <1>5, <2>1
  <2>5. FinishTime(b, now, time) >= now
    BY DEF FinishTime
  <2>6. (IF now > b THEN a + time ELSE b + time - now) = FinishTime(b, now, time) - now
    BY <2>4 DEF FinishTime
  <2> QED BY <2>1, <2>3, <2>5, <2>6
<1>6. /\ \A k \in 1..Len(r) : k = 1 \/ (k = 2 /\ 1 \in 1..Len(r) /\ 1 \in 0..Len(r))
      /\ 0 \in 0..Len(r) /\ 1 - 1 = 0 /\ 2 - 1 = 1
  BY UpToTwo
<1>7. f[0].delay = 0
  BY <1>1
<1>8. \A k \in 1..Len(r) : /\ f[k].latest = FinishTime(f[k - 1].latest, now, t(k))
                           /\ f[k].latest >= now /\ f[k].delay = f[k].latest - now
  BY <1>5, <1>6, <1>7
<1> QED BY <1>8 DEF f, t

AllInService == \A m \in MemoryId : InService(log[m], now, latest[m])

LEMMA LoggedInService ==
  ASSUME NEW u \in Unit, NEW m \in MemoryId, latest[m] \in Nat, now \in Nat, log[m] \in Seq(Request),
         InService(log[m], now, latest[m]), NEW r \in Seq(Transactions), Len(r) \in {1, 2}
  PROVE  LET q == Logged(u, m, r)[Len(r)] IN
         /\ q \in Seq(Request)
         /\ InService(q, now, Transported(m, r)[Len(r)].latest)
         /\ LongerBy(log[m], q, u)
<1> DEFINE q(k) == Logged(u, m, r)[k]
           f(k) == Transported(m, r)[k].latest
           Good(k) == /\ q(k) \in Seq(Request) /\ InService(q(k), now, f(k))
                      /\ LongerBy(log[m], q(k), u)
<1>1. q(0) = log[m] /\ \A k \in 1..Len(r) : q(k) = WithRequest(q(k - 1), u, m, r, k)
  BY LoggedUnfolds
<1>2. f(0) = latest[m]
  <2>1. Transported(m, r)[0] = [delay |-> 0, latest |-> latest[m]]
    BY TransportedUnfolds
  <2> QED BY <2>1
<1>3. \A k \in 1..Len(r) : f(k) = FinishTime(f(k - 1), now, Latency(Config(m), r[k]))
  BY TransportedTimes
<1>4. \A k \in 0..Len(r) : f(k) \in Nat
  BY TransportedType DEF TransportState
<1>5. \A k \in 1..Len(r) : Latency(Config(m), r[k]) \in Nat
  <2>1. \A k \in 1..Len(r) : r[k] \in Transactions
    OBVIOUS
  <2> QED BY <2>1, LatencyType
<1>6. /\ \A k \in 1..Len(r) : k = 1 \/ (k = 2 /\ 1 \in 1..Len(r) /\ 1 \in 0..Len(r))
      /\ \A k \in 1..Len(r) : k \in 0..Len(r)
      /\ 0 \in 0..Len(r) /\ 1 - 1 = 0 /\ 2 - 1 = 1 /\ Len(r) \in 1..Len(r)
  BY UpToTwo
<1> HIDE DEF q, f
<1>7. Good(0)
  <2>1. LongerBy(log[m], log[m], u)
    BY RequestFields DEF LongerBy
  <2> QED BY <1>1, <1>2, <2>1
<1>8. ASSUME NEW k \in 1..Len(r), k - 1 \in 0..Len(r), Good(k - 1)
      PROVE  Good(k)
  <2>1. PICK p \in Seq(Request), l \in Nat, time \in Nat, x \in Nat :
          p = q(k - 1) /\ l = f(k - 1) /\ time = Latency(Config(m), r[k]) /\ x = f(k)
    BY <1>4, <1>5, <1>6, <1>8
  <2>2. InService(p, now, l) /\ x = FinishTime(l, now, time) /\ LongerBy(log[m], p, u)
    BY <1>3, <1>8, <2>1
  <2> DEFINE e == [client |-> u, time |-> time, finish |-> x]
  <2>3. q(k) = IF time = 0 THEN p ELSE Append(p, e)
    BY <1>1, <2>1 DEF WithRequest, f
  <2>4. /\ time = 0 => InService(p, now, x)
        /\ time # 0 => InService(Append(p, e), now, x)
    BY <2>2, RequestServed
  <2>5. CASE time = 0
    BY <2>1, <2>2, <2>3, <2>4, <2>5
  <2>6. CASE time # 0
    <3>1. e \in Request /\ e.client = u
      BY <2>6 DEF Request
    <3> HIDE DEF e, Request
    <3>2. /\ Append(p, e) \in Seq(Request) /\ Len(Append(p, e)) = Len(p) + 1
          /\ \A i \in 1..Len(p) : Append(p, e)[i] = p[i]
          /\ Append(p, e)[Len(p) + 1] = e
      BY <3>1, AppendProperties
    <3>3. Len(p) \in Nat /\ Len(log[m]) \in Nat
      BY RequestFields
    <3>4. LongerBy(log[m], Append(p, e), u)
      <4>1. Len(log[m]) <= Len(p)
        BY <2>2 DEF LongerBy
      <4>2. Len(log[m]) <= Len(Append(p, e))
        BY <3>2, <3>3, <4>1
      <4>3. ASSUME NEW i \in 1..Len(log[m])
            PROVE  Append(p, e)[i] = log[m][i]
        <5>1. i \in 1..Len(p)
          BY <3>3, <4>1
        <5>2. p[i] = log[m][i]
          BY <2>2 DEF LongerBy
        <5> QED BY <3>2, <5>1, <5>2
      <4>4. ASSUME NEW i \in (Len(log[m]) + 1)..Len(Append(p, e))
            PROVE  Append(p, e)[i].client = u
        <5>1. i \in (Len(log[m]) + 1)..Len(p) \/ i = Len(p) + 1
          BY <3>2, <3>3
        <5>2. i \in (Len(log[m]) + 1)..Len(p) => i \in 1..Len(p) /\ p[i].client = u
          BY <2>2, <3>3 DEF LongerBy
        <5> QED BY <3>1, <3>2, <5>1, <5>2
      <4> QED BY <4>2, <4>3, <4>4 DEF LongerBy
    <3> QED BY <2>1, <2>3, <2>4, <2>6, <3>2, <3>4 DEF e
  <2> QED BY <2>5, <2>6
<1> HIDE DEF Good
<1>9. Good(1)
  BY <1>6, <1>7, <1>8
<1>10. Len(r) = 2 => Good(2)
  BY <1>6, <1>8, <1>9
<1>11. Good(Len(r))
  BY <1>9, <1>10
<1> QED BY <1>11 DEF Good, q, f

-----------------------------------------------------------------------------
(* The units are the clients of the server *)

ComputeOf(u) == StagesOf(Executes(u))[unit[u].stage].compute

\* A unit that has requests in a log waits for the end of the last of them and its
\* computation.
RequestsAwaited ==
  /\ \A m \in MemoryId : \A i \in DOMAIN log[m] :
       LET u == log[m][i].client IN
       unit[u].state = "waiting" /\ log[m][i].finish + ComputeOf(u) <= until[u]
  /\ \A u \in Unit : HasRequests(u) =>
       \E m \in MemoryId : \E i \in DOMAIN log[m] :
         log[m][i].client = u /\ log[m][i].finish + ComputeOf(u) = until[u]

ServerInv == TypeInv /\ AllInService /\ RequestsAwaited

Queue == [m \in MemoryId |-> Left(m)]
Work == [u \in Unit |-> WorkOf(u)]

LEMMA ComputeType ==
  ASSUME TypeInv, NEW u \in Unit, unit[u].state = "waiting"
  PROVE  ComputeOf(u) \in Nat
<1>1. unit[u].inst # 0 /\ unit[u].stage \in DOMAIN StagesOf(Executes(u))
  BY DEF TypeInv, AtAStage
<1>2. Executes(u) \in Instruction
  BY <1>1, ExecutesInstruction DEF TypeInv
<1>3. StagesOf(Executes(u)) \in Seq(Stages)
  BY <1>2, StagesType DEF StagesFit
<1>4. StagesOf(Executes(u))[unit[u].stage] \in Stages
  <2> HIDE DEF Stages
  <2> QED BY <1>1, <1>3
<1> QED BY <1>4 DEF ComputeOf, Stages

LEMMA LogEntry ==
  ASSUME TypeInv, AllInService, NEW m \in MemoryId, NEW i \in DOMAIN log[m]
  PROVE  /\ log[m][i].client \in Unit /\ log[m][i].finish \in Nat
         /\ log[m][i].finish > now /\ log[m][i].finish <= latest[m]
<1>1. log[m] \in Seq(Request)
  BY DEF TypeInv
<1>2. log[m][i] \in Request
  BY <1>1
<1>3. InService(log[m], now, latest[m])
  BY DEF AllInService
<1> QED BY <1>2, <1>3 DEF Request, InService

LEMMA QueueType ==
  ASSUME TypeInv, AllInService, NEW m \in MemoryId
  PROVE  /\ Left(m) = LeftOf(log[m], now)
         /\ DOMAIN Left(m) = DOMAIN log[m]
         /\ \A i \in DOMAIN log[m] : Left(m)[i].client = log[m][i].client
BY DEF Left, LeftOf

\* The client is told of its pending requests.
LEMMA PendingIs ==
  ASSUME TypeInv, AllInService, NEW u \in Unit
  PROVE  Memories!Pending(u) <=> HasRequests(u)
<1>1. \A m \in MemoryId : /\ Queue[m] = Left(m)
                          /\ DOMAIN Left(m) = DOMAIN log[m]
                          /\ \A i \in DOMAIN log[m] : Left(m)[i].client = log[m][i].client
  BY QueueType DEF Queue
<1>2. Memories!Pending(u) <=> \E m \in MemoryId : \E i \in DOMAIN Queue[m] : Queue[m][i].client = u
  BY DEF Memories!Pending, Queue
<1> QED BY <1>1, <1>2 DEF HasRequests

\* A unit that has come to the end of its wait has no requests left, and the server
\* lets it go on.
LEMMA DueIs ==
  ASSUME ServerInv, NEW u \in Unit
  PROVE  Memories!Due(u) <=> unit[u].state = "waiting" /\ until[u] = now
<1>1. TypeInv /\ AllInService /\ RequestsAwaited
  BY DEF ServerInv
<1>2. now \in Nat /\ until[u] \in Nat
  BY <1>1 DEF TypeInv
<1>3. Memories!Due(u) <=> u \in Waiting /\ ~HasRequests(u) /\ WorkOf(u) = 0
  BY <1>1, PendingIs DEF Memories!Due
<1>4. u \in Waiting <=> unit[u].state = "waiting"
  BY DEF Waiting
<1>5. u \in Waiting /\ ~HasRequests(u) => WorkOf(u) = until[u] - now
  BY DEF WorkOf
<1>6. ASSUME unit[u].state = "waiting", until[u] = now
      PROVE  ~HasRequests(u)
  <2> SUFFICES ASSUME HasRequests(u) PROVE FALSE
    OBVIOUS
  <2>1. PICK m \in MemoryId : \E i \in DOMAIN log[m] : log[m][i].client = u
    BY DEF HasRequests
  <2>2. PICK i \in DOMAIN log[m] : log[m][i].client = u
    BY <2>1
  <2>3. log[m][i].finish + ComputeOf(u) <= until[u]
    BY <1>1, <2>2 DEF RequestsAwaited
  <2>4. log[m][i].finish \in Nat /\ log[m][i].finish > now /\ ComputeOf(u) \in Nat
    BY <1>1, <1>6, LogEntry, ComputeType
  <2> QED BY <1>2, <1>6, <2>3, <2>4
<1>7. until[u] - now = 0 <=> until[u] = now
  BY <1>2
<1> QED BY <1>3, <1>4, <1>5, <1>6, <1>7

\* A unit that the step leaves alone.
LEMMA OthersWork ==
  ASSUME NEW u \in Unit, unit'[u] = unit[u], until'[u] = until[u], program' = program, now' = now,
         HasRequests(u)' <=> HasRequests(u)
  PROVE  /\ WorkOf(u)' = WorkOf(u) /\ (u \in Waiting' <=> u \in Waiting)
         /\ ComputeOf(u)' = ComputeOf(u)
<1>1. Executes(u)' = Executes(u)
  BY DEF Executes, Inst
<1>2. u \in Waiting' <=> u \in Waiting
  BY DEF Waiting
<1>3. ComputeOf(u)' = ComputeOf(u)
  BY <1>1 DEF ComputeOf
<1>4. WorkOf(u) = IF u \notin Waiting THEN 0 ELSE IF HasRequests(u) THEN ComputeOf(u) ELSE until[u] - now
  BY DEF WorkOf, ComputeOf
<1>5. WorkOf(u)' = IF ~(u \in Waiting') THEN 0
                   ELSE IF HasRequests(u)' THEN ComputeOf(u)' ELSE until'[u] - now'
  BY DEF WorkOf, ComputeOf
<1> QED BY <1>2, <1>3, <1>4, <1>5

LEMMA ServerInit == Init => ServerInv /\ Memories!Init
<1> SUFFICES ASSUME Init PROVE ServerInv /\ Memories!Init
  OBVIOUS
<1>1. TypeInv
  BY TypeInvInit
<1>2. /\ now = 0 /\ latest = [m \in MemoryId |-> 0] /\ log = [m \in MemoryId |-> <<>>]
      /\ \A u \in Unit : unit[u].state = "idle"
  BY DEF Init, Idle
<1>3. DOMAIN <<>> = {} /\ 0 \in Int
  OBVIOUS
<1>4. AllInService
  BY <1>2, <1>3 DEF AllInService, InService
<1>5. RequestsAwaited
  BY <1>2, <1>3 DEF RequestsAwaited, HasRequests
<1>6. \A m \in MemoryId : Left(m) = <<>>
  BY <1>2, <1>3 DEF Left
<1>7. Waiting = {} /\ \A u \in Unit : WorkOf(u) = 0
  BY <1>2 DEF Waiting, WorkOf
<1> QED BY <1>1, <1>4, <1>5, <1>6, <1>7 DEF ServerInv, Memories!Init

\* A unit that is not waiting, or no longer, has no requests left.
LEMMA NoneLeft ==
  ASSUME ServerInv, NEW u \in Unit, unit[u].state = "waiting" => until[u] = now
  PROVE  /\ \A m \in MemoryId : \A i \in DOMAIN log[m] : log[m][i].client # u
         /\ ~HasRequests(u) /\ WorkOf(u) = 0
<1>1. TypeInv /\ AllInService /\ RequestsAwaited
  BY DEF ServerInv
<1>2. now \in Nat /\ until[u] \in Nat
  BY <1>1 DEF TypeInv
<1>3. ASSUME NEW m \in MemoryId, NEW i \in DOMAIN log[m], log[m][i].client = u
      PROVE  FALSE
  <2>1. unit[u].state = "waiting" /\ log[m][i].finish + ComputeOf(u) <= until[u]
    BY <1>1, <1>3 DEF RequestsAwaited
  <2>2. log[m][i].finish \in Nat /\ log[m][i].finish > now /\ ComputeOf(u) \in Nat
    BY <1>1, <2>1, LogEntry, ComputeType
  <2>3. until[u] = now
    BY <2>1
  <2> QED BY <1>2, <2>1, <2>2, <2>3
<1>4. ~HasRequests(u)
  BY <1>3 DEF HasRequests
<1>5. WorkOf(u) = 0
  <2>1. u \in Waiting => until[u] - now = 0
    BY <1>2 DEF Waiting
  <2> QED BY <1>4, <2>1 DEF WorkOf
<1> QED BY <1>3, <1>4, <1>5

\* What the requests of a unit change.
LEMMA TransactEffect ==
  ASSUME TypeInv, AllInService, NEW u \in Unit, unit[u].inst # 0,
         NEW k \in DOMAIN StagesOf(Executes(u)), Transact(u, Executes(u), k)
  PROVE  \E m \in MemoryId, x \in Nat, compute \in Nat, q \in Seq(Request) :
           /\ compute = StagesOf(Executes(u))[k].compute
           /\ x >= now /\ until'[u] = x + compute
           /\ latest' = [latest EXCEPT ![m] = x] /\ log' = [log EXCEPT ![m] = q]
           /\ InService(q, now, x) /\ LongerBy(log[m], q, u)
<1> DEFINE stage == StagesOf(Executes(u))[k]
           m == IF stage.mem = "global" THEN "global" ELSE u[1]
           r == stage.requests
           n == Len(r)
           f == Transported(m, r)[n]
           logged == Logged(u, m, r)[n]
<1>1. stage \in Stages /\ Len(r) \in {1, 2}
  <2>1. Executes(u) \in Instruction
    BY ExecutesInstruction DEF TypeInv
  <2>2. StagesFit(StagesOf(Executes(u)))
    BY <2>1, StagesType
  <2> HIDE DEF Stages
  <2> QED BY <2>2 DEF StagesFit
<1>2. m \in MemoryId
  BY UnitOfCore
<1>3. r \in Seq(Transactions) /\ stage.compute \in Nat
  BY <1>1 DEF Stages
<1>4. /\ latest' = [latest EXCEPT ![m] = f.latest]
      /\ until' = [until EXCEPT ![u] = now + f.delay + stage.compute]
      /\ log' = [log EXCEPT ![m] = logged]
  BY Zenon DEF Transact
<1> HIDE DEF stage, m
<1>5. /\ now \in Nat /\ until \in [Unit -> Nat] /\ latest[m] \in Nat
      /\ log[m] \in Seq(Request) /\ InService(log[m], now, latest[m])
  BY <1>2 DEF TypeInv, AllInService
<1>6. n \in 1..n /\ n \in 0..n
  BY <1>1, UpToTwo
<1>7. f \in TransportState
  BY <1>1, <1>2, <1>3, <1>5, <1>6, TransportedType
<1>8. f.latest >= now /\ f.delay = f.latest - now
  BY <1>1, <1>2, <1>3, <1>5, <1>6, TransportedTimes
<1>9. logged \in Seq(Request) /\ InService(logged, now, f.latest) /\ LongerBy(log[m], logged, u)
  BY <1>1, <1>2, <1>3, <1>5, LoggedInService
<1> HIDE DEF f, logged
<1>10. f.latest \in Nat
  BY <1>7 DEF TransportState
<1>11. until'[u] = f.latest + stage.compute
  BY <1>3, <1>4, <1>5, <1>8, <1>10
<1> QED BY <1>2, <1>3, <1>4, <1>8, <1>9, <1>10, <1>11 DEF stage

\* A unit that makes requests is a client that does.
LEMMA TransactMaps ==
  ASSUME ServerInv, TypeInv', NEW u \in Unit, unit[u].inst # 0,
         unit[u].state = "waiting" => until[u] = now,
         NEW k \in DOMAIN StagesOf(Executes(u)), Transact(u, Executes(u), k),
         UNCHANGED <<program, now, next>>
  PROVE  /\ AllInService' /\ RequestsAwaited'
         /\ \E m \in MemoryId : Memories!Request(u, m)
<1>1. TypeInv /\ AllInService /\ RequestsAwaited
  BY DEF ServerInv
<1>2. PICK m \in MemoryId, x \in Nat, compute \in Nat, q \in Seq(Request) :
        /\ compute = StagesOf(Executes(u))[k].compute
        /\ x >= now /\ until'[u] = x + compute
        /\ latest' = [latest EXCEPT ![m] = x] /\ log' = [log EXCEPT ![m] = q]
        /\ InService(q, now, x) /\ LongerBy(log[m], q, u)
  BY <1>1, TransactEffect
<1>3. /\ \A v \in Unit : v # u => until'[v] = until[v]
      /\ unit' = [unit EXCEPT ![u].stage = k, ![u].state = "waiting"]
  BY <1>1, TransactType
<1>4. /\ now \in Nat /\ unit \in [Unit -> UnitState] /\ latest \in [MemoryId -> Nat]
      /\ log \in [MemoryId -> Seq(Request)] /\ until \in [Unit -> Nat]
  BY <1>1 DEF TypeInv, IInv
<1>5. /\ \A v \in Unit : v # u => unit'[v] = unit[v]
      /\ unit'[u].inst = unit[u].inst /\ unit'[u].stage = k /\ unit'[u].state = "waiting"
  BY <1>3, <1>4 DEF UnitState
<1>6. ComputeOf(u)' = compute
  <2>1. Executes(u)' = Executes(u)
    BY <1>5 DEF Executes, Inst
  <2> QED BY <1>2, <1>5, <2>1 DEF ComputeOf
<1>7. log'[m] = q /\ latest'[m] = x
  BY <1>2, <1>4
<1>8. \A d \in MemoryId : d # m => log'[d] = log[d] /\ latest'[d] = latest[d]
  BY <1>2, <1>4
<1>9. /\ log[m] \in Seq(Request) /\ Len(log[m]) \in Nat /\ Len(q) \in Nat /\ Len(log[m]) <= Len(q)
      /\ DOMAIN log[m] = 1..Len(log[m]) /\ DOMAIN q = 1..Len(q)
  BY <1>2, <1>4, RequestFields DEF LongerBy
<1>10. \A d \in MemoryId : \A i \in DOMAIN log[d] : i \in DOMAIN log'[d] /\ log'[d][i] = log[d][i]
  <2> SUFFICES ASSUME NEW d \in MemoryId, NEW i \in DOMAIN log[d]
               PROVE  i \in DOMAIN log'[d] /\ log'[d][i] = log[d][i]
    OBVIOUS
  <2>1. CASE d = m
    <3>1. i \in 1..Len(log[m]) /\ i \in 1..Len(q)
      BY <1>9, <2>1
    <3> QED BY <1>2, <1>7, <1>9, <2>1, <3>1 DEF LongerBy
  <2>2. CASE d # m
    BY <1>8, <2>2
  <2> QED BY <2>1, <2>2
<1>11. \A d \in MemoryId : \A i \in DOMAIN log'[d] :
          \/ i \in DOMAIN log[d] /\ log'[d][i] = log[d][i]
          \/ d = m /\ i \in (Len(log[m]) + 1)..Len(q) /\ log'[d][i].client = u
  <2> SUFFICES ASSUME NEW d \in MemoryId, NEW i \in DOMAIN log'[d], i \notin DOMAIN log[d]
               PROVE  d = m /\ i \in (Len(log[m]) + 1)..Len(q) /\ log'[d][i].client = u
    BY <1>10
  <2>1. d = m
    BY <1>8
  <2>2. i \in (Len(log[m]) + 1)..Len(q)
    BY <1>7, <1>9, <2>1
  <2> QED BY <1>2, <1>7, <2>1, <2>2 DEF LongerBy
<1>12. \A d \in MemoryId : \A i \in DOMAIN log[d] : log[d][i].client # u /\ log[d][i].client \in Unit
  BY <1>1, NoneLeft, LogEntry
<1>13. AllInService'
  <2>1. ASSUME NEW d \in MemoryId
        PROVE  InService(log'[d], now, latest'[d])
    <3>1. CASE d = m
      BY <1>2, <1>7, <3>1
    <3>2. CASE d # m
      BY <1>1, <1>8, <3>2 DEF AllInService
    <3> QED BY <3>1, <3>2
  <2> QED BY <2>1 DEF AllInService
<1>14. ASSUME NEW v \in Unit, v # u
       PROVE  /\ HasRequests(v)' <=> HasRequests(v)
              /\ WorkOf(v)' = WorkOf(v) /\ (v \in Waiting' <=> v \in Waiting)
              /\ ComputeOf(v)' = ComputeOf(v)
  <2>1. HasRequests(v)' <=> \E d \in MemoryId : \E i \in DOMAIN log'[d] : log'[d][i].client = v
    BY DEF HasRequests
  <2>2. HasRequests(v)' <=> HasRequests(v)
    BY <1>10, <1>11, <1>14, <2>1 DEF HasRequests
  <2>3. unit'[v] = unit[v] /\ until'[v] = until[v] /\ program' = program /\ now' = now
    BY <1>3, <1>5, <1>14
  <2> QED BY <2>2, <2>3, OthersWork
<1>15. ASSUME NEW d \in MemoryId, NEW i \in DOMAIN log'[d], NEW v, v = log'[d][i].client
       PROVE  unit'[v].state = "waiting" /\ log'[d][i].finish + ComputeOf(v)' <= until'[v]
  <2>1. CASE i \in DOMAIN log[d] /\ log'[d][i] = log[d][i]
    <3>1. v \in Unit /\ v # u /\ v = log[d][i].client
      BY <1>12, <1>15, <2>1
    <3>2. unit[v].state = "waiting" /\ log[d][i].finish + ComputeOf(v) <= until[v]
      BY <1>1, <2>1, <3>1 DEF RequestsAwaited
    <3> QED BY <1>3, <1>5, <1>14, <2>1, <3>1, <3>2
  <2>2. CASE d = m /\ i \in (Len(log[m]) + 1)..Len(q) /\ log'[d][i].client = u
    <3>1. i \in DOMAIN q /\ log'[d][i] = q[i]
      BY <1>7, <1>9, <2>2
    <3>2. q[i].finish <= x /\ q[i].finish \in Nat
      BY <1>2, <1>9, <3>1, RequestFields DEF InService
    <3>3. q[i].finish + compute <= x + compute
      BY <3>2
    <3> QED BY <1>2, <1>5, <1>6, <1>15, <2>2, <3>1, <3>3
  <2> QED BY <1>11, <2>1, <2>2
<1>16. ASSUME NEW v \in Unit, HasRequests(v)'
       PROVE  \E d \in MemoryId : \E i \in DOMAIN log'[d] :
                log'[d][i].client = v /\ log'[d][i].finish + ComputeOf(v)' = until'[v]
  <2>1. CASE v # u
    <3>1. HasRequests(v)
      BY <1>14, <1>16, <2>1
    <3>2. PICK d \in MemoryId : \E i \in DOMAIN log[d] :
            log[d][i].client = v /\ log[d][i].finish + ComputeOf(v) = until[v]
      BY <1>1, <3>1 DEF RequestsAwaited
    <3>3. PICK i \in DOMAIN log[d] :
            log[d][i].client = v /\ log[d][i].finish + ComputeOf(v) = until[v]
      BY <3>2
    <3>4. i \in DOMAIN log'[d] /\ log'[d][i] = log[d][i]
      BY <1>10
    <3>5. ComputeOf(v)' = ComputeOf(v) /\ until'[v] = until[v]
      BY <1>3, <1>14, <2>1
    <3> QED BY <3>3, <3>4, <3>5
  <2>2. CASE v = u
    <3>1. PICK d \in MemoryId : \E i \in DOMAIN log'[d] : log'[d][i].client = u
      BY <1>16, <2>2 DEF HasRequests
    <3>2. PICK i \in DOMAIN log'[d] : log'[d][i].client = u
      BY <3>1
    <3>3. i \in (Len(log[m]) + 1)..Len(q)
      BY <1>11, <1>12, <3>2
    <3>4. Len(q) \in (Len(log[m]) + 1)..Len(q) /\ Len(q) \in DOMAIN q /\ q # <<>>
      BY <1>9, <3>3
    <3>5. q[Len(q)].client = u /\ q[Len(q)].finish = x
      BY <1>2, <3>4 DEF LongerBy, InService
    <3>6. /\ log'[m][Len(q)].client = v /\ Len(q) \in DOMAIN log'[m]
          /\ log'[m][Len(q)].finish + ComputeOf(v)' = until'[v]
      BY <1>2, <1>6, <1>7, <2>2, <3>4, <3>5
    <3> QED BY <3>6
  <2> QED BY <2>1, <2>2
<1>17. RequestsAwaited'
  BY <1>15, <1>16 DEF RequestsAwaited
<1>18. Memories!Request(u, m)
  <2>1. u \in Waiting => Memories!Due(u)
    BY DueIs DEF Waiting
  <2>2. Memories!Extends(Queue[m], Queue'[m], u)
    <3>1. Left(m) = LeftOf(log[m], now) /\ Left(m)' = LeftOf(q, now)
      BY <1>7 DEF Left, LeftOf
    <3>2. latest[m] \in Nat /\ InService(log[m], now, latest[m])
      BY <1>1, <1>4 DEF AllInService
    <3>3. Memories!Extends(LeftOf(log[m], now), LeftOf(q, now), u)
      BY <1>2, <1>4, <1>9, <3>2, LongerExtends
    <3> QED BY <3>1, <3>3 DEF Queue
  <2>3. Queue' = [Queue EXCEPT ![m] = Queue'[m]]
    <3>1. \A d \in MemoryId : d # m => Left(d)' = Left(d)
      BY <1>8 DEF Left
    <3>2. Queue' = [d \in MemoryId |-> Left(d)']
      BY DEF Queue
    <3>3. Queue = [d \in MemoryId |-> Left(d)]
      BY DEF Queue
    <3> HIDE DEF Queue
    <3> QED BY <3>1, <3>2, <3>3
  <2>4. Waiting' = Waiting \cup {u}
    <3>1. Waiting' \subseteq Unit /\ Waiting \subseteq Unit
      BY DEF Waiting
    <3>2. u \in Waiting'
      BY <1>5 DEF Waiting
    <3> QED BY <1>14, <3>1, <3>2
  <2>5. WorkOf(u)' \in Nat
    <3>1. u \in Waiting'
      BY <1>5 DEF Waiting
    <3>2. WorkOf(u)' = IF HasRequests(u)' THEN ComputeOf(u)' ELSE until'[u] - now'
      BY <3>1 DEF WorkOf, ComputeOf
    <3>3. until'[u] - now' \in Nat
      BY <1>2, <1>4
    <3> QED BY <1>6, <3>2, <3>3
  <2>6. Work'[u] \in Nat /\ Work' = [Work EXCEPT ![u] = Work'[u]]
    <3>1. Work' = [v \in Unit |-> WorkOf(v)'] /\ Work = [v \in Unit |-> WorkOf(v)]
      BY DEF Work
    <3>2. \A v \in Unit : v # u => WorkOf(v)' = WorkOf(v)
      BY <1>14
    <3> HIDE DEF Work
    <3> QED BY <2>5, <3>1, <3>2
  <2> QED BY <2>1, <2>2, <2>3, <2>4, <2>6 DEF Memories!Request, Queue, Work
<1> QED BY <1>13, <1>17, <1>18

\* Steps that make no requests and leave time alone keep the logs in service.
LEMMA LogsStay ==
  ASSUME ServerInv, UNCHANGED <<program, now, until, latest, log>>,
         \A v \in Unit : unit[v].state = "waiting" /\ HasRequests(v) => unit'[v] = unit[v]
  PROVE  AllInService' /\ RequestsAwaited'
<1>1. TypeInv /\ AllInService /\ RequestsAwaited
  BY DEF ServerInv
<1>2. AllInService'
  BY <1>1 DEF AllInService
<1>3. ASSUME NEW v \in Unit, HasRequests(v)
      PROVE  unit'[v] = unit[v] /\ ComputeOf(v)' = ComputeOf(v) /\ unit[v].state = "waiting"
  <2>1. unit[v].state = "waiting"
    BY <1>1, <1>3 DEF RequestsAwaited, HasRequests
  <2>2. unit'[v] = unit[v]
    BY <1>3, <2>1
  <2>3. Executes(v)' = Executes(v)
    BY <2>2 DEF Executes, Inst
  <2> QED BY <2>1, <2>2, <2>3 DEF ComputeOf
<1>4. ASSUME NEW d \in MemoryId, NEW i \in DOMAIN log[d], NEW v, v = log[d][i].client
      PROVE  unit'[v].state = "waiting" /\ log[d][i].finish + ComputeOf(v)' <= until[v]
  <2>1. v \in Unit /\ HasRequests(v)
    BY <1>1, <1>4, LogEntry DEF HasRequests
  <2>2. log[d][i].finish + ComputeOf(v) <= until[v]
    BY <1>1, <1>4 DEF RequestsAwaited
  <2> QED BY <1>3, <2>1, <2>2
<1>5. ASSUME NEW v \in Unit, HasRequests(v)'
      PROVE  \E d \in MemoryId : \E i \in DOMAIN log[d] :
               log[d][i].client = v /\ log[d][i].finish + ComputeOf(v)' = until[v]
  <2>1. HasRequests(v)
    BY <1>5 DEF HasRequests
  <2>2. ComputeOf(v)' = ComputeOf(v)
    BY <1>3, <2>1
  <2> QED BY <1>1, <2>1, <2>2 DEF RequestsAwaited
<1> QED BY <1>2, <1>4, <1>5 DEF RequestsAwaited

\* The queues of the server and the work of units that are left alone stay.
LEMMA ServerStays ==
  ASSUME UNCHANGED <<program, now, until, latest, log>>, NEW S, \A v \in Unit \ S : unit'[v] = unit[v]
  PROVE  /\ Queue' = Queue
         /\ \A v \in Unit \ S : WorkOf(v)' = WorkOf(v) /\ (v \in Waiting' <=> v \in Waiting)
<1>1. Queue' = Queue
  <2>1. \A m \in MemoryId : Left(m)' = Left(m)
    BY DEF Left
  <2>2. Queue' = [m \in MemoryId |-> Left(m)'] /\ Queue = [m \in MemoryId |-> Left(m)]
    BY DEF Queue
  <2> QED BY <2>1, <2>2
<1>2. \A v : HasRequests(v)' <=> HasRequests(v)
  BY DEF HasRequests
<1>3. \A v \in Unit \ S : WorkOf(v)' = WorkOf(v) /\ (v \in Waiting' <=> v \in Waiting)
  BY <1>2, OthersWork
<1> QED BY <1>1, <1>3

\* A unit that goes on with a remote access, or has come to its end.
LEMMA ResumeMaps ==
  ASSUME ServerInv, NEW u \in Unit, unit[u].state = "waiting", until[u] = now,
         UNCHANGED <<program, now, next, until, latest, log>>,
         \A v \in Unit : v # u => unit'[v] = unit[v], unit'[u].state # "waiting"
  PROVE  AllInService' /\ RequestsAwaited' /\ Memories!Resume(u)
<1>1. ~HasRequests(u) /\ WorkOf(u) = 0
  BY NoneLeft
<1>2. AllInService' /\ RequestsAwaited'
  BY <1>1, LogsStay
<1>3. /\ Queue' = Queue
      /\ \A v \in Unit \ {u} : WorkOf(v)' = WorkOf(v) /\ (v \in Waiting' <=> v \in Waiting)
  BY ServerStays
<1>4. u \notin Waiting' /\ WorkOf(u)' = 0
  BY DEF Waiting, WorkOf
<1>5. Waiting' = Waiting \ {u}
  <2>1. Waiting' \subseteq Unit /\ Waiting \subseteq Unit
    BY DEF Waiting
  <2> QED BY <1>3, <1>4, <2>1
<1>6. Work' = Work
  <2>1. \A v \in Unit : WorkOf(v)' = WorkOf(v)
    BY <1>1, <1>3, <1>4
  <2>2. Work' = [v \in Unit |-> WorkOf(v)'] /\ Work = [v \in Unit |-> WorkOf(v)]
    BY DEF Work
  <2> QED BY <2>1, <2>2
<1>7. Memories!Due(u)
  BY DueIs
<1> QED BY <1>2, <1>3, <1>5, <1>6, <1>7 DEF Memories!Resume, Queue, Work

\* Issuing is no step of the memories.
LEMMA IssueStutters ==
  ASSUME ServerInv, NEW c \in Core, Issue(c)
  PROVE  /\ AllInService' /\ RequestsAwaited'
         /\ UNCHANGED <<Queue, Waiting, Work>>
<1>1. TypeInv
  BY DEF ServerInv
<1>2. PICK e \in Instruction : e = Inst(c, next[c])
  <2>1. program[c] \in Seq(Instruction) /\ next[c] \in DOMAIN program[c]
    BY <1>1, WorkloadsAssumption DEF TypeInv, IInv, Issue
  <2>2. Inst(c, next[c]) \in Instruction
    BY <2>1 DEF Inst
  <2> QED BY <2>2
<1>3. PICK u \in Unit : u = UnitOf(c, e)
  <2>1. UnitOf(c, e) \in Unit
    BY DEF UnitOf, Unit, Instruction
  <2> QED BY <2>1
<1>4. PICK start : start = [inst |-> next[c], stage |-> 1,
                            state |-> IF StagesOf(e)[1].remote THEN "remote" ELSE "ready"]
  OBVIOUS
<1>5. /\ unit[u].inst = 0 /\ unit' = [unit EXCEPT ![u] = start]
      /\ UNCHANGED <<program, now, until, latest, log>>
  BY <1>2, <1>3, <1>4 DEF Issue
<1>6. start.state # "waiting"
  BY <1>4
<1>7. unit \in [Unit -> UnitState]
  BY <1>1 DEF TypeInv, IInv
<1>8. (\A v \in Unit : v # u => unit'[v] = unit[v]) /\ unit'[u].state # "waiting"
  BY <1>5, <1>6, <1>7
<1>9. unit[u].state # "waiting"
  BY <1>1, <1>5 DEF TypeInv, AtAStage
<1>10. AllInService' /\ RequestsAwaited'
  BY <1>5, <1>8, <1>9, LogsStay
<1>11. /\ Queue' = Queue
       /\ \A v \in Unit \ {u} : WorkOf(v)' = WorkOf(v) /\ (v \in Waiting' <=> v \in Waiting)
  BY <1>5, <1>8, ServerStays
<1>12. u \notin Waiting' /\ u \notin Waiting /\ WorkOf(u)' = 0 /\ WorkOf(u) = 0
  BY <1>8, <1>9 DEF Waiting, WorkOf
<1>13. Waiting' = Waiting
  <2>1. Waiting' \subseteq Unit /\ Waiting \subseteq Unit
    BY DEF Waiting
  <2> QED BY <1>11, <1>12, <2>1
<1>14. Work' = Work
  <2>1. \A v \in Unit : WorkOf(v)' = WorkOf(v)
    BY <1>11, <1>12
  <2>2. Work' = [v \in Unit |-> WorkOf(v)'] /\ Work = [v \in Unit |-> WorkOf(v)]
    BY DEF Work
  <2> QED BY <2>1, <2>2
<1> QED BY <1>10, <1>11, <1>13, <1>14

\* A tick of the units is a tick of the server.
LEMMA TickMaps ==
  ASSUME ServerInv, TypeInv', Tick
  PROVE  AllInService' /\ RequestsAwaited' /\ Memories!Tick
<1>1. TypeInv /\ AllInService /\ RequestsAwaited
  BY DEF ServerInv
<1>2. /\ now' = now + 1 /\ UNCHANGED <<program, next, unit, until, latest>>
      /\ log' = [m \in MemoryId |-> Unfinished(m, now + 1)]
      /\ \A u \in Unit : ~(unit[u].state = "waiting" /\ until[u] = now)
  BY DEF Tick, Due
<1>3. /\ now \in Nat /\ latest \in [MemoryId -> Nat] /\ until \in [Unit -> Nat]
      /\ log \in [MemoryId -> Seq(Request)]
  BY <1>1 DEF TypeInv
<1>4. \A m \in MemoryId :
        /\ log[m] \in Seq(Request) /\ latest[m] \in Nat /\ InService(log[m], now, latest[m])
        /\ log'[m] = IF log[m] # <<>> /\ log[m][1].finish = now + 1 THEN Tail(log[m]) ELSE log[m]
  <2> SUFFICES ASSUME NEW m \in MemoryId
               PROVE  /\ log[m] \in Seq(Request) /\ latest[m] \in Nat /\ InService(log[m], now, latest[m])
                      /\ log'[m] = IF log[m] # <<>> /\ log[m][1].finish = now + 1
                                   THEN Tail(log[m]) ELSE log[m]
    OBVIOUS
  <2>1. log[m] \in Seq(Request) /\ latest[m] \in Nat /\ InService(log[m], now, latest[m])
    BY <1>1, <1>3 DEF AllInService
  <2>2. log'[m] = SubSeq(log[m], Cardinality({i \in DOMAIN log[m] : log[m][i].finish <= now + 1}) + 1,
                         Len(log[m]))
    BY <1>2 DEF Unfinished
  <2>3. log'[m] = IF log[m] # <<>> /\ log[m][1].finish = now + 1 THEN Tail(log[m]) ELSE log[m]
    BY <1>3, <2>1, <2>2, RestOfLog
  <2> QED BY <2>1, <2>3
<1>5. AllInService'
  <2>1. ASSUME NEW m \in MemoryId
        PROVE  InService(log'[m], now + 1, latest[m])
    BY <1>3, <1>4, TickInService
  <2> QED BY <1>2, <2>1 DEF AllInService
<1>6. Queue' = [m \in MemoryId |-> Memories!Serve(Queue[m])]
  <2>1. ASSUME NEW m \in MemoryId
        PROVE  Left(m)' = Memories!Serve(Left(m))
    <3>1. Left(m) = LeftOf(log[m], now) /\ Left(m)' = LeftOf(log'[m], now + 1)
      BY <1>2 DEF Left, LeftOf
    <3>2. LeftOf(log'[m], now + 1) = Memories!Serve(LeftOf(log[m], now))
      BY <1>3, <1>4, TickServes
    <3> QED BY <3>1, <3>2
  <2>2. Queue' = [m \in MemoryId |-> Left(m)'] /\ Queue = [m \in MemoryId |-> Left(m)]
    BY DEF Queue
  <2> HIDE DEF Queue
  <2> QED BY <2>1, <2>2
\* What is in a log after the tick was in it before.
<1>7. \A m \in MemoryId : \A i \in DOMAIN log'[m] :
         \E j \in DOMAIN log[m] : log'[m][i] = log[m][j]
  <2> SUFFICES ASSUME NEW m \in MemoryId, NEW i \in DOMAIN log'[m]
               PROVE  \E j \in DOMAIN log[m] : log'[m][i] = log[m][j]
    OBVIOUS
  <2>1. CASE log[m] # <<>> /\ log[m][1].finish = now + 1
    <3>1. log'[m] = Tail(log[m]) /\ log[m] \in Seq(Request)
      BY <1>4, <2>1
    <3>2. Tail(log[m])[i] = log[m][i + 1] /\ i + 1 \in DOMAIN log[m]
      <4>1. /\ Tail(log[m]) \in Seq(Request) /\ Len(Tail(log[m])) = Len(log[m]) - 1
            /\ \A k \in 1..(Len(log[m]) - 1) : Tail(log[m])[k] = log[m][k + 1]
        BY <2>1, <3>1, TailFields
      <4>2. i \in 1..(Len(log[m]) - 1) /\ Len(log[m]) \in Nat /\ DOMAIN log[m] = 1..Len(log[m])
        BY <3>1, <4>1, RequestFields
      <4> QED BY <4>1, <4>2
    <3> QED BY <3>1, <3>2
  <2>2. CASE ~(log[m] # <<>> /\ log[m][1].finish = now + 1)
    BY <1>4, <2>2
  <2> QED BY <2>1, <2>2
\* What was in it stays, or is finished.
<1>8. \A m \in MemoryId : \A i \in DOMAIN log[m] :
         \/ log[m][i].finish = now + 1
         \/ \E j \in DOMAIN log'[m] : log'[m][j] = log[m][i]
  <2> SUFFICES ASSUME NEW m \in MemoryId, NEW i \in DOMAIN log[m], log[m][i].finish # now + 1
               PROVE  \E j \in DOMAIN log'[m] : log'[m][j] = log[m][i]
    OBVIOUS
  <2>1. CASE log[m] # <<>> /\ log[m][1].finish = now + 1
    <3>1. log'[m] = Tail(log[m]) /\ log[m] \in Seq(Request)
      BY <1>4, <2>1
    <3>2. /\ Tail(log[m]) \in Seq(Request) /\ Len(Tail(log[m])) = Len(log[m]) - 1
          /\ \A k \in 1..(Len(log[m]) - 1) : Tail(log[m])[k] = log[m][k + 1]
      BY <2>1, <3>1, TailFields
    <3>3. i \in 1..Len(log[m]) /\ Len(log[m]) \in Nat /\ i # 1
      BY <2>1, <3>1, RequestFields
    <3>4. i - 1 \in 1..(Len(log[m]) - 1) /\ (i - 1) + 1 = i
      BY <3>3
    <3>5. DOMAIN Tail(log[m]) = 1..(Len(log[m]) - 1)
      BY <3>2, RequestFields
    <3>6. i - 1 \in DOMAIN Tail(log[m]) /\ Tail(log[m])[i - 1] = log[m][i]
      BY <3>2, <3>4, <3>5
    <3> QED BY <3>1, <3>6
  <2>2. CASE ~(log[m] # <<>> /\ log[m][1].finish = now + 1)
    BY <1>4, <2>2
  <2> QED BY <2>1, <2>2
<1>9. \A u : ComputeOf(u)' = ComputeOf(u)
  BY <1>2 DEF ComputeOf, Executes, Inst
<1>10. \A u \in Unit : HasRequests(u)' => HasRequests(u)
  BY <1>7 DEF HasRequests
<1>11. ASSUME NEW u \in Unit, HasRequests(u)
       PROVE  /\ HasRequests(u)' =>
                   \E m \in MemoryId : \E i \in DOMAIN log'[m] :
                     log'[m][i].client = u /\ log'[m][i].finish + ComputeOf(u) = until[u]
              /\ ~HasRequests(u)' => until[u] = (now + 1) + ComputeOf(u)
              /\ unit[u].state = "waiting"
  <2>1. PICK m \in MemoryId : \E i \in DOMAIN log[m] :
          log[m][i].client = u /\ log[m][i].finish + ComputeOf(u) = until[u]
    BY <1>1, <1>11 DEF RequestsAwaited
  <2>2. PICK i \in DOMAIN log[m] : log[m][i].client = u /\ log[m][i].finish + ComputeOf(u) = until[u]
    BY <2>1
  <2>3. unit[u].state = "waiting"
    BY <1>1, <2>2 DEF RequestsAwaited
  <2>4. ASSUME NEW j \in DOMAIN log'[m], log'[m][j] = log[m][i]
        PROVE  /\ HasRequests(u)'
               /\ log'[m][j].client = u /\ log'[m][j].finish + ComputeOf(u) = until[u]
    BY <2>2, <2>4 DEF HasRequests
  <2>5. CASE \E j \in DOMAIN log'[m] : log'[m][j] = log[m][i]
    BY <2>3, <2>4, <2>5
  <2>6. CASE log[m][i].finish = now + 1
    <3>1. until[u] = (now + 1) + ComputeOf(u)
      BY <2>2, <2>6
    <3>2. ASSUME HasRequests(u)'
          PROVE  \E d \in MemoryId : \E k \in DOMAIN log'[d] :
                     log'[d][k].client = u /\ log'[d][k].finish + ComputeOf(u) = until[u]
      <4>1. PICK d \in MemoryId : \E k \in DOMAIN log'[d] : log'[d][k].client = u
        BY <3>2 DEF HasRequests
      <4>2. PICK k \in DOMAIN log'[d] : log'[d][k].client = u
        BY <4>1
      <4>3. PICK j \in DOMAIN log[d] : log'[d][k] = log[d][j]
        BY <1>7
      <4>4. log[d][j].finish + ComputeOf(u) <= until[u]
        BY <1>1, <4>2, <4>3 DEF RequestsAwaited
      <4>5. log'[d][k].finish > now + 1 /\ log'[d][k].finish \in Nat
        <5>1. InService(log'[d], now + 1, latest[d])
          BY <1>2, <1>5 DEF AllInService
        <5>2. log[d][j].finish \in Nat
          BY <1>1, LogEntry
        <5> QED BY <4>3, <5>1, <5>2 DEF InService
      <4>6. ComputeOf(u) \in Nat
        BY <1>1, <2>3, ComputeType
      <4> QED BY <1>3, <3>1, <4>3, <4>4, <4>5, <4>6
    <3> QED BY <2>3, <3>1, <3>2
  <2> QED BY <1>8, <2>5, <2>6
<1>12. RequestsAwaited'
  <2>1. ASSUME NEW d \in MemoryId, NEW i \in DOMAIN log'[d], NEW v, v = log'[d][i].client
        PROVE  unit'[v].state = "waiting" /\ log'[d][i].finish + ComputeOf(v)' <= until'[v]
    <3>1. PICK j \in DOMAIN log[d] : log'[d][i] = log[d][j]
      BY <1>7
    <3>2. unit[v].state = "waiting" /\ log[d][j].finish + ComputeOf(v) <= until[v]
      BY <1>1, <2>1, <3>1 DEF RequestsAwaited
    <3> QED BY <1>2, <1>9, <3>1, <3>2
  <2>2. ASSUME NEW v \in Unit, HasRequests(v)'
        PROVE  \E d \in MemoryId : \E i \in DOMAIN log'[d] :
                 log'[d][i].client = v /\ log'[d][i].finish + ComputeOf(v)' = until'[v]
    <3>1. HasRequests(v)
      BY <1>10, <2>2
    <3>2. ComputeOf(v)' = ComputeOf(v) /\ until' = until
      BY <1>2, <1>9
    <3> QED BY <1>11, <2>2, <3>1, <3>2
  <2> QED BY <2>1, <2>2 DEF RequestsAwaited
<1>13. Waiting' = Waiting
  BY <1>2 DEF Waiting
<1>14. ASSUME NEW u \in Unit
       PROVE  WorkOf(u)' = IF u \in Waiting /\ ~Memories!Pending(u) THEN WorkOf(u) - 1 ELSE WorkOf(u)
  <2>1. WorkOf(u) = IF u \notin Waiting THEN 0 ELSE IF HasRequests(u) THEN ComputeOf(u) ELSE until[u] - now
    BY DEF WorkOf, ComputeOf
  <2>2. WorkOf(u)' = IF u \notin Waiting THEN 0
                     ELSE IF HasRequests(u)' THEN ComputeOf(u) ELSE until[u] - (now + 1)
    <3>1. WorkOf(u)' = IF ~(u \in Waiting') THEN 0
                       ELSE IF HasRequests(u)' THEN ComputeOf(u)' ELSE until'[u] - now'
      BY DEF WorkOf, ComputeOf
    <3> QED BY <1>2, <1>9, <1>13, <3>1
  <2>3. Memories!Pending(u) <=> HasRequests(u)
    BY <1>1, PendingIs
  <2>4. until[u] \in Nat /\ now \in Nat
    BY <1>3
  <2>5. until[u] - (now + 1) = (until[u] - now) - 1
    BY <2>4
  <2>6. u \in Waiting => ComputeOf(u) \in Nat
    BY <1>1, ComputeType DEF Waiting
  <2>7. u \in Waiting /\ HasRequests(u) /\ ~HasRequests(u)' => until[u] - (now + 1) = ComputeOf(u)
    BY <1>11, <2>4, <2>6
  <2>8. ~HasRequests(u) => ~HasRequests(u)'
    BY <1>10
  <2> QED BY <2>1, <2>2, <2>3, <2>5, <2>7, <2>8
<1>15. Work' = [u \in Unit |-> IF u \in Waiting /\ ~Memories!Pending(u) THEN Work[u] - 1 ELSE Work[u]]
  <2>1. Work' = [u \in Unit |-> WorkOf(u)'] /\ \A u \in Unit : Work[u] = WorkOf(u)
    BY DEF Work
  <2> HIDE DEF Work
  <2> QED BY <1>14, <2>1
<1>16. \A u \in Unit : ~Memories!Due(u)
  BY <1>2, DueIs
<1>17. Memories!Tick
  BY <1>6, <1>13, <1>15, <1>16, Zenon DEF Memories!Tick, Queue, Work
<1> QED BY <1>5, <1>12, <1>17

LEMMA ProceedMaps ==
  ASSUME ServerInv, TypeInv', NEW u \in Unit, Proceed(u)
  PROVE  /\ AllInService' /\ RequestsAwaited'
         /\ Memories!Resume(u) \/ \E m \in MemoryId : Memories!Request(u, m)
<1> DEFINE stages == StagesOf(Executes(u))
           k == unit[u].stage + 1
<1>1. TypeInv /\ unit \in [Unit -> UnitState]
  BY DEF ServerInv, TypeInv, IInv
<1>2. /\ unit[u].state = "waiting" /\ until[u] = now
      /\ UNCHANGED <<program, now, next>>
  BY DEF Proceed
<1>3. unit[u].inst # 0
  BY <1>1, <1>2 DEF TypeInv, AtAStage
<1>4. CASE k \in DOMAIN stages /\ Transact(u, Executes(u), k)
  BY <1>2, <1>3, <1>4, TransactMaps
<1>5. CASE /\ unit' = [unit EXCEPT ![u].stage = k, ![u].state = "remote"]
           /\ UNCHANGED <<until, latest, log>>
  <2> HIDE DEF k
  <2>1. (\A v \in Unit : v # u => unit'[v] = unit[v]) /\ unit'[u].state # "waiting"
    BY <1>1, <1>5 DEF UnitState
  <2> QED BY <1>2, <1>5, <2>1, ResumeMaps
<1>6. CASE unit' = [unit EXCEPT ![u] = Idle] /\ UNCHANGED <<until, latest, log>>
  <2>1. (\A v \in Unit : v # u => unit'[v] = unit[v]) /\ unit'[u].state # "waiting"
    BY <1>1, <1>6 DEF Idle
  <2> QED BY <1>2, <1>6, <2>1, ResumeMaps
<1> QED BY <1>4, <1>5, <1>6 DEF Proceed

LEMMA BeginMaps ==
  ASSUME ServerInv, TypeInv', NEW u \in Unit, Begin(u)
  PROVE  /\ AllInService' /\ RequestsAwaited'
         /\ \E m \in MemoryId : Memories!Request(u, m)
<1>1. TypeInv
  BY DEF ServerInv
<1>2. /\ unit[u].inst # 0 /\ unit[u].stage \in DOMAIN StagesOf(Executes(u))
      /\ unit[u].state # "waiting"
  BY <1>1 DEF Begin, TypeInv, AtAStage
<1>3. Transact(u, Executes(u), unit[u].stage) /\ UNCHANGED <<program, now, next>>
  BY DEF Begin
<1> QED BY <1>2, <1>3, TransactMaps

LEMMA ServerStep == ServerInv /\ [Next]_vars => ServerInv' /\ [Memories!Next]_Memories!vars
<1> SUFFICES ASSUME ServerInv, [Next]_vars PROVE ServerInv' /\ [Memories!Next]_Memories!vars
  OBVIOUS
<1>1. TypeInv'
  BY StepTypeInv DEF ServerInv
<1>2. ASSUME NEW c \in Core, Issue(c)
      PROVE  ServerInv' /\ UNCHANGED Memories!vars
  BY <1>1, <1>2, IssueStutters DEF ServerInv, Memories!vars, Queue, Work
<1>3. ASSUME NEW u \in Unit, Begin(u) \/ Proceed(u)
      PROVE  ServerInv' /\ Memories!Next
  BY <1>1, <1>3, BeginMaps, ProceedMaps DEF ServerInv, Memories!Next
<1>4. CASE Tick
  BY <1>1, <1>4, TickMaps DEF Memories!Next, ServerInv
<1>5. CASE UNCHANGED vars
  <2>1. UNCHANGED <<program, now, until, latest, log>> /\ unit' = unit
    BY <1>5 DEF vars
  <2>2. AllInService' /\ RequestsAwaited'
    BY <2>1, LogsStay
  <2>3. /\ Queue' = Queue
        /\ \A v \in Unit : WorkOf(v)' = WorkOf(v) /\ (v \in Waiting' <=> v \in Waiting)
    <3>1. \A v \in Unit \ {} : unit'[v] = unit[v]
      BY <2>1
    <3> QED BY <2>1, <3>1, ServerStays
  <2>4. Waiting' = Waiting
    BY <2>1 DEF Waiting
  <2>5. Work' = Work
    <3>1. Work' = [v \in Unit |-> WorkOf(v)'] /\ Work = [v \in Unit |-> WorkOf(v)]
      BY DEF Work
    <3> QED BY <2>3, <3>1
  <2> QED BY <1>1, <2>2, <2>3, <2>4, <2>5 DEF ServerInv, Memories!vars, Queue, Work
<1> QED BY <1>2, <1>3, <1>4, <1>5 DEF Next

\* The memories of a chip, each of which only keeps the time at which its latest
\* request is finished and answers at once (Memory.cpp:21-53), are FIFO servers of
\* all the units that use them: for every configuration and workload, each unit goes
\* on at the moment at which its last request has been served, in turn, and its
\* computation is over.
THEOREM MemoriesServe == Spec => ImplementsServer
<1>1. Init => ServerInv /\ Memories!Init
  BY ServerInit
<1>2. ServerInv /\ [Next]_vars => ServerInv' /\ [Memories!Next]_Memories!vars
  BY ServerStep
<1>3. Spec => Memories!Spec
  BY <1>1, <1>2, PTL DEF Spec, Memories!Spec
<1> QED BY <1>3 DEF ImplementsServer
=============================================================================
