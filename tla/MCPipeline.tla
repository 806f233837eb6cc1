----------------------------- MODULE MCPipeline -----------------------------
(***************************************************************************)
(* Instances of PipelineProps for TLC: two registers, two array groups,    *)
(* every program of a given length over a few kinds of instructions.       *)
(***************************************************************************)
EXTENDS PipelineProps

CONSTANTS g1, g2   \* array groups

I(op, rd, rs1, imm, group) ==
  [op |-> op, rd |-> rd, rs1 |-> rs1, rs2 |-> rs1, imm |-> imm, group |-> group]

\* Register 1 moves the addresses of what comes after it.
SetRegister == I("sldi", 1, 0, 4, g1)
CopyToZero  == I("saddi", 0, 1, 0, g1)
AddToOne    == I("saddi", 1, 1, 4, g1)  \* differs each time it is executed
Width       == I("setbw", 0, 0, 1, g1)
Widen       == I("setbw", 0, 0, 5, g1)

Matrix(g)  == I("mvmul", 0, 1, 0, g)
Vector     == I("vrelu", 0, 1, 0, g1)
VectorBack == I("vvadd", 1, 0, 0, g1)
Receive    == I("recv", 1, 0, 2, g1)
Send       == I("send", 1, 1, 2, g1)
Store      == I("st", 0, 0, 2, g1)

Streams(kinds, n) == UNION {[1..m -> kinds] : m \in 0..n}
Prefixed(prefix, S) == {prefix \o s : s \in S}

\* Every order of instructions, after the byte width has been set; the last one
\* has a unit.
OrderKinds == {SetRegister, CopyToZero, Widen, Matrix(g1), Vector, VectorBack, Send}
OrderPrograms ==
  {<<>>} \cup Prefixed(<<Width>>, {s \in Streams(OrderKinds, 4) :
                          s # <<>> /\ s[Len(s)].op \notin ScalarOp \cup {"setbw"}})

\* Independent instructions first, so that all units work at the same time.
UnitKinds == {Matrix(g1), Matrix(g2), Vector, Send, Receive, Store}
UnitPrograms == Prefixed(<<Width, SetRegister>>, Streams(UnitKinds, 4) \ {<<>>})

\* The scalar operations with a register and an immediate, or with two registers.
Scalar(op) == [op |-> op, rd |-> 0, rs1 |-> 0, rs2 |-> 1, imm |-> 3, group |-> g1]
ScalarKinds == {Scalar(op) : op \in {"sadd", "ssub", "smul", "saddi", "smuli", "sld"}}
ScalarPrograms ==
  Prefixed(<<Width, SetRegister>>, {s \o <<Vector>> : s \in [1..2 -> ScalarKinds]})

Latency == OrderPrograms \cup UnitPrograms \cup ScalarPrograms

\* Programs that are repeated.
LoopKinds == {SetRegister, CopyToZero, Widen, Matrix(g1), Matrix(g2), Vector, Send}
Throughput == Prefixed(<<Width>>, Streams(LoopKinds, 3) \ {<<>>})

\* They are programs the theorems are about.
ASSUME LatencyAssumption ==
  Programs = Latency => RangesSuffice /\ EndsInBuffer /\ NoNop /\ AccumulatesFirst

\* One program for each place where the code departs from what it documents.
OverwritePrograms == {<<Width, SetRegister, Vector, Matrix(g1)>>}
StallPrograms     == {<<Width, SetRegister, Vector, Vector, AddToOne, Vector>>}
ScalarEnd         == {<<Width, SetRegister, Vector, CopyToZero>>}
=============================================================================
