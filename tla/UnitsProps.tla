----------------------------- MODULE UnitsProps -----------------------------
(***************************************************************************)
(* What the units of a chip and its memories must guarantee.               *)
(***************************************************************************)
EXTENDS Units, Functions

UnitState == [inst: Nat, stage: Nat, state: {"idle", "ready", "remote", "waiting"}]
Request == [client: Unit, time: Nat \ {0}, finish: Nat]

\* Every variable holds a value of its type, and a unit that waits has a moment
\* to wait for that is not over: wait(delay) is never called with a delay that
\* lies in the past.
TypeOK ==
  /\ program \in Workloads
  /\ now \in Nat
  /\ \A c \in Core : next[c] \in 1..(Len(program[c]) + 1)
  /\ unit \in [Unit -> UnitState]
  /\ until \in [Unit -> Nat]
  /\ latest \in [MemoryId -> Nat]
  /\ \A m \in MemoryId : log[m] \in Seq(Request)
  /\ \A u \in Unit : unit[u].state = "waiting" => until[u] >= now

\* The bytes of the local memory that e accesses when its unit executes it.  Of
\* the read of an array group, one byte in eight stands for a byte.
Bytes(e, r) ==
  LET n == IF e.op = "mvmul" /\ r.command = "read" THEN r.data_size \div 8 ELSE r.data_size
  IN r.addr .. (r.addr + n - 1)

LocalRequests(e) ==
  UNION {Range(stage.requests) : stage \in {s \in Range(StagesOf(e)) : s.mem = "local"}}
Touched(e, command) ==
  UNION {Bytes(e, r) : r \in {q \in LocalRequests(e) : q.command = command}}

\* While an instruction executes, no other unit of the core writes what it reads,
\* whatever their widths, lengths and offsets: the ranges the dispatcher compares
\* (ExecInfo::isConflict) cover what the units access.
OperandsAreStable ==
  \A c \in Core : \A u, v \in Executing(c) :
    u # v => Touched(Executes(u), "write") \cap Touched(Executes(v), "read") = {}

\* Every instruction of every program is issued and executed.
ProgramsEnd ==
  <>[](\A c \in Core : next[c] > Len(program[c]) /\ Executing(c) = {})

\* The operand offsets of an instruction are the ones that offset_select names.
OffsetsFollowSelect ==
  \A c \in Core : \A u \in Executing(c) :
    LET e == Executes(u) IN
    /\ getRs1OffsetValue(e) = Offset(e, e.offset_select, 2)
    /\ getRs2OffsetValue(e) = Offset(e, e.offset_select, 4)

-----------------------------------------------------------------------------
(* A memory is a FIFO server: a request in its log has still to be served   *)
(* for the time to its end, or for all of its own time.                     *)

MinOf(a, b) == IF a < b THEN a ELSE b

Left(m) ==
  [i \in DOMAIN log[m] |->
     [client |-> log[m][i].client, left |-> MinOf(log[m][i].time, log[m][i].finish - now)]]

Waiting == {u \in Unit : unit[u].state = "waiting"}
HasRequests(u) == \E m \in MemoryId : \E i \in DOMAIN log[m] : log[m][i].client = u

WorkOf(u) ==
  IF u \notin Waiting THEN 0
  ELSE IF HasRequests(u) THEN StagesOf(Executes(u))[unit[u].stage].compute
  ELSE until[u] - now

Memories == INSTANCE FifoServer WITH
  Client <- Unit, Server <- MemoryId,
  queue <- [m \in MemoryId |-> Left(m)],
  waiting <- Waiting,
  work <- [u \in Unit |-> WorkOf(u)]

\* The delays that Memory::transport hands out, to all the units that ask, are
\* those of a server that works without a break on one request at a time.
ImplementsServer == Memories!Spec
=============================================================================
