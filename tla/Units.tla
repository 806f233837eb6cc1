-------------------------------- MODULE Units -------------------------------
(***************************************************************************)
(* The execution units of several cores and the memories they share, in    *)
(* time: the threads of the vector unit, the transfer unit and the array   *)
(* groups of every core, the local memory of the core, and the global      *)
(* memory of the chip.  Every core issues its instructions in order, at a  *)
(* clock edge, as its dispatcher does: to a unit that is free, and not in  *)
(* conflict with an instruction in execution.  A thread then walks through *)
(* the stages of its instruction (Operands).                               *)
(*                                                                         *)
(* Threads that are due at the same time run in any order.  The other end  *)
(* of a transfer and the network answer at any time.                       *)
(***************************************************************************)
EXTENDS Operands, FiniteSets

CONSTANTS
  Core, ArrayGroup,
  Workloads,           \* the programs considered: functions from cores to sequences
  CorePeriod,          \* CoreConfig::period
  vector_width, vector_latency_cycle,
  local_memory_config, global_memory_config,
  Horizon              \* bound: the latest time at which nobody waits for a memory

UnitOf(c, e) ==
  <<c, IF e.op \in VectorOp THEN "vector" ELSE IF e.op \in TransferOp THEN "transfer" ELSE e.group>>

Unit == Core \X ({"vector", "transfer"} \cup ArrayGroup)
MemoryId == Core \cup {"global"}

VARIABLES
  program,   \* never changes
  now,       \* sc_time_stamp()
  next,      \* per core: the next instruction to issue
  unit,      \* per unit: the instruction it executes (0: none), stage, state
  until,     \* per unit: when its wait(delay) is over
  latest,    \* per memory: latest_request_finish_time
  log        \* history: requests that take time and are not finished, per memory

vars == <<program, now, next, unit, until, latest, log>>

Instruction ==
  [op: VectorOp \cup TransferOp \cup {"mvmul"}, rd_value: Nat, rs1_value: Nat, rs2_value: Nat,
   len: Nat, size: Nat, offset_value: Nat, offset_select: Nat, group: ArrayGroup,
   mbiw: Nat \ {0}, input_bitwidth: Nat, output_bitwidth: Nat]

\* Of the instructions that access more than the dispatcher checks, none is looked
\* at.
ASSUME WorkloadsAssumption ==
  \A w \in Workloads :
    /\ w = [c \in Core |-> w[c]]
    /\ \A c \in Core : /\ w[c] \in Seq(Instruction)
                       /\ \A i \in DOMAIN w[c] : AccessIsChecked(w[c][i])

ASSUME UnitsAssumption ==
  /\ MatrixConfig \in MatrixUnitConfig
  /\ \A g \in ArrayGroup : ArrayGroupMap[g] \in Nat
  /\ local_memory_config \in MemoryConfig /\ global_memory_config \in MemoryConfig
  /\ CorePeriod \in Nat \ {0} /\ vector_width \in Nat \ {0} /\ vector_latency_cycle \in Nat

Config(m) == IF m = "global" THEN global_memory_config ELSE local_memory_config
Idle == [inst |-> 0, stage |-> 0, state |-> "idle"]
Inst(c, i) == program[c][i]

\* The instructions that core c executes.
Executing(c) == {u \in Unit : u[1] = c /\ unit[u].inst # 0}
Executes(u) == Inst(u[1], unit[u].inst)

\* VectorUnit::getVectorComputeLatencyCyclePower; the cycles are taken for ns.
VectorCompute(e) == CeilDiv(e.len, vector_width) * vector_latency_cycle

StagesOf(e) ==
  IF e.op \in VectorOp THEN VectorStages(e, VectorCompute(e))
  ELSE IF e.op \in TransferOp THEN TransferStages(e) ELSE MatrixStages(e)

Due(u) ==
  \/ unit[u].state = "ready"
  \/ unit[u].state = "waiting" /\ until[u] = now

-----------------------------------------------------------------------------
(* Requests *)

\* s after the first k of the requests, all of memory m, of one thread.
Transported(m, requests) ==
  LET f[k \in 0..Len(requests)] ==
        IF k = 0 THEN [delay |-> 0, latest |-> latest[m]]
        ELSE Transport(f[k - 1], now, Latency(Config(m), requests[k]))
  IN f

\* The log of memory m after the requests, all of m, of thread u.  A request that
\* takes no time is finished as soon as those before it.
Logged(u, m, requests) ==
  LET f == Transported(m, requests)
      g[k \in 0..Len(requests)] ==
        IF k = 0 THEN log[m]
        ELSE LET time == Latency(Config(m), requests[k])
             IN IF time = 0 THEN g[k - 1]
                ELSE Append(g[k - 1], [client |-> u, time |-> time, finish |-> f[k].latest])
  IN g

\* Thread u makes the requests of stage k and waits.
Transact(u, e, k) ==
  LET stage == StagesOf(e)[k]
      m == IF stage.mem = "global" THEN "global" ELSE u[1]
      n == Len(stage.requests)
      end == Transported(m, stage.requests)[n]
  IN /\ latest' = [latest EXCEPT ![m] = end.latest]
     /\ until' = [until EXCEPT ![u] = now + end.delay + stage.compute]
     /\ unit' = [unit EXCEPT ![u].stage = k, ![u].state = "waiting"]
     /\ log' = [log EXCEPT ![m] = Logged(u, m, stage.requests)[n]]

-----------------------------------------------------------------------------
(* Actions *)

\* The dispatcher of core c issues its next instruction.
Issue(c) ==
  /\ now % CorePeriod = 0
  /\ next[c] \in DOMAIN program[c]
  /\ LET e == Inst(c, next[c]) IN
     /\ unit[UnitOf(c, e)].inst = 0
     /\ \A u \in Executing(c) : ~IsConflict(e, Executes(u))
     /\ unit' = [unit EXCEPT ![UnitOf(c, e)] =
                   [inst |-> next[c], stage |-> 1,
                    state |-> IF StagesOf(e)[1].remote THEN "remote" ELSE "ready"]]
  /\ next' = [next EXCEPT ![c] = @ + 1]
  /\ UNCHANGED <<program, now, until, latest, log>>

\* The thread of unit u has been started, or has got what it waits for.
Begin(u) ==
  /\ unit[u].state \in {"ready", "remote"}
  /\ Transact(u, Executes(u), unit[u].stage)
  /\ UNCHANGED <<program, now, next>>

\* Mutant: the unit does not report its end.
ProceedSilently(u) ==
  /\ unit[u].state = "waiting" /\ until[u] = now
  /\ unit[u].stage + 1 \in DOMAIN StagesOf(Executes(u))
  /\ ~StagesOf(Executes(u))[unit[u].stage + 1].remote
  /\ Transact(u, Executes(u), unit[u].stage + 1)
  /\ UNCHANGED <<program, now, next>>

\* wait(delay) is over: the next stage, or the end of the instruction.
Proceed(u) ==
  /\ unit[u].state = "waiting" /\ until[u] = now
  /\ LET stages == StagesOf(Executes(u))
         k == unit[u].stage + 1
     IN \/ /\ k \in DOMAIN stages /\ ~stages[k].remote
           /\ Transact(u, Executes(u), k)
        \/ /\ k \in DOMAIN stages /\ stages[k].remote
           /\ unit' = [unit EXCEPT ![u].stage = k, ![u].state = "remote"]
           /\ UNCHANGED <<until, latest, log>>
        \/ /\ k \notin DOMAIN stages
           /\ unit' = [unit EXCEPT ![u] = Idle]
           /\ UNCHANGED <<until, latest, log>>
  /\ UNCHANGED <<program, now, next>>

\* The requests of a memory that are not finished at time t.
Unfinished(m, t) ==
  SubSeq(log[m], Cardinality({i \in DOMAIN log[m] : log[m][i].finish <= t}) + 1, Len(log[m]))

\* Time goes on once nobody is due.  Requests finish in the order of the log.
Tick ==
  /\ \A u \in Unit : ~Due(u)
  /\ \/ now < Horizon \/ now % CorePeriod # 0
     \/ \E u \in Unit : unit[u].state = "waiting"
  /\ now' = now + 1
  /\ log' = [m \in MemoryId |-> Unfinished(m, now + 1)]
  /\ UNCHANGED <<program, next, unit, until, latest>>

Init ==
  /\ program \in Workloads
  /\ now = 0
  /\ next = [c \in Core |-> 1]
  /\ unit = [u \in Unit |-> Idle]
  /\ until = [u \in Unit |-> 0]
  /\ latest = [m \in MemoryId |-> 0]
  /\ log = [m \in MemoryId |-> <<>>]

Next ==
  \/ \E c \in Core : Issue(c)
  \/ \E u \in Unit : Begin(u) \/ Proceed(u)
  \/ Tick

Spec == Init /\ [][Next]_vars

\* The clock of every core goes on, threads that are due run, and the rest of the
\* chip answers.
FairSpec ==
  /\ Spec /\ WF_vars(Tick)
  /\ \A c \in Core : WF_vars(Issue(c))
  /\ \A u \in Unit : WF_vars(Begin(u) \/ Proceed(u))
=============================================================================
