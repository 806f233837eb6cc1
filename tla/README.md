# pimsim-nn in TLA+

pimsim-nn simulates a neural-network accelerator made of processing-in-memory cores on top
of SystemC.  A chip is a set of cores, a network and an external memory; every core is a
pipeline that runs its own instruction stream, and cores meet only through `send`/`recv`,
`sync`/`wait` and the global memory.  This directory models what is hard to test in it:
the rendezvous protocol of the transfer units, the pipeline of one core with its hazard
check and reorder buffer, the execution units that compete for memories, the clocked
primitives and the SystemC scheduler that all of it runs on, and the loop that runs a
simulation and decides that it has ended.

Paths are relative to the repository, without the leading `src/`; "manual" is
`doc/isa.pdf`.

## Inventory

| Component | State | Operations | Talks to | Must guarantee |
|---|---|---|---|---|
| Transfer unit (`TransferUnit.cpp`) | thread position, send/recv partners, tag, map of offers, event registers, awaited event | send, recv, sync, wait, ld, st, lldi, lmv; the receive handler for five kinds of messages | its switch (post, callback), dispatcher (FSM) | no offer, permission, datum or signal lost, doubled or stale; no throw; no hang without a missing peer |
| Switch and network (`Switch.cpp`, `SwitchSocket.cpp`, `Network.cpp`) | queue of payloads, payload in transport | queue, transport, respond | transfer unit of its core, handlers of the others, external memory | FIFO; never sleeps with a payload queued; never takes the front of an empty queue; every access answered |
| SystemC scheduler (vendored) | queues of runnable processes, pending notifications of the three kinds, update list, time | run, notify, cancel, wait, write a signal, advance time, return from `sc_start` | everybody | nobody runnable is forgotten, the earliest notification counts, nothing is triggered twice |
| Front end (`InstFetch`, `InstDecode`, `RegFile`, `ScalarUnit`) | pc, decode register, bit width, scalar register, register file and its pending writes | fetch in both modes, decode, read with bypass, scalar operations, setbw | dispatcher (ready) | operands as in a sequential execution, whatever the stalls |
| Back end (`Dispatcher`, `ReorderBuffer`, `ExecInfo`) | dispatcher register, ring buffer | hazard check, issue, commit, retire, end of program | units, front end | in-order issue, no RAW/WAR overlap, no overflow, each instruction once, end reported last |
| Operand selection (`Instruction.h`, `ExecInfo.cpp`) | none | offsets, final addresses, ranges to compare | dispatcher, units | the ranges cover what the units access |
| Execution units (`MatrixUnit`, `ArrayGroup`, `XbarArray`, `VectorUnit`) | FSM per unit, AGDispatcher register, commit queue, commit ports; stage and delay of each thread | start, memory requests, compute, write back, finish, commit | memories, reorder buffer | operands stable while an instruction executes; nothing lost between a finish and a start at the same edge |
| Memory (`Memory.cpp`, `MemoryWrapper.cpp`) | end of the latest request | access | units, switch | requests queue for the bandwidth in order of arrival |
| Clocked primitives (`Register.hpp`, `FSM.hpp`, `PulseSignal.h`, `ClockDomain.cpp`, `CommitQueue`) | values and the events of the next edge | input changes, finish, commit, clock edge | all of the above | whatever happens between two edges, the effect at the edge is that of a register, an FSM, a pulse |
| Simulator and chip (`Simulator.cpp`, `Chip.cpp`, `Core.cpp`) | piece of the run, rounds, windows, finish flags and times | run loop of both modes, addRunRounds, setFinish, report | cores, scheduler | what is reported has been measured; every run ends |
| Performance counter (`PerformanceCounter.cpp`) | start times of the instructions in execution, traces | start, finish, weighted statistics | reorder buffer, report | one record per execution; no time lost or given twice |
| Instruction formats (`isa/`) | none | JSON and binary records | front end | write and read back is the identity |
| Energy counter, configuration, command line | sums, fields | accumulate, parse | report | no influence on control |

**Hard behaviours.** Threads of different cores interleave inside one simulated instant
(SystemC leaves the order of runnable processes open); a notification is lost on a thread
that does not wait at that moment; an offer may come before, during or after the matching
recv; tags repeat in throughput mode; several units commit at one edge; a finish and a
start meet at one edge; a stalled front end re-evaluates what already ran; a unit writes
back long after the dispatcher compared its ranges; several units ask one memory in one
delta cycle; the deadline is compared in floating point. `PROJECT.json` lists each hazard
at its line with the properties that cover it.

## Modules

| Module | Models | Kind |
|---|---|---|
| `Switch` | scheduler operations and `Switch::processTransport` | component |
| `TransferUnit` | all transfer units, composed with `Switch`, in latency and throughput mode | component and composition |
| `TransferProps` | type invariant, safety, action and liveness properties | properties |
| `Rendezvous` | what the units promise to programs: offers meet, agree, hand over once; signals are counted and consumed atomically | abstract specification |
| `TransferRefinement` | the refinement mapping from `TransferUnit` to `Rendezvous` | refinement |
| `TransferProofs`, `RendezvousProofs` | type correctness and wake-up discipline; no throw; no stale, lost or doubled offer; permissions and data with both ends; only peers stall a core; pairs in program order; signals conserved; refinement of `Rendezvous` | proofs |
| `RingBuffer` | the class `RingBuffer` as functions of a record | data structure |
| `Cycle` | what an edge does to a register, an FSM, a pulse and a commit queue | operators |
| `FrontEnd`, `BackEnd` | the two halves of a core's pipeline, with the records of the performance counter | components |
| `Pipeline` | both on one clock | composition |
| `ProgramOrder` | issue window: in order, no RAW/WAR on bytes, retirement in order | abstract specification |
| `PipelineProps` | sequential execution, properties, mapping to `ProgramOrder` | properties |
| `PipelineProofs` | the ring for every capacity; no throw, no conflict or hazard, one place for each instruction, the end last, rounds; sequential operands; refinement of `ProgramOrder` | proofs |
| `UnitCycle` | state that only moves at the edges, as `Cycle` says | abstract specification |
| `Clocked` | the events and methods behind `Cycle`, with the mapping to `UnitCycle` | component |
| `ClockedProofs` | nothing is lost between the events of two edges; `Clocked` implements `UnitCycle` | proofs |
| `Memory` | `Memory::transport` as an operator on the end of the latest request | component |
| `Operands` | offsets, addresses, ranges, and the stages of memory accesses and computations of every operation | operators |
| `Units` | the threads of the units of several cores in time, composed with `Memory` and `Operands` | composition |
| `FifoServer` | a memory as a server that works on one request at a time | abstract specification |
| `UnitsProps`, `UnitsProofs` | properties and the mapping to `FifoServer`; ranges cover accesses, operands are stable, no wait is over; refinement of `FifoServer` | properties, proofs |
| `Kernel` | the part of the SystemC kernel that the simulator uses | component |
| `Scheduler` | what a SystemC user is told: delta cycles, earliest notification, time | abstract specification |
| `KernelProps`, `KernelProofs` | properties and the mapping to `Scheduler`; one place for each process and notification, the kernel implements the scheduler | properties, proofs |
| `Simulation` | `Simulator::runSimulation`, rounds, windows, end of run, report | component |
| `SimulationProps`, `SimulationProofs` | the properties, with a history variable for the completed rounds; window boundaries, latency verdict | properties, proofs |
| `InstructionFormat` | the binary record and its bytes | operators |
| `PerformanceCounter` | the loop of `getWeightedStatistics` | component |
| `RecordProofs` | read-back of the binary record; time is shared | proofs |
| `MCTransfer`, `MCPipeline`, `MCUnits`, `MCKernel` | instances for TLC | model checking |

`SimulationProps` is checked directly: its constants are plain numbers.

The parts fit together as follows.  `TransferUnit` and `Simulation` use the scheduler as
`Scheduler` describes it, and `Kernel` implements that.  `FrontEnd` and `BackEnd` use the
effect of an edge (`Cycle`), and `Clocked` implements it.  `Units` refines what `Pipeline`
leaves open, how long a unit is busy and which bytes it touches meanwhile; `TransferUnit`
refines what both leave open, when the other end of a transfer answers.  `Simulation` sees
of a core the two calls that `Pipeline` makes (`run_rounds`, `finish_running`).

### Transfer units and switches

Every core has two `SC_THREAD`s, the unit's `process()` and the switch's
`processTransport()`.  `sched[p]` is the scheduler's view of a thread: runnable, delayed
(any `wait(time)`), or the event it waits for.  A thread runs from one `wait` to the next
without preemption, so one action is one such stretch, including everything it calls: the
receive handler runs inside the thread of the *sender's* switch.  `notify()` moves a
thread only if it waits for that event; this is what makes lost notifications possible.
`Release` ends an evaluation phase: nothing is runnable, and any nonempty set of delayed
threads wakes up together.  All latencies (network distance, memory, clock periods) become
"some later phase", so that every relative speed is covered.

`u_pc` names the `wait` the unit is suspended in, `sw_pc` that of the switch.  The
instructions that reach a unit are in program order and one at a time: the dispatcher is
in order and the unit's FSM has no queue; what the pipeline does in between is a delay
before the next instruction.  `recv_waiting_sender_map` holds tags, which are instruction
indices as in the code; indices start at 1 here and 0 stands for "no offer", which is -1
or a missing key in the code.  A `throw` in a handler ends the simulation (`thrown`).  In
throughput mode (`Looping`) the position goes back to the first instruction after the last
one, so that the same tags come again.

### The pipeline of a core

State is taken when the signals have settled after a rising edge; what `SC_METHOD`s
compute from registers are operators (`IsDispatchable`, `Issued`, `ToDispatcher`, ...).
Glitches within a cycle do no harm, because registers are read again at the edge.
`PosEdge` is one edge of everything; `Complete(x)` is a unit that calls `finishExec`
between two edges, after any number of cycles.  When a finish and the next start are due
at the same edge the FSM hears the start first: `ClockDomain` keeps its events in a
`std::set` ordered by address and `FSM` declares `trigger` before `finish_exec`.  This is
why a unit that finishes is not ready in that cycle, and why the dispatcher, which sees it
as busy, does not lose an instruction. A `PulsePort` written again at the edge that resets
it loses the new value (`PulseAfter`); the runs and `PulsesAreKept` show that this never
happens to a commit.

In throughput mode a `pc` counts on from lap to lap and the code's is its remainder: an
instruction decoded again is another `ExecInfo`, for those are compared by pointers. The
operations are all the scalar ones, `setbw`, `nop`, `mvmul`, two vector operations with
one and two sources, and the transfers that touch local memory; the other vector
operations differ from them in the number of operands only, and are all in `Operands`.
`inst_map` is the map of `PerformanceCounter`, filled and emptied in `me_updateROB`.
Registers are not truncated to 32 bits, and `setbw` sets both widths alike (their
difference is in `Operands`).

### Clocked primitives

`Clocked` keeps the set `pos_edge_events` of `ClockDomain` and has one action for
everything that may happen between two edges: an input signal changes, the thread
finishes, an array group commits, an enable changes.  `ClockEdge` clears the set and runs
the methods of the events in their order of addresses; the delta cycles that follow (the
`write_event` of a pulse) belong to it.  `Kind` chooses among `RegNext`, `RegEnable` and
`RegPipe`, which ask for an edge under different conditions; `RegNext` and `RegEnable`
compare their input with a member that is not initialised, so that `Init` leaves its value
open.  That is harmless, as the proof shows: either the edge is asked for, or the input is
already what the register shows. `UnitCycle` knows no events: the refinement says that an
event that was not asked for would have changed nothing.

### Units and memories in time

`Operands` has for every instruction the sequence of its stages: the requests it makes to
one memory, and the time it computes before the next stage, from `VectorUnit::process`,
`ArrayGroup::th_processMVM` and the transfer operations.  `Units` issues instructions in
order at clock edges, to a unit that is free and without conflict in the ranges that
`ExecInfo` gives, and lets the thread of each unit walk through its stages; threads that
are due at the same time run in any order.  `Memory::transport` does not wait: it computes
from `latest` the delay of the caller.  The log of the requests that take time and are not
finished is a history variable for the refinement of `FifoServer`; one that takes no time
(no bytes, or a latency of zero) is over as soon as those before it and leaves no trace. A
`remote` stage is the answer of the network or of another core, at any time.

### The SystemC kernel

`Kernel` has the four queues of `sc_runnable` (push and pop, methods and threads), the
list of delta notifications with the index each event remembers, the timed queue with
cancelled entries, the signal and its update, and the loops of `crunch` and `simulate`:
one action per process that runs, per call it makes, and per step of the loop.  A process
may do anything its rules allow, within `Budget` calls per run and `MaxTime`.  `sc_start`
may be called in slices.  Threads wait for one event or a time, methods have static
sensitivity, which is all the simulator uses.  The methods that one trigger makes runnable
run in one fixed order, as do the processes at the start; in SystemC it follows their
registration.

### Formats and statistics

`InstructionFormat` and `PerformanceCounter` are small enough to be proved outright.  The
first has no behaviour: `toBinaryRecord`, `fromBinaryRecord` and the little-endian bytes
are operators. The second is the loop over nanoseconds; its heaps are sets, of which only
the top is looked at (`Taken`), and a share is the pair of a nanosecond and the number of
instructions it is divided by.

### The run of a simulation

`Simulation` sees the cores through two calls: `addRunRounds` (throughput mode) and
`setFinish` (latency mode), made at any tick by any set of cores.  All cores share one
clock, so that the calls of one tick are one delta cycle, which `sc_stop` lets finish.
Events at exactly the end of an `sc_start` are left to the next one
(`sc_simcontext.cpp:929`).  Time is an integer number of ticks and the 1% tolerance a
percentage on integers; the one place where doubles matter is the rest until the deadline:
`rest_left` says whether the difference of doubles at the deadline is positive, which it
can be for a timeout that is not a whole number of nanoseconds as a double.
`sc_start` then rounds it to zero and runs one delta cycle without advancing time
(`ZeroStart`).

## Runs

All bounds are in the `.cfg` files and the MC modules; the components name the ones they
use (`Laps`, `Horizon`, `Budget`, `MaxTime`) as constants.

| Run | Question | Instance |
|---|---|---|
| `TransferSafety` | Can any mix of transfers break the protocol? Do the units implement the rendezvous? | three cores, *every* assignment of up to two instructions per core: sends and recvs, four in all; and signals, waits, sends and recvs, three in all, one source per register; symmetric cores |
| `TransferLiveness` | Do matching programs finish, and does the protocol survive repeated tags? | a three-core pipeline with loads and stores, a gather out of order, a ping-pong of signals; a gather and a ping-pong over and over |
| `TransferWaitAtomic` | *violated*: is wait atomic with two sources? | two cores signal one register |
| `Pipeline` | Does a core execute its program, and do units, reorder buffer and counter keep track of each other? | reorder buffer of three, two array groups; every order of up to four of seven instructions; every order of up to four of six independent ones; every pair of scalar operations; loops of up to three instructions for five rounds |
| `PipelineWriteWrite` | *violated*: is WAW checked? | two instructions with one destination |
| `PipelineStall` | *violated*: is a stalled scalar instruction executed once? | a self-increment behind two dependent vector operations |
| `PipelineScalarEnd` | *violated*: is the end reported last? | a program that ends with a scalar instruction |
| `Units` | Do units write what others read? Does a memory serve in order? | two cores, two memory speeds: programs in which all units ask one memory or two cores the global one; every vector operation with every pair of widths whose accesses are compared, next to a transfer at the edge of its ranges |
| `OperandOffset` | *violated*: does `offset_select` select? | every offset and selection of three bits |
| `Kernel` | Does the kernel implement the scheduler, and does whoever can run, run? | two threads, a method, two events and a signal; delays 0 to 2, slices of 1 and 2, time up to 2, one call per run besides the wait |
| `Simulation` | Is what is reported measured, and does every run end? | two cores, three pieces of four ticks, timeout of seven, tolerance 34% |
| `SimulationDeadline` | *violated*: does a run always end? | the same with a timeout of three |

**Why these bounds.**  A rendezvous involves two cores; a third one is what interferes: a
second offer to the same receiver, a chain, a cycle of waits.  Two instructions per core
make a next instruction that a late message can hit; four transfers contain every pair
with a pair that crosses it.  `TransferSafety` has no looping programs: repeated tags are
the subject of `TransferLiveness`, and of the theorems, which hold in both modes.  One event register is enough, since registers do not
interact.  A ring buffer of three entries wraps around and is full with every unit busy;
the default of the configuration is one.  Four instructions behind a buffer of three keep
one waiting in the dispatcher; the runs of the findings use a buffer of two.  Two
registers give a dependence and an independent value.  Five rounds of two instructions
fill the buffer and the front end with instructions of different rounds.  In `Units` a
core clock of two ticks and memories of one and two put requests at, before and after the
end of the previous one, and a transfer of no bytes waits for its turn without service;
`Horizon` only ends the idle time at the end. In `Kernel` one
call and a wait per run are enough for a notification to meet a pending one of each kind,
cancelled entries and the end of a slice. In `Simulation` twelve ticks hold more than
three windows of two rounds, and tolerance 34% makes windows of 2 and 3 ticks agree and
others disagree; two cores make the slowest one change.

**Deadlock** is not checked: a program that has ended, a core whose peer never comes, a
kernel that has used up its time and an ended simulation are legitimate ends.  What
stopping means is stated by `StallsOnlyForPeers`, `AllFinish`, `ProgramFinishes`,
`ProgramsEnd`, `EveryoneRuns` and `EndsWithoutRest` instead.

**Fairness.**  `FairSpec` of the transfer units is weak fairness of the whole next-state
relation: the scheduler runs what is runnable and lets time pass otherwise. No fairness
towards a single thread is needed when programs run once.  Looping programs need one more
fact, that a `wait(time)` of one thread ends although others keep waiting (`LoopSpec`:
strong fairness of each expiry), which holds since every delay is finite.  The pipeline
assumes that the clock goes on and that each unit finishes what it executes; `Units` shows
where that comes from: it assumes only that time and clocks go on, that a thread whose
delay is over runs, and that the other end of a transfer answers (the transfer model's
concern).  The kernel is one loop, so that weak fairness of its next-state relation is
that it goes on and that no process runs for ever without a wait.  The simulator is one
thread that never waits for anybody.

## Where the code departs from its documents

Six departures are runs (`findings` in `PROJECT.json`):

* `wait` compares, is woken, and resets later; a signal of another source in between is
  wiped out (`TransferUnit.cpp:347`; manual 4.4 (7) says atomic).
* The loop labelled WAW compares writes with reads (`ExecInfo.cpp:346`).
* A scalar instruction executes again in every stalled cycle (`ScalarUnit.cpp:26`), so
  that one that reads its own destination is applied repeatedly.
* A scalar instruction at the end of a program reports the end while older ones execute
  (`ScalarUnit.cpp:73`).
* A latency run whose timeout leaves a rest of less than a picosecond at the deadline
  never ends (`Simulator.cpp:133-136`).  `latency_timeout_ms = 64.4` is such a value:
  64.4 * 1e6 is the double 64400000.0000000075, and the time stamp of 64.4 ms comes out of
  `to_seconds() * 1e9` (`sc_time.cpp:322`) as 64400000, so that 7.45e-9 ns are left.  For
  100 ms, and every other whole number of milliseconds up to the default of 60000, nothing
  is left and the run ends with its error.
* The offsets of `$rs1` and `$rs2` are selected by bits of the offset itself instead of
  `offset_select` (`Instruction.h:39`, `45`; manual 4.1 (8)).

The following are modelled as they are and avoided by the instances, or lie outside the
models.

* Ranges (`AccessIsChecked` names them): `vmv` is not compared at all; `vavg`, and `vrelu`
  and `vvdmul` with wide inputs, write more than is compared; a send reads at `$rd` while
  `$rs1` is compared (`ExecInfo.cpp:249`, `TransferUnit.cpp:239`); `lldi` and `lmv` keep
  their size in another field than the one compared, so that their ranges are empty
  (`ExecInfo.cpp:245`).
* Front end: a `nop` enters the reorder buffer, has no unit and never leaves it, so that a
  program with one never finishes (`ExecInfo.cpp:19`); a program that ends with `setbw`
  does not either (`InstDecode.cpp:88`); `sld` writes register 0 (`ScalarUnit.cpp:65`);
  a one-instruction stream does not loop in throughput mode (`InstFetch.cpp:51`).
* Transfers: a send returns when its data is queued, before the receiver has it
  (`TransferUnit.cpp:261`, manual 4.4 (5)); `ld` asks for a response of size 0. `ld` and
  `st` read register pairs, and the register file then leaves the fields of single
  registers at 0 (`RegFile.cpp:69`), which the transfer unit takes for the address in the
  local memory (`TransferUnit.cpp:363`, `391`; manual 4.4 (1) and (2)).
* Timing: an `mvmul` reads eight times its bytes; the cycles of a vector operation are
  taken for nanoseconds; `divideWithCeiling` rounds down (`XbarArray.cpp:108`).
* Formats: a binary record drops the second source of scalar operations
  (`Instruction.cpp:144`); the round trip of `InstructionBinaryTest.cpp:57` has no such
  instruction.
* Statistics: the weighted times count start to end inclusive, while the unused
  `getStatistics` takes the difference (`PerformanceCounter.cpp:74`, `92`).

## What is proved

The theorems hold for every value of the constants that satisfies the named assumptions,
which TLC evaluates in the runs that extend the same modules.

`TransferProofs`, from `CoreAssumption` (a finite set of cores) and `ProgramAssumption`
(sends, recvs and syncs name a core), in both modes:

* `TypeCorrect`: `Spec => []TypeOK`.
* `SwitchFindsPayload`: `Spec => []FrontIsThere`.

`TypeOK` is not inductive.  `FinishWait` indexes the event register with `wait_ev_addr`,
which is "none" most of the time, `SwitchWakes` takes the head of a queue nobody has
tested, a handler writes at the destination of a message that could be the memory, and a
unit reads the instruction it is at, which may be past the end.  `TypeInv` adds what the
code relies on: messages other than memory accesses go to cores (`Posted`); a switch that
has left its wait for a payload finds one (`SwitchWaits`); a unit past its program sleeps
for ever, and one in the middle of a send or of a wait has the operands of that
instruction (`UnitWaits`).  The lemmas follow the code: what `Notify` and `Post` do, what
a suspension, a finish, a pop and a delivery preserve, then one step per action.

The same module has the safety of the rendezvous, still from the two assumptions, which
say nothing of whether the sends and recvs of the programs match:

* `NeverThrows`: `Spec => []NoThrow`.
* `NotedOffersAreCurrent`: `Spec => []NotedOfferIsCurrent`.
* `PermitsHaveBothEnds`: `Spec => []PermitHasBothEnds`.
* `DataIsAwaited`: `Spec => []DataFindsReceiver`.

The invariant `RendezvousInv` follows one transfer through its states.  The sender offers
(`Offering`), then is permitted (`Permitted`); the receiver waits (`Receiving`).  An offer
on its way is the only one of its core and is not noted yet (`Offers`); a noted one is of
the send in execution and not being answered (`Notes`); a permission finds both ends
waiting, when the offer and the data of the previous send are gone (`Permits`); a
permitted sender has its receiver waiting (`Permissions`); and so has data, which is ahead
of the next offer to the same core (`Deliveries`: the first-in first-out order of the
switch matters here).  `Receipts` is the subtle part: a receiver that has been told of its
data keeps `recv_sender_core_id` until it runs, and the next offer of the same sender
would be answered at once; it cannot come in between, for the switch that brought the data
is in `wait(delay)`, and no delay ends before the receiver has run.  Messages are numbered
by their place (`Slots`), so that a step either moves them up (`Moved`) or adds one at an
end (`Added`); steps that have no part in a rendezvous are covered by one lemma
(`Bystanders`).

`RendezvousProofs` builds on it:

* `OffersInOnePlace`: `Spec => []OfferInOnePlace`.
* `OnlyPeersStall`: `Spec => []StallsOnlyForPeers`: what has stopped for ever waits for a
  peer that never comes.
* `PairsInOrder`: `Spec => []PairedInOrder`, from `LoopsMatch`: in a looping program a core
  has as many sends to another as that one has recvs from it.  TLC evaluates the same of
  the looping programs of `TransferLiveness` (`EndlessLoopsMatch`).
* `OneSourceWaits`: a unit that has been told that its register has the awaited value
  finds it there when it runs, if the register has one source.
* `SignalsAreConserved`: `Spec => []SignalsConserved`.
* `UnitsRendezvous`: the units implement `Rendezvous` (`ImplementsRendezvous`), looping or
  not, for programs in which every register has at most one source.  The hypothesis is
  needed: with two sources a wait is not atomic, as `TransferWaitAtomic` shows.

`RendezvousInv` says what an offer, a permission or data on its way implies, but not that
there is one: all of it holds of a switch that drops messages.  The first two of these
need the converse.  `StallInv` has a cause on its way for whatever is not a peer's turn: a
switch is asleep only at an empty queue, with nothing in transport (`SwitchPlaces`); a
send that waits is announced, by its offer, its note or its permission (`Announcements`);
a unit that waits for the global memory has its access queued or its response pending
(`Accesses`); a `wait` sleeps only as long as its register has another value (`Awaits`,
for which the handler that increments a register must compare it with the awaited value in
the same step).  Each step is shown to lose no message but the one it delivers
(`PostsKeeps`, `HandlerPlaces`, `LoopPlaces`) and to replace the cause that it removes.

For `PairsInOrder` the invariant counts: what a core has sent to another and what that
core has received from it differ by whole laps and by the transfer whose data is on its
way or has just arrived, and each thread's wait agrees with the instruction it is at
(`Pcs`).  For `OneSourceWaits`, `WaitInv` has that a signal on its way is one of its core's
program, and that a unit that was told runs before the switch of its source goes on with
the next signal.  `SignalsAreConserved` is bookkeeping over finite sets (`Accounts`): the
signals a core has given, those on their way and those that waits have consumed are sets of
places and positions, and for every register with one source the value plus the signals on
their way plus the consumed ones are the given ones.  Each step either leaves all three,
gives a signal that is on its way, brings one to its register, or resets the register by
the value that the wait asked for; the last is where `OneSourceWaits` is needed.  It speaks
of programs that run once, as the property does, for the counts of a lap start again.

For `UnitsRendezvous` the phase of a core is first reduced to what the steps change
(`PhaseAt`): where its thread is suspended, whether its sender is `Permitted`, and whether
data is on its way to it (`DataTo`).  Then there is one lemma per step that `Rendezvous`
sees: an offer or a recv is its `Post`, the arrival of a permission its `Agree`, the
posting of data its `HandOver` (the receiver is there, by `Permissions`), the posting of a
signal its `Signal`, the reset of a register its `Await` (with the register at its value,
by `WaitInv`), the end of an instruction its `Finish` or `Access`.  Everything else
stutters, among it the delivery of a signal, which moves it from the network to its
register (`HandledRegister`), and that of data, whose receiver is `done` already.

`SimulationProofs`, from `SimulationAssumption`:

* `TypeCorrect`: `HistSpec => []TypeOK`.
* `BoundariesCorrect`: `HistSpec => []BoundariesAreRounds`, whatever the tolerance, the
  pieces and the order of the cores.  The invariant adds that `reached` counts the minimum
  of the rounds of the active cores and that the next boundary is the first even round not
  yet recorded.
* `LatencyCorrect`: `HistSpec => []LatencyVerdict`.  The invariant adds that time does not
  pass the end of the current piece nor the deadline, that `stopped` means that all cores
  have finished, and that the last finish then was now.
* `ConvergenceCorrect`: `HistSpec => []ConvergesAtOnce`, and `ReportCorrect`: `HistSpec =>
  []ReportIsMeasured`.  The invariant `ThroughputInv` adds that a run that goes on has
  compared every pair of windows completed so far (`PairsCompared`: the boundaries it
  keeps are those of the latest two rounds of even number, and no even round is complete
  without its boundary), that a piece ends at `level * Chunk`, and that rounds of the chip
  after the first one end at different times (`RoundsTakeTime`), which makes the measured
  time positive.

`PipelineProofs`, from `FrontEndAssumption` (programs of known instructions), and
`CapacityAssumption` (a positive capacity):

* `TypeCorrect`: `Spec => []TypeOK`.
* `NeverThrows`: `Spec => []BufferNeverThrows`, for every program, also one with a `nop`.
* `NoConflictInvariant`: `Spec => []NoConflict`, no two instructions in execution are in
  conflict as `isConflict` has it.
* `DataHazardFree`: `RangesSuffice` implies `Spec => []NoDataHazard`.
* `FinishesLast`: `EndsInBuffer` implies `Spec => []FinishIsLast`.
* `EachInOnePlace`: `NoNop` implies `Spec => []BufferTracksUnits`.
* `RoundsNearlyDone`: `Spec => []RoundsAreNearlyDone`.
* `OperandsOfPrograms`: `AccumulatesFirst` implies `Spec => []OperandsAreSequential`; and
  `OperandsInOrder`: `Spec /\ []NoneStalls => []OperandsAreSequential`, of every program.
* `InProgramOrderOfPrograms`: `RangesSuffice` and `AccumulatesFirst` imply
  `Spec => ImplementsProgramOrder`, the refinement; `InProgramOrder` is the same with
  `[]NoneStalls`.

The invariant `IInv` is type correctness with two parts.  `InOrder`: the ring buffer's
tail is `size` slots after its head, its entries are in program order and older than what
is in the dispatcher register, which is older than what is decoded.  `Tracked`: the valid
entries are the instructions that the units hold, unit by unit - the vector and transfer
units one each, in the unit or at its port (`SingleUnits`); the matrix unit its own in an
array group, in `ag_reg`, in the commit queue or at the port (`MatrixUnit`), in one of
them only (`PlacedOnce`).  `BufferNeverThrows` needs both: that a commit finds its entry
is `Tracked`; that the entries a push or a pop writes are the ones meant is a matter of
the ring, for which `PushValues` and `RetireValues` say what the values, the valid entries
and the order are afterwards, whatever wraps around.  `NeverThrows` also shows that
`rob_ready`, read a cycle after it was computed, is not stale: in between the buffer
can only get emptier.

For `RoundsNearlyDone` the invariant `RoundsInv` is added: the stages before the buffer
hold instructions that follow each other (`Consecutive`), the buffer's entries leave out
none that has an `ExecInfo` (`NoneSkipped`), and a full buffer has stopped the dispatcher
(`FullStalls`).  Neighbours in the buffer are then at most one lap apart, since the same
instruction comes again in every lap, and the bound follows by the least index at which
it would fail (`BufferSpan`).

`OperandsAreSequential` compares the pipeline with the program read in order, a recursive
function of the program (`Executions`): its existence, and that each element follows from
the one before (`StreamIs`), is shown by the least index at which it would fail.  The
invariant `OperandsInv` says where the registers of the sequential execution are: the
decoder reads them as they are before its instruction, through the three copies of a
register, or, while a scalar instruction waits in the decoder behind a stall, as they are
after it.  The second case is where an instruction is executed more than once; that this
changes nothing is true of those that do not read their own result (`ComputedTwice`), and
those that do are kept out of a stalled decoder by `NoneStalls`.  This is a condition on
an execution; `AccumulatesFirst` is one on programs from which it follows.  A scalar
instruction also runs again, or does not, with the change of its payload: that two that
follow each other differ in `ScalarInfo`, because their indices do, is `ScalarIsNew`.

For the refinement of `ProgramOrder` the window is the sequence of the buffer's entries
and `done` those without a valid bit.  An edge appends what is issued (`PushedWindow`),
completes what the three ports committed (`CompletedIs`), and drops a prefix: `Keeps` says
of each of the three retirements that what is left is a suffix, `HeadIsValid` that the
suffix starts with an instruction that has not completed, and so it is what `Retired`
gives (`WindowStep`).  `MovesOn` shows that what lies between two issued instructions was
passed over because it has no unit, and `IssueIsAllowed` that an issued one has no
dependence on one in execution; the ranges compared contain the bytes of the sequential
execution because the operands are sequential.  Steps between two edges stutter.

The four hypotheses are constant, and `MCPipeline` has TLC evaluate that the programs of
the run `Pipeline` meet them (`LatencyAssumption`).  Each leaves out the instructions for
which the code itself departs from the property: a send reads at `$rd` while `$rs1` is
compared and `lmv` is compared as one byte (`RangesSuffice`; of the operations of this
model only, see `Operands` for the others); a scalar instruction at the end reports the
end at once (`EndsInBuffer`, run `PipelineScalarEnd`); a `nop` has an entry and no unit
(`NoNop`); an instruction that accumulates is executed in every cycle of a stall
(`AccumulatesFirst`, run `PipelineStall`).

`UnitsProofs`, from `WorkloadsAssumption` (every instruction has `AccessIsChecked`) and
`UnitsAssumption` (nothing in the configuration is negative; the period of the core and the
widths of memories and vector unit are not zero).  `checkValid` rejects what is negative,
except `input_buffer_latency_cycle`, which it does not look at.  It accepts zeros, which
are outside the theorems: the code divides by these widths (`Memory.cpp:41`,
`VectorUnit.cpp:152`), and with a period of zero the clock does not let time go on
(`ClockDomain.cpp:18`).

* `RangesCoverAccesses`: every request that a unit makes for an instruction lies inside a
  range that `ExecInfo` gives the dispatcher, operation by operation, for all widths,
  lengths, offsets and crossbar sizes.
* `OperandsStable`: `Spec => []OperandsAreStable`.  The invariant `IInv` says that any two
  instructions in execution in a core are free of conflict in the sense of the code
  (`ConflictFree`), which issuing preserves because the comparison is made with all that
  execute; disjoint ranges and covered accesses give the property.
* `TypeCorrect`: `Spec => []TypeOK`.  Its point is that `wait(delay)` is never called with a
  delay that lies in the past: no request, no crossbar and no vector operation takes a
  negative time (`LatencyType`, `XbarCyclesType`), a request ends after those before it
  (`TransportedType`), and time does not pass a unit that is due.  The invariant adds that
  a unit that does not rest is at a stage of its instruction (`AtAStage`).
* `MemoriesServe`: `Spec => ImplementsServer`, the refinement: threads that compute from
  `latest` how long to wait, and never meet, behave as clients of a server with a queue
  that works on one request at a time.

For `MemoriesServe` the invariant `ServerInv` ties each wait to the log.  `AllInService`:
in the log of a memory each request finishes its own time after the one before it, the
first is at most its own time from its end, none is over, and `latest` is the end of the
last, or not in the future when the log is empty.  `RequestsAwaited`: a unit with requests
in a log waits exactly until the end of its last one and the computation after it.  So
nobody leaves `wait` before its memories have served it, and nobody is still waiting for a
memory that has.  A stage with requests maps to `Request` (`BeginMaps`, `ProceedMaps`), a
unit that goes on without any to `Resume`, the issue of an instruction to a stutter
(`IssueStutters`), and a unit of time to `Tick` (`TickMaps`): no more than the first
request of a memory can end in it, since the second takes time as well (`OneIsServed`).
`Transported` and `Logged` are recursive functions of the requests of a stage; no stage
makes more than two, so that they unfold (`TransportedUnfolds`, `LoggedUnfolds`).

`ClockedProofs`, from no assumption on payloads, for each of the three kinds of register:

* `StartsAreHeard`: `Spec => []StartIsHeard`, and `PulsesAreKept`: `Spec =>
  []PulseIsKept`. The invariant says that a unit in state `finishing` has asked for
  `finish_exec` and nobody else has, that a pulse that is up has asked for its reset, and
  that a register or queue that has not asked for an edge already shows what the edge
  would give it.
* `ImplementsUnitCycle`: `Spec => Promise!Spec`, the refinement: each step between two
  edges is a `Settle`, `Complete` or `Commit` of `UnitCycle` and each `ClockEdge` its
  `Edge`.  This is the step of the argument by which `FrontEnd` and `BackEnd` leave out
  events.

`KernelProofs`, from `KernelAssumption` (finite sets of processes and events, every thread
with a timeout event of its own, budgets and delays that are naturals) and
`DeltaAssumption` (the token for a delta notification is not a time):

* `TypeCorrect`: `Spec => []TypeOK`.
* `EveryoneInOnePlace`: `Spec => []OnePlace`.
* `NotificationsInPlace`: `Spec => []NotificationInPlace`.
* `KernelIsScheduler`: `Spec => ImplementsScheduler`, the refinement.

The invariant `IInv` has four parts.  `Clocks`: types, and time inside the slice.
`Placed`: no queue and no list of an event has a process twice, no process is in two of
them, a thread that is in none is the one that runs.  `InPlace`, an operator of a record
of events and a time, since one step goes through several such records: the delta events
are pairwise different and exactly those that say so, each at its index; the timed entries
with an event are exactly those of the events that say so, and still to come.  `Owned`: a
timeout event is notified only while its thread waits for it, so that the next
`wait(time)` finds it free and no earlier notification can stand in its way.  `OnePlace`
counts positions by `Cardinality`; that a sequence without repetition has one position per
element is a lemma (`Elements` and the lemmas after it).  `Woken`, which collects the
threads of a sequence of events, is a recursive function on that sequence: that it has
exactly the threads of all of them, each once, is shown by the least index at which it
would go wrong (`LeastElement`), because the induction theorems of the library cannot be
used.

For the refinement, `Calm` adds what the phases of `crunch` promise: nobody is runnable
when signals are updated, and no delta notification is pending when time goes on.  Each
action of the kernel then has a lemma that names its counterpart (`...Maps`): what a
process does is the same action of the scheduler, `UpdateAndNotify` and `TimeStep` are a
delta cycle and a step of time, and the toggles between the queues and the start of a
slice change nothing the scheduler has.

`RecordProofs`, about the operators of `InstructionFormat`:

* `RecordIsLossless`: an instruction that the record can hold comes back byte by byte.
* `ScalarLosesRs2`: a scalar instruction comes back with its second source cleared.
* `SecondConversionIsLossless`: what has been read can be written and read again
  unchanged.

and about `PerformanceCounter`:

* `WeightedTimeIsShared`: `Spec => []TimeIsShared`, for any set of recorded instructions.
  The invariant says that the heaps hold exactly the instructions that have not started
  and those in execution, so that the top of a heap is never overdue and no instruction is
  stuck below another.

## What is only model-checked

Every invariant and every action property of the passing runs is stated by a theorem, and
so is every refinement without fairness.  What TLC alone checks is liveness, since the
prover has neither `ENABLED` nor fairness: `AllFinish`, `NeverStops` and
`ImplementsProgress` (the refinement of `Rendezvous` with its fairness) of the transfer
units, `ProgramFinishes`, `ProgramsEnd`, `EveryoneRuns` and `EndsWithoutRest`.

Theorems with a hypothesis on programs say nothing of the others; which these are, and
that the code departs from the property there, is said with each theorem above.

## What is not modelled

* The energy counter: floating point sums without influence on control.  (Its time stamp
  is not moved after its first use, so that a method evaluated again later counts again.)
* Configuration, command line, JSON reading and the text of the reports; the header of a
  binary file, and the omission of `vsoftmax` from it.
* Of SystemC: event lists, dynamic sensitivity of methods, resets, process control,
  `sc_pause`, and its data types, none of which the simulator uses.
* Distances in the network: any delay.  Truncation of registers to 32 bits.
* Streams of one instruction in throughput mode, where the same payload is issued again
  without a change of signals.
* `Controller`, `FIFOBuffer`: never instantiated.
* Values of local memory: the properties speak of the addresses touched.

Nearly all of the repository's lines are the vendored packages (SystemC, JSON, zlib, fmt,
filesystem and others); the simulator itself has about 7500, to which nearly all of the
models refer, besides those of the SystemC kernel that it runs on.

## Plan

1. (done) Transfer units and switches with their abstract rendezvous; pipeline of a core
   with its abstract issue window; run loop of the simulator; type correctness, window
   boundaries, latency verdict, wake-up discipline and the safety of the rendezvous
   proved.
2. (done) Throughput mode of pipeline and transfer units; memories with their abstract
   server, operand ranges and execution units in time; the kernel with its abstract
   scheduler; clocked primitives and their refinement; binary records; performance
   counter.
3. (done) `RingBuffer` lemmas for every capacity and with them `BufferNeverThrows`,
   `BufferTracksUnits`, `NoDataHazard`, `FinishIsLast`, `RoundsAreNearlyDone` and type
   correctness of the pipeline;
   `ConvergesAtOnce` and `ReportIsMeasured`.
4. (done) `OfferInOnePlace`, `StallsOnlyForPeers`, `PairedInOrder` and `SignalsConserved`
   of the transfer units and their refinement of `Rendezvous`; the kernel with its
   refinement of `Scheduler`.
5. (done) `OperandsAreSequential` and the refinements of `FifoServer` and `ProgramOrder`,
   one lemma per action.
