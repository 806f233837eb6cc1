-------------------------- MODULE PerformanceCounter ------------------------
(***************************************************************************)
(* How the report of a core distributes time over its instructions         *)
(* (PerformanceCounter::getWeightedStatistics).  A loop over the           *)
(* nanoseconds of the run keeps two heaps, of the instructions that have   *)
(* not started, the earliest on top, and of those that run, the first one  *)
(* to end on top; every instruction that runs gets an equal share of the   *)
(* nanosecond.  The recording of the instructions is part of BackEnd.      *)
(***************************************************************************)
EXTENDS Integers, FiniteSets

CONSTANT Id   \* the instructions that have been executed

VARIABLES
  inst_traces,             \* start and end of each, in ns; never changes
  start_queue, end_queue,  \* the heaps, as sets
  cur_time,
  weighted_time            \* per instruction: its shares, as <<ns, counts>>

vars == <<inst_traces, start_queue, end_queue, cur_time, weighted_time>>

Trace == {t \in [start: Nat, end: Nat] : t.start <= t.end}

\* What the inner loops take from a heap: while the top is due now.
Taken(heap, key) ==
  IF \E i \in heap : key[i] < cur_time THEN {} ELSE {i \in heap : key[i] = cur_time}

Start == [i \in Id |-> inst_traces[i].start]
End == [i \in Id |-> inst_traces[i].end]

Loop ==
  /\ start_queue # {} \/ end_queue # {}
  /\ LET started == Taken(start_queue, Start)
         running == end_queue \cup started
         counts == Cardinality(running)
     IN /\ start_queue' = start_queue \ started
        /\ weighted_time' = [i \in Id |-> IF i \in running
                                          THEN weighted_time[i] \cup {<<cur_time, counts>>}
                                          ELSE weighted_time[i]]
        /\ end_queue' = running \ Taken(running, End)
  /\ cur_time' = cur_time + 1
  /\ UNCHANGED inst_traces

Init ==
  /\ inst_traces \in [Id -> Trace]
  /\ start_queue = Id
  /\ end_queue = {}
  /\ cur_time = 0
  /\ weighted_time = [i \in Id |-> {}]

Spec == Init /\ [][Loop]_vars

-----------------------------------------------------------------------------
\* The instructions that run in nanosecond t, the last one of each included.
Running(t) == {i \in Id : Start[i] <= t /\ t <= End[i]}
Share(i, T) == {<<t, Cardinality(Running(t))>> : t \in {u \in T : i \in Running(u)}}

\* When the loop ends, every instruction has had its share of every nanosecond it ran,
\* whatever the order of starts and ends: no time is lost or given twice.
TimeIsShared ==
  start_queue = {} /\ end_queue = {} => \A i \in Id : weighted_time[i] = Share(i, Nat)
=============================================================================
