----------------------------- MODULE Simulation -----------------------------
(***************************************************************************)
(* How a simulation is run and when it ends (Simulator::runSimulation,     *)
(* the rounds and windows of Chip, setFinish and addRunRounds of Core).    *)
(*                                                                         *)
(* The simulator advances SystemC in pieces with sc_start(duration).  What *)
(* the cores do in between is seen here through two calls only:            *)
(* addRunRounds in throughput mode (sim_mode 0) and setFinish in latency   *)
(* mode (sim_mode 1).  Time is counted in ticks.  Cores share one clock,   *)
(* so that all calls of one tick are made in one delta cycle, which        *)
(* sc_stop lets come to its end; a core makes at most one per tick.        *)
(***************************************************************************)
EXTENDS Integers, Sequences

CONSTANTS
  Core,       \* the loaded cores (core_array)
  Levels,     \* pieces of a throughput run: 10, or 100 in the GUI
  Chunk,      \* ticks of one such piece; sim_time is Levels * Chunk
  Poll,       \* ticks between two looks at the cores of a latency run
  Timeout,    \* latency_timeout_ms
  Tolerance   \* FAST_RELATIVE_TOLERANCE in percent: 1

ASSUME SimulationAssumption ==
  /\ Core # {}             \* checked when the programs are read
  /\ Levels \in Nat /\ Chunk \in Nat \ {0}
  /\ Poll \in Nat \ {0} /\ Timeout \in Nat
  /\ Tolerance \in 0..99

FAST_WINDOW_ROUNDS == 2

VARIABLES
  sim_mode, fast,   \* configuration and --fast; never change
  active,           \* cores with a program (max_pc >= 0); never changes
  rest_left,        \* at the deadline remaining_ns is not 0 but less than a tick, as
                    \* the doubles of the timeout have it (7.45e-9 for 64.4 ms, 0 for
                    \* 100 ms); never changes
  phase,            \* runSimulation: "loop", in sc_start ("start", or "zero" when
                    \* called with no time), "done", "thrown"
  now,              \* sc_time_stamp()
  until,            \* end of the current sc_start
  level,
  stopped,          \* sc_stop has been called
  run_rounds, finish_running, finish_time_stamp,        \* of each core
  boundaries,       \* fast_window_boundaries
  next_round,       \* fast_next_boundary_round
  converged         \* fast_throughput_converged

config     == <<sim_mode, fast, active, rest_left>>
loopVars   == <<phase, until, level>>
coreVars   == <<run_rounds, finish_running, finish_time_stamp>>
windowVars == <<boundaries, next_round, converged>>
vars       == <<config, loopVars, now, stopped, coreVars, windowVars>>

SimTime == Levels * Chunk

-----------------------------------------------------------------------------
(* Chip *)

isFinish == \A c \in Core : finish_running[c]

\* getRunRounds() >= n for n > 0, when the cores have done rounds[c] rounds.
RoundsReach(rounds, n) == active # {} /\ \A c \in active : rounds[c] >= n

\* The throughputs of two windows of d1 and d2 ticks differ by at most
\* Tolerance percent of the higher one.
Agree(d1, d2) ==
  LET longer == IF d1 > d2 THEN d1 ELSE d2
      shorter == IF d1 > d2 THEN d2 ELSE d1
  IN 100 * (longer - shorter) <= Tolerance * longer

\* Mutant: the window between the two is not part of the next comparison.
NewBoundaryForgets ==
  LET b == Append(boundaries, now)
      agree == Agree(b[2] - b[1], b[3] - b[2])
  IN
  /\ next_round' = next_round + FAST_WINDOW_ROUNDS
  /\ converged' = (Len(b) = 3 /\ agree)
  /\ boundaries' = IF Len(b) = 3 /\ ~agree THEN <<b[3]>> ELSE b

\* Mutant: the older window is not dropped.
NewBoundaryKeeps ==
  LET b == Append(boundaries, now)
      agree == Agree(b[2] - b[1], b[3] - b[2])
  IN
  /\ next_round' = next_round + FAST_WINDOW_ROUNDS
  /\ converged' = (Len(b) >= 3 /\ agree)
  /\ boundaries' = b

\* The new boundary, at time now.  When the last two windows do not agree the
\* older one is dropped.
NewBoundary ==
  LET b == Append(boundaries, now)
      agree == Agree(b[2] - b[1], b[3] - b[2])
  IN
  /\ next_round' = next_round + FAST_WINDOW_ROUNDS
  /\ converged' = (Len(b) = 3 /\ agree)
  /\ boundaries' = IF Len(b) = 3 /\ ~agree THEN Tail(b) ELSE b

\* Mutant: the boundary is taken one round late.
UpdateFastThroughputLate(rounds) ==
  \/ /\ fast /\ sim_mode = 0 /\ ~converged
     /\ RoundsReach(rounds, next_round + 1)
     /\ NewBoundary
  \/ /\ ~(fast /\ sim_mode = 0 /\ ~converged /\ RoundsReach(rounds, next_round + 1))
     /\ UNCHANGED windowVars

UpdateFastThroughput(rounds) ==
  \/ /\ fast /\ sim_mode = 0 /\ ~converged
     /\ RoundsReach(rounds, next_round)
     /\ NewBoundary
  \/ /\ ~(fast /\ sim_mode = 0 /\ ~converged /\ RoundsReach(rounds, next_round))
     /\ UNCHANGED windowVars

-----------------------------------------------------------------------------
(* What happens at tick now, while sc_start has not reached its end.  Events *)
(* due at exactly its end are left to the next sc_start.                     *)

Runs == phase = "start" /\ now < until /\ ~stopped
Stop(halt) == stopped' = halt /\ now' = IF halt THEN now ELSE now + 1

\* The cores in C fetch the last instruction of their programs.
AddRunRounds(C) ==
  LET rounds == [c \in Core |-> IF c \in C THEN run_rounds[c] + 1 ELSE run_rounds[c]] IN
  /\ Runs /\ sim_mode = 0
  /\ C \subseteq active
  /\ run_rounds' = rounds
  /\ UpdateFastThroughput(rounds)
  /\ Stop(converged' /\ ~converged)
  /\ UNCHANGED <<config, loopVars, finish_running, finish_time_stamp>>

\* Core::setFinish, by the cores in C, some of them not for the first time.
Finishing(C) ==
  /\ finish_running' = [c \in Core |-> finish_running[c] \/ c \in C]
  /\ finish_time_stamp' = [c \in Core |-> IF c \in C THEN now ELSE finish_time_stamp[c]]

\* Mutant: sc_stop is called when any core has finished.
LastFinishAny(C) == C # {}

LastFinish(C) == C # {} /\ \A c \in Core : finish_running[c] \/ c \in C

SetFinish(C) ==
  /\ Runs /\ sim_mode = 1
  /\ Finishing(C)
  /\ Stop(LastFinish(C))
  /\ UNCHANGED <<config, loopVars, run_rounds, windowVars>>

\* sc_start with zero ticks runs one delta cycle of the current tick, if the
\* piece before has left any.
ZeroStart(C) ==
  /\ phase = "zero"
  /\ Finishing(C)
  /\ stopped' = LastFinish(C)
  /\ phase' = "loop"
  /\ UNCHANGED <<config, until, level, now, run_rounds, windowVars>>

\* sc_start returns.
Return ==
  /\ phase = "start"
  /\ now = until \/ stopped
  /\ phase' = "loop"
  /\ UNCHANGED <<config, until, level, now, stopped, coreVars, windowVars>>

-----------------------------------------------------------------------------
(* Simulator::runSimulation *)

Start(ticks) ==
  /\ until' = now + ticks
  /\ phase' = IF ticks = 0 THEN "zero" ELSE "start"

End(how) == phase' = how /\ UNCHANGED <<until, level>>

ThroughputLoop ==
  /\ phase = "loop" /\ sim_mode = 0
  /\ \/ /\ level < Levels /\ ~stopped /\ ~converged
        /\ level' = level + 1
        /\ Start(Chunk)
     \/ /\ ~(level < Levels /\ ~stopped /\ ~converged)
        /\ End("done")
  /\ UNCHANGED <<config, now, stopped, coreVars, windowVars>>

\* Ticks to the next look at the cores.
Piece == IF Poll < Timeout - now THEN Poll ELSE Timeout - now

\* Mutant: the deadline is not looked at.
RemainsAlways == TRUE

\* remaining_ns > 0
Remains == now < Timeout \/ (now = Timeout /\ rest_left)

LatencyLoop ==
  /\ phase = "loop" /\ sim_mode = 1
  /\ \/ /\ ~isFinish /\ ~stopped /\ Remains
        /\ Start(Piece)
        /\ UNCHANGED level
     \/ /\ isFinish
        /\ End("done")
     \/ /\ ~isFinish /\ (stopped \/ ~Remains)
        /\ End("thrown")
  /\ UNCHANGED <<config, now, stopped, coreVars, windowVars>>

\* enableFastThroughput has been called when the loop begins.
Init ==
  /\ sim_mode \in {0, 1} /\ fast \in BOOLEAN /\ active \in SUBSET Core
  /\ rest_left \in BOOLEAN
  /\ phase = "loop" /\ now = 0 /\ until = 0 /\ level = 0 /\ stopped = FALSE
  /\ run_rounds = [c \in Core |-> 0]
  /\ finish_running = [c \in Core |-> FALSE]
  /\ finish_time_stamp = [c \in Core |-> 0]
  /\ boundaries = IF sim_mode = 0 /\ fast THEN <<0>> ELSE <<>>
  /\ next_round = FAST_WINDOW_ROUNDS
  /\ converged = (sim_mode = 0 /\ fast /\ active = {})

Tick == \E C \in SUBSET Core : AddRunRounds(C) \/ SetFinish(C) \/ ZeroStart(C)

Next == Tick \/ Return \/ ThroughputLoop \/ LatencyLoop

Spec == Init /\ [][Next]_vars

\* The simulator is a single thread that never waits for anybody.
FairSpec == Spec /\ WF_vars(Next)

-----------------------------------------------------------------------------
(* Chip::getSimulationReport *)

use_fast_result == Len(boundaries) = 3
measurement_rounds(completed) == IF use_fast_result THEN 2 * FAST_WINDOW_ROUNDS ELSE completed
measurement_time == IF use_fast_result THEN boundaries[3] - boundaries[1] ELSE SimTime

\* setRunningTime: the last finish of a latency run.
IsRunningTime(t) ==
  /\ \A c \in Core : finish_running[c] => finish_time_stamp[c] <= t
  /\ t = 0 \/ \E c \in Core : finish_running[c] /\ finish_time_stamp[c] = t
=============================================================================
