--------------------------- MODULE SimulationProps --------------------------
(***************************************************************************)
(* What the end of a simulation means.  A history variable records when    *)
(* each round of the whole chip was completed.                             *)
(***************************************************************************)
EXTENDS Simulation

\* reached[r + 1]: the time at which every active core had done r rounds.
VARIABLE reached

histVars == <<vars, reached>>

Record ==
  reached' = IF active # {} /\ \A c \in active : run_rounds'[c] >= Len(reached)
             THEN Append(reached, now) ELSE reached

HistInit == Init /\ reached = <<0>>
HistNext == Next /\ Record
HistSpec == HistInit /\ [][HistNext]_histVars
HistFairSpec == HistSpec /\ WF_histVars(HistNext)

\* Rounds that every active core has completed.
Completed == Len(reached) - 1

-----------------------------------------------------------------------------
\* Every variable has its type; there are never more than three boundaries.
TypeOK ==
  /\ sim_mode \in {0, 1} /\ fast \in BOOLEAN /\ active \in SUBSET Core
  /\ rest_left \in BOOLEAN
  /\ phase \in {"loop", "start", "zero", "done", "thrown"}
  /\ now \in Nat /\ until \in Nat /\ level \in 0..Levels
  /\ stopped \in BOOLEAN /\ converged \in BOOLEAN
  /\ run_rounds \in [Core -> Nat]
  /\ finish_running \in [Core -> BOOLEAN]
  /\ finish_time_stamp \in [Core -> Nat]
  /\ boundaries \in Seq(Nat) /\ Len(boundaries) \in 0..3
  /\ next_round \in Nat
  /\ reached \in Seq(Nat)

\* The boundaries of the fast mode are the completion times of the rounds
\* next_round - 2, next_round - 4, ... of the whole chip, the start being round
\* 0: no round is skipped, counted twice or taken from one core alone.
FirstWindowRound == next_round - FAST_WINDOW_ROUNDS * Len(boundaries)
BoundariesAreRounds ==
  \A i \in 1..Len(boundaries) :
    LET round == FirstWindowRound + FAST_WINDOW_ROUNDS * (i - 1) IN
    round \in 0..Completed /\ boundaries[i] = reached[round + 1]

\* The two windows that begin with round r.
WindowsAgree(r) == Agree(reached[r + 3] - reached[r + 1], reached[r + 5] - reached[r + 3])

\* The run stops early at the first two consecutive windows that agree, and at
\* once: no such pair has been missed (README: "A failed comparison discards
\* the older window and tests the next one").
ConvergesAtOnce ==
  fast /\ sim_mode = 0 /\ active # {} =>
    /\ stopped = converged
    /\ \A k \in 0..(Completed \div 2) :
         2 * k + 4 <= Completed =>
           (WindowsAgree(2 * k) <=> converged /\ Completed = 2 * k + 4)

\* What a throughput run reports: the time of two windows if it has converged,
\* and otherwise the rounds of the full simulation time, which has then passed.
ReportIsMeasured ==
  phase = "done" /\ sim_mode = 0 =>
    \/ /\ use_fast_result /\ converged
       /\ measurement_rounds(Completed) = 4
       /\ measurement_time = reached[Completed + 1] - reached[Completed - 3]
       /\ measurement_time > 0
    \/ /\ ~use_fast_result
       /\ measurement_rounds(Completed) = Completed
       /\ now = SimTime \/ (active = {} /\ Completed = 0)

\* A latency run ends regularly if and only if all cores have finished before
\* the deadline; it then stops with the last of them and reports its time.
\* Otherwise it throws, exactly at the deadline.
LatencyVerdict ==
  sim_mode = 1 =>
    /\ phase = "done" => isFinish /\ now <= Timeout /\ IsRunningTime(now)
    /\ phase = "thrown" => ~isFinish /\ now = Timeout

Ended == phase \in {"done", "thrown"}

\* A simulation comes to an end, whether its cores do or not, if the doubles leave
\* no rest at the deadline.
EndsWithoutRest == ~rest_left => <>Ended

\* Every simulation comes to an end (README: latency_timeout_ms is the "Maximum
\* simulated latency-mode wait before reporting unfinished core state").
Terminates == <>Ended
=============================================================================
