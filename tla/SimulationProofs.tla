-------------------------- MODULE SimulationProofs --------------------------
(***************************************************************************)
(* What SimulationProps states of a simulation, for any cores, durations   *)
(* and tolerance.                                                          *)
(***************************************************************************)
EXTENDS SimulationProps, SequenceTheorems, TLAPS

-----------------------------------------------------------------------------
(* Types.  Only the fast mode has boundaries, and before it converges two    *)
(* at most: that is why a third one always completes a comparison.           *)

TypeInv ==
  /\ TypeOK
  /\ ~(fast /\ sim_mode = 0) => boundaries = <<>>
  /\ ~converged => Len(boundaries) <= 2

\* A new boundary keeps the list typed, and short unless the run converges.
LEMMA NewBoundaryType ==
  ASSUME TypeOK, Len(boundaries) <= 2, NewBoundary
  PROVE  /\ boundaries' \in Seq(Nat) /\ Len(boundaries') \in 0..3
         /\ next_round' \in Nat /\ converged' \in BOOLEAN
         /\ ~converged' => Len(boundaries') <= 2
<1> DEFINE b == Append(boundaries, now)
           agree == Agree(b[2] - b[1], b[3] - b[2])
<1>1. /\ b \in Seq(Nat) /\ Len(b) \in 0..3
      /\ Len(b) = 3 \/ Len(b) <= 2
      /\ Len(b) = 3 => Tail(b) \in Seq(Nat) /\ Len(Tail(b)) \in 0..3 /\ Len(Tail(b)) <= 2
  <2>1. boundaries \in Seq(Nat) /\ now \in Nat
    BY DEF TypeOK
  <2>2. b \in Seq(Nat) /\ Len(b) = Len(boundaries) + 1
    BY <2>1
  <2>3. Len(b) \in 0..3 /\ (Len(b) = 3 \/ Len(b) <= 2)
    BY <2>1, <2>2
  <2> HIDE DEF b
  <2>4. ASSUME Len(b) = 3 PROVE Tail(b) \in Seq(Nat) /\ Len(Tail(b)) = 2
    <3>1. b # <<>>
      BY <2>4
    <3>2. Tail(b) \in Seq(Nat) /\ Len(Tail(b)) = Len(b) - 1
      BY <2>2, <3>1, HeadTailProperties
    <3> QED BY <2>4, <3>2
  <2> QED BY <2>2, <2>3, <2>4
<1>2. next_round' \in Nat
  BY DEF TypeOK, NewBoundary, FAST_WINDOW_ROUNDS
<1>3. converged' = (Len(b) = 3 /\ agree)
  BY DEF NewBoundary
<1>4. boundaries' = IF Len(b) = 3 /\ ~agree THEN Tail(b) ELSE b
  BY DEF NewBoundary
<1> HIDE DEF b, agree
<1> QED BY <1>1, <1>2, <1>3, <1>4, Zenon

LEMMA TypeInit == HistInit => TypeInv
<1> SUFFICES ASSUME HistInit PROVE TypeInv
  OBVIOUS
<1> USE SimulationAssumption DEF HistInit, Init
<1>1. boundaries \in Seq(Nat) /\ Len(boundaries) \in 0..1 /\ Len(boundaries) \in 0..3
  OBVIOUS
<1>2. reached \in Seq(Nat)
  OBVIOUS
<1>3. next_round \in Nat /\ level \in 0..Levels /\ now \in Nat /\ until \in Nat
  BY DEF FAST_WINDOW_ROUNDS
<1>4. ~(fast /\ sim_mode = 0) => boundaries = <<>>
  BY Zenon
<1>5. converged \in BOOLEAN /\ stopped \in BOOLEAN
  BY Zenon
<1>6. /\ run_rounds \in [Core -> Nat] /\ finish_running \in [Core -> BOOLEAN]
      /\ finish_time_stamp \in [Core -> Nat]
  OBVIOUS
<1>7. /\ sim_mode \in {0, 1} /\ fast \in BOOLEAN /\ active \in SUBSET Core
      /\ rest_left \in BOOLEAN
      /\ phase \in {"loop", "start", "zero", "done", "thrown"}
  BY Zenon
<1>8. Len(boundaries) <= 2
  BY <1>1
<1> QED BY <1>1, <1>2, <1>3, <1>4, <1>5, <1>6, <1>7, <1>8, Zenon DEF TypeInv, TypeOK

LEMMA RecordType == ASSUME TypeOK, Record PROVE reached' \in Seq(Nat)
BY DEF TypeOK, Record

LEMMA TypeStep == TypeInv /\ [HistNext]_histVars => TypeInv'
<1> SUFFICES ASSUME TypeInv, [HistNext]_histVars PROVE TypeInv'
  OBVIOUS
<1> USE SimulationAssumption
<1>1. CASE UNCHANGED histVars
  BY <1>1 DEF TypeInv, TypeOK, histVars, vars, config, loopVars, coreVars, windowVars
<1>2. CASE HistNext
  <2>1. reached' \in Seq(Nat)
    BY <1>2, RecordType DEF HistNext, TypeInv
  <2>2. ASSUME NEW C \in SUBSET Core, AddRunRounds(C) PROVE TypeInv'
    <3>1. now' \in Nat /\ stopped' \in BOOLEAN
      BY <2>2 DEF AddRunRounds, Stop, TypeInv, TypeOK
    <3>2. run_rounds' \in [Core -> Nat]
      BY <2>2 DEF AddRunRounds, TypeInv, TypeOK
    <3>3. /\ boundaries' \in Seq(Nat) /\ Len(boundaries') \in 0..3
          /\ next_round' \in Nat /\ converged' \in BOOLEAN
          /\ ~converged' => Len(boundaries') <= 2
          /\ ~(fast /\ sim_mode = 0) => boundaries' = <<>>
      <4> DEFINE rounds == [c \in Core |-> IF c \in C THEN run_rounds[c] + 1 ELSE run_rounds[c]]
      <4>1. CASE fast /\ sim_mode = 0 /\ ~converged /\ NewBoundary
        BY <4>1, NewBoundaryType DEF TypeInv
      <4>2. CASE UNCHANGED windowVars
        BY <4>2 DEF windowVars, TypeInv, TypeOK
      <4> QED BY <2>2, <4>1, <4>2 DEF AddRunRounds, UpdateFastThroughput
    <3> QED BY <2>1, <2>2, <3>1, <3>2, <3>3 DEF AddRunRounds, TypeInv, TypeOK, config, loopVars
  <2>3. ASSUME NEW C \in SUBSET Core, SetFinish(C) PROVE TypeInv'
    BY <2>1, <2>3 DEF SetFinish, Finishing, Stop, LastFinish, TypeInv, TypeOK, config,
                      loopVars, windowVars
  <2>4. ASSUME NEW C \in SUBSET Core, ZeroStart(C) PROVE TypeInv'
    BY <2>1, <2>4 DEF ZeroStart, Finishing, LastFinish, TypeInv, TypeOK, config, windowVars
  <2>5. CASE Return
    BY <2>1, <2>5 DEF Return, TypeInv, TypeOK, config, coreVars, windowVars
  <2>6. CASE ThroughputLoop
    <3>1. /\ until' \in Nat /\ level' \in 0..Levels
          /\ phase' \in {"loop", "start", "zero", "done", "thrown"}
      BY <2>6 DEF ThroughputLoop, Start, End, TypeInv, TypeOK
    <3> QED BY <2>1, <2>6, <3>1 DEF ThroughputLoop, TypeInv, TypeOK, config, coreVars, windowVars
  <2>7. CASE LatencyLoop
    <3>1. CASE Remains
      BY <2>1, <2>7, <3>1 DEF LatencyLoop, Start, Piece, Remains, End, TypeInv, TypeOK, config,
                              coreVars, windowVars
    <3>2. CASE ~Remains
      BY <2>1, <2>7, <3>2 DEF LatencyLoop, End, TypeInv, TypeOK, config, coreVars, windowVars
    <3> QED BY <3>1, <3>2
  <2> QED BY <1>2, <2>2, <2>3, <2>4, <2>5, <2>6, <2>7 DEF HistNext, Next, Tick
<1> QED BY <1>1, <1>2

\* Every variable of the simulation control has its type in every behaviour: the
\* list of boundaries never grows beyond the three the report knows.
THEOREM TypeCorrect == HistSpec => []TypeOK
<1>1. HistInit => TypeInv
  BY TypeInit
<1>2. TypeInv /\ [HistNext]_histVars => TypeInv'
  BY TypeStep
<1>3. TypeInv => TypeOK
  BY DEF TypeInv
<1> QED BY <1>1, <1>2, <1>3, PTL DEF HistSpec

-----------------------------------------------------------------------------
(* Rounds.  The slowest active core has done Completed rounds, and a fast run  *)
(* that has not converged waits for a round that is still to come.             *)

RoundInv ==
  /\ TypeInv
  /\ Completed \in Nat
  /\ active # {} => /\ \A c \in active : run_rounds[c] >= Completed
                    /\ \E c \in active : run_rounds[c] <= Completed
  /\ fast /\ sim_mode = 0 /\ ~converged => next_round > Completed
  /\ BoundariesAreRounds

LEMMA AppendTime ==
  ASSUME NEW s \in Seq(Nat), NEW t \in Nat
  PROVE  /\ Append(s, t) \in Seq(Nat) /\ Append(s, t) # <<>>
         /\ Len(s) \in Nat /\ Len(Append(s, t)) = Len(s) + 1
         /\ Append(s, t)[Len(s) + 1] = t
         /\ \A i \in 1..Len(s) : Append(s, t)[i] = s[i]
BY AppendProperties, LenProperties

\* A recorded round stays recorded.
Extends ==
  /\ Completed' \in Nat /\ Completed' >= Completed
  /\ \A i \in 1..(Completed + 1) : reached'[i] = reached[i]

LEMMA AppendRound ==
  ASSUME TypeOK, reached' = Append(reached, now)
  PROVE  /\ Completed' = Completed + 1
         /\ reached'[Completed + 2] = now
         /\ \A i \in 1..(Completed + 1) : reached'[i] = reached[i]
<1>1. reached \in Seq(Nat) /\ now \in Nat
  BY DEF TypeOK
<1>2. /\ Len(reached) \in Nat
      /\ Len(reached') = Len(reached) + 1
      /\ reached'[Len(reached) + 1] = now
      /\ \A i \in 1..Len(reached) : reached'[i] = reached[i]
  BY <1>1, AppendTime, Zenon
<1> QED BY <1>2 DEF Completed

\* As long as the slowest core has not moved on, no round is recorded.
LEMMA RecordNothing ==
  ASSUME RoundInv, Record, UNCHANGED <<active, run_rounds>>
  PROVE  reached' = reached
<1>1. CASE active = {}
  BY <1>1 DEF Record
<1>2. CASE active # {}
  <2>1. PICK c \in active : run_rounds[c] <= Completed
    BY <1>2 DEF RoundInv
  <2>2. ~(run_rounds'[c] >= Len(reached))
    BY <2>1 DEF RoundInv, TypeInv, TypeOK, Completed
  <2> QED BY <2>1, <2>2 DEF Record
<1> QED BY <1>1, <1>2

LEMMA KeepBoundaries ==
  ASSUME RoundInv, Extends, UNCHANGED <<boundaries, next_round>>
  PROVE  BoundariesAreRounds'
<1> SUFFICES ASSUME NEW i \in 1..Len(boundaries)
             PROVE  LET round == FirstWindowRound + FAST_WINDOW_ROUNDS * (i - 1) IN
                    round \in 0..Completed' /\ boundaries[i] = reached'[round + 1]
  BY DEF BoundariesAreRounds, FirstWindowRound
<1> DEFINE round == FirstWindowRound + FAST_WINDOW_ROUNDS * (i - 1)
<1>1. round \in 0..Completed /\ boundaries[i] = reached[round + 1]
  BY DEF RoundInv, BoundariesAreRounds
<1> HIDE DEF round
<1>2. Completed \in Nat
  BY DEF RoundInv
<1>3. round \in 0..Completed' /\ reached'[round + 1] = reached[round + 1]
  BY <1>1, <1>2 DEF Extends
<1> QED BY <1>1, <1>3 DEF round

\* In a step of AddRunRounds the slowest core does at most one round.
LEMMA RoundsAdvance ==
  ASSUME RoundInv, NEW C \in SUBSET Core, AddRunRounds(C), Record
  PROVE  /\ Extends
         /\ active # {} => /\ \A c \in active : run_rounds'[c] >= Completed'
                           /\ \E c \in active : run_rounds'[c] <= Completed'
         /\ \A n \in Nat : n > Completed /\ RoundsReach(run_rounds', n)
               => /\ n = Completed + 1
                  /\ Completed' = n
                  /\ reached'[n + 1] = now
         /\ \A n \in Nat : n > Completed /\ ~RoundsReach(run_rounds', n) => n > Completed'
<1>1. \A c \in Core : /\ run_rounds[c] \in Nat
                      /\ run_rounds'[c] \in {run_rounds[c], run_rounds[c] + 1}
  BY DEF AddRunRounds, RoundInv, TypeInv, TypeOK
<1>2. active \subseteq Core /\ Completed \in Nat /\ Len(reached) = Completed + 1
  BY DEF RoundInv, TypeInv, TypeOK, Completed
<1>3. CASE active = {}
  <2>1. reached' = reached
    BY <1>3 DEF Record
  <2>2. Extends
    BY <1>2, <2>1 DEF Extends, Completed
  <2>3. Completed' = Completed
    BY <2>1 DEF Completed
  <2> QED BY <1>3, <2>2, <2>3 DEF RoundsReach
<1>4. CASE active # {} /\ \A c \in active : run_rounds'[c] >= Len(reached)
  <2>1. reached' = Append(reached, now)
    BY <1>4 DEF Record
  <2>2. /\ Completed' = Completed + 1
        /\ reached'[Completed + 2] = now
        /\ \A i \in 1..(Completed + 1) : reached'[i] = reached[i]
    BY <2>1, AppendRound DEF RoundInv, TypeInv
  <2>3. Extends
    BY <1>2, <2>2 DEF Extends
  <2>4. PICK c \in active : run_rounds[c] <= Completed
    BY <1>4 DEF RoundInv
  <2>5. run_rounds'[c] <= Completed + 1
    BY <1>1, <1>2, <2>4
  <2>6. \A n \in Nat : n > Completed /\ RoundsReach(run_rounds', n) => n = Completed + 1
    BY <1>1, <1>2, <2>4, <2>5 DEF RoundsReach
  <2>7. \A d \in active : run_rounds'[d] >= Completed'
    BY <1>1, <1>2, <1>4, <2>2
  <2>8. \E d \in active : run_rounds'[d] <= Completed'
    BY <2>2, <2>4, <2>5
  <2>9. \A n \in Nat : n = Completed + 1 => Completed' = n /\ reached'[n + 1] = now
    BY <1>2, <2>2
  <2>10. \A n \in Nat : n > Completed /\ ~RoundsReach(run_rounds', n) => n > Completed'
    BY <1>1, <1>2, <1>4, <2>2 DEF RoundsReach
  <2> QED BY <2>3, <2>6, <2>7, <2>8, <2>9, <2>10
<1>5. CASE \E c \in active : ~(run_rounds'[c] >= Len(reached))
  <2>1. reached' = reached
    BY <1>5 DEF Record, AddRunRounds, config
  <2>2. Extends /\ Completed' = Completed
    BY <1>2, <2>1 DEF Extends, Completed
  <2>3. PICK c \in active : ~(run_rounds'[c] >= Len(reached))
    BY <1>5
  <2>4. run_rounds'[c] <= Completed
    BY <1>1, <1>2, <2>3
  <2>5. \A n \in Nat : n > Completed => ~RoundsReach(run_rounds', n)
    BY <1>1, <1>2, <2>3, <2>4 DEF RoundsReach
  <2>6. \A d \in active : run_rounds'[d] >= Completed
    BY <1>1, <1>2 DEF RoundInv
  <2> QED BY <2>2, <2>3, <2>4, <2>5, <2>6
<1> QED BY <1>3, <1>4, <1>5

\* A boundary taken when round next_round is completed belongs to that round.
LEMMA AddBoundary ==
  ASSUME RoundInv, Extends, Len(boundaries) <= 2, NewBoundary,
         Completed' = next_round, reached'[next_round + 1] = now
  PROVE  BoundariesAreRounds'
<1> DEFINE b == Append(boundaries, now)
           n == Len(boundaries)
           agree == Agree(b[2] - b[1], b[3] - b[2])
<1>1. /\ boundaries \in Seq(Nat) /\ now \in Nat /\ next_round \in Nat
      /\ Completed \in Nat
  BY DEF RoundInv, TypeInv, TypeOK
<1>2. /\ b \in Seq(Nat) /\ n \in Nat /\ Len(b) = n + 1 /\ b # <<>>
      /\ b[n + 1] = now
      /\ \A i \in 1..n : b[i] = boundaries[i]
  BY <1>1, AppendTime, Zenon
<1>3. next_round' = next_round + 2
  BY DEF NewBoundary, FAST_WINDOW_ROUNDS
<1>4. boundaries' = IF Len(b) = 3 /\ ~agree THEN Tail(b) ELSE b
  BY DEF NewBoundary
<1>5. \A i \in 1..(n + 1) :
        LET round == next_round - 2 * n + 2 * (i - 1) IN
        round \in 0..Completed' /\ b[i] = reached'[round + 1]
  <2> SUFFICES ASSUME NEW i \in 1..(n + 1)
               PROVE  LET round == next_round - 2 * n + 2 * (i - 1) IN
                      round \in 0..Completed' /\ b[i] = reached'[round + 1]
    OBVIOUS
  <2>1. CASE i = n + 1
    BY <1>1, <1>2, <2>1
  <2>2. CASE i # n + 1
    <3> DEFINE round == next_round - 2 * n + 2 * (i - 1)
    <3>1. i \in 1..n
      BY <1>2, <2>2
    <3>2. round \in 0..Completed /\ boundaries[i] = reached[round + 1]
      BY <3>1 DEF RoundInv, BoundariesAreRounds, FirstWindowRound, FAST_WINDOW_ROUNDS
    <3> HIDE DEF round
    <3>3. round \in 0..Completed' /\ reached'[round + 1] = reached[round + 1]
      BY <1>1, <3>2 DEF Extends
    <3> QED BY <1>2, <3>1, <3>2, <3>3 DEF round
  <2> QED BY <2>1, <2>2
<1> HIDE DEF b, agree
<1>6. CASE Len(b) = 3 /\ ~agree
  <2>1. boundaries' = Tail(b)
    BY <1>4, <1>6
  <2>2. Len(boundaries') = n /\ \A i \in 1..n : boundaries'[i] = b[i + 1]
    BY <1>2, <2>1, HeadTailProperties
  <2>3. FirstWindowRound' = next_round - 2 * n + 2
    BY <1>1, <1>2, <1>3, <2>2 DEF FirstWindowRound, FAST_WINDOW_ROUNDS
  <2> SUFFICES ASSUME NEW i \in 1..n
               PROVE  LET round == FirstWindowRound' + 2 * (i - 1) IN
                      round \in 0..Completed' /\ boundaries'[i] = reached'[round + 1]
    BY <2>2 DEF BoundariesAreRounds, FAST_WINDOW_ROUNDS
  <2>4. i + 1 \in 1..(n + 1)
    BY <1>2
  <2>5. next_round - 2 * n + 2 * ((i + 1) - 1) = FirstWindowRound' + 2 * (i - 1)
    BY <1>1, <1>2, <2>3
  <2> QED BY <1>5, <2>2, <2>4, <2>5
<1>7. CASE ~(Len(b) = 3 /\ ~agree)
  <2>1. boundaries' = b
    BY <1>4, <1>7
  <2>2. FirstWindowRound' = next_round - 2 * n
    BY <1>1, <1>2, <1>3, <2>1 DEF FirstWindowRound, FAST_WINDOW_ROUNDS
  <2> QED BY <1>2, <1>5, <2>1, <2>2 DEF BoundariesAreRounds, FAST_WINDOW_ROUNDS
<1> QED BY <1>6, <1>7

LEMMA RoundInit == HistInit => RoundInv
<1> SUFFICES ASSUME HistInit PROVE RoundInv
  OBVIOUS
<1>1. TypeInv
  BY TypeInit
<1>2. Completed = 0
  BY DEF HistInit, Completed
<1>3. \A c \in active : run_rounds[c] = 0
  BY DEF HistInit, Init
<1>4. next_round = 2 /\ (boundaries = <<>> \/ boundaries = <<0>>) /\ reached = <<0>>
  BY DEF HistInit, Init, FAST_WINDOW_ROUNDS
<1>5. BoundariesAreRounds
  <2>1. CASE boundaries = <<>>
    BY <2>1 DEF BoundariesAreRounds
  <2>2. CASE boundaries = <<0>>
    <3>1. Len(boundaries) = 1 /\ boundaries[1] = 0 /\ reached[1] = 0
      BY <1>4, <2>2
    <3>2. FirstWindowRound = 0
      BY <1>4, <3>1 DEF FirstWindowRound, FAST_WINDOW_ROUNDS
    <3> QED BY <1>2, <3>1, <3>2 DEF BoundariesAreRounds, FAST_WINDOW_ROUNDS
  <2> QED BY <1>4, <2>1, <2>2
<1> QED BY <1>1, <1>2, <1>3, <1>4, <1>5 DEF RoundInv

LEMMA RoundStep == RoundInv /\ [HistNext]_histVars => RoundInv'
<1> SUFFICES ASSUME RoundInv, [HistNext]_histVars PROVE RoundInv'
  OBVIOUS
<1>1. TypeInv'
  BY TypeStep DEF RoundInv
<1>2. ASSUME UNCHANGED <<sim_mode, fast, active, run_rounds, windowVars, reached>>
      PROVE  RoundInv'
  <2>1. Extends
    BY <1>2 DEF Extends, RoundInv, Completed
  <2>2. BoundariesAreRounds'
    BY <1>2, <2>1, KeepBoundaries DEF windowVars
  <2> QED BY <1>1, <1>2, <2>2 DEF RoundInv, Completed, windowVars
<1>3. CASE UNCHANGED histVars
  BY <1>2, <1>3 DEF histVars, vars, config, coreVars, windowVars
<1>4. ASSUME HistNext, UNCHANGED <<sim_mode, fast, active, run_rounds, windowVars>>
      PROVE  RoundInv'
  BY <1>2, <1>4, RecordNothing DEF HistNext
<1>5. ASSUME HistNext, NEW C \in SUBSET Core, AddRunRounds(C) PROVE RoundInv'
  <2>1. /\ Extends
        /\ active # {} => /\ \A c \in active : run_rounds'[c] >= Completed'
                          /\ \E c \in active : run_rounds'[c] <= Completed'
        /\ \A n \in Nat : n > Completed /\ RoundsReach(run_rounds', n)
              => /\ n = Completed + 1
                 /\ Completed' = n
                 /\ reached'[n + 1] = now
        /\ \A n \in Nat : n > Completed /\ ~RoundsReach(run_rounds', n) => n > Completed'
    BY <1>5, RoundsAdvance DEF HistNext
  <2>2. sim_mode' = sim_mode /\ fast' = fast /\ active' = active /\ next_round \in Nat
    BY <1>5 DEF AddRunRounds, config, RoundInv, TypeInv, TypeOK
  <2>3. UpdateFastThroughput(run_rounds')
    BY <1>5 DEF AddRunRounds
  <2>4. CASE fast /\ sim_mode = 0 /\ ~converged /\ RoundsReach(run_rounds', next_round) /\ NewBoundary
    <3>1. Completed' = next_round /\ reached'[next_round + 1] = now
      BY <2>1, <2>2, <2>4 DEF RoundInv
    <3>2. BoundariesAreRounds'
      BY <2>1, <2>4, <3>1, AddBoundary DEF RoundInv, TypeInv
    <3>3. next_round' > Completed'
      BY <2>2, <2>4, <3>1 DEF NewBoundary, FAST_WINDOW_ROUNDS
    <3> QED BY <1>1, <2>1, <2>2, <3>2, <3>3 DEF RoundInv, Extends
  <2>5. CASE /\ ~(fast /\ sim_mode = 0 /\ ~converged /\ RoundsReach(run_rounds', next_round))
             /\ UNCHANGED windowVars
    <3>1. BoundariesAreRounds'
      BY <2>1, <2>5, KeepBoundaries DEF windowVars
    <3>2. ASSUME fast, sim_mode = 0, ~converged PROVE next_round > Completed'
      <4>1. ~RoundsReach(run_rounds', next_round)
        BY <2>5, <3>2
      <4> QED BY <2>1, <2>2, <3>2, <4>1 DEF RoundInv
    <3> QED BY <1>1, <2>1, <2>2, <2>5, <3>1, <3>2 DEF RoundInv, windowVars, Extends
  <2> QED BY <2>3, <2>4, <2>5 DEF UpdateFastThroughput
<1>6. ASSUME NEW C \in SUBSET Core, HistNext, SetFinish(C) \/ ZeroStart(C) PROVE RoundInv'
  BY <1>4, <1>6 DEF SetFinish, ZeroStart, config
<1>7. ASSUME HistNext, Return \/ ThroughputLoop \/ LatencyLoop PROVE RoundInv'
  BY <1>4, <1>7 DEF Return, ThroughputLoop, LatencyLoop, config, coreVars
<1> QED BY <1>3, <1>5, <1>6, <1>7 DEF HistNext, Next, Tick

\* The boundaries of the fast mode are completion times of rounds of the whole chip,
\* two rounds apart and none left out, whatever the cores and their rounds are.
THEOREM BoundariesCorrect == HistSpec => []BoundariesAreRounds
<1>1. HistInit => RoundInv
  BY RoundInit
<1>2. RoundInv /\ [HistNext]_histVars => RoundInv'
  BY RoundStep
<1>3. RoundInv => BoundariesAreRounds
  BY DEF RoundInv
<1> QED BY <1>1, <1>2, <1>3, PTL DEF HistSpec

-----------------------------------------------------------------------------
(* The end of a latency run.  The kernel is stopped exactly when all cores     *)
(* have finished, at the time of the last of them, and no piece goes beyond    *)
(* the deadline.                                                               *)

LatencyInv ==
  /\ TypeInv
  /\ sim_mode = 1 =>
       /\ now <= Timeout
       /\ phase = "start" => now <= until /\ until <= Timeout
       /\ phase = "zero" => ~stopped
       /\ stopped => isFinish
       /\ isFinish => stopped
       /\ \A c \in Core : finish_running[c] => finish_time_stamp[c] <= now
       /\ isFinish => \E c \in Core : finish_time_stamp[c] = now
       /\ phase = "done" => isFinish
       /\ phase = "thrown" => ~isFinish /\ now = Timeout

\* What the finish of the cores in C does, before all have finished.
LEMMA FinishingEffect ==
  ASSUME TypeOK, ~isFinish, NEW C \in SUBSET Core, Finishing(C),
         \A c \in Core : finish_running[c] => finish_time_stamp[c] <= now
  PROVE  /\ isFinish' => LastFinish(C)
         /\ LastFinish(C) => isFinish' /\ \E c \in Core : finish_time_stamp'[c] = now
         /\ \A c \in Core : finish_running'[c] => finish_time_stamp'[c] <= now
<1>1. \A c \in Core : finish_running'[c] <=> finish_running[c] \/ c \in C
  BY Zenon DEF Finishing
<1>2. \A c \in Core : finish_time_stamp'[c] = IF c \in C THEN now ELSE finish_time_stamp[c]
  BY DEF Finishing
<1>3. now \in Nat
  BY DEF TypeOK
<1>4. isFinish' => LastFinish(C)
  BY <1>1, Zenon DEF isFinish, LastFinish
<1>5. LastFinish(C) => isFinish'
  BY <1>1, Zenon DEF isFinish, LastFinish
<1>6. LastFinish(C) => \E c \in Core : finish_time_stamp'[c] = now
  BY <1>2, Zenon DEF LastFinish
<1>7. ASSUME NEW c \in Core, finish_running'[c] PROVE finish_time_stamp'[c] <= now
  <2>1. CASE c \in C
    BY <1>2, <1>3, <2>1
  <2>2. CASE c \notin C
    <3>1. finish_running[c]
      BY <1>1, <1>7, <2>2, Zenon
    <3>2. finish_time_stamp'[c] = finish_time_stamp[c]
      BY <1>2, <2>2
    <3> QED BY <3>1, <3>2
  <2> QED BY <2>1, <2>2
<1> QED BY <1>4, <1>5, <1>6, <1>7

LEMMA LatencyInit == HistInit => LatencyInv
<1> SUFFICES ASSUME HistInit PROVE LatencyInv
  OBVIOUS
<1>1. TypeInv
  BY TypeInit
<1>2. \A c \in Core : ~finish_running[c]
  BY DEF HistInit, Init
<1>3. ~isFinish
  BY <1>2, SimulationAssumption DEF isFinish
<1>4. now = 0 /\ phase = "loop" /\ ~stopped
  BY DEF HistInit, Init
<1> QED BY <1>1, <1>2, <1>3, <1>4, SimulationAssumption DEF LatencyInv

LEMMA LatencyStep == LatencyInv /\ [HistNext]_histVars => LatencyInv'
<1> SUFFICES ASSUME LatencyInv, [HistNext]_histVars PROVE LatencyInv'
  OBVIOUS
<1>1. TypeInv'
  BY TypeStep DEF LatencyInv
<1> SUFFICES ASSUME sim_mode' = 1 PROVE LatencyInv'
  BY <1>1 DEF LatencyInv
<1>2. /\ now \in Nat /\ until \in Nat
      /\ Timeout \in Nat /\ Poll \in Nat \ {0}
  BY SimulationAssumption DEF LatencyInv, TypeInv, TypeOK
<1>3. CASE UNCHANGED histVars
  BY <1>1, <1>3 DEF LatencyInv, isFinish, histVars, vars, config, loopVars, coreVars
<1>4. ASSUME NEW C \in SUBSET Core, AddRunRounds(C) PROVE FALSE
  BY <1>4 DEF AddRunRounds, config
<1>5. ASSUME NEW C \in SUBSET Core, SetFinish(C) PROVE LatencyInv'
  <2>1. /\ sim_mode = 1 /\ phase = "start" /\ now < until /\ ~stopped /\ Finishing(C)
        /\ Stop(LastFinish(C)) /\ phase' = phase /\ until' = until
    BY <1>5 DEF SetFinish, Runs, loopVars
  <2>2. /\ isFinish' => LastFinish(C)
        /\ LastFinish(C) => isFinish' /\ \E c \in Core : finish_time_stamp'[c] = now
        /\ \A c \in Core : finish_running'[c] => finish_time_stamp'[c] <= now
    BY <2>1, FinishingEffect DEF LatencyInv, TypeInv
  <2>3. (stopped' <=> LastFinish(C)) /\ now' = IF LastFinish(C) THEN now ELSE now + 1
    BY <2>1 DEF Stop
  <2>4. until <= Timeout
    BY <2>1 DEF LatencyInv
  <2>5. \A c \in Core : finish_time_stamp'[c] \in Nat
    BY <1>1 DEF TypeInv, TypeOK
  <2>6. CASE LastFinish(C)
    BY <1>1, <1>2, <2>1, <2>2, <2>3, <2>4, <2>6 DEF LatencyInv
  <2>7. CASE ~LastFinish(C)
    <3>1. now' = now + 1 /\ ~stopped' /\ ~isFinish'
      BY <2>2, <2>3, <2>7
    <3>2. \A c \in Core : finish_running'[c] => finish_time_stamp'[c] <= now'
      BY <1>2, <2>2, <2>5, <3>1
    <3> QED BY <1>1, <1>2, <2>1, <2>4, <3>1, <3>2 DEF LatencyInv
  <2> QED BY <2>6, <2>7
<1>6. ASSUME NEW C \in SUBSET Core, ZeroStart(C) PROVE LatencyInv'
  <2>1. /\ sim_mode = 1 /\ phase = "zero" /\ Finishing(C) /\ phase' = "loop"
        /\ now' = now /\ until' = until /\ (stopped' <=> LastFinish(C))
    BY <1>6 DEF ZeroStart, config
  <2>2. /\ isFinish' => LastFinish(C)
        /\ LastFinish(C) => isFinish' /\ \E c \in Core : finish_time_stamp'[c] = now
        /\ \A c \in Core : finish_running'[c] => finish_time_stamp'[c] <= now
    BY <2>1, FinishingEffect DEF LatencyInv, TypeInv
  <2>3. now <= Timeout
    BY <2>1 DEF LatencyInv
  <2> QED BY <1>1, <2>1, <2>2, <2>3 DEF LatencyInv
<1>7. CASE Return
  BY <1>1, <1>7 DEF Return, LatencyInv, isFinish, config, coreVars
<1>8. CASE ThroughputLoop
  BY <1>8 DEF ThroughputLoop, config
<1>9. CASE LatencyLoop
  <2>1. /\ sim_mode = 1 /\ phase = "loop"
        /\ UNCHANGED <<now, stopped, finish_running, finish_time_stamp>>
    BY <1>9 DEF LatencyLoop, coreVars
  <2>2. isFinish' <=> isFinish
    BY <2>1 DEF isFinish
  <2>3. CASE ~isFinish /\ ~stopped /\ Remains /\ Start(Piece)
    <3>1. until' = now + Piece /\ (phase' = "start" \/ phase' = "zero")
      BY <2>3 DEF Start
    <3>2. now <= now + Piece /\ now + Piece <= Timeout
      BY <1>2, <2>1 DEF Piece, LatencyInv
    <3> QED BY <1>1, <2>1, <2>2, <2>3, <3>1, <3>2 DEF LatencyInv
  <2>4. CASE isFinish /\ End("done")
    BY <1>1, <2>1, <2>2, <2>4 DEF End, LatencyInv
  <2>5. CASE ~isFinish /\ (stopped \/ ~Remains) /\ End("thrown")
    <3>1. now = Timeout
      BY <1>2, <2>1, <2>5 DEF Remains, LatencyInv
    <3> QED BY <1>1, <2>1, <2>2, <2>5, <3>1 DEF End, LatencyInv
  <2> QED BY <1>9, <2>3, <2>4, <2>5 DEF LatencyLoop
<1> QED BY <1>3, <1>4, <1>5, <1>6, <1>7, <1>8, <1>9 DEF HistNext, Next, Tick

\* A latency run that ends regularly has stopped with its last core, before or at the
\* deadline, and reports that time; one that throws does so at the deadline and has an
\* unfinished core.
THEOREM LatencyCorrect == HistSpec => []LatencyVerdict
<1>1. HistInit => LatencyInv
  BY LatencyInit
<1>2. LatencyInv /\ [HistNext]_histVars => LatencyInv'
  BY LatencyStep
<1>3. LatencyInv => LatencyVerdict
  <2> SUFFICES ASSUME LatencyInv, sim_mode = 1
               PROVE  /\ phase = "done" => isFinish /\ now <= Timeout /\ IsRunningTime(now)
                      /\ phase = "thrown" => ~isFinish /\ now = Timeout
    BY DEF LatencyVerdict
  <2>1. isFinish => IsRunningTime(now)
    BY DEF LatencyInv, IsRunningTime, isFinish
  <2> QED BY <2>1 DEF LatencyInv
<1> QED BY <1>1, <1>2, <1>3, PTL DEF HistSpec

-----------------------------------------------------------------------------
(* The end of a throughput run.  A fast run compares every two consecutive     *)
(* windows when the second one ends, and never goes on after an agreement.     *)

\* What is reported as the time of two windows is not zero: after the first round,
\* no two rounds of the chip end in the same tick.
RoundsTakeTime ==
  /\ \A i \in 1..Completed : /\ reached[i] <= reached[i + 1]
                             /\ i >= 2 => reached[i] < reached[i + 1]
  /\ reached[Completed + 1] <= now
  /\ ~stopped /\ Completed >= 1 => reached[Completed + 1] < now

\* All pairs of windows of the completed rounds have been compared.
PairsCompared ==
  /\ stopped = converged
  /\ \E k \in 0..next_round : next_round = 2 * k + 2
  /\ ~converged => Len(boundaries) = IF next_round = 2 THEN 1 ELSE 2
  /\ converged => Len(boundaries) = 3 /\ Completed = next_round - 2
  /\ \A k \in 0..Completed :
       2 * k + 4 <= Completed => (WindowsAgree(2 * k) <=> converged /\ Completed = 2 * k + 4)

ThroughputInv ==
  /\ RoundInv
  /\ sim_mode = 0 =>
       /\ phase \in {"loop", "start", "done"}
       /\ until = level * Chunk
       /\ stopped => converged
       /\ ~stopped /\ phase = "loop" => now = until
       /\ phase = "start" => now <= until
       /\ phase = "done" => converged \/ now = SimTime
       /\ active = {} => Completed = 0 /\ (converged => Len(boundaries) # 3)
       /\ converged => fast
       /\ RoundsTakeTime
       /\ fast /\ active # {} => PairsCompared

LEMMA WindowsFixed ==
  ASSUME Extends, Completed \in Nat, NEW k \in Nat, 2 * k + 4 <= Completed
  PROVE  WindowsAgree(2 * k)' <=> WindowsAgree(2 * k)
<1>1. /\ 2 * k + 1 \in 1..(Completed + 1) /\ 2 * k + 3 \in 1..(Completed + 1)
      /\ 2 * k + 5 \in 1..(Completed + 1)
  OBVIOUS
<1>2. /\ reached'[2 * k + 1] = reached[2 * k + 1] /\ reached'[2 * k + 3] = reached[2 * k + 3]
      /\ reached'[2 * k + 5] = reached[2 * k + 5]
  BY <1>1 DEF Extends
<1> QED BY <1>2 DEF WindowsAgree

LEMMA RoundsTakeTimeStep ==
  ASSUME RoundInv, RoundsTakeTime, NEW C \in SUBSET Core, AddRunRounds(C), Record
  PROVE  RoundsTakeTime'
<1>1. /\ now \in Nat /\ ~stopped /\ (now' = IF stopped' THEN now ELSE now + 1)
      /\ reached \in Seq(Nat) /\ Completed \in Nat /\ Len(reached) = Completed + 1
  <2>1. now \in Nat /\ reached \in Seq(Nat) /\ Completed \in Nat
    BY DEF RoundInv, TypeInv, TypeOK
  <2>2. Len(reached) \in Nat /\ Len(reached) = Completed + 1
    BY <2>1 DEF Completed
  <2>3. ~stopped /\ (now' = IF stopped' THEN now ELSE now + 1)
    BY Zenon DEF AddRunRounds, Runs, Stop
  <2> QED BY <2>1, <2>2, <2>3
<1>2. \A i \in 1..(Completed + 1) : reached[i] \in Nat
  BY <1>1
<1>3. CASE reached' = reached
  BY <1>1, <1>2, <1>3 DEF RoundsTakeTime, Completed
<1>4. CASE reached' = Append(reached, now)
  <2>1. /\ Completed' = Completed + 1
        /\ reached'[Completed + 2] = now
        /\ \A i \in 1..(Completed + 1) : reached'[i] = reached[i]
    BY <1>4, AppendRound DEF RoundInv, TypeInv
  <2>2. ASSUME NEW i \in 1..Completed'
        PROVE  reached'[i] <= reached'[i + 1] /\ (i >= 2 => reached'[i] < reached'[i + 1])
    <3>1. CASE i \in 1..Completed
      <4>1. i \in 1..(Completed + 1) /\ i + 1 \in 1..(Completed + 1)
        BY <1>1, <3>1
      <4> QED BY <2>1, <3>1, <4>1 DEF RoundsTakeTime
    <3>2. CASE i = Completed + 1
      <4>1. reached'[i] = reached[Completed + 1] /\ reached'[i + 1] = now
        BY <1>1, <2>1, <3>2
      <4>2. i >= 2 => Completed >= 1
        BY <1>1, <3>2
      <4> QED BY <1>1, <4>1, <4>2 DEF RoundsTakeTime
    <3> QED BY <1>1, <2>1, <3>1, <3>2
  <2>3. reached'[Completed' + 1] = now
    BY <1>1, <2>1
  <2> QED BY <1>1, <2>2, <2>3 DEF RoundsTakeTime
<1> QED BY <1>3, <1>4 DEF Record

\* The comparison made when round next_round is completed, and the others it leaves.
LEMMA PairsStep ==
  ASSUME RoundInv, PairsCompared, fast, sim_mode = 0, active # {},
         NEW C \in SUBSET Core, AddRunRounds(C), Record
  PROVE  PairsCompared'
<1>1. /\ Extends
      /\ \A n \in Nat : n > Completed /\ RoundsReach(run_rounds', n)
            => /\ n = Completed + 1
               /\ Completed' = n
               /\ reached'[n + 1] = now
      /\ \A n \in Nat : n > Completed /\ ~RoundsReach(run_rounds', n) => n > Completed'
  BY RoundsAdvance
<1>2. Completed' = Completed \/ Completed' = Completed + 1
  BY AppendRound DEF Record, Completed, RoundInv, TypeInv
<1>3. /\ Completed \in Nat /\ next_round \in Nat /\ boundaries \in Seq(Nat) /\ now \in Nat
      /\ next_round > Completed /\ Len(boundaries) \in Nat
      /\ ~converged /\ ~stopped /\ stopped' = (converged' /\ ~converged)
  BY DEF RoundInv, TypeInv, TypeOK, AddRunRounds, Runs, Stop, PairsCompared
<1>4. PICK m \in Nat : next_round = 2 * m + 2
  BY <1>3 DEF PairsCompared
<1>5. \A i \in 1..Len(boundaries) :
        LET round == next_round - 2 * Len(boundaries) + 2 * (i - 1) IN
        round \in 0..Completed /\ boundaries[i] = reached[round + 1]
  BY DEF RoundInv, BoundariesAreRounds, FirstWindowRound, FAST_WINDOW_ROUNDS
<1>6. Len(boundaries) = IF m = 0 THEN 1 ELSE 2
  BY <1>3, <1>4 DEF PairsCompared
<1>7. Completed >= 2 * m
  <2>1. Len(boundaries) \in 1..Len(boundaries)
    BY <1>3, <1>6
  <2>2. next_round - 2 * Len(boundaries) + 2 * (Len(boundaries) - 1) \in 0..Completed
    BY <1>5, <2>1
  <2> QED BY <1>3, <1>4, <2>2
<1>8. \A k \in Nat : 2 * k + 4 <= Completed => ~WindowsAgree(2 * k)'
  <2> SUFFICES ASSUME NEW k \in Nat, 2 * k + 4 <= Completed PROVE ~WindowsAgree(2 * k)'
    OBVIOUS
  <2>1. k \in 0..Completed
    BY <1>3
  <2>2. ~WindowsAgree(2 * k)
    BY <1>3, <2>1 DEF PairsCompared
  <2> QED BY <1>1, <1>3, <2>2, WindowsFixed
<1>9. UpdateFastThroughput(run_rounds')
  BY DEF AddRunRounds
<1>10. CASE RoundsReach(run_rounds', next_round) /\ NewBoundary
  <2> DEFINE b == Append(boundaries, now)
             agree == Agree(b[2] - b[1], b[3] - b[2])
  <2>1. Completed' = 2 * m + 2 /\ reached'[2 * m + 3] = now /\ Completed = 2 * m + 1
    BY <1>1, <1>3, <1>4, <1>10
  <2>2. /\ b \in Seq(Nat) /\ Len(b) = Len(boundaries) + 1 /\ b # <<>>
        /\ b[Len(boundaries) + 1] = now
        /\ \A i \in 1..Len(boundaries) : b[i] = boundaries[i]
    BY <1>3, AppendTime, Zenon
  <2>3. /\ next_round' = 2 * m + 4
        /\ converged' \in BOOLEAN
        /\ converged' <=> Len(b) = 3 /\ agree
        /\ Len(b) = 3 /\ ~agree => boundaries' = Tail(b)
        /\ ~(Len(b) = 3 /\ ~agree) => boundaries' = b
    <3>1. next_round' = 2 * m + 4
      BY <1>4, <1>10 DEF NewBoundary, FAST_WINDOW_ROUNDS
    <3>2. /\ converged' = (Len(b) = 3 /\ agree)
          /\ boundaries' = IF Len(b) = 3 /\ ~agree THEN Tail(b) ELSE b
      BY <1>10 DEF NewBoundary
    <3> HIDE DEF b, agree
    <3>3. converged' \in BOOLEAN /\ (converged' <=> Len(b) = 3 /\ agree)
      BY <3>2, Zenon
    <3>4. /\ Len(b) = 3 /\ ~agree => boundaries' = Tail(b)
          /\ ~(Len(b) = 3 /\ ~agree) => boundaries' = b
      BY <3>2, Zenon
    <3> QED BY <3>1, <3>3, <3>4
  <2>4. m >= 1 => (agree <=> WindowsAgree(2 * (m - 1))')
    <3> SUFFICES ASSUME m >= 1 PROVE agree <=> WindowsAgree(2 * (m - 1))'
      OBVIOUS
    <3>1. Len(boundaries) = 2
      BY <1>6
    <3>2. b[1] = boundaries[1] /\ b[2] = boundaries[2] /\ b[3] = now
      BY <2>2, <3>1
    <3>3. boundaries[1] = reached[2 * m - 1] /\ boundaries[2] = reached[2 * m + 1]
      <4>1. 1 \in 1..Len(boundaries) /\ 2 \in 1..Len(boundaries)
        BY <3>1
      <4>2. /\ next_round - 2 * Len(boundaries) + 2 * (1 - 1) + 1 = 2 * m - 1
            /\ next_round - 2 * Len(boundaries) + 2 * (2 - 1) + 1 = 2 * m + 1
        BY <1>4, <3>1
      <4> QED BY <1>5, <4>1, <4>2
    <3>4. reached'[2 * m - 1] = reached[2 * m - 1] /\ reached'[2 * m + 1] = reached[2 * m + 1]
      <4>1. 2 * m - 1 \in 1..(Completed + 1) /\ 2 * m + 1 \in 1..(Completed + 1)
        BY <2>1
      <4> QED BY <1>1, <4>1 DEF Extends
    <3>5. /\ 2 * (m - 1) + 1 = 2 * m - 1 /\ 2 * (m - 1) + 3 = 2 * m + 1
          /\ 2 * (m - 1) + 5 = 2 * m + 3
      OBVIOUS
    <3> QED BY <2>1, <3>2, <3>3, <3>4, <3>5 DEF WindowsAgree
  <2> HIDE DEF b, agree
  <2>5. \A k \in 0..Completed' : 2 * k + 4 <= Completed' =>
          (WindowsAgree(2 * k)' <=> converged' /\ Completed' = 2 * k + 4)
    <3> SUFFICES ASSUME NEW k \in 0..Completed', 2 * k + 4 <= Completed'
                 PROVE  WindowsAgree(2 * k)' <=> converged' /\ Completed' = 2 * k + 4
      OBVIOUS
    <3>1. k \in Nat /\ m >= 1
      BY <2>1
    <3>2. CASE 2 * k + 4 <= Completed
      BY <1>8, <2>1, <3>1, <3>2
    <3>3. CASE 2 * k + 4 > Completed
      <4>1. k = m - 1 /\ Completed' = 2 * k + 4
        BY <2>1, <3>1, <3>3
      <4>2. Len(b) = 3
        BY <1>6, <2>2, <3>1
      <4> QED BY <2>3, <2>4, <3>1, <4>1, <4>2
    <3> QED BY <1>3, <3>1, <3>2, <3>3
  <2>6. ~converged' => Len(boundaries') = IF next_round' = 2 THEN 1 ELSE 2
    <3> SUFFICES ASSUME ~converged' PROVE Len(boundaries') = 2
      <4>1. next_round' # 2 => (IF next_round' = 2 THEN 1 ELSE 2) = 2
        OBVIOUS
      <4> QED BY <1>3, <1>4, <2>3, <4>1
    <3>1. CASE m = 0
      BY <1>6, <2>2, <2>3, <3>1
    <3>2. CASE m # 0
      <4>1. Len(b) = 3
        BY <1>6, <2>2, <3>2
      <4>2. boundaries' = Tail(b)
        BY <2>3, <4>1
      <4>3. Len(Tail(b)) = Len(b) - 1
        BY <2>2, HeadTailProperties
      <4> QED BY <4>1, <4>2, <4>3
    <3> QED BY <3>1, <3>2
  <2>7. converged' => Len(boundaries') = 3 /\ Completed' = next_round' - 2
    <3>1. converged' => boundaries' = b /\ Len(b) = 3
      BY <2>3
    <3>2. Completed' = next_round' - 2
      BY <2>1, <2>3
    <3> QED BY <3>1, <3>2
  <2>8. \E k \in 0..next_round' : next_round' = 2 * k + 2
    <3>1. m + 1 \in 0..next_round' /\ next_round' = 2 * (m + 1) + 2
      BY <2>3
    <3> QED BY <3>1
  <2>9. stopped' = converged'
    <3>1. converged' \in BOOLEAN
      BY <2>3
    <3> QED BY <1>3, <3>1
  <2> QED BY <2>5, <2>6, <2>7, <2>8, <2>9 DEF PairsCompared
<1>11. CASE ~RoundsReach(run_rounds', next_round) /\ UNCHANGED windowVars
  <2>1. Completed' < next_round
    BY <1>1, <1>3, <1>11
  <2>2. UNCHANGED <<boundaries, next_round, converged>> /\ ~stopped'
    BY <1>3, <1>11 DEF windowVars
  <2>3. \A k \in 0..Completed' : 2 * k + 4 <= Completed' => ~WindowsAgree(2 * k)'
    <3> SUFFICES ASSUME NEW k \in 0..Completed', 2 * k + 4 <= Completed'
                 PROVE  ~WindowsAgree(2 * k)'
      OBVIOUS
    <3>1. k \in Nat /\ 2 * k + 4 <= Completed
      BY <1>2, <1>3, <1>4, <1>7, <2>1
    <3> QED BY <1>8, <3>1
  <2>4. ~converged' /\ stopped' = converged'
    <3>1. converged = FALSE
      BY <1>3 DEF RoundInv, TypeInv, TypeOK
    <3>2. converged' = FALSE
      BY <2>2, <3>1
    <3> QED BY <1>3, <3>1, <3>2
  <2> QED BY <1>3, <2>2, <2>3, <2>4 DEF PairsCompared
<1> QED BY <1>3, <1>9, <1>10, <1>11 DEF UpdateFastThroughput

LEMMA ThroughputInit == HistInit => ThroughputInv
<1> SUFFICES ASSUME HistInit PROVE ThroughputInv
  OBVIOUS
<1>1. RoundInv
  BY RoundInit
<1>2. Completed = 0 /\ reached = <<0>> /\ now = 0 /\ next_round = 2
  BY DEF HistInit, Init, Completed, FAST_WINDOW_ROUNDS
<1>3. phase = "loop" /\ until = 0 /\ level = 0 /\ stopped = FALSE
  BY DEF HistInit, Init
<1>4. 0 * Chunk = 0
  BY SimulationAssumption
<1>5. converged <=> sim_mode = 0 /\ fast /\ active = {}
  BY Zenon DEF HistInit, Init
<1>6. Len(boundaries) # 3 /\ (fast /\ sim_mode = 0 => Len(boundaries) = 1)
  BY DEF HistInit, Init
<1>7. RoundsTakeTime
  BY <1>2 DEF RoundsTakeTime
<1>8. ASSUME sim_mode = 0, fast, active # {} PROVE PairsCompared
  <2>1. converged = FALSE
    BY <1>1, <1>5, <1>8 DEF RoundInv, TypeInv, TypeOK
  <2>2. \E k \in 0..next_round : next_round = 2 * k + 2
    <3>1. 0 \in 0..next_round /\ next_round = 2 * 0 + 2
      BY <1>2
    <3> QED BY <3>1
  <2>3. \A k \in 0..Completed : ~(2 * k + 4 <= Completed)
    BY <1>2
  <2>4. Len(boundaries) = IF next_round = 2 THEN 1 ELSE 2
    BY <1>2, <1>6, <1>8
  <2> QED BY <1>3, <2>1, <2>2, <2>3, <2>4 DEF PairsCompared
<1> QED BY <1>1, <1>2, <1>3, <1>4, <1>5, <1>6, <1>7, <1>8 DEF ThroughputInv

\* A step that leaves rounds and windows alone.
LEMMA PairsKept ==
  ASSUME RoundInv, UNCHANGED <<stopped, windowVars, reached>>
  PROVE  /\ Completed' = Completed
         /\ PairsCompared => PairsCompared'
         /\ now' = now /\ RoundsTakeTime => RoundsTakeTime'
BY DEF PairsCompared, RoundsTakeTime, Completed, WindowsAgree, windowVars

LEMMA ThroughputStep == ThroughputInv /\ [HistNext]_histVars => ThroughputInv'
<1> SUFFICES ASSUME ThroughputInv, [HistNext]_histVars PROVE ThroughputInv'
  OBVIOUS
<1>1. RoundInv /\ RoundInv'
  BY RoundStep DEF ThroughputInv
<1> SUFFICES ASSUME sim_mode' = 0 PROVE ThroughputInv'
  BY <1>1 DEF ThroughputInv
<1>2. /\ now \in Nat /\ until \in Nat /\ level \in 0..Levels
      /\ Levels \in Nat /\ Chunk \in Nat \ {0} /\ Completed \in Nat
      /\ stopped \in BOOLEAN /\ converged \in BOOLEAN
  BY <1>1, SimulationAssumption DEF RoundInv, TypeInv, TypeOK
<1>3. CASE UNCHANGED histVars
  <2>1. UNCHANGED <<sim_mode, fast, active, phase, until, level, now, stopped, windowVars, reached>>
    BY <1>3 DEF histVars, vars, config, loopVars
  <2> QED BY <1>1, <2>1, PairsKept DEF ThroughputInv, windowVars
<1>4. ASSUME HistNext, NEW C \in SUBSET Core, AddRunRounds(C) PROVE ThroughputInv'
  <2>1. /\ sim_mode = 0 /\ sim_mode' = sim_mode /\ fast' = fast /\ active' = active
        /\ phase = "start" /\ phase' = phase /\ until' = until /\ level' = level
        /\ now < until /\ ~stopped
        /\ Stop(converged' /\ ~converged)
    BY <1>4 DEF AddRunRounds, Runs, config, loopVars
  <2>2. (stopped' <=> converged' /\ ~converged) /\ (now' = IF stopped' THEN now ELSE now + 1)
    BY <2>1, Zenon DEF Stop
  <2>3. RoundsTakeTime'
    BY <1>1, <1>4, <2>1, RoundsTakeTimeStep DEF HistNext, ThroughputInv
  <2>4. ASSUME fast, active # {} PROVE PairsCompared'
    BY <1>1, <1>4, <2>1, <2>4, PairsStep DEF HistNext, ThroughputInv
  <2>5. active = {} => Completed' = 0 /\ UNCHANGED <<converged, boundaries>>
    BY <1>4, <2>1 DEF HistNext, Record, Completed, ThroughputInv, AddRunRounds,
                      UpdateFastThroughput, RoundsReach, windowVars
  <2>6. converged' => fast
    <3>1. ~fast => converged' = converged
      BY <1>4 DEF AddRunRounds, UpdateFastThroughput, windowVars
    <3> QED BY <2>1, <3>1 DEF ThroughputInv
  <2>7. now' <= until
    BY <1>2, <2>1, <2>2
  <2> QED BY <1>1, <2>1, <2>2, <2>3, <2>4, <2>5, <2>6, <2>7 DEF ThroughputInv
<1>5. ASSUME NEW C \in SUBSET Core, SetFinish(C) PROVE FALSE
  BY <1>5 DEF SetFinish, config
<1>6. ASSUME NEW C \in SUBSET Core, ZeroStart(C) PROVE FALSE
  BY <1>6 DEF ZeroStart, config, ThroughputInv
<1>7. ASSUME HistNext, UNCHANGED <<config, now, stopped, coreVars, windowVars>>
      PROVE  /\ reached' = reached /\ Completed' = Completed
             /\ sim_mode = 0 /\ fast' = fast /\ active' = active
             /\ UNCHANGED <<now, stopped, converged, boundaries>>
             /\ RoundsTakeTime'
             /\ fast /\ active # {} => PairsCompared'
  <2>1. reached' = reached
    BY <1>1, <1>7, RecordNothing DEF HistNext, config, coreVars
  <2> QED BY <1>1, <1>7, <2>1, PairsKept DEF ThroughputInv, config, windowVars
<1>8. ASSUME HistNext, Return PROVE ThroughputInv'
  <2>1. /\ phase = "start" /\ (now = until \/ stopped) /\ phase' = "loop"
        /\ until' = until /\ level' = level
    BY <1>8 DEF Return
  <2> QED BY <1>1, <1>7, <1>8, <2>1 DEF ThroughputInv, Return
<1>9. ASSUME HistNext, ThroughputLoop PROVE ThroughputInv'
  <2>1. phase = "loop" /\ UNCHANGED <<config, now, stopped, coreVars, windowVars>>
    BY <1>9 DEF ThroughputLoop
  <2>2. CASE level < Levels /\ ~stopped /\ ~converged /\ level' = level + 1 /\ Start(Chunk)
    <3>1. until' = now + Chunk /\ phase' = "start"
      BY <1>2, <2>2 DEF Start
    <3>2. now = level * Chunk
      BY <1>7, <1>9, <2>1, <2>2 DEF ThroughputInv
    <3>3. (level + 1) * Chunk = level * Chunk + Chunk
      BY <1>2
    <3>4. until' = level' * Chunk /\ now <= until'
      BY <1>2, <2>2, <3>1, <3>2, <3>3
    <3> QED BY <1>1, <1>7, <1>9, <2>1, <2>2, <3>1, <3>4 DEF ThroughputInv
  <2>3. CASE ~(level < Levels /\ ~stopped /\ ~converged) /\ End("done")
    <3>1. phase' = "done" /\ until' = until /\ level' = level
      BY <2>3 DEF End
    <3>2. converged \/ now = SimTime
      <4> SUFFICES ASSUME ~converged PROVE now = SimTime
        OBVIOUS
      <4>1. ~stopped
        BY <1>7, <1>9, <2>1 DEF ThroughputInv
      <4>2. level = Levels
        BY <1>2, <2>3, <4>1
      <4>3. now = level * Chunk
        BY <1>7, <1>9, <2>1, <4>1 DEF ThroughputInv
      <4> QED BY <4>2, <4>3 DEF SimTime
    <3> QED BY <1>1, <1>7, <1>9, <2>1, <3>1, <3>2 DEF ThroughputInv
  <2> QED BY <1>9, <2>2, <2>3 DEF ThroughputLoop
<1>10. ASSUME LatencyLoop PROVE FALSE
  BY <1>10 DEF LatencyLoop, config
<1> QED BY <1>3, <1>4, <1>5, <1>6, <1>8, <1>9, <1>10 DEF HistNext, Next, Tick

\* The invariant behind both theorems on throughput runs.
LEMMA ThroughputInvariant == HistSpec => []ThroughputInv
<1>1. HistInit => ThroughputInv
  BY ThroughputInit
<1>2. ThroughputInv /\ [HistNext]_histVars => ThroughputInv'
  BY ThroughputStep
<1> QED BY <1>1, <1>2, PTL DEF HistSpec

\* A fast run has stopped if and only if two consecutive windows have agreed, which are
\* then the last two completed: no agreement has been passed over, and none was
\* found between windows that do not follow each other.
THEOREM ConvergenceCorrect == HistSpec => []ConvergesAtOnce
<1>1. ThroughputInv => ConvergesAtOnce
  <2> SUFFICES ASSUME ThroughputInv, fast, sim_mode = 0, active # {}
               PROVE  /\ stopped = converged
                      /\ \A k \in 0..(Completed \div 2) :
                           2 * k + 4 <= Completed =>
                             (WindowsAgree(2 * k) <=> converged /\ Completed = 2 * k + 4)
    BY DEF ConvergesAtOnce
  <2>1. PairsCompared /\ Completed \in Nat
    BY DEF ThroughputInv, RoundInv
  <2>2. ASSUME NEW k \in 0..(Completed \div 2), 2 * k + 4 <= Completed
        PROVE  WindowsAgree(2 * k) <=> converged /\ Completed = 2 * k + 4
    <3>1. k \in 0..Completed
      BY <2>1, <2>2
    <3> QED BY <2>1, <2>2, <3>1 DEF PairsCompared
  <2> QED BY <2>1, <2>2 DEF PairsCompared
<1> QED BY <1>1, ThroughputInvariant, PTL

\* What a throughput run reports has been measured: the time of the last four rounds of
\* the whole chip if it has converged (and never zero, by which the report divides), and
\* otherwise all rounds in the full simulation time.
THEOREM ReportCorrect == HistSpec => []ReportIsMeasured
<1>1. ThroughputInv => ReportIsMeasured
  <2> SUFFICES ASSUME ThroughputInv, phase = "done", sim_mode = 0
               PROVE  \/ /\ use_fast_result /\ converged
                         /\ measurement_rounds(Completed) = 4
                         /\ measurement_time = reached[Completed + 1] - reached[Completed - 3]
                         /\ measurement_time > 0
                      \/ /\ ~use_fast_result
                         /\ measurement_rounds(Completed) = Completed
                         /\ now = SimTime \/ (active = {} /\ Completed = 0)
    BY DEF ReportIsMeasured
  <2>1. /\ Completed \in Nat /\ reached \in Seq(Nat) /\ Len(reached) = Completed + 1
        /\ boundaries \in Seq(Nat) /\ RoundsTakeTime
    <3>1. Completed \in Nat /\ reached \in Seq(Nat) /\ boundaries \in Seq(Nat) /\ RoundsTakeTime
      BY DEF ThroughputInv, RoundInv, TypeInv, TypeOK
    <3>2. Len(reached) \in Nat
      BY <3>1
    <3> QED BY <3>1, <3>2 DEF Completed
  <2>2. CASE use_fast_result
    <3>1. Len(boundaries) = 3
      BY <2>2 DEF use_fast_result
    <3>2. converged
      BY <3>1 DEF ThroughputInv, RoundInv, TypeInv
    <3>3. fast /\ active # {} /\ PairsCompared
      BY <3>1, <3>2 DEF ThroughputInv
    <3>4. next_round = Completed + 2
      <4>1. next_round \in Nat
        BY DEF ThroughputInv, RoundInv, TypeInv, TypeOK
      <4> QED BY <2>1, <3>2, <3>3, <4>1 DEF PairsCompared
    <3>5. \A i \in 1..3 : Completed + 2 - 2 * 3 + 2 * (i - 1) \in 0..Completed
                          /\ boundaries[i] = reached[Completed + 2 - 2 * 3 + 2 * (i - 1) + 1]
      BY <3>1, <3>4 DEF ThroughputInv, RoundInv, BoundariesAreRounds, FirstWindowRound,
                        FAST_WINDOW_ROUNDS
    <3>6. Completed >= 4 /\ boundaries[1] = reached[Completed - 3]
          /\ boundaries[3] = reached[Completed + 1]
      <4>1. /\ Completed + 2 - 2 * 3 + 2 * (1 - 1) = Completed - 4
            /\ Completed + 2 - 2 * 3 + 2 * (1 - 1) + 1 = Completed - 3
            /\ Completed + 2 - 2 * 3 + 2 * (3 - 1) + 1 = Completed + 1
        BY <2>1
      <4>2. 1 \in 1..3 /\ 3 \in 1..3
        OBVIOUS
      <4> QED BY <2>1, <3>5, <4>1, <4>2
    <3>7. reached[Completed + 1] - reached[Completed - 3] > 0
      <4>1. \A i \in 1..(Completed + 1) : reached[i] \in Nat
        BY <2>1
      <4>2. /\ Completed - 3 \in 1..Completed /\ Completed - 2 \in 1..Completed
            /\ Completed - 1 \in 1..Completed /\ Completed \in 1..Completed
            /\ Completed - 2 = (Completed - 3) + 1 /\ Completed - 1 = (Completed - 2) + 1
            /\ Completed = (Completed - 1) + 1
        <5>1. \A n \in Nat : n >= 4 => /\ n - 3 \in 1..n /\ n - 2 \in 1..n
                                       /\ n - 1 \in 1..n /\ n \in 1..n
                                       /\ n - 2 = (n - 3) + 1 /\ n - 1 = (n - 2) + 1
                                       /\ n = (n - 1) + 1
          OBVIOUS
        <5> QED BY <2>1, <3>6, <5>1
      <4>3. /\ reached[Completed - 3] <= reached[Completed - 2]
            /\ reached[Completed - 2] <= reached[Completed - 1]
            /\ reached[Completed - 1] <= reached[Completed]
            /\ reached[Completed] < reached[Completed + 1]
        BY <2>1, <3>6, <4>2 DEF RoundsTakeTime
      <4>4. /\ reached[Completed - 3] \in Nat /\ reached[Completed - 2] \in Nat
            /\ reached[Completed - 1] \in Nat /\ reached[Completed] \in Nat
            /\ reached[Completed + 1] \in Nat
        BY <2>1, <3>6, <4>1
      <4> QED BY <4>3, <4>4
    <3>8. measurement_rounds(Completed) = 4
      BY <2>2 DEF measurement_rounds, FAST_WINDOW_ROUNDS
    <3>9. measurement_time = reached[Completed + 1] - reached[Completed - 3]
      BY <2>2, <3>6 DEF measurement_time
    <3> QED BY <2>2, <3>2, <3>7, <3>8, <3>9
  <2>3. CASE ~use_fast_result
    <3>1. measurement_rounds(Completed) = Completed
      BY <2>3 DEF measurement_rounds
    <3>2. converged => active = {} /\ Completed = 0
      BY <2>3 DEF use_fast_result, ThroughputInv, PairsCompared
    <3>3. converged \/ now = SimTime
      BY DEF ThroughputInv
    <3> QED BY <2>3, <3>1, <3>2, <3>3
  <2> QED BY <2>2, <2>3
<1> QED BY <1>1, ThroughputInvariant, PTL
=============================================================================
