----------------------------- MODULE Rendezvous -----------------------------
(***************************************************************************)
(* What the transfer units promise to the programs of the cores, without   *)
(* messages, switches or threads: a send and a recv meet, agree, and hand  *)
(* the data over once; signals are counted, and a wait consumes as many as *)
(* it asks for, atomically.                                                *)
(***************************************************************************)
EXTENDS Integers, Sequences

CONSTANTS Core, EventRegister, LoopPrograms

VARIABLES
  prog,     \* the transfer instructions of each core
  pos,      \* index of the instruction each core is at
  phase,    \* "idle":   not begun, or without a partner
            \* "posted": waits for its partner
            \* "agreed": both partners are there
            \* "done":   its effect has happened, it is about to finish
  signals   \* [c][e]: signals sent to register e of c and not consumed yet

vars == <<prog, pos, phase, signals>>

TypeOK ==
  /\ phase \in [Core -> {"idle", "posted", "agreed", "done"}]
  /\ signals \in [Core -> [EventRegister -> Nat]]

Instr(c) == prog[c][pos[c]]
Is(c, op, ph) == pos[c] <= Len(prog[c]) /\ Instr(c).op = op /\ phase[c] = ph
Advance(c) ==
  pos' = [pos EXCEPT ![c] = IF @ = Len(prog[c]) /\ prog \in LoopPrograms THEN 1 ELSE @ + 1]

Init ==
  /\ pos = [c \in Core |-> 1]
  /\ phase = [c \in Core |-> "idle"]
  /\ signals = [c \in Core |-> [e \in EventRegister |-> 0]]

\* A core offers to send or to receive.
Post(c) ==
  /\ Is(c, "send", "idle") \/ Is(c, "recv", "idle")
  /\ phase' = [phase EXCEPT ![c] = "posted"]
  /\ UNCHANGED <<prog, pos, signals>>

\* a sends to b and b receives from a.
Agree(a, b) ==
  /\ Is(a, "send", "posted") /\ Instr(a).core = b
  /\ Is(b, "recv", "posted") /\ Instr(b).core = a
  /\ phase' = [phase EXCEPT ![a] = "agreed", ![b] = "agreed"]
  /\ UNCHANGED <<prog, pos, signals>>

\* The sender lets go of the data, which is the receiver's from now on.
HandOver(a) ==
  /\ Is(a, "send", "agreed")
  /\ phase' = [phase EXCEPT ![a] = "idle", ![Instr(a).core] = "done"]
  /\ Advance(a)
  /\ UNCHANGED <<prog, signals>>

Signal(c) ==
  /\ Is(c, "sync", "idle")
  /\ signals' = [signals EXCEPT ![Instr(c).core][Instr(c).ev] = @ + 1]
  /\ phase' = [phase EXCEPT ![c] = "done"]
  /\ UNCHANGED <<prog, pos>>

Await(c) ==
  LET e == Instr(c).ev IN
  /\ Is(c, "wait", "idle")
  /\ signals[c][e] >= Instr(c).val
  /\ signals' = [signals EXCEPT ![c][e] = @ - Instr(c).val]
  /\ Advance(c)
  /\ UNCHANGED <<prog, phase>>

\* Accesses to the memories concern nobody else.
Access(c) ==
  /\ \E op \in {"ld", "st", "lldi", "lmv"} : Is(c, op, "idle")
  /\ Advance(c)
  /\ UNCHANGED <<prog, phase, signals>>

Finish(c) ==
  /\ pos[c] <= Len(prog[c]) /\ phase[c] = "done"
  /\ phase' = [phase EXCEPT ![c] = "idle"]
  /\ Advance(c)
  /\ UNCHANGED <<prog, signals>>

Next ==
  \/ \E c \in Core : Post(c) \/ HandOver(c) \/ Signal(c) \/ Await(c) \/ Access(c) \/ Finish(c)
  \/ \E a, b \in Core : Agree(a, b)

Spec == Init /\ [][Next]_vars

\* As long as some core can go on, some core does.
FairSpec == Spec /\ WF_vars(Next)
=============================================================================
