---------------------------- MODULE ProgramOrder ----------------------------
(***************************************************************************)
(* What the pipeline of a core promises its program: instructions are      *)
(* issued in program order, one per clock edge at most; none is issued     *)
(* while it has a RAW or WAR dependence on one that is still executing; at *)
(* most Capacity of them are kept; they complete in any order and leave in *)
(* program order.  The promise is made in terms of the bytes of the local  *)
(* memory the program touches when it is read one instruction at a time.   *)
(***************************************************************************)
EXTENDS Integers, Sequences

CONSTANTS Capacity

VARIABLES
  stream,   \* the program: a sequence of [exec, reads, writes]
  next,     \* index of the first instruction that has not been issued
  window,   \* indices of the instructions in the machine, oldest first
  done      \* those of them that have completed

vars == <<stream, next, window, done>>

Depends(i, j) ==
  \/ stream[i].reads \cap stream[j].writes # {}
  \/ stream[i].writes \cap stream[j].reads # {}

Members(s) == {s[k] : k \in DOMAIN s}

\* s without the completed instructions it starts with.
Retired(s, D) ==
  LET n == CHOOSE k \in 0..Len(s) :
             (\A i \in 1..k : s[i] \in D) /\ (k = Len(s) \/ s[k + 1] \notin D)
  IN SubSeq(s, n + 1, Len(s))

Init ==
  /\ next = 1
  /\ window = <<>>
  /\ done = {}

Issue(i) ==
  /\ i <= Len(stream)
  /\ stream[i].exec
  /\ Len(window) < Capacity
  /\ \A j \in Members(window) \ done : ~Depends(i, j)

\* Instructions without a unit of their own (scalar, setbw) are passed over.
Passes(from, to) == \A i \in from..(to - 1) : ~stream[i].exec

Edge ==
  \E C \in SUBSET (Members(window) \ done) :
    \E issued \in {<<>>, <<next>>} :
      /\ issued # <<>> => Issue(next)
      /\ next' \in next..(Len(stream) + 1)
      /\ Passes(next + Len(issued), next')
      /\ issued # <<>> => next' > next
      /\ window' = Retired(window \o issued, done \cup C)
      /\ done' = (done \cup C) \cap Members(window')
  /\ UNCHANGED stream

Spec == Init /\ [][Edge]_vars
=============================================================================
