----------------------------- MODULE MCTransfer -----------------------------
(* Small instances of the transfer units for TLC. *)
EXTENDS TransferRefinement, TLC

CONSTANTS c1, c2, c3

Symmetry == Permutations(Core)

Data(op, peer) == [op |-> op, core |-> peer, ev |-> 0, val |-> 0]
Signal(peer)   == [op |-> "sync", core |-> peer, ev |-> 0, val |-> 0]
Await(n)       == [op |-> "wait", core |-> None, ev |-> 0, val |-> n]
Memory(op)     == [op |-> op, core |-> None, ev |-> 0, val |-> 0]

UpTo(S, n) == UNION {[1..k -> S] : k \in 0..n}

DataInstrs(c) == {Data(op, p) : op \in {"send", "recv"}, p \in Core \ {c}}

Assign(p1, p2, p3) == (c1 :> p1) @@ (c2 :> p2) @@ (c3 :> p3)

\* All programs that give each core up to two instructions of its repertoire,
\* and no more than n in all.
AllPrograms(Repertoire(_), n) ==
  LET Upto2(c) == UpTo(Repertoire(c), 2)
      P1 == Upto2(c1)  P2 == Upto2(c2)  P3 == Upto2(c3)
  IN UNION {UNION {{Assign(p1, p2, p3) :
                      p3 \in {p \in P3 : Len(p1) + Len(p2) + Len(p) <= n}} : p2 \in P2} : p1 \in P1}

\* Every choice of programs of up to two sends and recvs, four in all.
AllDataPrograms == AllPrograms(DataInstrs, 4)

\* Every choice of programs of up to two instructions that also signal, three in
\* all, in which no register has two sources.
SignalInstrs(c) == {Signal(p) : p \in Core \ {c}} \cup {Await(1), Await(2)}
MixedInstrs(c)  == DataInstrs(c) \cup {Signal(p) : p \in Core \ {c}} \cup {Await(1)}
OneSourceEach(p) ==
  \A c \in Core :
    Cardinality({a \in Core : \E i \in DOMAIN p[a] : p[a][i] = Signal(c)}) <= 1
AllSignalPrograms ==
  {p \in AllPrograms(SignalInstrs, 3) \cup AllPrograms(MixedInstrs, 3) : OneSourceEach(p)}

AllDataAndSignalPrograms == AllDataPrograms \cup AllSignalPrograms

\* Two cores signal a register whose core waits for one signal, then for another.
TwoSources == {Assign(<<Await(1), Await(1)>>, <<Signal(c1)>>, <<Signal(c1)>>)}

\* Matching programs: a pipeline through the three cores with loads and
\* stores, a gather in which c1 takes what c2 and c3 offer in the other order,
\* and a ping-pong of signals around a transfer.
Matching ==
  {Assign(<<Memory("ld"), Data("send", c2), Memory("lldi")>>,
          <<Data("recv", c1), Memory("lmv"), Data("send", c3)>>,
          <<Data("recv", c2), Memory("st")>>),
   Assign(<<Data("recv", c3), Data("recv", c2), Data("recv", c3)>>,
          <<Data("send", c1)>>,
          <<Data("send", c1), Data("send", c1)>>),
   Assign(<<Signal(c2), Await(1), Data("send", c3)>>,
          <<Await(1), Signal(c1), Memory("st")>>,
          <<Data("recv", c1)>>)}

\* Matching programs to be run over and over: a gather and a ping-pong.
Endless ==
  {Assign(<<Data("recv", c2), Data("recv", c3)>>, <<Data("send", c1)>>, <<Data("send", c1)>>),
   Assign(<<Signal(c2), Await(1)>>, <<Await(1), Signal(c1)>>, <<Memory("ld"), Memory("st")>>)}

MatchingAndEndless == Matching \cup Endless

\* What the theorem PairsInOrder asks of loops.
ASSUME EndlessLoopsMatch == LoopsMatch
=============================================================================
