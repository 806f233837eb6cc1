----------------------------- MODULE FifoServer -----------------------------
(***************************************************************************)
(* What a memory promises its clients: it serves their requests one at a   *)
(* time, in the order they come, for as long as each takes, and is never   *)
(* idle while one is left.  A client with requests waits until the last of *)
(* them has been served, then works on its own for some time, and goes on  *)
(* at that very moment.                                                    *)
(***************************************************************************)
EXTENDS Integers, SequencesExt

CONSTANTS Client, Server

VARIABLES
  queue,    \* per server: requests to be served, as [client, left], oldest first
  waiting,  \* the clients that wait
  work      \* per client: what it has to do after its requests have been served

vars == <<queue, waiting, work>>

Init ==
  /\ queue = [s \in Server |-> <<>>]
  /\ waiting = {}
  /\ work = [c \in Client |-> 0]

Pending(c) == \E s \in Server : \E i \in DOMAIN queue[s] : queue[s][i].client = c
Due(c) == c \in waiting /\ ~Pending(c) /\ work[c] = 0

\* q with new requests of client c at its end.
Extends(q, longer, c) ==
  /\ IsPrefix(q, longer)
  /\ \A i \in (Len(q) + 1)..Len(longer) : longer[i].client = c /\ longer[i].left > 0

\* Client c, which does not wait or is due, makes requests of server s, of any
\* number and length, and has some work of its own to do after them.
Request(c, s) ==
  /\ c \in waiting => Due(c)
  /\ Extends(queue[s], queue'[s], c)
  /\ queue' = [queue EXCEPT ![s] = queue'[s]]
  /\ waiting' = waiting \cup {c}
  /\ work'[c] \in Nat
  /\ work' = [work EXCEPT ![c] = work'[c]]

\* Client c goes on and makes no requests.
Resume(c) ==
  /\ Due(c)
  /\ waiting' = waiting \ {c}
  /\ UNCHANGED <<queue, work>>

Serve(q) ==
  IF q = <<>> THEN q
  ELSE IF q[1].left = 1 THEN Tail(q)
  ELSE [q EXCEPT ![1].left = @ - 1]

\* A tick passes when nobody is due.
Tick ==
  /\ \A c \in Client : ~Due(c)
  /\ queue' = [s \in Server |-> Serve(queue[s])]
  /\ work' = [c \in Client |->
                IF c \in waiting /\ ~Pending(c) THEN work[c] - 1 ELSE work[c]]
  /\ UNCHANGED waiting

Next ==
  \/ Tick
  \/ \E c \in Client : Resume(c) \/ \E s \in Server : Request(c, s)

Spec == Init /\ [][Next]_vars
=============================================================================
