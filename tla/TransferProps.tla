---------------------------- MODULE TransferProps ----------------------------
(***************************************************************************)
(* What the transfer units promise, stated over the state of TransferUnit. *)
(***************************************************************************)
EXTENDS TransferUnit

UnitPc == {"start", "send_ready", "send_read", "recv_data", "wait_event", "load",
           "store_read", "store", "local"}

\* Every variable has its type.
TypeOK ==
  /\ prog \in [Core -> Seq(Instr)]
  /\ sched \in [Thread -> Event \cup {"runnable", "delayed"}]
  /\ pending_queue \in [Core -> Seq(Message)]
  /\ in_flight \in [Core -> Message \cup {NoMessage}]
  /\ sw_pc \in [Core -> {"empty", "top", "network", "response"}]
  /\ pos \in [Core -> Nat \ {0}]
  /\ u_pc \in [Core -> UnitPc]
  /\ send_receiver_core_id \in [Core -> Core \cup {None}]
  /\ recv_sender_core_id \in [Core -> Core \cup {None}]
  /\ send_inst_tag \in [Core -> Nat]
  /\ recv_waiting_sender_map \in [Core -> [Core -> Nat]]
  /\ event_register \in [Core -> [EventRegister -> Nat]]
  /\ wait_ev_addr \in [Core -> EventRegister \cup {None}]
  /\ wait_ev_value \in [Core -> Nat \cup {-1}]
  /\ thrown \in BOOLEAN

-----------------------------------------------------------------------------
(* Messages of core c that no handler has seen yet, oldest first. *)
Outgoing(c) ==
  IF in_flight[c] = NoMessage THEN pending_queue[c]
                              ELSE <<in_flight[c]>> \o pending_queue[c]

Copies(c, m) == Cardinality({i \in DOMAIN Outgoing(c) : Outgoing(c)[i] = m})
InNetwork(c) == {Outgoing(c)[i] : i \in DOMAIN Outgoing(c)}

WaitsFor(c, event) == sched[Unit(c)] = event

\* Core a waits in a send to b; core b waits in a recv from a.
SendBlocked(a, b) == WaitsFor(a, "send_trigger") /\ send_receiver_core_id[a] = b
RecvBlocked(b, a) == WaitsFor(b, "recv_trigger") /\ recv_sender_core_id[b] = a

\* The receive handler never runs into one of its two throw statements
\* ("send tag not match", "send-recv not match"), whatever the programs are.
NoThrow == ~thrown

\* A switch that has been woken takes the front of its queue without looking
\* whether there is one: it must not be woken by anything but a new payload.
FrontIsThere ==
  \A c \in Core : SwitchAt(c, "empty") => pending_queue[c] # <<>>

\* A send that waits for permission has its offer in exactly one place: on its
\* way to the receiver, noted in the receiver's map, or already answered.  An
\* offer that got lost hangs two cores; a doubled one permits a transfer twice.
OfferInOnePlace ==
  \A a \in Core : WaitsFor(a, "send_trigger") =>
    LET b == send_receiver_core_id[a]
        t == send_inst_tag[a]
        noted == IF recv_waiting_sender_map[b][a] = t THEN 1 ELSE 0
    IN Copies(a, DataMessage("sender_ready", a, b, t)) + noted
         + Copies(b, DataMessage("receiver_ready", b, a, t)) = 1

\* No stale offers: a tag in a map belongs to the send its core executes now.
NotedOfferIsCurrent ==
  \A a, b \in Core : recv_waiting_sender_map[b][a] # 0 =>
    /\ SendBlocked(a, b)
    /\ send_inst_tag[a] = recv_waiting_sender_map[b][a]
    /\ ~RecvBlocked(b, a)

\* A permission only travels while both ends still wait for each other.
PermitHasBothEnds ==
  \A b \in Core : \A m \in InNetwork(b) :
    m.kind = "receiver_ready" => RecvBlocked(b, m.dst) /\ SendBlocked(m.dst, b)

\* Data on its way finds its receiver waiting for exactly this sender, so that
\* neither the notification is lost nor the handler takes it for an offer.
DataFindsReceiver ==
  \A a \in Core : \A m \in InNetwork(a) :
    m.kind = "send_data" => RecvBlocked(m.dst, a)

\* Sends and recvs pair up in program order: the data that reaches the n-th
\* recv from a in b's program was sent by the n-th send to b in a's program.
\* (For programs that run once, and for loops that match.)
Earlier(c, op, peer, i) ==
  Cardinality({j \in 1..(i - 1) : prog[c][j].op = op /\ prog[c][j].core = peer})
PairedInOrder ==
  \A a \in Core : \A m \in InNetwork(a) :
    m.kind = "send_data" =>
      Earlier(a, "send", m.dst, m.tag) = Earlier(m.dst, "recv", a, pos[m.dst])

\* Every lap of a looping program has as many sends from a to b as recvs.
Such(p, c, op, peer) == {j \in DOMAIN p[c] : p[c][j].op = op /\ p[c][j].core = peer}
LoopsMatch ==
  \A p \in LoopPrograms : \A a, b \in Core :
    Cardinality(Such(p, a, "send", b)) = Cardinality(Such(p, b, "recv", a))

\* When nothing can happen any more, no message is left, no load or store is
\* unanswered, no wait is satisfied, and no two cores wait for each other in a
\* matching send and recv: only a peer that never comes blocks a core.
Stalled == \A p \in Thread : sched[p] \notin {"runnable", "delayed"}
StallsOnlyForPeers ==
  Stalled /\ ~thrown =>
    \A a \in Core :
      /\ Outgoing(a) = <<>>
      /\ ~WaitsFor(a, "switch_finish_trigger")
      /\ WaitsFor(a, "sync_wait_trigger") =>
           event_register[a][wait_ev_addr[a]] # wait_ev_value[a]
      /\ \A b \in Core : ~(SendBlocked(a, b) /\ RecvBlocked(b, a))

-----------------------------------------------------------------------------
(* sync and wait *)

Signals(a, c, e) == {i \in DOMAIN prog[a] : prog[a][i].op = "sync" /\ prog[a][i].core = c
                                             /\ prog[a][i].ev = e}
OneSource(c, e) == Cardinality({a \in Core : Signals(a, c, e) # {}}) <= 1

\* The wait of core c completes in this step.
WaitCompletes(c) == Current(c).op = "wait" /\ pos'[c] # pos[c]

\* As long as one core signals a register, a wait completes with the register
\* at its value: check and reset are atomic, no signal is swallowed.
OneSourceWaitIsExact ==
  [][\A c \in Core : \A e \in EventRegister :
       HasInstr(c) /\ WaitCompletes(c) /\ Current(c).ev = e /\ OneSource(c, e) =>
         event_register[c][e] = Current(c).val]_vars

\* The same for any number of sources, as the instruction set manual has it:
\* "Check and reset are executed in an atomic way" (doc/isa.pdf, 4.4 (7)).
WaitIsAtomic ==
  [][\A c \in Core : HasInstr(c) /\ WaitCompletes(c) =>
       event_register[c][Current(c).ev] = Current(c).val]_vars

\* No signal is lost or doubled: what core c's register e holds, plus what is
\* on its way, plus what its waits have consumed is what has been signalled.
\* (For programs that run once, and registers with one source.)
Signalled(c, e) ==
  UNION {{a} \X {i \in Signals(a, c, e) :
                   i < pos[a] \/ (i = pos[a] /\ u_pc[a] = "local")} : a \in Core}
OnTheWay(c, e) ==
  UNION {{a} \X {i \in DOMAIN Outgoing(a) :
                   Outgoing(a)[i].kind = "sync" /\ Outgoing(a)[i].dst = c
                     /\ Outgoing(a)[i].ev = e} : a \in Core}
Consumed(c, e) ==
  UNION {{i} \X (1..prog[c][i].val) :
           i \in {j \in DOMAIN prog[c] : /\ j < pos[c]
                                         /\ prog[c][j].op = "wait" /\ prog[c][j].ev = e}}
SignalsConserved ==
  ~Looping => \A c \in Core : \A e \in EventRegister : OneSource(c, e) =>
    event_register[c][e] + Cardinality(OnTheWay(c, e)) + Cardinality(Consumed(c, e))
      = Cardinality(Signalled(c, e))

-----------------------------------------------------------------------------
(* Liveness, under FairSpec *)

\* Programs whose sends, recvs, syncs and waits match run to their end ...
AllFinish == ~Looping => <>(\A c \in Core : ~HasInstr(c))

\* ... and in throughput mode, where they loop, no core ever stops.
Moves(c) == <<pos'[c], u_pc'[c]>> # <<pos[c], u_pc[c]>>
NeverStops == Looping => \A c \in Core : []<><<Moves(c)>>_vars
=============================================================================
