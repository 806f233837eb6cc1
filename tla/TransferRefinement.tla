------------------------- MODULE TransferRefinement -------------------------
(***************************************************************************)
(* The transfer units implement Rendezvous.  The phase of a core follows   *)
(* from where its thread is and from the data on its way to it.            *)
(***************************************************************************)
EXTENDS TransferProps

\* Core a's send has been permitted by b and has not queued its data yet.
SendsTo(a, b) ==
  /\ send_receiver_core_id[a] = b
  /\ u_pc[a] = "send_read" \/ At(a, "send_ready")

DataComing(b) ==
  \/ At(b, "recv_data")
  \/ \E m \in InNetwork(recv_sender_core_id[b]) : m.kind = "send_data" /\ m.dst = b

PhaseOf(c) ==
  CASE u_pc[c] = "send_ready" /\ WaitsFor(c, "send_trigger") -> "posted"
    [] u_pc[c] = "send_read" \/ At(c, "send_ready") -> "agreed"
    [] u_pc[c] = "recv_data" ->
         IF DataComing(c) THEN "done"
         ELSE IF SendsTo(recv_sender_core_id[c], c) THEN "agreed" ELSE "posted"
    [] u_pc[c] = "local" /\ Current(c).op \in {"recv", "sync"} -> "done"
    [] OTHER -> "idle"

Abstract ==
  INSTANCE Rendezvous WITH
    phase   <- [c \in Core |-> PhaseOf(c)],
    signals <- [c \in Core |-> [e \in EventRegister |->
                                  event_register[c][e] + Cardinality(OnTheWay(c, e))]]

\* Every behaviour of the transfer units is one of Rendezvous: an offer meets
\* one matching recv, the data is handed over once, and a wait takes its signals
\* in one step (registers with one source).
ImplementsRendezvous == Abstract!Spec

\* ... and they never stop while Rendezvous could go on.
ImplementsProgress == Abstract!FairSpec
=============================================================================
