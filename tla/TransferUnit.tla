---------------------------- MODULE TransferUnit ----------------------------
(***************************************************************************)
(* The transfer units of all cores, talking to each other through the      *)
(* switches (core/component/TransferUnit.cpp): the rendezvous of send and  *)
(* recv, the event registers of sync and wait, and the accesses to the     *)
(* global and the local memory (ld, st, lldi, lmv).                        *)
(*                                                                         *)
(* A core's transfer instructions reach its unit one at a time and in      *)
(* program order: the dispatcher is in order and the unit has no queue.    *)
(* What the pipeline does between two of them is a delay of the unit in    *)
(* "start_exec".                                                           *)
(***************************************************************************)
EXTENDS Switch

CONSTANTS
  EventRegister,  \* indices of event_register (0..31 in the code)
  Programs,       \* the programs considered: a set of [Core -> Seq(Instr)]
  LoopPrograms    \* those run in throughput mode: a program starts again at its end

Op == {"send", "recv", "sync", "wait", "ld", "st", "lldi", "lmv"}
Instr == [op: Op, core: Core \cup {None}, ev: EventRegister, val: Nat]

ASSUME ProgramAssumption ==
  /\ LoopPrograms \subseteq Programs
  /\ \A p \in Programs :
       /\ p \in [Core -> Seq(Instr)]
       /\ \A c \in Core : \A i \in DOMAIN p[c] :
            p[c][i].op \in {"send", "recv", "sync"} => p[c][i].core \in Core

VARIABLES
  prog,                     \* the programs of this simulation; never changes
  pos,                      \* index of the instruction the unit executes or waits for
  u_pc,                     \* where TransferUnit::process is suspended
  send_receiver_core_id, recv_sender_core_id,
  send_inst_tag,            \* pc of the send in execution
  recv_waiting_sender_map,  \* [c][s]: tag announced by sender s to c; 0 is -1 or absent
  event_register,
  wait_ev_addr, wait_ev_value,
  thrown                    \* an exception has left switchReceiveHandler

processVars == <<pos, u_pc>>
sendVars    == <<send_receiver_core_id, send_inst_tag>>
recvVars    == <<recv_sender_core_id, recv_waiting_sender_map>>
eventVars   == <<event_register, wait_ev_addr, wait_ev_value>>
unitVars    == <<processVars, sendVars, recvVars, eventVars>>
vars        == <<switchVars, unitVars, prog, thrown>>

DataKind == {"sender_ready", "send_data", "receiver_ready"}
Message == [kind: DataKind \cup {"sync", "memory"}, src: Core,
            dst: Core \cup {GlobalMemory}, tag: Nat, ev: EventRegister \cup {None}]

DataMessage(kind, src, dst, tag) ==
  [kind |-> kind, src |-> src, dst |-> dst, tag |-> tag, ev |-> None]

-----------------------------------------------------------------------------
(* The unit's thread *)

Looping == prog \in LoopPrograms

HasInstr(c) == pos[c] <= Len(prog[c])
Current(c)  == prog[c][pos[c]]

\* Mutant: wraps around to index 0.
NextPosToZero(c) == IF pos[c] = Len(prog[c]) /\ Looping THEN 0 ELSE pos[c] + 1

NextPos(c) == IF pos[c] = Len(prog[c]) /\ Looping THEN 1 ELSE pos[c] + 1

\* wait(start_exec): the pipeline brings the next instruction some time later.
AwaitInstr(c, s) ==
  [s EXCEPT ![Unit(c)] = IF NextPos(c) <= Len(prog[c]) THEN "delayed" ELSE "start_exec"]

\* finishExec, and back to the top of the while loop of process().
Finish(c, s) ==
  /\ pos' = [pos EXCEPT ![c] = NextPos(c)]
  /\ u_pc' = [u_pc EXCEPT ![c] = "start"]
  /\ sched' = AwaitInstr(c, s)

\* The thread runs up to its next wait(): the program counter names the wait,
\* and how is "delayed" or the event.
Suspend(c, s, where, how) ==
  /\ u_pc' = [u_pc EXCEPT ![c] = where]
  /\ sched' = [s EXCEPT ![Unit(c)] = how]
  /\ UNCHANGED pos

\* switch_socket.send or .transport of message m by a thread of core c.
Post(c, m) == pending_queue' = Enqueue(pending_queue, c, m)
Notified(c) == Notify(sched, Sw(c), "trigger")

At(c, where) == sched[Unit(c)] = "runnable" /\ u_pc[c] = where
Starts(c, op) == At(c, "start") /\ Current(c).op = op

-----------------------------------------------------------------------------
(* send *)

StartSend(c) ==
  /\ Starts(c, "send")
  /\ send_receiver_core_id' = [send_receiver_core_id EXCEPT ![c] = Current(c).core]
  /\ send_inst_tag' = [send_inst_tag EXCEPT ![c] = pos[c]]
  /\ Post(c, DataMessage("sender_ready", c, Current(c).core, pos[c]))
  /\ Suspend(c, Notified(c), "send_ready", "send_trigger")
  /\ UNCHANGED <<switchLocals, recvVars, eventVars>>

\* The receiver permits the transfer: read the local memory.
SendReads(c) ==
  /\ At(c, "send_ready")
  /\ Suspend(c, sched, "send_read", "delayed")
  /\ UNCHANGED <<pending_queue, switchLocals, sendVars, recvVars, eventVars>>

\* Queue the data and return, without waiting for its delivery.
FinishSend(c) ==
  /\ At(c, "send_read")
  /\ Post(c, DataMessage("send_data", c, Current(c).core, send_inst_tag[c]))
  /\ send_receiver_core_id' = [send_receiver_core_id EXCEPT ![c] = None]
  /\ Finish(c, Notified(c))
  /\ UNCHANGED <<switchLocals, send_inst_tag, recvVars, eventVars>>

-----------------------------------------------------------------------------
(* recv *)

\* Mutant: the note of the sender's offer is not disabled.
StartRecvKeepsNote(c) ==
  LET sender == Current(c).core
      tag    == recv_waiting_sender_map[c][sender]
  IN
  /\ Starts(c, "recv")
  /\ recv_sender_core_id' = [recv_sender_core_id EXCEPT ![c] = sender]
  /\ \/ /\ tag # 0
        /\ Post(c, DataMessage("receiver_ready", c, sender, tag))
        /\ Suspend(c, Notified(c), "recv_data", "recv_trigger")
     \/ /\ tag = 0
        /\ Suspend(c, sched, "recv_data", "recv_trigger")
        /\ UNCHANGED pending_queue
  /\ UNCHANGED <<switchLocals, sendVars, recv_waiting_sender_map, eventVars>>

\* Mutant: an offer that came before the recv is overlooked.
StartRecvForgetful(c) ==
  /\ Starts(c, "recv")
  /\ recv_sender_core_id' = [recv_sender_core_id EXCEPT ![c] = Current(c).core]
  /\ Suspend(c, sched, "recv_data", "recv_trigger")
  /\ UNCHANGED <<pending_queue, recv_waiting_sender_map, switchLocals, sendVars, eventVars>>

\* Mutant: after permitting, the recv does not wait for the data.
StartRecvInAdvance(c) ==
  LET sender == Current(c).core
      tag    == recv_waiting_sender_map[c][sender]
  IN
  /\ Starts(c, "recv")
  /\ recv_sender_core_id' = [recv_sender_core_id EXCEPT ![c] = sender]
  /\ \/ /\ tag # 0
        /\ recv_waiting_sender_map' = [recv_waiting_sender_map EXCEPT ![c][sender] = 0]
        /\ Post(c, DataMessage("receiver_ready", c, sender, tag))
        /\ Suspend(c, Notified(c), "recv_data", "delayed")
     \/ /\ tag = 0
        /\ Suspend(c, sched, "recv_data", "recv_trigger")
        /\ UNCHANGED <<pending_queue, recv_waiting_sender_map>>
  /\ UNCHANGED <<switchLocals, sendVars, eventVars>>

\* If the sender has announced itself already, permit the transfer.
StartRecv(c) ==
  LET sender == Current(c).core
      tag    == recv_waiting_sender_map[c][sender]
  IN
  /\ Starts(c, "recv")
  /\ recv_sender_core_id' = [recv_sender_core_id EXCEPT ![c] = sender]
  /\ \/ /\ tag # 0
        /\ recv_waiting_sender_map' = [recv_waiting_sender_map EXCEPT ![c][sender] = 0]
        /\ Post(c, DataMessage("receiver_ready", c, sender, tag))
        /\ Suspend(c, Notified(c), "recv_data", "recv_trigger")
     \/ /\ tag = 0
        /\ Suspend(c, sched, "recv_data", "recv_trigger")
        /\ UNCHANGED <<pending_queue, recv_waiting_sender_map>>
  /\ UNCHANGED <<switchLocals, sendVars, eventVars>>

\* Mutant: recv_sender_core_id is not reset.
RecvWritesKeepsSender(c) ==
  /\ At(c, "recv_data")
  /\ Suspend(c, sched, "local", "delayed")
  /\ UNCHANGED <<pending_queue, switchLocals, recvVars, sendVars, eventVars>>

\* The data is here: write the local memory.
RecvWrites(c) ==
  /\ At(c, "recv_data")
  /\ recv_sender_core_id' = [recv_sender_core_id EXCEPT ![c] = None]
  /\ Suspend(c, sched, "local", "delayed")
  /\ UNCHANGED <<pending_queue, switchLocals, recv_waiting_sender_map, sendVars, eventVars>>

-----------------------------------------------------------------------------
(* sync and wait *)

StartSync(c) ==
  /\ Starts(c, "sync")
  /\ Post(c, [kind |-> "sync", src |-> c, dst |-> Current(c).core, tag |-> 0,
              ev |-> Current(c).ev])
  /\ Suspend(c, Notified(c), "local", "delayed")    \* wait(period)
  /\ UNCHANGED <<switchLocals, sendVars, recvVars, eventVars>>

\* Mutant: the register is not reset.
ResetEventNot(c, ev) ==
  /\ wait_ev_addr' = [wait_ev_addr EXCEPT ![c] = None]
  /\ wait_ev_value' = [wait_ev_value EXCEPT ![c] = -1]
  /\ Finish(c, sched)
  /\ UNCHANGED event_register

\* The tail of processWaitInst: reset the register and return.
ResetEvent(c, ev) ==
  /\ event_register' = [event_register EXCEPT ![c][ev] = 0]
  /\ wait_ev_addr' = [wait_ev_addr EXCEPT ![c] = None]
  /\ wait_ev_value' = [wait_ev_value EXCEPT ![c] = -1]
  /\ Finish(c, sched)

StartWait(c) ==
  LET ev == Current(c).ev  val == Current(c).val IN
  /\ Starts(c, "wait")
  /\ \/ /\ event_register[c][ev] = val
        /\ ResetEvent(c, ev)
     \/ /\ event_register[c][ev] # val
        /\ wait_ev_addr' = [wait_ev_addr EXCEPT ![c] = ev]
        /\ wait_ev_value' = [wait_ev_value EXCEPT ![c] = val]
        /\ Suspend(c, sched, "wait_event", "sync_wait_trigger")
        /\ UNCHANGED event_register
  /\ UNCHANGED <<pending_queue, switchLocals, sendVars, recvVars>>

FinishWait(c) ==
  /\ At(c, "wait_event")
  /\ ResetEvent(c, wait_ev_addr[c])
  /\ UNCHANGED <<pending_queue, switchLocals, sendVars, recvVars>>

-----------------------------------------------------------------------------
(* ld, st, lldi, lmv *)

MemoryMessage(c) ==
  [kind |-> "memory", src |-> c, dst |-> GlobalMemory, tag |-> 0, ev |-> None]

\* ld reads the global memory through the switch first, st the local memory.
StartMemory(c) ==
  \/ /\ Starts(c, "ld")
     /\ Post(c, MemoryMessage(c))
     /\ Suspend(c, Notified(c), "load", "switch_finish_trigger")
     /\ UNCHANGED <<switchLocals, sendVars, recvVars, eventVars>>
  \/ /\ Starts(c, "st")
     /\ Suspend(c, sched, "store_read", "delayed")
     /\ UNCHANGED <<pending_queue, switchLocals, sendVars, recvVars, eventVars>>
  \/ /\ Starts(c, "lldi") \/ Starts(c, "lmv")
     /\ Suspend(c, sched, "local", "delayed")
     /\ UNCHANGED <<pending_queue, switchLocals, sendVars, recvVars, eventVars>>

LoadWrites(c) ==
  /\ At(c, "load")
  /\ Suspend(c, sched, "local", "delayed")
  /\ UNCHANGED <<pending_queue, switchLocals, sendVars, recvVars, eventVars>>

StoreSends(c) ==
  /\ At(c, "store_read")
  /\ Post(c, MemoryMessage(c))
  /\ Suspend(c, Notified(c), "store", "switch_finish_trigger")
  /\ UNCHANGED <<switchLocals, sendVars, recvVars, eventVars>>

\* The last wait of an instruction (recv, sync, ld, st, lldi, lmv) is over.
FinishLocal(c) ==
  /\ At(c, "local") \/ At(c, "store")
  /\ Finish(c, sched)
  /\ UNCHANGED <<pending_queue, switchLocals, sendVars, recvVars, eventVars>>
-----------------------------------------------------------------------------
(* switchReceiveHandler, run by the switch of core c for the unit of m.dst *)

Arriving(c, kind) ==
  /\ SwitchAt(c, "network")
  /\ in_flight[c].kind = kind

Matches(m) == recv_sender_core_id[m.dst] = m.src

\* Mutant: the answer is queued at the switch of the sender.
PermitSendElsewhere(c) ==
  LET m == in_flight[c] IN
  /\ Arriving(c, "sender_ready")
  /\ Matches(m)
  /\ Post(m.src, DataMessage("receiver_ready", m.dst, m.src, m.tag))
  /\ Delivered(c, Notified(m.dst), "top")
  /\ UNCHANGED <<unitVars, thrown>>

\* Send announced, recv already executing: permit it at once.
PermitSend(c) ==
  LET m == in_flight[c] IN
  /\ Arriving(c, "sender_ready")
  /\ Matches(m)
  /\ Post(m.dst, DataMessage("receiver_ready", m.dst, m.src, m.tag))
  /\ Delivered(c, Notified(m.dst), "top")
  /\ UNCHANGED <<unitVars, thrown>>

\* Mutant: an offer that comes before the recv is dropped.
RecordSenderNot(c) ==
  /\ Arriving(c, "sender_ready") \/ Arriving(c, "send_data")
  /\ ~Matches(in_flight[c])
  /\ Delivered(c, sched, "top")
  /\ UNCHANGED <<pending_queue, unitVars, thrown>>

\* No recv for this sender in execution: note the tag.  The handler does not
\* look at the status here.
RecordSender(c) ==
  LET m == in_flight[c] IN
  /\ Arriving(c, "sender_ready") \/ Arriving(c, "send_data")
  /\ ~Matches(m)
  /\ recv_waiting_sender_map' = [recv_waiting_sender_map EXCEPT ![m.dst][m.src] = m.tag]
  /\ Delivered(c, sched, "top")
  /\ UNCHANGED <<pending_queue, processVars, sendVars, recv_sender_core_id, eventVars, thrown>>

DeliverData(c) ==
  LET m == in_flight[c] IN
  /\ Arriving(c, "send_data")
  /\ Matches(m)
  /\ Delivered(c, Notify(sched, Unit(m.dst), "recv_trigger"), "top")
  /\ UNCHANGED <<pending_queue, unitVars, thrown>>

\* receiver_ready arrives at the sender; anything unexpected is a throw, which
\* ends the simulation.
DeliverPermit(c) ==
  LET m == in_flight[c]
      expected == send_receiver_core_id[m.dst] = m.src /\ send_inst_tag[m.dst] = m.tag
  IN
  /\ Arriving(c, "receiver_ready")
  /\ \/ /\ expected
        /\ Delivered(c, Notify(sched, Unit(m.dst), "send_trigger"), "top")
        /\ UNCHANGED thrown
     \/ /\ ~expected
        /\ thrown' = TRUE
        /\ UNCHANGED <<sched, sw_pc, in_flight>>
  /\ UNCHANGED <<pending_queue, unitVars>>

\* Mutant: the awaited value is compared before the increment.
DeliverSyncLate(c) ==
  LET m == in_flight[c]
      value == event_register[m.dst][m.ev] + 1
      awaited == wait_ev_addr[m.dst] = m.ev /\ wait_ev_value[m.dst] = value - 1
  IN
  /\ Arriving(c, "sync")
  /\ event_register' = [event_register EXCEPT ![m.dst][m.ev] = value]
  /\ Delivered(c, IF awaited THEN Notify(sched, Unit(m.dst), "sync_wait_trigger")
                             ELSE sched, "top")
  /\ UNCHANGED <<pending_queue, processVars, sendVars, recvVars, wait_ev_addr,
                 wait_ev_value, thrown>>

\* Mutant: the awaited value is not compared.
DeliverSyncEarly(c) ==
  LET m == in_flight[c] IN
  /\ Arriving(c, "sync")
  /\ event_register' = [event_register EXCEPT ![m.dst][m.ev] = @ + 1]
  /\ Delivered(c, IF wait_ev_addr[m.dst] = m.ev
                 THEN Notify(sched, Unit(m.dst), "sync_wait_trigger") ELSE sched, "top")
  /\ UNCHANGED <<pending_queue, processVars, sendVars, recvVars, wait_ev_addr,
                 wait_ev_value, thrown>>

DeliverSync(c) ==
  LET m == in_flight[c]
      value == event_register[m.dst][m.ev] + 1
      awaited == wait_ev_addr[m.dst] = m.ev /\ wait_ev_value[m.dst] = value
  IN
  /\ Arriving(c, "sync")
  /\ event_register' = [event_register EXCEPT ![m.dst][m.ev] = value]
  /\ Delivered(c, IF awaited THEN Notify(sched, Unit(m.dst), "sync_wait_trigger")
                             ELSE sched, "top")
  /\ UNCHANGED <<pending_queue, processVars, sendVars, recvVars, wait_ev_addr,
                 wait_ev_value, thrown>>

\* MemoryWrapper::forward: the external memory only adds its latency.
AccessGlobalMemory(c) ==
  /\ Arriving(c, "memory")
  /\ Delivered(c, sched, "response")
  /\ UNCHANGED <<pending_queue, unitVars, thrown>>

-----------------------------------------------------------------------------
Init ==
  /\ prog \in Programs
  /\ SwitchInit
  /\ sched = [p \in Thread |-> IF p[1] = "switch" THEN "runnable"
                               ELSE IF prog[p[2]] = <<>> THEN "start_exec" ELSE "delayed"]
  /\ pos = [c \in Core |-> 1]
  /\ u_pc = [c \in Core |-> "start"]
  /\ send_receiver_core_id = [c \in Core |-> None]
  /\ recv_sender_core_id = [c \in Core |-> None]
  /\ send_inst_tag = [c \in Core |-> 0]
  /\ recv_waiting_sender_map = [c \in Core |-> [s \in Core |-> 0]]
  /\ event_register = [c \in Core |-> [e \in EventRegister |-> 0]]
  /\ wait_ev_addr = [c \in Core |-> None]
  /\ wait_ev_value = [c \in Core |-> -1]
  /\ thrown = FALSE

UnitStep(c) ==
  /\ \/ StartSend(c) \/ SendReads(c) \/ FinishSend(c)
     \/ StartRecv(c) \/ RecvWrites(c)
     \/ StartSync(c) \/ StartWait(c) \/ FinishWait(c)
     \/ StartMemory(c) \/ LoadWrites(c) \/ StoreSends(c) \/ FinishLocal(c)
  /\ UNCHANGED thrown

SwitchStep(c) ==
  \/ PermitSend(c) \/ RecordSender(c) \/ DeliverData(c) \/ DeliverPermit(c)
  \/ DeliverSync(c) \/ AccessGlobalMemory(c)
  \/ /\ SwitchContinue(c) \/ SwitchWakes(c) \/ SwitchResponds(c)
     /\ UNCHANGED <<unitVars, thrown>>

\* A nonempty set of waits expires.
Elapse ==
  /\ Quiet
  /\ \E P \in (SUBSET Delayed) \ {{}} : Release(P)
  /\ UNCHANGED <<unitVars, thrown>>

Next ==
  /\ ~thrown
  /\ Elapse \/ \E c \in Core : UnitStep(c) \/ SwitchStep(c)
  /\ UNCHANGED prog

Spec == Init /\ [][Next]_vars

\* The scheduler runs what is runnable and lets time pass when nothing is.
FairSpec == Spec /\ WF_vars(Next)

\* Every wait is finite: no delayed thread is passed over for ever.  FairSpec
\* already says so of programs that run once; looping ones need it said.
Expires(p) ==
  /\ ~thrown
  /\ Quiet /\ p \in Delayed
  /\ \E P \in SUBSET (Delayed \ {p}) : Release(P \cup {p})
  /\ UNCHANGED <<unitVars, thrown, prog>>
LoopSpec == FairSpec /\ \A p \in Thread : SF_vars(Expires(p))
=============================================================================
