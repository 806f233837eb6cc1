------------------------------- MODULE Switch -------------------------------
(***************************************************************************)
(* The part of the SystemC scheduler the cores rely on, and the network    *)
(* switch of each core (network/Switch.cpp, network/SwitchSocket.cpp).     *)
(*                                                                         *)
(* Every core owns two SC_THREADs that matter here: the transfer unit and  *)
(* its switch.  A thread runs without preemption up to its next wait().    *)
(* sched[p] says what thread p is doing:                                   *)
(*   "runnable"  queued in the current evaluation phase,                   *)
(*   "delayed"   in wait(time); even wait(0) ends in a later phase,        *)
(*   an event    in wait(event), until somebody calls notify() on it.      *)
(* An immediate notify() makes the waiting thread runnable in the current  *)
(* phase; a delayed thread is released only once nothing is runnable.  All *)
(* latencies (network, memory, clock) are abstracted to "some later        *)
(* phase".                                                                 *)
(***************************************************************************)
EXTENDS Integers, Sequences, FiniteSets

CONSTANTS
  Core,          \* ids of the cores; each has a transfer unit and a switch
  GlobalMemory,  \* switch id of the external memory
  None           \* "no core": -1 in the code

ASSUME CoreAssumption ==
  /\ IsFiniteSet(Core)
  /\ GlobalMemory \notin Core
  /\ None \notin Core

VARIABLES
  sched,          \* the scheduler's view of each thread
  pending_queue,  \* Switch::pending_queue: payloads to be transported
  in_flight,      \* local variable trans of Switch::processTransport
  sw_pc           \* where processTransport is suspended

switchLocals == <<in_flight, sw_pc>>
switchVars   == <<sched, pending_queue, switchLocals>>

Unit(c) == <<"unit", c>>
Sw(c)   == <<"switch", c>>
Thread  == {"unit", "switch"} \X Core

Event == {"start_exec", "send_trigger", "recv_trigger", "sync_wait_trigger",
          "switch_finish_trigger", "trigger"}

NoMessage == [kind |-> "none"]

-----------------------------------------------------------------------------
(* Scheduler *)

Quiet   == \A p \in Thread : sched[p] # "runnable"
Delayed == {p \in Thread : sched[p] = "delayed"}

\* sc_event::notify(): no effect unless the thread is in wait() on that event.
Notify(s, p, event) ==
  IF s[p] = event THEN [s EXCEPT ![p] = "runnable"] ELSE s

\* The evaluation phase is over: time (or a delta cycle) passes and the waits
\* of some of the delayed threads expire together.
Release(P) ==
  /\ P \subseteq Delayed
  /\ sched' = [p \in Thread |-> IF p \in P THEN "runnable" ELSE sched[p]]
  /\ UNCHANGED <<pending_queue, switchLocals>>

-----------------------------------------------------------------------------
(* The switch.  sw_pc: "empty"    in wait(trigger)                          *)
(*                     "top"      in wait(delay) after a send-mode delivery *)
(*                     "network"  in wait(send_latency)                     *)
(*                     "response" in wait(delay) of transport mode          *)

\* sendHandler / transportHandler: queue the payload; the caller then
\* notifies "trigger".
Enqueue(queue, c, m) == [queue EXCEPT ![c] = Append(@, m)]

\* front() and pop(), then wait(send_latency).
PopFront(c, s) ==
  /\ in_flight' = [in_flight EXCEPT ![c] = Head(pending_queue[c])]
  /\ pending_queue' = [pending_queue EXCEPT ![c] = Tail(@)]
  /\ sw_pc' = [sw_pc EXCEPT ![c] = "network"]
  /\ sched' = [s EXCEPT ![Sw(c)] = "delayed"]

\* The head of the while loop, reached with scheduler state s.
LoopHead(c, s) ==
  \/ /\ pending_queue[c] # <<>>
     /\ PopFront(c, s)
  \/ /\ pending_queue[c] = <<>>
     /\ in_flight' = [in_flight EXCEPT ![c] = NoMessage]
     /\ sw_pc' = [sw_pc EXCEPT ![c] = "empty"]
     /\ sched' = [s EXCEPT ![Sw(c)] = "trigger"]
     /\ UNCHANGED pending_queue

SwitchAt(c, where) ==
  /\ sched[Sw(c)] = "runnable"
  /\ sw_pc[c] = where

\* wait(delay) of a send-mode delivery is over; `continue`.
SwitchContinue(c) ==
  /\ SwitchAt(c, "top")
  /\ LoopHead(c, sched)

\* wait(trigger) has returned: front() without a further test of empty().
SwitchWakes(c) ==
  /\ SwitchAt(c, "empty")
  /\ PopFront(c, sched)

\* Mutant: the transfer unit is not told.
SwitchRespondsSilently(c) ==
  /\ SwitchAt(c, "response")
  /\ LoopHead(c, sched)

\* The response of a transport-mode payload is back: SwitchSocket::
\* transportFinish notifies the transfer unit of this core, and the loop goes on.
SwitchResponds(c) ==
  /\ SwitchAt(c, "response")
  /\ LoopHead(c, Notify(sched, Unit(c), "switch_finish_trigger"))

\* receiveHandler has returned (scheduler state s): send mode waits for its
\* delay and continues, transport mode waits for the response.
Delivered(c, s, where) ==
  /\ sw_pc' = [sw_pc EXCEPT ![c] = where]
  /\ in_flight' = [in_flight EXCEPT ![c] = NoMessage]
  /\ sched' = [s EXCEPT ![Sw(c)] = "delayed"]

\* Both threads of every core are runnable when the simulation starts; the
\* transfer unit then waits for its first instruction.
SwitchInit ==
  /\ pending_queue = [c \in Core |-> <<>>]
  /\ in_flight = [c \in Core |-> NoMessage]
  /\ sw_pc = [c \in Core |-> "top"]
=============================================================================
