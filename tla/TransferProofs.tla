--------------------------- MODULE TransferProofs ---------------------------
(***************************************************************************)
(* The transfer units and their switches keep their types and their        *)
(* handshake never goes wrong, for any cores and any programs, looping or  *)
(* not: no handler throws, no offer is stale, a permission and the data    *)
(* find both ends waiting for each other.                                  *)
(***************************************************************************)
EXTENDS TransferProps, SequenceTheorems, FiniteSetTheorems, TLAPS

SchedState == Event \cup {"runnable", "delayed"}

\* The messages the units post: all but the memory accesses go to a core, and
\* only those of a sync name a register.
Posted == {m \in Message : /\ m.kind # "memory" => m.dst \in Core
                           /\ m.kind = "sync" => m.ev \in EventRegister
                           /\ m.kind \in DataKind => m.ev = None}

QueueTypes ==
  /\ pending_queue \in [Core -> Seq(Posted)]
  /\ in_flight \in [Core -> Posted \cup {NoMessage}]
  /\ sw_pc \in [Core -> {"empty", "top", "network", "response"}]

UnitTypes ==
  /\ prog \in Programs
  /\ pos \in [Core -> Nat \ {0}]
  /\ u_pc \in [Core -> UnitPc]
  /\ send_receiver_core_id \in [Core -> Core \cup {None}]
  /\ recv_sender_core_id \in [Core -> Core \cup {None}]
  /\ send_inst_tag \in [Core -> Nat]
  /\ recv_waiting_sender_map \in [Core -> [Core -> Nat]]
  /\ event_register \in [Core -> [EventRegister -> Nat]]
  /\ wait_ev_addr \in [Core -> EventRegister \cup {None}]
  /\ wait_ev_value \in [Core -> Nat \cup {-1}]
  /\ thrown \in BOOLEAN

\* A switch leaves its wait for a payload only when there is one.
SwitchWaits ==
  \A c \in Core : sw_pc[c] = "empty" =>
    \/ sched[Sw(c)] = "trigger"
    \/ sched[Sw(c)] = "runnable" /\ pending_queue[c] # <<>>

\* A unit that has run out of instructions sleeps for ever; one that runs is
\* executing the instruction its program counter belongs to.
UnitWaits ==
  \A c \in Core :
    /\ ~HasInstr(c) => u_pc[c] = "start" /\ sched[Unit(c)] = "start_exec"
    /\ u_pc[c] \in {"send_ready", "send_read"} => Current(c).op = "send"
    /\ u_pc[c] = "wait_event" => wait_ev_addr[c] \in EventRegister

TypeInv ==
  /\ sched \in [Thread -> SchedState]
  /\ QueueTypes /\ UnitTypes /\ SwitchWaits /\ UnitWaits

-----------------------------------------------------------------------------
(* Threads, notification, instructions *)

LEMMA Threads ==
  \A c, d \in Core :
    /\ Unit(c) \in Thread /\ Sw(c) \in Thread
    /\ Unit(c) # Sw(d)
    /\ Unit(c) = Unit(d) => c = d
    /\ Sw(c) = Sw(d) => c = d
BY DEF Unit, Sw, Thread

LEMMA NotifyEffect ==
  ASSUME NEW s \in [Thread -> SchedState], NEW p \in Thread, NEW event \in Event
  PROVE  /\ Notify(s, p, event) \in [Thread -> SchedState]
         /\ \A q \in Thread : q # p => Notify(s, p, event)[q] = s[q]
         /\ Notify(s, p, event)[p] = IF s[p] = event THEN "runnable" ELSE s[p]
BY DEF Notify, SchedState

LEMMA CurrentType ==
  ASSUME UnitTypes, NEW c \in Core, HasInstr(c)
  PROVE  /\ Current(c) \in Instr
         /\ Current(c).op \in {"send", "recv", "sync"} => Current(c).core \in Core
<1>1. prog[c] \in Seq(Instr) /\ pos[c] \in 1..Len(prog[c])
  BY ProgramAssumption DEF UnitTypes, HasInstr
<1>2. prog[c][pos[c]] \in Instr /\ pos[c] \in DOMAIN prog[c]
  BY <1>1, ElementOfSeq, LenProperties
<1> QED BY <1>2, ProgramAssumption DEF UnitTypes, Current

\* A unit that is at some point of an instruction has one.
LEMMA RunningHasInstr ==
  ASSUME UnitWaits, NEW c \in Core, sched[Unit(c)] = "runnable"
  PROVE  HasInstr(c)
BY DEF UnitWaits

LEMMA NextPosType ==
  ASSUME UnitTypes, NEW c \in Core PROVE NextPos(c) \in Nat \ {0}
BY DEF UnitTypes, NextPos

-----------------------------------------------------------------------------
(* The moves the actions are made of *)

\* Queueing a message and notifying the switch of the same core.
LEMMA PostEffect ==
  ASSUME TypeInv, NEW c \in Core, NEW m \in Posted, Post(c, m)
  PROVE  /\ pending_queue' \in [Core -> Seq(Posted)]
         /\ pending_queue'[c] # <<>>
         /\ \A d \in Core : pending_queue[d] # <<>> => pending_queue'[d] # <<>>
<1>1. pending_queue \in [Core -> Seq(Posted)]
  BY DEF TypeInv, QueueTypes
<1>2. pending_queue' = [pending_queue EXCEPT ![c] = Append(pending_queue[c], m)]
  BY DEF Post, Enqueue
<1>3. /\ Append(pending_queue[c], m) \in Seq(Posted)
      /\ Append(pending_queue[c], m) # <<>>
  BY <1>1, AppendProperties
<1>4. /\ pending_queue'[c] = Append(pending_queue[c], m)
      /\ \A d \in Core : d # c => pending_queue'[d] = pending_queue[d]
  BY <1>1, <1>2
<1> QED BY <1>1, <1>2, <1>3, <1>4

\* What any step of unit c does to the scheduler, apart from suspending unit c:
\* it may wake its switch, after queueing a message there.
Wakes(c, s) ==
  /\ s \in [Thread -> SchedState]
  /\ \A q \in Thread : q # Sw(c) => s[q] = sched[q]
  /\ \/ s[Sw(c)] = sched[Sw(c)]
     \/ s[Sw(c)] = "runnable" /\ pending_queue'[c] # <<>>

LEMMA NotifiedWakes ==
  ASSUME TypeInv, NEW c \in Core, NEW m \in Posted, Post(c, m)
  PROVE  Wakes(c, Notified(c))
<1>1. "trigger" \in Event /\ Sw(c) \in Thread /\ sched \in [Thread -> SchedState]
  BY Threads DEF Event, TypeInv
<1>2. pending_queue'[c] # <<>>
  BY PostEffect
<1> QED BY <1>1, <1>2, NotifyEffect DEF Notified, Wakes

LEMMA SchedWakes ==
  ASSUME TypeInv, NEW c \in Core PROVE Wakes(c, sched)
BY DEF TypeInv, Wakes

\* Unit c suspends itself inside an instruction.
LEMMA SuspendStep ==
  ASSUME TypeInv, NEW c \in Core, HasInstr(c),
         NEW where \in UnitPc, NEW how \in SchedState, NEW s, Wakes(c, s),
         Suspend(c, s, where, how),
         where \in {"send_ready", "send_read"} => Current(c).op = "send",
         where = "wait_event" => wait_ev_addr'[c] \in EventRegister,
         \A d \in Core : d # c => wait_ev_addr'[d] = wait_ev_addr[d],
         \A d \in Core : pending_queue[d] # <<>> => pending_queue'[d] # <<>>,
         UNCHANGED <<sw_pc, prog>>
  PROVE  /\ sched' \in [Thread -> SchedState]
         /\ u_pc' \in [Core -> UnitPc] /\ pos' = pos
         /\ SwitchWaits' /\ UnitWaits'
<1>1. /\ sched' = [s EXCEPT ![Unit(c)] = how]
      /\ u_pc' = [u_pc EXCEPT ![c] = where]
      /\ pos' = pos
  BY DEF Suspend
<1>2. sched' \in [Thread -> SchedState] /\ u_pc' \in [Core -> UnitPc]
  BY <1>1 DEF Wakes, TypeInv, UnitTypes
<1>3. \A d \in Core : d # c => sched'[Unit(d)] = sched[Unit(d)] /\ u_pc'[d] = u_pc[d]
  BY <1>1, Threads DEF Wakes, TypeInv, UnitTypes
<1>4. \A d \in Core : sched'[Sw(d)] = s[Sw(d)]
  BY <1>1, Threads DEF Wakes
<1>5. SwitchWaits'
  <2> SUFFICES ASSUME NEW d \in Core, sw_pc[d] = "empty"
               PROVE  \/ sched'[Sw(d)] = "trigger"
                      \/ sched'[Sw(d)] = "runnable" /\ pending_queue'[d] # <<>>
    BY DEF SwitchWaits
  <2>1. \/ sched[Sw(d)] = "trigger"
        \/ sched[Sw(d)] = "runnable" /\ pending_queue'[d] # <<>>
    BY DEF TypeInv, SwitchWaits
  <2>2. \/ s[Sw(d)] = sched[Sw(d)]
        \/ s[Sw(d)] = "runnable" /\ pending_queue'[d] # <<>>
    BY Threads DEF Wakes
  <2> QED BY <1>4, <2>1, <2>2
<1>6. UnitWaits'
  <2> SUFFICES ASSUME NEW d \in Core
               PROVE  /\ ~HasInstr(d)' => u_pc'[d] = "start" /\ sched'[Unit(d)] = "start_exec"
                      /\ u_pc'[d] \in {"send_ready", "send_read"} => Current(d)'.op = "send"
                      /\ u_pc'[d] = "wait_event" => wait_ev_addr'[d] \in EventRegister
    BY DEF UnitWaits
  <2>1. (HasInstr(d)' <=> HasInstr(d)) /\ Current(d)' = Current(d)
    BY <1>1 DEF HasInstr, Current
  <2>2. CASE d = c
    <3>1. u_pc'[c] = where
      BY <1>1 DEF TypeInv, UnitTypes
    <3> QED BY <2>1, <2>2, <3>1
  <2>3. CASE d # c
    BY <1>3, <2>1, <2>3 DEF TypeInv, UnitWaits
  <2> QED BY <2>2, <2>3
<1> QED BY <1>1, <1>2, <1>5, <1>6

\* Unit c finishes an instruction.
LEMMA FinishStep ==
  ASSUME TypeInv, NEW c \in Core, NEW s, Wakes(c, s), Finish(c, s),
         \A d \in Core : d # c => wait_ev_addr'[d] = wait_ev_addr[d],
         \A d \in Core : pending_queue[d] # <<>> => pending_queue'[d] # <<>>,
         UNCHANGED <<sw_pc, prog>>
  PROVE  /\ sched' \in [Thread -> SchedState]
         /\ u_pc' \in [Core -> UnitPc] /\ pos' \in [Core -> Nat \ {0}]
         /\ SwitchWaits' /\ UnitWaits'
<1> DEFINE how == IF NextPos(c) <= Len(prog[c]) THEN "delayed" ELSE "start_exec"
<1>1. /\ sched' = [s EXCEPT ![Unit(c)] = how]
      /\ u_pc' = [u_pc EXCEPT ![c] = "start"]
      /\ pos' = [pos EXCEPT ![c] = NextPos(c)]
  BY DEF Finish, AwaitInstr
<1>2. /\ sched' \in [Thread -> SchedState] /\ u_pc' \in [Core -> UnitPc]
      /\ pos' \in [Core -> Nat \ {0}]
  BY <1>1, NextPosType DEF Wakes, TypeInv, UnitTypes, UnitPc, SchedState, Event
<1>3. \A d \in Core : d # c => /\ sched'[Unit(d)] = sched[Unit(d)]
                              /\ u_pc'[d] = u_pc[d] /\ pos'[d] = pos[d]
  BY <1>1, Threads DEF Wakes, TypeInv, UnitTypes
<1>4. \A d \in Core : sched'[Sw(d)] = s[Sw(d)]
  BY <1>1, Threads DEF Wakes
<1>5. SwitchWaits'
  <2> SUFFICES ASSUME NEW d \in Core, sw_pc[d] = "empty"
               PROVE  \/ sched'[Sw(d)] = "trigger"
                      \/ sched'[Sw(d)] = "runnable" /\ pending_queue'[d] # <<>>
    BY DEF SwitchWaits
  <2>1. \/ sched[Sw(d)] = "trigger"
        \/ sched[Sw(d)] = "runnable" /\ pending_queue'[d] # <<>>
    BY DEF TypeInv, SwitchWaits
  <2>2. \/ s[Sw(d)] = sched[Sw(d)]
        \/ s[Sw(d)] = "runnable" /\ pending_queue'[d] # <<>>
    BY Threads DEF Wakes
  <2> QED BY <1>4, <2>1, <2>2
<1>6. UnitWaits'
  <2> SUFFICES ASSUME NEW d \in Core
               PROVE  /\ ~HasInstr(d)' => u_pc'[d] = "start" /\ sched'[Unit(d)] = "start_exec"
                      /\ u_pc'[d] \in {"send_ready", "send_read"} => Current(d)'.op = "send"
                      /\ u_pc'[d] = "wait_event" => wait_ev_addr'[d] \in EventRegister
    BY DEF UnitWaits
  <2>1. CASE d = c
    <3>1. u_pc'[c] = "start" /\ pos'[c] = NextPos(c) /\ sched'[Unit(c)] = how
      BY <1>1, Threads DEF Wakes, TypeInv, UnitTypes
    <3>2. ~HasInstr(c)' => ~(NextPos(c) <= Len(prog[c]))
      BY <3>1 DEF HasInstr
    <3> QED BY <2>1, <3>1, <3>2
  <2>2. CASE d # c
    <3>1. (HasInstr(d)' <=> HasInstr(d)) /\ Current(d)' = Current(d)
      BY <1>3, <2>2 DEF HasInstr, Current
    <3> QED BY <1>3, <2>2, <3>1 DEF TypeInv, UnitWaits
  <2> QED BY <2>1, <2>2
<1> QED BY <1>2, <1>5, <1>6

-----------------------------------------------------------------------------
(* The moves of a switch *)

\* What a receive handler run by switch c does to the scheduler: it may wake
\* units that wait inside an instruction, and switches it has given a message.
Woken(s) ==
  /\ s \in [Thread -> SchedState]
  /\ \A d \in Core : sched[Unit(d)] = "start_exec" => s[Unit(d)] = "start_exec"
  /\ \A d \in Core : \/ s[Sw(d)] = sched[Sw(d)]
                     \/ s[Sw(d)] = "runnable" /\ pending_queue'[d] # <<>>

\* The switch goes on to its next wait.
LEMMA SwitchMove ==
  ASSUME TypeInv, NEW c \in Core, NEW s, Woken(s),
         NEW how \in SchedState, sched' = [s EXCEPT ![Sw(c)] = how],
         NEW where \in {"empty", "top", "network", "response"},
         sw_pc' = [sw_pc EXCEPT ![c] = where],
         where = "empty" => how = "trigger",
         \A d \in Core : d # c /\ pending_queue[d] # <<>> => pending_queue'[d] # <<>>,
         UNCHANGED <<prog, pos, u_pc, wait_ev_addr>>
  PROVE  /\ sched' \in [Thread -> SchedState]
         /\ sw_pc' \in [Core -> {"empty", "top", "network", "response"}]
         /\ SwitchWaits' /\ UnitWaits'
<1>1. /\ sched' \in [Thread -> SchedState]
      /\ sw_pc' \in [Core -> {"empty", "top", "network", "response"}]
  BY DEF Woken, TypeInv, QueueTypes
<1>2. SwitchWaits'
  <2> SUFFICES ASSUME NEW d \in Core, sw_pc'[d] = "empty"
               PROVE  \/ sched'[Sw(d)] = "trigger"
                      \/ sched'[Sw(d)] = "runnable" /\ pending_queue'[d] # <<>>
    BY DEF SwitchWaits
  <2>1. CASE d = c
    <3>1. sw_pc'[c] = where /\ sched'[Sw(c)] = how
      BY Threads DEF Woken, TypeInv, QueueTypes
    <3> QED BY <2>1, <3>1
  <2>2. CASE d # c
    <3>1. sw_pc'[d] = sw_pc[d] /\ sched'[Sw(d)] = s[Sw(d)]
      BY <2>2, Threads DEF Woken, TypeInv, QueueTypes
    <3>2. \/ sched[Sw(d)] = "trigger"
          \/ sched[Sw(d)] = "runnable" /\ pending_queue'[d] # <<>>
      BY <2>2, <3>1 DEF TypeInv, SwitchWaits
    <3>3. \/ s[Sw(d)] = sched[Sw(d)]
          \/ s[Sw(d)] = "runnable" /\ pending_queue'[d] # <<>>
      BY DEF Woken
    <3> QED BY <3>1, <3>2, <3>3
  <2> QED BY <2>1, <2>2
<1>3. UnitWaits'
  <2> SUFFICES ASSUME NEW d \in Core
               PROVE  /\ ~HasInstr(d)' => u_pc'[d] = "start" /\ sched'[Unit(d)] = "start_exec"
                      /\ u_pc'[d] \in {"send_ready", "send_read"} => Current(d)'.op = "send"
                      /\ u_pc'[d] = "wait_event" => wait_ev_addr'[d] \in EventRegister
    BY DEF UnitWaits
  <2>1. (HasInstr(d)' <=> HasInstr(d)) /\ Current(d)' = Current(d)
    BY DEF HasInstr, Current
  <2>2. sched[Unit(d)] = "start_exec" => sched'[Unit(d)] = "start_exec"
    BY Threads DEF Woken
  <2> QED BY <2>1, <2>2 DEF TypeInv, UnitWaits
<1> QED BY <1>1, <1>2, <1>3

\* Notifying an event that units wait for inside an instruction wakes a unit.
LEMMA UnitWoken ==
  ASSUME TypeInv, NEW d \in Core, NEW event \in Event \ {"start_exec"}
  PROVE  Woken(Notify(sched, Unit(d), event))
<1>1. Unit(d) \in Thread /\ event \in Event /\ sched \in [Thread -> SchedState]
  BY Threads DEF TypeInv
<1> QED BY <1>1, NotifyEffect, Threads DEF Woken

\* Queueing a message at the switch of core d and notifying it.
LEMMA SwitchWoken ==
  ASSUME TypeInv, NEW d \in Core, NEW m \in Posted, Post(d, m)
  PROVE  Woken(Notified(d))
BY NotifiedWakes, Threads DEF Wakes, Woken

LEMMA NobodyWoken ==
  ASSUME TypeInv PROVE Woken(sched)
BY DEF TypeInv, Woken

\* The switch takes the front of its queue.
LEMMA PopFrontStep ==
  ASSUME TypeInv, NEW c \in Core, NEW s, Woken(s), pending_queue[c] # <<>>,
         PopFront(c, s), UNCHANGED <<prog, thrown, unitVars>>
  PROVE  TypeInv'
<1>1. pending_queue \in [Core -> Seq(Posted)] /\ in_flight \in [Core -> Posted \cup {NoMessage}]
  BY DEF TypeInv, QueueTypes
<1>2. Head(pending_queue[c]) \in Posted /\ Tail(pending_queue[c]) \in Seq(Posted)
  BY <1>1, HeadTailProperties
<1>3. pending_queue' \in [Core -> Seq(Posted)] /\ in_flight' \in [Core -> Posted \cup {NoMessage}]
  BY <1>1, <1>2 DEF PopFront
<1>4. \A d \in Core : d # c /\ pending_queue[d] # <<>> => pending_queue'[d] # <<>>
  BY <1>1 DEF PopFront
<1>5. /\ sched' \in [Thread -> SchedState]
      /\ sw_pc' \in [Core -> {"empty", "top", "network", "response"}]
      /\ SwitchWaits' /\ UnitWaits'
  <2>1. /\ sched' = [s EXCEPT ![Sw(c)] = "delayed"] /\ "delayed" \in SchedState
        /\ sw_pc' = [sw_pc EXCEPT ![c] = "network"]
        /\ UNCHANGED <<prog, pos, u_pc, wait_ev_addr>>
    BY DEF PopFront, SchedState, unitVars, processVars, eventVars
  <2> QED BY <1>4, <2>1, SwitchMove
<1>6. UnitTypes'
  BY DEF TypeInv, UnitTypes, unitVars, processVars, sendVars, recvVars, eventVars
<1> QED BY <1>3, <1>5, <1>6 DEF TypeInv, QueueTypes

LEMMA LoopHeadStep ==
  ASSUME TypeInv, NEW c \in Core, NEW s, s \in [Thread -> SchedState],
         \A d \in Core : sched[Unit(d)] = "start_exec" => s[Unit(d)] = "start_exec",
         \A d \in Core : s[Sw(d)] = sched[Sw(d)],
         LoopHead(c, s), UNCHANGED <<prog, thrown, unitVars>>
  PROVE  TypeInv'
<1>1. Woken(s)
  BY DEF Woken
<1>2. CASE pending_queue[c] # <<>> /\ PopFront(c, s)
  BY <1>1, <1>2, PopFrontStep
<1>3. CASE /\ in_flight' = [in_flight EXCEPT ![c] = NoMessage]
           /\ sw_pc' = [sw_pc EXCEPT ![c] = "empty"]
           /\ sched' = [s EXCEPT ![Sw(c)] = "trigger"]
           /\ UNCHANGED pending_queue
  <2>1. /\ pending_queue' \in [Core -> Seq(Posted)]
        /\ in_flight' \in [Core -> Posted \cup {NoMessage}]
    BY <1>3 DEF TypeInv, QueueTypes
  <2>2. /\ sched' \in [Thread -> SchedState]
        /\ sw_pc' \in [Core -> {"empty", "top", "network", "response"}]
        /\ SwitchWaits' /\ UnitWaits'
    <3>1. "trigger" \in SchedState /\ UNCHANGED <<prog, pos, u_pc, wait_ev_addr>>
      BY DEF SchedState, Event, unitVars, processVars, eventVars
    <3> QED BY <1>1, <1>3, <3>1, SwitchMove
  <2>3. UnitTypes'
    BY DEF TypeInv, UnitTypes, unitVars, processVars, sendVars, recvVars, eventVars
  <2> QED BY <2>1, <2>2, <2>3 DEF TypeInv, QueueTypes
<1> QED BY <1>2, <1>3 DEF LoopHead

\* A receive handler returns: what it must have respected.
LEMMA DeliveredStep ==
  ASSUME TypeInv, NEW c \in Core, NEW s, Woken(s), NEW where \in {"top", "response"},
         Delivered(c, s, where),
         pending_queue' \in [Core -> Seq(Posted)],
         \A d \in Core : pending_queue[d] # <<>> => pending_queue'[d] # <<>>,
         UNCHANGED <<prog, pos, u_pc, wait_ev_addr>>,
         UnitTypes'
  PROVE  TypeInv'
<1>1. in_flight' \in [Core -> Posted \cup {NoMessage}]
  BY DEF Delivered, TypeInv, QueueTypes
<1>2. /\ sched' \in [Thread -> SchedState]
      /\ sw_pc' \in [Core -> {"empty", "top", "network", "response"}]
      /\ SwitchWaits' /\ UnitWaits'
  <2>1. "delayed" \in SchedState /\ where # "empty"
        /\ where \in {"empty", "top", "network", "response"}
        /\ sched' = [s EXCEPT ![Sw(c)] = "delayed"]
        /\ sw_pc' = [sw_pc EXCEPT ![c] = where]
    BY DEF SchedState, Delivered
  <2> QED BY <2>1, SwitchMove
<1> QED BY <1>1, <1>2 DEF TypeInv, QueueTypes

\* What a switch is about to deliver is a message some unit has posted.
LEMMA ArrivingType ==
  ASSUME TypeInv, NEW c \in Core, NEW kind \in DataKind \cup {"sync", "memory"},
         Arriving(c, kind)
  PROVE  /\ in_flight[c] \in Posted /\ in_flight[c].src \in Core
         /\ kind # "memory" => in_flight[c].dst \in Core
         /\ kind = "sync" => in_flight[c].ev \in EventRegister
         /\ in_flight[c].tag \in Nat
<1>1. in_flight[c] # NoMessage
  BY DEF Arriving, NoMessage, DataKind
<1>2. in_flight[c] \in Posted
  BY <1>1 DEF TypeInv, QueueTypes
<1> QED BY <1>2 DEF Arriving, Posted, Message

LEMMA PostedData ==
  ASSUME NEW kind \in DataKind, NEW a \in Core, NEW b \in Core, NEW t \in Nat
  PROVE  DataMessage(kind, a, b, t) \in Posted
BY DEF DataMessage, Posted, Message, DataKind

-----------------------------------------------------------------------------
(* The units: one lemma per kind of step, one step per action *)

\* A unit suspends itself or finishes; what remains to be shown is the type of
\* the variables the action itself assigns.
LEMMA UnitSuspends ==
  ASSUME TypeInv, NEW c \in Core, HasInstr(c),
         NEW where \in UnitPc, NEW how \in SchedState, NEW s, Wakes(c, s),
         Suspend(c, s, where, how),
         where \in {"send_ready", "send_read"} => Current(c).op = "send",
         where = "wait_event" => wait_ev_addr'[c] \in EventRegister,
         \A d \in Core : d # c => wait_ev_addr'[d] = wait_ev_addr[d],
         pending_queue' \in [Core -> Seq(Posted)],
         \A d \in Core : pending_queue[d] # <<>> => pending_queue'[d] # <<>>,
         UNCHANGED <<switchLocals, prog, thrown>>,
         (pos' = pos /\ u_pc' \in [Core -> UnitPc]) => UnitTypes'
  PROVE  TypeInv'
<1>1. UNCHANGED <<sw_pc, in_flight>>
  BY DEF switchLocals
<1>2. /\ sched' \in [Thread -> SchedState]
      /\ u_pc' \in [Core -> UnitPc] /\ pos' = pos
      /\ SwitchWaits' /\ UnitWaits'
  BY <1>1, SuspendStep
<1> QED BY <1>1, <1>2 DEF TypeInv, QueueTypes

LEMMA UnitFinishes ==
  ASSUME TypeInv, NEW c \in Core, NEW s, Wakes(c, s), Finish(c, s),
         \A d \in Core : d # c => wait_ev_addr'[d] = wait_ev_addr[d],
         pending_queue' \in [Core -> Seq(Posted)],
         \A d \in Core : pending_queue[d] # <<>> => pending_queue'[d] # <<>>,
         UNCHANGED <<switchLocals, prog, thrown>>,
         (pos' \in [Core -> Nat \ {0}] /\ u_pc' \in [Core -> UnitPc]) => UnitTypes'
  PROVE  TypeInv'
<1>1. UNCHANGED <<sw_pc, in_flight>>
  BY DEF switchLocals
<1>2. /\ sched' \in [Thread -> SchedState]
      /\ u_pc' \in [Core -> UnitPc] /\ pos' \in [Core -> Nat \ {0}]
      /\ SwitchWaits' /\ UnitWaits'
  BY <1>1, FinishStep
<1> QED BY <1>1, <1>2 DEF TypeInv, QueueTypes

\* Steps that post nothing and change nothing but the thread's own state.
LEMMA PlainSuspension ==
  ASSUME TypeInv, NEW c \in Core, HasInstr(c),
         NEW where \in UnitPc \ {"send_ready", "wait_event"}, NEW how \in SchedState,
         where = "send_read" => Current(c).op = "send",
         Suspend(c, sched, where, how),
         UNCHANGED <<pending_queue, switchLocals, sendVars, recvVars, eventVars, prog, thrown>>
  PROVE  TypeInv'
<1>1. Wakes(c, sched) /\ pending_queue' \in [Core -> Seq(Posted)]
  BY SchedWakes DEF TypeInv, QueueTypes
<1>2. (pos' = pos /\ u_pc' \in [Core -> UnitPc]) => UnitTypes'
  BY DEF TypeInv, UnitTypes, sendVars, recvVars, eventVars
<1> QED BY <1>1, <1>2, UnitSuspends DEF eventVars

\* Steps that post a message and change nothing else but the thread's state.
LEMMA PostingSuspension ==
  ASSUME TypeInv, NEW c \in Core, HasInstr(c), NEW m \in Posted, Post(c, m),
         NEW where \in UnitPc \ {"send_ready", "send_read", "wait_event"},
         NEW how \in SchedState, Suspend(c, Notified(c), where, how),
         UNCHANGED <<switchLocals, sendVars, recvVars, eventVars, prog, thrown>>
  PROVE  TypeInv'
<1>1. /\ Wakes(c, Notified(c)) /\ pending_queue' \in [Core -> Seq(Posted)]
      /\ \A d \in Core : pending_queue[d] # <<>> => pending_queue'[d] # <<>>
  BY NotifiedWakes, PostEffect
<1>2. (pos' = pos /\ u_pc' \in [Core -> UnitPc]) => UnitTypes'
  BY DEF TypeInv, UnitTypes, sendVars, recvVars, eventVars
<1> QED BY <1>1, <1>2, UnitSuspends DEF eventVars

LEMMA SendSteps ==
  ASSUME TypeInv, NEW c \in Core, UNCHANGED <<prog, thrown>>,
         StartSend(c) \/ SendReads(c) \/ FinishSend(c)
  PROVE  TypeInv'
<1>0. /\ HasInstr(c) /\ Current(c) \in Instr
      /\ Current(c).op = "send" => Current(c).core \in Core
  BY RunningHasInstr, CurrentType DEF StartSend, SendReads, FinishSend, Starts, At, TypeInv
<1>1. CASE StartSend(c)
  <2> DEFINE m == DataMessage("sender_ready", c, Current(c).core, pos[c])
  <2>1. Current(c).op = "send" /\ Current(c).core \in Core /\ pos[c] \in Nat
    BY <1>0, <1>1 DEF StartSend, Starts, TypeInv, UnitTypes
  <2>2. m \in Posted
    BY <2>1, PostedData DEF DataKind
  <2>3. Post(c, m) /\ Suspend(c, Notified(c), "send_ready", "send_trigger")
    BY <1>1 DEF StartSend
  <2>4. (pos' = pos /\ u_pc' \in [Core -> UnitPc]) => UnitTypes'
    BY <1>1, <2>1 DEF StartSend, TypeInv, UnitTypes, recvVars, eventVars
  <2>5. /\ UNCHANGED <<switchLocals, wait_ev_addr>>
        /\ "send_ready" \in UnitPc /\ "send_trigger" \in SchedState
    BY <1>1 DEF StartSend, eventVars, UnitPc, SchedState, Event
  <2>6. /\ Wakes(c, Notified(c)) /\ pending_queue' \in [Core -> Seq(Posted)]
        /\ \A d \in Core : pending_queue[d] # <<>> => pending_queue'[d] # <<>>
    BY <2>2, <2>3, NotifiedWakes, PostEffect
  <2> HIDE DEF m
  <2> QED BY <1>0, <2>1, <2>3, <2>4, <2>5, <2>6, UnitSuspends
<1>2. CASE SendReads(c)
  <2>1. u_pc[c] = "send_ready" /\ Suspend(c, sched, "send_read", "delayed")
        /\ UNCHANGED <<pending_queue, switchLocals, sendVars, recvVars, eventVars>>
    BY <1>2 DEF SendReads, At
  <2>2. Current(c).op = "send"
    BY <2>1 DEF TypeInv, UnitWaits
  <2>3. "send_read" \in UnitPc \ {"send_ready", "wait_event"} /\ "delayed" \in SchedState
    BY DEF UnitPc, SchedState
  <2> QED BY <1>0, <2>1, <2>2, <2>3, PlainSuspension
<1>3. CASE FinishSend(c)
  <2> DEFINE m == DataMessage("send_data", c, Current(c).core, send_inst_tag[c])
  <2>1. Current(c).op = "send"
    BY <1>3 DEF FinishSend, At, TypeInv, UnitWaits
  <2>2. m \in Posted
    BY <1>0, <2>1, PostedData DEF DataKind, TypeInv, UnitTypes
  <2>3. Post(c, m) /\ Finish(c, Notified(c)) /\ UNCHANGED <<switchLocals, wait_ev_addr>>
    BY <1>3 DEF FinishSend, eventVars
  <2>4. (pos' \in [Core -> Nat \ {0}] /\ u_pc' \in [Core -> UnitPc]) => UnitTypes'
    BY <1>3 DEF FinishSend, TypeInv, UnitTypes, recvVars, eventVars
  <2>5. /\ Wakes(c, Notified(c)) /\ pending_queue' \in [Core -> Seq(Posted)]
        /\ \A d \in Core : pending_queue[d] # <<>> => pending_queue'[d] # <<>>
    BY <2>2, <2>3, NotifiedWakes, PostEffect
  <2> HIDE DEF m
  <2> QED BY <2>3, <2>4, <2>5, UnitFinishes
<1> QED BY <1>1, <1>2, <1>3

LEMMA RecvSteps ==
  ASSUME TypeInv, NEW c \in Core, UNCHANGED <<prog, thrown>>,
         StartRecv(c) \/ RecvWrites(c)
  PROVE  TypeInv'
<1>0. /\ HasInstr(c) /\ Current(c) \in Instr
      /\ Current(c).op = "recv" => Current(c).core \in Core
  BY RunningHasInstr, CurrentType DEF StartRecv, RecvWrites, Starts, At, TypeInv
<1>1. CASE StartRecv(c)
  <2> DEFINE sender == Current(c).core
             tag == recv_waiting_sender_map[c][sender]
             m == DataMessage("receiver_ready", c, sender, tag)
  <2>1. sender \in Core /\ tag \in Nat
    BY <1>0, <1>1 DEF StartRecv, Starts, TypeInv, UnitTypes
  <2>2. m \in Posted
    BY <2>1, PostedData DEF DataKind
  <2>3. /\ UNCHANGED <<switchLocals, wait_ev_addr, sendVars, eventVars>>
        /\ recv_sender_core_id' = [recv_sender_core_id EXCEPT ![c] = sender]
        /\ "recv_data" \in UnitPc /\ "recv_trigger" \in SchedState
    BY <1>1 DEF StartRecv, eventVars, UnitPc, SchedState, Event
  <2>4. CASE /\ recv_waiting_sender_map' = [recv_waiting_sender_map EXCEPT ![c][sender] = 0]
             /\ Post(c, m)
             /\ Suspend(c, Notified(c), "recv_data", "recv_trigger")
    <3>1. (pos' = pos /\ u_pc' \in [Core -> UnitPc]) => UnitTypes'
      <4> HIDE DEF sender
      <4> QED BY <2>1, <2>3, <2>4 DEF TypeInv, UnitTypes, sendVars, eventVars
    <3>2. /\ Wakes(c, Notified(c)) /\ pending_queue' \in [Core -> Seq(Posted)]
          /\ \A d \in Core : pending_queue[d] # <<>> => pending_queue'[d] # <<>>
      BY <2>2, <2>4, NotifiedWakes, PostEffect
    <3> HIDE DEF m, tag, sender
    <3> QED BY <1>0, <2>3, <2>4, <3>1, <3>2, UnitSuspends
  <2>5. CASE /\ Suspend(c, sched, "recv_data", "recv_trigger")
             /\ UNCHANGED <<pending_queue, recv_waiting_sender_map>>
    <3>1. (pos' = pos /\ u_pc' \in [Core -> UnitPc]) => UnitTypes'
      <4> HIDE DEF sender
      <4> QED BY <2>1, <2>3, <2>5 DEF TypeInv, UnitTypes, sendVars, eventVars
    <3>2. Wakes(c, sched) /\ pending_queue' \in [Core -> Seq(Posted)]
      BY <2>5, SchedWakes DEF TypeInv, QueueTypes
    <3> HIDE DEF m, tag, sender
    <3> QED BY <1>0, <2>3, <2>5, <3>1, <3>2, UnitSuspends
  <2> QED BY <1>1, <2>4, <2>5 DEF StartRecv
<1>2. CASE RecvWrites(c)
  <2>1. /\ Suspend(c, sched, "local", "delayed")
        /\ UNCHANGED <<pending_queue, switchLocals, wait_ev_addr>>
        /\ "local" \in UnitPc /\ "delayed" \in SchedState
    BY <1>2 DEF RecvWrites, eventVars, UnitPc, SchedState
  <2>2. (pos' = pos /\ u_pc' \in [Core -> UnitPc]) => UnitTypes'
    BY <1>2 DEF RecvWrites, TypeInv, UnitTypes, sendVars, eventVars
  <2>3. Wakes(c, sched) /\ pending_queue' \in [Core -> Seq(Posted)]
    BY <2>1, SchedWakes DEF TypeInv, QueueTypes
  <2> QED BY <1>0, <2>1, <2>2, <2>3, UnitSuspends
<1> QED BY <1>1, <1>2

LEMMA SyncSteps ==
  ASSUME TypeInv, NEW c \in Core, UNCHANGED <<prog, thrown>>,
         StartSync(c) \/ StartWait(c) \/ FinishWait(c)
  PROVE  TypeInv'
<1>0. /\ HasInstr(c) /\ Current(c) \in Instr
      /\ Current(c).op = "sync" => Current(c).core \in Core
  BY RunningHasInstr, CurrentType DEF StartSync, StartWait, FinishWait, Starts, At, TypeInv
<1>1. Current(c).ev \in EventRegister /\ Current(c).val \in Nat
  BY <1>0 DEF Instr
<1>2. ASSUME NEW ev \in EventRegister, ResetEvent(c, ev),
             UNCHANGED <<pending_queue, switchLocals, sendVars, recvVars>>
      PROVE  TypeInv'
  <2>1. Finish(c, sched)
    BY <1>2 DEF ResetEvent
  <2>2. \A d \in Core : d # c => wait_ev_addr'[d] = wait_ev_addr[d]
    BY <1>2 DEF ResetEvent, TypeInv, UnitTypes
  <2>3. (pos' \in [Core -> Nat \ {0}] /\ u_pc' \in [Core -> UnitPc]) => UnitTypes'
    BY <1>2 DEF ResetEvent, TypeInv, UnitTypes, sendVars, recvVars
  <2>4. Wakes(c, sched) /\ pending_queue' \in [Core -> Seq(Posted)]
    BY <1>2, SchedWakes DEF TypeInv, QueueTypes
  <2> QED BY <1>2, <2>1, <2>2, <2>3, <2>4, UnitFinishes
<1>3. CASE StartSync(c)
  <2> DEFINE m == [kind |-> "sync", src |-> c, dst |-> Current(c).core, tag |-> 0,
                   ev |-> Current(c).ev]
  <2>1. m \in Posted
    BY <1>0, <1>1, <1>3 DEF StartSync, Starts, Posted, Message, DataKind
  <2>2. /\ Post(c, m) /\ Suspend(c, Notified(c), "local", "delayed")
        /\ UNCHANGED <<switchLocals, sendVars, recvVars, eventVars>>
    BY <1>3 DEF StartSync
  <2>3. /\ "local" \in UnitPc \ {"send_ready", "send_read", "wait_event"}
        /\ "delayed" \in SchedState
    BY DEF UnitPc, SchedState
  <2> HIDE DEF m
  <2> QED BY <1>0, <2>1, <2>2, <2>3, PostingSuspension
<1>4. CASE StartWait(c)
  <2> DEFINE ev == Current(c).ev
             val == Current(c).val
  <2>1. UNCHANGED <<pending_queue, switchLocals, sendVars, recvVars>>
    BY <1>4 DEF StartWait
  <2>2. CASE ResetEvent(c, ev)
    BY <1>1, <1>2, <2>1, <2>2
  <2>3. CASE /\ wait_ev_addr' = [wait_ev_addr EXCEPT ![c] = ev]
             /\ wait_ev_value' = [wait_ev_value EXCEPT ![c] = val]
             /\ Suspend(c, sched, "wait_event", "sync_wait_trigger")
             /\ UNCHANGED event_register
    <3>1. /\ wait_ev_addr'[c] \in EventRegister
          /\ \A d \in Core : d # c => wait_ev_addr'[d] = wait_ev_addr[d]
      BY <1>1, <2>3 DEF TypeInv, UnitTypes
    <3>2. (pos' = pos /\ u_pc' \in [Core -> UnitPc]) => UnitTypes'
      BY <1>1, <2>1, <2>3 DEF TypeInv, UnitTypes, sendVars, recvVars
    <3>3. /\ Wakes(c, sched) /\ pending_queue' \in [Core -> Seq(Posted)]
          /\ "wait_event" \in UnitPc /\ "sync_wait_trigger" \in SchedState
      BY <2>1, SchedWakes DEF TypeInv, QueueTypes, UnitPc, SchedState, Event
    <3> QED BY <1>0, <2>1, <2>3, <3>1, <3>2, <3>3, UnitSuspends
  <2> QED BY <1>4, <2>2, <2>3 DEF StartWait
<1>5. CASE FinishWait(c)
  <2>1. wait_ev_addr[c] \in EventRegister
    BY <1>5 DEF FinishWait, At, TypeInv, UnitWaits
  <2> QED BY <1>2, <1>5, <2>1 DEF FinishWait
<1> QED BY <1>3, <1>4, <1>5

LEMMA MemorySteps ==
  ASSUME TypeInv, NEW c \in Core, UNCHANGED <<prog, thrown>>,
         StartMemory(c) \/ LoadWrites(c) \/ StoreSends(c) \/ FinishLocal(c)
  PROVE  TypeInv'
<1>0. HasInstr(c)
  BY RunningHasInstr DEF StartMemory, LoadWrites, StoreSends, FinishLocal, Starts, At, TypeInv
<1>1. MemoryMessage(c) \in Posted
  BY DEF MemoryMessage, Posted, Message, DataKind
<1>2. /\ {"load", "store_read", "store", "local"}
           \subseteq UnitPc \ {"send_ready", "send_read", "wait_event"}
      /\ "delayed" \in SchedState /\ "switch_finish_trigger" \in SchedState
  BY DEF UnitPc, SchedState, Event
<1>3. ASSUME NEW where \in {"store_read", "local"}, Suspend(c, sched, where, "delayed"),
             UNCHANGED <<pending_queue, switchLocals, sendVars, recvVars, eventVars>>
      PROVE  TypeInv'
  BY <1>0, <1>2, <1>3, PlainSuspension
<1>4. ASSUME NEW where \in {"load", "store"}, Post(c, MemoryMessage(c)),
             Suspend(c, Notified(c), where, "switch_finish_trigger"),
             UNCHANGED <<switchLocals, sendVars, recvVars, eventVars>>
      PROVE  TypeInv'
  BY <1>0, <1>1, <1>2, <1>4, PostingSuspension
<1>5. CASE StartMemory(c)
  BY <1>3, <1>4, <1>5 DEF StartMemory
<1>6. CASE LoadWrites(c)
  BY <1>3, <1>6 DEF LoadWrites
<1>7. CASE StoreSends(c)
  BY <1>4, <1>7 DEF StoreSends
<1>8. CASE FinishLocal(c)
  <2>1. Finish(c, sched)
        /\ UNCHANGED <<pending_queue, switchLocals, sendVars, recvVars, eventVars>>
    BY <1>8 DEF FinishLocal
  <2>2. (pos' \in [Core -> Nat \ {0}] /\ u_pc' \in [Core -> UnitPc]) => UnitTypes'
    BY <2>1 DEF TypeInv, UnitTypes, sendVars, recvVars, eventVars
  <2>3. Wakes(c, sched) /\ pending_queue' \in [Core -> Seq(Posted)] /\ UNCHANGED wait_ev_addr
    BY <2>1, SchedWakes DEF TypeInv, QueueTypes, eventVars
  <2> QED BY <2>1, <2>2, <2>3, UnitFinishes
<1> QED BY <1>5, <1>6, <1>7, <1>8

-----------------------------------------------------------------------------
(* The receive handlers and the loop of the switch *)

LEMMA HandlerSteps ==
  ASSUME TypeInv, NEW c \in Core, UNCHANGED prog,
         \/ PermitSend(c) \/ RecordSender(c) \/ DeliverData(c) \/ DeliverPermit(c)
         \/ DeliverSync(c) \/ AccessGlobalMemory(c)
  PROVE  TypeInv'
<1> DEFINE m == in_flight[c]
<1>1. ASSUME NEW s, Woken(s), NEW where \in {"top", "response"}, Delivered(c, s, where),
             UNCHANGED <<pending_queue, unitVars, thrown>>
      PROVE  TypeInv'
  <2>1. UnitTypes' /\ pending_queue' \in [Core -> Seq(Posted)]
        /\ UNCHANGED <<prog, pos, u_pc, wait_ev_addr>>
    BY <1>1 DEF TypeInv, UnitTypes, QueueTypes, unitVars, processVars, sendVars, recvVars,
                eventVars
  <2> QED BY <1>1, <2>1, DeliveredStep
<1>2. CASE PermitSend(c)
  <2> DEFINE answer == DataMessage("receiver_ready", m.dst, m.src, m.tag)
  <2>1. /\ m.dst \in Core /\ m.src \in Core /\ m.tag \in Nat
        /\ Post(m.dst, answer) /\ Delivered(c, Notified(m.dst), "top")
    BY <1>2, ArrivingType DEF PermitSend, DataKind
  <2>2. answer \in Posted
    BY <2>1, PostedData DEF DataKind
  <2>3. /\ UnitTypes' /\ UNCHANGED <<prog, pos, u_pc, wait_ev_addr>>
    BY <1>2 DEF PermitSend, TypeInv, UnitTypes, unitVars, processVars, sendVars, recvVars,
                eventVars
  <2> HIDE DEF m, answer
  <2>4. /\ Woken(Notified(m.dst)) /\ pending_queue' \in [Core -> Seq(Posted)]
        /\ \A d \in Core : pending_queue[d] # <<>> => pending_queue'[d] # <<>>
    BY <2>1, <2>2, SwitchWoken, PostEffect
  <2> QED BY <2>1, <2>3, <2>4, DeliveredStep
<1>3. CASE RecordSender(c)
  <2>1. m.dst \in Core /\ m.src \in Core /\ m.tag \in Nat
    BY <1>3, ArrivingType DEF RecordSender, DataKind
  <2>2. /\ recv_waiting_sender_map' = [recv_waiting_sender_map EXCEPT ![m.dst][m.src] = m.tag]
        /\ Delivered(c, sched, "top")
        /\ UNCHANGED <<pending_queue, processVars, sendVars, recv_sender_core_id, eventVars,
                       thrown>>
    BY <1>3 DEF RecordSender
  <2> HIDE DEF m
  <2>3. /\ UnitTypes' /\ pending_queue' \in [Core -> Seq(Posted)]
        /\ UNCHANGED <<prog, pos, u_pc, wait_ev_addr>>
    BY <2>1, <2>2 DEF TypeInv, UnitTypes, QueueTypes, processVars, sendVars, eventVars
  <2> QED BY <2>2, <2>3, NobodyWoken, DeliveredStep
<1>4. CASE DeliverData(c)
  <2>1. m.dst \in Core /\ "recv_trigger" \in Event \ {"start_exec"}
    BY <1>4, ArrivingType DEF DeliverData, DataKind, Event
  <2>2. Woken(Notify(sched, Unit(m.dst), "recv_trigger"))
    BY <2>1, UnitWoken
  <2> QED BY <1>1, <1>4, <2>2 DEF DeliverData
<1>5. CASE DeliverPermit(c)
  <2>1. m.dst \in Core /\ "send_trigger" \in Event \ {"start_exec"}
    BY <1>5, ArrivingType DEF DeliverPermit, DataKind, Event
  <2>2. Woken(Notify(sched, Unit(m.dst), "send_trigger"))
    BY <2>1, UnitWoken
  <2>3. CASE Delivered(c, Notify(sched, Unit(m.dst), "send_trigger"), "top") /\ UNCHANGED thrown
    BY <1>1, <1>5, <2>2, <2>3 DEF DeliverPermit
  <2>4. CASE thrown' = TRUE /\ UNCHANGED <<sched, sw_pc, in_flight>>
    <3>1. UNCHANGED <<pending_queue, unitVars>>
      BY <1>5 DEF DeliverPermit
    <3>2. QueueTypes' /\ SwitchWaits' /\ sched' \in [Thread -> SchedState]
      BY <2>4, <3>1 DEF TypeInv, QueueTypes, SwitchWaits
    <3>3. UnitTypes' /\ UnitWaits'
      BY <2>4, <3>1 DEF TypeInv, UnitTypes, UnitWaits, HasInstr, Current, unitVars,
                        processVars, sendVars, recvVars, eventVars
    <3> QED BY <3>2, <3>3 DEF TypeInv
  <2> QED BY <1>5, <2>3, <2>4 DEF DeliverPermit
<1>6. CASE DeliverSync(c)
  <2> DEFINE value == event_register[m.dst][m.ev] + 1
             awaited == wait_ev_addr[m.dst] = m.ev /\ wait_ev_value[m.dst] = value
             s == IF awaited THEN Notify(sched, Unit(m.dst), "sync_wait_trigger") ELSE sched
  <2>1. m.dst \in Core /\ m.ev \in EventRegister
        /\ "sync_wait_trigger" \in Event \ {"start_exec"}
    BY <1>6, ArrivingType DEF DeliverSync, DataKind, Event
  <2>2. Woken(s)
    BY <2>1, UnitWoken, NobodyWoken
  <2>3. value \in Nat
    BY <2>1 DEF TypeInv, UnitTypes
  <2>4. /\ event_register' = [event_register EXCEPT ![m.dst][m.ev] = value]
        /\ Delivered(c, s, "top")
        /\ UNCHANGED <<pending_queue, processVars, sendVars, recvVars, wait_ev_addr,
                       wait_ev_value, thrown>>
    BY <1>6 DEF DeliverSync
  <2> HIDE DEF m, value, awaited, s
  <2>5. /\ UnitTypes' /\ pending_queue' \in [Core -> Seq(Posted)]
        /\ UNCHANGED <<prog, pos, u_pc, wait_ev_addr>>
    BY <2>1, <2>3, <2>4 DEF TypeInv, UnitTypes, QueueTypes, processVars, sendVars, recvVars
  <2> QED BY <2>2, <2>4, <2>5, DeliveredStep
<1>7. CASE AccessGlobalMemory(c)
  BY <1>1, <1>7, NobodyWoken DEF AccessGlobalMemory
<1> QED BY <1>2, <1>3, <1>4, <1>5, <1>6, <1>7

LEMMA LoopSteps ==
  ASSUME TypeInv, NEW c \in Core, UNCHANGED <<prog, unitVars, thrown>>,
         SwitchContinue(c) \/ SwitchWakes(c) \/ SwitchResponds(c)
  PROVE  TypeInv'
<1>1. CASE SwitchContinue(c)
  BY <1>1, LoopHeadStep DEF SwitchContinue, TypeInv
<1>2. CASE SwitchWakes(c)
  <2>1. pending_queue[c] # <<>> /\ PopFront(c, sched)
    BY <1>2 DEF SwitchWakes, SwitchAt, TypeInv, SwitchWaits
  <2> QED BY <2>1, NobodyWoken, PopFrontStep
<1>3. CASE SwitchResponds(c)
  <2> DEFINE s == Notify(sched, Unit(c), "switch_finish_trigger")
  <2>1. LoopHead(c, s)
    BY <1>3 DEF SwitchResponds
  <2>2. /\ s \in [Thread -> SchedState]
        /\ \A d \in Core : sched[Unit(d)] = "start_exec" => s[Unit(d)] = "start_exec"
        /\ \A d \in Core : s[Sw(d)] = sched[Sw(d)]
    <3>1. /\ Unit(c) \in Thread /\ sched \in [Thread -> SchedState]
          /\ "switch_finish_trigger" \in Event /\ "switch_finish_trigger" # "start_exec"
      BY Threads DEF TypeInv, Event
    <3> QED BY <3>1, NotifyEffect, Threads
  <2> HIDE DEF s
  <2> QED BY <2>1, <2>2, LoopHeadStep
<1> QED BY <1>1, <1>2, <1>3

\* The waits of some delayed threads expire.
LEMMA ElapseStep ==
  ASSUME TypeInv, NEW P \in SUBSET Thread, Release(P), UNCHANGED <<prog, unitVars, thrown>>
  PROVE  TypeInv'
<1>1. /\ \A p \in P : sched[p] = "delayed"
      /\ sched' = [p \in Thread |-> IF p \in P THEN "runnable" ELSE sched[p]]
      /\ UNCHANGED <<pending_queue, in_flight, sw_pc>>
  BY DEF Release, Delayed, switchLocals
<1>2. sched' \in [Thread -> SchedState] /\ QueueTypes'
  BY <1>1 DEF TypeInv, QueueTypes, SchedState
<1>3. UnitTypes'
  BY DEF TypeInv, UnitTypes, unitVars, processVars, sendVars, recvVars, eventVars
<1>4. \A p \in Thread : sched[p] # "delayed" => sched'[p] = sched[p]
  BY <1>1
<1>5. SwitchWaits'
  BY <1>1, <1>4, Threads DEF TypeInv, SwitchWaits
<1>6. UnitWaits'
  <2>1. UNCHANGED <<prog, pos, u_pc, wait_ev_addr>>
    BY DEF unitVars, processVars, eventVars
  <2> QED BY <1>4, <2>1, Threads DEF TypeInv, UnitWaits, HasInstr, Current
<1> QED BY <1>2, <1>3, <1>5, <1>6 DEF TypeInv

-----------------------------------------------------------------------------
(* The invariant *)

LEMMA TypeInit == Init => TypeInv
<1> SUFFICES ASSUME Init PROVE TypeInv
  OBVIOUS
<1>1. prog \in [Core -> Seq(Instr)]
  BY ProgramAssumption DEF Init
<1>2. sched \in [Thread -> SchedState]
  BY DEF Init, SchedState, Event
<1>3. QueueTypes
  BY DEF Init, SwitchInit, QueueTypes
<1>4. UnitTypes
  <2>1. [s \in Core |-> 0] \in [Core -> Nat]
    OBVIOUS
  <2>2. [e \in EventRegister |-> 0] \in [EventRegister -> Nat]
    OBVIOUS
  <2>3. /\ recv_waiting_sender_map \in [Core -> [Core -> Nat]]
        /\ event_register \in [Core -> [EventRegister -> Nat]]
    BY <2>1, <2>2 DEF Init
  <2>4. prog \in Programs /\ thrown \in BOOLEAN
    BY DEF Init
  <2> QED BY <2>3, <2>4 DEF Init, UnitTypes, UnitPc
<1>5. SwitchWaits
  BY DEF Init, SwitchInit, SwitchWaits
<1>6. UnitWaits
  <2> SUFFICES ASSUME NEW c \in Core
               PROVE  /\ ~HasInstr(c) => u_pc[c] = "start" /\ sched[Unit(c)] = "start_exec"
                      /\ u_pc[c] \in {"send_ready", "send_read"} => Current(c).op = "send"
                      /\ u_pc[c] = "wait_event" => wait_ev_addr[c] \in EventRegister
    BY DEF UnitWaits
  <2>1. u_pc[c] = "start" /\ pos[c] = 1 /\ prog[c] \in Seq(Instr)
    BY <1>1 DEF Init
  <2>2. ~HasInstr(c) => prog[c] = <<>>
    BY <2>1, EmptySeq, LenProperties DEF HasInstr
  <2>3. prog[c] = <<>> => sched[Unit(c)] = "start_exec"
    BY DEF Init, Unit, Thread
  <2> QED BY <2>1, <2>2, <2>3
<1> QED BY <1>2, <1>3, <1>4, <1>5, <1>6 DEF TypeInv

LEMMA TypeStep == TypeInv /\ [Next]_vars => TypeInv'
<1> SUFFICES ASSUME TypeInv, [Next]_vars PROVE TypeInv'
  OBVIOUS
<1>1. CASE UNCHANGED vars
  BY <1>1 DEF TypeInv, QueueTypes, UnitTypes, SwitchWaits, UnitWaits, HasInstr, Current,
              vars, switchVars, switchLocals, unitVars, processVars, sendVars, recvVars,
              eventVars
<1>2. ASSUME NEW c \in Core, UnitStep(c), UNCHANGED prog PROVE TypeInv'
  BY <1>2, SendSteps, RecvSteps, SyncSteps, MemorySteps DEF UnitStep
<1>3. ASSUME NEW c \in Core, SwitchStep(c), UNCHANGED prog PROVE TypeInv'
  BY <1>3, HandlerSteps, LoopSteps DEF SwitchStep
<1>4. ASSUME Elapse, UNCHANGED prog PROVE TypeInv'
  <2>1. PICK P \in SUBSET Thread : Release(P)
    BY <1>4 DEF Elapse, Delayed
  <2>2. UNCHANGED <<unitVars, thrown>>
    BY <1>4 DEF Elapse
  <2> QED BY <1>4, <2>1, <2>2, ElapseStep
<1>5. CASE Next
  <2>1. Elapse \/ \E c \in Core : UnitStep(c) \/ SwitchStep(c)
    BY <1>5 DEF Next
  <2>2. UNCHANGED prog
    BY <1>5 DEF Next
  <2> QED BY <1>2, <1>3, <1>4, <2>1, <2>2
<1> QED BY <1>1, <1>5

\* Every variable keeps its type, whatever the cores, the programs and the
\* order in which the scheduler runs them (TransferUnit.cpp, Switch.cpp).
THEOREM TypeCorrect == Spec => []TypeOK
<1>1. TypeInv => TypeOK
  <2> SUFFICES ASSUME TypeInv PROVE TypeOK
    OBVIOUS
  <2>1. Posted \subseteq Message
    BY DEF Posted
  <2>2. pending_queue \in [Core -> Seq(Message)] /\ in_flight \in [Core -> Message \cup {NoMessage}]
    BY <2>1 DEF TypeInv, QueueTypes
  <2>3. prog \in [Core -> Seq(Instr)]
    BY ProgramAssumption DEF TypeInv, UnitTypes
  <2> QED BY <2>2, <2>3 DEF TypeInv, QueueTypes, UnitTypes, SchedState, TypeOK
<1> QED BY <1>1, TypeInit, TypeStep, PTL DEF Spec

\* The switch never takes the front of an empty queue after its wait: the wait
\* is only ever ended by somebody who has queued a payload (Switch.cpp:18-26).
THEOREM SwitchFindsPayload == Spec => []FrontIsThere
<1>1. TypeInv => FrontIsThere
  BY DEF TypeInv, SwitchWaits, FrontIsThere, SwitchAt
<1> QED BY <1>1, TypeInit, TypeStep, PTL DEF Spec

-----------------------------------------------------------------------------
(* The messages of core c are numbered in the order in which its switch      *)
(* delivers them: 0 is the one in transport, the others are queued.          *)

Slots(c)   == 0..Len(pending_queue[c])
Slot(c, i) == IF i = 0 THEN in_flight[c] ELSE pending_queue[c][i]

\* Message i of core c is of this kind, and goes to core d.
Is(c, i, kind)       == Slot(c, i).kind = kind
Sends(c, i, kind, d) == Is(c, i, kind) /\ Slot(c, i).dst = d

-----------------------------------------------------------------------------
(* Where the two ends of a transfer are *)

\* Core a has offered its send to b and waits for permission ...
Offering(a, b) ==
  /\ send_receiver_core_id[a] = b
  /\ u_pc[a] = "send_ready" /\ sched[Unit(a)] = "send_trigger"

\* ... or has been permitted to send to b.
Permitted(a, b) ==
  /\ send_receiver_core_id[a] = b
  /\ u_pc[a] = "send_read" \/ (u_pc[a] = "send_ready" /\ sched[Unit(a)] = "runnable")

\* Core b waits in a recv from a.
Receiving(b, a) ==
  /\ recv_sender_core_id[b] = a
  /\ u_pc[b] = "recv_data" /\ sched[Unit(b)] = "recv_trigger"

-----------------------------------------------------------------------------
(* The invariant *)

\* The wait a unit is suspended in, and whom it sends to or receives from.
EndAt(c) ==
  /\ u_pc[c] = "send_ready" => sched[Unit(c)] \in {"send_trigger", "runnable"}
  /\ u_pc[c] = "recv_data" => sched[Unit(c)] \in {"recv_trigger", "runnable"}
  /\ sched[Unit(c)] = "send_trigger" => u_pc[c] = "send_ready"
  /\ sched[Unit(c)] = "recv_trigger" => u_pc[c] = "recv_data"
  /\ u_pc[c] \in {"send_ready", "send_read"} =>
       send_receiver_core_id[c] = Current(c).core
  /\ u_pc[c] # "recv_data" => recv_sender_core_id[c] = None
Ends == \A c \in Core : EndAt(c)

\* An offer on its way is of the send in execution, the only one, not noted yet.
Offers ==
  \A a, b \in Core : \A i \in Slots(a) : Sends(a, i, "sender_ready", b) =>
    /\ Slot(a, i).src = a /\ Slot(a, i).tag = send_inst_tag[a]
    /\ Offering(a, b) /\ recv_waiting_sender_map[b][a] = 0
    /\ \A j \in Slots(a) : Is(a, j, "sender_ready") => i = j

\* A noted one is of the send in execution, and not being answered.
Notes ==
  \A a, b \in Core : recv_waiting_sender_map[b][a] # 0 =>
    /\ recv_waiting_sender_map[b][a] = send_inst_tag[a]
    /\ Offering(a, b) /\ recv_sender_core_id[b] # a

\* A permission is the only one and finds both ends waiting for each other;
\* the offer it answers is gone, and so is the data of the previous send.
Permits ==
  \A a, b \in Core : \A i \in Slots(b) : Sends(b, i, "receiver_ready", a) =>
    /\ Slot(b, i).src = b /\ Slot(b, i).tag = send_inst_tag[a]
    /\ Offering(a, b) /\ Receiving(b, a)
    /\ \A j \in Slots(b) : Is(b, j, "receiver_ready") => i = j
    /\ \A j \in Slots(a) : ~Is(a, j, "sender_ready") /\ ~Sends(a, j, "send_data", b)

\* Data finds its receiver waiting, and is ahead of the next offer to it.
Deliveries ==
  \A a, b \in Core : \A i \in Slots(a) : Sends(a, i, "send_data", b) =>
    /\ Slot(a, i).src = a /\ Receiving(b, a) /\ ~Permitted(a, b)
    /\ \A j \in Slots(a) : /\ Sends(a, j, "send_data", b) => i = j
                           /\ Sends(a, j, "sender_ready", b) => i < j

Permissions == \A a, b \in Core : Permitted(a, b) => Receiving(b, a)

\* A receiver that has been told of its data runs before the switch that told
\* it goes on: there is nothing else to let time pass.
Receipts ==
  \A a, b \in Core : At(b, "recv_data") /\ recv_sender_core_id[b] = a => sched[Sw(a)] = "delayed"

Meetings == Offers /\ Notes /\ Permits /\ Deliveries /\ Permissions

RendezvousInv == TypeInv /\ Ends /\ Meetings /\ Receipts

-----------------------------------------------------------------------------
(* What a step does to the messages *)

\* No message of the rendezvous is new; off[d] says by how many places those
\* of core d have moved up.
Moved(off) ==
  \A d \in Core : \A i \in Slots(d)' : Slot(d, i)'.kind \in DataKind =>
    i + off[d] \in Slots(d) /\ Slot(d, i)' = Slot(d, i + off[d])

Still == [d \in Core |-> 0]

\* m is new, at the end of the messages of core p.
Added(p, m) ==
  \A d \in Core : \A i \in Slots(d)' : Slot(d, i)'.kind \in DataKind =>
    \/ i \in Slots(d) /\ Slot(d, i)' = Slot(d, i)
    \/ /\ d = p /\ i = Len(pending_queue[p]) + 1 /\ Slot(d, i)' = m
       /\ \A j \in Slots(p) : j < i

LEMMA SlotType ==
  ASSUME TypeInv, NEW c \in Core, NEW i \in Slots(c)
  PROVE  /\ i \in Nat
         /\ Slot(c, i) \in Posted \cup {NoMessage}
         /\ Slot(c, i).kind \in DataKind =>
              /\ Slot(c, i).src \in Core /\ Slot(c, i).dst \in Core /\ Slot(c, i).tag \in Nat
<1>1. pending_queue[c] \in Seq(Posted) /\ in_flight[c] \in Posted \cup {NoMessage}
  BY DEF TypeInv, QueueTypes
<1>2. i \in Nat
  BY <1>1, LenProperties DEF Slots
<1>3. Slot(c, i) \in Posted \cup {NoMessage}
  <2>1. CASE i = 0
    BY <1>1, <2>1 DEF Slot
  <2>2. CASE i # 0
    <3>1. i \in 1..Len(pending_queue[c])
      BY <1>1, <1>2, <2>2, LenProperties DEF Slots
    <3>2. pending_queue[c][i] \in Posted
      BY <1>1, <3>1, ElementOfSeq
    <3> QED BY <2>2, <3>2 DEF Slot
  <2> QED BY <2>1, <2>2
<1>4. Slot(c, i) \in Posted /\ Slot(c, i).kind \in DataKind =>
        /\ Slot(c, i).src \in Core /\ Slot(c, i).dst \in Core /\ Slot(c, i).tag \in Nat
  BY DEF Posted, Message, DataKind
<1>5. NoMessage.kind \notin DataKind
  BY DEF NoMessage, DataKind
<1> QED BY <1>2, <1>3, <1>4, <1>5

\* Nothing is queued; what is in transport may be delivered.
LEMMA NothingPosted ==
  ASSUME TypeInv, UNCHANGED pending_queue,
         \A d \in Core : in_flight'[d] \in {in_flight[d], NoMessage}
  PROVE  Moved(Still)
<1> SUFFICES ASSUME NEW d \in Core, NEW i \in Slots(d)', Slot(d, i)'.kind \in DataKind
             PROVE  i + Still[d] \in Slots(d) /\ Slot(d, i)' = Slot(d, i + Still[d])
  BY DEF Moved
<1>1. i \in Slots(d) /\ i \in Nat
  BY SlotType DEF Slots
<1>2. Slot(d, i)' = Slot(d, i)
  <2>1. NoMessage.kind \notin DataKind
    BY DEF NoMessage, DataKind
  <2> QED BY <2>1 DEF Slot
<1> QED BY <1>1, <1>2 DEF Still

LEMMA MessagePosted ==
  ASSUME TypeInv, NEW p \in Core, NEW m \in Posted, Post(p, m),
         \A d \in Core : in_flight'[d] \in {in_flight[d], NoMessage}
  PROVE  /\ Added(p, m)
         /\ m.kind \notin DataKind => Moved(Still)
<1>1. pending_queue \in [Core -> Seq(Posted)]
  BY DEF TypeInv, QueueTypes
<1>2. pending_queue' = [pending_queue EXCEPT ![p] = Append(pending_queue[p], m)]
  BY DEF Post, Enqueue
<1>3. NoMessage.kind \notin DataKind
  BY DEF NoMessage, DataKind
<1> DEFINE n == Len(pending_queue[p])
<1>4. /\ n \in Nat
      /\ Len(pending_queue'[p]) = n + 1
      /\ \A i \in 1..n : pending_queue'[p][i] = pending_queue[p][i]
      /\ pending_queue'[p][n + 1] = m
      /\ \A d \in Core : d # p => pending_queue'[d] = pending_queue[d]
  <2>1. pending_queue'[p] = Append(pending_queue[p], m)
    BY <1>1, <1>2
  <2> QED BY <1>1, <1>2, <2>1, AppendProperties, LenProperties
<1>5. ASSUME NEW d \in Core, NEW i \in Slots(d)', Slot(d, i)'.kind \in DataKind
      PROVE  \/ i \in Slots(d) /\ Slot(d, i)' = Slot(d, i)
             \/ d = p /\ i = n + 1 /\ Slot(d, i)' = m
  <2>1. CASE d # p
    BY <1>3, <1>4, <1>5, <2>1 DEF Slots, Slot
  <2>2. CASE d = p
    <3>1. i \in 0..(n + 1)
      BY <1>4, <2>2 DEF Slots
    <3>2. CASE i = 0
      BY <1>3, <1>4, <1>5, <2>2, <3>2 DEF Slots, Slot
    <3>3. CASE i \in 1..n
      BY <1>4, <2>2, <3>3 DEF Slots, Slot
    <3>4. CASE i = n + 1
      BY <1>4, <2>2, <3>4 DEF Slots, Slot
    <3> QED BY <1>4, <3>1, <3>2, <3>3, <3>4
  <2> QED BY <2>1, <2>2
<1>6. \A j \in Slots(p) : j \in Nat /\ j < n + 1
  BY <1>4 DEF Slots
<1>7. Added(p, m)
  <2>1. n = Len(pending_queue[p])
    OBVIOUS
  <2> HIDE DEF n
  <2> QED BY <1>5, <1>6, <2>1 DEF Added
<1>8. m.kind \notin DataKind => Moved(Still)
  <2> SUFFICES ASSUME m.kind \notin DataKind,
                      NEW d \in Core, NEW i \in Slots(d)', Slot(d, i)'.kind \in DataKind
               PROVE  i + Still[d] \in Slots(d) /\ Slot(d, i)' = Slot(d, i + Still[d])
    BY DEF Moved
  <2>1. i \in Slots(d) /\ Slot(d, i)' = Slot(d, i)
    BY <1>5
  <2>2. i \in Nat /\ Still[d] = 0
    BY <2>1, SlotType DEF Still
  <2> QED BY <2>1, <2>2
<1> QED BY <1>7, <1>8

\* The switch of core c takes its next message.
LEMMA FrontPopped ==
  ASSUME TypeInv, NEW c \in Core, NEW s, pending_queue[c] # <<>>, PopFront(c, s)
  PROVE  Moved([Still EXCEPT ![c] = 1])
<1>1. pending_queue \in [Core -> Seq(Posted)] /\ in_flight \in [Core -> Posted \cup {NoMessage}]
  BY DEF TypeInv, QueueTypes
<1> DEFINE q == pending_queue[c]
           off == [Still EXCEPT ![c] = 1]
<1>2. /\ pending_queue' = [pending_queue EXCEPT ![c] = Tail(q)]
      /\ in_flight' = [in_flight EXCEPT ![c] = Head(q)]
  BY DEF PopFront
<1>3. /\ Len(q) \in Nat /\ Len(q) > 0
      /\ Head(q) = q[1] /\ Len(Tail(q)) = Len(q) - 1
      /\ \A i \in 1..Len(Tail(q)) : Tail(q)[i] = q[i + 1]
  BY <1>1, HeadTailProperties, EmptySeq, LenProperties
<1>4. off[c] = 1 /\ \A d \in Core : d # c => off[d] = 0
  BY DEF Still
<1> HIDE DEF off
<1> SUFFICES ASSUME NEW d \in Core, NEW i \in Slots(d)', Slot(d, i)'.kind \in DataKind
             PROVE  i + off[d] \in Slots(d) /\ Slot(d, i)' = Slot(d, i + off[d])
  BY DEF Moved, off
<1>5. CASE d # c
  <2>1. i \in Slots(d) /\ Slot(d, i)' = Slot(d, i)
    BY <1>1, <1>2, <1>5 DEF Slots, Slot
  <2>2. i \in Nat
    BY <2>1, SlotType
  <2> QED BY <1>4, <1>5, <2>1, <2>2
<1>6. CASE d = c
  <2>1. /\ pending_queue'[c] = Tail(q) /\ in_flight'[c] = q[1]
    BY <1>1, <1>2, <1>3
  <2>2. i \in 0..(Len(q) - 1)
    BY <1>3, <1>6, <2>1 DEF Slots
  <2>3. i + 1 \in Slots(c) /\ Slot(c, i + 1) = q[i + 1]
    BY <1>3, <2>2 DEF Slots, Slot
  <2>4. Slot(c, i)' = q[i + 1]
    <3>1. CASE i = 0
      BY <2>1, <3>1 DEF Slot
    <3>2. CASE i # 0
      BY <1>3, <2>1, <2>2, <3>2 DEF Slot
    <3> QED BY <3>1, <3>2
  <2> QED BY <1>4, <1>6, <2>3, <2>4
<1> QED BY <1>5, <1>6

-----------------------------------------------------------------------------
(* What a step does to the ends *)

\* Thread d and the instruction it executes are as before.
SameUnit(d) ==
  /\ sched'[Unit(d)] = sched[Unit(d)] /\ u_pc'[d] = u_pc[d]
  /\ prog'[d] = prog[d] /\ pos'[d] = pos[d]

\* Switches that deliver or transport a message go on doing so.
SwitchesStayDelayed ==
  \A d \in Core : sched[Sw(d)] = "delayed" => sched'[Sw(d)] = "delayed"

LEMMA WokenSwitch ==
  ASSUME TypeInv, NEW c \in Core, NEW s \in {sched, Notified(c)}
  PROVE  /\ s \in [Thread -> SchedState]
         /\ \A d \in Core : /\ s[Unit(d)] = sched[Unit(d)]
                            /\ sched[Sw(d)] = "delayed" => s[Sw(d)] = "delayed"
<1>1. sched \in [Thread -> SchedState] /\ Sw(c) \in Thread /\ "trigger" \in Event
  BY Threads DEF TypeInv, Event
<1>2. CASE s = sched
  BY <1>1, <1>2
<1>3. CASE s = Notify(sched, Sw(c), "trigger")
  <2>1. /\ s \in [Thread -> SchedState]
        /\ \A q \in Thread : q # Sw(c) => s[q] = sched[q]
        /\ s[Sw(c)] = IF sched[Sw(c)] = "trigger" THEN "runnable" ELSE sched[Sw(c)]
    BY <1>1, <1>3, NotifyEffect
  <2> QED BY <2>1, Threads
<1> QED BY <1>2, <1>3 DEF Notified

LEMMA UnitMoves ==
  ASSUME TypeInv, NEW c \in Core, NEW s \in {sched, Notified(c)}, NEW where, NEW how,
         u_pc' = [u_pc EXCEPT ![c] = where], sched' = [s EXCEPT ![Unit(c)] = how],
         \A d \in Core : d # c => pos'[d] = pos[d],
         UNCHANGED prog
  PROVE  /\ \A d \in Core : d # c => SameUnit(d)
         /\ sched'[Unit(c)] = how /\ u_pc'[c] = where
         /\ SwitchesStayDelayed
<1>1. /\ s \in [Thread -> SchedState]
      /\ \A d \in Core : /\ s[Unit(d)] = sched[Unit(d)]
                         /\ sched[Sw(d)] = "delayed" => s[Sw(d)] = "delayed"
  BY WokenSwitch
<1>2. u_pc \in [Core -> UnitPc]
  BY DEF TypeInv, UnitTypes
<1>3. \A q \in Thread : q # Unit(c) => sched'[q] = s[q]
  BY <1>1
<1>4. sched'[Unit(c)] = how /\ u_pc'[c] = where
  BY <1>1, <1>2, Threads
<1>5. SwitchesStayDelayed
  BY <1>1, <1>3, Threads DEF SwitchesStayDelayed
<1>6. \A d \in Core : d # c => SameUnit(d)
  BY <1>1, <1>2, <1>3, Threads DEF SameUnit
<1> QED BY <1>4, <1>5, <1>6

LEMMA Suspends ==
  ASSUME TypeInv, NEW c \in Core, NEW s \in {sched, Notified(c)}, UNCHANGED prog,
         NEW where, NEW how, Suspend(c, s, where, how)
  PROVE  /\ \A d \in Core : d # c => SameUnit(d)
         /\ sched'[Unit(c)] = how /\ u_pc'[c] = where /\ Current(c)' = Current(c)
         /\ SwitchesStayDelayed
<1>1. /\ u_pc' = [u_pc EXCEPT ![c] = where] /\ sched' = [s EXCEPT ![Unit(c)] = how]
      /\ UNCHANGED pos
  BY DEF Suspend
<1> QED BY <1>1, UnitMoves DEF Current

LEMMA Finishes ==
  ASSUME TypeInv, NEW c \in Core, NEW s \in {sched, Notified(c)}, UNCHANGED prog,
         Finish(c, s)
  PROVE  /\ \A d \in Core : d # c => SameUnit(d)
         /\ sched'[Unit(c)] \in {"delayed", "start_exec"} /\ u_pc'[c] = "start"
         /\ SwitchesStayDelayed
<1> DEFINE how == IF NextPos(c) <= Len(prog[c]) THEN "delayed" ELSE "start_exec"
<1>1. /\ u_pc' = [u_pc EXCEPT ![c] = "start"] /\ sched' = [s EXCEPT ![Unit(c)] = how]
      /\ pos' = [pos EXCEPT ![c] = NextPos(c)]
  BY DEF Finish, AwaitInstr
<1>2. how \in {"delayed", "start_exec"}
  OBVIOUS
<1> HIDE DEF how
<1>3. \A d \in Core : d # c => pos'[d] = pos[d]
  BY <1>1 DEF TypeInv, UnitTypes
<1> QED BY <1>1, <1>2, <1>3, UnitMoves

LEMMA Delivers ==
  ASSUME TypeInv, NEW c \in Core, NEW s, NEW where, Delivered(c, s, where),
         s \in [Thread -> SchedState],
         \A d \in Core : sched[Sw(d)] = "delayed" => s[Sw(d)] = "delayed"
  PROVE  /\ \A d \in Core : sched'[Unit(d)] = s[Unit(d)]
         /\ sched'[Sw(c)] = "delayed"
         /\ SwitchesStayDelayed
         /\ in_flight' = [in_flight EXCEPT ![c] = NoMessage]
<1>1. /\ sched' = [s EXCEPT ![Sw(c)] = "delayed"]
      /\ in_flight' = [in_flight EXCEPT ![c] = NoMessage]
  BY DEF Delivered
<1> QED BY <1>1, Threads DEF SwitchesStayDelayed

LEMMA WokenUnit ==
  ASSUME TypeInv, NEW d \in Core, NEW event \in Event
  PROVE  LET s == Notify(sched, Unit(d), event) IN
         /\ s \in [Thread -> SchedState]
         /\ s[Unit(d)] = IF sched[Unit(d)] = event THEN "runnable" ELSE sched[Unit(d)]
         /\ \A e \in Core : /\ e # d => s[Unit(e)] = sched[Unit(e)]
                            /\ s[Sw(e)] = sched[Sw(e)]
<1>1. sched \in [Thread -> SchedState] /\ Unit(d) \in Thread
  BY Threads DEF TypeInv
<1> QED BY <1>1, NotifyEffect, Threads

-----------------------------------------------------------------------------
(* Steps that leave every meeting as it is *)

SendKept(a) ==
  \A b \in Core : (Permitted(a, b)' <=> Permitted(a, b)) /\ (Offering(a, b)' <=> Offering(a, b))
RecvKept(b) == \A a \in Core : Receiving(b, a)' <=> Receiving(b, a)

\* Where the messages of a core come from when they move up.
LEMMA MovedFrom ==
  ASSUME TypeInv, NEW off \in [Core -> Nat], Moved(off),
         NEW d \in Core, NEW i \in Slots(d)', Slot(d, i)'.kind \in DataKind
  PROVE  /\ i + off[d] \in Slots(d) /\ Slot(d, i)' = Slot(d, i + off[d])
         /\ i \in Int /\ off[d] \in Nat
         /\ \A kind : Is(d, i, kind)' => Is(d, i + off[d], kind)
         /\ \A kind, e : Sends(d, i, kind, e)' => Sends(d, i + off[d], kind, e)
<1>1. i + off[d] \in Slots(d) /\ Slot(d, i)' = Slot(d, i + off[d])
  BY DEF Moved
<1>2. i \in Int
  BY DEF Slots
<1> QED BY <1>1, <1>2 DEF Is, Sends

LEMMA MeetingsKept ==
  ASSUME TypeInv, Meetings, NEW off \in [Core -> Nat], Moved(off),
         \A d \in Core : SendKept(d) /\ RecvKept(d),
         \A d \in Core : recv_sender_core_id'[d] \in {recv_sender_core_id[d], None},
         UNCHANGED <<recv_waiting_sender_map, send_inst_tag>>
  PROVE  Meetings'
<1>1. Offers'
  <2> SUFFICES ASSUME NEW a \in Core, NEW b \in Core, NEW i \in Slots(a)',
                      Sends(a, i, "sender_ready", b)'
               PROVE  /\ Slot(a, i)'.src = a /\ Slot(a, i)'.tag = send_inst_tag[a]
                      /\ Offering(a, b)' /\ recv_waiting_sender_map[b][a] = 0
                      /\ \A j \in Slots(a)' : Is(a, j, "sender_ready")' => i = j
    BY DEF Offers
  <2>1. /\ i + off[a] \in Slots(a) /\ Slot(a, i)' = Slot(a, i + off[a])
        /\ Sends(a, i + off[a], "sender_ready", b)
        /\ i \in Int /\ off[a] \in Nat
    BY MovedFrom DEF Sends, Is, DataKind
  <2>2. /\ Slot(a, i)'.src = a /\ Slot(a, i)'.tag = send_inst_tag[a]
        /\ Offering(a, b) /\ recv_waiting_sender_map[b][a] = 0
        /\ \A j \in Slots(a) : Is(a, j, "sender_ready") => i + off[a] = j
    BY <2>1 DEF Meetings, Offers
  <2>3. ASSUME NEW j \in Slots(a)', Is(a, j, "sender_ready")' PROVE i = j
    <3>1. j + off[a] \in Slots(a) /\ Is(a, j + off[a], "sender_ready") /\ j \in Int
      BY <2>3, MovedFrom DEF Is, DataKind
    <3> QED BY <2>1, <2>2, <3>1
  <2> QED BY <2>2, <2>3 DEF SendKept
<1>2. Notes'
  BY CoreAssumption DEF Meetings, Notes, SendKept
<1>3. Permits'
  <2> SUFFICES ASSUME NEW a \in Core, NEW b \in Core, NEW i \in Slots(b)',
                      Sends(b, i, "receiver_ready", a)'
               PROVE  /\ Slot(b, i)'.src = b /\ Slot(b, i)'.tag = send_inst_tag[a]
                      /\ Offering(a, b)' /\ Receiving(b, a)'
                      /\ \A j \in Slots(b)' : Is(b, j, "receiver_ready")' => i = j
                      /\ \A j \in Slots(a)' :
                           ~Is(a, j, "sender_ready")' /\ ~Sends(a, j, "send_data", b)'
    BY DEF Permits
  <2>1. /\ i + off[b] \in Slots(b) /\ Slot(b, i)' = Slot(b, i + off[b])
        /\ Sends(b, i + off[b], "receiver_ready", a)
        /\ i \in Int /\ off[b] \in Nat
    BY MovedFrom DEF Sends, Is, DataKind
  <2>2. /\ Slot(b, i)'.src = b /\ Slot(b, i)'.tag = send_inst_tag[a]
        /\ Offering(a, b) /\ Receiving(b, a)
        /\ \A j \in Slots(b) : Is(b, j, "receiver_ready") => i + off[b] = j
        /\ \A j \in Slots(a) : ~Is(a, j, "sender_ready") /\ ~Sends(a, j, "send_data", b)
    BY <2>1 DEF Meetings, Permits
  <2>3. ASSUME NEW j \in Slots(b)', Is(b, j, "receiver_ready")' PROVE i = j
    <3>1. j + off[b] \in Slots(b) /\ Is(b, j + off[b], "receiver_ready") /\ j \in Int
      BY <2>3, MovedFrom DEF Is, DataKind
    <3> QED BY <2>1, <2>2, <3>1
  <2>4. ASSUME NEW j \in Slots(a)', Is(a, j, "sender_ready")' \/ Sends(a, j, "send_data", b)'
        PROVE  FALSE
    <3>1. Slot(a, j)'.kind \in DataKind
      BY <2>4 DEF Is, Sends, DataKind
    <3>2. /\ j + off[a] \in Slots(a)
          /\ Is(a, j + off[a], "sender_ready") \/ Sends(a, j + off[a], "send_data", b)
      BY <2>4, <3>1, MovedFrom
    <3> QED BY <2>2, <3>2
  <2> QED BY <2>2, <2>3, <2>4 DEF SendKept, RecvKept
<1>4. Deliveries'
  <2> SUFFICES ASSUME NEW a \in Core, NEW b \in Core, NEW i \in Slots(a)',
                      Sends(a, i, "send_data", b)'
               PROVE  /\ Slot(a, i)'.src = a /\ Receiving(b, a)' /\ ~Permitted(a, b)'
                      /\ \A j \in Slots(a)' : /\ Sends(a, j, "send_data", b)' => i = j
                                              /\ Sends(a, j, "sender_ready", b)' => i < j
    BY DEF Deliveries
  <2>1. /\ i + off[a] \in Slots(a) /\ Slot(a, i)' = Slot(a, i + off[a])
        /\ Sends(a, i + off[a], "send_data", b)
        /\ i \in Int /\ off[a] \in Nat
    BY MovedFrom DEF Sends, Is, DataKind
  <2>2. /\ Slot(a, i)'.src = a /\ Receiving(b, a) /\ ~Permitted(a, b)
        /\ \A j \in Slots(a) : /\ Sends(a, j, "send_data", b) => i + off[a] = j
                               /\ Sends(a, j, "sender_ready", b) => i + off[a] < j
    BY <2>1 DEF Meetings, Deliveries
  <2>3. ASSUME NEW j \in Slots(a)', Sends(a, j, "send_data", b)' PROVE i = j
    <3>1. j + off[a] \in Slots(a) /\ Sends(a, j + off[a], "send_data", b) /\ j \in Int
      BY <2>3, MovedFrom DEF Sends, Is, DataKind
    <3> QED BY <2>1, <2>2, <3>1
  <2>4. ASSUME NEW j \in Slots(a)', Sends(a, j, "sender_ready", b)' PROVE i < j
    <3>1. j + off[a] \in Slots(a) /\ Sends(a, j + off[a], "sender_ready", b) /\ j \in Int
      BY <2>4, MovedFrom DEF Sends, Is, DataKind
    <3> QED BY <2>1, <2>2, <3>1
  <2> QED BY <2>2, <2>3, <2>4 DEF SendKept, RecvKept
<1>5. Permissions'
  BY DEF Meetings, Permissions, SendKept, RecvKept
<1> QED BY <1>1, <1>2, <1>3, <1>4, <1>5 DEF Meetings

\* Unit d is at the same point of its send or recv, or in neither.
Uninvolved(d) ==
  \/ SameUnit(d)
  \/ /\ u_pc[d] \notin {"send_ready", "recv_data"} /\ u_pc'[d] \notin {"send_ready", "recv_data"}
     /\ sched'[Unit(d)] \notin {"send_trigger", "recv_trigger"}
     /\ u_pc[d] = "send_read" <=> u_pc'[d] = "send_read"
     /\ u_pc[d] = "send_read" => Current(d)' = Current(d)

LEMMA UninvolvedKept ==
  ASSUME NEW d \in Core, Uninvolved(d), EndAt(d),
         send_receiver_core_id'[d] = send_receiver_core_id[d],
         recv_sender_core_id'[d] = recv_sender_core_id[d]
  PROVE  SendKept(d) /\ RecvKept(d) /\ EndAt(d)'
<1>1. CASE SameUnit(d)
  <2>1. SendKept(d) /\ RecvKept(d)
    BY <1>1 DEF SameUnit, SendKept, RecvKept, Permitted, Offering, Receiving
  <2>2. EndAt(d)'
    BY <1>1 DEF SameUnit, EndAt, Current
  <2> QED BY <2>1, <2>2
<1>2. CASE ~SameUnit(d)
  <2>1. SendKept(d) /\ RecvKept(d)
    BY <1>2 DEF Uninvolved, SendKept, RecvKept, Permitted, Offering, Receiving
  <2>2. EndAt(d)'
    BY <1>2 DEF Uninvolved, EndAt
  <2> QED BY <2>1, <2>2
<1> QED BY <1>1, <1>2

LEMMA Bystanders ==
  ASSUME RendezvousInv, TypeInv', NEW off \in [Core -> Nat], Moved(off),
         \A d \in Core : Uninvolved(d), UNCHANGED <<sendVars, recvVars>>,
         SwitchesStayDelayed \/ Quiet
  PROVE  RendezvousInv'
<1>1. UNCHANGED <<send_receiver_core_id, send_inst_tag, recv_sender_core_id,
                  recv_waiting_sender_map>>
  BY DEF sendVars, recvVars
<1>2. \A d \in Core : SendKept(d) /\ RecvKept(d) /\ EndAt(d)'
  BY <1>1, UninvolvedKept DEF RendezvousInv, Ends
<1>3. Meetings'
  BY <1>1, <1>2, MeetingsKept DEF RendezvousInv
<1>4. Receipts'
  <2> SUFFICES ASSUME NEW a \in Core, NEW b \in Core, At(b, "recv_data")',
                      recv_sender_core_id[b] = a
               PROVE  sched'[Sw(a)] = "delayed"
    BY <1>1 DEF Receipts
  <2>1. At(b, "recv_data")
    BY DEF Uninvolved, SameUnit, At
  <2>2. sched[Sw(a)] = "delayed" /\ ~Quiet
    BY <2>1, Threads DEF RendezvousInv, Receipts, Quiet, At
  <2> QED BY <2>2 DEF SwitchesStayDelayed
<1> QED BY <1>2, <1>3, <1>4 DEF RendezvousInv, Ends

LEMMA Offsets == Still \in [Core -> Nat] /\ \A c \in Core : [Still EXCEPT ![c] = 1] \in [Core -> Nat]
BY DEF Still

-----------------------------------------------------------------------------
(* The actions that have no part in a rendezvous *)

LEMMA OtherUnitSteps ==
  ASSUME RendezvousInv, TypeInv', NEW c \in Core, UNCHANGED prog,
         \/ StartSync(c) \/ StartWait(c) \/ FinishWait(c)
         \/ StartMemory(c) \/ LoadWrites(c) \/ StoreSends(c) \/ FinishLocal(c)
  PROVE  RendezvousInv'
<1> DEFINE Aside == UnitPc \ {"send_ready", "send_read", "recv_data"}
           Asleep == SchedState \ {"send_trigger", "recv_trigger"}
<1>0. /\ TypeInv
      /\ {"start", "wait_event", "load", "store_read", "store", "local"} \subseteq Aside
      /\ {"delayed", "sync_wait_trigger", "switch_finish_trigger", "start_exec"} \subseteq Asleep
  BY DEF RendezvousInv, UnitPc, SchedState, Event
<1>1. ASSUME u_pc[c] \in Aside, NEW s \in {sched, Notified(c)},
             \/ \E where \in Aside, how \in Asleep : Suspend(c, s, where, how)
             \/ Finish(c, s),
             UNCHANGED <<sendVars, recvVars>>, Moved(Still)
      PROVE  RendezvousInv'
  <2>1. /\ \A d \in Core : d # c => SameUnit(d)
        /\ u_pc'[c] \in Aside /\ sched'[Unit(c)] \in Asleep
        /\ SwitchesStayDelayed
    <3>1. CASE Finish(c, s)
      BY <1>0, <3>1, Finishes
    <3>2. CASE \E where \in Aside, how \in Asleep : Suspend(c, s, where, how)
      <4>1. PICK where \in Aside, how \in Asleep : Suspend(c, s, where, how)
        BY <3>2
      <4> HIDE DEF Aside, Asleep
      <4> QED BY <1>0, <4>1, Suspends
    <3> QED BY <1>1, <3>1, <3>2
  <2>2. \A d \in Core : Uninvolved(d)
    BY <1>1, <2>1 DEF Uninvolved
  <2> QED BY <1>1, <2>1, <2>2, Offsets, Bystanders
<1> HIDE DEF Aside, Asleep
<1>2. ASSUME UNCHANGED pending_queue, UNCHANGED switchLocals PROVE Moved(Still)
  BY <1>0, <1>2, NothingPosted DEF switchLocals, TypeInv, QueueTypes
<1>3. ASSUME NEW m \in Posted, m.kind \notin DataKind, Post(c, m), UNCHANGED switchLocals
      PROVE  Moved(Still)
  BY <1>0, <1>3, MessagePosted DEF switchLocals
<1>4. ASSUME NEW ev, ResetEvent(c, ev), u_pc[c] \in Aside,
             UNCHANGED <<pending_queue, switchLocals, sendVars, recvVars>>
      PROVE  RendezvousInv'
  BY <1>1, <1>2, <1>4 DEF ResetEvent
<1>5. CASE StartSync(c)
  <2> DEFINE m == [kind |-> "sync", src |-> c, dst |-> Current(c).core, tag |-> 0,
                   ev |-> Current(c).ev]
  <2>1. m \in Posted /\ m.kind \notin DataKind
    <3>1. Current(c) \in Instr /\ Current(c).core \in Core
      BY <1>0, <1>5, RunningHasInstr, CurrentType DEF StartSync, Starts, At, TypeInv
    <3> QED BY <3>1 DEF Posted, Message, DataKind, Instr
  <2>2. /\ Post(c, m) /\ Suspend(c, Notified(c), "local", "delayed")
        /\ UNCHANGED <<switchLocals, sendVars, recvVars>> /\ u_pc[c] = "start"
    BY <1>5 DEF StartSync, Starts, At
  <2> HIDE DEF m
  <2> QED BY <1>0, <1>1, <1>3, <2>1, <2>2
<1>6. CASE StartWait(c)
  <2>1. /\ UNCHANGED <<pending_queue, switchLocals, sendVars, recvVars>> /\ u_pc[c] = "start"
        /\ \/ ResetEvent(c, Current(c).ev)
           \/ Suspend(c, sched, "wait_event", "sync_wait_trigger")
    BY <1>6 DEF StartWait, Starts, At
  <2> QED BY <1>0, <1>1, <1>2, <1>4, <2>1
<1>7. CASE FinishWait(c)
  BY <1>0, <1>4, <1>7 DEF FinishWait, At
<1>8. CASE StartMemory(c) \/ LoadWrites(c) \/ StoreSends(c) \/ FinishLocal(c)
  <2> DEFINE m == MemoryMessage(c)
  <2>1. m \in Posted /\ m.kind \notin DataKind
    BY DEF MemoryMessage, Posted, Message, DataKind
  <2>2. u_pc[c] \in Aside /\ UNCHANGED <<switchLocals, sendVars, recvVars>>
    BY <1>0, <1>8 DEF StartMemory, LoadWrites, StoreSends, FinishLocal, Starts, At
  <2>3. CASE \E where \in {"load", "store"} :
               Post(c, m) /\ Suspend(c, Notified(c), where, "switch_finish_trigger")
    <3> HIDE DEF m
    <3> QED BY <1>0, <1>1, <1>3, <2>1, <2>2, <2>3
  <2>4. CASE /\ UNCHANGED pending_queue
             /\ Finish(c, sched) \/ \E where \in {"local", "store_read"} :
                                      Suspend(c, sched, where, "delayed")
    BY <1>0, <1>1, <1>2, <2>2, <2>4
  <2> QED BY <1>8, <2>3, <2>4 DEF StartMemory, LoadWrites, StoreSends, FinishLocal
<1> QED BY <1>5, <1>6, <1>7, <1>8

\* A step of a switch that leaves the units alone, but for one that waits for
\* something else than its peer.
LEMMA SwitchBystanders ==
  ASSUME RendezvousInv, TypeInv', NEW c \in Core, NEW s, NEW d \in Core, NEW event,
         event \in {"sync_wait_trigger", "switch_finish_trigger"},
         s \in {sched, Notify(sched, Unit(d), event)},
         sched[Sw(c)] = "runnable",
         NEW how \in {"delayed", "trigger"}, sched' = [s EXCEPT ![Sw(c)] = how],
         NEW off \in [Core -> Nat], Moved(off),
         UNCHANGED <<prog, processVars, sendVars, recvVars>>
  PROVE  RendezvousInv'
<1>0. /\ TypeInv /\ event \in Event /\ sched \in [Thread -> SchedState]
      /\ UNCHANGED <<pos, u_pc>>
  BY DEF RendezvousInv, TypeInv, Event, processVars
<1>1. /\ s \in [Thread -> SchedState]
      /\ \A e \in Core : s[Sw(e)] = sched[Sw(e)]
      /\ \A e \in Core : \/ s[Unit(e)] = sched[Unit(e)]
                         \/ sched[Unit(e)] = event /\ s[Unit(e)] = "runnable"
  <2>1. CASE s = sched
    BY <1>0, <2>1
  <2>2. CASE s = Notify(sched, Unit(d), event)
    BY <1>0, <2>2, WokenUnit
  <2> QED BY <2>1, <2>2
<1>2. /\ \A e \in Core : sched'[Unit(e)] = s[Unit(e)]
      /\ \A e \in Core : e # c => sched'[Sw(e)] = s[Sw(e)]
  BY <1>1, Threads
<1>3. SwitchesStayDelayed
  BY <1>1, <1>2 DEF SwitchesStayDelayed
<1>4. ASSUME NEW e \in Core PROVE Uninvolved(e)
  <2>1. CASE s[Unit(e)] = sched[Unit(e)]
    BY <1>0, <1>2, <2>1 DEF Uninvolved, SameUnit
  <2>2. CASE sched[Unit(e)] = event /\ s[Unit(e)] = "runnable"
    <3>1. u_pc[e] \notin {"send_ready", "recv_data"}
      BY <2>2 DEF RendezvousInv, Ends, EndAt
    <3>2. sched'[Unit(e)] = "runnable" /\ Current(e)' = Current(e) /\ u_pc' = u_pc
      BY <1>0, <1>2, <2>2 DEF Current
    <3> QED BY <3>1, <3>2 DEF Uninvolved
  <2> QED BY <1>1, <2>1, <2>2
<1> QED BY <1>3, <1>4, Bystanders

LEMMA OtherSwitchSteps ==
  ASSUME RendezvousInv, TypeInv', NEW c \in Core, UNCHANGED prog,
         \/ DeliverSync(c) \/ AccessGlobalMemory(c)
         \/ /\ SwitchContinue(c) \/ SwitchWakes(c) \/ SwitchResponds(c)
            /\ UNCHANGED unitVars
  PROVE  RendezvousInv'
<1> DEFINE Finishing == Notify(sched, Unit(c), "switch_finish_trigger")
<1>0. /\ TypeInv /\ sched[Sw(c)] = "runnable"
      /\ UNCHANGED <<processVars, sendVars, recvVars>>
  BY DEF RendezvousInv, DeliverSync, AccessGlobalMemory, SwitchContinue, SwitchWakes,
         SwitchResponds, SwitchAt, Arriving, unitVars
<1>1. CASE DeliverSync(c)
  <2> DEFINE d == in_flight[c].dst
  <2>1. d \in Core
    BY <1>0, <1>1, ArrivingType DEF DeliverSync
  <2>2. PICK s \in {sched, Notify(sched, Unit(d), "sync_wait_trigger")} : Delivered(c, s, "top")
    BY <1>1 DEF DeliverSync
  <2>3. UNCHANGED pending_queue
    BY <1>1 DEF DeliverSync
  <2>4. /\ sched' = [s EXCEPT ![Sw(c)] = "delayed"]
        /\ \A e \in Core : in_flight'[e] \in {in_flight[e], NoMessage}
    BY <1>0, <2>2 DEF Delivered, TypeInv, QueueTypes
  <2>5. Moved(Still)
    BY <1>0, <2>3, <2>4, NothingPosted
  <2> HIDE DEF d
  <2> QED BY <1>0, <2>1, <2>4, <2>5, Offsets, SwitchBystanders
<1>2. CASE AccessGlobalMemory(c)
  <2>1. Delivered(c, sched, "response") /\ UNCHANGED pending_queue
    BY <1>2 DEF AccessGlobalMemory
  <2>2. /\ sched' = [sched EXCEPT ![Sw(c)] = "delayed"]
        /\ \A e \in Core : in_flight'[e] \in {in_flight[e], NoMessage}
    BY <1>0, <2>1 DEF Delivered, TypeInv, QueueTypes
  <2>3. Moved(Still)
    BY <1>0, <2>1, <2>2, NothingPosted
  <2> QED BY <1>0, <2>2, <2>3, Offsets, SwitchBystanders
<1>3. ASSUME NEW s \in {sched, Finishing}, pending_queue[c] # <<>>, PopFront(c, s)
      PROVE  RendezvousInv'
  <2>1. Moved([Still EXCEPT ![c] = 1])
    BY <1>0, <1>3, FrontPopped
  <2>2. sched' = [s EXCEPT ![Sw(c)] = "delayed"]
    BY <1>3 DEF PopFront
  <2> QED BY <1>0, <2>1, <2>2, Offsets, SwitchBystanders
<1>4. ASSUME NEW s \in {sched, Finishing}, LoopHead(c, s)
      PROVE  RendezvousInv'
  <2>1. CASE pending_queue[c] # <<>> /\ PopFront(c, s)
    BY <1>3, <2>1
  <2>2. CASE /\ in_flight' = [in_flight EXCEPT ![c] = NoMessage]
             /\ sched' = [s EXCEPT ![Sw(c)] = "trigger"]
             /\ UNCHANGED pending_queue
    <3>1. \A e \in Core : in_flight'[e] \in {in_flight[e], NoMessage}
      BY <1>0, <2>2 DEF TypeInv, QueueTypes
    <3>2. Moved(Still)
      BY <1>0, <2>2, <3>1, NothingPosted
    <3> QED BY <1>0, <2>2, <3>2, Offsets, SwitchBystanders
  <2> QED BY <1>4, <2>1, <2>2 DEF LoopHead
<1>5. CASE SwitchContinue(c)
  BY <1>4, <1>5 DEF SwitchContinue
<1>6. CASE SwitchResponds(c)
  BY <1>4, <1>6 DEF SwitchResponds
<1>7. CASE SwitchWakes(c)
  <2>1. pending_queue[c] # <<>> /\ PopFront(c, sched)
    BY <1>0, <1>7 DEF SwitchWakes, SwitchAt, TypeInv, SwitchWaits
  <2> QED BY <1>3, <2>1
<1> QED BY <1>1, <1>2, <1>5, <1>6, <1>7

LEMMA TimePasses ==
  ASSUME RendezvousInv, TypeInv', Elapse, UNCHANGED prog
  PROVE  RendezvousInv'
<1>1. Quiet /\ TypeInv /\ UNCHANGED <<pos, u_pc, sendVars, recvVars>>
  BY DEF Elapse, RendezvousInv, unitVars, processVars
<1>2. PICK P \in SUBSET Delayed : Release(P)
  BY DEF Elapse
<1>3. /\ sched' = [p \in Thread |-> IF p \in P THEN "runnable" ELSE sched[p]]
      /\ UNCHANGED <<pending_queue, in_flight>>
  BY <1>2 DEF Release, switchLocals
<1>4. Moved(Still)
  BY <1>1, <1>3, NothingPosted
<1>5. ASSUME NEW d \in Core PROVE Uninvolved(d)
  <2>1. CASE Unit(d) \in P
    <3>1. sched[Unit(d)] = "delayed" /\ sched'[Unit(d)] = "runnable"
      BY <1>2, <1>3, <2>1, Threads DEF Delayed
    <3>2. u_pc[d] \notin {"send_ready", "recv_data"}
      BY <3>1 DEF RendezvousInv, Ends, EndAt
    <3>3. Current(d)' = Current(d)
      BY <1>1 DEF Current
    <3> QED BY <1>1, <3>1, <3>2, <3>3 DEF Uninvolved
  <2>2. CASE Unit(d) \notin P
    BY <1>1, <1>3, <2>2, Threads DEF Uninvolved, SameUnit
  <2> QED BY <2>1, <2>2
<1> QED BY <1>1, <1>4, <1>5, Offsets, Bystanders

-----------------------------------------------------------------------------
(* send *)

\* What a step of unit c means for the others.
LEMMA OthersKept ==
  ASSUME RendezvousInv, NEW c \in Core, SwitchesStayDelayed,
         \A d \in Core : d # c => /\ SameUnit(d)
                                  /\ send_receiver_core_id'[d] = send_receiver_core_id[d]
                                  /\ recv_sender_core_id'[d] = recv_sender_core_id[d],
         EndAt(c)', ~At(c, "recv_data")'
  PROVE  /\ Ends' /\ Receipts'
         /\ \A d \in Core : d # c => SendKept(d) /\ RecvKept(d)
<1>1. \A d \in Core : d # c => SendKept(d) /\ RecvKept(d) /\ EndAt(d)'
  BY UninvolvedKept DEF RendezvousInv, Ends, Uninvolved
<1>2. Ends'
  BY <1>1 DEF Ends
<1>3. Receipts'
  BY DEF RendezvousInv, Receipts, SwitchesStayDelayed, SameUnit, At
<1> QED BY <1>1, <1>2, <1>3

\* Which messages were there before m was queued at core p.
LEMMA AddedFrom ==
  ASSUME NEW p, NEW m, Added(p, m), NEW d \in Core, NEW i \in Slots(d)',
         Slot(d, i)'.kind \in DataKind, d # p \/ Slot(d, i)'.kind # m.kind
  PROVE  /\ i \in Slots(d) /\ Slot(d, i)' = Slot(d, i)
         /\ \A kind : Is(d, i, kind)' => Is(d, i, kind)
         /\ \A kind, e : Sends(d, i, kind, e)' => Sends(d, i, kind, e)
BY DEF Added, Is, Sends

LEMMA StartSendStep ==
  ASSUME RendezvousInv, TypeInv', NEW c \in Core, UNCHANGED prog, StartSend(c)
  PROVE  RendezvousInv'
<1> DEFINE dst == Current(c).core
           m   == DataMessage("sender_ready", c, dst, pos[c])
<1>1. /\ TypeInv /\ u_pc[c] = "start" /\ dst \in Core /\ m \in Posted
      /\ m.kind = "sender_ready" /\ m.src = c /\ m.dst = dst /\ m.tag = pos[c]
      /\ pos[c] \in Nat
  <2>1. TypeInv /\ At(c, "start") /\ Current(c).op = "send" /\ pos[c] \in Nat
    BY DEF RendezvousInv, StartSend, Starts, TypeInv, UnitTypes
  <2>2. dst \in Core
    BY <2>1, RunningHasInstr, CurrentType DEF At, TypeInv
  <2> QED BY <2>1, <2>2, PostedData DEF At, DataKind, DataMessage
<1>2. /\ send_receiver_core_id' = [send_receiver_core_id EXCEPT ![c] = dst]
      /\ send_inst_tag' = [send_inst_tag EXCEPT ![c] = pos[c]]
      /\ Post(c, m) /\ Suspend(c, Notified(c), "send_ready", "send_trigger")
      /\ UNCHANGED <<in_flight, recv_sender_core_id, recv_waiting_sender_map>>
  BY DEF StartSend, switchLocals, recvVars
<1> HIDE DEF m
<1>3. /\ \A d \in Core : d # c => SameUnit(d)
      /\ sched'[Unit(c)] = "send_trigger" /\ u_pc'[c] = "send_ready"
      /\ Current(c)' = Current(c) /\ SwitchesStayDelayed
  BY <1>1, <1>2, Suspends
<1>4. Added(c, m)
  BY <1>1, <1>2, MessagePosted
<1>5. /\ send_receiver_core_id'[c] = dst /\ send_inst_tag'[c] = pos[c]
      /\ \A d \in Core : d # c => /\ send_receiver_core_id'[d] = send_receiver_core_id[d]
                                  /\ send_inst_tag'[d] = send_inst_tag[d]
  BY <1>1, <1>2 DEF TypeInv, UnitTypes
<1> HIDE DEF dst
<1>6. EndAt(c)' /\ ~At(c, "recv_data")'
  BY <1>1, <1>2, <1>3, <1>5 DEF EndAt, At, RendezvousInv, Ends, dst
<1>7. Ends' /\ Receipts' /\ \A d \in Core : d # c => SendKept(d) /\ RecvKept(d)
  BY <1>2, <1>3, <1>5, <1>6, OthersKept
<1>8. \A e \in Core : /\ ~Offering(c, e) /\ (Offering(c, e)' <=> e = dst)
                      /\ ~Permitted(c, e) /\ ~Permitted(c, e)'
                      /\ ~Receiving(c, e) /\ ~Receiving(c, e)'
  BY <1>1, <1>3, <1>5 DEF Offering, Permitted, Receiving
<1>9. ASSUME NEW j \in Slots(c) PROVE ~Is(c, j, "sender_ready")
  <2>1. SUFFICES ASSUME Is(c, j, "sender_ready") PROVE FALSE
    OBVIOUS
  <2>2. Slot(c, j).dst \in Core /\ Sends(c, j, "sender_ready", Slot(c, j).dst)
    BY <1>1, <2>1, SlotType DEF Is, Sends, DataKind
  <2> QED BY <1>8, <2>2 DEF RendezvousInv, Meetings, Offers
<1>10. ASSUME NEW j \in Slots(c)', Is(c, j, "sender_ready")'
       PROVE  /\ j = Len(pending_queue[c]) + 1 /\ Slot(c, j)' = m
              /\ \A k \in Slots(c) : k < j
  BY <1>4, <1>9, <1>10, AddedFrom DEF Added, Is, DataKind
<1>11. Offers'
  <2> SUFFICES ASSUME NEW a \in Core, NEW b \in Core, NEW i \in Slots(a)',
                      Sends(a, i, "sender_ready", b)'
               PROVE  /\ Slot(a, i)'.src = a /\ Slot(a, i)'.tag = send_inst_tag'[a]
                      /\ Offering(a, b)' /\ recv_waiting_sender_map[b][a] = 0
                      /\ \A j \in Slots(a)' : Is(a, j, "sender_ready")' => i = j
    BY <1>2 DEF Offers
  <2>1. CASE a # c
    <3>1. /\ i \in Slots(a) /\ Slot(a, i)' = Slot(a, i) /\ Sends(a, i, "sender_ready", b)
      BY <1>4, <2>1, AddedFrom DEF Sends, Is, DataKind
    <3>2. \A j \in Slots(a)' : Is(a, j, "sender_ready")' =>
            j \in Slots(a) /\ Is(a, j, "sender_ready")
      BY <1>4, <2>1, AddedFrom DEF Is, DataKind
    <3>3. /\ Slot(a, i).src = a /\ Slot(a, i).tag = send_inst_tag[a]
          /\ Offering(a, b) /\ recv_waiting_sender_map[b][a] = 0
          /\ \A j \in Slots(a) : Is(a, j, "sender_ready") => i = j
      BY <3>1 DEF RendezvousInv, Meetings, Offers
    <3> QED BY <1>5, <1>7, <2>1, <3>1, <3>2, <3>3 DEF SendKept
  <2>2. CASE a = c
    <3>1. Slot(c, i)' = m /\ b = dst
      BY <1>1, <1>10, <2>2 DEF Sends
    <3>2. \A j \in Slots(c)' : Is(c, j, "sender_ready")' => i = j
      BY <1>10, <2>2 DEF Sends
    <3>3. recv_waiting_sender_map[b][c] = 0
      BY <1>8 DEF RendezvousInv, Meetings, Notes
    <3> QED BY <1>1, <1>5, <1>8, <2>2, <3>1, <3>2, <3>3
  <2> QED BY <2>1, <2>2
<1>12. Notes'
  BY <1>2, <1>5, <1>7, <1>8 DEF RendezvousInv, Meetings, Notes, SendKept
<1>13. Permits'
  <2> SUFFICES ASSUME NEW a \in Core, NEW b \in Core, NEW i \in Slots(b)',
                      Sends(b, i, "receiver_ready", a)'
               PROVE  /\ Slot(b, i)'.src = b /\ Slot(b, i)'.tag = send_inst_tag'[a]
                      /\ Offering(a, b)' /\ Receiving(b, a)'
                      /\ \A j \in Slots(b)' : Is(b, j, "receiver_ready")' => i = j
                      /\ \A j \in Slots(a)' :
                           ~Is(a, j, "sender_ready")' /\ ~Sends(a, j, "send_data", b)'
    BY DEF Permits
  <2>1. /\ i \in Slots(b) /\ Slot(b, i)' = Slot(b, i) /\ Sends(b, i, "receiver_ready", a)
    BY <1>1, <1>4, AddedFrom DEF Sends, Is, DataKind
  <2>2. /\ Slot(b, i).src = b /\ Slot(b, i).tag = send_inst_tag[a]
        /\ Offering(a, b) /\ Receiving(b, a)
        /\ \A j \in Slots(b) : Is(b, j, "receiver_ready") => i = j
        /\ \A j \in Slots(a) : ~Is(a, j, "sender_ready") /\ ~Sends(a, j, "send_data", b)
    BY <2>1 DEF RendezvousInv, Meetings, Permits
  <2>3. a # c /\ b # c
    BY <1>8, <2>2
  <2>4. \A j \in Slots(b)' : Is(b, j, "receiver_ready")' => i = j
    BY <1>1, <1>4, <2>2, AddedFrom DEF Is, DataKind
  <2>5. \A j \in Slots(a)' : ~Is(a, j, "sender_ready")' /\ ~Sends(a, j, "send_data", b)'
    BY <1>4, <2>2, <2>3, AddedFrom DEF Is, Sends, DataKind
  <2> QED BY <1>5, <1>7, <2>1, <2>2, <2>3, <2>4, <2>5 DEF SendKept, RecvKept
<1>14. Deliveries'
  <2> SUFFICES ASSUME NEW a \in Core, NEW b \in Core, NEW i \in Slots(a)',
                      Sends(a, i, "send_data", b)'
               PROVE  /\ Slot(a, i)'.src = a /\ Receiving(b, a)' /\ ~Permitted(a, b)'
                      /\ \A j \in Slots(a)' : /\ Sends(a, j, "send_data", b)' => i = j
                                              /\ Sends(a, j, "sender_ready", b)' => i < j
    BY DEF Deliveries
  <2>1. /\ i \in Slots(a) /\ Slot(a, i)' = Slot(a, i) /\ Sends(a, i, "send_data", b)
    BY <1>1, <1>4, AddedFrom DEF Sends, Is, DataKind
  <2>2. /\ Slot(a, i).src = a /\ Receiving(b, a) /\ ~Permitted(a, b)
        /\ \A j \in Slots(a) : /\ Sends(a, j, "send_data", b) => i = j
                               /\ Sends(a, j, "sender_ready", b) => i < j
    BY <2>1 DEF RendezvousInv, Meetings, Deliveries
  <2>3. \A j \in Slots(a)' : Sends(a, j, "send_data", b)' => i = j
    BY <1>1, <1>4, <2>2, AddedFrom DEF Sends, Is, DataKind
  <2>4. ASSUME NEW j \in Slots(a)', Sends(a, j, "sender_ready", b)' PROVE i < j
    <3>1. CASE a = c
      BY <1>10, <2>1, <2>4, <3>1 DEF Sends
    <3>2. CASE a # c
      BY <1>4, <2>2, <2>4, <3>2, AddedFrom DEF Sends, Is, DataKind
    <3> QED BY <3>1, <3>2
  <2>5. b # c /\ Receiving(b, a)' /\ ~Permitted(a, b)'
    BY <1>7, <1>8, <2>2 DEF SendKept, RecvKept
  <2> QED BY <2>1, <2>2, <2>3, <2>4, <2>5
<1>15. Permissions'
  BY <1>7, <1>8 DEF RendezvousInv, Meetings, Permissions, SendKept, RecvKept
<1> QED BY <1>7, <1>11, <1>12, <1>13, <1>14, <1>15 DEF RendezvousInv, Meetings

LEMMA SendReadsStep ==
  ASSUME RendezvousInv, TypeInv', NEW c \in Core, UNCHANGED prog, SendReads(c)
  PROVE  RendezvousInv'
<1>1. /\ TypeInv /\ u_pc[c] = "send_ready" /\ sched[Unit(c)] = "runnable"
      /\ Suspend(c, sched, "send_read", "delayed")
      /\ UNCHANGED <<pending_queue, in_flight, send_receiver_core_id, send_inst_tag,
                     recv_sender_core_id, recv_waiting_sender_map>>
  BY DEF RendezvousInv, SendReads, At, switchLocals, sendVars, recvVars
<1>2. /\ \A d \in Core : d # c => SameUnit(d)
      /\ sched'[Unit(c)] = "delayed" /\ u_pc'[c] = "send_read"
      /\ Current(c)' = Current(c) /\ SwitchesStayDelayed
  BY <1>1, Suspends
<1>3. EndAt(c)' /\ ~At(c, "recv_data")'
  BY <1>1, <1>2 DEF RendezvousInv, Ends, EndAt, At
<1>4. Ends' /\ Receipts' /\ \A d \in Core : d # c => SendKept(d) /\ RecvKept(d)
  BY <1>1, <1>2, <1>3, OthersKept
<1>5. SendKept(c) /\ RecvKept(c)
  BY <1>1, <1>2 DEF SendKept, RecvKept, Permitted, Offering, Receiving
<1>6. Moved(Still)
  BY <1>1, NothingPosted DEF TypeInv, QueueTypes
<1>7. Meetings'
  BY <1>1, <1>4, <1>5, <1>6, Offsets, MeetingsKept DEF RendezvousInv
<1> QED BY <1>4, <1>7 DEF RendezvousInv

LEMMA FinishSendStep ==
  ASSUME RendezvousInv, TypeInv', NEW c \in Core, UNCHANGED prog, FinishSend(c)
  PROVE  RendezvousInv'
<1>0. /\ TypeInv /\ u_pc[c] = "send_read" /\ send_inst_tag[c] \in Nat
      /\ Current(c).core \in Core /\ send_receiver_core_id[c] = Current(c).core
  <2>1. TypeInv /\ At(c, "send_read") /\ send_inst_tag[c] \in Nat
    BY DEF RendezvousInv, FinishSend, TypeInv, UnitTypes
  <2>2. Current(c).op = "send" /\ send_receiver_core_id[c] = Current(c).core
    BY <2>1 DEF RendezvousInv, Ends, EndAt, TypeInv, UnitWaits, At
  <2> QED BY <2>1, <2>2, RunningHasInstr, CurrentType DEF At, TypeInv
<1> PICK dst \in Core : dst = Current(c).core
  BY <1>0
<1> DEFINE m == DataMessage("send_data", c, dst, send_inst_tag[c])
<1>1. /\ m \in Posted /\ m.kind = "send_data" /\ m.src = c /\ m.dst = dst
      /\ TypeInv /\ send_receiver_core_id[c] = dst /\ u_pc[c] = "send_read"
  BY <1>0, PostedData DEF DataKind, DataMessage
<1>2. /\ send_receiver_core_id' = [send_receiver_core_id EXCEPT ![c] = None]
      /\ Post(c, m) /\ Finish(c, Notified(c))
      /\ UNCHANGED <<in_flight, send_inst_tag, recv_sender_core_id, recv_waiting_sender_map>>
  BY DEF FinishSend, switchLocals, recvVars
<1> HIDE DEF m
<1>3. /\ \A d \in Core : d # c => SameUnit(d)
      /\ sched'[Unit(c)] \in {"delayed", "start_exec"} /\ u_pc'[c] = "start"
      /\ SwitchesStayDelayed
  BY <1>1, <1>2, Finishes
<1>4. Added(c, m)
  BY <1>1, <1>2, MessagePosted
<1>5. \A d \in Core : d # c => send_receiver_core_id'[d] = send_receiver_core_id[d]
  BY <1>1, <1>2 DEF TypeInv, UnitTypes
<1>6. EndAt(c)' /\ ~At(c, "recv_data")'
  BY <1>1, <1>2, <1>3 DEF EndAt, At, RendezvousInv, Ends
<1>7. Ends' /\ Receipts' /\ \A d \in Core : d # c => SendKept(d) /\ RecvKept(d)
  BY <1>2, <1>3, <1>5, <1>6, OthersKept
<1>8. /\ \A e \in Core : /\ ~Offering(c, e) /\ ~Offering(c, e)' /\ ~Permitted(c, e)'
                         /\ ~Receiving(c, e) /\ ~Receiving(c, e)'
      /\ Permitted(c, dst)
  BY <1>1, <1>3 DEF Offering, Permitted, Receiving
<1>9. Receiving(dst, c) /\ dst # c
  BY <1>1, <1>8 DEF RendezvousInv, Meetings, Permissions
<1>10. \A e \in Core : \A j \in Slots(c) : ~Sends(c, j, "sender_ready", e)
  BY <1>8 DEF RendezvousInv, Meetings, Offers
<1>11. \A j \in Slots(c) : ~Sends(c, j, "send_data", dst)
  BY <1>1, <1>8 DEF RendezvousInv, Meetings, Deliveries
<1>12. Offers'
  <2> SUFFICES ASSUME NEW a \in Core, NEW b \in Core, NEW i \in Slots(a)',
                      Sends(a, i, "sender_ready", b)'
               PROVE  /\ Slot(a, i)'.src = a /\ Slot(a, i)'.tag = send_inst_tag[a]
                      /\ Offering(a, b)' /\ recv_waiting_sender_map[b][a] = 0
                      /\ \A j \in Slots(a)' : Is(a, j, "sender_ready")' => i = j
    BY <1>2 DEF Offers
  <2>1. /\ i \in Slots(a) /\ Slot(a, i)' = Slot(a, i) /\ Sends(a, i, "sender_ready", b)
    BY <1>1, <1>4, AddedFrom DEF Sends, Is, DataKind
  <2>2. \A j \in Slots(a)' : Is(a, j, "sender_ready")' =>
          j \in Slots(a) /\ Is(a, j, "sender_ready")
    BY <1>1, <1>4, AddedFrom DEF Is, DataKind
  <2>3. /\ Slot(a, i).src = a /\ Slot(a, i).tag = send_inst_tag[a]
        /\ Offering(a, b) /\ recv_waiting_sender_map[b][a] = 0
        /\ \A j \in Slots(a) : Is(a, j, "sender_ready") => i = j
    BY <2>1 DEF RendezvousInv, Meetings, Offers
  <2> QED BY <1>7, <1>8, <2>1, <2>2, <2>3 DEF SendKept
<1>13. Notes'
  BY <1>2, <1>7, <1>8 DEF RendezvousInv, Meetings, Notes, SendKept
<1>14. Permits'
  <2> SUFFICES ASSUME NEW a \in Core, NEW b \in Core, NEW i \in Slots(b)',
                      Sends(b, i, "receiver_ready", a)'
               PROVE  /\ Slot(b, i)'.src = b /\ Slot(b, i)'.tag = send_inst_tag[a]
                      /\ Offering(a, b)' /\ Receiving(b, a)'
                      /\ \A j \in Slots(b)' : Is(b, j, "receiver_ready")' => i = j
                      /\ \A j \in Slots(a)' :
                           ~Is(a, j, "sender_ready")' /\ ~Sends(a, j, "send_data", b)'
    BY <1>2 DEF Permits
  <2>1. /\ i \in Slots(b) /\ Slot(b, i)' = Slot(b, i) /\ Sends(b, i, "receiver_ready", a)
    BY <1>1, <1>4, AddedFrom DEF Sends, Is, DataKind
  <2>2. /\ Slot(b, i).src = b /\ Slot(b, i).tag = send_inst_tag[a]
        /\ Offering(a, b) /\ Receiving(b, a)
        /\ \A j \in Slots(b) : Is(b, j, "receiver_ready") => i = j
        /\ \A j \in Slots(a) : ~Is(a, j, "sender_ready") /\ ~Sends(a, j, "send_data", b)
    BY <2>1 DEF RendezvousInv, Meetings, Permits
  <2>3. a # c /\ b # c
    BY <1>8, <2>2
  <2>4. \A j \in Slots(b)' : Is(b, j, "receiver_ready")' => i = j
    BY <1>1, <1>4, <2>2, AddedFrom DEF Is, DataKind
  <2>5. \A j \in Slots(a)' : ~Is(a, j, "sender_ready")' /\ ~Sends(a, j, "send_data", b)'
    BY <1>4, <2>2, <2>3, AddedFrom DEF Is, Sends, DataKind
  <2> QED BY <1>7, <2>1, <2>2, <2>3, <2>4, <2>5 DEF SendKept, RecvKept
<1>15. Deliveries'
  <2> SUFFICES ASSUME NEW a \in Core, NEW b \in Core, NEW i \in Slots(a)',
                      Sends(a, i, "send_data", b)'
               PROVE  /\ Slot(a, i)'.src = a /\ Receiving(b, a)' /\ ~Permitted(a, b)'
                      /\ \A j \in Slots(a)' : /\ Sends(a, j, "send_data", b)' => i = j
                                              /\ Sends(a, j, "sender_ready", b)' => i < j
    BY DEF Deliveries
  <2>1. CASE a = c /\ b = dst
    <3>1. ASSUME NEW j \in Slots(c)', Sends(c, j, "send_data", dst)'
          PROVE  j = Len(pending_queue[c]) + 1 /\ Slot(c, j)' = m
      BY <1>4, <1>11, <3>1 DEF Added, Sends, Is, DataKind
    <3>2. \A j \in Slots(c)' : ~Sends(c, j, "sender_ready", dst)'
      BY <1>1, <1>4, <1>10, AddedFrom DEF Sends, Is, DataKind
    <3> QED BY <1>1, <1>7, <1>8, <1>9, <2>1, <3>1, <3>2 DEF RecvKept
  <2>2. CASE ~(a = c /\ b = dst)
    <3>1. ASSUME NEW j \in Slots(a)', NEW kind \in DataKind, Sends(a, j, kind, b)'
          PROVE  j \in Slots(a) /\ Slot(a, j)' = Slot(a, j) /\ Sends(a, j, kind, b)
      BY <1>1, <1>4, <2>2, <3>1 DEF Added, Sends, Is
    <3>2. /\ i \in Slots(a) /\ Slot(a, i)' = Slot(a, i) /\ Sends(a, i, "send_data", b)
      BY <3>1 DEF DataKind
    <3>3. /\ Slot(a, i).src = a /\ Receiving(b, a) /\ ~Permitted(a, b)
          /\ \A j \in Slots(a) : /\ Sends(a, j, "send_data", b) => i = j
                                 /\ Sends(a, j, "sender_ready", b) => i < j
      BY <3>2 DEF RendezvousInv, Meetings, Deliveries
    <3>4. \A j \in Slots(a)' : /\ Sends(a, j, "send_data", b)' => i = j
                               /\ Sends(a, j, "sender_ready", b)' => i < j
      BY <3>1, <3>3 DEF DataKind
    <3> QED BY <1>7, <1>8, <3>2, <3>3, <3>4 DEF SendKept, RecvKept
  <2> QED BY <2>1, <2>2
<1>16. Permissions'
  BY <1>7, <1>8 DEF RendezvousInv, Meetings, Permissions, SendKept, RecvKept
<1> QED BY <1>7, <1>12, <1>13, <1>14, <1>15, <1>16 DEF RendezvousInv, Meetings

-----------------------------------------------------------------------------
(* recv *)

LEMMA RecvWritesStep ==
  ASSUME RendezvousInv, TypeInv', NEW c \in Core, UNCHANGED prog, RecvWrites(c)
  PROVE  RendezvousInv'
<1>1. /\ TypeInv /\ u_pc[c] = "recv_data" /\ sched[Unit(c)] = "runnable"
      /\ Suspend(c, sched, "local", "delayed")
      /\ recv_sender_core_id' = [recv_sender_core_id EXCEPT ![c] = None]
      /\ UNCHANGED <<pending_queue, in_flight, send_receiver_core_id, send_inst_tag,
                     recv_waiting_sender_map>>
  BY DEF RendezvousInv, RecvWrites, At, switchLocals, sendVars
<1>2. /\ \A d \in Core : d # c => SameUnit(d)
      /\ sched'[Unit(c)] = "delayed" /\ u_pc'[c] = "local" /\ SwitchesStayDelayed
  BY <1>1, Suspends
<1>3. /\ recv_sender_core_id'[c] = None
      /\ \A d \in Core : d # c => recv_sender_core_id'[d] = recv_sender_core_id[d]
  BY <1>1 DEF TypeInv, UnitTypes
<1>4. EndAt(c)' /\ ~At(c, "recv_data")'
  BY <1>2, <1>3 DEF EndAt, At
<1>5. Ends' /\ Receipts' /\ \A d \in Core : d # c => SendKept(d) /\ RecvKept(d)
  BY <1>1, <1>2, <1>3, <1>4, OthersKept
<1>6. SendKept(c) /\ RecvKept(c)
  BY <1>1, <1>2 DEF SendKept, RecvKept, Permitted, Offering, Receiving
<1>7. Moved(Still)
  BY <1>1, NothingPosted DEF TypeInv, QueueTypes
<1>8. Meetings'
  BY <1>1, <1>3, <1>5, <1>6, <1>7, Offsets, MeetingsKept DEF RendezvousInv
<1> QED BY <1>5, <1>8 DEF RendezvousInv

LEMMA StartRecvStep ==
  ASSUME RendezvousInv, TypeInv', NEW c \in Core, UNCHANGED prog, StartRecv(c)
  PROVE  RendezvousInv'
<1>0. TypeInv /\ u_pc[c] = "start" /\ Current(c).core \in Core
  <2>1. TypeInv /\ At(c, "start") /\ Current(c).op = "recv"
    BY DEF RendezvousInv, StartRecv, Starts
  <2> QED BY <2>1, RunningHasInstr, CurrentType DEF At, TypeInv
<1> PICK sender \in Core : sender = Current(c).core
  BY <1>0
<1> DEFINE tag == recv_waiting_sender_map[c][sender]
           m   == DataMessage("receiver_ready", c, sender, tag)
<1>1. /\ m \in Posted /\ m.kind = "receiver_ready" /\ m.src = c /\ m.dst = sender
      /\ m.tag = tag /\ tag \in Nat /\ TypeInv /\ u_pc[c] = "start"
  <2>1. tag \in Nat
    BY <1>0 DEF TypeInv, UnitTypes
  <2> QED BY <1>0, <2>1, PostedData DEF DataKind, DataMessage
<1>2. /\ recv_sender_core_id' = [recv_sender_core_id EXCEPT ![c] = sender]
      /\ UNCHANGED <<in_flight, send_receiver_core_id, send_inst_tag>>
      /\ \/ /\ tag # 0 /\ Post(c, m)
            /\ recv_waiting_sender_map' = [recv_waiting_sender_map EXCEPT ![c][sender] = 0]
            /\ Suspend(c, Notified(c), "recv_data", "recv_trigger")
         \/ /\ tag = 0 /\ UNCHANGED <<pending_queue, recv_waiting_sender_map>>
            /\ Suspend(c, sched, "recv_data", "recv_trigger")
  BY DEF StartRecv, switchLocals, sendVars
<1> HIDE DEF m, tag
<1>3. /\ \A d \in Core : d # c => SameUnit(d)
      /\ sched'[Unit(c)] = "recv_trigger" /\ u_pc'[c] = "recv_data" /\ SwitchesStayDelayed
  BY <1>1, <1>2, Suspends
<1>4. /\ recv_sender_core_id'[c] = sender
      /\ \A d \in Core : d # c => recv_sender_core_id'[d] = recv_sender_core_id[d]
  BY <1>1, <1>2 DEF TypeInv, UnitTypes
<1>5. EndAt(c)' /\ ~At(c, "recv_data")'
  BY <1>3 DEF EndAt, At
<1>6. Ends' /\ Receipts' /\ \A d \in Core : d # c => SendKept(d) /\ RecvKept(d)
  BY <1>2, <1>3, <1>4, <1>5, OthersKept
<1>7. \A e \in Core : /\ ~Receiving(c, e) /\ (Receiving(c, e)' <=> e = sender)
                      /\ ~Offering(c, e) /\ ~Offering(c, e)'
                      /\ ~Permitted(c, e) /\ ~Permitted(c, e)'
  BY <1>1, <1>3, <1>4 DEF Offering, Permitted, Receiving
<1>8. \A d \in Core : SendKept(d)
  BY <1>6, <1>7 DEF SendKept
<1>9. /\ recv_waiting_sender_map'[c][sender] = 0
      /\ \A a, b \in Core : recv_waiting_sender_map'[b][a] # 0 =>
           recv_waiting_sender_map'[b][a] = recv_waiting_sender_map[b][a]
  <2>1. recv_waiting_sender_map \in [Core -> [Core -> Nat]]
    BY <1>1 DEF TypeInv, UnitTypes
  <2>2. CASE recv_waiting_sender_map' = [recv_waiting_sender_map EXCEPT ![c][sender] = 0]
    BY <2>1, <2>2
  <2>3. CASE tag = 0 /\ UNCHANGED recv_waiting_sender_map
    BY <2>3 DEF tag
  <2> QED BY <1>2, <2>2, <2>3
\* A message is one there was, or the answer to a noted offer.
<1>10. ASSUME NEW d \in Core, NEW i \in Slots(d)', Slot(d, i)'.kind \in DataKind,
              d # c \/ Slot(d, i)'.kind # "receiver_ready"
       PROVE  /\ i \in Slots(d) /\ Slot(d, i)' = Slot(d, i)
              /\ \A kind : Is(d, i, kind)' => Is(d, i, kind)
              /\ \A kind, e : Sends(d, i, kind, e)' => Sends(d, i, kind, e)
  <2>1. CASE Post(c, m)
    <3>1. Added(c, m)
      BY <1>1, <1>2, <2>1, MessagePosted
    <3> QED BY <1>1, <1>10, <3>1, AddedFrom
  <2>2. CASE UNCHANGED pending_queue
    BY <1>2, <2>2 DEF Slots, Slot, Is, Sends
  <2> QED BY <1>2, <2>1, <2>2
<1>11. ASSUME NEW j \in Slots(c)', Is(c, j, "receiver_ready")'
       PROVE  tag # 0 /\ j = Len(pending_queue[c]) + 1 /\ Slot(c, j)' = m
  <2>1. ASSUME NEW k \in Slots(c), Is(c, k, "receiver_ready") PROVE FALSE
    <3>1. Slot(c, k).dst \in Core /\ Sends(c, k, "receiver_ready", Slot(c, k).dst)
      BY <1>1, <2>1, SlotType DEF Is, Sends, DataKind
    <3> QED BY <1>7, <3>1 DEF RendezvousInv, Meetings, Permits
  <2>2. CASE tag # 0 /\ Post(c, m)
    <3>1. Added(c, m)
      BY <1>1, <1>2, <2>2, MessagePosted
    <3> QED BY <1>11, <2>1, <2>2, <3>1 DEF Added, Is, DataKind
  <2>3. CASE UNCHANGED pending_queue
    BY <1>2, <1>11, <2>1, <2>3 DEF Slots, Slot, Is
  <2> QED BY <1>2, <2>2, <2>3
<1>12. Offers'
  <2> SUFFICES ASSUME NEW a \in Core, NEW b \in Core, NEW i \in Slots(a)',
                      Sends(a, i, "sender_ready", b)'
               PROVE  /\ Slot(a, i)'.src = a /\ Slot(a, i)'.tag = send_inst_tag[a]
                      /\ Offering(a, b)' /\ recv_waiting_sender_map'[b][a] = 0
                      /\ \A j \in Slots(a)' : Is(a, j, "sender_ready")' => i = j
    BY <1>2 DEF Offers
  <2>1. /\ i \in Slots(a) /\ Slot(a, i)' = Slot(a, i) /\ Sends(a, i, "sender_ready", b)
    BY <1>10 DEF Sends, Is, DataKind
  <2>2. \A j \in Slots(a)' : Is(a, j, "sender_ready")' =>
          j \in Slots(a) /\ Is(a, j, "sender_ready")
    BY <1>10 DEF Is, DataKind
  <2>3. /\ Slot(a, i).src = a /\ Slot(a, i).tag = send_inst_tag[a]
        /\ Offering(a, b) /\ recv_waiting_sender_map[b][a] = 0
        /\ \A j \in Slots(a) : Is(a, j, "sender_ready") => i = j
    BY <2>1 DEF RendezvousInv, Meetings, Offers
  <2> QED BY <1>8, <1>9, <2>1, <2>2, <2>3 DEF SendKept
<1>13. Notes'
  <2> SUFFICES ASSUME NEW a \in Core, NEW b \in Core, recv_waiting_sender_map'[b][a] # 0
               PROVE  /\ recv_waiting_sender_map'[b][a] = send_inst_tag[a]
                      /\ Offering(a, b)' /\ recv_sender_core_id'[b] # a
    BY <1>2 DEF Notes
  <2>1. /\ recv_waiting_sender_map'[b][a] = send_inst_tag[a]
        /\ Offering(a, b) /\ recv_sender_core_id[b] # a
    BY <1>9 DEF RendezvousInv, Meetings, Notes
  <2> QED BY <1>4, <1>8, <1>9, <2>1 DEF SendKept
<1>14. Permits'
  <2> SUFFICES ASSUME NEW a \in Core, NEW b \in Core, NEW i \in Slots(b)',
                      Sends(b, i, "receiver_ready", a)'
               PROVE  /\ Slot(b, i)'.src = b /\ Slot(b, i)'.tag = send_inst_tag[a]
                      /\ Offering(a, b)' /\ Receiving(b, a)'
                      /\ \A j \in Slots(b)' : Is(b, j, "receiver_ready")' => i = j
                      /\ \A j \in Slots(a)' :
                           ~Is(a, j, "sender_ready")' /\ ~Sends(a, j, "send_data", b)'
    BY <1>2 DEF Permits
  <2>0. ASSUME NEW j \in Slots(a)', Is(a, j, "sender_ready")' \/ Sends(a, j, "send_data", b)'
        PROVE  /\ j \in Slots(a)
               /\ Is(a, j, "sender_ready") \/ Sends(a, j, "send_data", b)
    <3>1. Slot(a, j)'.kind \in DataKind /\ Slot(a, j)'.kind # "receiver_ready"
      BY <2>0 DEF Is, Sends, DataKind
    <3> QED BY <1>10, <2>0, <3>1
  <2>1. CASE b = c
    <3>1. tag # 0 /\ Slot(c, i)' = m /\ a = sender
      BY <1>1, <1>11, <2>1 DEF Sends
    <3>2. tag = send_inst_tag[sender] /\ Offering(sender, c)
      BY <3>1 DEF RendezvousInv, Meetings, Notes, tag
    <3>3. \A j \in Slots(c)' : Is(c, j, "receiver_ready")' => i = j
      BY <1>11, <2>1 DEF Sends
    <3>4. ASSUME NEW j \in Slots(sender), Is(sender, j, "sender_ready") PROVE FALSE
      <4>1. Slot(sender, j).dst \in Core /\ Sends(sender, j, "sender_ready", Slot(sender, j).dst)
        BY <1>1, <3>4, SlotType DEF Is, Sends, DataKind
      <4>2. PICK e \in Core : Sends(sender, j, "sender_ready", e)
        BY <4>1
      <4>3. Offering(sender, e) /\ recv_waiting_sender_map[e][sender] = 0
        BY <4>2 DEF RendezvousInv, Meetings, Offers
      <4> QED BY <3>1, <3>2, <4>3 DEF Offering, tag
    <3>5. ASSUME NEW j \in Slots(sender), Sends(sender, j, "send_data", c) PROVE FALSE
      BY <1>7, <3>5 DEF RendezvousInv, Meetings, Deliveries
    <3> QED BY <1>1, <1>7, <1>8, <2>0, <2>1, <3>1, <3>2, <3>3, <3>4, <3>5 DEF SendKept
  <2>2. CASE b # c
    <3>1. /\ i \in Slots(b) /\ Slot(b, i)' = Slot(b, i) /\ Sends(b, i, "receiver_ready", a)
      BY <1>10, <2>2 DEF Sends, Is, DataKind
    <3>2. /\ Slot(b, i).src = b /\ Slot(b, i).tag = send_inst_tag[a]
          /\ Offering(a, b) /\ Receiving(b, a)
          /\ \A j \in Slots(b) : Is(b, j, "receiver_ready") => i = j
          /\ \A j \in Slots(a) : ~Is(a, j, "sender_ready") /\ ~Sends(a, j, "send_data", b)
      BY <3>1 DEF RendezvousInv, Meetings, Permits
    <3>3. \A j \in Slots(b)' : Is(b, j, "receiver_ready")' => i = j
      BY <1>10, <2>2, <3>2 DEF Is, DataKind
    <3>4. \A j \in Slots(a)' : ~Is(a, j, "sender_ready")' /\ ~Sends(a, j, "send_data", b)'
      BY <2>0, <3>2
    <3> QED BY <1>6, <1>8, <2>2, <3>1, <3>2, <3>3, <3>4 DEF SendKept, RecvKept
  <2> QED BY <2>1, <2>2
<1>15. Deliveries'
  <2> SUFFICES ASSUME NEW a \in Core, NEW b \in Core, NEW i \in Slots(a)',
                      Sends(a, i, "send_data", b)'
               PROVE  /\ Slot(a, i)'.src = a /\ Receiving(b, a)' /\ ~Permitted(a, b)'
                      /\ \A j \in Slots(a)' : /\ Sends(a, j, "send_data", b)' => i = j
                                              /\ Sends(a, j, "sender_ready", b)' => i < j
    BY DEF Deliveries
  <2>1. /\ i \in Slots(a) /\ Slot(a, i)' = Slot(a, i) /\ Sends(a, i, "send_data", b)
    BY <1>10 DEF Sends, Is, DataKind
  <2>2. /\ Slot(a, i).src = a /\ Receiving(b, a) /\ ~Permitted(a, b)
        /\ \A j \in Slots(a) : /\ Sends(a, j, "send_data", b) => i = j
                               /\ Sends(a, j, "sender_ready", b) => i < j
    BY <2>1 DEF RendezvousInv, Meetings, Deliveries
  <2>3. \A j \in Slots(a)' : /\ Sends(a, j, "send_data", b)' => i = j
                             /\ Sends(a, j, "sender_ready", b)' => i < j
    BY <1>10, <2>2 DEF Sends, Is, DataKind
  <2>4. b # c
    BY <1>7, <2>2
  <2> QED BY <1>6, <1>8, <2>1, <2>2, <2>3, <2>4 DEF SendKept, RecvKept
<1>16. Permissions'
  BY <1>6, <1>7, <1>8 DEF RendezvousInv, Meetings, Permissions, SendKept, RecvKept
<1> QED BY <1>6, <1>12, <1>13, <1>14, <1>15, <1>16 DEF RendezvousInv, Meetings

-----------------------------------------------------------------------------
(* The handlers of the rendezvous *)

\* The units are as they were.
LEMMA AllKept ==
  ASSUME RendezvousInv, SwitchesStayDelayed, \A d \in Core : SameUnit(d),
         UNCHANGED <<send_receiver_core_id, recv_sender_core_id>>
  PROVE  Ends' /\ Receipts' /\ \A d \in Core : SendKept(d) /\ RecvKept(d)
<1>1. \A d \in Core : SendKept(d) /\ RecvKept(d) /\ EndAt(d)'
  BY UninvolvedKept DEF RendezvousInv, Ends, Uninvolved
<1>2. Receipts'
  BY DEF RendezvousInv, Receipts, SwitchesStayDelayed, SameUnit, At
<1> QED BY <1>1, <1>2 DEF Ends

\* The message in transport is message 0, and gone once it is delivered.
LEMMA Arrives ==
  ASSUME TypeInv, NEW c \in Core, NEW kind \in DataKind, Arriving(c, kind)
  PROVE  LET m == in_flight[c] IN
         /\ 0 \in Slots(c) /\ Slot(c, 0) = m
         /\ m.src \in Core /\ m.dst \in Core /\ m.tag \in Nat
         /\ Is(c, 0, kind) /\ Sends(c, 0, kind, m.dst)
         /\ sched[Sw(c)] = "runnable"
<1>1. 0 \in Slots(c)
  <2>1. Len(pending_queue[c]) \in Nat
    BY LenProperties DEF TypeInv, QueueTypes
  <2> QED BY <2>1 DEF Slots
<1>2. in_flight[c].kind = kind /\ sched[Sw(c)] = "runnable"
  BY DEF Arriving, SwitchAt
<1> QED BY <1>1, <1>2, ArrivingType DEF Slot, Is, Sends, DataKind

LEMMA Gone ==
  ASSUME TypeInv, NEW c \in Core, in_flight' = [in_flight EXCEPT ![c] = NoMessage]
  PROVE  /\ Slot(c, 0)'.kind \notin DataKind
         /\ \A d \in Core : in_flight'[d] \in {in_flight[d], NoMessage}
BY DEF TypeInv, QueueTypes, Slot, NoMessage, DataKind

LEMMA PermitSendStep ==
  ASSUME RendezvousInv, TypeInv', NEW c \in Core, UNCHANGED prog, PermitSend(c)
  PROVE  RendezvousInv'
<1> DEFINE offer == in_flight[c]
<1>0. /\ TypeInv /\ Arriving(c, "sender_ready") /\ "sender_ready" \in DataKind
      /\ offer.dst \in Core /\ offer.src \in Core /\ offer.tag \in Nat
      /\ 0 \in Slots(c) /\ Slot(c, 0) = offer /\ Is(c, 0, "sender_ready")
      /\ Sends(c, 0, "sender_ready", offer.dst) /\ sched[Sw(c)] = "runnable"
  <2>1. TypeInv /\ Arriving(c, "sender_ready") /\ "sender_ready" \in DataKind
    BY DEF PermitSend, RendezvousInv, DataKind
  <2> QED BY <2>1, Arrives
<1> PICK b \in Core : b = offer.dst
  BY <1>0
<1> DEFINE answer == DataMessage("receiver_ready", b, c, offer.tag)
<1>1. /\ offer.src = c /\ offer.tag = send_inst_tag[c] /\ Offering(c, b)
      /\ recv_waiting_sender_map[b][c] = 0
      /\ \A j \in Slots(c) : Is(c, j, "sender_ready") => j = 0
  BY <1>0 DEF RendezvousInv, Meetings, Offers
<1>2. /\ recv_sender_core_id[b] = c /\ Post(b, answer) /\ Delivered(c, Notified(b), "top")
      /\ UNCHANGED <<pos, u_pc, send_receiver_core_id, send_inst_tag, recv_sender_core_id,
                     recv_waiting_sender_map>>
  BY <1>1 DEF PermitSend, Matches, unitVars, processVars, sendVars, recvVars
<1>3. /\ answer \in Posted /\ answer.kind = "receiver_ready" /\ answer.src = b
      /\ answer.dst = c /\ answer.tag = send_inst_tag[c]
  BY <1>0, <1>1, PostedData DEF DataKind, DataMessage
<1> HIDE DEF answer, offer
<1>4. /\ \A d \in Core : SameUnit(d)
      /\ SwitchesStayDelayed /\ in_flight' = [in_flight EXCEPT ![c] = NoMessage]
  <2>1. /\ Notified(b) \in [Thread -> SchedState]
        /\ \A d \in Core : /\ Notified(b)[Unit(d)] = sched[Unit(d)]
                           /\ sched[Sw(d)] = "delayed" => Notified(b)[Sw(d)] = "delayed"
    BY <1>0, WokenSwitch
  <2>2. /\ \A d \in Core : sched'[Unit(d)] = sched[Unit(d)]
        /\ SwitchesStayDelayed /\ in_flight' = [in_flight EXCEPT ![c] = NoMessage]
    BY <1>0, <1>2, <2>1, Delivers
  <2> QED BY <1>2, <2>2 DEF SameUnit
<1>5. Ends' /\ Receipts' /\ \A d \in Core : SendKept(d) /\ RecvKept(d)
  BY <1>2, <1>4, AllKept
<1>6. Receiving(b, c)
  <2>1. u_pc[b] = "recv_data" /\ sched[Unit(b)] \in {"recv_trigger", "runnable"}
    BY <1>2, CoreAssumption DEF RendezvousInv, Ends, EndAt
  <2>2. sched[Unit(b)] # "runnable"
    BY <1>0, <1>2, <2>1 DEF RendezvousInv, Receipts, At
  <2> QED BY <1>2, <2>1, <2>2 DEF Receiving
<1>7. ASSUME NEW k \in Slots(b), Is(b, k, "receiver_ready") PROVE FALSE
  <2>1. Slot(b, k).dst \in Core /\ Sends(b, k, "receiver_ready", Slot(b, k).dst)
    BY <1>0, <1>7, SlotType DEF Is, Sends, DataKind
  <2>2. PICK e \in Core : Sends(b, k, "receiver_ready", e)
    BY <2>1
  <2>3. Receiving(b, e) /\ \A j \in Slots(e) : ~Is(e, j, "sender_ready")
    BY <2>2 DEF RendezvousInv, Meetings, Permits
  <2> QED BY <1>0, <1>6, <2>3 DEF Receiving
<1>8. ASSUME NEW k \in Slots(c), Sends(c, k, "send_data", b) PROVE FALSE
  <2>1. k < 0
    BY <1>0, <1>8 DEF RendezvousInv, Meetings, Deliveries
  <2> QED BY <1>0, <2>1, SlotType
<1>9. /\ Added(b, answer) /\ Slot(c, 0)'.kind \notin DataKind
  BY <1>0, <1>2, <1>3, <1>4, Gone, MessagePosted
<1>10. ASSUME NEW j \in Slots(b)', Is(b, j, "receiver_ready")'
       PROVE  j = Len(pending_queue[b]) + 1 /\ Slot(b, j)' = answer
  BY <1>7, <1>9, <1>10 DEF Added, Is, DataKind
<1>11. ASSUME NEW d \in Core, NEW i \in Slots(d)', Slot(d, i)'.kind \in DataKind,
              Slot(d, i)'.kind # "receiver_ready"
       PROVE  /\ i \in Slots(d) /\ Slot(d, i)' = Slot(d, i)
              /\ \A kind : Is(d, i, kind)' => Is(d, i, kind)
              /\ \A kind, e : Sends(d, i, kind, e)' => Sends(d, i, kind, e)
  BY <1>3, <1>9, <1>11, AddedFrom
<1>12. \A j \in Slots(c)' : ~Is(c, j, "sender_ready")'
  <2> SUFFICES ASSUME NEW j \in Slots(c)', Is(c, j, "sender_ready")' PROVE FALSE
    OBVIOUS
  <2>1. j = 0
    BY <1>1, <1>11 DEF Is, DataKind
  <2> QED BY <1>9, <2>1 DEF Is, DataKind
<1>13. Offers'
  <2> SUFFICES ASSUME NEW a \in Core, NEW e \in Core, NEW i \in Slots(a)',
                      Sends(a, i, "sender_ready", e)'
               PROVE  /\ Slot(a, i)'.src = a /\ Slot(a, i)'.tag = send_inst_tag[a]
                      /\ Offering(a, e)' /\ recv_waiting_sender_map[e][a] = 0
                      /\ \A j \in Slots(a)' : Is(a, j, "sender_ready")' => i = j
    BY <1>2 DEF Offers
  <2>1. /\ i \in Slots(a) /\ Slot(a, i)' = Slot(a, i) /\ Sends(a, i, "sender_ready", e)
    BY <1>11 DEF Sends, Is, DataKind
  <2>2. \A j \in Slots(a)' : Is(a, j, "sender_ready")' =>
          j \in Slots(a) /\ Is(a, j, "sender_ready")
    BY <1>11 DEF Is, DataKind
  <2>3. /\ Slot(a, i).src = a /\ Slot(a, i).tag = send_inst_tag[a]
        /\ Offering(a, e) /\ recv_waiting_sender_map[e][a] = 0
        /\ \A j \in Slots(a) : Is(a, j, "sender_ready") => i = j
    BY <2>1 DEF RendezvousInv, Meetings, Offers
  <2> QED BY <1>5, <2>1, <2>2, <2>3 DEF SendKept
<1>14. Notes'
  BY <1>2, <1>5 DEF RendezvousInv, Meetings, Notes, SendKept
<1>15. Permits'
  <2> SUFFICES ASSUME NEW a \in Core, NEW e \in Core, NEW i \in Slots(e)',
                      Sends(e, i, "receiver_ready", a)'
               PROVE  /\ Slot(e, i)'.src = e /\ Slot(e, i)'.tag = send_inst_tag[a]
                      /\ Offering(a, e)' /\ Receiving(e, a)'
                      /\ \A j \in Slots(e)' : Is(e, j, "receiver_ready")' => i = j
                      /\ \A j \in Slots(a)' :
                           ~Is(a, j, "sender_ready")' /\ ~Sends(a, j, "send_data", e)'
    BY <1>2 DEF Permits
  <2>1. CASE e = b
    <3>1. Slot(b, i)' = answer /\ a = c
      BY <1>3, <1>10, <2>1 DEF Sends
    <3>2. \A j \in Slots(b)' : Is(b, j, "receiver_ready")' => i = j
      BY <1>10, <2>1 DEF Sends
    <3>3. \A j \in Slots(c)' : ~Sends(c, j, "send_data", b)'
      BY <1>8, <1>11 DEF Sends, Is, DataKind
    <3> QED BY <1>1, <1>3, <1>5, <1>6, <1>12, <2>1, <3>1, <3>2, <3>3 DEF SendKept, RecvKept
  <2>2. CASE e # b
    <3>1. /\ i \in Slots(e) /\ Slot(e, i)' = Slot(e, i) /\ Sends(e, i, "receiver_ready", a)
      BY <1>9, <2>2, AddedFrom DEF Sends, Is, DataKind
    <3>2. /\ Slot(e, i).src = e /\ Slot(e, i).tag = send_inst_tag[a]
          /\ Offering(a, e) /\ Receiving(e, a)
          /\ \A j \in Slots(e) : Is(e, j, "receiver_ready") => i = j
          /\ \A j \in Slots(a) : ~Is(a, j, "sender_ready") /\ ~Sends(a, j, "send_data", e)
      BY <3>1 DEF RendezvousInv, Meetings, Permits
    <3>3. \A j \in Slots(e)' : Is(e, j, "receiver_ready")' => i = j
      BY <1>9, <2>2, <3>2, AddedFrom DEF Is, DataKind
    <3>4. \A j \in Slots(a)' : ~Is(a, j, "sender_ready")' /\ ~Sends(a, j, "send_data", e)'
      BY <1>11, <3>2 DEF Sends, Is, DataKind
    <3> QED BY <1>5, <3>1, <3>2, <3>3, <3>4 DEF SendKept, RecvKept
  <2> QED BY <2>1, <2>2
<1>16. Deliveries'
  <2> SUFFICES ASSUME NEW a \in Core, NEW e \in Core, NEW i \in Slots(a)',
                      Sends(a, i, "send_data", e)'
               PROVE  /\ Slot(a, i)'.src = a /\ Receiving(e, a)' /\ ~Permitted(a, e)'
                      /\ \A j \in Slots(a)' : /\ Sends(a, j, "send_data", e)' => i = j
                                              /\ Sends(a, j, "sender_ready", e)' => i < j
    BY DEF Deliveries
  <2>1. /\ i \in Slots(a) /\ Slot(a, i)' = Slot(a, i) /\ Sends(a, i, "send_data", e)
    BY <1>11 DEF Sends, Is, DataKind
  <2>2. /\ Slot(a, i).src = a /\ Receiving(e, a) /\ ~Permitted(a, e)
        /\ \A j \in Slots(a) : /\ Sends(a, j, "send_data", e) => i = j
                               /\ Sends(a, j, "sender_ready", e) => i < j
    BY <2>1 DEF RendezvousInv, Meetings, Deliveries
  <2>3. \A j \in Slots(a)' : /\ Sends(a, j, "send_data", e)' => i = j
                             /\ Sends(a, j, "sender_ready", e)' => i < j
    BY <1>11, <2>2 DEF Sends, Is, DataKind
  <2> QED BY <1>5, <2>1, <2>2, <2>3 DEF SendKept, RecvKept
<1>17. Permissions'
  BY <1>5 DEF RendezvousInv, Meetings, Permissions, SendKept, RecvKept
<1> QED BY <1>5, <1>13, <1>14, <1>15, <1>16, <1>17 DEF RendezvousInv, Meetings

\* Nothing is queued, and the message in transport at core c is gone.
LEMMA OnlyOneGone ==
  ASSUME TypeInv, NEW c \in Core, in_flight' = [in_flight EXCEPT ![c] = NoMessage],
         UNCHANGED pending_queue
  PROVE  \A d \in Core : \A i \in Slots(d)' : Slot(d, i)'.kind \in DataKind =>
           /\ i \in Slots(d) /\ Slot(d, i)' = Slot(d, i) /\ ~(d = c /\ i = 0)
           /\ \A kind : Is(d, i, kind)' => Is(d, i, kind)
           /\ \A kind, e : Sends(d, i, kind, e)' => Sends(d, i, kind, e)
<1> SUFFICES ASSUME NEW d \in Core, NEW i \in Slots(d)', Slot(d, i)'.kind \in DataKind
             PROVE  /\ i \in Slots(d) /\ Slot(d, i)' = Slot(d, i) /\ ~(d = c /\ i = 0)
                    /\ \A kind : Is(d, i, kind)' => Is(d, i, kind)
                    /\ \A kind, e : Sends(d, i, kind, e)' => Sends(d, i, kind, e)
  OBVIOUS
<1>1. ~(d = c /\ i = 0)
  BY Gone
<1>2. Slot(d, i)' = Slot(d, i)
  <2>1. in_flight'[d] = in_flight[d] \/ i # 0
    BY <1>1 DEF TypeInv, QueueTypes
  <2> QED BY <2>1 DEF Slot
<1>3. i \in Slots(d)
  BY DEF Slots
<1> QED BY <1>1, <1>2, <1>3 DEF Is, Sends

LEMMA RecordSenderStep ==
  ASSUME RendezvousInv, TypeInv', NEW c \in Core, UNCHANGED prog, RecordSender(c)
  PROVE  RendezvousInv'
<1> DEFINE m == in_flight[c]
<1>0. /\ TypeInv /\ ~Matches(m) /\ UNCHANGED pending_queue
      /\ "sender_ready" \in DataKind /\ "send_data" \in DataKind
      /\ Arriving(c, "sender_ready") \/ Arriving(c, "send_data")
  BY DEF RecordSender, RendezvousInv, DataKind
<1>1. ~Arriving(c, "send_data")
  <2> SUFFICES ASSUME Arriving(c, "send_data") PROVE FALSE
    OBVIOUS
  <2>1. /\ m.dst \in Core /\ 0 \in Slots(c) /\ Slot(c, 0) = m
        /\ Sends(c, 0, "send_data", m.dst)
    BY <1>0, Arrives
  <2>2. m.src = c /\ Receiving(m.dst, c)
    BY <2>1 DEF RendezvousInv, Meetings, Deliveries
  <2> QED BY <1>0, <2>2 DEF Matches, Receiving
<1>2. /\ m.dst \in Core /\ m.src \in Core /\ m.tag \in Nat
      /\ 0 \in Slots(c) /\ Slot(c, 0) = m /\ Is(c, 0, "sender_ready")
      /\ Sends(c, 0, "sender_ready", m.dst)
  BY <1>0, <1>1, Arrives
<1> PICK b \in Core : b = m.dst
  BY <1>2
<1>3. /\ m.src = c /\ m.tag = send_inst_tag[c] /\ Offering(c, b)
      /\ recv_waiting_sender_map[b][c] = 0
      /\ \A j \in Slots(c) : Is(c, j, "sender_ready") => j = 0
  BY <1>2 DEF RendezvousInv, Meetings, Offers
<1>4. /\ recv_sender_core_id[b] # c /\ Delivered(c, sched, "top")
      /\ recv_waiting_sender_map' = [recv_waiting_sender_map EXCEPT ![b][c] = m.tag]
      /\ UNCHANGED <<pos, u_pc, send_receiver_core_id, send_inst_tag, recv_sender_core_id>>
  BY <1>0, <1>3 DEF RecordSender, Matches, processVars, sendVars
<1>5. /\ \A d \in Core : SameUnit(d)
      /\ SwitchesStayDelayed /\ in_flight' = [in_flight EXCEPT ![c] = NoMessage]
  <2>1. /\ \A d \in Core : sched'[Unit(d)] = sched[Unit(d)]
        /\ SwitchesStayDelayed /\ in_flight' = [in_flight EXCEPT ![c] = NoMessage]
    BY <1>0, <1>4, Delivers DEF TypeInv
  <2> QED BY <1>4, <2>1 DEF SameUnit
<1> HIDE DEF m
<1>6. Ends' /\ Receipts' /\ \A d \in Core : SendKept(d) /\ RecvKept(d)
  BY <1>4, <1>5, AllKept
<1>7. ASSUME NEW d \in Core, NEW i \in Slots(d)', Slot(d, i)'.kind \in DataKind
      PROVE  /\ i \in Slots(d) /\ Slot(d, i)' = Slot(d, i) /\ ~(d = c /\ i = 0)
             /\ \A kind : Is(d, i, kind)' => Is(d, i, kind)
             /\ \A kind, e : Sends(d, i, kind, e)' => Sends(d, i, kind, e)
  BY <1>0, <1>5, <1>7, OnlyOneGone
<1>8. \A a, e \in Core : ~(a = c /\ e = b) =>
        recv_waiting_sender_map'[e][a] = recv_waiting_sender_map[e][a]
  BY <1>0, <1>4 DEF TypeInv, UnitTypes
<1>9. recv_waiting_sender_map'[b][c] = m.tag
  BY <1>0, <1>4 DEF TypeInv, UnitTypes
<1>10. Offers'
  <2> SUFFICES ASSUME NEW a \in Core, NEW e \in Core, NEW i \in Slots(a)',
                      Sends(a, i, "sender_ready", e)'
               PROVE  /\ Slot(a, i)'.src = a /\ Slot(a, i)'.tag = send_inst_tag[a]
                      /\ Offering(a, e)' /\ recv_waiting_sender_map'[e][a] = 0
                      /\ \A j \in Slots(a)' : Is(a, j, "sender_ready")' => i = j
    BY <1>4 DEF Offers
  <2>1. /\ i \in Slots(a) /\ Slot(a, i)' = Slot(a, i) /\ Sends(a, i, "sender_ready", e)
        /\ ~(a = c /\ i = 0)
    BY <1>7 DEF Sends, Is, DataKind
  <2>2. a # c
    BY <1>3, <2>1 DEF Sends
  <2>3. \A j \in Slots(a)' : Is(a, j, "sender_ready")' =>
          j \in Slots(a) /\ Is(a, j, "sender_ready")
    BY <1>7 DEF Is, DataKind
  <2>4. /\ Slot(a, i).src = a /\ Slot(a, i).tag = send_inst_tag[a]
        /\ Offering(a, e) /\ recv_waiting_sender_map[e][a] = 0
        /\ \A j \in Slots(a) : Is(a, j, "sender_ready") => i = j
    BY <2>1 DEF RendezvousInv, Meetings, Offers
  <2> QED BY <1>6, <1>8, <2>1, <2>2, <2>3, <2>4 DEF SendKept
<1>11. Notes'
  <2> SUFFICES ASSUME NEW a \in Core, NEW e \in Core, recv_waiting_sender_map'[e][a] # 0
               PROVE  /\ recv_waiting_sender_map'[e][a] = send_inst_tag[a]
                      /\ Offering(a, e)' /\ recv_sender_core_id[e] # a
    BY <1>4 DEF Notes
  <2>1. CASE a = c /\ e = b
    BY <1>3, <1>4, <1>6, <1>9, <2>1 DEF SendKept
  <2>2. CASE ~(a = c /\ e = b)
    BY <1>6, <1>8, <2>2 DEF RendezvousInv, Meetings, Notes, SendKept
  <2> QED BY <2>1, <2>2
<1>12. Permits'
  <2> SUFFICES ASSUME NEW a \in Core, NEW e \in Core, NEW i \in Slots(e)',
                      Sends(e, i, "receiver_ready", a)'
               PROVE  /\ Slot(e, i)'.src = e /\ Slot(e, i)'.tag = send_inst_tag[a]
                      /\ Offering(a, e)' /\ Receiving(e, a)'
                      /\ \A j \in Slots(e)' : Is(e, j, "receiver_ready")' => i = j
                      /\ \A j \in Slots(a)' :
                           ~Is(a, j, "sender_ready")' /\ ~Sends(a, j, "send_data", e)'
    BY <1>4 DEF Permits
  <2>1. /\ i \in Slots(e) /\ Slot(e, i)' = Slot(e, i) /\ Sends(e, i, "receiver_ready", a)
    BY <1>7 DEF Sends, Is, DataKind
  <2>2. /\ Slot(e, i).src = e /\ Slot(e, i).tag = send_inst_tag[a]
        /\ Offering(a, e) /\ Receiving(e, a)
        /\ \A j \in Slots(e) : Is(e, j, "receiver_ready") => i = j
        /\ \A j \in Slots(a) : ~Is(a, j, "sender_ready") /\ ~Sends(a, j, "send_data", e)
    BY <2>1 DEF RendezvousInv, Meetings, Permits
  <2>3. \A j \in Slots(e)' : Is(e, j, "receiver_ready")' => i = j
    BY <1>7, <2>2 DEF Is, DataKind
  <2>4. \A j \in Slots(a)' : ~Is(a, j, "sender_ready")' /\ ~Sends(a, j, "send_data", e)'
    BY <1>7, <2>2 DEF Sends, Is, DataKind
  <2> QED BY <1>6, <2>1, <2>2, <2>3, <2>4 DEF SendKept, RecvKept
<1>13. Deliveries'
  <2> SUFFICES ASSUME NEW a \in Core, NEW e \in Core, NEW i \in Slots(a)',
                      Sends(a, i, "send_data", e)'
               PROVE  /\ Slot(a, i)'.src = a /\ Receiving(e, a)' /\ ~Permitted(a, e)'
                      /\ \A j \in Slots(a)' : /\ Sends(a, j, "send_data", e)' => i = j
                                              /\ Sends(a, j, "sender_ready", e)' => i < j
    BY DEF Deliveries
  <2>1. /\ i \in Slots(a) /\ Slot(a, i)' = Slot(a, i) /\ Sends(a, i, "send_data", e)
    BY <1>7 DEF Sends, Is, DataKind
  <2>2. /\ Slot(a, i).src = a /\ Receiving(e, a) /\ ~Permitted(a, e)
        /\ \A j \in Slots(a) : /\ Sends(a, j, "send_data", e) => i = j
                               /\ Sends(a, j, "sender_ready", e) => i < j
    BY <2>1 DEF RendezvousInv, Meetings, Deliveries
  <2>3. \A j \in Slots(a)' : /\ Sends(a, j, "send_data", e)' => i = j
                             /\ Sends(a, j, "sender_ready", e)' => i < j
    BY <1>7, <2>2 DEF Sends, Is, DataKind
  <2> QED BY <1>6, <2>1, <2>2, <2>3 DEF SendKept, RecvKept
<1>14. Permissions'
  BY <1>6 DEF RendezvousInv, Meetings, Permissions, SendKept, RecvKept
<1> QED BY <1>6, <1>10, <1>11, <1>12, <1>13, <1>14 DEF RendezvousInv, Meetings

LEMMA DeliverDataStep ==
  ASSUME RendezvousInv, TypeInv', NEW c \in Core, UNCHANGED prog, DeliverData(c)
  PROVE  RendezvousInv'
<1> DEFINE m == in_flight[c]
<1>0. /\ TypeInv /\ UNCHANGED pending_queue
      /\ m.dst \in Core /\ 0 \in Slots(c) /\ Slot(c, 0) = m /\ Sends(c, 0, "send_data", m.dst)
  <2>1. TypeInv /\ Arriving(c, "send_data") /\ "send_data" \in DataKind
    BY DEF DeliverData, RendezvousInv, DataKind
  <2> QED BY <2>1, Arrives DEF DeliverData
<1> PICK b \in Core : b = m.dst
  BY <1>0
<1>1. /\ Receiving(b, c) /\ ~Permitted(c, b)
      /\ \A j \in Slots(c) : Sends(c, j, "send_data", b) => j = 0
  BY <1>0 DEF RendezvousInv, Meetings, Deliveries
<1>2. /\ Delivered(c, Notify(sched, Unit(b), "recv_trigger"), "top")
      /\ UNCHANGED <<pos, u_pc, send_receiver_core_id, send_inst_tag, recv_sender_core_id,
                     recv_waiting_sender_map>>
  BY DEF DeliverData, unitVars, processVars, sendVars, recvVars
<1> HIDE DEF m
<1>3. /\ \A d \in Core : d # b => SameUnit(d)
      /\ sched'[Unit(b)] = "runnable" /\ sched'[Sw(c)] = "delayed"
      /\ SwitchesStayDelayed /\ in_flight' = [in_flight EXCEPT ![c] = NoMessage]
  <2> DEFINE s == Notify(sched, Unit(b), "recv_trigger")
  <2>1. /\ s \in [Thread -> SchedState] /\ s[Unit(b)] = "runnable"
        /\ \A e \in Core : e # b => s[Unit(e)] = sched[Unit(e)]
        /\ \A e \in Core : s[Sw(e)] = sched[Sw(e)]
    BY <1>0, <1>1, WokenUnit DEF Receiving, Event
  <2> HIDE DEF s
  <2>2. /\ \A d \in Core : sched'[Unit(d)] = s[Unit(d)]
        /\ sched'[Sw(c)] = "delayed"
        /\ SwitchesStayDelayed /\ in_flight' = [in_flight EXCEPT ![c] = NoMessage]
    BY <1>0, <1>2, <2>1, Delivers DEF s
  <2> QED BY <1>2, <2>1, <2>2 DEF SameUnit
<1>4. /\ \A d \in Core : d # b => SendKept(d) /\ RecvKept(d) /\ EndAt(d)'
      /\ SendKept(b) /\ EndAt(b)'
      /\ \A e \in Core : ~Receiving(b, e)' /\ (Receiving(b, e) => e = c)
  <2>1. \A d \in Core : d # b => SendKept(d) /\ RecvKept(d) /\ EndAt(d)'
    BY <1>2, <1>3, UninvolvedKept DEF RendezvousInv, Ends, Uninvolved
  <2>2. SendKept(b) /\ \A e \in Core : ~Receiving(b, e)' /\ (Receiving(b, e) => e = c)
    BY <1>1, <1>2, <1>3 DEF SendKept, Receiving, Offering, Permitted
  <2>3. EndAt(b)'
    BY <1>1, <1>2, <1>3 DEF EndAt, Receiving
  <2> QED BY <2>1, <2>2, <2>3
<1>5. Receipts'
  <2> SUFFICES ASSUME NEW a \in Core, NEW e \in Core, At(e, "recv_data")',
                      recv_sender_core_id[e] = a
               PROVE  sched'[Sw(a)] = "delayed"
    BY <1>2 DEF Receipts
  <2>1. CASE e = b
    BY <1>1, <1>3, <2>1 DEF Receiving
  <2>2. CASE e # b
    <3>1. At(e, "recv_data")
      BY <1>3, <2>2 DEF SameUnit, At
    <3> QED BY <1>3, <3>1 DEF RendezvousInv, Receipts, SwitchesStayDelayed
  <2> QED BY <2>1, <2>2
<1>6. ASSUME NEW d \in Core, NEW i \in Slots(d)', Slot(d, i)'.kind \in DataKind
      PROVE  /\ i \in Slots(d) /\ Slot(d, i)' = Slot(d, i) /\ ~(d = c /\ i = 0)
             /\ \A kind : Is(d, i, kind)' => Is(d, i, kind)
             /\ \A kind, e : Sends(d, i, kind, e)' => Sends(d, i, kind, e)
  BY <1>0, <1>3, <1>6, OnlyOneGone
<1>7. Offers'
  <2> SUFFICES ASSUME NEW a \in Core, NEW e \in Core, NEW i \in Slots(a)',
                      Sends(a, i, "sender_ready", e)'
               PROVE  /\ Slot(a, i)'.src = a /\ Slot(a, i)'.tag = send_inst_tag[a]
                      /\ Offering(a, e)' /\ recv_waiting_sender_map[e][a] = 0
                      /\ \A j \in Slots(a)' : Is(a, j, "sender_ready")' => i = j
    BY <1>2 DEF Offers
  <2>1. /\ i \in Slots(a) /\ Slot(a, i)' = Slot(a, i) /\ Sends(a, i, "sender_ready", e)
    BY <1>6 DEF Sends, Is, DataKind
  <2>2. \A j \in Slots(a)' : Is(a, j, "sender_ready")' =>
          j \in Slots(a) /\ Is(a, j, "sender_ready")
    BY <1>6 DEF Is, DataKind
  <2>3. /\ Slot(a, i).src = a /\ Slot(a, i).tag = send_inst_tag[a]
        /\ Offering(a, e) /\ recv_waiting_sender_map[e][a] = 0
        /\ \A j \in Slots(a) : Is(a, j, "sender_ready") => i = j
    BY <2>1 DEF RendezvousInv, Meetings, Offers
  <2> QED BY <1>4, <2>1, <2>2, <2>3 DEF SendKept
<1>8. Notes'
  BY <1>2, <1>4 DEF RendezvousInv, Meetings, Notes, SendKept
<1>9. Permits'
  <2> SUFFICES ASSUME NEW a \in Core, NEW e \in Core, NEW i \in Slots(e)',
                      Sends(e, i, "receiver_ready", a)'
               PROVE  /\ Slot(e, i)'.src = e /\ Slot(e, i)'.tag = send_inst_tag[a]
                      /\ Offering(a, e)' /\ Receiving(e, a)'
                      /\ \A j \in Slots(e)' : Is(e, j, "receiver_ready")' => i = j
                      /\ \A j \in Slots(a)' :
                           ~Is(a, j, "sender_ready")' /\ ~Sends(a, j, "send_data", e)'
    BY <1>2 DEF Permits
  <2>1. /\ i \in Slots(e) /\ Slot(e, i)' = Slot(e, i) /\ Sends(e, i, "receiver_ready", a)
    BY <1>6 DEF Sends, Is, DataKind
  <2>2. /\ Slot(e, i).src = e /\ Slot(e, i).tag = send_inst_tag[a]
        /\ Offering(a, e) /\ Receiving(e, a)
        /\ \A j \in Slots(e) : Is(e, j, "receiver_ready") => i = j
        /\ \A j \in Slots(a) : ~Is(a, j, "sender_ready") /\ ~Sends(a, j, "send_data", e)
    BY <2>1 DEF RendezvousInv, Meetings, Permits
  <2>3. e # b
    BY <1>0, <1>4, <2>2
  <2>4. \A j \in Slots(e)' : Is(e, j, "receiver_ready")' => i = j
    BY <1>6, <2>2 DEF Is, DataKind
  <2>5. \A j \in Slots(a)' : ~Is(a, j, "sender_ready")' /\ ~Sends(a, j, "send_data", e)'
    BY <1>6, <2>2 DEF Sends, Is, DataKind
  <2> QED BY <1>4, <2>1, <2>2, <2>3, <2>4, <2>5 DEF SendKept, RecvKept
<1>10. Deliveries'
  <2> SUFFICES ASSUME NEW a \in Core, NEW e \in Core, NEW i \in Slots(a)',
                      Sends(a, i, "send_data", e)'
               PROVE  /\ Slot(a, i)'.src = a /\ Receiving(e, a)' /\ ~Permitted(a, e)'
                      /\ \A j \in Slots(a)' : /\ Sends(a, j, "send_data", e)' => i = j
                                              /\ Sends(a, j, "sender_ready", e)' => i < j
    BY DEF Deliveries
  <2>1. /\ i \in Slots(a) /\ Slot(a, i)' = Slot(a, i) /\ Sends(a, i, "send_data", e)
        /\ ~(a = c /\ i = 0)
    BY <1>6 DEF Sends, Is, DataKind
  <2>2. /\ Slot(a, i).src = a /\ Receiving(e, a) /\ ~Permitted(a, e)
        /\ \A j \in Slots(a) : /\ Sends(a, j, "send_data", e) => i = j
                               /\ Sends(a, j, "sender_ready", e) => i < j
    BY <2>1 DEF RendezvousInv, Meetings, Deliveries
  <2>3. e # b
    BY <1>1, <1>4, <2>1, <2>2
  <2>4. \A j \in Slots(a)' : /\ Sends(a, j, "send_data", e)' => i = j
                             /\ Sends(a, j, "sender_ready", e)' => i < j
    BY <1>6, <2>2 DEF Sends, Is, DataKind
  <2> QED BY <1>4, <2>1, <2>2, <2>3, <2>4 DEF SendKept, RecvKept
<1>11. Permissions'
  <2> SUFFICES ASSUME NEW a \in Core, NEW e \in Core, Permitted(a, e)'
               PROVE  Receiving(e, a)'
    BY DEF Permissions
  <2>1. Permitted(a, e)
    BY <1>4 DEF SendKept
  <2>2. Receiving(e, a)
    BY <2>1 DEF RendezvousInv, Meetings, Permissions
  <2>3. e # b
    BY <1>1, <1>4, <2>1, <2>2
  <2> QED BY <1>4, <2>2, <2>3 DEF RecvKept
<1>12. Ends'
  BY <1>4 DEF Ends
<1> QED BY <1>5, <1>7, <1>8, <1>9, <1>10, <1>11, <1>12 DEF RendezvousInv, Meetings

LEMMA DeliverPermitStep ==
  ASSUME RendezvousInv, TypeInv', NEW c \in Core, UNCHANGED prog, DeliverPermit(c)
  PROVE  RendezvousInv' /\ UNCHANGED thrown
<1> DEFINE m == in_flight[c]
<1>0. /\ TypeInv /\ UNCHANGED pending_queue
      /\ m.dst \in Core /\ 0 \in Slots(c) /\ Slot(c, 0) = m
      /\ Sends(c, 0, "receiver_ready", m.dst)
  <2>1. TypeInv /\ Arriving(c, "receiver_ready") /\ "receiver_ready" \in DataKind
    BY DEF DeliverPermit, RendezvousInv, DataKind
  <2> QED BY <2>1, Arrives DEF DeliverPermit
<1> PICK a \in Core : a = m.dst
  BY <1>0
<1>1. /\ m.src = c /\ m.tag = send_inst_tag[a] /\ Offering(a, c) /\ Receiving(c, a)
      /\ \A j \in Slots(c) : Is(c, j, "receiver_ready") => j = 0
      /\ \A j \in Slots(a) : ~Is(a, j, "sender_ready") /\ ~Sends(a, j, "send_data", c)
  BY <1>0 DEF RendezvousInv, Meetings, Permits
\* The handler finds what it expects.
<1>2. /\ Delivered(c, Notify(sched, Unit(a), "send_trigger"), "top") /\ UNCHANGED thrown
      /\ UNCHANGED <<pos, u_pc, send_receiver_core_id, send_inst_tag, recv_sender_core_id,
                     recv_waiting_sender_map>>
  BY <1>1 DEF DeliverPermit, Offering, unitVars, processVars, sendVars, recvVars
<1> HIDE DEF m
<1>3. /\ \A d \in Core : d # a => SameUnit(d)
      /\ sched'[Unit(a)] = "runnable"
      /\ SwitchesStayDelayed /\ in_flight' = [in_flight EXCEPT ![c] = NoMessage]
  <2> DEFINE s == Notify(sched, Unit(a), "send_trigger")
  <2>1. /\ s \in [Thread -> SchedState] /\ s[Unit(a)] = "runnable"
        /\ \A e \in Core : e # a => s[Unit(e)] = sched[Unit(e)]
        /\ \A e \in Core : s[Sw(e)] = sched[Sw(e)]
    BY <1>0, <1>1, WokenUnit DEF Offering, Event
  <2> HIDE DEF s
  <2>2. /\ \A d \in Core : sched'[Unit(d)] = s[Unit(d)]
        /\ SwitchesStayDelayed /\ in_flight' = [in_flight EXCEPT ![c] = NoMessage]
    BY <1>0, <1>2, <2>1, Delivers DEF s
  <2> QED BY <1>2, <2>1, <2>2 DEF SameUnit
<1>4. /\ \A d \in Core : d # a => SendKept(d)
      /\ \A d \in Core : RecvKept(d) /\ EndAt(d)'
      /\ \A e \in Core : /\ ~Offering(a, e)' /\ (Permitted(a, e)' => e = c)
                         /\ Offering(a, e) => e = c
  <2>1. \A d \in Core : d # a => SendKept(d) /\ RecvKept(d) /\ EndAt(d)'
    BY <1>2, <1>3, UninvolvedKept DEF RendezvousInv, Ends, Uninvolved
  <2>2. RecvKept(a) /\ \A e \in Core : /\ ~Offering(a, e)' /\ (Permitted(a, e)' => e = c)
                                       /\ Offering(a, e) => e = c
    BY <1>1, <1>2, <1>3 DEF RecvKept, Receiving, Offering, Permitted
  <2>3. EndAt(a)'
    <3>1. EndAt(a) /\ Current(a)' = Current(a)
      BY <1>2 DEF RendezvousInv, Ends, Current
    <3> QED BY <1>1, <1>2, <1>3, <3>1 DEF EndAt, Offering
  <2> QED BY <2>1, <2>2, <2>3
<1>5. Receipts'
  <2> SUFFICES ASSUME NEW d \in Core, NEW e \in Core, At(e, "recv_data")',
                      recv_sender_core_id[e] = d
               PROVE  sched'[Sw(d)] = "delayed"
    BY <1>2 DEF Receipts
  <2>1. At(e, "recv_data")
    BY <1>1, <1>2, <1>3 DEF SameUnit, At, Offering
  <2> QED BY <1>3, <2>1 DEF RendezvousInv, Receipts, SwitchesStayDelayed
<1>6. ASSUME NEW d \in Core, NEW i \in Slots(d)', Slot(d, i)'.kind \in DataKind
      PROVE  /\ i \in Slots(d) /\ Slot(d, i)' = Slot(d, i) /\ ~(d = c /\ i = 0)
             /\ \A kind : Is(d, i, kind)' => Is(d, i, kind)
             /\ \A kind, e : Sends(d, i, kind, e)' => Sends(d, i, kind, e)
  BY <1>0, <1>3, <1>6, OnlyOneGone
<1>7. Offers'
  <2> SUFFICES ASSUME NEW d \in Core, NEW e \in Core, NEW i \in Slots(d)',
                      Sends(d, i, "sender_ready", e)'
               PROVE  /\ Slot(d, i)'.src = d /\ Slot(d, i)'.tag = send_inst_tag[d]
                      /\ Offering(d, e)' /\ recv_waiting_sender_map[e][d] = 0
                      /\ \A j \in Slots(d)' : Is(d, j, "sender_ready")' => i = j
    BY <1>2 DEF Offers
  <2>1. /\ i \in Slots(d) /\ Slot(d, i)' = Slot(d, i) /\ Sends(d, i, "sender_ready", e)
    BY <1>6 DEF Sends, Is, DataKind
  <2>2. d # a
    BY <1>1, <2>1 DEF Sends
  <2>3. \A j \in Slots(d)' : Is(d, j, "sender_ready")' =>
          j \in Slots(d) /\ Is(d, j, "sender_ready")
    BY <1>6 DEF Is, DataKind
  <2>4. /\ Slot(d, i).src = d /\ Slot(d, i).tag = send_inst_tag[d]
        /\ Offering(d, e) /\ recv_waiting_sender_map[e][d] = 0
        /\ \A j \in Slots(d) : Is(d, j, "sender_ready") => i = j
    BY <2>1 DEF RendezvousInv, Meetings, Offers
  <2> QED BY <1>4, <2>1, <2>2, <2>3, <2>4 DEF SendKept
<1>8. Notes'
  <2> SUFFICES ASSUME NEW d \in Core, NEW e \in Core, recv_waiting_sender_map[e][d] # 0
               PROVE  /\ recv_waiting_sender_map[e][d] = send_inst_tag[d]
                      /\ Offering(d, e)' /\ recv_sender_core_id[e] # d
    BY <1>2 DEF Notes
  <2>1. /\ recv_waiting_sender_map[e][d] = send_inst_tag[d]
        /\ Offering(d, e) /\ recv_sender_core_id[e] # d
    BY DEF RendezvousInv, Meetings, Notes
  <2>2. d # a
    BY <1>1, <1>4, <2>1 DEF Receiving
  <2> QED BY <1>4, <2>1, <2>2 DEF SendKept
<1>9. Permits'
  <2> SUFFICES ASSUME NEW d \in Core, NEW e \in Core, NEW i \in Slots(e)',
                      Sends(e, i, "receiver_ready", d)'
               PROVE  /\ Slot(e, i)'.src = e /\ Slot(e, i)'.tag = send_inst_tag[d]
                      /\ Offering(d, e)' /\ Receiving(e, d)'
                      /\ \A j \in Slots(e)' : Is(e, j, "receiver_ready")' => i = j
                      /\ \A j \in Slots(d)' :
                           ~Is(d, j, "sender_ready")' /\ ~Sends(d, j, "send_data", e)'
    BY <1>2 DEF Permits
  <2>1. /\ i \in Slots(e) /\ Slot(e, i)' = Slot(e, i) /\ Sends(e, i, "receiver_ready", d)
        /\ ~(e = c /\ i = 0)
    BY <1>6 DEF Sends, Is, DataKind
  <2>2. /\ Slot(e, i).src = e /\ Slot(e, i).tag = send_inst_tag[d]
        /\ Offering(d, e) /\ Receiving(e, d)
        /\ \A j \in Slots(e) : Is(e, j, "receiver_ready") => i = j
        /\ \A j \in Slots(d) : ~Is(d, j, "sender_ready") /\ ~Sends(d, j, "send_data", e)
    BY <2>1 DEF RendezvousInv, Meetings, Permits
  <2>3. d # a
    BY <1>1, <1>4, <2>1, <2>2 DEF Sends
  <2>4. \A j \in Slots(e)' : Is(e, j, "receiver_ready")' => i = j
    BY <1>6, <2>2 DEF Is, DataKind
  <2>5. \A j \in Slots(d)' : ~Is(d, j, "sender_ready")' /\ ~Sends(d, j, "send_data", e)'
    BY <1>6, <2>2 DEF Sends, Is, DataKind
  <2> QED BY <1>4, <2>1, <2>2, <2>3, <2>4, <2>5 DEF SendKept, RecvKept
<1>10. Deliveries'
  <2> SUFFICES ASSUME NEW d \in Core, NEW e \in Core, NEW i \in Slots(d)',
                      Sends(d, i, "send_data", e)'
               PROVE  /\ Slot(d, i)'.src = d /\ Receiving(e, d)' /\ ~Permitted(d, e)'
                      /\ \A j \in Slots(d)' : /\ Sends(d, j, "send_data", e)' => i = j
                                              /\ Sends(d, j, "sender_ready", e)' => i < j
    BY DEF Deliveries
  <2>1. /\ i \in Slots(d) /\ Slot(d, i)' = Slot(d, i) /\ Sends(d, i, "send_data", e)
    BY <1>6 DEF Sends, Is, DataKind
  <2>2. /\ Slot(d, i).src = d /\ Receiving(e, d) /\ ~Permitted(d, e)
        /\ \A j \in Slots(d) : /\ Sends(d, j, "send_data", e) => i = j
                               /\ Sends(d, j, "sender_ready", e) => i < j
    BY <2>1 DEF RendezvousInv, Meetings, Deliveries
  <2>3. \A j \in Slots(d)' : /\ Sends(d, j, "send_data", e)' => i = j
                             /\ Sends(d, j, "sender_ready", e)' => i < j
    BY <1>6, <2>2 DEF Sends, Is, DataKind
  <2>4. ~Permitted(d, e)'
    BY <1>1, <1>4, <2>1, <2>2 DEF SendKept
  <2> QED BY <1>4, <2>1, <2>2, <2>3, <2>4 DEF RecvKept
<1>11. Permissions'
  <2> SUFFICES ASSUME NEW d \in Core, NEW e \in Core, Permitted(d, e)'
               PROVE  Receiving(e, d)'
    BY DEF Permissions
  <2>1. CASE d = a
    BY <1>1, <1>4, <2>1 DEF RecvKept
  <2>2. CASE d # a
    BY <1>4, <2>2 DEF RendezvousInv, Meetings, Permissions, SendKept, RecvKept
  <2> QED BY <2>1, <2>2
<1>12. Ends'
  BY <1>4 DEF Ends
<1> QED BY <1>2, <1>5, <1>7, <1>8, <1>9, <1>10, <1>11, <1>12 DEF RendezvousInv, Meetings

-----------------------------------------------------------------------------
(* The theorems *)

LEMMA RendezvousInit == Init => RendezvousInv
<1> SUFFICES ASSUME Init PROVE RendezvousInv
  OBVIOUS
<1>1. TypeInv
  BY TypeInit
<1>2. \A c \in Core :
        /\ u_pc[c] = "start" /\ recv_sender_core_id[c] = None
        /\ sched[Unit(c)] \in {"start_exec", "delayed"}
        /\ \A a \in Core : recv_waiting_sender_map[c][a] = 0
  BY Threads DEF Init, Unit
<1>3. \A c \in Core : \A i \in Slots(c) : Slot(c, i).kind \notin DataKind
  <2> SUFFICES ASSUME NEW c \in Core, NEW i \in Slots(c) PROVE Slot(c, i).kind \notin DataKind
    OBVIOUS
  <2>1. pending_queue[c] = <<>> /\ in_flight[c] = NoMessage
    BY DEF Init, SwitchInit
  <2>2. i = 0
    BY <2>1, EmptySeq DEF Slots
  <2> QED BY <2>1, <2>2 DEF Slot, NoMessage, DataKind
<1>4. Ends /\ Receipts
  BY <1>2 DEF Ends, EndAt, Receipts, At
<1>5. Offers /\ Permits /\ Deliveries
  BY <1>3 DEF Offers, Permits, Deliveries, Sends, Is, DataKind
<1>6. Notes /\ Permissions
  BY <1>2 DEF Notes, Permissions, Permitted
<1> QED BY <1>1, <1>4, <1>5, <1>6 DEF RendezvousInv, Meetings

LEMMA RendezvousStep ==
  RendezvousInv /\ ~thrown /\ [Next]_vars => RendezvousInv' /\ ~thrown'
<1> SUFFICES ASSUME RendezvousInv, ~thrown, [Next]_vars PROVE RendezvousInv' /\ ~thrown'
  OBVIOUS
<1>0. TypeInv'
  BY TypeStep DEF RendezvousInv
<1>1. CASE UNCHANGED vars
  <2>1. /\ UNCHANGED <<thrown, prog, pos, u_pc, sched, pending_queue, in_flight>>
        /\ UNCHANGED <<sendVars, recvVars>>
    BY <1>1 DEF vars, switchVars, switchLocals, unitVars, processVars
  <2>2. Moved(Still)
    BY <2>1, NothingPosted DEF RendezvousInv, TypeInv, QueueTypes
  <2>3. SwitchesStayDelayed /\ \A d \in Core : Uninvolved(d)
    BY <2>1 DEF SwitchesStayDelayed, Uninvolved, SameUnit
  <2> QED BY <1>0, <2>1, <2>2, <2>3, Offsets, Bystanders
<1>2. ASSUME NEW c \in Core, UnitStep(c), UNCHANGED prog PROVE RendezvousInv' /\ ~thrown'
  <2>1. RendezvousInv'
    BY <1>0, <1>2, StartSendStep, SendReadsStep, FinishSendStep, StartRecvStep,
       RecvWritesStep, OtherUnitSteps DEF UnitStep
  <2> QED BY <1>2, <2>1 DEF UnitStep
<1>3. ASSUME NEW c \in Core, SwitchStep(c), UNCHANGED prog PROVE RendezvousInv' /\ ~thrown'
  <2>1. CASE PermitSend(c)
    BY <1>0, <1>3, <2>1, PermitSendStep DEF PermitSend
  <2>2. CASE RecordSender(c)
    BY <1>0, <1>3, <2>2, RecordSenderStep DEF RecordSender
  <2>3. CASE DeliverData(c)
    BY <1>0, <1>3, <2>3, DeliverDataStep DEF DeliverData
  <2>4. CASE DeliverPermit(c)
    BY <1>0, <1>3, <2>4, DeliverPermitStep
  <2>5. CASE DeliverSync(c) \/ AccessGlobalMemory(c)
    BY <1>0, <1>3, <2>5, OtherSwitchSteps DEF DeliverSync, AccessGlobalMemory
  <2>6. CASE /\ SwitchContinue(c) \/ SwitchWakes(c) \/ SwitchResponds(c)
             /\ UNCHANGED <<unitVars, thrown>>
    BY <1>0, <1>3, <2>6, OtherSwitchSteps
  <2> QED BY <1>3, <2>1, <2>2, <2>3, <2>4, <2>5, <2>6 DEF SwitchStep
<1>4. ASSUME Elapse, UNCHANGED prog PROVE RendezvousInv' /\ ~thrown'
  BY <1>0, <1>4, TimePasses DEF Elapse
<1>5. CASE Next
  <2>1. Elapse \/ \E c \in Core : UnitStep(c) \/ SwitchStep(c)
    BY <1>5 DEF Next
  <2>2. UNCHANGED prog
    BY <1>5 DEF Next
  <2> QED BY <1>2, <1>3, <1>4, <2>1, <2>2
<1> QED BY <1>1, <1>5

LEMMA RendezvousHolds == Spec => [](RendezvousInv /\ ~thrown)
<1>1. Init => ~thrown
  BY DEF Init
<1> QED BY <1>1, RendezvousInit, RendezvousStep, PTL DEF Spec

\* The receive handler never reaches one of its two throw statements, whatever
\* the programs are, matching or not (TransferUnit.cpp:176-187).
THEOREM NeverThrows == Spec => []NoThrow
<1>1. RendezvousInv /\ ~thrown => NoThrow
  BY DEF NoThrow
<1> QED BY <1>1, RendezvousHolds, PTL

\* A tag noted in recv_waiting_sender_map is of the send its core executes now,
\* and the receiver is not in the recv that answers it.
THEOREM NotedOffersAreCurrent == Spec => []NotedOfferIsCurrent
<1>1. RendezvousInv /\ ~thrown => NotedOfferIsCurrent
  BY DEF RendezvousInv, Meetings, Notes, Offering, NotedOfferIsCurrent, SendBlocked,
         RecvBlocked, WaitsFor
<1> QED BY <1>1, RendezvousHolds, PTL

\* What the properties call the network are the numbered messages.
LEMMA NetworkIsSlots ==
  ASSUME TypeInv, NEW c \in Core, NEW m \in InNetwork(c)
  PROVE  \E i \in Slots(c) : Slot(c, i) = m
<1> DEFINE q == pending_queue[c]
<1>1. q \in Seq(Posted) /\ in_flight[c] \in Posted \cup {NoMessage} /\ Len(q) \in Nat
  BY LenProperties DEF TypeInv, QueueTypes
<1>2. PICK i \in DOMAIN Outgoing(c) : m = Outgoing(c)[i]
  BY DEF InNetwork
<1>3. CASE in_flight[c] = NoMessage
  <2>1. i \in 1..Len(q) /\ m = q[i]
    BY <1>1, <1>2, <1>3, LenProperties DEF Outgoing
  <2> QED BY <1>1, <2>1 DEF Slots, Slot
<1>4. CASE in_flight[c] # NoMessage
  <2> DEFINE o == <<in_flight[c]>> \o q
  <2>1. in_flight[c] \in Posted /\ Outgoing(c) = o
    BY <1>1, <1>4 DEF Outgoing
  <2>2. /\ Len(o) = Len(q) + 1 /\ o \in Seq(Posted)
        /\ \A j \in 1..Len(o) : o[j] = IF j <= 1 THEN in_flight[c] ELSE q[j - 1]
    BY <1>1, <2>1
  <2>3. i \in 1..(Len(q) + 1) /\ m = o[i]
    BY <1>2, <2>1, <2>2, LenProperties
  <2>4. i - 1 \in Slots(c) /\ Slot(c, i - 1) = m
    BY <1>1, <2>2, <2>3 DEF Slots, Slot
  <2> QED BY <2>4
<1> QED BY <1>3, <1>4

\* While a permission travels, both ends still wait for each other.
THEOREM PermitsHaveBothEnds == Spec => []PermitHasBothEnds
<1>1. RendezvousInv /\ ~thrown => PermitHasBothEnds
  <2> SUFFICES ASSUME RendezvousInv, NEW b \in Core, NEW m \in InNetwork(b),
                      m.kind = "receiver_ready"
               PROVE  RecvBlocked(b, m.dst) /\ SendBlocked(m.dst, b)
    BY DEF PermitHasBothEnds
  <2>1. PICK i \in Slots(b) : Slot(b, i) = m
    BY NetworkIsSlots DEF RendezvousInv
  <2>2. m.dst \in Core /\ Sends(b, i, "receiver_ready", m.dst)
    BY <2>1, SlotType DEF RendezvousInv, DataKind, Sends, Is
  <2>3. Offering(m.dst, b) /\ Receiving(b, m.dst)
    BY <2>2 DEF RendezvousInv, Meetings, Permits
  <2> QED BY <2>3 DEF Offering, Receiving, RecvBlocked, SendBlocked, WaitsFor
<1> QED BY <1>1, RendezvousHolds, PTL

\* The data of a send always finds its receiver waiting for this very sender:
\* its notification is not lost, and it is not taken for an offer.
THEOREM DataIsAwaited == Spec => []DataFindsReceiver
<1>1. RendezvousInv /\ ~thrown => DataFindsReceiver
  <2> SUFFICES ASSUME RendezvousInv, NEW a \in Core, NEW m \in InNetwork(a),
                      m.kind = "send_data"
               PROVE  RecvBlocked(m.dst, a)
    BY DEF DataFindsReceiver
  <2>1. PICK i \in Slots(a) : Slot(a, i) = m
    BY NetworkIsSlots DEF RendezvousInv
  <2>2. m.dst \in Core /\ Sends(a, i, "send_data", m.dst)
    BY <2>1, SlotType DEF RendezvousInv, DataKind, Sends, Is
  <2>3. Receiving(m.dst, a)
    BY <2>2 DEF RendezvousInv, Meetings, Deliveries
  <2> QED BY <2>3 DEF Receiving, RecvBlocked, WaitsFor
<1> QED BY <1>1, RendezvousHolds, PTL
=============================================================================
