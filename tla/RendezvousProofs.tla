-------------------------- MODULE RendezvousProofs --------------------------
(***************************************************************************)
(* What the handshake of TransferProofs yields, for any cores and any      *)
(* programs: where a core can stall at all, that no offer is lost or       *)
(* doubled, that sends and recvs meet in program order, that a wait ends   *)
(* exactly at its value, that no signal is lost or doubled, and that the   *)
(* transfer units implement Rendezvous.                                    *)
(***************************************************************************)
EXTENDS TransferProofs, TransferRefinement

-----------------------------------------------------------------------------
(* Where a core may stall: what is not over yet, something on its way will   *)
(* end, unless only a peer can.                                              *)

\* The messages of core d that no handler has seen yet.
Queued(d)   == {pending_queue[d][i] : i \in 1..Len(pending_queue[d])}
Messages(d) == Queued(d) \cup {in_flight[d]}

\* Where a switch is: transporting, asleep at an empty queue, or about to run.
SwitchPlaces ==
  \A d \in Core :
    /\ in_flight[d] # NoMessage <=> sw_pc[d] = "network"
    /\ sched[Sw(d)] \in {"trigger", "runnable", "delayed"}
    /\ sched[Sw(d)] = "trigger" => sw_pc[d] = "empty" /\ pending_queue[d] = <<>>

\* The offer of a's send to b is on its way, noted, or answered.
OfferedBy(a, b)  == \E m \in Messages(a) : m.kind = "sender_ready" /\ m.dst = b
AnsweredBy(b, a) == \E m \in Messages(b) : m.kind = "receiver_ready" /\ m.dst = a
Announced(a, b)  ==
  OfferedBy(a, b) \/ recv_waiting_sender_map[b][a] # 0 \/ AnsweredBy(b, a)
Announcements ==
  \A a \in Core : /\ u_pc[a] \in {"send_ready", "send_read"} => send_inst_tag[a] = pos[a]
                  /\ \A b \in Core : Offering(a, b) => Announced(a, b)

\* A unit that waits for the global memory has an access on its way.
Accesses ==
  \A c \in Core : sched[Unit(c)] = "switch_finish_trigger" =>
    sw_pc[c] = "response" \/ \E m \in Messages(c) : m.kind = "memory"

\* A wait goes on only as long as the register has another value.
Awaits ==
  \A c \in Core : sched[Unit(c)] = "sync_wait_trigger" =>
    /\ u_pc[c] = "wait_event"
    /\ event_register[c][wait_ev_addr[c]] # wait_ev_value[c]

StallInv == SwitchPlaces /\ Announcements /\ Accesses /\ Awaits

-----------------------------------------------------------------------------
(* No message but the one that is delivered is lost *)

LEMMA QueuedPosted ==
  ASSUME TypeInv, NEW p \in Core, NEW m \in Posted, Post(p, m)
  PROVE  /\ Queued(p)' = Queued(p) \cup {m} /\ pending_queue'[p] # <<>>
         /\ \A d \in Core : d # p => pending_queue'[d] = pending_queue[d]
<1>1. pending_queue \in [Core -> Seq(Posted)]
  BY DEF TypeInv, QueueTypes
<1>2. pending_queue' = [pending_queue EXCEPT ![p] = Append(pending_queue[p], m)]
  BY DEF Post, Enqueue
<1> DEFINE q == pending_queue[p]
           n == Len(q)
<1>3. pending_queue'[p] = Append(q, m) /\ q \in Seq(Posted) /\ n \in Nat
  BY <1>1, <1>2, LenProperties
<1>4. /\ Len(Append(q, m)) = n + 1 /\ Append(q, m) # <<>>
      /\ \A i \in 1..n : Append(q, m)[i] = q[i]
      /\ Append(q, m)[n + 1] = m
  BY <1>3, AppendProperties
<1>5. {Append(q, m)[i] : i \in 1..(n + 1)} = {q[i] : i \in 1..n} \cup {m}
  <2> HIDE DEF q, n
  <2>1. 1..(n + 1) = 1..n \cup {n + 1}
    BY <1>3
  <2> QED BY <1>4, <2>1
<1>6. Queued(p)' = Queued(p) \cup {m}
  BY <1>3, <1>4, <1>5 DEF Queued
<1> QED BY <1>1, <1>2, <1>3, <1>4, <1>6

\* What was queued at c is queued or in transport once the front is taken.
LEMMA FrontTaken ==
  ASSUME TypeInv, NEW c \in Core, NEW s, pending_queue[c] # <<>>, PopFront(c, s)
  PROVE  /\ Messages(c)' = Queued(c)
         /\ \A d \in Core : d # c => Messages(d)' = Messages(d)
         /\ in_flight'[c] \in Posted
<1>1. pending_queue \in [Core -> Seq(Posted)] /\ in_flight \in [Core -> Posted \cup {NoMessage}]
  BY DEF TypeInv, QueueTypes
<1> DEFINE q == pending_queue[c]
           n == Len(q)
<1>2. /\ pending_queue' = [pending_queue EXCEPT ![c] = Tail(q)]
      /\ in_flight' = [in_flight EXCEPT ![c] = Head(q)]
  BY DEF PopFront
<1>3. /\ n \in Nat /\ n > 0
      /\ Head(q) = q[1] /\ Len(Tail(q)) = n - 1 /\ Head(q) \in Posted
      /\ \A i \in 1..(n - 1) : Tail(q)[i] = q[i + 1]
  BY <1>1, HeadTailProperties, EmptySeq, LenProperties
<1>4. {Tail(q)[i] : i \in 1..(n - 1)} \cup {Head(q)} = {q[i] : i \in 1..n}
  <2> HIDE DEF q, n
  <2>1. ASSUME NEW i \in 1..(n - 1) PROVE Tail(q)[i] \in {q[j] : j \in 1..n}
    <3>1. i + 1 \in 1..n /\ Tail(q)[i] = q[i + 1]
      BY <1>3
    <3> QED BY <3>1
  <2>2. q[1] \in {q[j] : j \in 1..n}
    BY <1>3
  <2>3. ASSUME NEW j \in 1..n, j # 1 PROVE q[j] \in {Tail(q)[i] : i \in 1..(n - 1)}
    <3>1. j - 1 \in 1..(n - 1) /\ Tail(q)[j - 1] = q[(j - 1) + 1] /\ (j - 1) + 1 = j
      BY <1>3, <2>3
    <3> QED BY <3>1
  <2> QED BY <1>3, <2>1, <2>2, <2>3
<1>5. Messages(c)' = Queued(c)
  BY <1>1, <1>2, <1>3, <1>4 DEF Messages, Queued
<1>6. \A d \in Core : d # c => Messages(d)' = Messages(d)
  BY <1>1, <1>2 DEF Messages, Queued
<1> QED BY <1>1, <1>2, <1>3, <1>5, <1>6

\* A step of unit c that may queue a message at its switch.
Posts(c, s) ==
  \/ \E m \in Posted : Post(c, m) /\ s = Notified(c)
  \/ UNCHANGED pending_queue /\ s = sched

LEMMA NotifiedSwitch ==
  ASSUME TypeInv, NEW p \in Core
  PROVE  /\ Notified(p) \in [Thread -> SchedState]
         /\ \A d \in Core :
              /\ Notified(p)[Unit(d)] = sched[Unit(d)]
              /\ d # p => Notified(p)[Sw(d)] = sched[Sw(d)]
         /\ Notified(p)[Sw(p)] = IF sched[Sw(p)] = "trigger" THEN "runnable" ELSE sched[Sw(p)]
<1>1. sched \in [Thread -> SchedState] /\ Sw(p) \in Thread /\ "trigger" \in Event
  BY Threads DEF TypeInv, Event
<1> QED BY <1>1, NotifyEffect, Threads DEF Notified

\* Queueing does not lose a message, and wakes a switch that is asleep.
LEMMA PostsKeeps ==
  ASSUME TypeInv, SwitchPlaces, NEW c \in Core, NEW s, Posts(c, s)
  PROVE  /\ \A d \in Core : Queued(d) \subseteq Queued(d)'
         /\ s \in [Thread -> SchedState]
         /\ \A d \in Core : s[Unit(d)] = sched[Unit(d)]
         /\ \A d \in Core : /\ s[Sw(d)] \in {"trigger", "runnable", "delayed"}
                            /\ sched[Sw(d)] = "runnable" => s[Sw(d)] = "runnable"
                            /\ s[Sw(d)] = "trigger" =>
                                 sw_pc[d] = "empty" /\ pending_queue'[d] = <<>>
<1>1. CASE UNCHANGED pending_queue /\ s = sched
  BY <1>1 DEF Queued, TypeInv, SwitchPlaces
<1>2. ASSUME NEW m \in Posted, Post(c, m), s = Notified(c)
      PROVE  /\ \A d \in Core : Queued(d) \subseteq Queued(d)'
             /\ s \in [Thread -> SchedState]
             /\ \A d \in Core : s[Unit(d)] = sched[Unit(d)]
             /\ \A d \in Core : /\ s[Sw(d)] \in {"trigger", "runnable", "delayed"}
                                /\ sched[Sw(d)] = "runnable" => s[Sw(d)] = "runnable"
                                /\ s[Sw(d)] = "trigger" =>
                                     sw_pc[d] = "empty" /\ pending_queue'[d] = <<>>
  <2>1. /\ Queued(c)' = Queued(c) \cup {m}
        /\ \A d \in Core : d # c => pending_queue'[d] = pending_queue[d]
    BY <1>2, QueuedPosted
  <2>2. \A d \in Core : Queued(d) \subseteq Queued(d)'
    BY <2>1 DEF Queued
  <2>3. /\ s \in [Thread -> SchedState]
        /\ \A d \in Core : /\ s[Unit(d)] = sched[Unit(d)]
                           /\ d # c => s[Sw(d)] = sched[Sw(d)]
        /\ s[Sw(c)] = IF sched[Sw(c)] = "trigger" THEN "runnable" ELSE sched[Sw(c)]
    BY <1>2, NotifiedSwitch
  <2>4. ASSUME NEW d \in Core
        PROVE  /\ s[Sw(d)] \in {"trigger", "runnable", "delayed"}
               /\ sched[Sw(d)] = "runnable" => s[Sw(d)] = "runnable"
               /\ s[Sw(d)] = "trigger" => sw_pc[d] = "empty" /\ pending_queue'[d] = <<>>
    BY <2>1, <2>3 DEF SwitchPlaces
  <2> QED BY <2>2, <2>3, <2>4
<1> QED BY <1>1, <1>2 DEF Posts

LEMMA UnitPlaces ==
  ASSUME TypeInv, SwitchPlaces, NEW c \in Core, NEW s, Posts(c, s), NEW how,
         sched' = [s EXCEPT ![Unit(c)] = how], UNCHANGED switchLocals
  PROVE  /\ SwitchPlaces'
         /\ \A d \in Core : Messages(d) \subseteq Messages(d)'
         /\ sched'[Unit(c)] = how
         /\ \A d \in Core : d # c => sched'[Unit(d)] = sched[Unit(d)]
<1>1. /\ \A d \in Core : Queued(d) \subseteq Queued(d)'
      /\ s \in [Thread -> SchedState]
      /\ \A d \in Core : s[Unit(d)] = sched[Unit(d)]
      /\ \A d \in Core : /\ s[Sw(d)] \in {"trigger", "runnable", "delayed"}
                         /\ s[Sw(d)] = "trigger" =>
                              sw_pc[d] = "empty" /\ pending_queue'[d] = <<>>
  BY PostsKeeps
<1>2. UNCHANGED <<in_flight, sw_pc>>
  BY DEF switchLocals
<1>3. /\ sched'[Unit(c)] = how
      /\ \A d \in Core : d # c => sched'[Unit(d)] = sched[Unit(d)]
      /\ \A d \in Core : sched'[Sw(d)] = s[Sw(d)]
  BY <1>1, Threads
<1>4. SwitchPlaces'
  BY <1>1, <1>2, <1>3 DEF SwitchPlaces
<1>5. \A d \in Core : Messages(d) \subseteq Messages(d)'
  BY <1>1, <1>2 DEF Messages
<1> QED BY <1>3, <1>4, <1>5

\* A receive handler, run by switch c, returns.
LEMMA HandlerPlaces ==
  ASSUME TypeInv, SwitchPlaces, NEW c \in Core, sched[Sw(c)] = "runnable",
         NEW s \in [Thread -> SchedState], NEW where \in {"top", "response"},
         Delivered(c, s, where),
         \/ \E b \in Core : Posts(b, s)
         \/ UNCHANGED pending_queue /\ \A d \in Core : s[Sw(d)] = sched[Sw(d)]
  PROVE  /\ SwitchPlaces'
         /\ \A d \in Core : \A m \in Messages(d) :
              (d = c /\ m = in_flight[c]) \/ m \in Messages(d)'
         /\ \A d \in Core : sched'[Unit(d)] = s[Unit(d)]
         /\ sw_pc' = [sw_pc EXCEPT ![c] = where]
<1>1. /\ sw_pc' = [sw_pc EXCEPT ![c] = where]
      /\ in_flight' = [in_flight EXCEPT ![c] = NoMessage]
      /\ sched' = [s EXCEPT ![Sw(c)] = "delayed"]
  BY DEF Delivered
<1>2. /\ \A d \in Core : Queued(d) \subseteq Queued(d)'
      /\ \A d \in Core : /\ s[Sw(d)] \in {"trigger", "runnable", "delayed"}
                         /\ s[Sw(d)] = "trigger" =>
                              sw_pc[d] = "empty" /\ pending_queue'[d] = <<>>
  <2>1. CASE \E b \in Core : Posts(b, s)
    BY <2>1, PostsKeeps
  <2>2. CASE UNCHANGED pending_queue /\ \A d \in Core : s[Sw(d)] = sched[Sw(d)]
    BY <2>2 DEF Queued, SwitchPlaces
  <2> QED BY <2>1, <2>2
<1>3. /\ sched'[Sw(c)] = "delayed"
      /\ \A d \in Core : sched'[Unit(d)] = s[Unit(d)] /\ (d # c => sched'[Sw(d)] = s[Sw(d)])
  BY <1>1, Threads
<1>4. /\ sw_pc'[c] = where /\ in_flight'[c] = NoMessage
      /\ \A d \in Core : d # c => sw_pc'[d] = sw_pc[d] /\ in_flight'[d] = in_flight[d]
  BY <1>1 DEF TypeInv, QueueTypes
<1>5. SwitchPlaces'
  <2> SUFFICES ASSUME NEW d \in Core
               PROVE  /\ in_flight'[d] # NoMessage <=> sw_pc'[d] = "network"
                      /\ sched'[Sw(d)] \in {"trigger", "runnable", "delayed"}
                      /\ sched'[Sw(d)] = "trigger" => sw_pc'[d] = "empty" /\ pending_queue'[d] = <<>>
    BY DEF SwitchPlaces
  <2> QED BY <1>2, <1>3, <1>4 DEF SwitchPlaces
<1>6. \A d \in Core : \A m \in Messages(d) :
        (d = c /\ m = in_flight[c]) \/ m \in Messages(d)'
  BY <1>2, <1>4 DEF Messages
<1> QED BY <1>1, <1>3, <1>5, <1>6

\* Switch c goes on: it takes its next message or falls asleep.
LEMMA LoopPlaces ==
  ASSUME TypeInv, SwitchPlaces, NEW c \in Core, NEW s \in [Thread -> SchedState],
         \A d \in Core : s[Sw(d)] = sched[Sw(d)], sw_pc[c] # "network",
         LoopHead(c, s) \/ (pending_queue[c] # <<>> /\ PopFront(c, s))
  PROVE  /\ SwitchPlaces'
         /\ \A d \in Core : \A m \in Messages(d) : m # NoMessage => m \in Messages(d)'
         /\ \A d \in Core : sched'[Unit(d)] = s[Unit(d)]
         /\ \A d \in Core : d # c => sw_pc'[d] = sw_pc[d]
<1>0. in_flight[c] = NoMessage /\ NoMessage \notin Posted
  BY DEF SwitchPlaces, Posted, Message, NoMessage
<1>1. CASE pending_queue[c] # <<>> /\ PopFront(c, s)
  <2>1. /\ sw_pc' = [sw_pc EXCEPT ![c] = "network"] /\ sched' = [s EXCEPT ![Sw(c)] = "delayed"]
        /\ \A d \in Core : d # c => /\ pending_queue'[d] = pending_queue[d]
                                    /\ in_flight'[d] = in_flight[d]
    BY <1>1 DEF PopFront, TypeInv, QueueTypes
  <2>2. /\ sw_pc'[c] = "network" /\ \A d \in Core : d # c => sw_pc'[d] = sw_pc[d]
        /\ sched'[Sw(c)] = "delayed"
        /\ \A d \in Core : sched'[Unit(d)] = s[Unit(d)] /\ (d # c => sched'[Sw(d)] = s[Sw(d)])
    BY <2>1, Threads DEF TypeInv, QueueTypes
  <2>3. /\ Messages(c)' = Queued(c) /\ in_flight'[c] \in Posted
        /\ \A d \in Core : d # c => Messages(d)' = Messages(d)
    BY <1>1, FrontTaken
  <2>4. \A d \in Core : \A m \in Messages(d) : m # NoMessage => m \in Messages(d)'
    BY <1>0, <2>3 DEF Messages
  <2>5. SwitchPlaces'
    BY <1>0, <2>1, <2>2, <2>3 DEF SwitchPlaces
  <2> QED BY <2>2, <2>4, <2>5
<1>2. CASE /\ pending_queue[c] = <<>>
           /\ in_flight' = [in_flight EXCEPT ![c] = NoMessage]
           /\ sw_pc' = [sw_pc EXCEPT ![c] = "empty"]
           /\ sched' = [s EXCEPT ![Sw(c)] = "trigger"]
           /\ UNCHANGED pending_queue
  <2>1. /\ sw_pc'[c] = "empty" /\ in_flight'[c] = NoMessage
        /\ \A d \in Core : d # c => sw_pc'[d] = sw_pc[d] /\ in_flight'[d] = in_flight[d]
        /\ sched'[Sw(c)] = "trigger"
        /\ \A d \in Core : sched'[Unit(d)] = s[Unit(d)] /\ (d # c => sched'[Sw(d)] = s[Sw(d)])
    BY <1>2, Threads DEF TypeInv, QueueTypes
  <2>2. \A d \in Core : \A m \in Messages(d) : m # NoMessage => m \in Messages(d)'
    BY <1>0, <1>2, <2>1 DEF Messages, Queued
  <2>3. SwitchPlaces'
    BY <1>2, <2>1 DEF SwitchPlaces
  <2> QED BY <2>1, <2>2, <2>3
<1> QED BY <1>1, <1>2 DEF LoopHead

-----------------------------------------------------------------------------
(* What keeps the rest of the invariant *)

LEMMA AnnouncementsKept ==
  ASSUME Announcements,
         \A a \in Core : u_pc'[a] \in {"send_ready", "send_read"} =>
           \/ send_inst_tag'[a] = pos'[a]
           \/ /\ u_pc[a] \in {"send_ready", "send_read"}
              /\ send_inst_tag'[a] = send_inst_tag[a] /\ pos'[a] = pos[a],
         \A a, b \in Core : Offering(a, b)' =>
           \/ Announced(a, b)'
           \/ Offering(a, b) /\ (Announced(a, b) => Announced(a, b)')
  PROVE  Announcements'
BY DEF Announcements

LEMMA AnnouncedKept ==
  ASSUME NEW a \in Core, NEW b \in Core, Announced(a, b),
         \A m \in Messages(a) : m.kind = "sender_ready" /\ m.dst = b => m \in Messages(a)',
         \A m \in Messages(b) : m.kind = "receiver_ready" /\ m.dst = a => m \in Messages(b)',
         recv_waiting_sender_map[b][a] # 0 => recv_waiting_sender_map'[b][a] # 0
  PROVE  Announced(a, b)'
BY DEF Announced, OfferedBy, AnsweredBy

LEMMA AccessesKept ==
  ASSUME Accesses,
         \A c \in Core : sched'[Unit(c)] = "switch_finish_trigger" =>
           \/ sw_pc'[c] = "response" \/ \E m \in Messages(c)' : m.kind = "memory"
           \/ /\ sched[Unit(c)] = "switch_finish_trigger" /\ sw_pc[c] # "response"
              /\ \A m \in Messages(c) : m.kind = "memory" => m \in Messages(c)'
  PROVE  Accesses'
BY DEF Accesses

LEMMA AwaitsKept ==
  ASSUME Awaits,
         \A c \in Core : sched'[Unit(c)] = "sync_wait_trigger" =>
           \/ u_pc'[c] = "wait_event" /\ event_register'[c][wait_ev_addr'[c]] # wait_ev_value'[c]
           \/ /\ sched[Unit(c)] = "sync_wait_trigger"
              /\ u_pc'[c] = u_pc[c] /\ event_register'[c] = event_register[c]
              /\ wait_ev_addr'[c] = wait_ev_addr[c] /\ wait_ev_value'[c] = wait_ev_value[c]
  PROVE  Awaits'
BY DEF Awaits

-----------------------------------------------------------------------------
(* The units *)

\* What a step of unit c means for the others, and for its own waits.
LEMMA UnitMeans ==
  ASSUME TypeInv, StallInv, NEW c \in Core, NEW s, Posts(c, s), NEW how, NEW where,
         sched' = [s EXCEPT ![Unit(c)] = how], u_pc' = [u_pc EXCEPT ![c] = where],
         UNCHANGED switchLocals,
         \A d \in Core : d # c => /\ event_register'[d] = event_register[d]
                                  /\ wait_ev_addr'[d] = wait_ev_addr[d]
                                  /\ wait_ev_value'[d] = wait_ev_value[d]
  PROVE  /\ SwitchPlaces'
         /\ \A d \in Core : Messages(d) \subseteq Messages(d)'
         /\ (how = "switch_finish_trigger" => \E m \in Messages(c)' : m.kind = "memory")
              => Accesses'
         /\ how # "sync_wait_trigger" => Awaits'
         /\ u_pc'[c] = where /\ sched'[Unit(c)] = how
         /\ \A d \in Core : d # c => u_pc'[d] = u_pc[d] /\ sched'[Unit(d)] = sched[Unit(d)]
<1>1. /\ SwitchPlaces' /\ sched'[Unit(c)] = how
      /\ \A d \in Core : Messages(d) \subseteq Messages(d)'
      /\ \A d \in Core : d # c => sched'[Unit(d)] = sched[Unit(d)]
  BY UnitPlaces DEF StallInv
<1>2. u_pc'[c] = where /\ \A d \in Core : d # c => u_pc'[d] = u_pc[d]
  BY DEF TypeInv, UnitTypes
<1>3. ASSUME how = "switch_finish_trigger" => \E m \in Messages(c)' : m.kind = "memory"
      PROVE  Accesses'
  <2>1. UNCHANGED sw_pc
    BY DEF switchLocals
  <2>2. \A d \in Core : sched'[Unit(d)] = "switch_finish_trigger" =>
          \/ sw_pc'[d] = "response" \/ \E m \in Messages(d)' : m.kind = "memory"
          \/ /\ sched[Unit(d)] = "switch_finish_trigger" /\ sw_pc[d] # "response"
             /\ \A m \in Messages(d) : m.kind = "memory" => m \in Messages(d)'
    BY <1>1, <1>3, <2>1
  <2> QED BY <2>2, AccessesKept DEF StallInv
<1>4. ASSUME how # "sync_wait_trigger" PROVE Awaits'
  BY <1>1, <1>2, <1>4, AwaitsKept DEF StallInv
<1> QED BY <1>1, <1>2, <1>3, <1>4

\* Unit c neither offers anything nor waits for permission.
LEMMA UnitAnnounces ==
  ASSUME StallInv, NEW c \in Core,
         \A d \in Core : Messages(d) \subseteq Messages(d)',
         \A d \in Core : d # c => /\ u_pc'[d] = u_pc[d] /\ sched'[Unit(d)] = sched[Unit(d)]
                                  /\ pos'[d] = pos[d]
                                  /\ send_receiver_core_id'[d] = send_receiver_core_id[d],
         u_pc'[c] \in {"send_ready", "send_read"} =>
           u_pc[c] \in {"send_ready", "send_read"} /\ pos'[c] = pos[c],
         sched'[Unit(c)] # "send_trigger",
         UNCHANGED <<send_inst_tag, recv_waiting_sender_map>>
  PROVE  Announcements'
<1>1. ASSUME NEW a \in Core, NEW b \in Core, Offering(a, b)'
      PROVE  Offering(a, b) /\ (Announced(a, b) => Announced(a, b)')
  <2>1. a # c
    BY <1>1 DEF Offering
  <2>2. Offering(a, b)
    BY <1>1, <2>1 DEF Offering
  <2> QED BY <2>2, AnnouncedKept
<1>2. \A a \in Core : u_pc'[a] \in {"send_ready", "send_read"} =>
        u_pc[a] \in {"send_ready", "send_read"} /\ pos'[a] = pos[a]
  OBVIOUS
<1> QED BY <1>1, <1>2, AnnouncementsKept DEF StallInv

LEMMA SuspendFacts ==
  ASSUME NEW c \in Core, NEW s, NEW where, NEW how, Suspend(c, s, where, how)
  PROVE  /\ sched' = [s EXCEPT ![Unit(c)] = how] /\ u_pc' = [u_pc EXCEPT ![c] = where]
         /\ UNCHANGED pos
BY DEF Suspend

LEMMA FinishFacts ==
  ASSUME TypeInv, NEW c \in Core, NEW s, Finish(c, s)
  PROVE  /\ \E how \in {"delayed", "start_exec"} : sched' = [s EXCEPT ![Unit(c)] = how]
         /\ u_pc' = [u_pc EXCEPT ![c] = "start"]
         /\ \A d \in Core : d # c => pos'[d] = pos[d]
BY DEF Finish, AwaitInstr, TypeInv, UnitTypes

LEMMA StartSendStalls ==
  ASSUME TypeInv, StallInv, NEW c \in Core, StartSend(c)
  PROVE  StallInv'
<1> DEFINE m == DataMessage("sender_ready", c, Current(c).core, pos[c])
<1>1. /\ u_pc[c] = "start" /\ Current(c).op = "send" /\ sched[Unit(c)] = "runnable"
      /\ Post(c, m) /\ Suspend(c, Notified(c), "send_ready", "send_trigger")
      /\ send_receiver_core_id' = [send_receiver_core_id EXCEPT ![c] = Current(c).core]
      /\ send_inst_tag' = [send_inst_tag EXCEPT ![c] = pos[c]]
      /\ UNCHANGED <<switchLocals, recv_waiting_sender_map, event_register, wait_ev_addr,
                     wait_ev_value>>
  BY DEF StartSend, Starts, At, recvVars, eventVars
<1>2. Current(c).core \in Core /\ pos[c] \in Nat
  BY <1>1, RunningHasInstr, CurrentType DEF TypeInv, UnitTypes
<1>3. m \in Posted /\ m.kind = "sender_ready" /\ m.dst = Current(c).core
  BY <1>2, PostedData DEF DataKind, DataMessage
<1>4. Posts(c, Notified(c)) /\ m \in Messages(c)'
  BY <1>1, <1>3, QueuedPosted DEF Posts, Messages
<1>5. /\ sched' = [Notified(c) EXCEPT ![Unit(c)] = "send_trigger"]
      /\ u_pc' = [u_pc EXCEPT ![c] = "send_ready"] /\ UNCHANGED pos
  BY <1>1, SuspendFacts
<1> HIDE DEF m
<1>6. /\ SwitchPlaces' /\ Accesses' /\ Awaits'
      /\ \A d \in Core : Messages(d) \subseteq Messages(d)'
      /\ \A d \in Core : d # c => u_pc'[d] = u_pc[d] /\ sched'[Unit(d)] = sched[Unit(d)]
  BY <1>1, <1>4, <1>5, UnitMeans
<1>7. /\ send_receiver_core_id'[c] = Current(c).core /\ send_inst_tag'[c] = pos[c]
      /\ \A d \in Core : d # c => /\ send_receiver_core_id'[d] = send_receiver_core_id[d]
                                  /\ send_inst_tag'[d] = send_inst_tag[d]
  BY <1>1 DEF TypeInv, UnitTypes
<1>8. ASSUME NEW a \in Core, NEW b \in Core, Offering(a, b)'
      PROVE  \/ Announced(a, b)'
             \/ Offering(a, b) /\ (Announced(a, b) => Announced(a, b)')
  <2>1. CASE a = c
    <3>1. b = Current(c).core
      BY <1>7, <1>8, <2>1 DEF Offering
    <3> QED BY <1>3, <1>4, <2>1, <3>1 DEF Announced, OfferedBy
  <2>2. CASE a # c
    <3>1. Offering(a, b)
      BY <1>6, <1>7, <1>8, <2>2 DEF Offering
    <3> QED BY <1>1, <1>6, <3>1, AnnouncedKept
  <2> QED BY <2>1, <2>2
<1>9. Announcements'
  BY <1>5, <1>6, <1>7, <1>8, AnnouncementsKept DEF StallInv
<1> QED BY <1>6, <1>9 DEF StallInv

\* Steps of unit c that neither offer a send nor answer an offer.
LEMMA AsideStalls ==
  ASSUME TypeInv, StallInv, NEW c \in Core, NEW s, Posts(c, s),
         NEW how \in SchedState \ {"send_trigger"},
         NEW where \in UnitPc,
         where \in {"send_ready", "send_read"} => u_pc[c] = "send_ready" /\ pos'[c] = pos[c],
         sched' = [s EXCEPT ![Unit(c)] = how], u_pc' = [u_pc EXCEPT ![c] = where],
         \A d \in Core : d # c => pos'[d] = pos[d],
         how = "switch_finish_trigger" => \E m \in Messages(c)' : m.kind = "memory",
         how = "sync_wait_trigger" =>
           where = "wait_event" /\ event_register'[c][wait_ev_addr'[c]] # wait_ev_value'[c],
         \A d \in Core : d # c => /\ event_register'[d] = event_register[d]
                                  /\ wait_ev_addr'[d] = wait_ev_addr[d]
                                  /\ wait_ev_value'[d] = wait_ev_value[d],
         \A d \in Core : d # c => send_receiver_core_id'[d] = send_receiver_core_id[d],
         UNCHANGED <<switchLocals, send_inst_tag, recv_waiting_sender_map>>
  PROVE  StallInv'
<1>1. /\ SwitchPlaces'
      /\ \A d \in Core : Messages(d) \subseteq Messages(d)'
      /\ (how = "switch_finish_trigger" => \E m \in Messages(c)' : m.kind = "memory")
           => Accesses'
      /\ how # "sync_wait_trigger" => Awaits'
      /\ u_pc'[c] = where /\ sched'[Unit(c)] = how
      /\ \A d \in Core : d # c => u_pc'[d] = u_pc[d] /\ sched'[Unit(d)] = sched[Unit(d)]
  BY UnitMeans
<1>2. Announcements'
  BY <1>1, UnitAnnounces
<1>3. Awaits'
  <2>1. CASE how = "sync_wait_trigger"
    BY <1>1, <2>1, AwaitsKept DEF StallInv
  <2> QED BY <1>1, <2>1
<1> QED BY <1>1, <1>2, <1>3 DEF StallInv

LEMMA SendGoesOnStalls ==
  ASSUME TypeInv, StallInv, NEW c \in Core, SendReads(c) \/ FinishSend(c)
  PROVE  StallInv'
<1>0. /\ {"delayed", "start_exec"} \subseteq SchedState \ {"send_trigger"}
      /\ {"send_read", "start"} \subseteq UnitPc
  BY DEF SchedState, Event, UnitPc
<1>1. CASE SendReads(c)
  <2>1. /\ u_pc[c] = "send_ready" /\ Suspend(c, sched, "send_read", "delayed")
        /\ UNCHANGED <<pending_queue, switchLocals, send_receiver_core_id, send_inst_tag,
                       recv_waiting_sender_map, event_register, wait_ev_addr, wait_ev_value>>
    BY <1>1 DEF SendReads, At, sendVars, recvVars, eventVars
  <2>2. /\ sched' = [sched EXCEPT ![Unit(c)] = "delayed"]
        /\ u_pc' = [u_pc EXCEPT ![c] = "send_read"] /\ UNCHANGED pos
        /\ Posts(c, sched)
    BY <2>1, SuspendFacts DEF Posts
  <2> QED BY <1>0, <2>1, <2>2, AsideStalls
<1>2. CASE FinishSend(c)
  <2> DEFINE m == DataMessage("send_data", c, Current(c).core, send_inst_tag[c])
  <2>1. /\ u_pc[c] = "send_read" /\ sched[Unit(c)] = "runnable"
        /\ Post(c, m) /\ Finish(c, Notified(c))
        /\ send_receiver_core_id' = [send_receiver_core_id EXCEPT ![c] = None]
        /\ UNCHANGED <<switchLocals, send_inst_tag, recv_waiting_sender_map, event_register,
                       wait_ev_addr, wait_ev_value>>
    BY <1>2 DEF FinishSend, At, recvVars, eventVars
  <2>2. Current(c).core \in Core /\ send_inst_tag[c] \in Nat
    BY <2>1, RunningHasInstr, CurrentType DEF TypeInv, UnitTypes, UnitWaits
  <2>3. m \in Posted
    BY <2>2, PostedData DEF DataKind
  <2> HIDE DEF m
  <2>4. PICK how \in {"delayed", "start_exec"} :
          sched' = [Notified(c) EXCEPT ![Unit(c)] = how]
    BY <2>1, FinishFacts
  <2>5. /\ u_pc' = [u_pc EXCEPT ![c] = "start"] /\ \A d \in Core : d # c => pos'[d] = pos[d]
        /\ Posts(c, Notified(c))
    BY <2>1, <2>3, FinishFacts DEF Posts
  <2>6. \A d \in Core : d # c => send_receiver_core_id'[d] = send_receiver_core_id[d]
    BY <2>1 DEF TypeInv, UnitTypes
  <2>7. how \in SchedState \ {"send_trigger"} /\ "start" \in UnitPc
    BY <1>0
  <2> QED BY <2>1, <2>4, <2>5, <2>6, <2>7, AsideStalls
<1> QED BY <1>1, <1>2

LEMMA RecvStalls ==
  ASSUME TypeInv, StallInv, NEW c \in Core, StartRecv(c) \/ RecvWrites(c)
  PROVE  StallInv'
<1>1. CASE StartRecv(c)
  <2> DEFINE sender == Current(c).core
             tag    == recv_waiting_sender_map[c][sender]
             m      == DataMessage("receiver_ready", c, sender, tag)
  <2>1. /\ u_pc[c] = "start" /\ Current(c).op = "recv" /\ sched[Unit(c)] = "runnable"
        /\ UNCHANGED <<switchLocals, send_receiver_core_id, send_inst_tag,
                       event_register, wait_ev_addr, wait_ev_value>>
    BY <1>1 DEF StartRecv, Starts, At, sendVars, eventVars
  <2>2. sender \in Core /\ tag \in Nat
    <3>1. sender \in Core
      BY <2>1, RunningHasInstr, CurrentType DEF TypeInv
    <3> QED BY <3>1 DEF TypeInv, UnitTypes
  <2>3. m \in Posted /\ m.kind = "receiver_ready" /\ m.dst = sender
    BY <2>2, PostedData DEF DataKind, DataMessage
  <2>4. /\ "recv_trigger" \in SchedState \ {"send_trigger"}
        /\ "recv_data" \in UnitPc \ {"send_ready", "send_read"}
    BY DEF SchedState, Event, UnitPc
  <2>5. CASE /\ recv_waiting_sender_map' = [recv_waiting_sender_map EXCEPT ![c][sender] = 0]
             /\ Post(c, m) /\ Suspend(c, Notified(c), "recv_data", "recv_trigger")
    <3> HIDE DEF m, tag
    <3>1. Posts(c, Notified(c)) /\ m \in Messages(c)'
      BY <2>3, <2>5, QueuedPosted DEF Posts, Messages
    <3>2. /\ sched' = [Notified(c) EXCEPT ![Unit(c)] = "recv_trigger"]
          /\ u_pc' = [u_pc EXCEPT ![c] = "recv_data"] /\ UNCHANGED pos
      BY <2>5, SuspendFacts
    <3>3. /\ SwitchPlaces' /\ Accesses' /\ Awaits'
          /\ \A d \in Core : Messages(d) \subseteq Messages(d)'
          /\ u_pc'[c] = "recv_data"
          /\ \A d \in Core : d # c => u_pc'[d] = u_pc[d] /\ sched'[Unit(d)] = sched[Unit(d)]
      BY <2>1, <3>1, <3>2, UnitMeans
    <3>4. ASSUME NEW a \in Core, NEW b \in Core, Offering(a, b)'
          PROVE  \/ Announced(a, b)'
                 \/ Offering(a, b) /\ (Announced(a, b) => Announced(a, b)')
      <4>1. a # c /\ Offering(a, b)
        BY <2>1, <3>3, <3>4 DEF Offering
      <4>2. CASE a = sender /\ b = c
        BY <2>3, <3>1, <4>2 DEF Announced, AnsweredBy
      <4>3. CASE ~(a = sender /\ b = c)
        <5>1. recv_waiting_sender_map'[b][a] = recv_waiting_sender_map[b][a]
          <6> HIDE DEF sender
          <6> QED BY <2>2, <2>5, <4>3 DEF TypeInv, UnitTypes
        <5> QED BY <3>3, <4>1, <5>1, AnnouncedKept
      <4> QED BY <4>2, <4>3
    <3>5. Announcements'
      BY <2>1, <3>2, <3>3, <3>4, AnnouncementsKept DEF StallInv
    <3> QED BY <3>3, <3>5 DEF StallInv
  <2>6. CASE /\ Suspend(c, sched, "recv_data", "recv_trigger")
             /\ UNCHANGED <<pending_queue, recv_waiting_sender_map>>
    <3>1. /\ Posts(c, sched)
          /\ sched' = [sched EXCEPT ![Unit(c)] = "recv_trigger"]
          /\ u_pc' = [u_pc EXCEPT ![c] = "recv_data"] /\ UNCHANGED pos
      BY <2>6, SuspendFacts DEF Posts
    <3> QED BY <2>1, <2>4, <2>6, <3>1, AsideStalls
  <2> QED BY <1>1, <2>5, <2>6 DEF StartRecv
<1>2. CASE RecvWrites(c)
  <2>1. /\ Suspend(c, sched, "local", "delayed")
        /\ UNCHANGED <<pending_queue, switchLocals, send_receiver_core_id, send_inst_tag,
                       recv_waiting_sender_map, event_register, wait_ev_addr, wait_ev_value>>
    BY <1>2 DEF RecvWrites, sendVars, eventVars
  <2>2. /\ Posts(c, sched)
        /\ sched' = [sched EXCEPT ![Unit(c)] = "delayed"]
        /\ u_pc' = [u_pc EXCEPT ![c] = "local"] /\ UNCHANGED pos
    BY <2>1, SuspendFacts DEF Posts
  <2>3. /\ "delayed" \in SchedState \ {"send_trigger"}
        /\ "local" \in UnitPc \ {"send_ready", "send_read"}
    BY DEF SchedState, Event, UnitPc
  <2> QED BY <2>1, <2>2, <2>3, AsideStalls
<1> QED BY <1>1, <1>2

LEMMA SyncStalls ==
  ASSUME TypeInv, StallInv, NEW c \in Core, StartSync(c) \/ StartWait(c) \/ FinishWait(c)
  PROVE  StallInv'
<1>0. /\ {"delayed", "start_exec", "sync_wait_trigger"} \subseteq SchedState \ {"send_trigger"}
      /\ {"local", "start", "wait_event"} \subseteq UnitPc \ {"send_ready", "send_read"}
      /\ UNCHANGED <<switchLocals, send_receiver_core_id, send_inst_tag, recv_waiting_sender_map>>
  BY DEF SchedState, Event, UnitPc, StartSync, StartWait, FinishWait, sendVars, recvVars
<1>1. CASE StartSync(c)
  <2> DEFINE m == [kind |-> "sync", src |-> c, dst |-> Current(c).core, tag |-> 0,
                   ev |-> Current(c).ev]
  <2>1. m \in Posted
    <3>1. Current(c) \in Instr /\ Current(c).core \in Core
      BY <1>1, RunningHasInstr, CurrentType DEF StartSync, Starts, At, TypeInv
    <3> QED BY <3>1 DEF Posted, Message, DataKind, Instr
  <2>2. /\ Post(c, m) /\ Suspend(c, Notified(c), "local", "delayed")
        /\ UNCHANGED <<event_register, wait_ev_addr, wait_ev_value>>
    BY <1>1 DEF StartSync, eventVars
  <2> HIDE DEF m
  <2>3. /\ Posts(c, Notified(c))
        /\ sched' = [Notified(c) EXCEPT ![Unit(c)] = "delayed"]
        /\ u_pc' = [u_pc EXCEPT ![c] = "local"] /\ UNCHANGED pos
    BY <2>1, <2>2, SuspendFacts DEF Posts
  <2> QED BY <1>0, <2>2, <2>3, AsideStalls
<1>2. ASSUME NEW ev, ResetEvent(c, ev), UNCHANGED pending_queue PROVE StallInv'
  <2>1. Finish(c, sched)
    BY <1>2 DEF ResetEvent
  <2>2. PICK how \in {"delayed", "start_exec"} : sched' = [sched EXCEPT ![Unit(c)] = how]
    BY <2>1, FinishFacts
  <2>3. /\ u_pc' = [u_pc EXCEPT ![c] = "start"] /\ \A d \in Core : d # c => pos'[d] = pos[d]
        /\ Posts(c, sched)
    BY <1>2, <2>1, FinishFacts DEF Posts
  <2>4. \A d \in Core : d # c => /\ event_register'[d] = event_register[d]
                                 /\ wait_ev_addr'[d] = wait_ev_addr[d]
                                 /\ wait_ev_value'[d] = wait_ev_value[d]
    BY <1>2 DEF ResetEvent, TypeInv, UnitTypes
  <2>5. how \in SchedState \ {"send_trigger"} /\ "start" \in UnitPc \ {"send_ready", "send_read"}
    BY <1>0
  <2> QED BY <1>0, <2>2, <2>3, <2>4, <2>5, AsideStalls
<1>3. CASE StartWait(c)
  <2> DEFINE ev == Current(c).ev
             val == Current(c).val
  <2>1. UNCHANGED pending_queue
    BY <1>3 DEF StartWait
  <2>2. CASE ResetEvent(c, ev)
    BY <1>2, <2>1, <2>2
  <2>3. CASE /\ event_register[c][ev] # val
             /\ wait_ev_addr' = [wait_ev_addr EXCEPT ![c] = ev]
             /\ wait_ev_value' = [wait_ev_value EXCEPT ![c] = val]
             /\ Suspend(c, sched, "wait_event", "sync_wait_trigger")
             /\ UNCHANGED event_register
    <3> HIDE DEF ev, val
    <3>1. /\ Posts(c, sched)
          /\ sched' = [sched EXCEPT ![Unit(c)] = "sync_wait_trigger"]
          /\ u_pc' = [u_pc EXCEPT ![c] = "wait_event"] /\ UNCHANGED pos
      BY <2>1, <2>3, SuspendFacts DEF Posts
    <3>2. event_register'[c][wait_ev_addr'[c]] # wait_ev_value'[c]
      BY <2>3 DEF TypeInv, UnitTypes
    <3>3. \A d \in Core : d # c => /\ event_register'[d] = event_register[d]
                                   /\ wait_ev_addr'[d] = wait_ev_addr[d]
                                   /\ wait_ev_value'[d] = wait_ev_value[d]
      BY <2>3 DEF TypeInv, UnitTypes
    <3> QED BY <1>0, <3>1, <3>2, <3>3, AsideStalls
  <2> QED BY <1>3, <2>2, <2>3 DEF StartWait
<1>4. CASE FinishWait(c)
  BY <1>2, <1>4 DEF FinishWait
<1> QED BY <1>1, <1>3, <1>4

LEMMA MemoryStalls ==
  ASSUME TypeInv, StallInv, NEW c \in Core,
         StartMemory(c) \/ LoadWrites(c) \/ StoreSends(c) \/ FinishLocal(c)
  PROVE  StallInv'
<1>0. /\ {"delayed", "start_exec", "switch_finish_trigger"} \subseteq SchedState \ {"send_trigger"}
      /\ {"local", "start", "load", "store", "store_read"}
           \subseteq UnitPc \ {"send_ready", "send_read"}
      /\ UNCHANGED <<switchLocals, send_receiver_core_id, send_inst_tag, recv_waiting_sender_map, event_register,
                     wait_ev_addr, wait_ev_value>>
  BY DEF SchedState, Event, UnitPc, StartMemory, LoadWrites, StoreSends, FinishLocal, sendVars,
         recvVars,          eventVars
<1>1. MemoryMessage(c) \in Posted /\ MemoryMessage(c).kind = "memory"
  BY DEF MemoryMessage, Posted, Message, DataKind
<1>2. ASSUME NEW where \in {"load", "store"}, Post(c, MemoryMessage(c)),
             Suspend(c, Notified(c), where, "switch_finish_trigger")
      PROVE  StallInv'
  <2>1. /\ Posts(c, Notified(c)) /\ MemoryMessage(c) \in Messages(c)'
        /\ sched' = [Notified(c) EXCEPT ![Unit(c)] = "switch_finish_trigger"]
        /\ u_pc' = [u_pc EXCEPT ![c] = where] /\ UNCHANGED pos
    BY <1>1, <1>2, QueuedPosted, SuspendFacts DEF Posts, Messages
  <2>2. \E m \in Messages(c)' : m.kind = "memory"
    BY <1>1, <2>1
  <2>3. where \in UnitPc \ {"send_ready", "send_read"}
    BY <1>0
  <2> QED BY <1>0, <2>1, <2>2, <2>3, AsideStalls
<1>3. ASSUME NEW where \in {"local", "store_read"}, UNCHANGED pending_queue,
             Suspend(c, sched, where, "delayed")
      PROVE  StallInv'
  <2>1. /\ Posts(c, sched)
        /\ sched' = [sched EXCEPT ![Unit(c)] = "delayed"]
        /\ u_pc' = [u_pc EXCEPT ![c] = where] /\ UNCHANGED pos
    BY <1>3, SuspendFacts DEF Posts
  <2>2. where \in UnitPc \ {"send_ready", "send_read"}
    BY <1>0
  <2> QED BY <1>0, <2>1, <2>2, AsideStalls
<1>4. ASSUME Finish(c, sched), UNCHANGED pending_queue PROVE StallInv'
  <2>1. PICK how \in {"delayed", "start_exec"} : sched' = [sched EXCEPT ![Unit(c)] = how]
    BY <1>4, FinishFacts
  <2>2. /\ u_pc' = [u_pc EXCEPT ![c] = "start"] /\ \A d \in Core : d # c => pos'[d] = pos[d]
        /\ Posts(c, sched)
    BY <1>4, FinishFacts DEF Posts
  <2>3. how \in SchedState \ {"send_trigger"} /\ "start" \in UnitPc \ {"send_ready", "send_read"}
    BY <1>0
  <2> QED BY <1>0, <2>1, <2>2, <2>3, AsideStalls
<1> QED BY <1>2, <1>3, <1>4 DEF StartMemory, LoadWrites, StoreSends, FinishLocal

-----------------------------------------------------------------------------
(* The switches *)

\* What a step of switch c means for the units that are not woken.
LEMMA HandlerMeans ==
  ASSUME TypeInv, StallInv, NEW c \in Core, sched[Sw(c)] = "runnable",
         NEW s \in [Thread -> SchedState], NEW where \in {"top", "response"},
         Delivered(c, s, where),
         \/ \E b \in Core : Posts(b, s)
         \/ UNCHANGED pending_queue /\ \A d \in Core : s[Sw(d)] = sched[Sw(d)],
         \A d \in Core : s[Unit(d)] \in {sched[Unit(d)], "runnable"},
         sw_pc[c] # "response",
         in_flight[c].kind = "memory" => where = "response",
         UNCHANGED <<u_pc, pos, send_receiver_core_id, send_inst_tag, wait_ev_addr,
                     wait_ev_value>>
  PROVE  /\ SwitchPlaces' /\ Accesses'
         /\ UNCHANGED event_register => Awaits'
         /\ \A d \in Core : \A m \in Messages(d) :
              (d = c /\ m = in_flight[c]) \/ m \in Messages(d)'
         /\ \A d \in Core : sched'[Unit(d)] = s[Unit(d)]
         /\ \A a, b \in Core : Offering(a, b)' => Offering(a, b)
         /\ (\A a, b \in Core :
               Offering(a, b)' => Announced(a, b)' \/ (Announced(a, b) => Announced(a, b)'))
              => Announcements'
<1>1. /\ SwitchPlaces'
      /\ \A d \in Core : \A m \in Messages(d) :
           (d = c /\ m = in_flight[c]) \/ m \in Messages(d)'
      /\ \A d \in Core : sched'[Unit(d)] = s[Unit(d)]
      /\ sw_pc' = [sw_pc EXCEPT ![c] = where]
  BY HandlerPlaces DEF StallInv
<1>2. sw_pc'[c] = where /\ \A d \in Core : d # c => sw_pc'[d] = sw_pc[d]
  BY <1>1 DEF TypeInv, QueueTypes
<1>3. Accesses'
  <2> SUFFICES ASSUME NEW d \in Core, sched'[Unit(d)] = "switch_finish_trigger"
               PROVE  \/ sw_pc'[d] = "response" \/ \E m \in Messages(d)' : m.kind = "memory"
                      \/ /\ sched[Unit(d)] = "switch_finish_trigger" /\ sw_pc[d] # "response"
                         /\ \A m \in Messages(d) : m.kind = "memory" => m \in Messages(d)'
    BY AccessesKept DEF StallInv
  <2>1. sched[Unit(d)] = "switch_finish_trigger"
    BY <1>1
  <2> QED BY <1>1, <1>2, <2>1
<1>4. ASSUME UNCHANGED event_register PROVE Awaits'
  BY <1>1, <1>4, AwaitsKept DEF StallInv
<1>5. \A a, b \in Core : Offering(a, b)' => Offering(a, b)
  BY <1>1 DEF Offering
<1>6. ASSUME \A a, b \in Core :
               Offering(a, b)' => Announced(a, b)' \/ (Announced(a, b) => Announced(a, b)')
      PROVE  Announcements'
  BY <1>5, <1>6, AnnouncementsKept DEF StallInv
<1> QED BY <1>1, <1>3, <1>4, <1>5, <1>6

LEMMA PermitSendStalls ==
  ASSUME RendezvousInv, StallInv, NEW c \in Core, PermitSend(c)
  PROVE  StallInv'
<1> DEFINE offer == in_flight[c]
<1>1. /\ TypeInv /\ offer.dst \in Core /\ offer.src \in Core /\ offer.tag \in Nat
      /\ sched[Sw(c)] = "runnable" /\ sw_pc[c] = "network" /\ offer.kind = "sender_ready"
      /\ 0 \in Slots(c) /\ Sends(c, 0, "sender_ready", offer.dst)
  <2>1. TypeInv /\ Arriving(c, "sender_ready") /\ "sender_ready" \in DataKind
    BY DEF PermitSend, RendezvousInv, DataKind
  <2> QED BY <2>1, Arrives DEF Arriving, SwitchAt
<1> PICK b \in Core : b = offer.dst
  BY <1>1
<1> DEFINE answer == DataMessage("receiver_ready", b, offer.src, offer.tag)
<1>2. offer.src = c /\ Offering(c, b)
  <2>1. Slot(c, 0) = offer
    BY DEF Slot
  <2> QED BY <1>1, <2>1 DEF RendezvousInv, Meetings, Offers
<1>3. /\ Post(b, answer) /\ Delivered(c, Notified(b), "top")
      /\ UNCHANGED <<u_pc, pos, send_receiver_core_id, send_inst_tag, recv_waiting_sender_map,
                     event_register, wait_ev_addr, wait_ev_value>>
  BY DEF PermitSend, unitVars, processVars, sendVars, recvVars, eventVars
<1>4. answer \in Posted /\ answer.kind = "receiver_ready" /\ answer.dst = c
  BY <1>1, <1>2, PostedData DEF DataKind, DataMessage
<1> HIDE DEF answer, offer
<1>5. /\ Posts(b, Notified(b)) /\ Notified(b) \in [Thread -> SchedState]
      /\ \A d \in Core : Notified(b)[Unit(d)] = sched[Unit(d)]
      /\ answer \in Messages(b)'
  BY <1>1, <1>3, <1>4, NotifiedSwitch, QueuedPosted DEF Posts, Messages
<1>6. /\ SwitchPlaces' /\ Accesses' /\ Awaits'
      /\ \A d \in Core : \A m \in Messages(d) : (d = c /\ m = offer) \/ m \in Messages(d)'
      /\ \A a, e \in Core : Offering(a, e)' => Offering(a, e)
      /\ (\A a, e \in Core :
            Offering(a, e)' => Announced(a, e)' \/ (Announced(a, e) => Announced(a, e)'))
           => Announcements'
  BY <1>1, <1>3, <1>5, HandlerMeans DEF offer
<1>7. ASSUME NEW a \in Core, NEW e \in Core, Offering(a, e)'
      PROVE  Announced(a, e)' \/ (Announced(a, e) => Announced(a, e)')
  <2>1. CASE a = c
    <3>1. e = b
      BY <1>2, <1>6, <1>7, <2>1 DEF Offering
    <3> QED BY <1>4, <1>5, <2>1, <3>1 DEF Announced, AnsweredBy
  <2>2. CASE a # c
    BY <1>1, <1>3, <1>6, <2>2, AnnouncedKept
  <2> QED BY <2>1, <2>2
<1> QED BY <1>6, <1>7 DEF StallInv

LEMMA RecordSenderStalls ==
  ASSUME RendezvousInv, StallInv, NEW c \in Core, RecordSender(c)
  PROVE  StallInv'
<1> DEFINE m == in_flight[c]
<1>0. /\ TypeInv
      /\ Arriving(c, "sender_ready") \/ Arriving(c, "send_data")
      /\ {"sender_ready", "send_data"} \subseteq DataKind
  BY DEF RecordSender, RendezvousInv, DataKind
<1>1. /\ m.dst \in Core /\ m.src \in Core /\ m.tag \in Nat
      /\ sched[Sw(c)] = "runnable" /\ sw_pc[c] = "network"
      /\ m.kind \in {"sender_ready", "send_data"} /\ 0 \in Slots(c)
      /\ Sends(c, 0, m.kind, m.dst) /\ Slot(c, 0) = m
  BY <1>0, Arrives DEF Arriving, SwitchAt
<1> PICK b \in Core : b = m.dst
  BY <1>1
<1>2. /\ Delivered(c, sched, "top") /\ UNCHANGED pending_queue
      /\ recv_waiting_sender_map' = [recv_waiting_sender_map EXCEPT ![b][m.src] = m.tag]
      /\ UNCHANGED <<u_pc, pos, send_receiver_core_id, send_inst_tag, event_register,
                     wait_ev_addr, wait_ev_value>>
  BY DEF RecordSender, processVars, sendVars, eventVars
\* The note is of an offer, and its tag is not the one that means "none".
<1>3. m.kind = "sender_ready" /\ m.src = c /\ Offering(c, b) /\ m.tag # 0
  <2>1. m.kind # "send_data"
    <3>1. m.kind = "send_data" => m.src = c /\ Receiving(b, c)
      BY <1>1 DEF RendezvousInv, Meetings, Deliveries
    <3> QED BY <3>1 DEF RecordSender, Matches, Receiving
  <2>2. m.kind = "sender_ready"
    BY <1>1, <2>1
  <2>3. m.src = c /\ Offering(c, b) /\ m.tag = send_inst_tag[c]
    BY <1>1, <2>2 DEF RendezvousInv, Meetings, Offers
  <2>4. send_inst_tag[c] = pos[c] /\ pos[c] # 0
    BY <1>0, <2>3 DEF Offering, StallInv, Announcements, TypeInv, UnitTypes
  <2> QED BY <2>2, <2>3, <2>4
<1> HIDE DEF m
<1>4. /\ recv_waiting_sender_map'[b][c] # 0
      /\ \A a, e \in Core : ~(a = c /\ e = b) =>
           recv_waiting_sender_map'[e][a] = recv_waiting_sender_map[e][a]
  BY <1>0, <1>2, <1>3 DEF TypeInv, UnitTypes
<1>5. sched \in [Thread -> SchedState]
  BY <1>0 DEF TypeInv
<1>6. /\ SwitchPlaces' /\ Accesses' /\ Awaits'
      /\ \A d \in Core : \A n \in Messages(d) : (d = c /\ n = m) \/ n \in Messages(d)'
      /\ \A a, e \in Core : Offering(a, e)' => Offering(a, e)
      /\ (\A a, e \in Core :
            Offering(a, e)' => Announced(a, e)' \/ (Announced(a, e) => Announced(a, e)'))
           => Announcements'
  BY <1>0, <1>1, <1>2, <1>3, <1>5, HandlerMeans DEF m
<1>7. ASSUME NEW a \in Core, NEW e \in Core, Offering(a, e)'
      PROVE  Announced(a, e)' \/ (Announced(a, e) => Announced(a, e)')
  <2>1. CASE a = c
    <3>1. e = b
      BY <1>3, <1>6, <1>7, <2>1 DEF Offering
    <3> QED BY <1>4, <2>1, <3>1 DEF Announced
  <2>2. CASE a # c
    BY <1>3, <1>4, <1>6, <2>2, AnnouncedKept
  <2> QED BY <2>1, <2>2
<1> QED BY <1>6, <1>7 DEF StallInv

LEMMA DeliverStalls ==
  ASSUME RendezvousInv, StallInv, NEW c \in Core, DeliverData(c) \/ DeliverPermit(c), ~thrown'
  PROVE  StallInv'
<1> DEFINE m == in_flight[c]
<1>0. /\ TypeInv /\ UNCHANGED pending_queue
      /\ UNCHANGED <<u_pc, pos, send_receiver_core_id, send_inst_tag, recv_waiting_sender_map,
                     event_register, wait_ev_addr, wait_ev_value>>
  BY DEF DeliverData, DeliverPermit, RendezvousInv, unitVars, processVars, sendVars, recvVars,
         eventVars
<1>1. ASSUME NEW kind \in {"send_data", "receiver_ready"},
             NEW event \in {"recv_trigger", "send_trigger"}, Arriving(c, kind),
             Delivered(c, Notify(sched, Unit(m.dst), event), "top"),
             kind = "receiver_ready" => event = "send_trigger"
      PROVE  StallInv'
  <2>1. /\ m.dst \in Core /\ sched[Sw(c)] = "runnable" /\ sw_pc[c] = "network"
        /\ m.kind = kind /\ 0 \in Slots(c) /\ Slot(c, 0) = m /\ Sends(c, 0, kind, m.dst)
        /\ kind # "memory" /\ event \in Event
    BY <1>0, <1>1, Arrives DEF Arriving, SwitchAt, DataKind, Event
  <2> PICK d \in Core : d = m.dst
    BY <2>1
  <2> DEFINE s == Notify(sched, Unit(d), event)
  <2>2. /\ s \in [Thread -> SchedState]
        /\ s[Unit(d)] = IF sched[Unit(d)] = event THEN "runnable" ELSE sched[Unit(d)]
        /\ \A e \in Core : /\ e # d => s[Unit(e)] = sched[Unit(e)]
                           /\ s[Sw(e)] = sched[Sw(e)]
    BY <1>0, <2>1, WokenUnit
  <2>3. Delivered(c, s, "top")
    BY <1>1
  <2> HIDE DEF m, s
  <2>4. \A e \in Core : s[Unit(e)] \in {sched[Unit(e)], "runnable"}
    BY <2>2
  <2>5. /\ SwitchPlaces' /\ Accesses' /\ Awaits'
        /\ \A e \in Core : \A n \in Messages(e) : (e = c /\ n = m) \/ n \in Messages(e)'
        /\ \A e \in Core : sched'[Unit(e)] = s[Unit(e)]
        /\ \A a, b \in Core : Offering(a, b)' => Offering(a, b)
        /\ (\A a, b \in Core :
              Offering(a, b)' => Announced(a, b)' \/ (Announced(a, b) => Announced(a, b)'))
             => Announcements'
    BY <1>0, <2>1, <2>2, <2>3, <2>4, HandlerMeans DEF m
  <2>6. ASSUME NEW a \in Core, NEW b \in Core, Offering(a, b)'
        PROVE  Announced(a, b)' \/ (Announced(a, b) => Announced(a, b)')
    <3>1. CASE kind = "receiver_ready" /\ a = d
      BY <1>1, <2>2, <2>5, <2>6, <3>1 DEF Offering
    <3>2. CASE ~(kind = "receiver_ready" /\ a = d)
      <4>1. \A n \in Messages(a) : n.kind = "sender_ready" /\ n.dst = b => n \in Messages(a)'
        BY <1>1, <2>1, <2>5
      <4>2. \A n \in Messages(b) : n.kind = "receiver_ready" /\ n.dst = a => n \in Messages(b)'
        BY <1>1, <2>1, <2>5, <3>2
      <4> QED BY <1>0, <4>1, <4>2, AnnouncedKept
    <3> QED BY <3>1, <3>2
  <2> QED BY <2>5, <2>6 DEF StallInv
<1>2. CASE DeliverData(c)
  BY <1>1, <1>2 DEF DeliverData
<1>3. CASE DeliverPermit(c)
  BY <1>1, <1>3 DEF DeliverPermit
<1> QED BY <1>2, <1>3

LEMMA OtherHandlersStall ==
  ASSUME TypeInv, StallInv, NEW c \in Core, DeliverSync(c) \/ AccessGlobalMemory(c)
  PROVE  StallInv'
<1> DEFINE m == in_flight[c]
<1>1. /\ UNCHANGED pending_queue
      /\ UNCHANGED <<u_pc, pos, send_receiver_core_id, send_inst_tag, recv_waiting_sender_map,
                     wait_ev_addr, wait_ev_value>>
      /\ sched \in [Thread -> SchedState]
      /\ sched[Sw(c)] = "runnable" /\ sw_pc[c] = "network"
  BY DEF DeliverSync, AccessGlobalMemory, TypeInv, Arriving, SwitchAt, unitVars, processVars,
         sendVars, recvVars, eventVars
\* Neither message is part of a rendezvous.
<1>2. ASSUME m.kind \in {"sync", "memory"},
             \A d \in Core : \A n \in Messages(d) : (d = c /\ n = m) \/ n \in Messages(d)',
             (\A a, b \in Core :
                Offering(a, b)' => Announced(a, b)' \/ (Announced(a, b) => Announced(a, b)'))
               => Announcements'
      PROVE  Announcements'
  <2>1. ASSUME NEW a \in Core, NEW b \in Core, Announced(a, b) PROVE Announced(a, b)'
    BY <1>1, <1>2, <2>1, AnnouncedKept
  <2> QED BY <1>2, <2>1
<1>3. CASE AccessGlobalMemory(c)
  <2>1. /\ Delivered(c, sched, "response") /\ m.kind = "memory" /\ UNCHANGED event_register
    BY <1>3 DEF AccessGlobalMemory, Arriving, unitVars, eventVars
  <2>2. /\ SwitchPlaces' /\ Accesses' /\ Awaits'
        /\ \A d \in Core : \A n \in Messages(d) : (d = c /\ n = m) \/ n \in Messages(d)'
        /\ (\A a, b \in Core :
              Offering(a, b)' => Announced(a, b)' \/ (Announced(a, b) => Announced(a, b)'))
             => Announcements'
    BY <1>1, <2>1, HandlerMeans
  <2> QED BY <1>2, <2>1, <2>2 DEF StallInv
<1>4. CASE DeliverSync(c)
  <2> DEFINE value   == event_register[m.dst][m.ev] + 1
             awaited == wait_ev_addr[m.dst] = m.ev /\ wait_ev_value[m.dst] = value
             s == IF awaited THEN Notify(sched, Unit(m.dst), "sync_wait_trigger") ELSE sched
  <2>1. /\ m.kind = "sync" /\ m.dst \in Core /\ m.ev \in EventRegister
        /\ "sync_wait_trigger" \in Event
        /\ event_register' = [event_register EXCEPT ![m.dst][m.ev] = value]
        /\ Delivered(c, s, "top")
    <3>1. m.dst \in Core /\ m.ev \in EventRegister
      BY <1>4, ArrivingType DEF DeliverSync
    <3> QED BY <1>4, <3>1 DEF DeliverSync, Arriving, Event
  <2> PICK d \in Core : d = m.dst
    BY <2>1
  <2>2. /\ s \in [Thread -> SchedState]
        /\ \A e \in Core : s[Sw(e)] = sched[Sw(e)]
        /\ \A e \in Core : s[Unit(e)] \in {sched[Unit(e)], "runnable"}
        /\ awaited => s[Unit(d)] # "sync_wait_trigger"
    <3>1. CASE awaited
      <4>1. s = Notify(sched, Unit(d), "sync_wait_trigger")
        BY <3>1
      <4> HIDE DEF s, awaited
      <4> QED BY <2>1, <4>1, WokenUnit
    <3>2. CASE ~awaited
      BY <1>1, <3>2
    <3> QED BY <3>1, <3>2
  <2>3. /\ event_register'[d][m.ev] = value
        /\ \A e \in Core : \A r \in EventRegister : ~(e = d /\ r = m.ev) =>
             event_register'[e][r] = event_register[e][r]
        /\ \A e \in Core : e # d => event_register'[e] = event_register[e]
    BY <2>1 DEF TypeInv, UnitTypes
  <2>4. awaited <=> wait_ev_addr[d] = m.ev /\ wait_ev_value[d] = event_register'[d][m.ev]
    BY <2>3
  <2> HIDE DEF m, s, value, awaited
  <2>5. /\ SwitchPlaces' /\ Accesses'
        /\ \A e \in Core : \A n \in Messages(e) : (e = c /\ n = m) \/ n \in Messages(e)'
        /\ \A e \in Core : sched'[Unit(e)] = s[Unit(e)]
        /\ (\A a, b \in Core :
              Offering(a, b)' => Announced(a, b)' \/ (Announced(a, b) => Announced(a, b)'))
             => Announcements'
    BY <1>1, <2>1, <2>2, HandlerMeans DEF m
  <2>6. ASSUME NEW e \in Core, sched'[Unit(e)] = "sync_wait_trigger"
        PROVE  /\ u_pc'[e] = "wait_event"
               /\ event_register'[e][wait_ev_addr'[e]] # wait_ev_value'[e]
    <3>1. /\ sched[Unit(e)] = "sync_wait_trigger" /\ u_pc[e] = "wait_event"
          /\ event_register[e][wait_ev_addr[e]] # wait_ev_value[e]
          /\ wait_ev_addr[e] \in EventRegister
      BY <2>2, <2>5, <2>6 DEF StallInv, Awaits, TypeInv, UnitWaits
    <3>2. CASE e = d /\ wait_ev_addr[e] = m.ev
      BY <1>1, <2>2, <2>4, <2>5, <2>6, <3>1, <3>2
    <3>3. CASE ~(e = d /\ wait_ev_addr[e] = m.ev)
      BY <1>1, <2>3, <3>1, <3>3
    <3> QED BY <3>2, <3>3
  <2>7. Awaits'
    BY <2>6 DEF Awaits
  <2> QED BY <1>2, <2>1, <2>5, <2>7 DEF StallInv
<1> QED BY <1>3, <1>4

LEMMA LoopStalls ==
  ASSUME TypeInv, StallInv, NEW c \in Core, UNCHANGED unitVars,
         SwitchContinue(c) \/ SwitchWakes(c) \/ SwitchResponds(c)
  PROVE  StallInv'
<1> DEFINE Finishing == Notify(sched, Unit(c), "switch_finish_trigger")
<1>1. /\ UNCHANGED <<u_pc, pos, send_receiver_core_id, send_inst_tag, recv_waiting_sender_map,
                     event_register, wait_ev_addr, wait_ev_value>>
      /\ sched \in [Thread -> SchedState] /\ "switch_finish_trigger" \in Event
  BY DEF TypeInv, Event, unitVars, processVars, sendVars, recvVars, eventVars
<1>2. /\ Finishing \in [Thread -> SchedState]
      /\ \A d \in Core : /\ Finishing[Sw(d)] = sched[Sw(d)]
                         /\ Finishing[Unit(d)] \in {sched[Unit(d)], "runnable"}
      /\ Finishing[Unit(c)] # "switch_finish_trigger"
  BY <1>1, WokenUnit
<1> HIDE DEF Finishing
<1>3. PICK s \in {sched, Finishing} :
        /\ sw_pc[c] # "network"
        /\ LoopHead(c, s) \/ (pending_queue[c] # <<>> /\ PopFront(c, s))
        /\ sw_pc[c] = "response" => s = Finishing
  <2>1. CASE SwitchContinue(c)
    BY <2>1 DEF SwitchContinue, SwitchAt
  <2>2. CASE SwitchWakes(c)
    BY <2>2 DEF SwitchWakes, SwitchAt, TypeInv, SwitchWaits
  <2>3. CASE SwitchResponds(c)
    BY <2>3 DEF SwitchResponds, SwitchAt, Finishing
  <2> QED BY <2>1, <2>2, <2>3
<1>4. /\ s \in [Thread -> SchedState]
      /\ \A d \in Core : s[Sw(d)] = sched[Sw(d)] /\ s[Unit(d)] \in {sched[Unit(d)], "runnable"}
      /\ sw_pc[c] = "response" => s[Unit(c)] # "switch_finish_trigger"
  BY <1>1, <1>2, <1>3
<1>5. /\ SwitchPlaces'
      /\ \A d \in Core : \A m \in Messages(d) : m # NoMessage => m \in Messages(d)'
      /\ \A d \in Core : sched'[Unit(d)] = s[Unit(d)]
      /\ \A d \in Core : d # c => sw_pc'[d] = sw_pc[d]
  BY <1>3, <1>4, LoopPlaces DEF StallInv
<1>6. \A d \in Core : \A m \in Messages(d) :
        m.kind \in {"memory", "sender_ready", "receiver_ready"} => m \in Messages(d)'
  BY <1>5 DEF NoMessage
<1>7. Accesses'
  <2> SUFFICES ASSUME NEW d \in Core, sched'[Unit(d)] = "switch_finish_trigger"
               PROVE  \/ sw_pc'[d] = "response" \/ \E m \in Messages(d)' : m.kind = "memory"
                      \/ /\ sched[Unit(d)] = "switch_finish_trigger" /\ sw_pc[d] # "response"
                         /\ \A m \in Messages(d) : m.kind = "memory" => m \in Messages(d)'
    BY AccessesKept DEF StallInv
  <2>1. sched[Unit(d)] = "switch_finish_trigger" /\ s[Unit(d)] = "switch_finish_trigger"
    BY <1>4, <1>5
  <2> QED BY <1>4, <1>5, <1>6, <2>1
<1>8. Awaits'
  BY <1>1, <1>4, <1>5, AwaitsKept DEF StallInv
<1>9. Announcements'
  <2>1. ASSUME NEW a \in Core, NEW b \in Core, Offering(a, b)'
        PROVE  Offering(a, b) /\ (Announced(a, b) => Announced(a, b)')
    <3>1. Offering(a, b)
      BY <1>1, <1>4, <1>5, <2>1 DEF Offering
    <3> QED BY <1>1, <1>6, <3>1, AnnouncedKept
  <2> QED BY <1>1, <2>1, AnnouncementsKept DEF StallInv
<1> QED BY <1>5, <1>7, <1>8, <1>9 DEF StallInv

LEMMA ElapseStalls ==
  ASSUME TypeInv, StallInv, Elapse
  PROVE  StallInv'
<1>1. UNCHANGED <<u_pc, pos, send_receiver_core_id, send_inst_tag, recv_waiting_sender_map,
                  event_register, wait_ev_addr, wait_ev_value>>
  BY DEF Elapse, unitVars, processVars, sendVars, recvVars, eventVars
<1>2. PICK P \in SUBSET Delayed : Release(P)
  BY DEF Elapse
<1>3. /\ UNCHANGED <<pending_queue, in_flight, sw_pc>>
      /\ \A p \in Thread : sched'[p] \in {sched[p], "runnable"}
  BY <1>2 DEF Release, switchLocals
<1>4. \A d \in Core : Messages(d)' = Messages(d)
  BY <1>3 DEF Messages, Queued
<1>5. SwitchPlaces'
  BY <1>3, Threads DEF StallInv, SwitchPlaces
<1>6. Accesses'
  BY <1>3, <1>4, Threads DEF StallInv, Accesses
<1>7. Awaits'
  BY <1>1, <1>3, Threads, AwaitsKept DEF StallInv
<1>8. Announcements'
  <2>1. ASSUME NEW a \in Core, NEW b \in Core, Offering(a, b)'
        PROVE  Offering(a, b) /\ (Announced(a, b) => Announced(a, b)')
    <3>1. Offering(a, b)
      BY <1>1, <1>3, <2>1, Threads DEF Offering
    <3> QED BY <1>1, <1>4, <3>1, AnnouncedKept
  <2> QED BY <1>1, <2>1, AnnouncementsKept DEF StallInv
<1> QED BY <1>5, <1>6, <1>7, <1>8 DEF StallInv

-----------------------------------------------------------------------------
(* The invariant of stalls *)

LEMMA StallInit == Init => StallInv
<1> SUFFICES ASSUME Init PROVE StallInv
  OBVIOUS
<1>1. \A c \in Core :
        /\ u_pc[c] = "start" /\ sched[Unit(c)] \in {"start_exec", "delayed"}
        /\ sched[Sw(c)] = "runnable" /\ sw_pc[c] = "top" /\ in_flight[c] = NoMessage
  BY Threads DEF Init, SwitchInit, Unit, Sw
<1>2. SwitchPlaces
  BY <1>1 DEF SwitchPlaces
<1> QED BY <1>1, <1>2 DEF StallInv, Announcements, Offering, Accesses, Awaits

LEMMA StallStep ==
  RendezvousInv /\ ~thrown /\ StallInv /\ [Next]_vars => StallInv'
<1> SUFFICES ASSUME RendezvousInv, ~thrown, StallInv, [Next]_vars PROVE StallInv'
  OBVIOUS
<1>0. TypeInv /\ ~thrown'
  BY RendezvousStep DEF RendezvousInv
<1>1. CASE UNCHANGED vars
  <2>1. UNCHANGED <<prog, pos, u_pc, sched, pending_queue, in_flight, sw_pc,
                    send_receiver_core_id, send_inst_tag, recv_waiting_sender_map,
                    event_register, wait_ev_addr, wait_ev_value>>
    BY <1>1 DEF vars, switchVars, switchLocals, unitVars, processVars, sendVars, recvVars,
                eventVars
  <2>2. \A d \in Core : Messages(d)' = Messages(d)
    BY <2>1 DEF Messages, Queued
  <2>3. SwitchPlaces' /\ Accesses' /\ Awaits'
    BY <2>1, <2>2 DEF StallInv, SwitchPlaces, Accesses, Awaits
  <2>4. Announcements'
    BY <2>1, <2>2 DEF StallInv, Announcements, Offering, Announced, OfferedBy, AnsweredBy
  <2> QED BY <2>3, <2>4 DEF StallInv
<1>2. ASSUME NEW c \in Core, UnitStep(c) PROVE StallInv'
  BY <1>0, <1>2, StartSendStalls, SendGoesOnStalls, RecvStalls, SyncStalls, MemoryStalls
     DEF UnitStep
<1>3. ASSUME NEW c \in Core, SwitchStep(c) PROVE StallInv'
  BY <1>0, <1>3, PermitSendStalls, RecordSenderStalls, DeliverStalls, OtherHandlersStall,
     LoopStalls DEF SwitchStep
<1>4. ASSUME Elapse PROVE StallInv'
  BY <1>0, <1>4, ElapseStalls
<1>5. CASE Next
  BY <1>2, <1>3, <1>4, <1>5 DEF Next
<1> QED BY <1>1, <1>5

LEMMA StallHolds == Spec => [](RendezvousInv /\ ~thrown /\ StallInv)
<1>1. Init => RendezvousInv /\ ~thrown /\ StallInv
  BY RendezvousInit, StallInit DEF Init
<1>2. RendezvousInv /\ ~thrown /\ StallInv /\ [Next]_vars =>
        (RendezvousInv /\ ~thrown /\ StallInv)'
  BY RendezvousStep, StallStep
<1> QED BY <1>1, <1>2, PTL DEF Spec

\* When nothing can happen any more, no message is left, no load or store is
\* unanswered, no awaited value has been reached, and no two cores wait for
\* each other: only a peer that never comes blocks a core.
THEOREM OnlyPeersStall == Spec => []StallsOnlyForPeers
<1>1. RendezvousInv /\ ~thrown /\ StallInv => StallsOnlyForPeers
  <2> SUFFICES ASSUME RendezvousInv, StallInv, Stalled, NEW a \in Core
               PROVE  /\ Outgoing(a) = <<>>
                      /\ ~WaitsFor(a, "switch_finish_trigger")
                      /\ WaitsFor(a, "sync_wait_trigger") =>
                           event_register[a][wait_ev_addr[a]] # wait_ev_value[a]
                      /\ \A b \in Core : ~(SendBlocked(a, b) /\ RecvBlocked(b, a))
    BY DEF StallsOnlyForPeers
  <2>1. \A c \in Core : /\ sw_pc[c] = "empty" /\ pending_queue[c] = <<>>
                        /\ in_flight[c] = NoMessage /\ Messages(c) = {NoMessage}
    <3> SUFFICES ASSUME NEW c \in Core
                 PROVE  /\ sw_pc[c] = "empty" /\ pending_queue[c] = <<>>
                        /\ in_flight[c] = NoMessage /\ Messages(c) = {NoMessage}
      OBVIOUS
    <3>1. sched[Sw(c)] = "trigger"
      BY Threads DEF Stalled, StallInv, SwitchPlaces
    <3>2. sw_pc[c] = "empty" /\ pending_queue[c] = <<>> /\ in_flight[c] = NoMessage
      BY <3>1 DEF StallInv, SwitchPlaces
    <3>3. Queued(c) = {}
      BY <3>2, EmptySeq DEF Queued
    <3> QED BY <3>2, <3>3 DEF Messages
  <2>2. Outgoing(a) = <<>>
    BY <2>1 DEF Outgoing
  <2>3. ~WaitsFor(a, "switch_finish_trigger")
    BY <2>1 DEF WaitsFor, StallInv, Accesses, NoMessage
  <2>4. WaitsFor(a, "sync_wait_trigger") =>
          event_register[a][wait_ev_addr[a]] # wait_ev_value[a]
    BY DEF WaitsFor, StallInv, Awaits
  <2>5. ASSUME NEW b \in Core, SendBlocked(a, b), RecvBlocked(b, a) PROVE FALSE
    <3>1. Offering(a, b)
      BY <2>5 DEF SendBlocked, WaitsFor, RendezvousInv, Ends, EndAt, Offering
    <3>2. recv_waiting_sender_map[b][a] # 0
      BY <2>1, <3>1 DEF StallInv, Announcements, Announced, OfferedBy, AnsweredBy, NoMessage
    <3>3. recv_sender_core_id[b] # a
      BY <3>2 DEF RendezvousInv, Meetings, Notes
    <3> QED BY <2>5, <3>3 DEF RecvBlocked
  <2> QED BY <2>2, <2>3, <2>4, <2>5
<1> QED BY <1>1, StallHolds, PTL

-----------------------------------------------------------------------------
(* An offer is in exactly one place *)

\* The messages on their way, counted from 1, are the numbered ones.
LEMMA OutgoingIsSlots ==
  ASSUME TypeInv, NEW c \in Core
  PROVE  \E off \in {0, 1} :
           /\ DOMAIN Outgoing(c) \subseteq Nat
           /\ \A k \in DOMAIN Outgoing(c) :
                k - off \in Slots(c) /\ Outgoing(c)[k] = Slot(c, k - off)
           /\ \A i \in Slots(c) : Slot(c, i) # NoMessage => i + off \in DOMAIN Outgoing(c)
<1> DEFINE q == pending_queue[c]
<1>1. q \in Seq(Posted) /\ in_flight[c] \in Posted \cup {NoMessage} /\ Len(q) \in Nat
  BY LenProperties DEF TypeInv, QueueTypes
<1>2. CASE in_flight[c] = NoMessage
  <2>1. Outgoing(c) = q /\ DOMAIN Outgoing(c) = 1..Len(q)
    BY <1>1, <1>2, LenProperties DEF Outgoing
  <2>2. \A k \in 1..Len(q) : k \in Nat /\ k - 0 \in Slots(c) /\ q[k] = Slot(c, k - 0)
    BY <1>1 DEF Slots, Slot
  <2>3. \A i \in Slots(c) : Slot(c, i) # NoMessage => i + 0 \in 1..Len(q)
    BY <1>1, <1>2 DEF Slots, Slot
  <2> QED BY <2>1, <2>2, <2>3
<1>3. CASE in_flight[c] # NoMessage
  <2> DEFINE o == <<in_flight[c]>> \o q
  <2>1. in_flight[c] \in Posted /\ Outgoing(c) = o
    BY <1>1, <1>3 DEF Outgoing
  <2>2. /\ Len(o) = Len(q) + 1 /\ o \in Seq(Posted)
        /\ \A j \in 1..Len(o) : o[j] = IF j <= 1 THEN in_flight[c] ELSE q[j - 1]
    BY <1>1, <2>1
  <2>3. DOMAIN Outgoing(c) = 1..(Len(q) + 1)
    BY <2>1, <2>2, LenProperties
  <2>4. \A k \in 1..(Len(q) + 1) : k \in Nat /\ k - 1 \in Slots(c) /\ o[k] = Slot(c, k - 1)
    BY <1>1, <2>2 DEF Slots, Slot
  <2>5. \A i \in Slots(c) : i + 1 \in 1..(Len(q) + 1)
    BY <1>1 DEF Slots
  <2> QED BY <2>1, <2>3, <2>4, <2>5
<1> QED BY <1>2, <1>3

LEMMA NoCopies ==
  ASSUME TypeInv, NEW c \in Core, NEW m, \A i \in Slots(c) : Slot(c, i) # m
  PROVE  Copies(c, m) = 0
<1>1. {k \in DOMAIN Outgoing(c) : Outgoing(c)[k] = m} = {}
  BY OutgoingIsSlots
<1> QED BY <1>1, FS_EmptySet DEF Copies

LEMMA OneCopy ==
  ASSUME TypeInv, NEW c \in Core, NEW m, m # NoMessage,
         NEW i \in Slots(c), Slot(c, i) = m, \A j \in Slots(c) : Slot(c, j) = m => i = j
  PROVE  Copies(c, m) = 1
<1>1. PICK off \in {0, 1} :
        /\ DOMAIN Outgoing(c) \subseteq Nat
        /\ \A k \in DOMAIN Outgoing(c) :
             k - off \in Slots(c) /\ Outgoing(c)[k] = Slot(c, k - off)
        /\ \A j \in Slots(c) : Slot(c, j) # NoMessage => j + off \in DOMAIN Outgoing(c)
  BY OutgoingIsSlots
<1>2. i \in Nat /\ i + off \in DOMAIN Outgoing(c) /\ (i + off) - off = i
  BY <1>1, SlotType
<1>3. Outgoing(c)[i + off] = m
  BY <1>1, <1>2
<1>4. ASSUME NEW k \in DOMAIN Outgoing(c), Outgoing(c)[k] = m PROVE k = i + off
  <2>1. k \in Nat /\ k - off = i
    BY <1>1, <1>4
  <2> QED BY <1>1, <2>1
<1>5. {k \in DOMAIN Outgoing(c) : Outgoing(c)[k] = m} = {i + off}
  BY <1>2, <1>3, <1>4
<1> QED BY <1>5, FS_Singleton DEF Copies

LEMMA MessageIsSlot ==
  ASSUME TypeInv, NEW c \in Core, NEW m \in Messages(c)
  PROVE  \E i \in Slots(c) : Slot(c, i) = m
<1>1. Len(pending_queue[c]) \in Nat
  BY LenProperties DEF TypeInv, QueueTypes
<1> QED BY <1>1 DEF Messages, Queued, Slots, Slot

\* A message of the rendezvous consists of its kind, its ends and its tag.
LEMMA SlotIsData ==
  ASSUME TypeInv, NEW c \in Core, NEW i \in Slots(c), Slot(c, i).kind \in DataKind
  PROVE  /\ Slot(c, i) # NoMessage
         /\ Slot(c, i) = DataMessage(Slot(c, i).kind, Slot(c, i).src, Slot(c, i).dst,
                                     Slot(c, i).tag)
<1>1. Slot(c, i) # NoMessage /\ Slot(c, i) \in Posted
  BY SlotType DEF NoMessage, DataKind
<1>2. Slot(c, i) \in Message /\ Slot(c, i).ev = None
  BY <1>1 DEF Posted
<1> QED BY <1>1, <1>2 DEF Message, DataMessage

\* The offer of a send that waits for permission is in exactly one place.
THEOREM OffersInOnePlace == Spec => []OfferInOnePlace
<1>1. RendezvousInv /\ ~thrown /\ StallInv => OfferInOnePlace
  <2> SUFFICES ASSUME RendezvousInv, StallInv, NEW a \in Core, WaitsFor(a, "send_trigger")
               PROVE  Copies(a, DataMessage("sender_ready", a, send_receiver_core_id[a],
                                            send_inst_tag[a]))
                        + (IF recv_waiting_sender_map[send_receiver_core_id[a]][a]
                                = send_inst_tag[a] THEN 1 ELSE 0)
                        + Copies(send_receiver_core_id[a],
                                 DataMessage("receiver_ready", send_receiver_core_id[a], a,
                                             send_inst_tag[a])) = 1
    BY DEF OfferInOnePlace
  <2> DEFINE t == send_inst_tag[a]
  <2>1. TypeInv /\ u_pc[a] = "send_ready" /\ t = pos[a] /\ t \in Nat \ {0}
    BY DEF WaitsFor, RendezvousInv, Ends, EndAt, StallInv, Announcements, TypeInv, UnitTypes
  <2>2. send_receiver_core_id[a] \in Core
    <3>1. HasInstr(a) /\ Current(a).op = "send"
      BY <2>1 DEF TypeInv, UnitWaits
    <3> QED BY <2>1, <3>1, CurrentType DEF RendezvousInv, Ends, EndAt, TypeInv
  <2>3. PICK b \in Core : b = send_receiver_core_id[a]
    BY <2>2
  <2> DEFINE offer  == DataMessage("sender_ready", a, b, t)
             permit == DataMessage("receiver_ready", b, a, t)
             noted  == IF recv_waiting_sender_map[b][a] = t THEN 1 ELSE 0
  <2>4. Offering(a, b)
    BY <2>1, <2>3 DEF Offering, WaitsFor
  <2>5. /\ offer.kind = "sender_ready" /\ offer.dst = b
        /\ permit.kind = "receiver_ready" /\ permit.dst = a
    BY DEF DataMessage
  <2>6. SUFFICES Copies(a, offer) + noted + Copies(b, permit) = 1
    BY <2>3
  <2>7. CASE OfferedBy(a, b)
    <3>1. PICK i \in Slots(a) : Sends(a, i, "sender_ready", b)
      BY <2>1, <2>7, MessageIsSlot DEF OfferedBy, Sends, Is
    <3>2. /\ Slot(a, i).src = a /\ Slot(a, i).tag = t /\ recv_waiting_sender_map[b][a] = 0
          /\ \A j \in Slots(a) : Is(a, j, "sender_ready") => i = j
      BY <3>1 DEF RendezvousInv, Meetings, Offers
    <3>3. Slot(a, i) = offer /\ offer # NoMessage
      BY <2>1, <3>1, <3>2, SlotIsData DEF Sends, Is, DataKind
    <3>4. Copies(a, offer) = 1
      <4> HIDE DEF offer
      <4> QED BY <2>1, <2>5, <3>2, <3>3, OneCopy DEF Is
    <3>5. ASSUME NEW j \in Slots(b), Slot(b, j) = permit PROVE FALSE
      <4>1. Sends(b, j, "receiver_ready", a)
        BY <2>5, <3>5 DEF Sends, Is
      <4> QED BY <3>1, <4>1 DEF RendezvousInv, Meetings, Permits, Sends
    <3>6. Copies(b, permit) = 0
      <4> HIDE DEF permit
      <4> QED BY <2>1, <3>5, NoCopies
    <3>7. noted = 0
      BY <2>1, <3>2
    <3> HIDE DEF offer, permit, noted
    <3> QED BY <3>4, <3>6, <3>7
  <2>8. CASE recv_waiting_sender_map[b][a] # 0
    <3>1. recv_waiting_sender_map[b][a] = t /\ recv_sender_core_id[b] # a
      BY <2>8 DEF RendezvousInv, Meetings, Notes
    <3>2. ASSUME NEW i \in Slots(a), Slot(a, i) = offer PROVE FALSE
      <4>1. Sends(a, i, "sender_ready", b)
        BY <2>5, <3>2 DEF Sends, Is
      <4> QED BY <2>8, <4>1 DEF RendezvousInv, Meetings, Offers
    <3>3. Copies(a, offer) = 0
      <4> HIDE DEF offer
      <4> QED BY <2>1, <3>2, NoCopies
    <3>4. ASSUME NEW j \in Slots(b), Slot(b, j) = permit PROVE FALSE
      <4>1. Sends(b, j, "receiver_ready", a)
        BY <2>5, <3>4 DEF Sends, Is
      <4> QED BY <3>1, <4>1 DEF RendezvousInv, Meetings, Permits, Receiving
    <3>5. Copies(b, permit) = 0
      <4> HIDE DEF permit
      <4> QED BY <2>1, <3>4, NoCopies
    <3>6. noted = 1
      BY <3>1
    <3> HIDE DEF offer, permit, noted
    <3> QED BY <3>3, <3>5, <3>6
  <2>9. CASE AnsweredBy(b, a)
    <3>1. PICK i \in Slots(b) : Sends(b, i, "receiver_ready", a)
      BY <2>1, <2>9, MessageIsSlot DEF AnsweredBy, Sends, Is
    <3>2. /\ Slot(b, i).src = b /\ Slot(b, i).tag = t /\ Receiving(b, a)
          /\ \A j \in Slots(b) : Is(b, j, "receiver_ready") => i = j
          /\ \A j \in Slots(a) : ~Is(a, j, "sender_ready")
      BY <3>1 DEF RendezvousInv, Meetings, Permits
    <3>3. Slot(b, i) = permit /\ permit # NoMessage
      BY <2>1, <3>1, <3>2, SlotIsData DEF Sends, Is, DataKind
    <3>4. Copies(b, permit) = 1
      <4> HIDE DEF permit
      <4> QED BY <2>1, <2>5, <3>2, <3>3, OneCopy DEF Is
    <3>5. \A j \in Slots(a) : Slot(a, j) # offer
      BY <2>5, <3>2 DEF Is
    <3>6. Copies(a, offer) = 0
      <4> HIDE DEF offer
      <4> QED BY <2>1, <3>5, NoCopies
    <3>7. recv_waiting_sender_map[b][a] = 0
      BY <3>2 DEF RendezvousInv, Meetings, Notes, Receiving
    <3>8. noted = 0
      BY <2>1, <3>7
    <3> HIDE DEF offer, permit, noted
    <3> QED BY <3>4, <3>6, <3>8
  <2>10. Announced(a, b)
    BY <2>4 DEF StallInv, Announcements
  <2> QED BY <2>7, <2>8, <2>9, <2>10 DEF Announced
<1> QED BY <1>1, StallHolds, PTL

-----------------------------------------------------------------------------
(* Counting the sends and recvs of a program *)

\* Equal up to whole laps of n.
Cong(x, y, n) == \E k \in Int : x = y + k * n

Total(c, op, peer) == IF Looping THEN Earlier(c, op, peer, Len(prog[c]) + 1) ELSE 0

SentTo(a, b)    == Earlier(a, "send", b, pos[a])
TakenFrom(b, a) == Earlier(b, "recv", a, pos[b])

\* The instruction core c is at is such a one.
AtSuch(c, op, peer) == IF Current(c).op = op /\ Current(c).core = peer THEN 1 ELSE 0

LEMMA EarlierIs ==
  ASSUME NEW c \in Core, NEW op, NEW peer, NEW i \in Nat \ {0}
  PROVE  /\ Earlier(c, op, peer, i) \in Nat
         /\ Earlier(c, op, peer, 1) = 0
         /\ Earlier(c, op, peer, i + 1) =
              Earlier(c, op, peer, i)
                + (IF prog[c][i].op = op /\ prog[c][i].core = peer THEN 1 ELSE 0)
<1> DEFINE S(n) == {j \in 1..(n - 1) : prog[c][j].op = op /\ prog[c][j].core = peer}
<1>1. \A n \in Nat \ {0} : IsFiniteSet(S(n)) /\ Cardinality(S(n)) \in Nat
  <2> SUFFICES ASSUME NEW n \in Nat \ {0}
               PROVE  IsFiniteSet(S(n)) /\ Cardinality(S(n)) \in Nat
    OBVIOUS
  <2>1. IsFiniteSet(1..(n - 1)) /\ S(n) \in SUBSET (1..(n - 1))
    BY FS_Interval
  <2>2. IsFiniteSet(S(n))
    BY <2>1, FS_Subset
  <2> QED BY <2>2, FS_CardinalityType
<1>2. S(1) = {}
  OBVIOUS
<1>3. S(i + 1) = S(i) \cup (IF prog[c][i].op = op /\ prog[c][i].core = peer THEN {i} ELSE {})
  OBVIOUS
<1>4. i \notin S(i)
  OBVIOUS
<1>5. /\ Earlier(c, op, peer, i) = Cardinality(S(i)) /\ Earlier(c, op, peer, 1) = Cardinality(S(1))
      /\ Earlier(c, op, peer, i + 1) = Cardinality(S(i + 1))
  BY DEF Earlier
<1> HIDE DEF S
<1>6. Cardinality(S(i + 1)) =
        Cardinality(S(i)) + (IF prog[c][i].op = op /\ prog[c][i].core = peer THEN 1 ELSE 0)
  <2>1. CASE prog[c][i].op = op /\ prog[c][i].core = peer
    <3>1. S(i + 1) = S(i) \cup {i}
      BY <1>3, <2>1
    <3> QED BY <1>1, <1>4, <2>1, <3>1, FS_AddElement
  <2>2. CASE ~(prog[c][i].op = op /\ prog[c][i].core = peer)
    <3>1. S(i + 1) = S(i)
      BY <1>3, <2>2
    <3> QED BY <1>1, <2>2, <3>1
  <2> QED BY <2>1, <2>2
<1> QED BY <1>1, <1>2, <1>5, <1>6, FS_EmptySet

\* Going on to the next instruction, or to the first one again.
LEMMA NextEarlier ==
  ASSUME UnitTypes, NEW c \in Core, HasInstr(c), UNCHANGED prog, pos'[c] = NextPos(c),
         NEW op, NEW peer
  PROVE  Cong(Earlier(c, op, peer, pos'[c]),
              Earlier(c, op, peer, pos[c]) + AtSuch(c, op, peer), Total(c, op, peer))
<1> DEFINE E(i) == Earlier(c, op, peer, i)
           x == E(pos[c]) + AtSuch(c, op, peer)
           n == Total(c, op, peer)
<1>1. pos[c] \in Nat \ {0} /\ pos[c] + 1 \in Nat \ {0} /\ Len(prog[c]) \in Nat
  BY ProgramAssumption, LenProperties DEF UnitTypes
<1>2. E(pos[c] + 1) = x /\ E(pos[c]) \in Nat /\ E(1) = 0 /\ E(pos[c] + 1) \in Nat
  <2>1. AtSuch(c, op, peer) =
          (IF prog[c][pos[c]].op = op /\ prog[c][pos[c]].core = peer THEN 1 ELSE 0)
    BY DEF AtSuch, Current
  <2>2. PICK i \in Nat \ {0} : i = pos[c]
    BY <1>1
  <2>3. /\ Earlier(c, op, peer, i) \in Nat /\ Earlier(c, op, peer, 1) = 0
        /\ Earlier(c, op, peer, i + 1) =
              Earlier(c, op, peer, i)
                + (IF prog[c][i].op = op /\ prog[c][i].core = peer THEN 1 ELSE 0)
        /\ Earlier(c, op, peer, i + 1) \in Nat
    BY EarlierIs
  <2> QED BY <2>1, <2>2, <2>3
<1>3. n \in Nat
  <2>1. Earlier(c, op, peer, Len(prog[c]) + 1) \in Nat
    BY <1>1, EarlierIs
  <2> QED BY <2>1 DEF Total
<1>4. CASE pos[c] = Len(prog[c]) /\ Looping
  <2>1. pos'[c] = 1 /\ n = x
    BY <1>2, <1>4 DEF NextPos, Total
  <2> HIDE DEF E, x, n
  <2>2. E(pos'[c]) = x + (-1) * n
    BY <1>2, <1>3, <2>1
  <2> QED BY <2>2 DEF Cong, E, x, n
<1>5. CASE ~(pos[c] = Len(prog[c]) /\ Looping)
  <2>1. pos'[c] = pos[c] + 1
    BY <1>5 DEF NextPos
  <2> HIDE DEF E, x, n
  <2>2. E(pos'[c]) = x + 0 * n
    BY <1>2, <1>3, <2>1
  <2> QED BY <2>2 DEF Cong, E, x, n
<1> QED BY <1>4, <1>5

LEMMA CongSums ==
  ASSUME NEW n \in Nat, NEW x \in Int, NEW y \in Int, NEW u \in Int, NEW v \in Int,
         Cong(x, y, n), Cong(u, v, n)
  PROVE  Cong(x + u, y + v, n) /\ Cong(x - u, y - v, n) /\ Cong(y, x, n)
<1>1. PICK k \in Int : x = y + k * n
  BY DEF Cong
<1>2. PICK l \in Int : u = v + l * n
  BY DEF Cong
<1>3. k * n \in Int /\ l * n \in Int
  BY SMT
<1>4. (k + l) * n = k * n + l * n /\ (k - l) * n = k * n - l * n /\ (-k) * n = -(k * n)
  BY SMT
<1>5. x + u = (y + v) + (k + l) * n /\ x - u = (y - v) + (k - l) * n /\ y = x + (-k) * n
  BY <1>1, <1>2, <1>3, <1>4
<1>6. k + l \in Int /\ k - l \in Int /\ -k \in Int
  OBVIOUS
<1>7. Cong(x + u, y + v, n)
  BY <1>5, <1>6 DEF Cong
<1>8. Cong(x - u, y - v, n)
  BY <1>5, <1>6 DEF Cong
<1>9. Cong(y, x, n)
  BY <1>5, <1>6 DEF Cong
<1> QED BY <1>7, <1>8, <1>9

LEMMA CongTrans ==
  ASSUME NEW n \in Nat, NEW x \in Int, NEW y \in Int, NEW z \in Int, Cong(x, y, n), Cong(y, z, n)
  PROVE  Cong(x, z, n)
<1>1. PICK k \in Int : x = y + k * n
  BY DEF Cong
<1>2. PICK l \in Int : y = z + l * n
  BY DEF Cong
<1>3. k * n \in Int /\ l * n \in Int /\ (k + l) * n = k * n + l * n /\ k + l \in Int
  BY SMT
<1>4. x = z + (k + l) * n
  BY <1>1, <1>2, <1>3
<1> QED BY <1>3, <1>4 DEF Cong

LEMMA CongSame == ASSUME NEW n \in Nat, NEW x \in Int PROVE Cong(x, x, n)
<1>1. x = x + 0 * n
  OBVIOUS
<1> QED BY <1>1 DEF Cong

\* Numbers of the same lap are equal.
LEMMA CongEqual ==
  ASSUME NEW n \in Nat, NEW x \in Nat, NEW y \in Nat, Cong(x, y, n), n = 0 \/ (x < n /\ y < n)
  PROVE  x = y
<1>1. PICK k \in Int : x = y + k * n
  BY DEF Cong
<1>2. k * n \in Int
  BY SMT
<1>3. CASE n = 0
  BY <1>1, <1>3, SMT
<1>4. CASE n # 0 /\ k > 0
  <2>1. k * n >= n
    BY <1>4, SMT
  <2> QED BY <1>1, <1>2, <1>4, <2>1
<1>5. CASE n # 0 /\ k < 0
  <2>1. k * n <= -n
    BY <1>5, SMT
  <2> QED BY <1>1, <1>2, <1>5, <2>1
<1>6. CASE k = 0
  BY <1>1, <1>6, SMT
<1> QED BY <1>3, <1>4, <1>5, <1>6

-----------------------------------------------------------------------------
(* Where the data of a transfer is *)

DataTo(a, b) == {m \in Messages(a) : m.kind = "send_data" /\ m.dst = b}

\* The data from a has arrived at b, whose recv has not finished.
Reached(a, b) ==
  \/ At(b, "recv_data") /\ recv_sender_core_id[b] = a
  \/ u_pc[b] = "local" /\ Current(b).op = "recv" /\ Current(b).core = a

\* By how many transfers a is ahead of b.
Ahead(a, b) == IF DataTo(a, b) # {} \/ Reached(a, b) THEN 1 ELSE 0

DataKept == \A a, b \in Core : DataTo(a, b)' = DataTo(a, b)

LEMMA UnitPosts ==
  ASSUME TypeInv, NEW c \in Core, NEW m \in Posted, Post(c, m), UNCHANGED switchLocals
  PROVE  /\ Messages(c)' = Messages(c) \cup {m}
         /\ \A d \in Core : d # c => Messages(d)' = Messages(d)
         /\ m.kind # "send_data" => DataKept
<1>1. /\ Queued(c)' = Queued(c) \cup {m}
      /\ \A d \in Core : d # c => pending_queue'[d] = pending_queue[d]
  BY QueuedPosted
<1>2. UNCHANGED in_flight
  BY DEF switchLocals
<1>3. Messages(c)' = Messages(c) \cup {m}
  BY <1>1, <1>2 DEF Messages
<1>4. \A d \in Core : d # c => Messages(d)' = Messages(d)
  BY <1>1, <1>2 DEF Messages, Queued
<1>5. m.kind # "send_data" => DataKept
  BY <1>3, <1>4 DEF DataKept, DataTo
<1> QED BY <1>3, <1>4, <1>5

LEMMA UnitPostsNothing ==
  ASSUME UNCHANGED <<pending_queue, switchLocals>> PROVE DataKept
BY DEF DataKept, DataTo, Messages, Queued, switchLocals

\* A handler takes the message in transport, and may answer it.
LEMMA HandlerTakes ==
  ASSUME TypeInv, NEW c \in Core, in_flight' = [in_flight EXCEPT ![c] = NoMessage],
         \/ UNCHANGED pending_queue
         \/ \E p \in Core : \E m \in Posted : m.kind # "send_data" /\ Post(p, m)
  PROVE  /\ \A a, b \in Core : DataTo(a, b)' \subseteq DataTo(a, b)
         /\ \A a, b \in Core : a # c => DataTo(a, b)' = DataTo(a, b)
         /\ \A b \in Core : ~(in_flight[c].kind = "send_data" /\ in_flight[c].dst = b)
                              => DataTo(c, b)' = DataTo(c, b)
<1>1. /\ in_flight'[c] = NoMessage /\ NoMessage.kind # "send_data"
      /\ \A d \in Core : d # c => in_flight'[d] = in_flight[d]
  BY DEF TypeInv, QueueTypes, NoMessage
<1>2. \A d \in Core : {m \in Queued(d)' : m.kind = "send_data"} = {m \in Queued(d) : m.kind = "send_data"}
  <2>1. CASE UNCHANGED pending_queue
    BY <2>1 DEF Queued
  <2>2. ASSUME NEW p \in Core, NEW m \in Posted, m.kind # "send_data", Post(p, m),
               NEW d \in Core
        PROVE  {n \in Queued(d)' : n.kind = "send_data"} = {n \in Queued(d) : n.kind = "send_data"}
    <3>1. /\ Queued(p)' = Queued(p) \cup {m}
          /\ \A e \in Core : e # p => pending_queue'[e] = pending_queue[e]
      BY <2>2, QueuedPosted
    <3>2. CASE d = p
      BY <2>2, <3>1, <3>2
    <3>3. CASE d # p
      BY <3>1, <3>3 DEF Queued
    <3> QED BY <3>2, <3>3
  <2> QED BY <2>1, <2>2
<1>3. \A d \in Core : \A m : m.kind = "send_data" => (m \in Queued(d)' <=> m \in Queued(d))
  BY <1>2
<1>4. \A a, b \in Core : a # c => DataTo(a, b)' = DataTo(a, b)
  BY <1>1, <1>3 DEF DataTo, Messages
<1>5. \A b \in Core : DataTo(c, b)' \subseteq DataTo(c, b)
  BY <1>1, <1>3 DEF DataTo, Messages
<1>6. ASSUME NEW b \in Core, ~(in_flight[c].kind = "send_data" /\ in_flight[c].dst = b)
      PROVE  DataTo(c, b)' = DataTo(c, b)
  BY <1>1, <1>3, <1>6 DEF DataTo, Messages
<1> QED BY <1>4, <1>5, <1>6

LEMMA LoopTakes ==
  ASSUME TypeInv, SwitchPlaces, NEW c \in Core, NEW s, sw_pc[c] # "network",
         LoopHead(c, s) \/ (pending_queue[c] # <<>> /\ PopFront(c, s))
  PROVE  DataKept
<1>1. in_flight[c] = NoMessage /\ NoMessage.kind # "send_data"
  BY DEF SwitchPlaces, NoMessage
<1>2. CASE pending_queue[c] # <<>> /\ PopFront(c, s)
  <2>1. /\ Messages(c)' = Queued(c)
        /\ \A d \in Core : d # c => Messages(d)' = Messages(d)
    BY <1>2, FrontTaken
  <2> QED BY <1>1, <2>1 DEF DataKept, DataTo, Messages
<1>3. CASE /\ in_flight' = [in_flight EXCEPT ![c] = NoMessage]
           /\ UNCHANGED pending_queue
  <2>1. UNCHANGED <<in_flight, pending_queue>>
    BY <1>1, <1>3 DEF TypeInv, QueueTypes
  <2> QED BY <2>1 DEF DataKept, DataTo, Messages, Queued
<1> QED BY <1>2, <1>3 DEF LoopHead

-----------------------------------------------------------------------------
(* The invariant of pairs *)

\* The instruction a unit is executing.
PcAt(c) ==
  /\ u_pc[c] = "recv_data" =>
       Current(c).op = "recv" /\ Current(c).core = recv_sender_core_id[c]
  /\ u_pc[c] = "wait_event" =>
       Current(c).op = "wait" /\ wait_ev_addr[c] = Current(c).ev
                              /\ wait_ev_value[c] = Current(c).val
  /\ u_pc[c] = "load" => Current(c).op = "ld"
  /\ u_pc[c] \in {"store_read", "store"} => Current(c).op = "st"
  /\ u_pc[c] = "local" => Current(c).op \in {"recv", "sync", "ld", "lldi", "lmv"}
Pcs == \A c \in Core : PcAt(c)

\* Core a has sent to b what b has received, and one more if data is on its way or
\* just arrived; that is the data of a's latest send to b.
PairAt(a, b) ==
  /\ Cong(SentTo(a, b), TakenFrom(b, a) + Ahead(a, b), Total(a, "send", b))
  /\ \A m \in DataTo(a, b) :
       /\ m.tag \in 1..Len(prog[a])
       /\ prog[a][m.tag].op = "send" /\ prog[a][m.tag].core = b
       /\ Cong(Earlier(a, "send", b, m.tag) + 1, SentTo(a, b), Total(a, "send", b))
Pairs == \A a, b \in Core : PairAt(a, b)

\* n more, or the instruction core c has just finished.
Counted(c, op, peer, n) ==
  \/ pos'[c] = pos[c] /\ n = 0
  \/ HasInstr(c) /\ pos'[c] = NextPos(c) /\ n = AtSuch(c, op, peer)

LEMMA PosInside ==
  ASSUME UnitTypes, NEW c \in Core, HasInstr(c)
  PROVE  pos[c] \in 1..Len(prog[c])
<1>1. prog[c] \in Seq(Instr) /\ pos[c] \in Nat \ {0}
  BY ProgramAssumption DEF UnitTypes
<1>2. Len(prog[c]) \in Nat
  BY <1>1, LenProperties
<1> QED BY <1>1, <1>2 DEF HasInstr

LEMMA TotalsMatch ==
  ASSUME UnitTypes, LoopsMatch, NEW a \in Core, NEW b \in Core
  PROVE  /\ Total(a, "send", b) = Total(b, "recv", a)
         /\ Total(a, "send", b) \in Nat
<1>1. /\ prog \in [Core -> Seq(Instr)]
      /\ \A c \in Core : Len(prog[c]) \in Nat /\ DOMAIN prog[c] = 1..Len(prog[c])
  BY ProgramAssumption, LenProperties DEF UnitTypes
<1>2. ASSUME NEW c \in Core, NEW op, NEW peer
      PROVE  /\ Earlier(c, op, peer, Len(prog[c]) + 1) = Cardinality(Such(prog, c, op, peer))
             /\ Earlier(c, op, peer, Len(prog[c]) + 1) \in Nat
  <2>1. PICK n \in Nat : n = Len(prog[c])
    BY <1>1
  <2>2. (n + 1) - 1 = n /\ n + 1 \in Nat \ {0}
    BY <2>1
  <2>3. Earlier(c, op, peer, n + 1) \in Nat
    BY <2>2, EarlierIs
  <2>4. {j \in 1..((n + 1) - 1) : prog[c][j].op = op /\ prog[c][j].core = peer} =
          Such(prog, c, op, peer)
    BY <1>1, <2>1, <2>2 DEF Such
  <2> QED BY <2>1, <2>3, <2>4 DEF Earlier
<1>3. Looping => Total(a, "send", b) = Total(b, "recv", a)
  BY <1>2 DEF LoopsMatch, Looping, Total
<1>4. Total(a, "send", b) \in Nat
  BY <1>2 DEF Total
<1> QED BY <1>3, <1>4 DEF Total

LEMMA CountedIs ==
  ASSUME UnitTypes, UnitTypes', UNCHANGED prog, NEW c \in Core, NEW op, NEW peer, NEW n,
         Counted(c, op, peer, n)
  PROVE  /\ Cong(Earlier(c, op, peer, pos'[c]), Earlier(c, op, peer, pos[c]) + n,
                 Total(c, op, peer))
         /\ n \in Nat /\ Total(c, op, peer) \in Nat
         /\ Earlier(c, op, peer, pos[c]) \in Nat /\ Earlier(c, op, peer, pos'[c]) \in Nat
<1>1. pos[c] \in Nat \ {0} /\ pos'[c] \in Nat \ {0} /\ Len(prog[c]) + 1 \in Nat \ {0}
  BY ProgramAssumption, LenProperties DEF UnitTypes
<1>2. \A i \in Nat \ {0} : Earlier(c, op, peer, i) \in Nat
  BY EarlierIs
<1>3. Earlier(c, op, peer, pos[c]) \in Nat /\ Earlier(c, op, peer, pos'[c]) \in Nat
  BY <1>1, <1>2
<1>4. Total(c, op, peer) \in Nat /\ n \in Nat
  BY <1>1, <1>2 DEF Total, Counted, AtSuch
<1>5. CASE pos'[c] = pos[c] /\ n = 0
  <2>1. Earlier(c, op, peer, pos'[c]) = Earlier(c, op, peer, pos[c]) + n
    BY <1>3, <1>5
  <2> QED BY <1>3, <1>4, <2>1, CongSame
<1>6. CASE HasInstr(c) /\ pos'[c] = NextPos(c) /\ n = AtSuch(c, op, peer)
  BY <1>3, <1>4, <1>6, NextEarlier
<1> QED BY <1>3, <1>4, <1>5, <1>6 DEF Counted

LEMMA PairStep ==
  ASSUME UnitTypes, UnitTypes', UNCHANGED prog, LoopsMatch, NEW a \in Core, NEW b \in Core,
         PairAt(a, b), NEW s, NEW t, Counted(a, "send", b, s), Counted(b, "recv", a, t),
         Ahead(a, b)' = Ahead(a, b) + s - t,
         \A m \in DataTo(a, b)' : (m \in DataTo(a, b) /\ s = 0) \/ (m.tag = pos[a] /\ s = 1)
  PROVE  PairAt(a, b)'
<1> DEFINE n == Total(a, "send", b)
           x == SentTo(a, b)
           y == TakenFrom(b, a)
           h == Ahead(a, b)
<1>0. /\ SentTo(a, b)' = Earlier(a, "send", b, pos'[a])
      /\ TakenFrom(b, a)' = Earlier(b, "recv", a, pos'[b])
      /\ Total(a, "send", b)' = Total(a, "send", b)
      /\ \A op, i : Earlier(a, op, b, i)' = Earlier(a, op, b, i)
  BY DEF SentTo, TakenFrom, Earlier, Total, Looping
<1>1. /\ Cong(SentTo(a, b)', x + s, n) /\ Cong(TakenFrom(b, a)', y + t, n)
      /\ s \in Nat /\ t \in Nat /\ n \in Nat /\ x \in Nat /\ y \in Nat
      /\ SentTo(a, b)' \in Nat /\ TakenFrom(b, a)' \in Nat
  BY <1>0, CountedIs, TotalsMatch DEF SentTo, TakenFrom
<1>2. h \in Nat /\ Ahead(a, b)' = h + s - t /\ Ahead(a, b)' \in Nat
  BY DEF Ahead
<1>3. Cong(x, y + h, n)
  BY DEF PairAt
<1> PICK x1 \in Nat, y1 \in Nat, h1 \in Nat :
      x1 = SentTo(a, b)' /\ y1 = TakenFrom(b, a)' /\ h1 = Ahead(a, b)'
  BY <1>1, <1>2
<1>4. /\ Cong(x1, x + s, n) /\ Cong(y1, y + t, n) /\ h1 = h + s - t
      /\ x1 = SentTo(a, b)' /\ y1 = TakenFrom(b, a)' /\ h1 = Ahead(a, b)'
      /\ n = Total(a, "send", b)' /\ n = Total(a, "send", b) /\ x = SentTo(a, b)
  BY <1>0, <1>1, <1>2
<1> HIDE DEF n, x, y, h
<1>5. Cong(x1, y1 + h1, n)
  <2>1. Cong(s, s, n) /\ Cong(h1, h1, n)
    BY <1>1, CongSame
  <2>2. Cong(x + s, (y + h) + s, n)
    BY <1>1, <1>2, <1>3, <2>1, CongSums
  <2>3. Cong(y1 + h1, (y + t) + h1, n)
    BY <1>1, <1>4, <2>1, CongSums
  <2>4. (y + t) + h1 = (y + h) + s /\ (y + h) + s \in Int /\ y1 + h1 \in Int /\ x + s \in Int
    BY <1>1, <1>2, <1>4
  <2>5. Cong((y + h) + s, y1 + h1, n)
    BY <1>1, <2>3, <2>4, CongSums
  <2>6. Cong(x1, (y + h) + s, n)
    BY <1>1, <1>4, <2>2, <2>4, CongTrans
  <2> QED BY <1>1, <2>4, <2>5, <2>6, CongTrans
<1>6. ASSUME NEW m \in DataTo(a, b)'
      PROVE  /\ m.tag \in 1..Len(prog[a])
             /\ prog[a][m.tag].op = "send" /\ prog[a][m.tag].core = b
             /\ Cong(Earlier(a, "send", b, m.tag) + 1, x1, n)
  <2>1. CASE m \in DataTo(a, b) /\ s = 0
    <3>1. /\ m.tag \in 1..Len(prog[a]) /\ prog[a][m.tag].op = "send" /\ prog[a][m.tag].core = b
          /\ Cong(Earlier(a, "send", b, m.tag) + 1, x, n)
      BY <1>4, <2>1 DEF PairAt
    <3>2. Earlier(a, "send", b, m.tag) \in Nat /\ x + s = x
      <4>1. m.tag \in Nat \ {0}
        BY <3>1
      <4> QED BY <1>1, <2>1, <4>1, EarlierIs
    <3>3. Cong(x, x1, n)
      BY <1>1, <1>4, <3>2, CongSums
    <3> QED BY <1>1, <3>1, <3>2, <3>3, CongTrans
  <2>2. CASE m.tag = pos[a] /\ s = 1
    <3>1. HasInstr(a) /\ Current(a).op = "send" /\ Current(a).core = b
      BY <2>2 DEF Counted, AtSuch
    <3>2. m.tag \in 1..Len(prog[a]) /\ prog[a][m.tag].op = "send" /\ prog[a][m.tag].core = b
      <4>1. pos[a] \in 1..Len(prog[a])
        BY <1>0, <3>1, PosInside
      <4>2. prog[a][pos[a]].op = "send" /\ prog[a][pos[a]].core = b
        BY <3>1 DEF Current
      <4> QED BY <2>2, <4>1, <4>2
    <3>3. Earlier(a, "send", b, m.tag) + 1 = x + s /\ x + s \in Int
      BY <1>1, <1>4, <2>2 DEF SentTo
    <3>4. Cong(x + s, x1, n)
      BY <1>1, <1>4, <3>3, CongSums
    <3> QED BY <3>2, <3>3, <3>4
  <2> QED BY <1>6, <2>1, <2>2
<1>7. \A i : Earlier(a, "send", b, i)' = Earlier(a, "send", b, i)
  BY <1>0
<1> QED BY <1>4, <1>5, <1>6, <1>7 DEF PairAt

-----------------------------------------------------------------------------
(* What a step of a unit does to the units *)

\* Nothing of unit d has changed.
UnitKept(d) ==
  /\ SameUnit(d)
  /\ send_receiver_core_id'[d] = send_receiver_core_id[d]
  /\ recv_sender_core_id'[d] = recv_sender_core_id[d]
  /\ wait_ev_addr'[d] = wait_ev_addr[d] /\ wait_ev_value'[d] = wait_ev_value[d]

\* Unit c suspends itself at where, or has finished its instruction.
Pauses(c, where, how) ==
  /\ u_pc'[c] = where /\ sched'[Unit(c)] = how
  /\ pos'[c] = pos[c] /\ Current(c)' = Current(c)
Completes(c) ==
  /\ u_pc'[c] = "start" /\ sched'[Unit(c)] \in {"delayed", "start_exec"}
  /\ pos'[c] = NextPos(c) /\ HasInstr(c)

LEMMA Pausing ==
  ASSUME TypeInv, NEW c \in Core, NEW s \in {sched, Notified(c)}, UNCHANGED prog,
         NEW where, NEW how, Suspend(c, s, where, how)
  PROVE  /\ Pauses(c, where, how) /\ SwitchesStayDelayed
         /\ \A d \in Core : d # c => SameUnit(d)
<1>1. UNCHANGED pos
  BY DEF Suspend
<1> QED BY <1>1, Suspends DEF Pauses

LEMMA Ending ==
  ASSUME TypeInv, NEW c \in Core, NEW s \in {sched, Notified(c)}, UNCHANGED prog,
         Finish(c, s), sched[Unit(c)] = "runnable"
  PROVE  /\ Completes(c) /\ SwitchesStayDelayed
         /\ \A d \in Core : d # c => SameUnit(d)
<1>1. pos'[c] = NextPos(c)
  BY DEF Finish, TypeInv, UnitTypes
<1> QED BY <1>1, Finishes, RunningHasInstr DEF Completes, TypeInv

LEMMA UnitEffects ==
  ASSUME TypeInv, NEW c \in Core, UnitStep(c), UNCHANGED prog
  PROVE  /\ sched[Unit(c)] = "runnable" /\ UNCHANGED switchLocals /\ SwitchesStayDelayed
         /\ \A d \in Core : d # c => UnitKept(d) /\ event_register'[d] = event_register[d]
         /\ StartSend(c) => Pauses(c, "send_ready", "send_trigger")
         /\ SendReads(c) => Pauses(c, "send_read", "delayed")
         /\ FinishSend(c) => Completes(c)
         /\ StartRecv(c) => Pauses(c, "recv_data", "recv_trigger")
         /\ RecvWrites(c) => Pauses(c, "local", "delayed")
         /\ StartSync(c) => Pauses(c, "local", "delayed")
         /\ StartWait(c) => \/ event_register[c][Current(c).ev] = Current(c).val /\ Completes(c)
                            \/ /\ event_register[c][Current(c).ev] # Current(c).val
                               /\ Pauses(c, "wait_event", "sync_wait_trigger")
         /\ FinishWait(c) => Completes(c)
         /\ StartMemory(c) =>
              \/ Current(c).op = "ld" /\ Pauses(c, "load", "switch_finish_trigger")
              \/ Current(c).op = "st" /\ Pauses(c, "store_read", "delayed")
              \/ Current(c).op \in {"lldi", "lmv"} /\ Pauses(c, "local", "delayed")
         /\ LoadWrites(c) => Pauses(c, "local", "delayed")
         /\ StoreSends(c) => Pauses(c, "store", "switch_finish_trigger")
         /\ FinishLocal(c) => Completes(c)
<1> DEFINE Others == \A d \in Core : d # c => UnitKept(d) /\ event_register'[d] = event_register[d]
           Same == (\A d \in Core : d # c => SameUnit(d)) /\ SwitchesStayDelayed
           Free == \A d \in Core : d # c =>
                     /\ send_receiver_core_id'[d] = send_receiver_core_id[d]
                     /\ recv_sender_core_id'[d] = recv_sender_core_id[d]
                     /\ wait_ev_addr'[d] = wait_ev_addr[d] /\ wait_ev_value'[d] = wait_ev_value[d]
                     /\ event_register'[d] = event_register[d]
<1>0. sched \in {sched, Notified(c)} /\ Notified(c) \in {sched, Notified(c)}
  OBVIOUS
<1>1. Same /\ Free => Others /\ SwitchesStayDelayed
  BY DEF UnitKept
<1>2. sched[Unit(c)] = "runnable" /\ UNCHANGED switchLocals
  BY DEF UnitStep, StartSend, SendReads, FinishSend, StartRecv, RecvWrites, StartSync, StartWait,
         FinishWait, StartMemory, LoadWrites, StoreSends, FinishLocal, Starts, At
<1>3. Free
  BY DEF UnitStep, StartSend, SendReads, FinishSend, StartRecv, RecvWrites, StartSync, StartWait,
         FinishWait, StartMemory, LoadWrites, StoreSends, FinishLocal, ResetEvent, sendVars,
         recvVars, eventVars, TypeInv, UnitTypes
<1>4. \A s \in {sched, Notified(c)} : \A where, how :
        Suspend(c, s, where, how) => Pauses(c, where, how) /\ Same
  BY Pausing
<1>5. \A s \in {sched, Notified(c)} : Finish(c, s) => Completes(c) /\ Same
  BY <1>2, Ending
<1> HIDE DEF Others, Same, Free
<1>6. /\ StartSend(c) => Pauses(c, "send_ready", "send_trigger") /\ Same
      /\ SendReads(c) => Pauses(c, "send_read", "delayed") /\ Same
      /\ FinishSend(c) => Completes(c) /\ Same
  BY <1>0, <1>4, <1>5 DEF StartSend, SendReads, FinishSend
<1>7. /\ StartRecv(c) => Pauses(c, "recv_data", "recv_trigger") /\ Same
      /\ RecvWrites(c) => Pauses(c, "local", "delayed") /\ Same
  BY <1>0, <1>4 DEF StartRecv, RecvWrites
<1>8. /\ StartSync(c) => Pauses(c, "local", "delayed") /\ Same
      /\ FinishWait(c) => Completes(c) /\ Same
  BY <1>0, <1>4, <1>5 DEF StartSync, FinishWait, ResetEvent
<1>9. StartWait(c) =>
        /\ Same
        /\ \/ event_register[c][Current(c).ev] = Current(c).val /\ Completes(c)
           \/ /\ event_register[c][Current(c).ev] # Current(c).val
              /\ Pauses(c, "wait_event", "sync_wait_trigger")
  BY <1>0, <1>4, <1>5 DEF StartWait, ResetEvent
<1>10. /\ StartMemory(c) =>
            /\ Same
            /\ \/ Current(c).op = "ld" /\ Pauses(c, "load", "switch_finish_trigger")
               \/ Current(c).op = "st" /\ Pauses(c, "store_read", "delayed")
               \/ Current(c).op \in {"lldi", "lmv"} /\ Pauses(c, "local", "delayed")
       /\ LoadWrites(c) => Pauses(c, "local", "delayed") /\ Same
       /\ StoreSends(c) => Pauses(c, "store", "switch_finish_trigger") /\ Same
       /\ FinishLocal(c) => Completes(c) /\ Same
  BY <1>0, <1>4, <1>5 DEF StartMemory, Starts, LoadWrites, StoreSends, FinishLocal
<1>11. Same
  BY <1>6, <1>7, <1>8, <1>9, <1>10 DEF UnitStep
<1> QED BY <1>1, <1>2, <1>3, <1>6, <1>7, <1>8, <1>9, <1>10, <1>11 DEF Others

\* What the units post.
SyncMessage(c) ==
  [kind |-> "sync", src |-> c, dst |-> Current(c).core, tag |-> 0, ev |-> Current(c).ev]

LEMMA UnitMessages ==
  ASSUME TypeInv, NEW c \in Core, UnitStep(c), UNCHANGED prog
  PROVE  \/ UNCHANGED pending_queue /\ ~StartSync(c)
         \/ \E m \in Posted : /\ Post(c, m) /\ (m.kind = "send_data" => FinishSend(c))
                             /\ m.kind # "sync" /\ ~StartSync(c)
         \/ StartSync(c) /\ SyncMessage(c) \in Posted /\ Post(c, SyncMessage(c))
<1>1. HasInstr(c) /\ (Current(c).op \in {"send", "recv", "sync"} => Current(c).core \in Core)
      /\ Current(c) \in Instr /\ pos[c] \in Nat
  BY RunningHasInstr, CurrentType, UnitEffects DEF TypeInv, UnitTypes
<1>2. CASE StartSend(c)
  <2> DEFINE m == DataMessage("sender_ready", c, Current(c).core, pos[c])
  <2>1. m \in Posted
    BY <1>1, <1>2, PostedData DEF StartSend, Starts, DataKind
  <2>2. Post(c, m) /\ m.kind = "sender_ready" /\ ~StartSync(c)
    BY <1>2 DEF StartSend, DataMessage, StartSync, Starts
  <2> QED BY <2>1, <2>2
<1>3. CASE StartRecv(c)
  <2> DEFINE m == DataMessage("receiver_ready", c, Current(c).core,
                              recv_waiting_sender_map[c][Current(c).core])
  <2>1. m \in Posted
    BY <1>1, <1>3, PostedData DEF StartRecv, Starts, DataKind, UnitTypes, TypeInv
  <2>2. (UNCHANGED pending_queue \/ Post(c, m)) /\ m.kind = "receiver_ready" /\ ~StartSync(c)
    BY <1>3 DEF StartRecv, DataMessage, StartSync, Starts
  <2> QED BY <2>1, <2>2
<1>4. CASE StartSync(c)
  <2>1. SyncMessage(c) \in Posted
    BY <1>1, <1>4 DEF StartSync, Starts, Posted, Message, Instr, DataKind, SyncMessage
  <2> QED BY <1>4, <2>1 DEF StartSync, SyncMessage
<1>5. CASE StartMemory(c) \/ StoreSends(c)
  <2>1. MemoryMessage(c) \in Posted /\ MemoryMessage(c).kind = "memory"
    BY DEF MemoryMessage, Posted, Message, DataKind
  <2>2. (UNCHANGED pending_queue \/ Post(c, MemoryMessage(c))) /\ ~StartSync(c)
    BY <1>5 DEF StartMemory, StoreSends, StartSync, Starts, At
  <2> QED BY <2>1, <2>2
<1>6. CASE FinishSend(c)
  <2> DEFINE m == DataMessage("send_data", c, Current(c).core, send_inst_tag[c])
  <2>1. Current(c).op = "send"
    BY <1>6 DEF FinishSend, At, TypeInv, UnitWaits
  <2>2. m \in Posted
    BY <1>1, <2>1, PostedData DEF DataKind, UnitTypes, TypeInv
  <2>3. Post(c, m) /\ m.kind = "send_data" /\ ~StartSync(c)
    BY <1>6, <2>1 DEF FinishSend, DataMessage, StartSync, Starts
  <2> QED BY <1>6, <2>2, <2>3
<1>7. CASE SendReads(c) \/ RecvWrites(c) \/ StartWait(c) \/ FinishWait(c) \/ LoadWrites(c)
             \/ FinishLocal(c)
  BY <1>7 DEF SendReads, RecvWrites, StartWait, FinishWait, LoadWrites, FinishLocal, StartSync,
              Starts, At
<1> QED BY <1>2, <1>3, <1>4, <1>5, <1>6, <1>7 DEF UnitStep

LEMMA UnitPcs ==
  ASSUME TypeInv, Pcs, NEW c \in Core, UnitStep(c), UNCHANGED prog
  PROVE  Pcs'
<1>1. \A d \in Core : d # c => PcAt(d)'
  <2>1. \A d \in Core : d # c => UnitKept(d)
    BY UnitEffects
  <2> QED BY <2>1 DEF UnitKept, SameUnit, Pcs, PcAt, Current
<1> SUFFICES PcAt(c)'
  BY <1>1 DEF Pcs
<1>2. ASSUME Completes(c) PROVE PcAt(c)'
  BY <1>2 DEF Completes, PcAt
<1>3. CASE StartSend(c) \/ SendReads(c) \/ StoreSends(c)
  <2>1. CASE StartSend(c) \/ SendReads(c)
    <3>1. u_pc'[c] \in {"send_ready", "send_read"}
      BY <2>1, UnitEffects DEF Pauses
    <3> QED BY <3>1 DEF PcAt
  <2>2. CASE StoreSends(c)
    <3>1. u_pc'[c] = "store" /\ Current(c)' = Current(c)
      BY <2>2, UnitEffects DEF Pauses
    <3>2. Current(c).op = "st"
      BY <2>2 DEF StoreSends, At, Pcs, PcAt
    <3> QED BY <3>1, <3>2 DEF PcAt
  <2> QED BY <1>3, <2>1, <2>2
<1>4. CASE StartRecv(c)
  <2>1. u_pc'[c] = "recv_data" /\ Current(c)' = Current(c)
    BY <1>4, UnitEffects DEF Pauses
  <2>2. Current(c).op = "recv" /\ recv_sender_core_id'[c] = Current(c).core
    BY <1>4 DEF StartRecv, Starts, TypeInv, UnitTypes
  <2> QED BY <2>1, <2>2 DEF PcAt
<1>5. CASE RecvWrites(c) \/ StartSync(c) \/ LoadWrites(c)
  <2>1. u_pc'[c] = "local" /\ Current(c)' = Current(c)
    BY <1>5, UnitEffects DEF Pauses
  <2>2. Current(c).op \in {"recv", "sync", "ld"}
    BY <1>5 DEF RecvWrites, StartSync, LoadWrites, At, Starts, Pcs, PcAt
  <2> QED BY <2>1, <2>2 DEF PcAt
<1>6. CASE StartWait(c)
  <2>1. CASE Completes(c)
    BY <1>2, <2>1
  <2>2. CASE ~Completes(c)
    <3>1. /\ u_pc'[c] = "wait_event" /\ Current(c)' = Current(c)
          /\ event_register[c][Current(c).ev] # Current(c).val
      BY <1>6, <2>2, UnitEffects DEF Pauses
    <3>2. /\ Current(c).op = "wait"
          /\ wait_ev_addr'[c] = Current(c).ev /\ wait_ev_value'[c] = Current(c).val
      BY <1>6, <3>1 DEF StartWait, Starts, TypeInv, UnitTypes
    <3> QED BY <3>1, <3>2 DEF PcAt
  <2> QED BY <2>1, <2>2
<1>7. CASE StartMemory(c)
  <2>1. \/ Current(c)'.op = "ld" /\ u_pc'[c] = "load"
        \/ Current(c)'.op = "st" /\ u_pc'[c] = "store_read"
        \/ Current(c)'.op \in {"lldi", "lmv"} /\ u_pc'[c] = "local"
    BY <1>7, UnitEffects DEF Pauses
  <2> QED BY <2>1 DEF PcAt
<1>8. CASE FinishSend(c) \/ FinishWait(c) \/ FinishLocal(c)
  BY <1>2, <1>8, UnitEffects
<1> QED BY <1>3, <1>4, <1>5, <1>6, <1>7, <1>8 DEF UnitStep

-----------------------------------------------------------------------------
(* What keeps the pairs *)

LEMMA PairsKept ==
  ASSUME UnitTypes, UnitTypes', UNCHANGED prog, LoopsMatch, Pairs, DataKept,
         \A a, b \in Core : Reached(a, b)' <=> Reached(a, b),
         \A c \in Core :
           \/ pos'[c] = pos[c]
           \/ HasInstr(c) /\ pos'[c] = NextPos(c) /\ Current(c).op \notin {"send", "recv"}
  PROVE  Pairs'
<1> SUFFICES ASSUME NEW a \in Core, NEW b \in Core PROVE PairAt(a, b)'
  BY DEF Pairs
<1>1. Counted(a, "send", b, 0) /\ Counted(b, "recv", a, 0)
  BY DEF Counted, AtSuch
<1>2. DataTo(a, b)' = DataTo(a, b)
  BY DEF DataKept
<1>3. Ahead(a, b)' = Ahead(a, b) + 0 - 0
  BY <1>2 DEF Ahead
<1>4. \A m \in DataTo(a, b)' : (m \in DataTo(a, b) /\ 0 = 0) \/ (m.tag = pos[a] /\ 0 = 1)
  BY <1>2
<1> QED BY <1>1, <1>3, <1>4, PairStep DEF Pairs

\* Steps of unit c that are neither the end of a send nor of a recv.
LEMMA UnitReached ==
  ASSUME NEW c \in Core, \A d \in Core : d # c => UnitKept(d),
         \A a \in Core : Reached(a, c)' <=> Reached(a, c)
  PROVE  \A a, b \in Core : Reached(a, b)' <=> Reached(a, b)
<1> SUFFICES ASSUME NEW a \in Core, NEW b \in Core, b # c
             PROVE  Reached(a, b)' <=> Reached(a, b)
  OBVIOUS
<1>1. UnitKept(b)
  OBVIOUS
<1> QED BY <1>1 DEF UnitKept, SameUnit, Reached, At, Current

LEMMA UnitPairs ==
  ASSUME RendezvousInv, TypeInv', Pcs, Pairs, LoopsMatch, UNCHANGED prog, NEW c \in Core,
         UnitStep(c), ~FinishSend(c), ~(FinishLocal(c) /\ Current(c).op = "recv")
  PROVE  Pairs'
<1>1. UnitTypes /\ UnitTypes' /\ TypeInv
  BY DEF RendezvousInv, TypeInv
<1>2. DataKept
  <2>1. CASE UNCHANGED pending_queue
    BY <2>1, UnitPostsNothing, <1>1, UnitEffects
  <2>2. CASE \E m \in Posted : m.kind # "send_data" /\ Post(c, m)
    BY <1>1, <2>2, UnitPosts, UnitEffects
  <2>3. CASE StartSync(c) /\ SyncMessage(c) \in Posted /\ Post(c, SyncMessage(c))
    <3>1. SyncMessage(c).kind # "send_data"
      BY DEF SyncMessage
    <3> QED BY <2>2, <2>3, <3>1
  <2> QED BY <1>1, <2>1, <2>2, <2>3, UnitMessages
<1>3. \A d \in Core : d # c => UnitKept(d)
  BY <1>1, UnitEffects
<1>4. ASSUME NEW a \in Core PROVE Reached(a, c)' <=> Reached(a, c)
  <2>1. CASE RecvWrites(c)
    <3>1. At(c, "recv_data") /\ u_pc'[c] = "local" /\ Current(c)' = Current(c)
      BY <1>1, <2>1, UnitEffects DEF RecvWrites, Pauses
    <3>2. Current(c).op = "recv" /\ Current(c).core = recv_sender_core_id[c]
      BY <3>1 DEF At, Pcs, PcAt
    <3> QED BY <3>1, <3>2 DEF Reached, At
  <2>2. CASE StartRecv(c)
    <3>1. u_pc[c] = "start" /\ u_pc'[c] = "recv_data" /\ sched'[Unit(c)] = "recv_trigger"
      BY <1>1, <2>2, UnitEffects DEF StartRecv, Starts, At, Pauses
    <3> QED BY <3>1 DEF Reached, At
  <2>3. CASE ~RecvWrites(c) /\ ~StartRecv(c)
    <3>1. u_pc[c] # "recv_data" /\ ~(u_pc[c] = "local" /\ Current(c).op = "recv")
      BY <2>3 DEF UnitStep, StartSend, SendReads, FinishSend, StartSync, StartWait, FinishWait,
                  StartMemory, LoadWrites, StoreSends, FinishLocal, Starts, At
    <3>2. u_pc'[c] # "recv_data" /\ ~(u_pc'[c] = "local" /\ Current(c)'.op = "recv")
      <4>1. \/ Completes(c)
            \/ \E where \in {"send_ready", "send_read", "wait_event", "load", "store_read", "store"} :
                 \E how : Pauses(c, where, how)
            \/ Pauses(c, "local", "delayed") /\ Current(c).op \in {"sync", "ld", "lldi", "lmv"}
        <5>1. LoadWrites(c) => Current(c).op = "ld"
          BY DEF LoadWrites, At, Pcs, PcAt
        <5>2. StartSync(c) => Current(c).op = "sync"
          BY DEF StartSync, Starts
        <5> QED BY <1>1, <2>3, <5>1, <5>2, UnitEffects DEF UnitStep
      <4> QED BY <4>1 DEF Completes, Pauses
    <3> QED BY <3>1, <3>2 DEF Reached, At
  <2> QED BY <2>1, <2>2, <2>3
<1>5. ASSUME NEW d \in Core
      PROVE  \/ pos'[d] = pos[d]
             \/ HasInstr(d) /\ pos'[d] = NextPos(d) /\ Current(d).op \notin {"send", "recv"}
  <2>1. CASE d # c
    BY <1>3, <2>1 DEF UnitKept, SameUnit
  <2>2. CASE d = c
    <3>1. CASE StartWait(c) \/ FinishWait(c) \/ FinishLocal(c)
      <4>1. Current(c).op \notin {"send", "recv"}
        BY <3>1 DEF StartWait, FinishWait, FinishLocal, Starts, At, Pcs, PcAt
      <4> QED BY <1>1, <2>2, <3>1, <4>1, UnitEffects DEF Completes, Pauses
    <3>2. CASE ~(StartWait(c) \/ FinishWait(c) \/ FinishLocal(c))
      BY <1>1, <2>2, <3>2, UnitEffects DEF UnitStep, Pauses
    <3> QED BY <3>1, <3>2
  <2> QED BY <2>1, <2>2
<1>6. \A a, b \in Core : Reached(a, b)' <=> Reached(a, b)
  BY <1>3, <1>4, UnitReached
<1> QED BY <1>1, <1>2, <1>5, <1>6, PairsKept

LEMMA DataAwaited ==
  ASSUME RendezvousInv, NEW a \in Core, NEW b \in Core, NEW m \in DataTo(a, b)
  PROVE  Receiving(b, a) /\ ~Permitted(a, b)
<1>1. PICK i \in Slots(a) : Slot(a, i) = m
  BY MessageIsSlot DEF DataTo, RendezvousInv
<1>2. Sends(a, i, "send_data", b)
  BY <1>1 DEF DataTo, Sends, Is
<1> QED BY <1>2 DEF RendezvousInv, Meetings, Deliveries

\* The one transfer more that core c is ahead of b: its data is posted.
LEMMA FinishSendPairs ==
  ASSUME RendezvousInv, StallInv, TypeInv', Pcs, Pairs, LoopsMatch, UNCHANGED prog,
         NEW c \in Core, FinishSend(c), UnitStep(c)
  PROVE  Pairs'
<1>1. UnitTypes /\ UnitTypes' /\ TypeInv
  BY DEF RendezvousInv, TypeInv
<1>2. /\ u_pc[c] = "send_read" /\ sched[Unit(c)] = "runnable" /\ HasInstr(c)
      /\ Current(c).op = "send" /\ Current(c).core \in Core
      /\ send_receiver_core_id[c] = Current(c).core /\ send_inst_tag[c] = pos[c]
  <2>1. u_pc[c] = "send_read" /\ sched[Unit(c)] = "runnable"
    BY DEF FinishSend, At
  <2>2. HasInstr(c) /\ Current(c).op = "send"
    BY <1>1, <2>1, RunningHasInstr DEF TypeInv, UnitWaits
  <2>3. send_receiver_core_id[c] = Current(c).core /\ send_inst_tag[c] = pos[c]
    BY <2>1 DEF RendezvousInv, Ends, EndAt, StallInv, Announcements
  <2> QED BY <1>1, <2>1, <2>2, <2>3, CurrentType
<1> PICK b \in Core : b = Current(c).core
  BY <1>2
<1> DEFINE m == DataMessage("send_data", c, b, pos[c])
<1>3. /\ Completes(c) /\ \A d \in Core : d # c => UnitKept(d)
      /\ UNCHANGED switchLocals
  BY <1>1, UnitEffects
<1>4. /\ Messages(c)' = Messages(c) \cup {m}
      /\ \A d \in Core : d # c => Messages(d)' = Messages(d)
      /\ m.kind = "send_data" /\ m.dst = b /\ m.tag = pos[c]
  <2>1. m \in Posted /\ Post(c, m)
    BY <1>1, <1>2, PostedData DEF FinishSend, DataKind, UnitTypes
  <2>2. m.kind = "send_data" /\ m.dst = b /\ m.tag = pos[c]
    BY DEF DataMessage
  <2> HIDE DEF m
  <2> QED BY <1>1, <1>3, <2>1, <2>2, UnitPosts
<1> HIDE DEF m
<1>5. Receiving(b, c) /\ DataTo(c, b) = {} /\ b # c
  <2>1. Permitted(c, b)
    BY <1>2 DEF Permitted
  <2>2. Receiving(b, c)
    BY <2>1 DEF RendezvousInv, Meetings, Permissions
  <2>3. b # c
    BY <1>2, <2>2 DEF Receiving
  <2> QED BY <2>1, <2>2, <2>3, DataAwaited
<1>6. /\ DataTo(c, b)' = {m}
      /\ \A a, e \in Core : ~(a = c /\ e = b) => DataTo(a, e)' = DataTo(a, e)
  BY <1>4, <1>5 DEF DataTo
<1>7. \A a, e \in Core : Reached(a, e)' <=> Reached(a, e)
  <2>1. \A a \in Core : Reached(a, c)' <=> Reached(a, c)
    BY <1>2, <1>3 DEF Completes, Reached, At
  <2> QED BY <1>3, <2>1, UnitReached
<1>8. PairAt(c, b)'
  <2>1. Counted(c, "send", b, 1)
    BY <1>2, <1>3 DEF Counted, Completes, AtSuch
  <2>2. Counted(b, "recv", c, 0)
    BY <1>3, <1>5 DEF Counted, UnitKept, SameUnit
  <2>3. ~Reached(c, b)
    BY <1>5 DEF Reached, Receiving, At
  <2>4. Ahead(c, b)' = Ahead(c, b) + 1 - 0
    BY <1>5, <1>6, <2>3 DEF Ahead
  <2>5. \A n \in DataTo(c, b)' : (n \in DataTo(c, b) /\ 1 = 0) \/ (n.tag = pos[c] /\ 1 = 1)
    BY <1>4, <1>6
  <2> QED BY <1>1, <2>1, <2>2, <2>4, <2>5, PairStep DEF Pairs
<1>9. ASSUME NEW a \in Core, NEW e \in Core, ~(a = c /\ e = b)
      PROVE  PairAt(a, e)'
  <2>1. Counted(a, "send", e, 0)
    BY <1>2, <1>3, <1>9 DEF Counted, Completes, AtSuch, UnitKept, SameUnit
  <2>2. Counted(e, "recv", a, 0)
    BY <1>2, <1>3, <1>9 DEF Counted, Completes, AtSuch, UnitKept, SameUnit
  <2>3. Ahead(a, e)' = Ahead(a, e) + 0 - 0
    BY <1>6, <1>7, <1>9 DEF Ahead
  <2>4. \A n \in DataTo(a, e)' : (n \in DataTo(a, e) /\ 0 = 0) \/ (n.tag = pos[a] /\ 0 = 1)
    BY <1>6, <1>9
  <2> QED BY <1>1, <2>1, <2>2, <2>3, <2>4, PairStep DEF Pairs
<1> QED BY <1>8, <1>9 DEF Pairs

\* The recv of core c is over: it has caught up.
LEMMA FinishRecvPairs ==
  ASSUME RendezvousInv, TypeInv', Pcs, Pairs, LoopsMatch, UNCHANGED prog,
         NEW c \in Core, FinishLocal(c), Current(c).op = "recv", UnitStep(c)
  PROVE  Pairs'
<1>1. UnitTypes /\ UnitTypes' /\ TypeInv
  BY DEF RendezvousInv, TypeInv
<1>2. /\ u_pc[c] = "local" /\ HasInstr(c) /\ Current(c).core \in Core
  <2>1. u_pc[c] \in {"local", "store"} /\ sched[Unit(c)] = "runnable"
    BY DEF FinishLocal, At
  <2>2. u_pc[c] = "local"
    BY <2>1 DEF Pcs, PcAt
  <2> QED BY <1>1, <2>1, <2>2, RunningHasInstr, CurrentType DEF TypeInv
<1> PICK b \in Core : b = Current(c).core
  BY <1>2
<1>3. /\ Completes(c) /\ \A d \in Core : d # c => UnitKept(d)
      /\ UNCHANGED switchLocals
  BY <1>1, UnitEffects
<1>4. \A a, e \in Core : DataTo(a, e)' = DataTo(a, e)
  BY <1>3, UnitPostsNothing DEF FinishLocal, DataKept
<1>5. DataTo(b, c) = {} /\ Reached(b, c) /\ ~Reached(b, c)'
  <2>1. DataTo(b, c) = {}
    BY <1>2, DataAwaited DEF Receiving
  <2> QED BY <1>2, <1>3, <2>1 DEF Reached, At, Completes
<1>6. ASSUME NEW a \in Core, NEW e \in Core, ~(a = b /\ e = c)
      PROVE  Reached(a, e)' <=> Reached(a, e)
  <2>1. CASE e = c
    BY <1>2, <1>3, <1>6, <2>1 DEF Reached, At, Completes
  <2>2. CASE e # c
    BY <1>3, <2>2 DEF UnitKept, SameUnit, Reached, At, Current
  <2> QED BY <2>1, <2>2
<1>7. PairAt(b, c)'
  <2>1. Counted(b, "send", c, 0)
    BY <1>2, <1>3 DEF Counted, Completes, AtSuch, UnitKept, SameUnit
  <2>2. Counted(c, "recv", b, 1)
    BY <1>2, <1>3 DEF Counted, Completes, AtSuch
  <2>3. Ahead(b, c)' = Ahead(b, c) + 0 - 1
    BY <1>4, <1>5 DEF Ahead
  <2>4. \A n \in DataTo(b, c)' : (n \in DataTo(b, c) /\ 0 = 0) \/ (n.tag = pos[b] /\ 0 = 1)
    BY <1>4
  <2> QED BY <1>1, <2>1, <2>2, <2>3, <2>4, PairStep DEF Pairs
<1>8. ASSUME NEW a \in Core, NEW e \in Core, ~(a = b /\ e = c)
      PROVE  PairAt(a, e)'
  <2>1. Counted(a, "send", e, 0)
    BY <1>2, <1>3 DEF Counted, Completes, AtSuch, UnitKept, SameUnit
  <2>2. Counted(e, "recv", a, 0)
    BY <1>2, <1>3, <1>8 DEF Counted, Completes, AtSuch, UnitKept, SameUnit
  <2>3. Ahead(a, e)' = Ahead(a, e) + 0 - 0
    BY <1>4, <1>6, <1>8 DEF Ahead
  <2>4. \A n \in DataTo(a, e)' : (n \in DataTo(a, e) /\ 0 = 0) \/ (n.tag = pos[a] /\ 0 = 1)
    BY <1>4
  <2> QED BY <1>1, <2>1, <2>2, <2>3, <2>4, PairStep DEF Pairs
<1> QED BY <1>7, <1>8 DEF Pairs

-----------------------------------------------------------------------------
(* The switches *)

\* No unit moves, and the only ones woken are not those that wait for data.
LEMMA SleepersReached ==
  ASSUME Ends, UNCHANGED <<prog, pos, u_pc, recv_sender_core_id>>,
         \A d \in Core : \/ sched'[Unit(d)] = sched[Unit(d)]
                         \/ sched[Unit(d)] \notin {"recv_trigger", "runnable"}
  PROVE  \A a, b \in Core : Reached(a, b)' <=> Reached(a, b)
BY DEF Ends, EndAt, Reached, At, Current

LEMMA SwitchPcs ==
  ASSUME Pcs, UNCHANGED <<prog, pos, u_pc, recv_sender_core_id, wait_ev_addr, wait_ev_value>>
  PROVE  Pcs'
BY DEF Pcs, PcAt, Current

Handler(c) ==
  \/ PermitSend(c) \/ RecordSender(c) \/ DeliverData(c) \/ DeliverPermit(c)
  \/ DeliverSync(c) \/ AccessGlobalMemory(c)

\* The unit the message goes to is woken.
WokenBy(c, d) ==
  /\ d = in_flight[c].dst /\ sched'[Unit(d)] = "runnable"
  /\ \/ DeliverData(c) /\ sched[Unit(d)] = "recv_trigger"
     \/ DeliverPermit(c) /\ sched[Unit(d)] = "send_trigger"
     \/ /\ DeliverSync(c) /\ sched[Unit(d)] = "sync_wait_trigger"
        /\ wait_ev_addr[d] = in_flight[c].ev
        /\ wait_ev_value[d] = event_register[d][in_flight[c].ev] + 1

\* What a receive handler does to threads and messages.
LEMMA HandlerEffects ==
  ASSUME TypeInv, NEW c \in Core, Handler(c), ~thrown'
  PROVE  /\ in_flight' = [in_flight EXCEPT ![c] = NoMessage]
         /\ sched[Sw(c)] = "runnable" /\ sched'[Sw(c)] = "delayed" /\ SwitchesStayDelayed
         /\ UNCHANGED <<pos, u_pc, send_receiver_core_id, send_inst_tag, recv_sender_core_id,
                        wait_ev_addr, wait_ev_value>>
         /\ \/ UNCHANGED pending_queue
            \/ /\ PermitSend(c)
               /\ \E p \in Core : \E n \in Posted : n.kind = "receiver_ready" /\ Post(p, n)
         /\ \A d \in Core : sched'[Unit(d)] = sched[Unit(d)] \/ WokenBy(c, d)
<1> DEFINE m == in_flight[c]
           Result == /\ in_flight' = [in_flight EXCEPT ![c] = NoMessage]
                     /\ sched'[Sw(c)] = "delayed" /\ SwitchesStayDelayed
<1>1. /\ UNCHANGED <<pos, u_pc, send_receiver_core_id, send_inst_tag, recv_sender_core_id,
                      wait_ev_addr, wait_ev_value>>
      /\ sched[Sw(c)] = "runnable" /\ sched \in [Thread -> SchedState]
  BY DEF TypeInv, Handler, PermitSend, RecordSender, DeliverData, DeliverPermit, DeliverSync,
         AccessGlobalMemory, Arriving, SwitchAt, unitVars, processVars, sendVars, recvVars, eventVars
<1>2. ASSUME NEW s \in [Thread -> SchedState], NEW where, Delivered(c, s, where),
             \A d \in Core : sched[Sw(d)] = "delayed" => s[Sw(d)] = "delayed"
      PROVE  Result /\ \A d \in Core : sched'[Unit(d)] = s[Unit(d)]
  BY <1>2, Delivers
<1>3. ASSUME Delivered(c, sched, "top") \/ Delivered(c, sched, "response")
      PROVE  Result /\ \A d \in Core : sched'[Unit(d)] = sched[Unit(d)]
  BY <1>1, <1>2, <1>3
<1>4. ASSUME NEW event \in Event, m.dst \in Core,
             Delivered(c, Notify(sched, Unit(m.dst), event), "top")
      PROVE  /\ Result
             /\ \A d \in Core : \/ sched'[Unit(d)] = sched[Unit(d)]
                                \/ /\ d = m.dst /\ sched'[Unit(d)] = "runnable"
                                   /\ sched[Unit(d)] = event
  <2> DEFINE s == Notify(sched, Unit(m.dst), event)
  <2>1. /\ s \in [Thread -> SchedState]
        /\ \A d \in Core : s[Sw(d)] = sched[Sw(d)]
        /\ \A d \in Core : \/ s[Unit(d)] = sched[Unit(d)]
                           \/ d = m.dst /\ s[Unit(d)] = "runnable" /\ sched[Unit(d)] = event
    BY <1>4, WokenUnit
  <2>2. Result /\ \A d \in Core : sched'[Unit(d)] = s[Unit(d)]
    BY <1>2, <1>4, <2>1
  <2> QED BY <2>1, <2>2
<1> HIDE DEF Result
<1>5. CASE PermitSend(c)
  <2>1. Arriving(c, "sender_ready") /\ "sender_ready" \in DataKind
    BY <1>5 DEF PermitSend, DataKind
  <2>2. m.dst \in Core /\ m.src \in Core /\ m.tag \in Nat
    BY <2>1, Arrives
  <2> DEFINE n == DataMessage("receiver_ready", m.dst, m.src, m.tag)
  <2>3. n \in Posted /\ n.kind = "receiver_ready" /\ Post(m.dst, n)
    BY <1>5, <2>2, PostedData DEF PermitSend, DataKind, DataMessage
  <2>4. /\ Notified(m.dst) \in [Thread -> SchedState]
        /\ \A d \in Core : /\ Notified(m.dst)[Unit(d)] = sched[Unit(d)]
                           /\ sched[Sw(d)] = "delayed" => Notified(m.dst)[Sw(d)] = "delayed"
    BY <2>2, NotifiedSwitch
  <2>5. Delivered(c, Notified(m.dst), "top")
    BY <1>5 DEF PermitSend
  <2>6. Result /\ \A d \in Core : sched'[Unit(d)] = Notified(m.dst)[Unit(d)]
    BY <1>2, <2>4, <2>5
  <2> QED BY <1>1, <1>5, <2>2, <2>3, <2>4, <2>6 DEF Result
<1>6. CASE RecordSender(c) \/ AccessGlobalMemory(c)
  <2>1. UNCHANGED pending_queue
    BY <1>6 DEF RecordSender, AccessGlobalMemory
  <2> QED BY <1>1, <1>3, <1>6, <2>1 DEF RecordSender, AccessGlobalMemory, Result
<1>7. CASE DeliverData(c)
  <2>1. m.dst \in Core /\ "recv_trigger" \in Event /\ UNCHANGED pending_queue
    BY <1>7, Arrives DEF DeliverData, DataKind, Event
  <2>2. Delivered(c, Notify(sched, Unit(m.dst), "recv_trigger"), "top")
    BY <1>7 DEF DeliverData
  <2> QED BY <1>1, <1>4, <1>7, <2>1, <2>2 DEF Result, WokenBy
<1>8. CASE DeliverPermit(c)
  <2>1. m.dst \in Core /\ "send_trigger" \in Event /\ UNCHANGED pending_queue
    BY <1>8, Arrives DEF DeliverPermit, DataKind, Event
  <2>2. Delivered(c, Notify(sched, Unit(m.dst), "send_trigger"), "top")
    BY <1>8 DEF DeliverPermit
  <2> QED BY <1>1, <1>4, <1>8, <2>1, <2>2 DEF Result, WokenBy
<1>9. CASE DeliverSync(c)
  <2>1. m.dst \in Core /\ "sync_wait_trigger" \in Event /\ UNCHANGED pending_queue
    BY <1>9, ArrivingType DEF DeliverSync, Event
  <2>2. \/ Delivered(c, sched, "top")
        \/ /\ wait_ev_addr[m.dst] = m.ev
           /\ wait_ev_value[m.dst] = event_register[m.dst][m.ev] + 1
           /\ Delivered(c, Notify(sched, Unit(m.dst), "sync_wait_trigger"), "top")
    BY <1>9 DEF DeliverSync
  <2> QED BY <1>1, <1>3, <1>4, <1>9, <2>1, <2>2 DEF Result, WokenBy
<1> QED BY <1>5, <1>6, <1>7, <1>8, <1>9 DEF Handler

\* A switch goes on: it takes its next message or falls asleep.
LEMMA LoopEffects ==
  ASSUME TypeInv, NEW c \in Core, SwitchContinue(c) \/ SwitchWakes(c) \/ SwitchResponds(c)
  PROVE  /\ SwitchesStayDelayed /\ sw_pc[c] # "network"
         /\ \A d \in Core :
              \/ sched'[Unit(d)] = sched[Unit(d)]
              \/ /\ d = c /\ sched'[Unit(d)] = "runnable"
                 /\ sched[Unit(d)] = "switch_finish_trigger"
         /\ \E s : LoopHead(c, s) \/ (pending_queue[c] # <<>> /\ PopFront(c, s))
<1> DEFINE Finishing == Notify(sched, Unit(c), "switch_finish_trigger")
<1>1. /\ sched \in [Thread -> SchedState] /\ "switch_finish_trigger" \in Event
      /\ sched[Sw(c)] = "runnable"
  BY DEF TypeInv, Event, SwitchContinue, SwitchWakes, SwitchResponds, SwitchAt
<1>2. /\ Finishing \in [Thread -> SchedState]
      /\ \A d \in Core :
           /\ Finishing[Sw(d)] = sched[Sw(d)]
           /\ \/ Finishing[Unit(d)] = sched[Unit(d)]
              \/ /\ d = c /\ Finishing[Unit(d)] = "runnable"
                 /\ sched[Unit(d)] = "switch_finish_trigger"
  BY <1>1, WokenUnit
<1> HIDE DEF Finishing
<1>3. PICK s \in {sched, Finishing} :
        /\ sw_pc[c] # "network"
        /\ LoopHead(c, s) \/ (pending_queue[c] # <<>> /\ PopFront(c, s))
  <2>1. CASE SwitchContinue(c)
    BY <2>1 DEF SwitchContinue, SwitchAt
  <2>2. CASE SwitchWakes(c)
    BY <1>1, <2>2 DEF SwitchWakes, SwitchAt, TypeInv, SwitchWaits
  <2>3. CASE SwitchResponds(c)
    BY <2>3 DEF SwitchResponds, SwitchAt, Finishing
  <2> QED BY <2>1, <2>2, <2>3
<1>4. s \in [Thread -> SchedState]
  BY <1>1, <1>2, <1>3
<1>5. PICK how : sched' = [s EXCEPT ![Sw(c)] = how]
  BY <1>3 DEF LoopHead, PopFront
<1>6. /\ \A d \in Core : sched'[Unit(d)] = s[Unit(d)]
      /\ \A d \in Core : d # c => sched'[Sw(d)] = s[Sw(d)]
  BY <1>4, <1>5, Threads
<1>7. SwitchesStayDelayed
  BY <1>1, <1>2, <1>3, <1>6 DEF SwitchesStayDelayed
<1> QED BY <1>2, <1>3, <1>6, <1>7

\* Data is only taken by its own handler: no data is unexpected.
LEMMA HandledKind ==
  ASSUME RendezvousInv, NEW c \in Core, Handler(c), ~DeliverData(c)
  PROVE  in_flight[c].kind # "send_data"
<1>1. CASE RecordSender(c)
  <2> SUFFICES ASSUME in_flight[c].kind = "send_data" PROVE FALSE
    OBVIOUS
  <2>1. TypeInv /\ Arriving(c, "send_data") /\ "send_data" \in DataKind
    BY <1>1 DEF RecordSender, Arriving, DataKind, RendezvousInv
  <2>2. in_flight[c].dst \in Core /\ 0 \in Slots(c) /\ Slot(c, 0) = in_flight[c]
        /\ Sends(c, 0, "send_data", in_flight[c].dst)
    BY <2>1, Arrives
  <2>3. in_flight[c].src = c /\ Receiving(in_flight[c].dst, c)
    BY <2>2 DEF RendezvousInv, Meetings, Deliveries
  <2> QED BY <1>1, <2>3 DEF RecordSender, Matches, Receiving
<1>2. CASE ~RecordSender(c)
  BY <1>2 DEF Handler, PermitSend, DeliverPermit, DeliverSync, AccessGlobalMemory, Arriving
<1> QED BY <1>1, <1>2

\* A handler other than that of data.
LEMMA HandlerPairs ==
  ASSUME RendezvousInv, TypeInv', ~thrown', Pairs, LoopsMatch, UNCHANGED prog, NEW c \in Core,
         Handler(c), ~DeliverData(c)
  PROVE  Pairs'
<1>1. /\ UnitTypes /\ UnitTypes' /\ TypeInv /\ Ends
      /\ UNCHANGED <<prog, pos, u_pc, recv_sender_core_id>>
  BY HandlerEffects DEF RendezvousInv, TypeInv
<1>2. in_flight[c].kind # "send_data"
  BY HandledKind
<1>3. \A d \in Core : \/ sched'[Unit(d)] = sched[Unit(d)]
                     \/ sched[Unit(d)] \notin {"recv_trigger", "runnable"}
  BY <1>1, HandlerEffects DEF WokenBy
<1>4. /\ in_flight' = [in_flight EXCEPT ![c] = NoMessage]
      /\ \/ UNCHANGED pending_queue
         \/ \E p \in Core : \E n \in Posted : n.kind # "send_data" /\ Post(p, n)
  BY <1>1, HandlerEffects
<1>5. DataKept
  BY <1>1, <1>2, <1>4, HandlerTakes DEF DataKept
<1>6. \A a, b \in Core : Reached(a, b)' <=> Reached(a, b)
  BY <1>1, <1>3, SleepersReached
<1> QED BY <1>1, <1>5, <1>6, PairsKept

\* The data arrives, and its receiver is told.
LEMMA DeliverDataPairs ==
  ASSUME RendezvousInv, TypeInv', Pairs, LoopsMatch, UNCHANGED prog, NEW c \in Core,
         DeliverData(c)
  PROVE  Pairs'
<1> DEFINE m == in_flight[c]
<1>1. /\ UnitTypes /\ UnitTypes' /\ TypeInv
      /\ UNCHANGED <<u_pc, pos, recv_sender_core_id, pending_queue>>
  BY DEF RendezvousInv, TypeInv, DeliverData, unitVars, processVars, recvVars
<1>2. m.dst \in Core /\ m.kind = "send_data" /\ Slot(c, 0) = m /\ 0 \in Slots(c)
      /\ Sends(c, 0, "send_data", m.dst)
  <2>1. Arriving(c, "send_data") /\ "send_data" \in DataKind
    BY DEF DeliverData, DataKind
  <2> QED BY <1>1, <2>1, Arrives DEF Arriving
<1> PICK b \in Core : b = m.dst
  BY <1>2
<1>3. Receiving(b, c) /\ m \in DataTo(c, b)
  BY <1>2 DEF RendezvousInv, Meetings, Deliveries, DataTo, Messages
<1> DEFINE s == Notify(sched, Unit(b), "recv_trigger")
<1>4. /\ s \in [Thread -> SchedState]
      /\ s[Unit(b)] = "runnable" /\ \A e \in Core : e # b => s[Unit(e)] = sched[Unit(e)]
      /\ Delivered(c, s, "top")
  <2>1. "recv_trigger" \in Event
    BY DEF Event
  <2> QED BY <1>1, <1>3, <2>1, WokenUnit DEF DeliverData, Receiving
<1> HIDE DEF s
<1>5. /\ in_flight' = [in_flight EXCEPT ![c] = NoMessage]
      /\ sched'[Unit(b)] = "runnable"
      /\ \A e \in Core : e # b => sched'[Unit(e)] = sched[Unit(e)]
  BY <1>4, Threads DEF Delivered
<1>6. /\ \A a, e \in Core : DataTo(a, e)' \subseteq DataTo(a, e)
      /\ \A a, e \in Core : ~(a = c /\ e = b) => DataTo(a, e)' = DataTo(a, e)
  <2>1. UNCHANGED pending_queue
    BY <1>1
  <2>2. /\ \A a, e \in Core : DataTo(a, e)' \subseteq DataTo(a, e)
        /\ \A a, e \in Core : a # c => DataTo(a, e)' = DataTo(a, e)
        /\ \A e \in Core : ~(in_flight[c].kind = "send_data" /\ in_flight[c].dst = e)
                              => DataTo(c, e)' = DataTo(c, e)
    BY <1>1, <1>5, <2>1, HandlerTakes
  <2> QED BY <2>2
<1>7. Reached(c, b)'
  BY <1>1, <1>3, <1>5 DEF Reached, At, Receiving
<1>8. ASSUME NEW a \in Core, NEW e \in Core, ~(a = c /\ e = b)
      PROVE  Reached(a, e)' <=> Reached(a, e)
  <2>1. CASE e = b
    BY <1>1, <1>3, <1>8, <2>1 DEF Reached, Receiving, At
  <2>2. CASE e # b
    BY <1>1, <1>5, <2>2 DEF Reached, At, Current
  <2> QED BY <2>1, <2>2
<1>9. \A a, e \in Core : Ahead(a, e)' = Ahead(a, e) + 0 - 0
  BY <1>3, <1>6, <1>7, <1>8 DEF Ahead
<1> SUFFICES ASSUME NEW a \in Core, NEW e \in Core PROVE PairAt(a, e)'
  BY DEF Pairs
<1>10. Counted(a, "send", e, 0) /\ Counted(e, "recv", a, 0)
  BY <1>1 DEF Counted
<1>11. \A n \in DataTo(a, e)' : (n \in DataTo(a, e) /\ 0 = 0) \/ (n.tag = pos[a] /\ 0 = 1)
  BY <1>6
<1> QED BY <1>1, <1>9, <1>10, <1>11, PairStep DEF Pairs

LEMMA LoopPairs ==
  ASSUME RendezvousInv, StallInv, TypeInv', Pairs, LoopsMatch, UNCHANGED <<prog, unitVars>>,
         NEW c \in Core, SwitchContinue(c) \/ SwitchWakes(c) \/ SwitchResponds(c)
  PROVE  Pairs'
<1>1. /\ UnitTypes /\ UnitTypes' /\ TypeInv /\ Ends
      /\ UNCHANGED <<prog, pos, u_pc, recv_sender_core_id>>
  BY DEF RendezvousInv, TypeInv, unitVars, processVars, recvVars
<1>2. \A d \in Core : \/ sched'[Unit(d)] = sched[Unit(d)]
                     \/ sched[Unit(d)] \notin {"recv_trigger", "runnable"}
  BY <1>1, LoopEffects
<1>3. \A a, b \in Core : Reached(a, b)' <=> Reached(a, b)
  BY <1>1, <1>2, SleepersReached
<1>4. DataKept
  BY <1>1, LoopEffects, LoopTakes DEF StallInv
<1> QED BY <1>1, <1>3, <1>4, PairsKept

LEMMA ElapsePairs ==
  ASSUME RendezvousInv, TypeInv', Pairs, LoopsMatch, UNCHANGED prog, Elapse
  PROVE  Pairs'
<1>1. /\ UnitTypes /\ UnitTypes' /\ TypeInv
      /\ UNCHANGED <<u_pc, pos, recv_sender_core_id>>
  BY DEF RendezvousInv, TypeInv, Elapse, unitVars, processVars, recvVars
<1>2. PICK P \in SUBSET Delayed : Release(P)
  BY DEF Elapse
<1>3. /\ UNCHANGED <<pending_queue, switchLocals>>
      /\ \A p \in Thread : /\ sched'[p] \in {sched[p], "runnable"}
                           /\ sched[p] # "delayed" => sched'[p] = sched[p]
  BY <1>2 DEF Release, Delayed
<1>4. DataKept
  BY <1>3, UnitPostsNothing
<1>5. \A a, b \in Core : Reached(a, b)' <=> Reached(a, b)
  BY <1>1, <1>3, Threads, SleepersReached DEF RendezvousInv
<1> QED BY <1>1, <1>4, <1>5, PairsKept

-----------------------------------------------------------------------------
(* The invariant of pairs holds *)

PairInv == Pcs /\ Pairs

LEMMA PairInit ==
  ASSUME LoopsMatch PROVE Init => PairInv
<1> SUFFICES ASSUME Init PROVE PairInv
  OBVIOUS
<1>0. UnitTypes
  BY RendezvousInit DEF RendezvousInv, TypeInv
<1>1. \A c \in Core : /\ u_pc[c] = "start" /\ pos[c] = 1
                      /\ in_flight[c] = NoMessage /\ pending_queue[c] = <<>>
  BY DEF Init, SwitchInit
<1>2. Pcs
  BY <1>1 DEF Pcs, PcAt
<1>3. ASSUME NEW a \in Core, NEW b \in Core PROVE PairAt(a, b)
  <2>1. DataTo(a, b) = {}
    <3>1. Queued(a) = {}
      BY <1>1, EmptySeq DEF Queued
    <3> QED BY <1>1, <3>1 DEF DataTo, Messages, NoMessage
  <2>2. Ahead(a, b) = 0
    BY <1>1, <2>1 DEF Ahead, Reached, At
  <2>3. SentTo(a, b) = 0 /\ TakenFrom(b, a) = 0
    <3>1. 1 \in Nat \ {0}
      OBVIOUS
    <3> QED BY <1>1, <3>1, EarlierIs DEF SentTo, TakenFrom
  <2>4. Cong(0, 0, Total(a, "send", b))
    BY <1>0, TotalsMatch, CongSame
  <2>5. TakenFrom(b, a) + Ahead(a, b) = 0
    BY <2>2, <2>3
  <2> QED BY <2>1, <2>3, <2>4, <2>5 DEF PairAt
<1> QED BY <1>2, <1>3 DEF Pairs, PairInv

LEMMA PcsStep == TypeInv /\ Pcs /\ [Next]_vars => Pcs'
<1> SUFFICES ASSUME TypeInv, Pcs, [Next]_vars PROVE Pcs'
  OBVIOUS
<1>1. CASE UNCHANGED vars
  BY <1>1, SwitchPcs DEF vars, unitVars, processVars, recvVars, eventVars
<1>2. ASSUME NEW c \in Core, UnitStep(c), UNCHANGED prog PROVE Pcs'
  BY <1>2, UnitPcs
<1>3. ASSUME NEW c \in Core, SwitchStep(c), UNCHANGED prog PROVE Pcs'
  <2>1. UNCHANGED <<u_pc, pos, recv_sender_core_id, wait_ev_addr, wait_ev_value>>
    BY <1>3 DEF SwitchStep, PermitSend, RecordSender, DeliverData, DeliverPermit, DeliverSync,
                AccessGlobalMemory, unitVars, processVars, recvVars, eventVars
  <2> QED BY <1>3, <2>1, SwitchPcs
<1>4. ASSUME Elapse, UNCHANGED prog PROVE Pcs'
  BY <1>4, SwitchPcs DEF Elapse, unitVars, processVars, recvVars, eventVars
<1>5. CASE Next
  BY <1>2, <1>3, <1>4, <1>5 DEF Next
<1> QED BY <1>1, <1>5

LEMMA PairsStep ==
  ASSUME LoopsMatch
  PROVE  RendezvousInv /\ ~thrown /\ StallInv /\ PairInv /\ [Next]_vars => PairInv'
<1> SUFFICES ASSUME RendezvousInv, ~thrown, StallInv, Pcs, Pairs, [Next]_vars PROVE PairInv'
  BY DEF PairInv
<1>0. TypeInv /\ TypeInv' /\ ~thrown' /\ UnitTypes /\ UnitTypes'
  BY RendezvousStep DEF RendezvousInv, TypeInv
<1>1. Pcs'
  BY <1>0, PcsStep
<1>2. CASE UNCHANGED vars
  <2>1. UNCHANGED <<prog, pos, u_pc, sched, recv_sender_core_id>>
    BY <1>2 DEF vars, switchVars, unitVars, processVars, recvVars, eventVars
  <2>2. UNCHANGED <<pending_queue, switchLocals>>
    BY <1>2 DEF vars, switchVars
  <2>3. \A a, b \in Core : Reached(a, b)' <=> Reached(a, b)
    BY <2>1 DEF Reached, At, Current
  <2>4. DataKept
    BY <2>2, UnitPostsNothing
  <2>5. Pairs'
    BY <1>0, <2>1, <2>3, <2>4, PairsKept
  <2> QED BY <1>1, <2>5 DEF PairInv
<1>3. CASE Next
  <2>1. ASSUME NEW c \in Core, UnitStep(c), UNCHANGED prog PROVE Pairs'
    BY <1>0, <2>1, UnitPairs, FinishSendPairs, FinishRecvPairs
  <2>2. ASSUME NEW c \in Core, SwitchStep(c), UNCHANGED prog PROVE Pairs'
    BY <1>0, <2>2, HandlerPairs, DeliverDataPairs, LoopPairs DEF SwitchStep, Handler
  <2>3. Pairs'
    BY <1>0, <1>3, <2>1, <2>2, ElapsePairs DEF Next
  <2> QED BY <1>1, <2>3 DEF PairInv
<1> QED BY <1>2, <1>3

LEMMA PairsHold ==
  ASSUME LoopsMatch PROVE Spec => [](RendezvousInv /\ StallInv /\ PairInv)
<1> DEFINE J == RendezvousInv /\ ~thrown /\ StallInv /\ PairInv
<1>1. Init => J
  BY RendezvousInit, StallInit, PairInit DEF Init
<1>2. J /\ [Next]_vars => J'
  BY RendezvousStep, StallStep, PairsStep
<1>3. J => RendezvousInv /\ StallInv /\ PairInv
  OBVIOUS
<1> HIDE DEF J
<1> QED BY <1>1, <1>2, <1>3, PTL DEF Spec

\* A send at i that is to peer: there is one more of them in the whole program.
LEMMA EarlierLess ==
  ASSUME UnitTypes, NEW c \in Core, NEW op, NEW peer, NEW i \in 1..Len(prog[c]),
         prog[c][i].op = op, prog[c][i].core = peer, Looping
  PROVE  Earlier(c, op, peer, i) < Total(c, op, peer)
<1> DEFINE S(n) == {j \in 1..(n - 1) : prog[c][j].op = op /\ prog[c][j].core = peer}
<1>1. Len(prog[c]) \in Nat
  BY ProgramAssumption, LenProperties DEF UnitTypes
<1> PICK n \in Nat : n = Len(prog[c])
  BY <1>1
<1>2. IsFiniteSet(S(n + 1))
  <2>1. IsFiniteSet(1..n)
    <3>1. 1 \in Int /\ n \in Int
      OBVIOUS
    <3> QED BY <3>1, FS_Interval, Zenon
  <2>2. S(n + 1) \in SUBSET (1..n)
    OBVIOUS
  <2> QED BY <2>1, <2>2, FS_Subset
<1>3. S(i) \in SUBSET S(n + 1) /\ S(i) # S(n + 1)
  OBVIOUS
<1>4. /\ Earlier(c, op, peer, i) = Cardinality(S(i))
      /\ Total(c, op, peer) = Cardinality(S(n + 1))
  BY DEF Earlier, Total
<1> HIDE DEF S
<1>5. /\ Cardinality(S(i)) \in Nat /\ Cardinality(S(n + 1)) \in Nat
      /\ Cardinality(S(i)) <= Cardinality(S(n + 1))
      /\ Cardinality(S(i)) # Cardinality(S(n + 1))
  BY <1>2, <1>3, FS_Subset, FS_CardinalityType
<1> QED BY <1>4, <1>5, SMT

\* Sends and recvs pair up in program order, in programs that run once and in
\* loops that match, lap after lap: the data that reaches the n-th recv from a
\* is that of a's n-th send (TransferUnit.cpp:80-116, 150-175).
THEOREM PairsInOrder == ASSUME LoopsMatch PROVE Spec => []PairedInOrder
<1>1. RendezvousInv /\ StallInv /\ PairInv => PairedInOrder
  <2> SUFFICES ASSUME RendezvousInv, StallInv, Pcs, Pairs, NEW a \in Core, NEW m \in InNetwork(a),
                      m.kind = "send_data"
               PROVE  Earlier(a, "send", m.dst, m.tag) = Earlier(m.dst, "recv", a, pos[m.dst])
    BY DEF PairedInOrder, PairInv
  <2>0. TypeInv /\ UnitTypes
    BY DEF RendezvousInv, TypeInv
  <2>1. PICK i \in Slots(a) : Slot(a, i) = m
    BY <2>0, NetworkIsSlots
  <2>2. m.dst \in Core /\ Sends(a, i, "send_data", m.dst)
    BY <2>0, <2>1, SlotType DEF DataKind, Sends, Is
  <2> PICK b \in Core : b = m.dst
    BY <2>2
  <2>3. m \in DataTo(a, b)
    <3>1. m \in Messages(a)
      BY <2>0, <2>1 DEF Slots, Slot, Messages, Queued, TypeInv, QueueTypes
    <3> QED BY <3>1 DEF DataTo
  <2> DEFINE n == Total(a, "send", b)
             x == Earlier(a, "send", b, m.tag)
             y == TakenFrom(b, a)
  <2>4. /\ m.tag \in 1..Len(prog[a])
        /\ prog[a][m.tag].op = "send" /\ prog[a][m.tag].core = b
        /\ Cong(x + 1, SentTo(a, b), n) /\ Cong(SentTo(a, b), y + 1, n)
    <3>1. Ahead(a, b) = 1
      BY <2>3 DEF Ahead
    <3> QED BY <2>3, <3>1 DEF Pairs, PairAt
  <2>5. n = Total(b, "recv", a) /\ n \in Nat
    BY <2>0, TotalsMatch
  <2>6. pos[b] \in 1..Len(prog[b]) /\ prog[b][pos[b]].op = "recv" /\ prog[b][pos[b]].core = a
    <3>1. Receiving(b, a)
      BY <2>3, DataAwaited
    <3>2. Current(b).op = "recv" /\ Current(b).core = a /\ HasInstr(b)
      BY <2>0, <3>1 DEF Receiving, Pcs, PcAt, TypeInv, UnitWaits
    <3>3. pos[b] \in 1..Len(prog[b])
      BY <2>0, <3>2, PosInside
    <3> QED BY <3>2, <3>3 DEF Current
  <2>7. x \in Nat /\ y \in Nat /\ SentTo(a, b) \in Nat
    <3>1. m.tag \in Nat \ {0} /\ pos[b] \in Nat \ {0} /\ pos[a] \in Nat \ {0}
      BY <2>0, <2>4 DEF UnitTypes
    <3>2. \A j \in Nat \ {0} : Earlier(a, "send", b, j) \in Nat /\ Earlier(b, "recv", a, j) \in Nat
      BY EarlierIs
    <3> QED BY <3>1, <3>2 DEF TakenFrom, SentTo
  <2>8. n = 0 \/ (x < n /\ y < n)
    <3>1. CASE Looping
      <4>1. x < n
        BY <2>0, <2>4, <3>1, EarlierLess
      <4>2. y < n
        BY <2>0, <2>5, <2>6, <3>1, EarlierLess DEF TakenFrom
      <4> QED BY <4>1, <4>2
    <3>2. CASE ~Looping
      BY <3>2 DEF Total
    <3> QED BY <3>1, <3>2
  <2> HIDE DEF n, x, y
  <2>9. Cong(x, y, n)
    <3>1. Cong(x + 1, y + 1, n) /\ Cong(1, 1, n)
      BY <2>4, <2>5, <2>7, CongTrans, CongSame
    <3>2. Cong((x + 1) - 1, (y + 1) - 1, n)
      BY <2>5, <2>7, <3>1, CongSums
    <3>3. (x + 1) - 1 = x /\ (y + 1) - 1 = y
      BY <2>7
    <3> QED BY <3>2, <3>3
  <2>10. x = y
    BY <2>5, <2>7, <2>8, <2>9, CongEqual
  <2> QED BY <2>10 DEF x, y, TakenFrom
<1> QED BY <1>1, PairsHold, PTL

-----------------------------------------------------------------------------
(* Waits on a register that one core signals *)

\* Core a signals register e of core c in its program.
Source(a, c, e) == Signals(a, c, e) # {}

\* A signal on its way is in the program of its core.
Signallers ==
  \A a \in Core : \A m \in Messages(a) : m.kind = "sync" => Source(a, m.dst, m.ev)

\* A unit told that its register has the awaited value runs before anything can
\* change it: the switch that told it does not go on before.
WaitAt(c) ==
  /\ u_pc[c] = "wait_event" => sched[Unit(c)] \in {"sync_wait_trigger", "runnable"}
  /\ At(c, "wait_event") =>
       \E a \in Core : /\ Source(a, c, wait_ev_addr[c]) /\ sched[Sw(a)] = "delayed"
                       /\ OneSource(c, wait_ev_addr[c]) =>
                            event_register[c][wait_ev_addr[c]] = wait_ev_value[c]
Waits == \A c \in Core : WaitAt(c)

WaitInv == Signallers /\ Waits

\* The only source of a register.
LEMMA TheSource ==
  ASSUME NEW c, NEW e, OneSource(c, e), NEW a \in Core, NEW b \in Core,
         Source(a, c, e), Source(b, c, e)
  PROVE  a = b
<1> DEFINE S == {d \in Core : Signals(d, c, e) # {}}
<1>1. IsFiniteSet(S) /\ Cardinality(S) <= 1
  BY CoreAssumption, FS_Subset DEF OneSource
<1>2. a \in S /\ b \in S
  BY DEF Source
<1> SUFFICES ASSUME a # b PROVE FALSE
  OBVIOUS
<1>3. /\ IsFiniteSet({a}) /\ b \notin {a} /\ Cardinality({a}) = 1
      /\ {a} \cup {b} \in SUBSET S
  BY <1>2, FS_Singleton
<1> HIDE DEF S
<1>4. Cardinality({a} \cup {b}) = Cardinality({a}) + 1
  BY <1>3, FS_AddElement
<1>5. Cardinality({a} \cup {b}) <= Cardinality(S)
  BY <1>1, <1>3, FS_Subset
<1>6. Cardinality(S) \in Nat
  BY <1>1, FS_CardinalityType
<1> QED BY <1>1, <1>3, <1>4, <1>5, <1>6

LEMMA SignallersKept ==
  ASSUME Signallers, UNCHANGED prog,
         \A a \in Core : \A m \in Messages(a)' : m.kind = "sync" =>
           m \in Messages(a) \/ Source(a, m.dst, m.ev)
  PROVE  Signallers'
BY DEF Signallers, Source, Signals

\* Nothing of the wait of d has changed, except that it may sleep on.
LEMMA WaitKept ==
  ASSUME UNCHANGED prog, SwitchesStayDelayed, NEW d \in Core, WaitAt(d),
         u_pc'[d] = u_pc[d], wait_ev_addr'[d] = wait_ev_addr[d],
         wait_ev_value'[d] = wait_ev_value[d],
         u_pc[d] = "wait_event" => /\ sched'[Unit(d)] = sched[Unit(d)]
                                   /\ sched[Unit(d)] = "sync_wait_trigger"
                                        \/ event_register'[d] = event_register[d]
  PROVE  WaitAt(d)'
<1>1. \A a \in Core : \A e : Source(a, d, e)' <=> Source(a, d, e)
  BY DEF Source, Signals
<1>2. \A e : OneSource(d, e)' <=> OneSource(d, e)
  BY DEF OneSource, Signals
<1>3. CASE u_pc[d] # "wait_event"
  BY <1>3 DEF WaitAt, At
<1>4. CASE u_pc[d] = "wait_event" /\ sched[Unit(d)] = "sync_wait_trigger"
  BY <1>4 DEF WaitAt, At
<1>5. CASE u_pc[d] = "wait_event" /\ sched[Unit(d)] # "sync_wait_trigger"
  <2>1. /\ sched'[Unit(d)] = sched[Unit(d)] /\ sched[Unit(d)] = "runnable"
        /\ event_register'[d] = event_register[d]
    BY <1>5 DEF WaitAt
  <2> PICK e : e = wait_ev_addr[d]
    OBVIOUS
  <2>2. PICK a \in Core : /\ Source(a, d, e) /\ sched[Sw(a)] = "delayed"
                          /\ OneSource(d, e) => event_register[d][e] = wait_ev_value[d]
    BY <1>5, <2>1 DEF WaitAt, At
  <2>3. Source(a, d, e)' /\ sched'[Sw(a)] = "delayed"
    BY <1>1, <2>2 DEF SwitchesStayDelayed
  <2>4. OneSource(d, e)' => event_register'[d][e] = wait_ev_value'[d]
    BY <1>2, <2>1, <2>2
  <2> QED BY <1>5, <2>1, <2>3, <2>4 DEF WaitAt, At
<1> QED BY <1>3, <1>4, <1>5

LEMMA UnitWaitInv ==
  ASSUME TypeInv, WaitInv, NEW c \in Core, UnitStep(c), UNCHANGED prog
  PROVE  WaitInv'
<1>1. Signallers'
  <2>1. CASE UNCHANGED pending_queue
    <3>1. \A a \in Core : Messages(a)' = Messages(a)
      BY <2>1, UnitEffects DEF Messages, Queued, switchLocals
    <3> QED BY <3>1, SignallersKept DEF WaitInv
  <2>2. ASSUME NEW m \in Posted, Post(c, m), m.kind = "sync" => Source(c, m.dst, m.ev)
        PROVE  Signallers'
    <3>1. /\ Messages(c)' = Messages(c) \cup {m}
          /\ \A d \in Core : d # c => Messages(d)' = Messages(d)
      BY <2>2, UnitPosts, UnitEffects
    <3>2. \A a \in Core : \A n \in Messages(a)' : n.kind = "sync" =>
            n \in Messages(a) \/ Source(a, n.dst, n.ev)
      BY <2>2, <3>1
    <3> QED BY <3>2, SignallersKept DEF WaitInv
  <2>3. CASE StartSync(c) /\ SyncMessage(c) \in Posted /\ Post(c, SyncMessage(c))
    <3>1. HasInstr(c) /\ Current(c).op = "sync"
      BY <2>3, RunningHasInstr DEF StartSync, Starts, At, TypeInv
    <3>2. pos[c] \in DOMAIN prog[c]
      BY <3>1, ProgramAssumption, LenProperties DEF HasInstr, TypeInv, UnitTypes
    <3>3. Source(c, SyncMessage(c).dst, SyncMessage(c).ev)
      BY <3>1, <3>2 DEF Source, Signals, SyncMessage, Current
    <3> QED BY <2>2, <2>3, <3>3
  <2> QED BY <2>1, <2>2, <2>3, UnitMessages
<1>2. WaitAt(c)'
  <2>1. \/ Completes(c)
        \/ \E where, how : /\ Pauses(c, where, how) /\ how # "runnable"
                           /\ where = "wait_event" => how = "sync_wait_trigger"
    BY UnitEffects DEF UnitStep
  <2> QED BY <2>1 DEF Completes, Pauses, WaitAt, At
<1>3. ASSUME NEW d \in Core, d # c PROVE WaitAt(d)'
  <2>1. UnitKept(d) /\ event_register'[d] = event_register[d] /\ SwitchesStayDelayed
    BY <1>3, UnitEffects
  <2> QED BY <2>1, WaitKept DEF WaitInv, Waits, UnitKept, SameUnit
<1> QED BY <1>1, <1>2, <1>3 DEF WaitInv, Waits

\* No handler posts a signal.
LEMMA HandlerSignallers ==
  ASSUME TypeInv, Signallers, UNCHANGED prog, NEW c \in Core, Handler(c), ~thrown'
  PROVE  Signallers'
<1>1. /\ in_flight' = [in_flight EXCEPT ![c] = NoMessage]
      /\ \/ UNCHANGED pending_queue
         \/ \E p \in Core : \E n \in Posted : n.kind = "receiver_ready" /\ Post(p, n)
  BY HandlerEffects
<1>2. /\ in_flight'[c] = NoMessage /\ NoMessage.kind # "sync"
      /\ \A d \in Core : d # c => in_flight'[d] = in_flight[d]
  BY <1>1 DEF TypeInv, QueueTypes, NoMessage
<1>3. ASSUME NEW d \in Core, NEW m \in Queued(d)', m.kind = "sync"
      PROVE  m \in Queued(d)
  <2>1. CASE UNCHANGED pending_queue
    BY <1>3, <2>1 DEF Queued
  <2>2. ASSUME NEW p \in Core, NEW n \in Posted, n.kind = "receiver_ready", Post(p, n)
        PROVE  m \in Queued(d)
    <3>1. /\ Queued(p)' = Queued(p) \cup {n}
          /\ \A e \in Core : e # p => pending_queue'[e] = pending_queue[e]
      BY <2>2, QueuedPosted
    <3>2. d # p => Queued(d)' = Queued(d)
      BY <3>1 DEF Queued
    <3> QED BY <1>3, <2>2, <3>1, <3>2
  <2> QED BY <1>1, <2>1, <2>2
<1>4. \A d \in Core : \A m \in Messages(d)' : m.kind = "sync" => m \in Messages(d)
  BY <1>2, <1>3 DEF Messages
<1> QED BY <1>4, SignallersKept

LEMMA HandlerWaits ==
  ASSUME TypeInv, WaitInv, UNCHANGED prog, NEW c \in Core, Handler(c), ~thrown'
  PROVE  WaitInv'
<1> DEFINE m == in_flight[c]
<1>0. Signallers'
  BY HandlerSignallers DEF WaitInv
<1>1. /\ sched[Sw(c)] = "runnable" /\ sched'[Sw(c)] = "delayed" /\ SwitchesStayDelayed
      /\ UNCHANGED <<u_pc, wait_ev_addr, wait_ev_value>>
      /\ \A d \in Core : sched'[Unit(d)] = sched[Unit(d)] \/ WokenBy(c, d)
  BY HandlerEffects
<1> SUFFICES ASSUME NEW d \in Core PROVE WaitAt(d)'
  BY <1>0 DEF WaitInv, Waits
<1>2. WaitAt(d)
  BY DEF WaitInv, Waits
<1>3. CASE DeliverSync(c) /\ u_pc[d] = "wait_event" /\ m.dst = d
  <2>1. /\ m.kind = "sync" /\ m.dst \in Core /\ m.ev \in EventRegister
        /\ event_register' = [event_register EXCEPT ![m.dst][m.ev] = event_register[m.dst][m.ev] + 1]
    BY <1>3, ArrivingType DEF DeliverSync, Arriving
  <2> PICK r \in EventRegister : r = m.ev
    BY <2>1
  <2>2. Source(c, d, r)
    BY <1>3, <2>1 DEF WaitInv, Signallers, Messages
  <2>3. Source(c, d, r)' /\ \A e : OneSource(d, e)' <=> OneSource(d, e)
    <3>1. \A e : \A a \in Core : Signals(a, d, e)' = Signals(a, d, e)
      BY DEF Signals
    <3> QED BY <2>2, <3>1 DEF Source, OneSource
  <2>4. /\ event_register'[d][r] = event_register[d][r] + 1
        /\ \A e \in EventRegister : e # r => event_register'[d][e] = event_register[d][e]
    BY <1>3, <2>1 DEF TypeInv, UnitTypes
  <2>5. CASE WokenBy(c, d)
    <3>1. /\ sched'[Unit(d)] = "runnable" /\ wait_ev_addr'[d] = r
          /\ wait_ev_value'[d] = event_register'[d][r]
      BY <1>1, <1>3, <2>4, <2>5 DEF WokenBy, DeliverData, DeliverPermit, DeliverSync, Arriving
    <3>2. Source(c, d, wait_ev_addr[d])' /\ sched'[Sw(c)] = "delayed"
      BY <1>1, <2>3, <3>1
    <3> QED BY <3>1, <3>2 DEF WaitAt
  <2>6. CASE sched'[Unit(d)] = sched[Unit(d)] /\ sched[Unit(d)] = "sync_wait_trigger"
    BY <1>1, <2>6 DEF WaitAt, At
\* The source of the register has told the unit, and is waiting since.
  <2>7. CASE sched'[Unit(d)] = sched[Unit(d)] /\ sched[Unit(d)] = "runnable"
    <3>1. wait_ev_addr[d] \in EventRegister
      BY <1>3 DEF TypeInv, UnitWaits
    <3> PICK e \in EventRegister : e = wait_ev_addr[d]
      BY <3>1
    <3>2. PICK a \in Core : /\ Source(a, d, e) /\ sched[Sw(a)] = "delayed"
                            /\ OneSource(d, e) => event_register[d][e] = wait_ev_value[d]
      BY <1>2, <1>3, <2>7 DEF WaitAt, At
    <3>3. Source(a, d, e)' /\ sched'[Sw(a)] = "delayed"
      BY <1>1, <3>2 DEF SwitchesStayDelayed, Source, Signals
    <3>4. OneSource(d, e) => e # r
      BY <1>1, <2>2, <3>2, TheSource
    <3>5. OneSource(d, e)' => event_register'[d][e] = wait_ev_value'[d]
      BY <1>1, <2>3, <2>4, <3>2, <3>4
    <3>6. wait_ev_addr'[d] = e /\ u_pc'[d] = "wait_event" /\ sched'[Unit(d)] = "runnable"
      BY <1>1, <1>3, <2>7
    <3> QED BY <3>3, <3>5, <3>6 DEF WaitAt
  <2>8. sched[Unit(d)] \in {"sync_wait_trigger", "runnable"}
    BY <1>2, <1>3 DEF WaitAt
  <2> QED BY <1>1, <2>5, <2>6, <2>7, <2>8
<1>4. CASE ~(DeliverSync(c) /\ u_pc[d] = "wait_event" /\ m.dst = d)
  <2>1. u_pc[d] = "wait_event" => event_register'[d] = event_register[d]
    <3>1. CASE DeliverSync(c)
      <4>1. m.dst \in Core
        BY <3>1, ArrivingType DEF DeliverSync
      <4> QED BY <1>4, <3>1, <4>1 DEF DeliverSync, TypeInv, UnitTypes
    <3>2. CASE ~DeliverSync(c)
      BY <3>2 DEF Handler, PermitSend, RecordSender, DeliverData, DeliverPermit,
                  AccessGlobalMemory, unitVars, eventVars
    <3> QED BY <3>1, <3>2
  <2>2. u_pc[d] = "wait_event" => sched'[Unit(d)] = sched[Unit(d)]
    BY <1>1, <1>2, <1>4 DEF WokenBy, WaitAt
  <2> QED BY <1>1, <1>2, <2>1, <2>2, WaitKept
<1> QED BY <1>3, <1>4

LEMMA LoopWaits ==
  ASSUME TypeInv, SwitchPlaces, WaitInv, UNCHANGED <<prog, unitVars>>, NEW c \in Core,
         SwitchContinue(c) \/ SwitchWakes(c) \/ SwitchResponds(c)
  PROVE  WaitInv'
<1>1. /\ SwitchesStayDelayed
      /\ UNCHANGED <<u_pc, wait_ev_addr, wait_ev_value, event_register>>
      /\ \A d \in Core : sched'[Unit(d)] = sched[Unit(d)]
                          \/ sched[Unit(d)] = "switch_finish_trigger"
  BY LoopEffects DEF unitVars, processVars, eventVars
<1>2. Waits'
  BY <1>1, WaitKept DEF WaitInv, Waits, WaitAt
<1>3. \A d \in Core : Messages(d)' \subseteq Messages(d)
  <2>1. /\ sw_pc[c] # "network"
        /\ \E s : LoopHead(c, s) \/ (pending_queue[c] # <<>> /\ PopFront(c, s))
    BY LoopEffects
  <2>2. in_flight[c] = NoMessage
    BY <2>1 DEF SwitchPlaces
  <2>3. ASSUME NEW s, pending_queue[c] # <<>>, PopFront(c, s)
        PROVE  \A d \in Core : Messages(d)' \subseteq Messages(d)
    <3>1. /\ Messages(c)' = Queued(c)
          /\ \A d \in Core : d # c => Messages(d)' = Messages(d)
      BY <2>3, FrontTaken
    <3> QED BY <3>1 DEF Messages
  <2>4. CASE /\ in_flight' = [in_flight EXCEPT ![c] = NoMessage]
             /\ UNCHANGED pending_queue
    <3>1. UNCHANGED <<in_flight, pending_queue>>
      BY <2>2, <2>4 DEF TypeInv, QueueTypes
    <3> QED BY <3>1 DEF Messages, Queued
  <2> QED BY <2>1, <2>3, <2>4 DEF LoopHead
<1>4. Signallers'
  BY <1>3, SignallersKept DEF WaitInv
<1> QED BY <1>2, <1>4 DEF WaitInv

\* Time does not pass while a unit that has been told is still to run.
LEMMA ElapseWaits ==
  ASSUME TypeInv, WaitInv, UNCHANGED prog, Elapse
  PROVE  WaitInv'
<1>1. UNCHANGED <<u_pc, wait_ev_addr, wait_ev_value, event_register>>
  BY DEF Elapse, unitVars, processVars, eventVars
<1>2. PICK P \in SUBSET Delayed : Release(P)
  BY DEF Elapse
<1>3. /\ UNCHANGED <<pending_queue, in_flight>>
      /\ \A p \in Thread : /\ sched[p] # "delayed" => sched'[p] = sched[p]
                           /\ sched[p] # "runnable"
  BY <1>2 DEF Release, Delayed, switchLocals, Elapse, Quiet
<1>4. Waits'
  <2> SUFFICES ASSUME NEW d \in Core PROVE WaitAt(d)'
    BY DEF Waits
  <2>1. WaitAt(d) /\ sched[Unit(d)] # "runnable"
    BY <1>3, Threads DEF WaitInv, Waits
  <2>2. u_pc[d] = "wait_event" => sched'[Unit(d)] = "sync_wait_trigger"
    BY <1>3, <2>1, Threads DEF WaitAt
  <2> QED BY <1>1, <2>2 DEF WaitAt, At
<1>5. \A d \in Core : Messages(d)' = Messages(d)
  BY <1>3 DEF Messages, Queued
<1>6. Signallers'
  BY <1>5, SignallersKept DEF WaitInv
<1> QED BY <1>4, <1>6 DEF WaitInv

LEMMA WaitInit == Init => WaitInv
<1> SUFFICES ASSUME Init PROVE WaitInv
  OBVIOUS
<1>1. \A c \in Core : /\ u_pc[c] = "start"
                      /\ in_flight[c] = NoMessage /\ pending_queue[c] = <<>>
  BY DEF Init, SwitchInit
<1>2. \A c \in Core : Messages(c) = {NoMessage}
  BY <1>1, EmptySeq DEF Messages, Queued
<1> QED BY <1>1, <1>2 DEF WaitInv, Signallers, NoMessage, Waits, WaitAt, At

LEMMA WaitStep ==
  RendezvousInv /\ ~thrown /\ StallInv /\ WaitInv /\ [Next]_vars => WaitInv'
<1> SUFFICES ASSUME RendezvousInv, ~thrown, StallInv, WaitInv, [Next]_vars PROVE WaitInv'
  OBVIOUS
<1>0. TypeInv /\ ~thrown' /\ SwitchPlaces
  BY RendezvousStep DEF RendezvousInv, StallInv
<1>1. CASE UNCHANGED vars
  <2>1. UNCHANGED <<prog, u_pc, sched, wait_ev_addr, wait_ev_value, event_register>>
    BY <1>1 DEF vars, switchVars, unitVars, processVars, eventVars
  <2>2. UNCHANGED <<pending_queue, in_flight>>
    BY <1>1 DEF vars, switchVars, switchLocals
  <2>3. \A d \in Core : Messages(d)' = Messages(d)
    BY <2>2 DEF Messages, Queued
  <2>4. Signallers'
    BY <2>1, <2>3, SignallersKept DEF WaitInv
  <2>5. Waits'
    BY <2>1, WaitKept DEF WaitInv, Waits, SwitchesStayDelayed
  <2> QED BY <2>4, <2>5 DEF WaitInv
<1>2. ASSUME NEW c \in Core, UnitStep(c), UNCHANGED prog PROVE WaitInv'
  BY <1>0, <1>2, UnitWaitInv
<1>3. ASSUME NEW c \in Core, SwitchStep(c), UNCHANGED prog PROVE WaitInv'
  BY <1>0, <1>3, HandlerWaits, LoopWaits DEF SwitchStep, Handler
<1>4. CASE Next
  BY <1>0, <1>2, <1>3, <1>4, ElapseWaits DEF Next
<1> QED BY <1>1, <1>4

\* As long as one core signals a register, a wait completes with the register at
\* its value: no signal is swallowed by the reset (TransferUnit.cpp:330-355).
THEOREM OneSourceWaits == Spec => OneSourceWaitIsExact
<1> DEFINE J == RendezvousInv /\ ~thrown /\ StallInv /\ WaitInv /\ Pcs
           A == \A c \in Core : \A e \in EventRegister :
                  HasInstr(c) /\ WaitCompletes(c) /\ Current(c).ev = e /\ OneSource(c, e) =>
                    event_register[c][e] = Current(c).val
<1>1. Init => J
  BY RendezvousInit, StallInit, WaitInit DEF Init, Pcs, PcAt
<1>2. J /\ [Next]_vars => J'
  BY RendezvousStep, StallStep, WaitStep, PcsStep DEF RendezvousInv
<1>3. J /\ [Next]_vars => [A]_vars
  <2> SUFFICES ASSUME J, Next, NEW c \in Core, HasInstr(c), WaitCompletes(c),
                      OneSource(c, Current(c).ev)
               PROVE  event_register[c][Current(c).ev] = Current(c).val
    OBVIOUS
  <2>0. TypeInv /\ UNCHANGED prog
    BY DEF RendezvousInv, Next
  <2>1. UnitStep(c)
    <3>1. ASSUME NEW d \in Core, d # c, UnitStep(d) PROVE pos'[c] = pos[c]
      BY <2>0, <3>1, UnitEffects DEF UnitKept, SameUnit
    <3>2. ASSUME NEW d \in Core, SwitchStep(d) PROVE UNCHANGED pos
      BY <3>2 DEF SwitchStep, PermitSend, RecordSender, DeliverData, DeliverPermit,
                  DeliverSync, AccessGlobalMemory, unitVars, processVars
    <3>3. Elapse => UNCHANGED pos
      BY DEF Elapse, unitVars, processVars
    <3> QED BY <3>1, <3>2, <3>3 DEF Next, WaitCompletes
  <2>2. StartWait(c) \/ FinishWait(c)
    <3>1. ~(FinishSend(c) \/ FinishLocal(c))
      BY <2>0 DEF FinishSend, FinishLocal, At, WaitCompletes, Pcs, PcAt, TypeInv, UnitWaits
    <3> QED BY <2>0, <2>1, <3>1, UnitEffects DEF UnitStep, WaitCompletes, Pauses
  <2>3. CASE StartWait(c)
    BY <2>0, <2>1, <2>3, UnitEffects DEF WaitCompletes, Pauses
  <2>4. CASE FinishWait(c)
    BY <2>4 DEF FinishWait, At, WaitInv, Waits, WaitAt, Pcs, PcAt
  <2> QED BY <2>2, <2>3, <2>4
<1>4. OneSourceWaitIsExact <=> [][A]_vars
  BY DEF OneSourceWaitIsExact
<1> HIDE DEF J, A
<1> QED BY <1>1, <1>2, <1>3, <1>4, PTL DEF Spec

-----------------------------------------------------------------------------
(* The messages on their way, as sequences *)

SyncTo(m, c, e) == m.kind = "sync" /\ m.dst = c /\ m.ev = e

\* The signals to register e of c among the messages O[a] of each core a.
SyncsIn(O, c, e) ==
  UNION {{a} \X {i \in DOMAIN O[a] : O[a][i].kind = "sync" /\ O[a][i].dst = c
                                       /\ O[a][i].ev = e} : a \in Core}

Network == [Core -> Seq(Posted)]

\* From O to P, core d's oldest message is taken; message m is queued at d.
Takes(O, P, d) ==
  O[d] # <<>> /\ P[d] = Tail(O[d]) /\ \A a \in Core : a # d => P[a] = O[a]
Adds(O, P, d, m) ==
  P[d] = Append(O[d], m) /\ \A a \in Core : a # d => P[a] = O[a]
Counts(m, c, e) == IF SyncTo(m, c, e) THEN 1 ELSE 0

LEMMA OnTheWayIs ==
  ASSUME NEW c, NEW e, NEW O, \A a \in Core : O[a] = Outgoing(a)
  PROVE  OnTheWay(c, e) = SyncsIn(O, c, e)
BY DEF OnTheWay, SyncsIn

LEMMA OnTheWayNext ==
  ASSUME NEW c, NEW e, NEW O, \A a \in Core : O[a] = Outgoing(a)'
  PROVE  OnTheWay(c, e)' = SyncsIn(O, c, e)
BY DEF OnTheWay, SyncsIn

LEMMA SyncsSame ==
  ASSUME NEW c, NEW e, NEW O, NEW P, \A a \in Core : P[a] = O[a]
  PROVE  SyncsIn(P, c, e) = SyncsIn(O, c, e)
BY DEF SyncsIn

\* A signal is named by its core and its place.
LEMMA SyncsMember ==
  /\ \A O, c, e : \A a \in Core : \A i :
       <<a, i>> \in SyncsIn(O, c, e) <=> i \in DOMAIN O[a] /\ SyncTo(O[a][i], c, e)
  /\ \A O, c, e : \A x \in SyncsIn(O, c, e) : \E a \in Core : \E i \in DOMAIN O[a] : x = <<a, i>>
<1> SUFFICES ASSUME NEW O, NEW c, NEW e
             PROVE  /\ \A a \in Core : \A i : <<a, i>> \in SyncsIn(O, c, e)
                                                <=> i \in DOMAIN O[a] /\ SyncTo(O[a][i], c, e)
                    /\ \A x \in SyncsIn(O, c, e) :
                         \E a \in Core : \E i \in DOMAIN O[a] : x = <<a, i>>
  OBVIOUS
<1> DEFINE T(a) == {i \in DOMAIN O[a] : O[a][i].kind = "sync" /\ O[a][i].dst = c
                                          /\ O[a][i].ev = e}
<1>1. \A x : x \in SyncsIn(O, c, e) <=> \E a \in Core : x \in {a} \X T(a)
  BY DEF SyncsIn
<1>2. \A a, i : i \in T(a) <=> i \in DOMAIN O[a] /\ SyncTo(O[a][i], c, e)
  BY DEF SyncTo
<1> HIDE DEF T
<1>3. \A a, b, i : <<a, i>> \in {b} \X T(b) <=> a = b /\ i \in T(b)
  OBVIOUS
<1>4. \A b : \A x \in {b} \X T(b) : \E i \in T(b) : x = <<b, i>>
  OBVIOUS
<1> QED BY <1>1, <1>2, <1>3, <1>4

LEMMA SyncsAppended ==
  ASSUME NEW O \in Network, NEW P, NEW d \in Core, NEW m \in Posted, Adds(O, P, d, m),
         NEW c, NEW e, IsFiniteSet(SyncsIn(O, c, e))
  PROVE  /\ IsFiniteSet(SyncsIn(P, c, e))
         /\ Cardinality(SyncsIn(P, c, e)) =
              Cardinality(SyncsIn(O, c, e)) + Counts(m, c, e)
<1> DEFINE S == SyncsIn(O, c, e)
           n == Len(O[d])
           x == <<d, n + 1>>
<1>1. /\ n \in Nat /\ DOMAIN O[d] = 1..n
      /\ P[d] = Append(O[d], m) /\ \A a \in Core : a # d => P[a] = O[a]
  <2>1. O[d] \in Seq(Posted)
    BY DEF Network
  <2> QED BY <2>1, LenProperties DEF Adds
<1>2. /\ DOMAIN P[d] = 1..(n + 1) /\ P[d][n + 1] = m
      /\ \A i \in 1..n : P[d][i] = O[d][i]
  <2>1. O[d] \in Seq(Posted)
    BY DEF Network
  <2> QED BY <1>1, <2>1, AppendProperties
<1>3. x \notin S
  <2>1. ~(n + 1 \in 1..n)
    BY <1>1
  <2> HIDE DEF n
  <2>2. \A i : <<d, i>> \in S => i \in DOMAIN O[d]
    BY SyncsMember
  <2> QED BY <1>1, <2>1, <2>2
<1>4. Cardinality(S) \in Nat
  BY FS_CardinalityType
<1>5. \A a \in Core : \A i : (i \in DOMAIN P[a] /\ SyncTo(P[a][i], c, e)) <=>
         \/ i \in DOMAIN O[a] /\ SyncTo(O[a][i], c, e)
         \/ a = d /\ i = n + 1 /\ SyncTo(m, c, e)
  <2> SUFFICES ASSUME NEW a \in Core, NEW i
               PROVE  (i \in DOMAIN P[a] /\ SyncTo(P[a][i], c, e)) <=>
                         \/ i \in DOMAIN O[a] /\ SyncTo(O[a][i], c, e)
                         \/ a = d /\ i = n + 1 /\ SyncTo(m, c, e)
    OBVIOUS
  <2>1. CASE a # d
    BY <1>1, <2>1
  <2>2. CASE a = d
    <3>1. i \in 1..(n + 1) <=> i \in 1..n \/ i = n + 1
      BY <1>1
    <3>2. ~(n + 1 \in 1..n)
      BY <1>1
    <3> HIDE DEF n
    <3> QED BY <1>1, <1>2, <2>2, <3>1, <3>2
  <2> QED BY <2>1, <2>2
<1> DEFINE T == SyncsIn(P, c, e)
<1>6. /\ \A a \in Core : \A i :
           <<a, i>> \in T <=> <<a, i>> \in S \/ (a = d /\ i = n + 1 /\ SyncTo(m, c, e))
      /\ \A y \in S : \E a \in Core : \E i : y = <<a, i>>
      /\ \A y \in T : \E a \in Core : \E i : y = <<a, i>>
  <2>1. \A a \in Core : \A i : <<a, i>> \in T <=> i \in DOMAIN P[a] /\ SyncTo(P[a][i], c, e)
    BY SyncsMember
  <2>2. \A a \in Core : \A i : <<a, i>> \in S <=> i \in DOMAIN O[a] /\ SyncTo(O[a][i], c, e)
    BY SyncsMember
  <2>3. /\ \A y \in S : \E a \in Core : \E i : y = <<a, i>>
        /\ \A y \in T : \E a \in Core : \E i : y = <<a, i>>
    BY SyncsMember
  <2> HIDE DEF S, T, n
  <2> QED BY <1>5, <2>1, <2>2, <2>3
<1> HIDE DEF T
<1>7. CASE SyncTo(m, c, e)
  <2>1. T = S \cup {x}
    <3> HIDE DEF S, n
    <3> QED BY <1>6, <1>7
  <2> HIDE DEF S, x
  <2> QED BY <1>3, <1>7, <2>1, FS_AddElement DEF S, T, Counts
<1>8. CASE ~SyncTo(m, c, e)
  <2>1. T = S
    <3> HIDE DEF S, n
    <3>1. \A y \in S : y \in T
      BY <1>6, <1>8
    <3>2. \A y \in T : y \in S
      BY <1>6, <1>8
    <3> QED BY <3>1, <3>2
  <2> QED BY <1>4, <1>8, <2>1 DEF T, Counts
<1> QED BY <1>7, <1>8

LEMMA SyncsTaken ==
  ASSUME NEW O \in Network, NEW P, NEW d \in Core, Takes(O, P, d),
         NEW c, NEW e, IsFiniteSet(SyncsIn(O, c, e))
  PROVE  /\ IsFiniteSet(SyncsIn(P, c, e))
         /\ Cardinality(SyncsIn(P, c, e)) =
              Cardinality(SyncsIn(O, c, e)) - Counts(O[d][1], c, e)
<1> DEFINE S == SyncsIn(O, c, e)
           T == SyncsIn(P, c, e)
           n == Len(O[d])
           R == S \ {<<d, 1>>}
           f == [x \in R |-> IF x[1] = d THEN <<d, x[2] - 1>> ELSE x]
<1>1. /\ n \in Nat /\ DOMAIN O[d] = 1..n /\ n >= 1
      /\ P[d] = Tail(O[d]) /\ \A a \in Core : a # d => P[a] = O[a]
  <2>1. O[d] \in Seq(Posted)
    BY DEF Network
  <2> QED BY <2>1, LenProperties, EmptySeq DEF Takes
<1>2. /\ DOMAIN P[d] = 1..(n - 1)
      /\ \A i \in 1..(n - 1) : P[d][i] = O[d][i + 1]
  <2>1. O[d] \in Seq(Posted)
    BY DEF Network
  <2> QED BY <1>1, <2>1, HeadTailProperties, LenProperties
<1>3. \A a \in Core : \A i : <<a, i>> \in S <=> i \in DOMAIN O[a] /\ SyncTo(O[a][i], c, e)
  BY SyncsMember
<1>4. \A a \in Core : \A i : <<a, i>> \in T <=> i \in DOMAIN P[a] /\ SyncTo(P[a][i], c, e)
  BY SyncsMember
<1>5. \A x \in S : \E a \in Core : \E i \in DOMAIN O[a] : x = <<a, i>>
  BY SyncsMember
<1>6. \A x \in T : \E a \in Core : \E i \in DOMAIN P[a] : x = <<a, i>>
  BY SyncsMember
<1> HIDE DEF S, T
<1>7. \A i \in 1..n : i # 1 => (<<d, i>> \in S <=> <<d, i - 1>> \in T)
  <2> SUFFICES ASSUME NEW i \in 1..n, i # 1 PROVE <<d, i>> \in S <=> <<d, i - 1>> \in T
    OBVIOUS
  <2>1. i - 1 \in 1..(n - 1) /\ (i - 1) + 1 = i
    BY <1>1
  <2> HIDE DEF n
  <2> QED BY <1>1, <1>2, <1>3, <1>4, <2>1
<1>8. \A a \in Core : a # d => \A i : <<a, i>> \in S <=> <<a, i>> \in T
  BY <1>1, <1>3, <1>4
<1>9. f \in [R -> T]
  <2> SUFFICES ASSUME NEW x \in R
               PROVE  (IF x[1] = d THEN <<d, x[2] - 1>> ELSE x) \in T
    OBVIOUS
  <2> PICK a \in Core : \E k \in DOMAIN O[a] : x = <<a, k>>
    BY <1>5
  <2>1. PICK i \in DOMAIN O[a] : x = <<a, i>>
    OBVIOUS
  <2>2. x[1] = a /\ x[2] = i
    BY <2>1
  <2>3. CASE a = d
    <3>1. i \in 1..n /\ i # 1
      BY <1>1, <2>1, <2>3
    <3> QED BY <1>7, <2>1, <2>2, <2>3, <3>1
  <2>4. CASE a # d
    BY <1>8, <2>1, <2>2, <2>4
  <2> QED BY <2>3, <2>4
<1>10. ASSUME NEW x \in R, NEW y \in R, f[x] = f[y] PROVE x = y
  <2> PICK a \in Core : \E k \in DOMAIN O[a] : x = <<a, k>>
    BY <1>5
  <2>1. PICK i \in DOMAIN O[a] : x = <<a, i>>
    OBVIOUS
  <2> PICK b \in Core : \E k \in DOMAIN O[b] : y = <<b, k>>
    BY <1>5
  <2>2. PICK j \in DOMAIN O[b] : y = <<b, j>>
    OBVIOUS
  <2>3. /\ f[x] = IF a = d THEN <<d, i - 1>> ELSE <<a, i>>
        /\ f[y] = IF b = d THEN <<d, j - 1>> ELSE <<b, j>>
    BY <2>1, <2>2
  <2>4. CASE a = d /\ b = d
    <3>1. i \in Int /\ j \in Int /\ i - 1 = j - 1
      BY <1>1, <1>10, <2>1, <2>2, <2>3, <2>4
    <3> QED BY <2>1, <2>2, <2>4, <3>1
  <2>5. CASE ~(a = d /\ b = d)
    BY <1>10, <2>1, <2>2, <2>3, <2>5
  <2> QED BY <2>4, <2>5
<1>11. ASSUME NEW y \in T PROVE \E x \in R : f[x] = y
  <2> PICK a \in Core : \E k \in DOMAIN P[a] : y = <<a, k>>
    BY <1>6
  <2>1. PICK j \in DOMAIN P[a] : y = <<a, j>>
    OBVIOUS
  <2>2. CASE a = d
    <3>0. j \in 1..(n - 1) /\ n \in Nat
      BY <1>1, <1>2, <2>1, <2>2
    <3>1. j \in 1..(n - 1) /\ j + 1 \in 1..n /\ j + 1 # 1 /\ (j + 1) - 1 = j
      <4> HIDE DEF n
      <4> QED BY <3>0
    <3>2. <<d, j + 1>> \in R
      BY <1>7, <2>1, <2>2, <3>1
    <3>3. f[<<d, j + 1>>] = y
      BY <2>1, <2>2, <3>1, <3>2
    <3> QED BY <3>2, <3>3
  <2>3. CASE a # d
    <3>1. y \in R
      BY <1>8, <2>1, <2>3
    <3>2. f[y] = y
      BY <2>1, <2>3, <3>1
    <3> QED BY <3>1, <3>2
  <2> QED BY <2>2, <2>3
<1>12. IsFiniteSet(R) /\ Cardinality(R) = IF <<d, 1>> \in S THEN Cardinality(S) - 1 ELSE Cardinality(S)
  <2>1. IsFiniteSet(S)
    BY DEF S
  <2> QED BY <2>1, FS_RemoveElement
<1>13. <<d, 1>> \in S <=> SyncTo(O[d][1], c, e)
  BY <1>1, <1>3
<1> HIDE DEF R, f
<1>14. f \in Bijection(R, T)
  <2>1. f \in Injection(R, T)
    BY <1>9, <1>10 DEF Injection, IsInjective
  <2>2. f \in Surjection(R, T)
    BY <1>9, <1>11 DEF Surjection
  <2> QED BY <2>1, <2>2 DEF Bijection
<1>15. ExistsBijection(R, T)
  BY <1>14 DEF ExistsBijection
<1>16. IsFiniteSet(T) /\ Cardinality(T) = Cardinality(R)
  BY <1>12, <1>15, FS_Bijection
<1>17. Cardinality(S) \in Nat
  <2>1. IsFiniteSet(S)
    BY DEF S
  <2> QED BY <2>1, FS_CardinalityType
<1>18. Cardinality(T) = Cardinality(S) - Counts(O[d][1], c, e)
  BY <1>12, <1>13, <1>16, <1>17 DEF Counts
<1> QED BY <1>16, <1>18 DEF S, T

LEMMA SyncsHandled ==
  ASSUME NEW O \in Network, NEW Q \in Network, NEW P, NEW d \in Core, NEW p \in Core,
         NEW n \in Posted, Takes(O, Q, d), Adds(Q, P, p, n), NEW c, NEW e,
         ~SyncTo(n, c, e), IsFiniteSet(SyncsIn(O, c, e))
  PROVE  /\ IsFiniteSet(SyncsIn(P, c, e))
         /\ Cardinality(SyncsIn(P, c, e)) =
              Cardinality(SyncsIn(O, c, e)) - Counts(O[d][1], c, e)
<1>1. /\ IsFiniteSet(SyncsIn(Q, c, e))
      /\ Cardinality(SyncsIn(Q, c, e)) = Cardinality(SyncsIn(O, c, e)) - Counts(O[d][1], c, e)
  BY SyncsTaken
<1>2. /\ IsFiniteSet(SyncsIn(P, c, e))
      /\ Cardinality(SyncsIn(P, c, e)) = Cardinality(SyncsIn(Q, c, e)) + Counts(n, c, e)
  BY <1>1, SyncsAppended
<1>3. Cardinality(SyncsIn(Q, c, e)) \in Nat /\ Counts(n, c, e) = 0
  BY <1>1, FS_CardinalityType DEF Counts
<1> QED BY <1>1, <1>2, <1>3

-----------------------------------------------------------------------------
(* What a step does to the signals on their way *)

LEMMA OutgoingType ==
  ASSUME TypeInv, NEW c \in Core
  PROVE  /\ Outgoing(c) \in Seq(Posted)
         /\ in_flight[c] # NoMessage =>
              /\ Outgoing(c) # <<>> /\ Outgoing(c)[1] = in_flight[c]
              /\ Tail(Outgoing(c)) = pending_queue[c]
<1> DEFINE q == pending_queue[c]
<1>1. q \in Seq(Posted) /\ in_flight[c] \in Posted \cup {NoMessage}
  BY DEF TypeInv, QueueTypes
<1>2. CASE in_flight[c] = NoMessage
  BY <1>1, <1>2 DEF Outgoing
<1>3. CASE in_flight[c] # NoMessage
  <2> DEFINE o == <<in_flight[c]>> \o q
  <2>1. Outgoing(c) = o /\ in_flight[c] \in Posted
    BY <1>1, <1>3 DEF Outgoing
  <2> PICK m \in Posted : m = in_flight[c]
    BY <2>1
  <2>2. /\ <<m>> \o q \in Seq(Posted) /\ <<m>> \o q # <<>>
        /\ (<<m>> \o q)[1] = m /\ Tail(<<m>> \o q) = q
    <3> HIDE DEF q
    <3>1. <<m>> \o q \in Seq(Posted) /\ Len(<<m>> \o q) = Len(q) + 1 /\ Len(q) \in Nat
      BY <1>1
    <3>2. \A i \in 1..Len(<<m>> \o q) : (<<m>> \o q)[i] = IF i <= 1 THEN m ELSE q[i - 1]
      BY <1>1
    <3>3. /\ Tail(<<m>> \o q) \in Seq(Posted) /\ Len(Tail(<<m>> \o q)) = Len(q)
          /\ \A i \in 1..Len(q) : Tail(<<m>> \o q)[i] = (<<m>> \o q)[i + 1]
      BY <3>1, HeadTailProperties, EmptySeq
    <3>4. \A i \in 1..Len(q) : Tail(<<m>> \o q)[i] = q[i]
      <4> SUFFICES ASSUME NEW i \in 1..Len(q) PROVE Tail(<<m>> \o q)[i] = q[i]
        OBVIOUS
      <4>1. i + 1 \in 1..Len(<<m>> \o q) /\ ~(i + 1 <= 1) /\ (i + 1) - 1 = i
        BY <3>1
      <4> QED BY <3>2, <3>3, <4>1
    <3>5. Tail(<<m>> \o q) = q
      BY <1>1, <3>3, <3>4, SeqEqual
    <3>6. 1 \in 1..Len(<<m>> \o q)
      BY <3>1
    <3> QED BY <3>1, <3>2, <3>5, <3>6, EmptySeq
  <2> QED BY <1>3, <2>1, <2>2
<1> QED BY <1>2, <1>3

\* A message is queued behind the others.
LEMMA AppendedBehind ==
  ASSUME NEW m \in Posted, NEW n \in Posted, NEW q \in Seq(Posted)
  PROVE  <<n>> \o Append(q, m) = Append(<<n>> \o q, m)
OBVIOUS

LEMMA OutType ==
  ASSUME TypeInv
  PROVE  /\ \E O \in Network : \A a \in Core : O[a] = Outgoing(a)
         /\ \E P : \A a \in Core : P[a] = Outgoing(a)'
<1> DEFINE O == [a \in Core |-> Outgoing(a)]
           P == [a \in Core |-> Outgoing(a)']
<1>1. O \in Network
  <2>1. \A a \in Core : Outgoing(a) \in Seq(Posted)
    BY OutgoingType
  <2> QED BY <2>1 DEF Network
<1>2. \A a \in Core : O[a] = Outgoing(a) /\ P[a] = Outgoing(a)'
  OBVIOUS
<1> HIDE DEF O, P
<1> QED BY <1>1, <1>2

LEMMA PostedSyncs ==
  ASSUME TypeInv, NEW p \in Core, NEW m \in Posted, Post(p, m), UNCHANGED in_flight,
         NEW c, NEW e, IsFiniteSet(OnTheWay(c, e))
  PROVE  /\ IsFiniteSet(OnTheWay(c, e)')
         /\ Cardinality(OnTheWay(c, e)') =
              Cardinality(OnTheWay(c, e)) + Counts(m, c, e)
<1>1. /\ pending_queue'[p] = Append(pending_queue[p], m)
      /\ \A d \in Core : d # p => pending_queue'[d] = pending_queue[d]
      /\ pending_queue[p] \in Seq(Posted) /\ in_flight[p] \in Posted \cup {NoMessage}
  BY DEF TypeInv, QueueTypes, Post, Enqueue
<1>2. Outgoing(p)' = Append(Outgoing(p), m)
  <2>1. CASE in_flight[p] = NoMessage
    BY <1>1, <2>1 DEF Outgoing
  <2>2. CASE in_flight[p] # NoMessage
    BY <1>1, <2>2, AppendedBehind DEF Outgoing
  <2> QED BY <2>1, <2>2
<1>3. \A d \in Core : d # p => Outgoing(d)' = Outgoing(d)
  BY <1>1 DEF Outgoing
<1>o. PICK O \in Network : \A a \in Core : O[a] = Outgoing(a)
  BY OutType
<1>p. PICK P : \A a \in Core : P[a] = Outgoing(a)'
  BY OutType
<1>4. Adds(O, P, p, m)
  BY <1>2, <1>3, <1>o, <1>p DEF Adds
<1>5. OnTheWay(c, e) = SyncsIn(O, c, e)
  BY <1>o, OnTheWayIs
<1>6. OnTheWay(c, e)' = SyncsIn(P, c, e)
  BY <1>p, OnTheWayNext
<1>7. IsFiniteSet(SyncsIn(O, c, e))
  BY <1>5
<1>8. /\ IsFiniteSet(SyncsIn(P, c, e))
      /\ Cardinality(SyncsIn(P, c, e)) =
           Cardinality(SyncsIn(O, c, e)) + Counts(m, c, e)
  BY <1>4, <1>7, SyncsAppended
<1> QED BY <1>5, <1>6, <1>8

\* The messages without the one that is in switch d.
LEMMA OutTaken ==
  ASSUME TypeInv, NEW d \in Core, in_flight[d] # NoMessage
  PROVE  \E O \in Network : \E Q \in Network :
           /\ \A a \in Core : O[a] = Outgoing(a)
           /\ Takes(O, Q, d)
           /\ O[d][1] = in_flight[d]
           /\ Q[d] = pending_queue[d]
           /\ \A a \in Core : a # d => Q[a] = Outgoing(a)
<1>o. PICK O \in Network : \A a \in Core : O[a] = Outgoing(a)
  BY OutType
<1>1. O[d] # <<>> /\ O[d][1] = in_flight[d] /\ Tail(O[d]) = pending_queue[d]
  BY OutgoingType, <1>o
<1>2. PICK Q \in Network : /\ Q[d] = Tail(O[d])
                            /\ \A a \in Core : a # d => Q[a] = O[a]
  <2> DEFINE Q == [O EXCEPT ![d] = Tail(O[d])]
  <2>1. Tail(O[d]) \in Seq(Posted)
    <3>1. O[d] \in Seq(Posted)
      BY DEF Network
    <3> QED BY <1>1, <3>1, HeadTailProperties
  <2>2. Q \in Network /\ Q[d] = Tail(O[d]) /\ \A a \in Core : a # d => Q[a] = O[a]
    BY <2>1 DEF Network
  <2> HIDE DEF Q
  <2> QED BY <2>2
<1> QED BY <1>o, <1>1, <1>2 DEF Takes

\* A handler takes the message of switch d and posts nothing ...
LEMMA HandledSyncs ==
  ASSUME TypeInv, NEW d \in Core, in_flight[d] # NoMessage, in_flight'[d] = NoMessage,
         \A a \in Core : a # d => in_flight'[a] = in_flight[a], UNCHANGED pending_queue,
         NEW c, NEW e, IsFiniteSet(OnTheWay(c, e))
  PROVE  /\ IsFiniteSet(OnTheWay(c, e)')
         /\ Cardinality(OnTheWay(c, e)') =
              Cardinality(OnTheWay(c, e)) - Counts(in_flight[d], c, e)
<1>o. PICK O \in Network : \E R \in Network :
           /\ \A a \in Core : O[a] = Outgoing(a)
           /\ Takes(O, R, d)
           /\ O[d][1] = in_flight[d]
           /\ R[d] = pending_queue[d]
           /\ \A a \in Core : a # d => R[a] = Outgoing(a)
  BY OutTaken
<1>q. PICK Q \in Network :
           /\ \A a \in Core : O[a] = Outgoing(a)
           /\ Takes(O, Q, d)
           /\ O[d][1] = in_flight[d]
           /\ Q[d] = pending_queue[d]
           /\ \A a \in Core : a # d => Q[a] = Outgoing(a)
  BY <1>o
<1>1. \A a \in Core : Q[a] = Outgoing(a)'
  <2>1. Q[d] = Outgoing(d)'
    BY <1>q DEF Outgoing
  <2>2. \A a \in Core : a # d => Q[a] = Outgoing(a)'
    BY <1>q DEF Outgoing
  <2> QED BY <2>1, <2>2
<1>2. OnTheWay(c, e) = SyncsIn(O, c, e)
  BY <1>q, OnTheWayIs
<1>3. OnTheWay(c, e)' = SyncsIn(Q, c, e)
  BY <1>1, OnTheWayNext
<1>4. IsFiniteSet(SyncsIn(O, c, e))
  BY <1>2
<1>5. /\ IsFiniteSet(SyncsIn(Q, c, e))
      /\ Cardinality(SyncsIn(Q, c, e)) =
           Cardinality(SyncsIn(O, c, e)) - Counts(O[d][1], c, e)
  BY <1>q, <1>4, SyncsTaken
<1> QED BY <1>2, <1>3, <1>5, <1>q

\* ... or posts what is no signal.
LEMMA HandledSyncsPost ==
  ASSUME TypeInv, NEW d \in Core, in_flight[d] # NoMessage, in_flight'[d] = NoMessage,
         \A a \in Core : a # d => in_flight'[a] = in_flight[a],
         NEW p \in Core, NEW n \in Posted, n.kind # "sync", Post(p, n),
         NEW c, NEW e, IsFiniteSet(OnTheWay(c, e))
  PROVE  /\ IsFiniteSet(OnTheWay(c, e)')
         /\ Cardinality(OnTheWay(c, e)') =
              Cardinality(OnTheWay(c, e)) - Counts(in_flight[d], c, e)
<1>o. PICK O \in Network : \E R \in Network :
           /\ \A a \in Core : O[a] = Outgoing(a)
           /\ Takes(O, R, d)
           /\ O[d][1] = in_flight[d]
           /\ R[d] = pending_queue[d]
           /\ \A a \in Core : a # d => R[a] = Outgoing(a)
  BY OutTaken
<1>q. PICK Q \in Network :
           /\ \A a \in Core : O[a] = Outgoing(a)
           /\ Takes(O, Q, d)
           /\ O[d][1] = in_flight[d]
           /\ Q[d] = pending_queue[d]
           /\ \A a \in Core : a # d => Q[a] = Outgoing(a)
  BY <1>o
<1>p. PICK P : \A a \in Core : P[a] = Outgoing(a)'
  BY OutType
<1>0. /\ pending_queue'[p] = Append(pending_queue[p], n)
      /\ \A a \in Core : a # p => pending_queue'[a] = pending_queue[a]
      /\ \A a \in Core : pending_queue[a] \in Seq(Posted) /\ in_flight[a] \in Posted \cup {NoMessage}
  BY DEF TypeInv, QueueTypes, Post, Enqueue
<1>1. \A a \in Core : a # p => P[a] = Q[a]
  <2>1. d # p => P[d] = Q[d]
    BY <1>q, <1>p, <1>0 DEF Outgoing
  <2>2. ASSUME NEW a \in Core, a # p, a # d PROVE P[a] = Q[a]
    <3>1. Outgoing(a)' = Outgoing(a)
      BY <1>0, <2>2 DEF Outgoing
    <3> QED BY <1>q, <1>p, <2>2, <3>1
  <2> QED BY <2>1, <2>2
<1>2. P[p] = Append(Q[p], n)
  <2>1. CASE p = d
    <3>1. Outgoing(p)' = Append(pending_queue[d], n)
      BY <1>0, <2>1 DEF Outgoing
    <3> QED BY <1>p, <1>q, <2>1, <3>1
  <2>2. CASE p # d /\ in_flight[p] = NoMessage
    <3>1. Outgoing(p)' = Append(Outgoing(p), n)
      BY <1>0, <2>2 DEF Outgoing
    <3> QED BY <1>p, <1>q, <2>2, <3>1
  <2>3. CASE p # d /\ in_flight[p] # NoMessage
    <3>1. Outgoing(p)' = Append(Outgoing(p), n)
      BY <1>0, <2>3, AppendedBehind DEF Outgoing
    <3> QED BY <1>p, <1>q, <2>3, <3>1
  <2> QED BY <2>1, <2>2, <2>3
<1>3. OnTheWay(c, e) = SyncsIn(O, c, e)
  BY <1>q, OnTheWayIs
<1>4. OnTheWay(c, e)' = SyncsIn(P, c, e)
  BY <1>p, OnTheWayNext
<1>5. IsFiniteSet(SyncsIn(O, c, e)) /\ ~SyncTo(n, c, e)
  BY <1>3 DEF SyncTo
<1>6. /\ IsFiniteSet(SyncsIn(P, c, e))
      /\ Cardinality(SyncsIn(P, c, e)) =
           Cardinality(SyncsIn(O, c, e)) - Counts(O[d][1], c, e)
  <2>1. Adds(Q, P, p, n)
    BY <1>1, <1>2 DEF Adds
  <2> QED BY <1>q, <1>5, <2>1, SyncsHandled
<1> QED BY <1>3, <1>4, <1>6, <1>q

\* A switch that goes on only moves its front.
LEMMA LoopedSyncs ==
  ASSUME TypeInv, SwitchPlaces, NEW d \in Core,
         SwitchContinue(d) \/ SwitchWakes(d) \/ SwitchResponds(d), NEW c, NEW e
  PROVE  OnTheWay(c, e)' = OnTheWay(c, e)
<1>1. /\ sw_pc[d] # "network"
      /\ \E s : LoopHead(d, s) \/ (pending_queue[d] # <<>> /\ PopFront(d, s))
  BY LoopEffects
<1>2. /\ in_flight[d] = NoMessage /\ in_flight \in [Core -> Posted \cup {NoMessage}]
      /\ pending_queue \in [Core -> Seq(Posted)]
  BY <1>1 DEF SwitchPlaces, TypeInv, QueueTypes
<1>3. ASSUME NEW s, pending_queue[d] # <<>>, PopFront(d, s)
      PROVE  \A a \in Core : Outgoing(a)' = Outgoing(a)
  <2> DEFINE q == pending_queue[d]
  <2>1. /\ pending_queue'[d] = Tail(q) /\ in_flight'[d] = Head(q)
        /\ \A a \in Core : a # d => pending_queue'[a] = pending_queue[a]
                                     /\ in_flight'[a] = in_flight[a]
        /\ q \in Seq(Posted) /\ q # <<>>
    BY <1>2, <1>3 DEF PopFront
  <2> HIDE DEF q
  <2>2. Head(q) \in Posted /\ <<Head(q)>> \o Tail(q) = q
    BY <2>1
  <2>3. Head(q) # NoMessage
    BY <2>2 DEF Posted, Message, NoMessage, DataKind
  <2>4. Outgoing(d)' = Outgoing(d)
    BY <1>2, <2>1, <2>2, <2>3 DEF Outgoing, q
  <2>5. \A a \in Core : a # d => Outgoing(a)' = Outgoing(a)
    BY <2>1 DEF Outgoing
  <2> QED BY <2>4, <2>5
<1>4. ASSUME in_flight' = [in_flight EXCEPT ![d] = NoMessage], UNCHANGED pending_queue
      PROVE  \A a \in Core : Outgoing(a)' = Outgoing(a)
  <2>1. in_flight' = in_flight
    BY <1>2, <1>4
  <2> QED BY <1>4, <2>1 DEF Outgoing
<1>5. \A a \in Core : Outgoing(a)' = Outgoing(a)
  BY <1>1, <1>3, <1>4 DEF LoopHead
<1> QED BY <1>5 DEF OnTheWay

-----------------------------------------------------------------------------
(* Signals sent, and signals consumed *)

\* Instruction i of core a is over, or its signal has been sent.
Passed(a, i) == i < pos[a] \/ (i = pos[a] /\ u_pc[a] = "local")

LEMMA SignalledMember ==
  ASSUME NEW c, NEW e
  PROVE  /\ \A a \in Core : \A i :
              <<a, i>> \in Signalled(c, e) <=> i \in Signals(a, c, e) /\ Passed(a, i)
         /\ \A x \in Signalled(c, e) : \E a \in Core : \E i : x = <<a, i>>
<1> DEFINE T(a) == {i \in Signals(a, c, e) : i < pos[a] \/ (i = pos[a] /\ u_pc[a] = "local")}
<1>1. \A x : x \in Signalled(c, e) <=> \E a \in Core : x \in {a} \X T(a)
  BY DEF Signalled
<1>2. \A a, i : i \in T(a) <=> i \in Signals(a, c, e) /\ Passed(a, i)
  BY DEF Passed
<1> HIDE DEF T
<1>3. \A a, b, i : <<a, i>> \in {b} \X T(b) <=> a = b /\ i \in T(b)
  OBVIOUS
<1>4. \A b : \A x \in {b} \X T(b) : \E i \in T(b) : x = <<b, i>>
  OBVIOUS
<1> QED BY <1>1, <1>2, <1>3, <1>4

LEMMA SignalledMemberNext ==
  ASSUME NEW c, NEW e, UNCHANGED prog
  PROVE  /\ \A a \in Core : \A i :
              <<a, i>> \in Signalled(c, e)' <=> i \in Signals(a, c, e) /\ Passed(a, i)'
         /\ \A x \in Signalled(c, e)' : \E a \in Core : \E i : x = <<a, i>>
<1> DEFINE T(a) == {i \in Signals(a, c, e) : i < pos'[a] \/ (i = pos'[a] /\ u_pc'[a] = "local")}
<1>0. \A a : Signals(a, c, e)' = Signals(a, c, e)
  BY DEF Signals
<1>1. \A x : x \in Signalled(c, e)' <=> \E a \in Core : x \in {a} \X T(a)
  BY <1>0 DEF Signalled
<1>2. \A a, i : i \in T(a) <=> i \in Signals(a, c, e) /\ Passed(a, i)'
  BY DEF Passed
<1> HIDE DEF T
<1>3. \A a, b, i : <<a, i>> \in {b} \X T(b) <=> a = b /\ i \in T(b)
  OBVIOUS
<1>4. \A b : \A x \in {b} \X T(b) : \E i \in T(b) : x = <<b, i>>
  OBVIOUS
<1> QED BY <1>1, <1>2, <1>3, <1>4

LEMMA SignalledSame ==
  ASSUME NEW c, NEW e, UNCHANGED prog,
         \A a \in Core : \A i \in Signals(a, c, e) : Passed(a, i)' <=> Passed(a, i)
  PROVE  Signalled(c, e)' = Signalled(c, e)
<1>1. \A x \in Signalled(c, e) : x \in Signalled(c, e)'
  BY SignalledMember, SignalledMemberNext
<1>2. \A x \in Signalled(c, e)' : x \in Signalled(c, e)
  BY SignalledMember, SignalledMemberNext
<1> QED BY <1>1, <1>2

\* The waits on register e that core c has behind it.
LEMMA ConsumedMember ==
  ASSUME NEW c, NEW e
  PROVE  \A x : x \in Consumed(c, e) <=>
           \E i \in DOMAIN prog[c] : /\ i < pos[c] /\ prog[c][i].op = "wait" /\ prog[c][i].ev = e
                                     /\ x \in {i} \X (1..prog[c][i].val)
BY DEF Consumed

LEMMA ConsumedMemberNext ==
  ASSUME NEW c, NEW e, UNCHANGED prog
  PROVE  \A x : x \in Consumed(c, e)' <=>
           \E i \in DOMAIN prog[c] : /\ i < pos'[c] /\ prog[c][i].op = "wait" /\ prog[c][i].ev = e
                                     /\ x \in {i} \X (1..prog[c][i].val)
BY DEF Consumed

LEMMA ConsumedSame ==
  ASSUME UnitTypes, NEW c \in Core, NEW e, UNCHANGED prog,
         \/ pos'[c] = pos[c]
         \/ pos'[c] = pos[c] + 1 /\ ~(Current(c).op = "wait" /\ Current(c).ev = e)
  PROVE  Consumed(c, e)' = Consumed(c, e)
<1>1. \A i \in DOMAIN prog[c] : prog[c][i].op = "wait" /\ prog[c][i].ev = e =>
        (i < pos'[c] <=> i < pos[c])
  <2> SUFFICES ASSUME NEW i \in DOMAIN prog[c], prog[c][i].op = "wait", prog[c][i].ev = e
               PROVE  i < pos'[c] <=> i < pos[c]
    OBVIOUS
  <2>1. i \in Int /\ pos[c] \in Nat
    BY ProgramAssumption, LenProperties DEF UnitTypes
  <2>2. CASE pos'[c] = pos[c]
    BY <2>2
  <2>3. CASE pos'[c] = pos[c] + 1 /\ ~(Current(c).op = "wait" /\ Current(c).ev = e)
    <3>1. i # pos[c]
      BY <2>3 DEF Current
    <3> QED BY <2>1, <2>3, <3>1
  <2> QED BY <2>2, <2>3
<1>2. \A x \in Consumed(c, e) : x \in Consumed(c, e)'
  BY <1>1, ConsumedMember, ConsumedMemberNext
<1>3. \A x \in Consumed(c, e)' : x \in Consumed(c, e)
  BY <1>1, ConsumedMember, ConsumedMemberNext
<1> QED BY <1>2, <1>3

\* A wait consumes as many signals as it waits for.
LEMMA ConsumedAdds ==
  ASSUME UnitTypes, NEW c \in Core, NEW e, UNCHANGED prog, HasInstr(c),
         IsFiniteSet(Consumed(c, e)), pos'[c] = pos[c] + 1,
         Current(c).op = "wait", Current(c).ev = e
  PROVE  /\ IsFiniteSet(Consumed(c, e)')
         /\ Cardinality(Consumed(c, e)') = Cardinality(Consumed(c, e)) + Current(c).val
<1> DEFINE p == pos[c]
           v == Current(c).val
           N == {p} \X (1..v)
<1>1. /\ p \in DOMAIN prog[c] /\ v \in Nat /\ prog[c][p] = Current(c)
      /\ \A i \in DOMAIN prog[c] : i \in Int
  BY CurrentType, ProgramAssumption, LenProperties DEF HasInstr, UnitTypes, Current, Instr
<1>2. Consumed(c, e)' = Consumed(c, e) \cup N
  <2>1. \A i \in DOMAIN prog[c] : i < pos'[c] <=> i < p \/ i = p
    BY <1>1
  <2> HIDE DEF p, v
  <2>2. \A x : x \in N <=> x \in {p} \X (1..prog[c][p].val)
    BY <1>1 DEF v
  <2> HIDE DEF N
  <2>3. \A x \in Consumed(c, e)' : x \in Consumed(c, e) \cup N
    BY <2>1, <2>2, ConsumedMember, ConsumedMemberNext DEF p
  <2>4. \A x \in N : x \in Consumed(c, e)'
    BY <1>1, <2>1, <2>2, ConsumedMemberNext
  <2>5. \A x \in Consumed(c, e) : x \in Consumed(c, e)'
    BY <2>1, ConsumedMember, ConsumedMemberNext DEF p
  <2> QED BY <2>3, <2>4, <2>5
<1>3. Consumed(c, e) \cap N = {}
  <2> SUFFICES ASSUME NEW x \in N, x \in Consumed(c, e) PROVE FALSE
    OBVIOUS
  <2> PICK i \in DOMAIN prog[c] : /\ i < p /\ x \in {i} \X (1..prog[c][i].val)
    BY ConsumedMember
  <2>1. x[1] = i /\ x[1] = p
    OBVIOUS
  <2> QED BY <1>1, <2>1
<1>4. IsFiniteSet(N) /\ Cardinality(N) = v
  <2>1. 1 \in Int /\ v \in Int
    BY <1>1
  <2>2. /\ IsFiniteSet(1..v) /\ Cardinality(1..v) = v
        /\ IsFiniteSet({p}) /\ Cardinality({p}) = 1
    <3>1. v - 1 + 1 = v /\ (1 > v => v = 0)
      BY <1>1
    <3> HIDE DEF v, p
    <3>2. /\ IsFiniteSet(1..v)
          /\ Cardinality(1..v) = IF 1 > v THEN 0 ELSE v - 1 + 1
      BY <2>1, FS_Interval
    <3> QED BY <3>1, <3>2, FS_Singleton
  <2>3. IsFiniteSet(N) /\ Cardinality(N) = Cardinality({p}) * Cardinality(1..v)
    BY <2>2, FS_Product
  <2> QED BY <1>1, <2>2, <2>3
<1> HIDE DEF N, v, p
<1>5. Cardinality(Consumed(c, e) \cup N) =
        Cardinality(Consumed(c, e)) + Cardinality(N) - Cardinality(Consumed(c, e) \cap N)
  BY <1>4, FS_Union
<1>6. IsFiniteSet(Consumed(c, e) \cup N) /\ Cardinality({}) = 0
  BY <1>4, FS_Union, FS_EmptySet
<1>7. Cardinality(Consumed(c, e)) \in Nat
  BY FS_CardinalityType
<1>8. Cardinality(Consumed(c, e) \cup N) = Cardinality(Consumed(c, e)) + v
  <2>1. Cardinality(Consumed(c, e) \cap N) = 0 /\ v \in Nat /\ Cardinality(N) = v
    BY <1>1, <1>3, <1>4, <1>6
  <2> QED BY <1>5, <1>7, <2>1
<1> QED BY <1>2, <1>6, <1>8 DEF v

-----------------------------------------------------------------------------
(* What is signalled is held, on its way, or consumed *)

FiniteSignals(c, e) ==
  IsFiniteSet(OnTheWay(c, e)) /\ IsFiniteSet(Consumed(c, e)) /\ IsFiniteSet(Signalled(c, e))
Balanced(c, e) ==
  event_register[c][e] + Cardinality(OnTheWay(c, e)) + Cardinality(Consumed(c, e))
    = Cardinality(Signalled(c, e))
AccountAt(c, e) == FiniteSignals(c, e) /\ (OneSource(c, e) => Balanced(c, e))
Accounts ==
  ~Looping => \A c \in Core : \A e \in EventRegister : AccountAt(c, e)

\* A step that adds i, j, k and l to the four places keeps the balance.
LEMMA Balances ==
  ASSUME UnitTypes, UNCHANGED prog, NEW c \in Core, NEW e \in EventRegister, AccountAt(c, e),
         FiniteSignals(c, e)', NEW i \in Int, NEW j \in Int, NEW k \in Int, NEW l \in Int,
         i + j + k = l,
         OneSource(c, e) => event_register'[c][e] = event_register[c][e] + i,
         Cardinality(OnTheWay(c, e)') = Cardinality(OnTheWay(c, e)) + j,
         Cardinality(Consumed(c, e)') = Cardinality(Consumed(c, e)) + k,
         Cardinality(Signalled(c, e)') = Cardinality(Signalled(c, e)) + l
  PROVE  AccountAt(c, e)'
<1>1. OneSource(c, e)' <=> OneSource(c, e)
  BY DEF OneSource, Signals
<1>2. event_register[c][e] \in Int
  BY DEF UnitTypes
<1>3. /\ Cardinality(OnTheWay(c, e)) \in Int /\ Cardinality(Consumed(c, e)) \in Int
      /\ Cardinality(Signalled(c, e)) \in Int
  BY FS_CardinalityType DEF AccountAt, FiniteSignals
<1>4. OneSource(c, e) => Balanced(c, e)'
  <2> SUFFICES ASSUME OneSource(c, e) PROVE Balanced(c, e)'
    OBVIOUS
  <2>1. event_register[c][e] + Cardinality(OnTheWay(c, e)) + Cardinality(Consumed(c, e))
          = Cardinality(Signalled(c, e))
    BY DEF AccountAt, Balanced
  <2> PICK r \in Int, x \in Int, y \in Int, z \in Int :
         r = event_register[c][e] /\ x = Cardinality(OnTheWay(c, e))
           /\ y = Cardinality(Consumed(c, e)) /\ z = Cardinality(Signalled(c, e))
    BY <1>2, <1>3
  <2>2. r + x + y = z
    BY <2>1
  <2>3. (r + i) + (x + j) + (y + k) = z + l
    BY <2>2
  <2> QED BY <2>3 DEF Balanced
<1> QED BY <1>1, <1>4 DEF AccountAt

\* A step of a unit that is no sync passes no signal.
LEMMA SignalledKept ==
  ASSUME TypeInv, Pcs, NEW a \in Core, UnitStep(a), ~StartSync(a), UNCHANGED prog, ~Looping,
         NEW c, NEW e
  PROVE  Signalled(c, e)' = Signalled(c, e)
<1>1. \A d \in Core : d # a => pos'[d] = pos[d] /\ u_pc'[d] = u_pc[d]
  BY UnitEffects DEF UnitKept, SameUnit
<1>2. HasInstr(a) /\ pos[a] \in Nat /\ pos[a] \in DOMAIN prog[a]
      /\ \A i \in Signals(a, c, e) : i \in Int /\ (i = pos[a] => Current(a).op = "sync")
  <2>1. HasInstr(a)
    BY RunningHasInstr, UnitEffects DEF TypeInv
  <2> QED BY <2>1, ProgramAssumption, LenProperties
          DEF HasInstr, TypeInv, UnitTypes, Signals, Current
<1>3. \/ pos'[a] = pos[a] /\ u_pc[a] # "local"
         /\ (u_pc'[a] = "local" => Current(a).op # "sync")
      \/ Completes(a) /\ (Current(a).op = "sync" => u_pc[a] = "local")
  BY UnitEffects DEF UnitStep, Pauses, Starts, At, StartSend, SendReads, FinishSend, StartRecv,
     RecvWrites, StartWait, FinishWait, StartMemory, LoadWrites, StoreSends, FinishLocal,
     Pcs, PcAt, TypeInv, UnitWaits
<1>4. \A i \in Signals(a, c, e) : Passed(a, i)' <=> Passed(a, i)
  <2> SUFFICES ASSUME NEW i \in Signals(a, c, e) PROVE Passed(a, i)' <=> Passed(a, i)
    OBVIOUS
  <2>1. CASE Completes(a) /\ (Current(a).op = "sync" => u_pc[a] = "local")
    <3>1. u_pc'[a] = "start" /\ pos'[a] = pos[a] + 1
      BY <2>1 DEF Completes, NextPos
    <3> QED BY <1>2, <2>1, <3>1 DEF Passed
  <2>2. CASE pos'[a] = pos[a] /\ u_pc[a] # "local"
             /\ (u_pc'[a] = "local" => Current(a).op # "sync")
    BY <1>2, <2>2 DEF Passed
  <2> QED BY <1>3, <2>1, <2>2
<1>5. \A d \in Core : \A i \in Signals(d, c, e) : Passed(d, i)' <=> Passed(d, i)
  BY <1>1, <1>4 DEF Passed
<1> QED BY <1>5, SignalledSame

\* A sync adds its signal.
LEMMA SignalledAdds ==
  ASSUME TypeInv, NEW a \in Core, StartSync(a), UNCHANGED <<prog, thrown>>,
         NEW c, NEW e, IsFiniteSet(Signalled(c, e))
  PROVE  /\ IsFiniteSet(Signalled(c, e)')
         /\ Cardinality(Signalled(c, e)') =
              Cardinality(Signalled(c, e)) + Counts(SyncMessage(a), c, e)
<1> DEFINE S == Signalled(c, e)
           x == <<a, pos[a]>>
<1>0. UnitStep(a) /\ u_pc[a] = "start" /\ Current(a).op = "sync"
  BY DEF UnitStep, StartSync, Starts, At
<1>1. \A d \in Core : d # a => pos'[d] = pos[d] /\ u_pc'[d] = u_pc[d]
  BY <1>0, UnitEffects DEF UnitKept, SameUnit
<1>2. pos[a] \in Nat /\ pos'[a] = pos[a] /\ u_pc'[a] = "local" /\ pos[a] \in DOMAIN prog[a]
  <2>1. HasInstr(a)
    BY <1>0, RunningHasInstr, UnitEffects DEF TypeInv
  <2> QED BY <1>0, <2>1, UnitEffects, ProgramAssumption, LenProperties
          DEF HasInstr, TypeInv, UnitTypes, Pauses
<1>3. pos[a] \in Signals(a, c, e) <=> SyncTo(SyncMessage(a), c, e)
  BY <1>0, <1>2 DEF Signals, SyncTo, SyncMessage, Current
<1>4. x \notin S
  BY <1>0, <1>2, SignalledMember DEF Passed
<1>5. \A d \in Core : \A i : Passed(d, i)' <=> Passed(d, i) \/ (d = a /\ i = pos[a])
  BY <1>0, <1>1, <1>2 DEF Passed
<1>6. Cardinality(S) \in Nat
  BY FS_CardinalityType
<1>7. CASE SyncTo(SyncMessage(a), c, e)
  <2>1. \A y \in S : y \in Signalled(c, e)'
    BY <1>5, SignalledMember, SignalledMemberNext
  <2>2. x \in Signalled(c, e)'
    BY <1>3, <1>5, <1>7, SignalledMemberNext
  <2>3. \A y \in Signalled(c, e)' : y \in S \cup {x}
    BY <1>5, SignalledMember, SignalledMemberNext
  <2>4. Signalled(c, e)' = S \cup {x}
    BY <2>1, <2>2, <2>3
  <2> HIDE DEF S, x
  <2>5. IsFiniteSet(S)
    BY DEF S
  <2>6. IsFiniteSet(S \cup {x}) /\ Cardinality(S \cup {x}) = Cardinality(S) + 1
    BY <1>4, <2>5, FS_AddElement
  <2> QED BY <1>7, <2>4, <2>6 DEF Counts, S
<1>8. CASE ~SyncTo(SyncMessage(a), c, e)
  <2>1. \A y \in S : y \in Signalled(c, e)'
    BY <1>5, SignalledMember, SignalledMemberNext
  <2>2. \A y \in Signalled(c, e)' : y \in S
    BY <1>3, <1>5, <1>8, SignalledMember, SignalledMemberNext
  <2>3. Signalled(c, e)' = S
    BY <2>1, <2>2
  <2> HIDE DEF S
  <2> QED BY <1>6, <1>8, <2>3 DEF Counts, S
<1> QED BY <1>7, <1>8

-----------------------------------------------------------------------------
(* The accounts hold *)

LEMMA CountsType == \A m, c, e : Counts(m, c, e) \in Int
BY DEF Counts

LEMMA OnTheWayKept ==
  ASSUME UNCHANGED <<pending_queue, in_flight>>, NEW c, NEW e
  PROVE  OnTheWay(c, e)' = OnTheWay(c, e)
<1>1. \A a \in Core : Outgoing(a)' = Outgoing(a)
  BY DEF Outgoing
<1> QED BY <1>1 DEF OnTheWay

\* What does not touch an account leaves it as it is.
LEMMA AccountKept ==
  ASSUME UnitTypes, UNCHANGED prog, NEW c \in Core, NEW e \in EventRegister, AccountAt(c, e),
         event_register'[c][e] = event_register[c][e], OnTheWay(c, e)' = OnTheWay(c, e),
         Consumed(c, e)' = Consumed(c, e), Signalled(c, e)' = Signalled(c, e)
  PROVE  AccountAt(c, e)'
<1>1. OneSource(c, e)' <=> OneSource(c, e)
  BY DEF OneSource, Signals
<1> QED BY <1>1 DEF AccountAt, FiniteSignals, Balanced

\* The units of other cores touch neither register nor waits of core c.
LEMMA ConsumedKept ==
  ASSUME TypeInv, Pcs, NEW a \in Core, UnitStep(a), UNCHANGED prog, ~Looping,
         NEW c \in Core, NEW e \in EventRegister,
         ~(a = c /\ WaitCompletes(c) /\ Current(c).ev = e)
  PROVE  /\ Consumed(c, e)' = Consumed(c, e)
         /\ event_register'[c][e] = event_register[c][e]
<1>0. UnitTypes
  BY DEF TypeInv
<1>1. CASE a # c
  <2>1. pos'[c] = pos[c] /\ event_register'[c] = event_register[c]
    BY <1>1, UnitEffects DEF UnitKept, SameUnit
  <2> QED BY <1>0, <2>1, ConsumedSame
<1>2. CASE a = c
  <2>1. \/ pos'[c] = pos[c]
        \/ pos'[c] = pos[c] + 1
    BY <1>2, UnitEffects DEF UnitStep, Pauses, Completes, NextPos
  <2>2. pos[c] \in Nat /\ pos[c] + 1 # pos[c]
    BY DEF TypeInv, UnitTypes
  <2>3. pos'[c] = pos[c] + 1 => ~(Current(c).op = "wait" /\ Current(c).ev = e)
    BY <1>2, <2>2 DEF WaitCompletes
  <2>4. Consumed(c, e)' = Consumed(c, e)
    BY <1>0, <2>1, <2>3, ConsumedSame
  <2>5. event_register'[c][e] = event_register[c][e]
    <3>1. CASE StartWait(c) \/ FinishWait(c)
      <4>1. Current(c).op = "wait" /\ (FinishWait(c) => wait_ev_addr[c] = Current(c).ev)
        BY <3>1 DEF StartWait, Starts, FinishWait, At, Pcs, PcAt
      <4>2. CASE UNCHANGED event_register
        BY <4>2
      <4>3. CASE ResetEvent(c, Current(c).ev)
        <5>1. pos'[c] = pos[c] + 1
          BY <4>3 DEF ResetEvent, Finish, NextPos, TypeInv, UnitTypes
        <5>2. Current(c).ev # e
          BY <4>1, <2>3, <5>1
        <5> QED BY <4>3, <5>2 DEF ResetEvent, TypeInv, UnitTypes
      <4> QED BY <3>1, <4>1, <4>2, <4>3 DEF StartWait, FinishWait
    <3>2. CASE ~(StartWait(c) \/ FinishWait(c))
      BY <1>2, <3>2 DEF UnitStep, StartSend, SendReads, FinishSend, StartRecv, RecvWrites,
         StartSync, StartMemory, LoadWrites, StoreSends, FinishLocal, eventVars
    <3> QED BY <3>1, <3>2
  <2> QED BY <2>4, <2>5
<1> QED BY <1>1, <1>2

\* A wait that completes moves the signals of its register to the consumed ones.
LEMMA WaitAccount ==
  ASSUME TypeInv, WaitInv, Pcs, NEW c \in Core, UnitStep(c), UNCHANGED prog, ~Looping,
         NEW e \in EventRegister, WaitCompletes(c), Current(c).ev = e, AccountAt(c, e)
  PROVE  AccountAt(c, e)'
<1>0. UnitTypes
  BY DEF TypeInv
<1>1. StartWait(c) \/ FinishWait(c)
  <2>1. ~(FinishSend(c) \/ FinishLocal(c))
    BY DEF FinishSend, FinishLocal, At, WaitCompletes, Pcs, PcAt, TypeInv, UnitWaits
  <2> QED BY <2>1, UnitEffects DEF UnitStep, WaitCompletes, Pauses
<1>2. HasInstr(c) /\ pos'[c] = pos[c] + 1 /\ Current(c).op = "wait"
  BY <1>1, UnitEffects DEF Completes, NextPos, WaitCompletes, Pauses
<1>3. Current(c).val \in Int /\ event_register[c][e] \in Int
  BY <1>0, <1>2, CurrentType DEF Instr, UnitTypes
<1>4. event_register'[c][e] = 0
  <2>1. CASE FinishWait(c)
    BY <2>1 DEF FinishWait, At, ResetEvent, Pcs, PcAt, TypeInv, UnitTypes
  <2>2. CASE StartWait(c)
    <3>1. ~Suspend(c, sched, "wait_event", "sync_wait_trigger")
      BY DEF Suspend, WaitCompletes
    <3> QED BY <2>2, <3>1 DEF StartWait, ResetEvent, TypeInv, UnitTypes
  <2> QED BY <1>1, <2>1, <2>2
<1>5. OneSource(c, e) => event_register[c][e] = Current(c).val
  <2>1. CASE FinishWait(c)
    BY <2>1 DEF FinishWait, At, WaitInv, Waits, WaitAt, Pcs, PcAt
  <2>2. CASE StartWait(c)
    BY <2>2, UnitEffects DEF WaitCompletes, Pauses
  <2> QED BY <1>1, <2>1, <2>2
<1> PICK v \in Int : v = Current(c).val
  BY <1>3
<1>6. OneSource(c, e) => event_register'[c][e] = event_register[c][e] + (0 - v)
  BY <1>3, <1>4, <1>5
<1>7. OnTheWay(c, e)' = OnTheWay(c, e)
  <2>1. UNCHANGED <<pending_queue, in_flight>>
    BY <1>1 DEF StartWait, FinishWait, switchLocals
  <2> QED BY <2>1, OnTheWayKept
<1>8. Signalled(c, e)' = Signalled(c, e)
  <2>1. ~StartSync(c)
    BY <1>2 DEF StartSync, Starts
  <2> QED BY <2>1, SignalledKept
<1>9. /\ IsFiniteSet(Consumed(c, e)')
      /\ Cardinality(Consumed(c, e)') = Cardinality(Consumed(c, e)) + v
  BY <1>0, <1>2, ConsumedAdds DEF AccountAt, FiniteSignals
<1>10. FiniteSignals(c, e)'
  BY <1>7, <1>8, <1>9 DEF AccountAt, FiniteSignals
<1>11. Cardinality(OnTheWay(c, e)) \in Int /\ Cardinality(Signalled(c, e)) \in Int
  BY FS_CardinalityType DEF AccountAt, FiniteSignals
<1>12. /\ Cardinality(OnTheWay(c, e)') = Cardinality(OnTheWay(c, e)) + 0
       /\ Cardinality(Signalled(c, e)') = Cardinality(Signalled(c, e)) + 0
  BY <1>7, <1>8, <1>11
<1>13. (0 - v) \in Int /\ 0 \in Int /\ (0 - v) + 0 + v = 0
  OBVIOUS
<1> QED BY <1>0, <1>6, <1>9, <1>10, <1>12, <1>13, Balances

LEMMA UnitAccounts ==
  ASSUME TypeInv, WaitInv, Pcs, Accounts, ~thrown, ~thrown', NEW a \in Core, UnitStep(a),
         UNCHANGED prog
  PROVE  Accounts'
<1> SUFFICES ASSUME ~Looping, NEW c \in Core, NEW e \in EventRegister, AccountAt(c, e)
             PROVE  AccountAt(c, e)'
  <2>1. Looping' <=> Looping
    BY DEF Looping
  <2> QED BY <2>1 DEF Accounts
<1>0. UnitTypes /\ UNCHANGED in_flight
  BY UnitEffects DEF TypeInv, switchLocals
<1>1. CASE a = c /\ WaitCompletes(c) /\ Current(c).ev = e
  BY <1>1, WaitAccount
<1>2. CASE ~(a = c /\ WaitCompletes(c) /\ Current(c).ev = e)
  <2>1. Consumed(c, e)' = Consumed(c, e) /\ event_register'[c][e] = event_register[c][e]
    BY <1>2, ConsumedKept
  <2>2. CASE UNCHANGED pending_queue /\ ~StartSync(a)
    <3>1. OnTheWay(c, e)' = OnTheWay(c, e)
      BY <1>0, <2>2, OnTheWayKept
    <3>2. Signalled(c, e)' = Signalled(c, e)
      BY <2>2, SignalledKept
    <3> QED BY <1>0, <2>1, <3>1, <3>2, AccountKept
  <2>3. event_register[c][e] \in Int /\ event_register'[c][e] = event_register[c][e] + 0
    BY <1>0, <2>1 DEF UnitTypes
  <2>4. Cardinality(Consumed(c, e)') = Cardinality(Consumed(c, e)) + 0
    <3>1. Cardinality(Consumed(c, e)) \in Int
      BY FS_CardinalityType DEF AccountAt, FiniteSignals
    <3> QED BY <2>1, <3>1
  <2>5. ASSUME NEW m \in Posted, Post(a, m), m.kind # "sync", ~StartSync(a)
        PROVE  AccountAt(c, e)'
    <3>1. /\ IsFiniteSet(OnTheWay(c, e)')
          /\ Cardinality(OnTheWay(c, e)') = Cardinality(OnTheWay(c, e)) + Counts(m, c, e)
      BY <1>0, <2>5, PostedSyncs DEF AccountAt, FiniteSignals
    <3>2. Counts(m, c, e) = 0
      BY <2>5 DEF Counts, SyncTo
    <3>3. Signalled(c, e)' = Signalled(c, e)
      BY <2>5, SignalledKept
    <3>4. Cardinality(Signalled(c, e)') = Cardinality(Signalled(c, e)) + 0
      <4>1. Cardinality(Signalled(c, e)) \in Int
        BY FS_CardinalityType DEF AccountAt, FiniteSignals
      <4> QED BY <3>3, <4>1
    <3>5. FiniteSignals(c, e)'
      BY <2>1, <3>1, <3>3 DEF AccountAt, FiniteSignals
    <3>6. Cardinality(OnTheWay(c, e)') = Cardinality(OnTheWay(c, e)) + 0
      BY <3>1, <3>2
    <3>7. 0 \in Int /\ 0 + 0 + 0 = 0
      OBVIOUS
    <3> QED BY <1>0, <2>3, <2>4, <3>4, <3>5, <3>6, <3>7, Balances
  <2>6. CASE StartSync(a) /\ SyncMessage(a) \in Posted /\ Post(a, SyncMessage(a))
    <3>1. /\ IsFiniteSet(OnTheWay(c, e)')
          /\ Cardinality(OnTheWay(c, e)') =
               Cardinality(OnTheWay(c, e)) + Counts(SyncMessage(a), c, e)
      BY <1>0, <2>6, PostedSyncs DEF AccountAt, FiniteSignals
    <3>2. UNCHANGED <<prog, thrown>>
      BY DEF UnitStep
    <3>3. /\ IsFiniteSet(Signalled(c, e)')
          /\ Cardinality(Signalled(c, e)') =
               Cardinality(Signalled(c, e)) + Counts(SyncMessage(a), c, e)
      BY <2>6, <3>2, SignalledAdds DEF AccountAt, FiniteSignals
    <3>4. FiniteSignals(c, e)'
      BY <2>1, <3>1, <3>3 DEF AccountAt, FiniteSignals
    <3> PICK n \in Int : n = Counts(SyncMessage(a), c, e)
      BY CountsType
    <3>5. 0 \in Int /\ 0 + n + 0 = n
      OBVIOUS
    <3> QED BY <1>0, <2>3, <2>4, <3>1, <3>3, <3>4, <3>5, Balances
  <2> QED BY <2>2, <2>5, <2>6, UnitMessages
<1> QED BY <1>1, <1>2

\* A signal that arrives moves from the network to its register.
LEMMA HandledRegister ==
  ASSUME TypeInv, NEW d \in Core, Handler(d), ~thrown',
         NEW c \in Core, NEW e \in EventRegister, IsFiniteSet(OnTheWay(c, e))
  PROVE  /\ IsFiniteSet(OnTheWay(c, e)')
         /\ Cardinality(OnTheWay(c, e)') =
              Cardinality(OnTheWay(c, e)) - Counts(in_flight[d], c, e)
         /\ event_register'[c][e] = event_register[c][e] + Counts(in_flight[d], c, e)
<1> DEFINE m == in_flight[d]
<1>1. /\ in_flight' = [in_flight EXCEPT ![d] = NoMessage]
      /\ \/ UNCHANGED pending_queue
         \/ \E p \in Core : \E n \in Posted : n.kind = "receiver_ready" /\ Post(p, n)
  BY HandlerEffects
<1>2. /\ in_flight'[d] = NoMessage
      /\ \A a \in Core : a # d => in_flight'[a] = in_flight[a]
  BY <1>1 DEF TypeInv, QueueTypes
<1>3. in_flight[d] # NoMessage
  BY DEF Handler, PermitSend, RecordSender, DeliverData, DeliverPermit, DeliverSync,
         AccessGlobalMemory, Arriving, NoMessage
<1>4. /\ IsFiniteSet(OnTheWay(c, e)')
      /\ Cardinality(OnTheWay(c, e)') = Cardinality(OnTheWay(c, e)) - Counts(in_flight[d], c, e)
  <2>1. CASE UNCHANGED pending_queue
    BY <1>2, <1>3, <2>1, HandledSyncs
  <2>2. ASSUME NEW p \in Core, NEW n \in Posted, n.kind = "receiver_ready", Post(p, n)
        PROVE  /\ IsFiniteSet(OnTheWay(c, e)')
               /\ Cardinality(OnTheWay(c, e)') =
                    Cardinality(OnTheWay(c, e)) - Counts(in_flight[d], c, e)
    <3>1. n.kind # "sync"
      BY <2>2
    <3> QED BY <1>2, <1>3, <2>2, <3>1, HandledSyncsPost
  <2> QED BY <1>1, <2>1, <2>2
<1>5. event_register'[c][e] = event_register[c][e] + Counts(in_flight[d], c, e)
  <2>1. CASE DeliverSync(d)
    <3>1. /\ m.kind = "sync" /\ m.dst \in Core /\ m.ev \in EventRegister
          /\ event_register' = [event_register EXCEPT ![m.dst][m.ev] = event_register[m.dst][m.ev] + 1]
      BY <2>1, ArrivingType DEF DeliverSync, Arriving
    <3>2. event_register'[c][e] =
            event_register[c][e] + (IF m.dst = c /\ m.ev = e THEN 1 ELSE 0)
      BY <3>1 DEF TypeInv, UnitTypes
    <3> QED BY <3>1, <3>2 DEF Counts, SyncTo
  <2>2. CASE ~DeliverSync(d)
    <3>1. m.kind # "sync" /\ UNCHANGED event_register
      BY <2>2 DEF Handler, PermitSend, RecordSender, DeliverData, DeliverPermit,
                  AccessGlobalMemory, unitVars, eventVars, Arriving
    <3> QED BY <3>1 DEF Counts, SyncTo, TypeInv, UnitTypes
  <2> QED BY <2>1, <2>2
<1> QED BY <1>4, <1>5

\* A signal that arrives is counted in its register.
LEMMA HandlerAccounts ==
  ASSUME TypeInv, Accounts, UNCHANGED prog, NEW d \in Core, Handler(d), ~thrown'
  PROVE  Accounts'
<1> SUFFICES ASSUME ~Looping, NEW c \in Core, NEW e \in EventRegister, AccountAt(c, e)
             PROVE  AccountAt(c, e)'
  <2>1. Looping' <=> Looping
    BY DEF Looping
  <2> QED BY <2>1 DEF Accounts
<1> DEFINE m == in_flight[d]
<1>0. UnitTypes
  BY DEF TypeInv
<1>1. UNCHANGED <<pos, u_pc>>
  BY HandlerEffects
<1>2. IsFiniteSet(OnTheWay(c, e))
  BY DEF AccountAt, FiniteSignals
<1>3. /\ IsFiniteSet(OnTheWay(c, e)')
      /\ Cardinality(OnTheWay(c, e)') = Cardinality(OnTheWay(c, e)) - Counts(in_flight[d], c, e)
      /\ event_register'[c][e] = event_register[c][e] + Counts(in_flight[d], c, e)
  BY <1>2, HandledRegister
<1>6. Consumed(c, e)' = Consumed(c, e)
  BY <1>0, <1>1, ConsumedSame
<1>7. Signalled(c, e)' = Signalled(c, e)
  BY <1>1, SignalledSame DEF Passed
<1>9. FiniteSignals(c, e)'
  BY <1>3, <1>6, <1>7 DEF AccountAt, FiniteSignals
<1>10. /\ Cardinality(OnTheWay(c, e)) \in Int /\ Cardinality(Consumed(c, e)) \in Int
       /\ Cardinality(Signalled(c, e)) \in Int
  BY FS_CardinalityType DEF AccountAt, FiniteSignals
<1> PICK n \in Int : n = Counts(in_flight[d], c, e)
  BY CountsType
<1>11. /\ Cardinality(OnTheWay(c, e)') = Cardinality(OnTheWay(c, e)) + (0 - n)
       /\ event_register'[c][e] = event_register[c][e] + n
  BY <1>3, <1>10
<1>12. /\ Cardinality(Consumed(c, e)') = Cardinality(Consumed(c, e)) + 0
       /\ Cardinality(Signalled(c, e)') = Cardinality(Signalled(c, e)) + 0
  BY <1>6, <1>7, <1>10
<1>13. 0 \in Int /\ (0 - n) \in Int /\ n + (0 - n) + 0 = 0
  OBVIOUS
<1> HIDE DEF m
<1> QED BY <1>0, <1>9, <1>11, <1>12, <1>13, Balances

\* The switches and time move no signal.
LEMMA AccountsKept ==
  ASSUME TypeInv, Accounts, UNCHANGED <<prog, pos, u_pc, event_register>>,
         \A c \in Core : \A e \in EventRegister : OnTheWay(c, e)' = OnTheWay(c, e)
  PROVE  Accounts'
<1> SUFFICES ASSUME ~Looping, NEW c \in Core, NEW e \in EventRegister, AccountAt(c, e)
             PROVE  AccountAt(c, e)'
  <2>1. Looping' <=> Looping
    BY DEF Looping
  <2> QED BY <2>1 DEF Accounts
<1>1. UnitTypes /\ event_register'[c][e] = event_register[c][e]
  BY DEF TypeInv
<1>2. Consumed(c, e)' = Consumed(c, e)
  BY <1>1, ConsumedSame
<1>3. Signalled(c, e)' = Signalled(c, e)
  BY SignalledSame DEF Passed
<1> QED BY <1>1, <1>2, <1>3, AccountKept

LEMMA AccountInit == Init => Accounts
<1> SUFFICES ASSUME Init, NEW c \in Core, NEW e \in EventRegister PROVE AccountAt(c, e)
  BY DEF Accounts
<1>0. UnitTypes
  BY RendezvousInit DEF RendezvousInv, TypeInv
<1>1. \A a \in Core : /\ u_pc[a] = "start" /\ pos[a] = 1
                      /\ in_flight[a] = NoMessage /\ pending_queue[a] = <<>>
  BY DEF Init, SwitchInit
<1>2. \A a \in Core : \A i \in DOMAIN prog[a] : ~(i < 1)
  BY <1>0, ProgramAssumption, LenProperties DEF UnitTypes
<1>3. OnTheWay(c, e) = {}
  <2>1. \A a \in Core : Outgoing(a) = <<>>
    BY <1>1 DEF Outgoing
  <2>2. DOMAIN <<>> = {}
    BY EmptySeq
  <2> QED BY <2>1, <2>2 DEF OnTheWay
<1>4. Consumed(c, e) = {}
  BY <1>1, <1>2 DEF Consumed
<1>5. Signalled(c, e) = {}
  <2>1. \A a \in Core : \A i \in Signals(a, c, e) : ~Passed(a, i)
    BY <1>1, <1>2 DEF Passed, Signals
  <2> QED BY <2>1, SignalledMember
<1>6. event_register[c][e] = 0
  BY DEF Init
<1>7. IsFiniteSet({}) /\ Cardinality({}) = 0
  BY FS_EmptySet
<1> QED BY <1>3, <1>4, <1>5, <1>6, <1>7 DEF AccountAt, FiniteSignals, Balanced

LEMMA AccountStep ==
  RendezvousInv /\ ~thrown /\ StallInv /\ WaitInv /\ Pcs /\ Accounts /\ [Next]_vars => Accounts'
<1> SUFFICES ASSUME RendezvousInv, ~thrown, StallInv, WaitInv, Pcs, Accounts, [Next]_vars
             PROVE  Accounts'
  OBVIOUS
<1>0. TypeInv /\ ~thrown' /\ SwitchPlaces
  BY RendezvousStep DEF RendezvousInv, StallInv
<1>1. CASE UNCHANGED vars
  <2>1. UNCHANGED <<prog, pos, u_pc, event_register, pending_queue, in_flight>>
    BY <1>1 DEF vars, switchVars, switchLocals, unitVars, processVars, eventVars
  <2> QED BY <1>0, <2>1, OnTheWayKept, AccountsKept
<1>2. ASSUME NEW a \in Core, UnitStep(a), UNCHANGED prog PROVE Accounts'
  BY <1>0, <1>2, UnitAccounts
<1>3. ASSUME NEW d \in Core, SwitchStep(d), UNCHANGED prog PROVE Accounts'
  <2>1. CASE Handler(d)
    BY <1>0, <1>3, <2>1, HandlerAccounts
  <2>2. CASE (SwitchContinue(d) \/ SwitchWakes(d) \/ SwitchResponds(d))
             /\ UNCHANGED <<unitVars, thrown>>
    <3>1. \A c \in Core : \A e \in EventRegister : OnTheWay(c, e)' = OnTheWay(c, e)
      BY <1>0, <2>2, LoopedSyncs
    <3>2. UNCHANGED <<pos, u_pc, event_register>>
      BY <2>2 DEF unitVars, processVars, eventVars
    <3> QED BY <1>0, <1>3, <3>1, <3>2, AccountsKept
  <2> QED BY <1>3, <2>1, <2>2 DEF SwitchStep, Handler
<1>4. ASSUME Elapse, UNCHANGED prog PROVE Accounts'
  <2>1. UNCHANGED <<pos, u_pc, event_register, pending_queue, in_flight>>
    BY <1>4 DEF Elapse, unitVars, processVars, eventVars, Release, switchLocals
  <2> QED BY <1>0, <1>4, <2>1, OnTheWayKept, AccountsKept
<1>5. CASE Next
  BY <1>2, <1>3, <1>4, <1>5 DEF Next
<1> QED BY <1>1, <1>5

\* Where one core signals a register, no signal is lost or doubled: it is held by
\* the register, on its way, or consumed by a wait (TransferUnit.cpp:142-160, 330-355).
THEOREM SignalsAreConserved == Spec => []SignalsConserved
<1> DEFINE J == RendezvousInv /\ ~thrown /\ StallInv /\ WaitInv /\ Pcs /\ Accounts
<1>1. Init => J
  BY RendezvousInit, StallInit, WaitInit, AccountInit DEF Init, Pcs, PcAt
<1>2. J /\ [Next]_vars => J'
  BY RendezvousStep, StallStep, WaitStep, PcsStep, AccountStep DEF RendezvousInv
<1>3. J => SignalsConserved
  BY DEF Accounts, AccountAt, Balanced, SignalsConserved
<1> HIDE DEF J
<1> QED BY <1>1, <1>2, <1>3, PTL DEF Spec

-----------------------------------------------------------------------------
(* The phase a core is in *)

\* What core c receives has been permitted, or is on its way.
Granted(c) == Permitted(recv_sender_core_id[c], c)
Arrived(c) == sched[Unit(c)] = "runnable" \/ DataTo(recv_sender_core_id[c], c) # {}

PhaseAt(c) ==
  /\ u_pc[c] = "send_ready" =>
       PhaseOf(c) = IF sched[Unit(c)] = "send_trigger" THEN "posted" ELSE "agreed"
  /\ u_pc[c] = "send_read" => PhaseOf(c) = "agreed"
  /\ u_pc[c] = "recv_data" =>
       PhaseOf(c) = IF Arrived(c) THEN "done" ELSE IF Granted(c) THEN "agreed" ELSE "posted"
  /\ u_pc[c] = "local" =>
       PhaseOf(c) = IF Current(c).op \in {"recv", "sync"} THEN "done" ELSE "idle"
  /\ u_pc[c] \notin {"send_ready", "send_read", "recv_data", "local"} => PhaseOf(c) = "idle"
Phases == \A c \in Core : PhaseAt(c)

LEMMA DataInNetwork ==
  ASSUME TypeInv, NEW a \in Core, NEW b
  PROVE  (\E m \in InNetwork(a) : m.kind = "send_data" /\ m.dst = b) <=> DataTo(a, b) # {}
<1>1. \A i \in Slots(a) : Slot(a, i) \in Messages(a)
  <2>1. Len(pending_queue[a]) \in Nat
    BY LenProperties DEF TypeInv, QueueTypes
  <2> QED BY <2>1 DEF Slots, Slot, Messages, Queued
<1>2. ASSUME NEW m \in InNetwork(a), m.kind = "send_data", m.dst = b PROVE DataTo(a, b) # {}
  <2>1. m \in Messages(a)
    BY <1>1, NetworkIsSlots
  <2> QED BY <1>2, <2>1 DEF DataTo
<1>3. ASSUME NEW m \in DataTo(a, b)
      PROVE  \E n \in InNetwork(a) : n.kind = "send_data" /\ n.dst = b
  <2>1. m \in Messages(a) /\ m.kind = "send_data" /\ m.dst = b
    BY DEF DataTo
  <2>2. PICK i \in Slots(a) : Slot(a, i) = m
    BY <2>1, MessageIsSlot
  <2>3. PICK off \in {0, 1} :
          /\ DOMAIN Outgoing(a) \subseteq Nat
          /\ \A k \in DOMAIN Outgoing(a) :
               k - off \in Slots(a) /\ Outgoing(a)[k] = Slot(a, k - off)
          /\ \A j \in Slots(a) : Slot(a, j) # NoMessage => j + off \in DOMAIN Outgoing(a)
    BY OutgoingIsSlots
  <2>4. m # NoMessage /\ i \in Nat
    BY <2>1, SlotType DEF NoMessage
  <2>5. i + off \in DOMAIN Outgoing(a) /\ (i + off) - off = i
    BY <2>2, <2>3, <2>4
  <2>6. Outgoing(a)[i + off] = m
    BY <2>2, <2>3, <2>5
  <2> QED BY <2>1, <2>5, <2>6 DEF InNetwork
<1> QED BY <1>2, <1>3

LEMMA PhasesHold == RendezvousInv /\ Pcs => Phases
<1> SUFFICES ASSUME RendezvousInv, Pcs, NEW c \in Core PROVE PhaseAt(c)
  BY DEF Phases
<1>1. TypeInv /\ EndAt(c) /\ PcAt(c)
  BY DEF RendezvousInv, Ends, Pcs
<1>2. u_pc[c] # "start" => HasInstr(c)
  BY <1>1 DEF TypeInv, UnitWaits
<1>3. u_pc[c] = "recv_data" => recv_sender_core_id[c] \in Core
  BY <1>1, <1>2, CurrentType DEF PcAt, TypeInv
<1>4. u_pc[c] = "recv_data" => (DataComing(c) <=> Arrived(c))
  <2>1. u_pc[c] = "recv_data" =>
          ((\E m \in InNetwork(recv_sender_core_id[c]) : m.kind = "send_data" /\ m.dst = c)
             <=> DataTo(recv_sender_core_id[c], c) # {})
    BY <1>1, <1>3, DataInNetwork
  <2> QED BY <2>1 DEF DataComing, Arrived, At
<1>5. SendsTo(recv_sender_core_id[c], c) <=> Granted(c)
  BY DEF SendsTo, Granted, Permitted, At
<1>6. CASE u_pc[c] = "send_ready"
  BY <1>1, <1>6 DEF PhaseAt, PhaseOf, EndAt, WaitsFor, At
<1>7. CASE u_pc[c] = "send_read"
  BY <1>7 DEF PhaseAt, PhaseOf
<1>8. CASE u_pc[c] = "recv_data"
  <2>1. PhaseOf(c) = IF DataComing(c) THEN "done"
                     ELSE IF SendsTo(recv_sender_core_id[c], c) THEN "agreed" ELSE "posted"
    BY <1>8 DEF PhaseOf, At
  <2> QED BY <1>4, <1>5, <1>8, <2>1 DEF PhaseAt
<1>9. CASE u_pc[c] = "local"
  BY <1>9 DEF PhaseAt, PhaseOf, At
<1>10. CASE u_pc[c] \notin {"send_ready", "send_read", "recv_data", "local"}
  BY <1>10 DEF PhaseAt, PhaseOf, At
<1> QED BY <1>6, <1>7, <1>8, <1>9, <1>10

\* What a core's phase depends on.
LEMMA PhaseKept ==
  ASSUME NEW d \in Core, PhaseAt(d), PhaseAt(d)', u_pc'[d] = u_pc[d], Current(d)' = Current(d),
         \/ u_pc[d] \notin {"send_ready", "recv_data"}
         \/ /\ sched'[Unit(d)] = sched[Unit(d)] /\ recv_sender_core_id'[d] = recv_sender_core_id[d]
            /\ u_pc[d] = "recv_data" =>
                 /\ DataTo(recv_sender_core_id[d], d)' = DataTo(recv_sender_core_id[d], d)
                 /\ Granted(d)' <=> Granted(d)
  PROVE  PhaseOf(d)' = PhaseOf(d)
<1>1. CASE u_pc[d] \notin {"send_ready", "recv_data"}
  BY <1>1 DEF PhaseAt
<1>2. CASE u_pc[d] = "send_ready"
  BY <1>2 DEF PhaseAt
<1>3. CASE u_pc[d] = "recv_data"
  BY <1>3 DEF PhaseAt, Arrived
<1> QED BY <1>1, <1>2, <1>3

-----------------------------------------------------------------------------
(* The steps of Rendezvous *)

\* The signals sent to register e of c and not consumed.
Register(c, e) == event_register[c][e] + Cardinality(OnTheWay(c, e))

SignalsKept == \A c \in Core : \A e \in EventRegister : Register(c, e)' = Register(c, e)
OtherPhasesKept(c) == \A d \in Core : d # c => PhaseOf(d)' = PhaseOf(d)

LEMMA Posting ==
  ASSUME NEW c \in Core, UNCHANGED <<prog, pos>>, HasInstr(c), Current(c).op \in {"send", "recv"},
         PhaseOf(c) = "idle", PhaseOf(c)' = "posted", OtherPhasesKept(c), SignalsKept
  PROVE  Abstract!Next
<1>1. Abstract!Post(c)
  BY DEF Abstract!Post, Abstract!Is, Abstract!Instr, HasInstr, Current, OtherPhasesKept, SignalsKept,
         Register
<1> QED BY <1>1 DEF Abstract!Next

LEMMA Agreeing ==
  ASSUME NEW a \in Core, NEW b \in Core, a # b, UNCHANGED <<prog, pos>>,
         HasInstr(a), Current(a).op = "send", Current(a).core = b,
         HasInstr(b), Current(b).op = "recv", Current(b).core = a,
         PhaseOf(a) = "posted", PhaseOf(a)' = "agreed",
         PhaseOf(b) = "posted", PhaseOf(b)' = "agreed",
         \A d \in Core : d \notin {a, b} => PhaseOf(d)' = PhaseOf(d), SignalsKept
  PROVE  Abstract!Next
<1>1. Abstract!Agree(a, b)
  BY DEF Abstract!Agree, Abstract!Is, Abstract!Instr, HasInstr, Current, SignalsKept, Register
<1> QED BY <1>1 DEF Abstract!Next

\* Core c goes on to its next instruction.
Advances(c) ==
  UNCHANGED prog /\ HasInstr(c) /\ pos' = [pos EXCEPT ![c] = NextPos(c)]

LEMMA Advancing ==
  ASSUME NEW c \in Core, Advances(c), pos \in [Core -> Nat \ {0}] PROVE Abstract!Advance(c)
BY DEF Abstract!Advance, Advances, NextPos, Looping

LEMMA HandingOver ==
  ASSUME NEW a \in Core, NEW b \in Core, a # b, Advances(a), pos \in [Core -> Nat \ {0}],
         Current(a).op = "send", Current(a).core = b,
         PhaseOf(a) = "agreed", PhaseOf(a)' = "idle", PhaseOf(b)' = "done",
         \A d \in Core : d \notin {a, b} => PhaseOf(d)' = PhaseOf(d), SignalsKept
  PROVE  Abstract!Next
<1>1. Abstract!HandOver(a)
  BY Advancing DEF Abstract!HandOver, Abstract!Is, Abstract!Instr, Advances, HasInstr, Current,
                   SignalsKept, Register
<1> QED BY <1>1 DEF Abstract!Next

LEMMA Signalling ==
  ASSUME NEW c \in Core, UNCHANGED <<prog, pos>>, HasInstr(c), Current(c).op = "sync",
         Current(c).core \in Core, Current(c).ev \in EventRegister,
         PhaseOf(c) = "idle", PhaseOf(c)' = "done", OtherPhasesKept(c),
         \A d \in Core : \A e \in EventRegister :
           Register(d, e)' = IF d = Current(c).core /\ e = Current(c).ev
                             THEN Register(d, e) + 1 ELSE Register(d, e)
  PROVE  Abstract!Next
<1>1. PICK x \in Core : x = Current(c).core
  OBVIOUS
<1>2. PICK y \in EventRegister : y = Current(c).ev
  OBVIOUS
<1>3. [d \in Core |-> [e \in EventRegister |-> Register(d, e)']]
        = [[d \in Core |-> [e \in EventRegister |-> Register(d, e)]] EXCEPT ![x][y] = @ + 1]
  BY <1>1, <1>2
<1>4. Abstract!Signal(c)
  BY <1>1, <1>2, <1>3 DEF Abstract!Signal, Abstract!Is, Abstract!Instr, HasInstr, Current,
                          OtherPhasesKept, Register
<1> QED BY <1>4 DEF Abstract!Next

LEMMA Awaiting ==
  ASSUME NEW c \in Core, Advances(c), pos \in [Core -> Nat \ {0}], Current(c).op = "wait",
         Current(c).ev \in EventRegister, PhaseOf(c) = "idle", \A d \in Core : PhaseOf(d)' = PhaseOf(d),
         Register(c, Current(c).ev) >= Current(c).val,
         \A d \in Core : \A e \in EventRegister :
           Register(d, e)' = IF d = c /\ e = Current(c).ev
                             THEN Register(d, e) - Current(c).val ELSE Register(d, e)
  PROVE  Abstract!Next
<1>1. Abstract!Await(c)
  BY Advancing DEF Abstract!Await, Abstract!Is, Abstract!Instr, Advances, HasInstr, Current, Register
<1> QED BY <1>1 DEF Abstract!Next

LEMMA Accessing ==
  ASSUME NEW c \in Core, Advances(c), pos \in [Core -> Nat \ {0}],
         Current(c).op \in {"ld", "st", "lldi", "lmv"},
         PhaseOf(c) = "idle", \A d \in Core : PhaseOf(d)' = PhaseOf(d), SignalsKept
  PROVE  Abstract!Next
<1>1. Abstract!Access(c)
  BY Advancing DEF Abstract!Access, Abstract!Is, Abstract!Instr, Advances, HasInstr, Current,
                   SignalsKept, Register
<1> QED BY <1>1 DEF Abstract!Next

LEMMA Finishing ==
  ASSUME NEW c \in Core, Advances(c), pos \in [Core -> Nat \ {0}],
         PhaseOf(c) = "done", PhaseOf(c)' = "idle", OtherPhasesKept(c), SignalsKept
  PROVE  Abstract!Next
<1>1. Abstract!Finish(c)
  BY Advancing DEF Abstract!Finish, Advances, HasInstr, OtherPhasesKept, SignalsKept, Register
<1> QED BY <1>1 DEF Abstract!Next

LEMMA Stuttering ==
  ASSUME UNCHANGED <<prog, pos>>, \A d \in Core : PhaseOf(d)' = PhaseOf(d), SignalsKept
  PROVE  UNCHANGED Abstract!vars
BY DEF Abstract!vars, SignalsKept, Register

-----------------------------------------------------------------------------
(* What a step of a unit does to phases and registers *)

FiniteSyncs == \A c \in Core : \A e \in EventRegister : IsFiniteSet(OnTheWay(c, e))

\* The data of a send, posted as it finishes.
SentData(c) == DataMessage("send_data", c, Current(c).core, send_inst_tag[c])

LEMMA FinishSendPosts ==
  ASSUME TypeInv, Ends, NEW c \in Core, FinishSend(c), UNCHANGED prog
  PROVE  /\ HasInstr(c) /\ Current(c).op = "send" /\ Current(c).core \in Core
         /\ send_receiver_core_id[c] = Current(c).core
         /\ Permitted(c, Current(c).core)
         /\ Messages(c)' = Messages(c) \cup {SentData(c)}
         /\ \A d \in Core : d # c => Messages(d)' = Messages(d)
<1>1. HasInstr(c) /\ Current(c).op = "send"
  BY RunningHasInstr DEF FinishSend, At, TypeInv, UnitWaits
<1>2. Current(c).core \in Core /\ send_inst_tag[c] \in Nat
  BY <1>1, CurrentType DEF TypeInv, UnitTypes
<1>3. send_receiver_core_id[c] = Current(c).core /\ Permitted(c, Current(c).core)
  BY DEF FinishSend, At, Ends, EndAt, Permitted
<1>4. SentData(c) \in Posted
  BY <1>2, PostedData DEF SentData, DataKind
<1>5. Post(c, SentData(c)) /\ UNCHANGED switchLocals
  BY DEF FinishSend, SentData
<1> QED BY <1>1, <1>2, <1>3, <1>4, <1>5, UnitPosts

\* Other cores see of core c only the data and the end of its send.
LEMMA UnitPermits ==
  ASSUME TypeInv, Ends, NEW c \in Core, UnitStep(c), UNCHANGED prog, NEW b,
         ~(FinishSend(c) /\ b = Current(c).core)
  PROVE  Permitted(c, b)' <=> Permitted(c, b)
<1>1. CASE SendReads(c)
  BY <1>1, UnitEffects DEF SendReads, At, Pauses, Permitted, sendVars
<1>2. CASE StartSend(c)
  BY <1>2, UnitEffects DEF StartSend, Starts, At, Pauses, Permitted
<1>3. CASE FinishSend(c)
  BY <1>3, UnitEffects, FinishSendPosts DEF Completes, Permitted
<1>4. CASE ~(SendReads(c) \/ StartSend(c) \/ FinishSend(c))
  <2>1. u_pc[c] \notin {"send_ready", "send_read"}
    BY <1>4 DEF UnitStep, StartRecv, RecvWrites, StartSync, StartWait,
         FinishWait, StartMemory, LoadWrites, StoreSends, FinishLocal, Starts, At
  <2>2. u_pc'[c] \notin {"send_ready", "send_read"}
    BY <1>4, UnitEffects DEF UnitStep, Pauses, Completes
  <2> QED BY <2>1, <2>2 DEF Permitted
<1> QED BY <1>1, <1>2, <1>3, <1>4

LEMMA UnitData ==
  ASSUME TypeInv, Ends, NEW c \in Core, UnitStep(c), UNCHANGED prog, NEW a \in Core, NEW b \in Core,
         ~(FinishSend(c) /\ a = c /\ b = Current(c).core)
  PROVE  DataTo(a, b)' = DataTo(a, b)
<1>1. UNCHANGED switchLocals
  BY UnitEffects
<1>2. CASE FinishSend(c)
  <2>1. CASE a = c
    <3>1. Messages(a)' = Messages(a) \cup {SentData(c)} /\ SentData(c).dst # b
      BY <1>2, <2>1, FinishSendPosts DEF SentData, DataMessage
    <3> QED BY <3>1 DEF DataTo
  <2>2. CASE a # c
    BY <1>2, <2>2, FinishSendPosts DEF DataTo
  <2> QED BY <2>1, <2>2
<1>3. CASE UNCHANGED pending_queue
  BY <1>1, <1>3, UnitPostsNothing DEF DataKept
<1>4. ASSUME NEW m \in Posted, Post(c, m), m.kind # "send_data" PROVE DataTo(a, b)' = DataTo(a, b)
  BY <1>1, <1>4, UnitPosts DEF DataKept
<1>5. SyncMessage(c).kind # "send_data"
  BY DEF SyncMessage
<1> QED BY <1>2, <1>3, <1>4, <1>5, UnitMessages

LEMMA ReceiverIsCore ==
  ASSUME TypeInv, Pcs, NEW c \in Core, u_pc[c] = "recv_data"
  PROVE  HasInstr(c) /\ recv_sender_core_id[c] \in Core
<1>1. HasInstr(c) /\ Current(c).op = "recv" /\ Current(c).core = recv_sender_core_id[c]
  BY DEF TypeInv, UnitWaits, Pcs, PcAt
<1> QED BY <1>1, CurrentType DEF TypeInv

LEMMA UnitOthers ==
  ASSUME TypeInv, Ends, Pcs, Phases, Phases', NEW c \in Core, UnitStep(c), UNCHANGED prog,
         NEW d \in Core, d # c, ~(FinishSend(c) /\ d = Current(c).core)
  PROVE  PhaseOf(d)' = PhaseOf(d)
<1>1. UnitKept(d) /\ PhaseAt(d) /\ PhaseAt(d)'
  BY UnitEffects DEF Phases
<1>2. ASSUME u_pc[d] = "recv_data"
      PROVE  /\ DataTo(recv_sender_core_id[d], d)' = DataTo(recv_sender_core_id[d], d)
             /\ Granted(d)' <=> Granted(d)
  <2> PICK a \in Core : a = recv_sender_core_id[d]
    BY <1>2, ReceiverIsCore
  <2>1. recv_sender_core_id'[d] = a
    BY <1>1 DEF UnitKept
  <2>2. DataTo(a, d)' = DataTo(a, d)
    BY UnitData
  <2>3. Permitted(a, d)' <=> Permitted(a, d)
    <3>1. CASE a = c
      BY <3>1, UnitPermits
    <3>2. CASE a # c
      <4>1. UnitKept(a)
        BY <3>2, UnitEffects
      <4> QED BY <4>1 DEF UnitKept, SameUnit, Permitted
    <3> QED BY <3>1, <3>2
  <2> QED BY <2>1, <2>2, <2>3 DEF Granted, DataTo
<1>3. u_pc'[d] = u_pc[d] /\ Current(d)' = Current(d)
  BY <1>1 DEF UnitKept, SameUnit, Current
<1>4. sched'[Unit(d)] = sched[Unit(d)] /\ recv_sender_core_id'[d] = recv_sender_core_id[d]
  BY <1>1 DEF UnitKept, SameUnit
<1> QED BY <1>1, <1>2, <1>3, <1>4, PhaseKept

LEMMA UnitSyncs ==
  ASSUME TypeInv, NEW a \in Core, UnitStep(a), UNCHANGED prog, NEW c, NEW e,
         IsFiniteSet(OnTheWay(c, e))
  PROVE  /\ IsFiniteSet(OnTheWay(c, e)')
         /\ Cardinality(OnTheWay(c, e)') = Cardinality(OnTheWay(c, e))
              + (IF StartSync(a) THEN Counts(SyncMessage(a), c, e) ELSE 0)
<1>0. UNCHANGED in_flight /\ Cardinality(OnTheWay(c, e)) \in Int
  BY UnitEffects, FS_CardinalityType DEF switchLocals
<1>1. CASE UNCHANGED pending_queue /\ ~StartSync(a)
  <2>1. OnTheWay(c, e)' = OnTheWay(c, e)
    BY <1>0, <1>1, OnTheWayKept
  <2> QED BY <1>0, <1>1, <2>1
<1>2. ASSUME NEW m \in Posted, Post(a, m), m.kind # "sync", ~StartSync(a)
      PROVE  /\ IsFiniteSet(OnTheWay(c, e)')
             /\ Cardinality(OnTheWay(c, e)') = Cardinality(OnTheWay(c, e)) + 0
  <2>1. Counts(m, c, e) = 0
    BY <1>2 DEF Counts, SyncTo
  <2> QED BY <1>0, <1>2, <2>1, PostedSyncs
<1>3. CASE StartSync(a) /\ SyncMessage(a) \in Posted /\ Post(a, SyncMessage(a))
  BY <1>0, <1>3, PostedSyncs
<1> QED BY <1>1, <1>2, <1>3, UnitMessages

\* The wait of core c ends.
WaitEnds(c) == Current(c).op = "wait" /\ Completes(c)

LEMMA UnitRegister ==
  ASSUME TypeInv, Pcs, NEW a \in Core, UnitStep(a), UNCHANGED prog,
         NEW c \in Core, NEW e \in EventRegister
  PROVE  event_register'[c][e] = IF a = c /\ WaitEnds(c) /\ Current(c).ev = e
                                 THEN 0 ELSE event_register[c][e]
<1>1. CASE a # c
  BY <1>1, UnitEffects
<1>2. CASE a = c /\ (StartWait(c) \/ FinishWait(c))
  <2>1. /\ Current(c).op = "wait"
        /\ FinishWait(c) => wait_ev_addr[c] = Current(c).ev
    BY <1>2 DEF StartWait, Starts, FinishWait, At, Pcs, PcAt
  <2>2. \/ Completes(c) /\ ResetEvent(c, Current(c).ev)
        \/ ~Completes(c) /\ UNCHANGED event_register
    <3>1. CASE FinishWait(c)
      BY <1>2, <2>1, <3>1, UnitEffects DEF FinishWait
    <3>2. CASE StartWait(c)
      BY <1>2, <3>2, UnitEffects DEF StartWait, Pauses, Completes
    <3> QED BY <1>2, <3>1, <3>2
  <2> QED BY <1>2, <2>1, <2>2 DEF WaitEnds, ResetEvent, TypeInv, UnitTypes
<1>3. CASE a = c /\ ~(StartWait(c) \/ FinishWait(c))
  <2>1. UNCHANGED event_register
    BY <1>3 DEF UnitStep, StartSend, SendReads, FinishSend, StartRecv, RecvWrites,
         StartSync, StartMemory, LoadWrites, StoreSends, FinishLocal, eventVars
  <2>2. ~WaitEnds(c)
    <3>1. FinishSend(c) \/ FinishLocal(c) => Current(c).op # "wait"
      BY DEF FinishSend, FinishLocal, At, Pcs, PcAt, TypeInv, UnitWaits
    <3> QED BY <1>3, <3>1, UnitEffects DEF UnitStep, WaitEnds, Completes, Pauses
  <2> QED BY <2>1, <2>2
<1> QED BY <1>1, <1>2, <1>3

-----------------------------------------------------------------------------
(* Every step of a unit is a step of Rendezvous, or none *)

OneSourced == \A c \in Core : \A e \in EventRegister : OneSource(c, e)

\* Either core c stays at its instruction or it goes on to its next one.
LEMMA UnitPos ==
  ASSUME TypeInv, TypeInv', NEW c \in Core, UnitStep(c), UNCHANGED prog
  PROVE  /\ pos'[c] = pos[c] => UNCHANGED <<prog, pos>>
         /\ Completes(c) => Advances(c)
<1>1. pos \in [Core -> Nat \ {0}] /\ pos' \in [Core -> Nat \ {0}]
  BY DEF TypeInv, UnitTypes
<1>2. \A d \in Core : d # c => pos'[d] = pos[d]
  BY UnitEffects DEF UnitKept, SameUnit
<1>3. pos'[c] = pos[c] => UNCHANGED <<prog, pos>>
  BY <1>1, <1>2
<1>4. Completes(c) => Advances(c)
  BY <1>1, <1>2 DEF Completes, Advances
<1> QED BY <1>3, <1>4

LEMMA UnitSignals ==
  ASSUME TypeInv, Pcs, FiniteSyncs, NEW c \in Core, UnitStep(c), UNCHANGED prog
  PROVE  /\ FiniteSyncs'
         /\ ~StartSync(c) /\ ~WaitEnds(c) => SignalsKept
         /\ StartSync(c) => \A d \in Core : \A e \in EventRegister :
              Register(d, e)' = Register(d, e) + Counts(SyncMessage(c), d, e)
         /\ WaitEnds(c) => \A d \in Core : \A e \in EventRegister :
              Register(d, e)' = IF d = c /\ e = Current(c).ev
                                THEN Register(d, e) - event_register[d][e] ELSE Register(d, e)
<1>1. \A d \in Core : \A e \in EventRegister :
        /\ IsFiniteSet(OnTheWay(d, e)')
        /\ Cardinality(OnTheWay(d, e)') = Cardinality(OnTheWay(d, e))
             + (IF StartSync(c) THEN Counts(SyncMessage(c), d, e) ELSE 0)
  BY UnitSyncs DEF FiniteSyncs
<1>2. \A d \in Core : \A e \in EventRegister :
        event_register'[d][e] = IF c = d /\ WaitEnds(d) /\ Current(d).ev = e
                                THEN 0 ELSE event_register[d][e]
  BY UnitRegister
<1>3. \A d \in Core : \A e \in EventRegister :
        event_register[d][e] \in Int /\ Cardinality(OnTheWay(d, e)) \in Int
  BY FS_CardinalityType DEF TypeInv, UnitTypes, FiniteSyncs
<1>4. ~(StartSync(c) /\ WaitEnds(c))
  BY DEF StartSync, Starts, WaitEnds
<1>5. ASSUME NEW d \in Core, NEW e \in EventRegister, ~StartSync(c), ~WaitEnds(c)
      PROVE  Register(d, e)' = Register(d, e)
  <2>1. event_register'[d][e] = event_register[d][e]
    BY <1>2, <1>5
  <2>2. Cardinality(OnTheWay(d, e)') = Cardinality(OnTheWay(d, e))
    BY <1>1, <1>3, <1>5
  <2> QED BY <2>1, <2>2 DEF Register
<1>6. ASSUME NEW d \in Core, NEW e \in EventRegister, StartSync(c)
      PROVE  Register(d, e)' = Register(d, e) + Counts(SyncMessage(c), d, e)
  <2>1. event_register'[d][e] = event_register[d][e]
    BY <1>2, <1>4, <1>6
  <2>2. Cardinality(OnTheWay(d, e)') = Cardinality(OnTheWay(d, e)) + Counts(SyncMessage(c), d, e)
    BY <1>1, <1>6
  <2>3. Counts(SyncMessage(c), d, e) \in Int
    BY CountsType
  <2> QED BY <1>3, <2>1, <2>2, <2>3 DEF Register
<1>7. ASSUME NEW d \in Core, NEW e \in EventRegister, WaitEnds(c)
      PROVE  Register(d, e)' = IF d = c /\ e = Current(c).ev
                               THEN Register(d, e) - event_register[d][e] ELSE Register(d, e)
  <2>1. event_register'[d][e] = IF d = c /\ e = Current(c).ev THEN 0 ELSE event_register[d][e]
    BY <1>2, <1>7
  <2>2. Cardinality(OnTheWay(d, e)') = Cardinality(OnTheWay(d, e))
    BY <1>1, <1>3, <1>4, <1>7
  <2> QED BY <1>3, <2>1, <2>2 DEF Register
<1>8. FiniteSyncs'
  BY <1>1 DEF FiniteSyncs
<1>9. ~StartSync(c) /\ ~WaitEnds(c) => SignalsKept
  BY <1>5 DEF SignalsKept
<1> QED BY <1>6, <1>7, <1>8, <1>9

\* What the simulation of a step of unit c may use.
Simulating(c) ==
  /\ TypeInv /\ TypeInv' /\ Ends /\ Pcs /\ Phases /\ Phases' /\ FiniteSyncs
  /\ UnitStep(c) /\ UNCHANGED prog

LEMMA UnitFacts ==
  ASSUME NEW c \in Core, Simulating(c)
  PROVE  /\ HasInstr(c) /\ Current(c) \in Instr /\ PhaseAt(c) /\ PhaseAt(c)'
         /\ Current(c).op \in {"send", "recv", "sync"} => Current(c).core \in Core
         /\ pos \in [Core -> Nat \ {0}]
         /\ pos'[c] = pos[c] => UNCHANGED <<prog, pos>>
         /\ Completes(c) => Advances(c)
         /\ ~FinishSend(c) => OtherPhasesKept(c)
         /\ ~StartSync(c) /\ ~WaitEnds(c) => SignalsKept
<1>0. /\ TypeInv /\ TypeInv' /\ Ends /\ Pcs /\ Phases /\ Phases' /\ FiniteSyncs
      /\ UnitStep(c) /\ UNCHANGED prog /\ UnitTypes /\ UnitWaits
  BY DEF Simulating, TypeInv
<1>1. HasInstr(c)
  BY <1>0, RunningHasInstr, UnitEffects
<1>2. /\ Current(c) \in Instr
      /\ Current(c).op \in {"send", "recv", "sync"} => Current(c).core \in Core
  BY <1>0, <1>1, CurrentType
<1>3. ~FinishSend(c) => OtherPhasesKept(c)
  BY <1>0, UnitOthers DEF OtherPhasesKept
<1>4. pos \in [Core -> Nat \ {0}]
  BY <1>0 DEF UnitTypes
<1>5. PhaseAt(c) /\ PhaseAt(c)'
  BY <1>0 DEF Phases
<1> QED BY <1>0, <1>1, <1>2, <1>3, <1>4, <1>5, UnitPos, UnitSignals

\* A step inside an instruction whose core does not change its phase.
LEMMA UnitStutters ==
  ASSUME NEW c \in Core, Simulating(c), NEW where, NEW how, Pauses(c, where, how),
         where # "start", ~FinishSend(c), ~StartSync(c), PhaseOf(c)' = PhaseOf(c)
  PROVE  UNCHANGED Abstract!vars
<1>1. UNCHANGED <<prog, pos>> /\ OtherPhasesKept(c)
  BY UnitFacts DEF Pauses
<1>2. ~WaitEnds(c)
  BY DEF Pauses, WaitEnds, Completes
<1>3. SignalsKept
  BY <1>2, UnitFacts
<1> QED BY <1>1, <1>3, Stuttering DEF OtherPhasesKept

LEMMA StartSendSimulates ==
  ASSUME NEW c \in Core, Simulating(c), StartSend(c) PROVE Abstract!Next
<1>1. Pauses(c, "send_ready", "send_trigger") /\ Current(c).op = "send" /\ u_pc[c] = "start"
  BY UnitEffects DEF Simulating, StartSend, Starts, At
<1>2. ~FinishSend(c) /\ ~StartSync(c) /\ ~WaitEnds(c)
  BY <1>1 DEF FinishSend, StartSync, Starts, At, WaitEnds
<1>3. PhaseOf(c) = "idle" /\ PhaseOf(c)' = "posted"
  BY <1>1, UnitFacts DEF PhaseAt, Pauses
<1> QED BY <1>1, <1>2, <1>3, UnitFacts, Posting DEF Pauses

LEMMA StartRecvSimulates ==
  ASSUME NEW c \in Core, Simulating(c), RendezvousInv, StartRecv(c) PROVE Abstract!Next
<1>1. Pauses(c, "recv_data", "recv_trigger") /\ Current(c).op = "recv" /\ u_pc[c] = "start"
  BY UnitEffects DEF Simulating, StartRecv, Starts, At
<1>2. ~FinishSend(c) /\ ~StartSync(c) /\ ~WaitEnds(c)
  BY <1>1 DEF FinishSend, StartSync, Starts, At, WaitEnds
<1> PICK a \in Core : a = Current(c).core
  BY <1>1, UnitFacts
<1>3. ~Receiving(c, a)
  BY <1>1 DEF Receiving
<1>4. DataTo(a, c)' = {}
  <2>1. DataTo(a, c) = {}
    BY <1>3, DataAwaited
  <2> QED BY <1>2, <2>1, UnitData DEF Simulating
<1>5. ~Permitted(a, c)'
  <2>1. ~Permitted(a, c)
    BY <1>3 DEF RendezvousInv, Meetings, Permissions
  <2>2. CASE a = c
    BY <1>2, <2>1, <2>2, UnitPermits DEF Simulating
  <2>3. CASE a # c
    <3>1. UnitKept(a)
      BY <2>3, UnitEffects DEF Simulating
    <3> QED BY <2>1, <3>1 DEF UnitKept, SameUnit, Permitted
  <2> QED BY <2>2, <2>3
<1>6. recv_sender_core_id'[c] = a
  BY DEF StartRecv, Simulating, TypeInv, UnitTypes
<1>7. ~Arrived(c)' /\ ~Granted(c)'
  <2>1. sched'[Unit(c)] # "runnable"
    BY <1>1 DEF Pauses
  <2> QED BY <1>4, <1>5, <1>6, <2>1 DEF Arrived, Granted, DataTo, Permitted
<1>8. PhaseOf(c) = "idle" /\ PhaseOf(c)' = "posted"
  BY <1>1, <1>7, UnitFacts DEF PhaseAt, Pauses
<1> QED BY <1>1, <1>2, <1>8, UnitFacts, Posting DEF Pauses

LEMMA FinishSendSimulates ==
  ASSUME NEW c \in Core, Simulating(c), RendezvousInv, FinishSend(c) PROVE Abstract!Next
<1>1. Completes(c) /\ u_pc[c] = "send_read"
  BY UnitEffects DEF Simulating, FinishSend, At
<1>2. /\ HasInstr(c) /\ Current(c).op = "send" /\ Current(c).core \in Core
      /\ Permitted(c, Current(c).core)
      /\ Messages(c)' = Messages(c) \cup {SentData(c)}
  BY FinishSendPosts DEF Simulating
<1> PICK b \in Core : b = Current(c).core
  BY <1>2
<1>3. Receiving(b, c)
  BY <1>2 DEF RendezvousInv, Meetings, Permissions
<1>4. b # c
  BY <1>1, <1>3 DEF Receiving
<1>5. UnitKept(b)
  BY <1>4, UnitEffects DEF Simulating
<1>6. u_pc'[b] = "recv_data" /\ recv_sender_core_id'[b] = c
  BY <1>3, <1>5 DEF UnitKept, SameUnit, Receiving
<1>7. SentData(c) \in DataTo(c, b)'
  BY <1>2 DEF DataTo, SentData, DataMessage
<1>8. PhaseOf(b)' = "done"
  <2>1. Arrived(b)'
    BY <1>6, <1>7 DEF Arrived, DataTo
  <2> QED BY <1>6, <2>1 DEF Simulating, Phases, PhaseAt
<1>9. PhaseOf(c) = "agreed" /\ PhaseOf(c)' = "idle"
  BY <1>1, UnitFacts DEF PhaseAt, Completes
<1>10. \A d \in Core : d \notin {c, b} => PhaseOf(d)' = PhaseOf(d)
  BY UnitOthers DEF Simulating
<1>11. ~StartSync(c) /\ ~WaitEnds(c)
  BY <1>2 DEF StartSync, Starts, WaitEnds
<1> QED BY <1>1, <1>2, <1>4, <1>8, <1>9, <1>10, <1>11, UnitFacts, HandingOver

LEMMA StartSyncSimulates ==
  ASSUME NEW c \in Core, Simulating(c), StartSync(c) PROVE Abstract!Next
<1>1. Pauses(c, "local", "delayed") /\ Current(c).op = "sync" /\ u_pc[c] = "start"
  BY UnitEffects DEF Simulating, StartSync, Starts, At
<1>2. ~FinishSend(c)
  BY <1>1 DEF FinishSend, At
<1>3. PhaseOf(c) = "idle" /\ PhaseOf(c)' = "done"
  BY <1>1, UnitFacts DEF PhaseAt, Pauses
<1>4. Current(c).core \in Core /\ Current(c).ev \in EventRegister
  BY <1>1, UnitFacts DEF Instr
<1>5. ASSUME NEW d \in Core, NEW e \in EventRegister
      PROVE  Register(d, e)' = IF d = Current(c).core /\ e = Current(c).ev
                               THEN Register(d, e) + 1 ELSE Register(d, e)
  <2>1. Register(d, e)' = Register(d, e) + Counts(SyncMessage(c), d, e)
    BY UnitSignals DEF Simulating
  <2>2. Counts(SyncMessage(c), d, e) = IF d = Current(c).core /\ e = Current(c).ev THEN 1 ELSE 0
    BY DEF Counts, SyncTo, SyncMessage
  <2>3. Register(d, e) \in Int
    <3>1. Cardinality(OnTheWay(d, e)) \in Int /\ event_register[d][e] \in Int
      BY FS_CardinalityType DEF Simulating, FiniteSyncs, TypeInv, UnitTypes
    <3> QED BY <3>1 DEF Register
  <2> QED BY <2>1, <2>2, <2>3
<1>6. UNCHANGED <<prog, pos>> /\ OtherPhasesKept(c) /\ HasInstr(c)
  BY <1>1, <1>2, UnitFacts DEF Pauses
<1> QED BY <1>1, <1>3, <1>4, <1>5, <1>6, Signalling

LEMMA WaitSimulates ==
  ASSUME NEW c \in Core, Simulating(c), WaitInv, OneSourced, StartWait(c) \/ FinishWait(c)
  PROVE  Abstract!Next \/ UNCHANGED Abstract!vars
<1>1. Current(c).op = "wait" /\ u_pc[c] \in {"start", "wait_event"}
  BY DEF StartWait, Starts, FinishWait, At, Simulating, Pcs, PcAt
<1>2. ~FinishSend(c) /\ ~StartSync(c) /\ PhaseOf(c) = "idle"
  BY <1>1, UnitFacts DEF FinishSend, StartSync, Starts, At, PhaseAt
<1>3. CASE Pauses(c, "wait_event", "sync_wait_trigger")
  <2>1. PhaseOf(c)' = "idle"
    BY <1>3, UnitFacts DEF PhaseAt, Pauses
  <2> QED BY <1>2, <1>3, <2>1, UnitStutters
<1>4. CASE Completes(c) /\ ~Pauses(c, "wait_event", "sync_wait_trigger")
  <2> PICK e \in EventRegister : e = Current(c).ev
    BY UnitFacts DEF Instr
  <2>1. event_register[c][e] = Current(c).val
    <3>1. CASE FinishWait(c)
      BY <3>1 DEF FinishWait, At, WaitInv, Waits, WaitAt, Simulating, Pcs, PcAt, OneSourced
    <3>2. CASE StartWait(c)
      BY <1>4, <3>2, UnitEffects DEF Simulating
    <3> QED BY <3>1, <3>2
  <2>2. PhaseOf(c)' = "idle"
    BY <1>4, UnitFacts DEF PhaseAt, Completes
  <2>3. \A d \in Core : PhaseOf(d)' = PhaseOf(d)
    BY <1>2, <2>2, UnitFacts DEF OtherPhasesKept
  <2>4. WaitEnds(c)
    BY <1>1, <1>4 DEF WaitEnds
  <2>5. \A d \in Core : \A f \in EventRegister :
          Register(d, f)' = IF d = c /\ f = Current(c).ev
                            THEN Register(d, f) - Current(c).val ELSE Register(d, f)
    BY <2>1, <2>4, UnitSignals DEF Simulating
  <2>6. Register(c, Current(c).ev) >= Current(c).val
    <3>1. Cardinality(OnTheWay(c, e)) \in Nat /\ event_register[c][e] \in Nat
      BY FS_CardinalityType DEF Simulating, FiniteSyncs, TypeInv, UnitTypes
    <3> QED BY <2>1, <3>1 DEF Register
  <2> QED BY <1>1, <1>2, <1>4, <2>3, <2>5, <2>6, UnitFacts, Awaiting
<1> QED BY <1>3, <1>4, UnitEffects DEF Simulating

LEMMA RestSimulates ==
  ASSUME NEW c \in Core, Simulating(c),
         SendReads(c) \/ RecvWrites(c) \/ StartMemory(c) \/ LoadWrites(c) \/ StoreSends(c)
  PROVE  UNCHANGED Abstract!vars
<1>0. TypeInv /\ UnitStep(c) /\ UNCHANGED prog /\ PhaseAt(c) /\ PhaseAt(c)' /\ PcAt(c)
  BY UnitFacts DEF Simulating, Pcs
<1>1. sched[Unit(c)] = "runnable"
  BY <1>0, UnitEffects
<1>2. CASE SendReads(c)
  <2>1. Pauses(c, "send_read", "delayed") /\ u_pc[c] = "send_ready"
    BY <1>0, <1>2, UnitEffects DEF SendReads, At
  <2>2. PhaseOf(c)' = PhaseOf(c)
    BY <1>0, <1>1, <2>1 DEF PhaseAt, Pauses
  <2> QED BY <2>1, <2>2, UnitStutters DEF FinishSend, StartSync, Starts, At
<1>3. CASE RecvWrites(c)
  <2>1. Pauses(c, "local", "delayed") /\ u_pc[c] = "recv_data"
    BY <1>0, <1>3, UnitEffects DEF RecvWrites, At
  <2>2. Current(c).op = "recv" /\ Current(c)' = Current(c) /\ Arrived(c)
    BY <1>0, <1>1, <2>1 DEF PcAt, Pauses, Arrived
  <2>3. PhaseOf(c)' = PhaseOf(c)
    BY <1>0, <2>1, <2>2 DEF PhaseAt, Pauses
  <2> QED BY <2>1, <2>3, UnitStutters DEF FinishSend, StartSync, Starts, At
<1>4. CASE StartMemory(c)
  <2>1. u_pc[c] = "start" /\ Current(c).op \in {"ld", "st", "lldi", "lmv"}
    BY <1>4 DEF StartMemory, Starts, At
  <2>2. PhaseOf(c) = "idle" /\ ~FinishSend(c) /\ ~StartSync(c)
    BY <1>0, <2>1 DEF PhaseAt, FinishSend, StartSync, Starts, At
  <2>3. PICK where \in {"load", "store_read", "local"} : \E how : Pauses(c, where, how)
    BY <1>0, <1>4, UnitEffects
  <2>4. PhaseOf(c)' = "idle"
    BY <1>0, <2>1, <2>3 DEF PhaseAt, Pauses
  <2> QED BY <2>2, <2>3, <2>4, UnitStutters
<1>5. CASE LoadWrites(c)
  <2>1. Pauses(c, "local", "delayed") /\ u_pc[c] = "load"
    BY <1>0, <1>5, UnitEffects DEF LoadWrites, At
  <2>2. Current(c).op = "ld" /\ Current(c)' = Current(c)
    BY <1>0, <2>1 DEF PcAt, Pauses
  <2>3. PhaseOf(c)' = PhaseOf(c)
    BY <1>0, <2>1, <2>2 DEF PhaseAt, Pauses
  <2> QED BY <2>1, <2>3, UnitStutters DEF FinishSend, StartSync, Starts, At
<1>6. CASE StoreSends(c)
  <2>1. Pauses(c, "store", "switch_finish_trigger") /\ u_pc[c] = "store_read"
    BY <1>0, <1>6, UnitEffects DEF StoreSends, At
  <2>2. PhaseOf(c)' = PhaseOf(c)
    BY <1>0, <2>1 DEF PhaseAt, Pauses
  <2> QED BY <2>1, <2>2, UnitStutters DEF FinishSend, StartSync, Starts, At
<1> QED BY <1>2, <1>3, <1>4, <1>5, <1>6

LEMMA FinishLocalSimulates ==
  ASSUME NEW c \in Core, Simulating(c), FinishLocal(c) PROVE Abstract!Next
<1>1. Completes(c) /\ PcAt(c) /\ u_pc[c] \in {"local", "store"}
  BY UnitEffects DEF Simulating, FinishLocal, At, Pcs
<1>2. ~FinishSend(c) /\ ~StartSync(c) /\ ~WaitEnds(c)
  BY <1>1 DEF FinishSend, StartSync, Starts, At, WaitEnds, PcAt
<1>3. PhaseOf(c)' = "idle"
  BY <1>1, UnitFacts DEF PhaseAt, Completes
<1>4. CASE Current(c).op \in {"recv", "sync"}
  <2>1. PhaseOf(c) = "done"
    BY <1>1, <1>4, UnitFacts DEF PhaseAt, PcAt
  <2> QED BY <1>1, <1>2, <1>3, <2>1, UnitFacts, Finishing
<1>5. CASE Current(c).op \notin {"recv", "sync"}
  <2>1. PhaseOf(c) = "idle" /\ Current(c).op \in {"ld", "st", "lldi", "lmv"}
    BY <1>1, <1>5, UnitFacts DEF PhaseAt, PcAt
  <2>2. \A d \in Core : PhaseOf(d)' = PhaseOf(d)
    BY <1>2, <1>3, <2>1, UnitFacts DEF OtherPhasesKept
  <2> QED BY <1>1, <1>2, <2>1, <2>2, UnitFacts, Accessing
<1> QED BY <1>4, <1>5

LEMMA UnitSimulates ==
  ASSUME NEW c \in Core, Simulating(c), RendezvousInv, WaitInv, OneSourced
  PROVE  Abstract!Next \/ UNCHANGED Abstract!vars
<1>1. UnitStep(c)
  BY DEF Simulating
<1> QED BY <1>1, StartSendSimulates, StartRecvSimulates, FinishSendSimulates, StartSyncSimulates,
           WaitSimulates, RestSimulates, FinishLocalSimulates DEF UnitStep

-----------------------------------------------------------------------------
(* What a receive handler does to phases and registers *)

LEMMA HandlerSignals ==
  ASSUME TypeInv, FiniteSyncs, NEW d \in Core, Handler(d), ~thrown'
  PROVE  FiniteSyncs' /\ SignalsKept
<1>1. \A c \in Core : \A e \in EventRegister :
        /\ IsFiniteSet(OnTheWay(c, e)')
        /\ Cardinality(OnTheWay(c, e)') =
             Cardinality(OnTheWay(c, e)) - Counts(in_flight[d], c, e)
        /\ event_register'[c][e] = event_register[c][e] + Counts(in_flight[d], c, e)
  BY HandledRegister DEF FiniteSyncs
<1>2. ASSUME NEW c \in Core, NEW e \in EventRegister PROVE Register(c, e)' = Register(c, e)
  <2>1. Cardinality(OnTheWay(c, e)) \in Int /\ event_register[c][e] \in Int
    BY FS_CardinalityType DEF FiniteSyncs, TypeInv, UnitTypes
  <2> PICK n \in Int : n = Counts(in_flight[d], c, e)
    BY CountsType
  <2>2. /\ Cardinality(OnTheWay(c, e)') = Cardinality(OnTheWay(c, e)) - n
        /\ event_register'[c][e] = event_register[c][e] + n
    BY <1>1
  <2> QED BY <2>1, <2>2 DEF Register
<1> QED BY <1>1, <1>2 DEF FiniteSyncs, SignalsKept

\* What the simulation of a receive handler may use.
Handling(c) ==
  /\ RendezvousInv /\ TypeInv' /\ Pcs /\ Phases /\ Phases' /\ FiniteSyncs
  /\ Handler(c) /\ UNCHANGED prog /\ ~thrown'

LEMMA HandlingPos ==
  ASSUME NEW c \in Core, Handling(c)
  PROVE  /\ UNCHANGED <<prog, pos, u_pc, send_receiver_core_id, recv_sender_core_id>>
         /\ \A d \in Core : Current(d)' = Current(d)
BY HandlerEffects DEF Handling, RendezvousInv, Current

LEMMA HandlingData ==
  ASSUME NEW c \in Core, Handling(c), NEW a \in Core, NEW b \in Core,
         ~(DeliverData(c) /\ a = c /\ b = in_flight[c].dst)
  PROVE  DataTo(a, b)' = DataTo(a, b)
<1>0. TypeInv /\ RendezvousInv /\ Handler(c) /\ ~thrown'
  BY DEF Handling, RendezvousInv
<1>1. /\ in_flight' = [in_flight EXCEPT ![c] = NoMessage]
      /\ \/ UNCHANGED pending_queue
         \/ \E p \in Core : \E n \in Posted : n.kind # "send_data" /\ Post(p, n)
  BY <1>0, HandlerEffects
<1>2. ~(a = c /\ in_flight[c].kind = "send_data" /\ in_flight[c].dst = b)
  BY <1>0, HandledKind
<1> QED BY <1>0, <1>1, <1>2, HandlerTakes

LEMMA HandlingSched ==
  ASSUME NEW c \in Core, Handling(c), NEW d \in Core, u_pc[d] \in {"send_ready", "recv_data"},
         ~((DeliverData(c) \/ DeliverPermit(c)) /\ d = in_flight[c].dst)
  PROVE  sched'[Unit(d)] = sched[Unit(d)]
<1>1. sched'[Unit(d)] = sched[Unit(d)] \/ WokenBy(c, d)
  BY HandlerEffects DEF Handling, RendezvousInv
<1>2. EndAt(d)
  BY DEF Handling, RendezvousInv, Ends
<1> QED BY <1>1, <1>2 DEF WokenBy, EndAt

\* A core whose unit, sender and data are untouched keeps its phase.
LEMMA HandlingKeeps ==
  ASSUME NEW c \in Core, Handling(c), NEW d \in Core,
         ~(DeliverData(c) /\ d = in_flight[c].dst),
         ~(DeliverPermit(c) /\ d \in {c, in_flight[c].dst})
  PROVE  PhaseOf(d)' = PhaseOf(d)
<1>0. /\ TypeInv /\ Ends /\ Pcs /\ RendezvousInv /\ PhaseAt(d) /\ PhaseAt(d)' /\ ~thrown'
      /\ UNCHANGED <<prog, pos, u_pc, send_receiver_core_id, recv_sender_core_id>>
      /\ Current(d)' = Current(d)
  BY HandlingPos DEF Handling, RendezvousInv, Phases
<1>1. CASE u_pc[d] \notin {"send_ready", "recv_data"}
  BY <1>0, <1>1, PhaseKept
<1>2. CASE u_pc[d] \in {"send_ready", "recv_data"}
  <2>1. sched'[Unit(d)] = sched[Unit(d)]
    BY <1>2, HandlingSched
  <2>2. ASSUME u_pc[d] = "recv_data"
        PROVE  /\ DataTo(recv_sender_core_id[d], d)' = DataTo(recv_sender_core_id[d], d)
               /\ Granted(d)' <=> Granted(d)
    <3> PICK a \in Core : a = recv_sender_core_id[d]
      BY <1>0, <2>2, ReceiverIsCore
    <3>1. recv_sender_core_id'[d] = a
      BY <1>0
    <3>2. DataTo(a, d)' = DataTo(a, d)
      BY HandlingData
    <3>3. Permitted(a, d)' <=> Permitted(a, d)
      <4>1. CASE u_pc[a] # "send_ready"
        BY <1>0, <4>1 DEF Permitted
      <4>2. CASE u_pc[a] = "send_ready" /\ ~(DeliverPermit(c) /\ a = in_flight[c].dst)
        <5>1. ~(DeliverData(c) /\ a = in_flight[c].dst)
          <6> SUFFICES ASSUME DeliverData(c), a = in_flight[c].dst PROVE FALSE
            OBVIOUS
          <6>1. Arriving(c, "send_data") /\ "send_data" \in DataKind
            BY DEF DeliverData, DataKind
          <6>2. 0 \in Slots(c) /\ Sends(c, 0, "send_data", a)
            BY <1>0, <6>1, Arrives
          <6>3. Receiving(a, c)
            BY <1>0, <6>2 DEF RendezvousInv, Meetings, Deliveries
          <6> QED BY <4>2, <6>3 DEF Receiving
        <5>2. sched'[Unit(a)] = sched[Unit(a)]
          BY <4>2, <5>1, HandlingSched
        <5> QED BY <1>0, <5>2 DEF Permitted
      <4>3. CASE DeliverPermit(c) /\ a = in_flight[c].dst
        <5>1. Arriving(c, "receiver_ready") /\ "receiver_ready" \in DataKind
          BY <4>3 DEF DeliverPermit, DataKind
        <5>2. 0 \in Slots(c) /\ Sends(c, 0, "receiver_ready", a)
          BY <1>0, <4>3, <5>1, Arrives
        <5>3. send_receiver_core_id[a] = c
          BY <1>0, <5>2 DEF RendezvousInv, Meetings, Permits, Offering
        <5> QED BY <1>0, <4>3, <5>3 DEF Permitted
      <4> QED BY <4>1, <4>2, <4>3
    <3> QED BY <3>1, <3>2, <3>3 DEF Granted, DataTo, Permitted
  <2> QED BY <1>0, <2>1, <2>2, PhaseKept
<1> QED BY <1>1, <1>2

LEMMA DeliverDataSimulates ==
  ASSUME NEW c \in Core, Handling(c), DeliverData(c) PROVE UNCHANGED Abstract!vars
<1>0. TypeInv /\ Ends /\ Phases /\ Phases' /\ RendezvousInv /\ SignalsKept
  BY HandlerSignals DEF Handling, RendezvousInv
<1>1. Arriving(c, "send_data") /\ "send_data" \in DataKind
  BY DEF DeliverData, DataKind
<1>2. /\ in_flight[c].dst \in Core /\ 0 \in Slots(c) /\ Slot(c, 0) = in_flight[c]
      /\ Sends(c, 0, "send_data", in_flight[c].dst)
  BY <1>0, <1>1, Arrives
<1> PICK b \in Core : b = in_flight[c].dst
  BY <1>2
<1>3. Receiving(b, c)
  BY <1>0, <1>2 DEF RendezvousInv, Meetings, Deliveries
<1>4. sched'[Unit(b)] = "runnable"
  <2> DEFINE s == Notify(sched, Unit(b), "recv_trigger")
  <2>1. /\ s \in [Thread -> SchedState] /\ s[Unit(b)] = "runnable"
        /\ \A e \in Core : s[Sw(e)] = sched[Sw(e)]
    BY <1>0, <1>3, WokenUnit DEF Receiving, Event
  <2>2. Delivered(c, s, "top")
    BY DEF DeliverData
  <2> HIDE DEF s
  <2> QED BY <1>0, <2>1, <2>2, Delivers
<1>5. in_flight[c] \in DataTo(c, b)
  BY <1>1 DEF DataTo, Messages, Arriving
<1>6. PhaseOf(b) = "done"
  BY <1>0, <1>3, <1>5 DEF Phases, PhaseAt, Arrived, Receiving
<1>7. u_pc'[b] = "recv_data"
  BY <1>3, HandlingPos DEF Receiving
<1>8. PhaseOf(b)' = "done"
  BY <1>0, <1>4, <1>7 DEF Phases, PhaseAt, Arrived
<1>9. ~DeliverPermit(c)
  BY DEF DeliverData, DeliverPermit, Arriving
<1>10. \A d \in Core : PhaseOf(d)' = PhaseOf(d)
  BY <1>6, <1>8, <1>9, HandlingKeeps
<1> QED BY <1>0, <1>10, HandlingPos, Stuttering

LEMMA DeliverPermitSimulates ==
  ASSUME NEW c \in Core, Handling(c), DeliverPermit(c) PROVE Abstract!Next
<1>0. /\ TypeInv /\ Ends /\ Pcs /\ Phases /\ Phases' /\ RendezvousInv /\ ~thrown' /\ SignalsKept
      /\ UNCHANGED <<prog, pos, u_pc, send_receiver_core_id, recv_sender_core_id>>
  BY HandlerSignals, HandlingPos DEF Handling, RendezvousInv
<1>1. Arriving(c, "receiver_ready") /\ "receiver_ready" \in DataKind
  BY DEF DeliverPermit, DataKind
<1>2. /\ in_flight[c].dst \in Core /\ 0 \in Slots(c) /\ Slot(c, 0) = in_flight[c]
      /\ Sends(c, 0, "receiver_ready", in_flight[c].dst)
  BY <1>0, <1>1, Arrives
<1> PICK a \in Core : a = in_flight[c].dst
  BY <1>2
<1>3. /\ Offering(a, c) /\ Receiving(c, a)
      /\ \A j \in Slots(a) : ~Sends(a, j, "send_data", c)
  BY <1>0, <1>2 DEF RendezvousInv, Meetings, Permits
<1>4. sched'[Unit(a)] = "runnable"
  <2> DEFINE s == Notify(sched, Unit(a), "send_trigger")
  <2>1. /\ s \in [Thread -> SchedState] /\ s[Unit(a)] = "runnable"
        /\ \A e \in Core : s[Sw(e)] = sched[Sw(e)]
    BY <1>0, <1>3, WokenUnit DEF Offering, Event
  <2>2. Delivered(c, s, "top")
    BY <1>0 DEF DeliverPermit
  <2> HIDE DEF s
  <2> QED BY <1>0, <2>1, <2>2, Delivers
<1>5. a # c
  BY <1>3 DEF Offering, Receiving
<1>6. PhaseOf(a) = "posted" /\ PhaseOf(a)' = "agreed"
  BY <1>0, <1>3, <1>4 DEF Phases, PhaseAt, Offering
<1>7. DataTo(a, c) = {}
  <2>1. ASSUME NEW m \in DataTo(a, c) PROVE FALSE
    <3>1. PICK i \in Slots(a) : Slot(a, i) = m
      BY <1>0, MessageIsSlot DEF DataTo
    <3> QED BY <1>3, <3>1 DEF DataTo, Sends, Is
  <2> QED BY <2>1
<1>8. ~DeliverData(c)
  BY DEF DeliverData, DeliverPermit, Arriving
<1>9. sched'[Unit(c)] = "recv_trigger"
  BY <1>3, <1>5, <1>8, HandlingSched DEF Receiving
<1>10. PhaseOf(c) = "posted"
  <2>1. ~Arrived(c) /\ ~Granted(c)
    BY <1>3, <1>7 DEF Arrived, Granted, Receiving, Offering, Permitted
  <2> QED BY <1>0, <1>3, <2>1 DEF Phases, PhaseAt, Receiving
<1>11. PhaseOf(c)' = "agreed"
  <2>1. DataTo(a, c)' = {}
    BY <1>7, <1>8, HandlingData
  <2>2. recv_sender_core_id'[c] = a /\ u_pc'[c] = "recv_data"
    BY <1>0, <1>3 DEF Receiving
  <2>3. Permitted(a, c)'
    BY <1>0, <1>3, <1>4 DEF Permitted, Offering
  <2>4. ~Arrived(c)' /\ Granted(c)'
    BY <1>9, <2>1, <2>2, <2>3 DEF Arrived, Granted, DataTo, Permitted
  <2> QED BY <1>0, <2>2, <2>4 DEF Phases, PhaseAt
<1>12. \A d \in Core : d \notin {a, c} => PhaseOf(d)' = PhaseOf(d)
  BY <1>8, HandlingKeeps
<1>13. HasInstr(a) /\ Current(a).op = "send" /\ Current(a).core = c
  BY <1>0, <1>3 DEF TypeInv, UnitWaits, Ends, EndAt, Offering
<1>14. HasInstr(c) /\ Current(c).op = "recv" /\ Current(c).core = a
  BY <1>0, <1>3 DEF TypeInv, UnitWaits, Pcs, PcAt, Receiving
<1> QED BY <1>0, <1>5, <1>6, <1>10, <1>11, <1>12, <1>13, <1>14, Agreeing

LEMMA HandlerSimulates ==
  ASSUME NEW c \in Core, Handling(c) PROVE Abstract!Next \/ UNCHANGED Abstract!vars
<1>1. CASE ~DeliverData(c) /\ ~DeliverPermit(c)
  <2>1. \A d \in Core : PhaseOf(d)' = PhaseOf(d)
    BY <1>1, HandlingKeeps
  <2>2. SignalsKept
    BY HandlerSignals DEF Handling, RendezvousInv
  <2> QED BY <2>1, <2>2, HandlingPos, Stuttering
<1> QED BY <1>1, DeliverDataSimulates, DeliverPermitSimulates

-----------------------------------------------------------------------------
(* The switches and time *)

\* Steps in which no unit but a sleeping one wakes, and no data moves.
LEMMA AsideSimulates ==
  ASSUME TypeInv, Ends, Pcs, Phases, Phases', FiniteSyncs, UNCHANGED <<prog, unitVars>>, DataKept,
         \A c \in Core : \A e \in EventRegister : OnTheWay(c, e)' = OnTheWay(c, e),
         \A d \in Core : sched'[Unit(d)] = sched[Unit(d)]
                           \/ sched[Unit(d)] \in {"switch_finish_trigger", "delayed"}
  PROVE  FiniteSyncs' /\ UNCHANGED Abstract!vars
<1>0. /\ UNCHANGED <<prog, pos, u_pc, send_receiver_core_id, recv_sender_core_id, event_register>>
      /\ \A d \in Core : Current(d)' = Current(d)
  BY DEF unitVars, processVars, sendVars, recvVars, eventVars, Current
<1>1. \A d \in Core : u_pc[d] \in {"send_ready", "recv_data"} => sched'[Unit(d)] = sched[Unit(d)]
  BY DEF Ends, EndAt
<1>2. ASSUME NEW d \in Core PROVE PhaseOf(d)' = PhaseOf(d)
  <2>1. ASSUME u_pc[d] = "recv_data"
        PROVE  /\ DataTo(recv_sender_core_id[d], d)' = DataTo(recv_sender_core_id[d], d)
               /\ Granted(d)' <=> Granted(d)
    <3> PICK a \in Core : a = recv_sender_core_id[d]
      BY <2>1, ReceiverIsCore
    <3>1. recv_sender_core_id'[d] = a
      BY <1>0
    <3>2. DataTo(a, d)' = DataTo(a, d)
      BY DEF DataKept
    <3>3. Permitted(a, d)' <=> Permitted(a, d)
      BY <1>0, <1>1 DEF Permitted
    <3> QED BY <3>1, <3>2, <3>3 DEF Granted, DataTo, Permitted
  <2> QED BY <1>0, <1>1, <2>1, PhaseKept DEF Phases
<1>3. SignalsKept
  BY <1>0 DEF SignalsKept, Register
<1>4. FiniteSyncs'
  BY DEF FiniteSyncs
<1> QED BY <1>0, <1>2, <1>3, <1>4, Stuttering

LEMMA LoopSimulates ==
  ASSUME TypeInv, SwitchPlaces, Ends, Pcs, Phases, Phases', FiniteSyncs, NEW c \in Core,
         SwitchContinue(c) \/ SwitchWakes(c) \/ SwitchResponds(c), UNCHANGED <<prog, unitVars>>
  PROVE  FiniteSyncs' /\ UNCHANGED Abstract!vars
<1>1. DataKept
  BY LoopEffects, LoopTakes
<1>2. \A d \in Core : sched'[Unit(d)] = sched[Unit(d)]
                        \/ sched[Unit(d)] \in {"switch_finish_trigger", "delayed"}
  BY LoopEffects
<1> QED BY <1>1, <1>2, LoopedSyncs, AsideSimulates

LEMMA ElapseSimulates ==
  ASSUME TypeInv, Ends, Pcs, Phases, Phases', FiniteSyncs, Elapse, UNCHANGED prog
  PROVE  FiniteSyncs' /\ UNCHANGED Abstract!vars
<1>1. UNCHANGED <<pending_queue, switchLocals, unitVars>>
  BY DEF Elapse, Release
<1>2. \A d \in Core : sched'[Unit(d)] = sched[Unit(d)]
                        \/ sched[Unit(d)] \in {"switch_finish_trigger", "delayed"}
  BY Threads DEF Elapse, Release, Delayed
<1>3. \A c \in Core : \A e \in EventRegister : OnTheWay(c, e)' = OnTheWay(c, e)
  BY <1>1, OnTheWayKept DEF switchLocals
<1> QED BY <1>1, <1>2, <1>3, UnitPostsNothing, AsideSimulates

-----------------------------------------------------------------------------
(* The transfer units implement Rendezvous *)

\* The invariants the refinement rests on.
MeetingInv == RendezvousInv /\ ~thrown /\ StallInv /\ WaitInv /\ Pcs /\ OneSourced

LEMMA MeetingStep ==
  MeetingInv /\ FiniteSyncs /\ Phases /\ Phases' /\ [Next]_vars =>
    /\ FiniteSyncs'
    /\ [Abstract!Next]_(Abstract!vars)
<1> SUFFICES ASSUME MeetingInv, FiniteSyncs, Phases, Phases', [Next]_vars
             PROVE  FiniteSyncs' /\ (Abstract!Next \/ UNCHANGED Abstract!vars)
  OBVIOUS
<1>0. /\ RendezvousInv /\ TypeInv /\ Ends /\ WaitInv /\ Pcs /\ FiniteSyncs /\ OneSourced
      /\ SwitchPlaces /\ TypeInv' /\ ~thrown'
  BY RendezvousStep DEF MeetingInv, RendezvousInv, StallInv
<1>1. CASE UNCHANGED vars
  <2>1. UNCHANGED <<prog, unitVars, sched, pending_queue, switchLocals, in_flight>>
    BY <1>1 DEF vars, switchVars, switchLocals
  <2>2. \A c \in Core : \A e \in EventRegister : OnTheWay(c, e)' = OnTheWay(c, e)
    BY <2>1, OnTheWayKept
  <2> QED BY <1>0, <2>1, <2>2, UnitPostsNothing, AsideSimulates
<1>2. ASSUME NEW c \in Core, UnitStep(c), UNCHANGED prog
      PROVE  FiniteSyncs' /\ (Abstract!Next \/ UNCHANGED Abstract!vars)
  <2>1. Simulating(c)
    BY <1>0, <1>2 DEF Simulating
  <2>2. FiniteSyncs'
    BY <1>0, <1>2, UnitSignals
  <2> QED BY <1>0, <2>1, <2>2, UnitSimulates
<1>3. ASSUME NEW c \in Core, SwitchStep(c), UNCHANGED prog
      PROVE  FiniteSyncs' /\ (Abstract!Next \/ UNCHANGED Abstract!vars)
  <2>1. CASE Handler(c)
    <3>1. Handling(c)
      BY <1>0, <1>3, <2>1 DEF Handling
    <3>2. FiniteSyncs'
      BY <1>0, <2>1, HandlerSignals
    <3> QED BY <3>1, <3>2, HandlerSimulates
  <2>2. CASE /\ SwitchContinue(c) \/ SwitchWakes(c) \/ SwitchResponds(c)
             /\ UNCHANGED <<unitVars, thrown>>
    BY <1>0, <1>3, <2>2, LoopSimulates
  <2> QED BY <1>3, <2>1, <2>2 DEF SwitchStep, Handler
<1>4. ASSUME Elapse, UNCHANGED prog
      PROVE  FiniteSyncs' /\ (Abstract!Next \/ UNCHANGED Abstract!vars)
  BY <1>0, <1>4, ElapseSimulates
<1>5. CASE Next
  BY <1>2, <1>3, <1>4, <1>5 DEF Next
<1> QED BY <1>1, <1>5

LEMMA MeetingInit ==
  Init => FiniteSyncs /\ Abstract!Init
<1> SUFFICES ASSUME Init PROVE FiniteSyncs /\ Abstract!Init
  OBVIOUS
<1>1. /\ \A a \in Core : /\ u_pc[a] = "start" /\ in_flight[a] = NoMessage
                         /\ pending_queue[a] = <<>>
      /\ \A a \in Core : \A e \in EventRegister : event_register[a][e] = 0
      /\ pos = [c \in Core |-> 1]
  BY DEF Init, SwitchInit
<1>2. \A c, e : OnTheWay(c, e) = {}
  <2>1. \A a \in Core : Outgoing(a) = <<>>
    BY <1>1 DEF Outgoing
  <2>2. DOMAIN <<>> = {}
    BY EmptySeq
  <2> QED BY <2>1, <2>2 DEF OnTheWay
<1>3. \A c, e : IsFiniteSet(OnTheWay(c, e)) /\ Cardinality(OnTheWay(c, e)) = 0
  BY <1>2, FS_EmptySet
<1>4. \A c \in Core : PhaseOf(c) = "idle"
  BY <1>1 DEF PhaseOf, At
<1>5. \A c \in Core : \A e \in EventRegister :
        event_register[c][e] + Cardinality(OnTheWay(c, e)) = 0
  BY <1>1, <1>3
<1>6. Abstract!Init
  BY <1>1, <1>4, <1>5 DEF Abstract!Init
<1> QED BY <1>3, <1>6 DEF FiniteSyncs

\* The transfer units implement Rendezvous, whatever the programs and the latencies, as
\* long as one core signals each register: a send and its recv meet and hand the data
\* over once, and a wait takes its signals in one step (TransferUnit.cpp:104-355).
THEOREM UnitsRendezvous ==
  Spec /\ (\A c \in Core : \A e \in EventRegister : OneSource(c, e)) => ImplementsRendezvous
<1>1. Init /\ OneSourced => MeetingInv
  BY RendezvousInit, StallInit, WaitInit DEF Init, Pcs, PcAt, MeetingInv
<1>2. MeetingInv => Phases
  BY PhasesHold DEF MeetingInv
<1>3. MeetingInv /\ [Next]_vars => MeetingInv'
  <2> SUFFICES ASSUME MeetingInv, [Next]_vars PROVE MeetingInv'
    OBVIOUS
  <2>1. OneSourced'
    <3>1. UNCHANGED prog
      BY DEF Next, vars
    <3> QED BY <3>1 DEF MeetingInv, OneSourced, OneSource, Signals
  <2> QED BY <2>1, RendezvousStep, StallStep, WaitStep, PcsStep DEF MeetingInv, RendezvousInv
<1>4. OneSourced <=> \A c \in Core : \A e \in EventRegister : OneSource(c, e)
  BY DEF OneSourced
<1>5. Spec /\ OneSourced => ImplementsRendezvous
  BY <1>1, <1>2, <1>3, MeetingInit, MeetingStep, PTL DEF Spec, ImplementsRendezvous, Abstract!Spec
<1> QED BY <1>4, <1>5, PTL
=============================================================================
