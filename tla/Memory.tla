------------------------------- MODULE Memory -------------------------------
(***************************************************************************)
(* The memories of the chip (memory/Memory.cpp): the local memory of every *)
(* core and the global memory behind its MemoryWrapper.  A memory has no   *)
(* queue.  It keeps the time at which its latest request will be finished  *)
(* and answers every request at once with the delay after which the caller *)
(* may go on; the caller waits on its own.                                 *)
(*                                                                         *)
(* Time is a number of ticks, the greatest common divisor of all periods.  *)
(***************************************************************************)
EXTENDS Integers, Sequences

\* int(ceil(a * 1.0 / b)), for a request of a bytes.
CeilDiv(a, b) == (a + b - 1) \div b

\* MemoryConfig, as far as it determines latencies.
MemoryConfig == [data_width: Nat \ {0}, read_latency_cycle: Nat, write_latency_cycle: Nat,
                 period: Nat]

\* TransactionPayload
Transaction == [command: {"read", "write"}, addr: Nat, data_size: Nat]

\* Memory::getTransLatencyCyclePower, times the period.
Latency(config, trans) ==
  LET cycles == IF trans.command = "read" THEN config.read_latency_cycle
                                          ELSE config.write_latency_cycle
  IN CeilDiv(trans.data_size, config.data_width) * cycles * config.period

\* latest_request_finish_time after a request that takes t.
FinishTime(latest, now, t) == IF now > latest THEN now + t ELSE latest + t

\* Mutant: latest_request_finish_time is taken for a time to come.
TransportStale(s, now, t) ==
  [delay |-> s.latest + t - now, latest |-> FinishTime(s.latest, now, t)]

\* Mutant: a request that has to queue only pays for itself.
TransportUnqueued(s, now, t) ==
  [delay  |-> s.delay + t, latest |-> FinishTime(s.latest, now, t)]

\* Memory::transport: s holds the caller's delay and latest_request_finish_time.
\* A caller that has several requests hands its delay from one to the next; a
\* request that has to queue sets it, for it ends after all requests before it.
Transport(s, now, t) ==
  [delay  |-> IF now > s.latest THEN s.delay + t ELSE s.latest + t - now,
   latest |-> FinishTime(s.latest, now, t)]
=============================================================================
