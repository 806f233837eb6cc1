------------------------------- MODULE MCKernel -----------------------------
(***************************************************************************)
(* An instance of KernelProps for TLC: two threads, and a method that is   *)
(* sensitive to the signal and to an event the threads use as well.        *)
(***************************************************************************)
EXTENDS KernelProps

CONSTANTS t1, t2, m1, e1, e2, timeout1, timeout2

Timeouts == t1 :> timeout1 @@ t2 :> timeout2
Sensitivity == m1 :> {change, e1}
=============================================================================
