------------------------------- MODULE MCMutex -------------------------------
(* Three processes and the handler, for TLC. *)
EXTENDS Mutex

CONSTANTS p1, p2, p3, irq
=============================================================================
