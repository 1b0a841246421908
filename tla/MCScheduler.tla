----------------------------- MODULE MCScheduler -----------------------------
(* Instances of Scheduler for TLC. *)
EXTENDS Scheduler

CONSTANTS p1, p2, p3

MCBoot2 == <<p1, p2>>
MCBoot3 == <<p1, p2, p3>>
=============================================================================
