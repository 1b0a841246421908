-------------------------------- MODULE Mutex --------------------------------
(***************************************************************************)
(* kernel/src/mutex.rs under preemption, as ALLOCATOR and SCHEDULER use it: *)
(* kmain locks the mutex once before there are processes, then processes    *)
(* lock it from user mode and exception handlers from kernel mode.          *)
(*                                                                         *)
(* Every load and store of the lock is one step.  A process can be          *)
(* interrupted between any two of its steps; a handler runs, with           *)
(* interrupts masked, to its end, and then any process continues.           *)
(***************************************************************************)
EXTENDS Naturals, FiniteSets

CONSTANTS Procs, Handler

ASSUME ThreadsAssumption == Handler \notin Procs /\ Procs # {}

Threads == Procs \cup {Handler}
NoOwner == 1     \* usize::max_value()
This    == 0     \* the caller's identity in try_lock, for every caller

VARIABLES
  lock,      \* the two fields of the mutex
  owner,
  pc,        \* where each thread is in lock, its critical section or unlock
  running,   \* the thread on the processor
  booted

vars == <<lock, owner, pc, running, booted>>

(* Mutex::new *)
Init ==
  /\ lock = FALSE /\ owner = NoOwner
  /\ pc = [t \in Threads |-> "idle"]
  /\ running \in Procs
  /\ booted = FALSE

(* The first use, in Allocator::initialize or GlobalScheduler::start, with   *)
(* nobody else about.  start never drops its guard.                          *)
initialize ==
  /\ ~booted /\ booted' = TRUE
  /\ lock' \in BOOLEAN /\ owner' = This
  /\ UNCHANGED <<pc, running>>

go(t, from, to) ==
  /\ booted /\ running = t /\ pc[t] = from
  /\ pc' = [pc EXCEPT ![t] = to]

call(t) == go(t, "idle", "load_lock") /\ UNCHANGED <<lock, owner, running, booted>>

load_lock(t) ==
  /\ go(t, "load_lock", IF lock THEN "load_owner" ELSE "store_lock")
  /\ UNCHANGED <<lock, owner, running, booted>>

load_owner_exclusive(t) ==
  /\ go(t, "load_owner", "load_lock")
  /\ UNCHANGED <<lock, owner, running, booted>>

(* Held by another: try_lock returns None, and lock calls it again. *)
load_owner(t) ==
  /\ go(t, "load_owner", IF owner = This THEN "store_lock" ELSE "load_lock")
  /\ UNCHANGED <<lock, owner, running, booted>>

store_lock(t) ==
  /\ go(t, "store_lock", "store_owner")
  /\ lock' = TRUE
  /\ UNCHANGED <<owner, running, booted>>

store_owner(t) ==
  /\ go(t, "store_owner", "critical")
  /\ owner' = This
  /\ UNCHANGED <<lock, running, booted>>

(* The drop of the guard: unlock clears lock and leaves owner. *)
unlock(t) ==
  /\ go(t, "critical", "idle")
  /\ lock' = FALSE
  /\ UNCHANGED <<owner, running, booted>>

(* An exception of the running process: its handler starts. *)
exception ==
  /\ booted /\ running \in Procs
  /\ running' = Handler
  /\ UNCHANGED <<lock, owner, pc, booted>>

(* eret, after switch, to any process. *)
eret ==
  /\ booted /\ running = Handler /\ pc[Handler] = "idle"
  /\ running' \in Procs
  /\ UNCHANGED <<lock, owner, pc, booted>>

step(t) == load_lock(t) \/ load_owner(t) \/ store_lock(t) \/ store_owner(t) \/ unlock(t)

Next == \/ initialize \/ exception \/ eret
        \/ \E t \in Threads : call(t) \/ step(t)

Spec == Init /\ [][Next]_vars
-----------------------------------------------------------------------------
(* The type invariant. *)
TypeOK ==
  /\ lock \in BOOLEAN /\ owner \in {This, NoOwner}
  /\ pc \in [Threads -> {"idle", "load_lock", "load_owner", "store_lock",
                         "store_owner", "critical"}]
  /\ running \in Threads /\ booted \in BOOLEAN

(* An exception handler never spins on the lock, whatever the process it    *)
(* interrupted was doing to it: spinning with interrupts masked, while the  *)
(* holder cannot run, would never end.                                      *)
HandlerNeverSpins ==
  [][pc[Handler] = "load_owner" => pc'[Handler] # "load_lock"]_vars

(* The comment on Allocator: "Thread-safe (locking) wrapper around a         *)
(* particular memory allocator".                                            *)
MutualExclusion ==
  Cardinality({t \in Threads : pc[t] = "critical"}) <= 1

(* The inductive invariant: after the first use every caller passes for     *)
(* the owner.                                                               *)
IInv ==
  /\ TypeOK
  /\ booted => owner = This
  /\ ~booted => \A t \in Threads : pc[t] = "idle"
=============================================================================
