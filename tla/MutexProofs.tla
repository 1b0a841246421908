----------------------------- MODULE MutexProofs -----------------------------
(* Theorems about Mutex, for any number of processes. *)
EXTENDS Mutex, TLAPS

(* The inductive invariant of the lock's two fields. *)
LEMMA SpecIInv == Spec => []IInv
<1>1. Init => IInv
  BY ThreadsAssumption DEF Init, IInv, TypeOK, Threads
<1>2. ASSUME IInv, [Next]_vars PROVE IInv'
  <2>1. CASE initialize
    BY <1>2, <2>1 DEF IInv, TypeOK, initialize
  <2>2. CASE exception
    BY <1>2, <2>2 DEF IInv, TypeOK, exception, Threads
  <2>3. CASE eret
    BY <1>2, <2>3 DEF IInv, TypeOK, eret, Threads
  <2>4. ASSUME NEW t \in Threads, call(t) \/ step(t) PROVE IInv'
    <3>1. CASE call(t)
      BY <1>2, <3>1 DEF IInv, TypeOK, call, go
    <3>2. CASE load_lock(t)
      BY <1>2, <3>2 DEF IInv, TypeOK, load_lock, go
    <3>3. CASE load_owner(t)
      BY <1>2, <3>3 DEF IInv, TypeOK, load_owner, go
    <3>4. CASE store_lock(t)
      BY <1>2, <3>4 DEF IInv, TypeOK, store_lock, go
    <3>5. CASE store_owner(t)
      BY <1>2, <3>5 DEF IInv, TypeOK, store_owner, go
    <3>6. CASE unlock(t)
      BY <1>2, <3>6 DEF IInv, TypeOK, unlock, go
    <3> QED BY <2>4, <3>1, <3>2, <3>3, <3>4, <3>5, <3>6 DEF step
  <2>5. CASE UNCHANGED vars
    BY <1>2, <2>5 DEF IInv, TypeOK, vars
  <2> QED BY <1>2, <2>1, <2>2, <2>3, <2>4, <2>5 DEF Next
<1> QED BY <1>1, <1>2, PTL DEF Spec

(* The fields of the mutex and its callers' positions keep their types. *)
THEOREM TypeCorrect == Spec => []TypeOK
<1>1. IInv => TypeOK
  BY DEF IInv
<1> QED BY <1>1, SpecIInv, PTL

(* With any number of processes, lock never makes an exception handler try  *)
(* a second time.                                                           *)
THEOREM HandlersPass == Spec => HandlerNeverSpins
<1> DEFINE A == pc[Handler] = "load_owner" => pc'[Handler] # "load_lock"
<1>1. ASSUME IInv, [Next]_vars PROVE [A]_vars
  <2> SUFFICES ASSUME Next, pc[Handler] = "load_owner" PROVE pc'[Handler] # "load_lock"
    BY <1>1
  <2>1. /\ Handler \in Threads
        /\ booted => owner = This
        /\ pc \in [Threads -> {"idle", "load_lock", "load_owner", "store_lock",
                               "store_owner", "critical"}]
    BY <1>1 DEF IInv, TypeOK, Threads
  <2>2. CASE initialize \/ exception \/ eret
    BY <2>2 DEF initialize, exception, eret
  <2>3. ASSUME NEW t \in Threads, call(t) \/ step(t) PROVE pc'[Handler] # "load_lock"
    <3>1. CASE t # Handler
      <4>1. pc'[Handler] = pc[Handler]
        BY <2>1, <2>3, <3>1 DEF call, step, load_lock, load_owner, store_lock, store_owner,
                                unlock, go
      <4> QED BY <4>1
    <3>2. CASE t = Handler
      <4>1. load_owner(Handler)
        BY <2>3, <3>2 DEF call, step, load_lock, store_lock, store_owner, unlock, go
      <4> QED BY <2>1, <4>1 DEF load_owner, go
    <3> QED BY <3>1, <3>2
  <2> QED BY <2>2, <2>3 DEF Next
<1> QED BY <1>1, SpecIInv, PTL DEF HandlerNeverSpins, Spec
=============================================================================
