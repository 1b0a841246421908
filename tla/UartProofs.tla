----------------------------- MODULE UartProofs ------------------------------
(***************************************************************************)
(* StoreFindsRoom and HasByteGuarantee for any number of processes, any    *)
(* FIFO and any timing.                                                    *)
(***************************************************************************)
EXTENDS Uart, FiniteSetTheorems, TLAPS

(* Only the running thread can be undisturbed, and only inside an operation; *)
(* a read that goes back for a byte has seen it.                             *)
Undisturbed ==
  \A t \in Threads : alone[t] =>
    /\ t = running /\ pc[t] \notin {"idle", "new", "enable"}
    /\ pc[t] = "r_check" /\ op[t] = "read" => rx > 0

(* What an operation has left to do. *)
Busy ==
  \A t \in Threads :
    /\ pc[t] \in {"new", "enable"} => op[t] # "none"
    /\ pc[t] = "w_store" => out[t] > 0

Inv == TypeOK /\ Busy /\ Undisturbed /\ StoreFindsRoom /\ HasByteGuarantee

(* A thread that runs on changes its own program point only. *)
LEMMA GoStep ==
  ASSUME TypeOK, NEW t \in Threads, NEW from, NEW to \in Points, go(t, from, to)
  PROVE  /\ pc' \in [Threads -> Points] /\ pc[t] = from /\ pc'[t] = to
         /\ \A u \in Threads : u # t => pc'[u] = pc[u]
         /\ running = t /\ running' = t
BY DEF TypeOK, go

(* The first step of an operation is a program point. *)
LEMMA FirstPoint ==
  ASSUME NEW o \in {"write", "read_byte", "read", "flush"}
  PROVE  first(o) \in {"w_check", "r_check", "wait", "flush"}
BY DEF first

(* Returning from an operation keeps the types of the local state and ends *)
(* what the history says of the thread.                                    *)
LEMMA ReturnStep ==
  ASSUME TypeOK, NEW t \in Threads, NEW from, return(t, from)
  PROVE  /\ pc' \in [Threads -> Points]
         /\ op' \in [Threads -> {"none", "write", "read_byte", "read", "flush"}]
         /\ out' \in [Threads -> Nat] /\ len' \in [Threads -> Lens \cup {0}]
         /\ n' \in [Threads -> Nat] /\ left' \in [Threads -> Nat \cup {None}]
         /\ nap' \in [Threads -> Nat] /\ alone' \in [Threads -> BOOLEAN]
         /\ pc[t] = from /\ pc'[t] = "idle" /\ alone'[t] = FALSE
         /\ \A u \in Threads : u # t => /\ pc'[u] = pc[u] /\ alone'[u] = alone[u]
                                        /\ op'[u] = op[u] /\ out'[u] = out[u]
         /\ running = t /\ running' = t
BY DEF TypeOK, return, go, Points

(* The number of bytes of a string with its carriage returns. *)
LEMMA Written ==
  ASSUME NEW s \in Seq({"c", "\n"})
  PROVE  written(s) \in Nat
<1>1. IsFiniteSet({i \in 1..Len(s) : s[i] = "\n"})
  BY FS_Interval, FS_Subset, Len(s) \in Int
<1>2. QED
  BY <1>1, FS_CardinalityType, Len(s) \in Nat DEF written

(* Every step of a thread inside an operation keeps the invariant. *)
LEMMA StepKeeps ==
  ASSUME Inv, NEW t \in Threads, step(t)
  PROVE  Inv'
<1>1. CASE new(t)
  <2>1. TypeOK'
    <3>1. 0 \in 0..Depth
      BY UartAssumption
    <3>0. CNTL' \in BOOLEAN /\ rx' \in 0..Depth /\ tx' \in 0..Depth
      BY <1>1, <3>1 DEF new
    <3>2. pc' \in [Threads -> Points] /\ running' \in Threads
      BY <1>1 DEF Inv, TypeOK, new, go, Points
    <3>3. UNCHANGED <<inner, timeout, op, out, len, n, left, nap, alone>>
      BY <1>1 DEF new, local
    <3>4. QED
      BY <3>0, <3>2, <3>3 DEF Inv, TypeOK
  <2>2. Busy'
    BY <1>1, UartAssumption DEF Inv, TypeOK, Busy, port, new, local, go
  <2>3. Undisturbed'
    BY <1>1, UartAssumption
       DEF Inv, TypeOK, Undisturbed, HasByteGuarantee, port, new, local, go
  <2>4. StoreFindsRoom'
    BY <1>1, UartAssumption
       DEF Inv, TypeOK, Undisturbed, StoreFindsRoom, port, new, local, go
  <2>5. HasByteGuarantee'
    BY <1>1, UartAssumption
       DEF Inv, TypeOK, Undisturbed, HasByteGuarantee, port, new, local, go
  <2>6. QED
    BY <2>1, <2>2, <2>3, <2>4, <2>5 DEF Inv
<1>2. CASE enable(t)
  <2>1. TypeOK'
    <3>1. inner' \in BOOLEAN /\ timeout' \in {None} \cup Timeouts /\ CNTL' \in BOOLEAN
      BY <1>2 DEF enable
    <3>2. op[t] \in {"write", "read_byte", "read", "flush"}
      BY <1>2 DEF Inv, TypeOK, Busy, enable, go
    <3>3. pc' \in [Threads -> Points] /\ running' \in Threads
      BY <1>2, <3>2, FirstPoint DEF Inv, TypeOK, enable, go, Points
    <3>4. UNCHANGED <<rx, tx, op, out, len, n, left, nap, alone>>
      BY <1>2 DEF enable, local
    <3>5. QED
      BY <3>1, <3>3, <3>4 DEF Inv, TypeOK
  <2>2. Busy'
    BY <1>2, UartAssumption, FirstPoint DEF Inv, TypeOK, Busy, port, enable, local, go
  <2>3. Undisturbed'
    BY <1>2, UartAssumption, FirstPoint
       DEF Inv, TypeOK, Undisturbed, HasByteGuarantee, port, enable, local, go
  <2>4. StoreFindsRoom'
    BY <1>2, UartAssumption, FirstPoint
       DEF Inv, TypeOK, Undisturbed, StoreFindsRoom, port, enable, local, go
  <2>5. HasByteGuarantee'
    BY <1>2, UartAssumption, FirstPoint
       DEF Inv, TypeOK, Undisturbed, HasByteGuarantee, port, enable, local, go
  <2>6. QED
    BY <2>1, <2>2, <2>3, <2>4, <2>5 DEF Inv
<1>3. CASE write_check(t)
  <2>1. CASE out[t] = 0
    <3>1. TypeOK'
      BY <1>3, <2>1, UartAssumption, ReturnStep
         DEF Inv, TypeOK, Busy, Points, port, None, write_check
    <3>2. Busy'
      BY <1>3, <2>1, UartAssumption, ReturnStep DEF Inv, TypeOK, Busy, port, write_check
    <3>3. Undisturbed'
      BY <1>3, <2>1, UartAssumption, ReturnStep
         DEF Inv, TypeOK, Undisturbed, HasByteGuarantee, port, write_check
    <3>4. StoreFindsRoom'
      BY <1>3, <2>1, UartAssumption, ReturnStep
         DEF Inv, TypeOK, Undisturbed, StoreFindsRoom, port, write_check
    <3>5. HasByteGuarantee'
      BY <1>3, <2>1, UartAssumption, ReturnStep
         DEF Inv, TypeOK, Undisturbed, HasByteGuarantee, port, write_check
    <3>6. QED
      BY <3>1, <3>2, <3>3, <3>4, <3>5 DEF Inv
  <2>2. CASE out[t] # 0 /\ write_fifo_full
    <3>1. TypeOK'
      BY <1>3, <2>2, UartAssumption
         DEF Inv, TypeOK, Busy, Points, port, None, write_check, write_look, local, spin, go, write_fifo_full
    <3>2. Busy'
      BY <1>3, <2>2, UartAssumption
         DEF Inv, TypeOK, Busy, port, write_check, write_look, local, spin, go, write_fifo_full
    <3>3. Undisturbed'
      BY <1>3, <2>2, UartAssumption
         DEF Inv, TypeOK, Undisturbed, HasByteGuarantee, port, write_check, write_look, local, spin, go, write_fifo_full
    <3>4. StoreFindsRoom'
      BY <1>3, <2>2, UartAssumption
         DEF Inv, TypeOK, Undisturbed, StoreFindsRoom, port, write_check, write_look, local, spin, go, write_fifo_full
    <3>5. HasByteGuarantee'
      BY <1>3, <2>2, UartAssumption
         DEF Inv, TypeOK, Undisturbed, HasByteGuarantee, port, write_check, write_look, local, spin, go, write_fifo_full
    <3>6. QED
      BY <3>1, <3>2, <3>3, <3>4, <3>5 DEF Inv
  <2>3. CASE out[t] # 0 /\ ~write_fifo_full
    <3>1. TypeOK'
      BY <1>3, <2>3, UartAssumption
         DEF Inv, TypeOK, Busy, Points, port, None, write_check, write_look, local, spin, go, write_fifo_full
    <3>2. Busy'
      BY <1>3, <2>3, UartAssumption
         DEF Inv, TypeOK, Busy, port, write_check, write_look, local, spin, go, write_fifo_full
    <3>3. Undisturbed'
      BY <1>3, <2>3, UartAssumption
         DEF Inv, TypeOK, Undisturbed, HasByteGuarantee, port, write_check, write_look, local, spin, go, write_fifo_full
    <3>4. StoreFindsRoom'
      BY <1>3, <2>3, UartAssumption
         DEF Inv, TypeOK, Undisturbed, StoreFindsRoom, port, write_check, write_look, local, spin, go, write_fifo_full
    <3>5. HasByteGuarantee'
      BY <1>3, <2>3, UartAssumption
         DEF Inv, TypeOK, Undisturbed, HasByteGuarantee, port, write_check, write_look, local, spin, go, write_fifo_full
    <3>6. QED
      BY <3>1, <3>2, <3>3, <3>4, <3>5 DEF Inv
  <2>4. QED
    BY <2>1, <2>2, <2>3
<1>4. CASE write_store(t)
  <2>1. TypeOK'
    BY <1>4, UartAssumption DEF Inv, TypeOK, Busy, Points, port, None, write_store, go
  <2>2. Busy'
    BY <1>4, UartAssumption DEF Inv, TypeOK, Busy, port, write_store, go
  <2>3. Undisturbed'
    BY <1>4, UartAssumption
       DEF Inv, TypeOK, Undisturbed, HasByteGuarantee, port, write_store, go
  <2>4. StoreFindsRoom'
    BY <1>4, UartAssumption
       DEF Inv, TypeOK, Undisturbed, StoreFindsRoom, port, write_store, go
  <2>5. HasByteGuarantee'
    BY <1>4, UartAssumption
       DEF Inv, TypeOK, Undisturbed, HasByteGuarantee, port, write_store, go
  <2>6. QED
    BY <2>1, <2>2, <2>3, <2>4, <2>5 DEF Inv
<1>5. CASE read_check(t)
  <2>1. CASE has_byte
    <3>1. TypeOK'
      BY <1>5, <2>1, UartAssumption
         DEF Inv, TypeOK, Busy, Points, port, None, read_check, local, spin, go, has_byte
    <3>2. Busy'
      BY <1>5, <2>1, UartAssumption
         DEF Inv, TypeOK, Busy, port, read_check, local, spin, go, has_byte
    <3>3. Undisturbed'
      BY <1>5, <2>1, UartAssumption
         DEF Inv, TypeOK, Undisturbed, HasByteGuarantee, port, read_check, local, spin, go, has_byte
    <3>4. StoreFindsRoom'
      BY <1>5, <2>1, UartAssumption
         DEF Inv, TypeOK, Undisturbed, StoreFindsRoom, port, read_check, local, spin, go, has_byte
    <3>5. HasByteGuarantee'
      BY <1>5, <2>1, UartAssumption
         DEF Inv, TypeOK, Undisturbed, HasByteGuarantee, port, read_check, local, spin, go, has_byte
    <3>6. QED
      BY <3>1, <3>2, <3>3, <3>4, <3>5 DEF Inv
  <2>2. CASE ~has_byte
    <3>1. TypeOK'
      BY <1>5, <2>2, UartAssumption
         DEF Inv, TypeOK, Busy, Points, port, None, read_check, local, spin, go, has_byte
    <3>2. Busy'
      BY <1>5, <2>2, UartAssumption
         DEF Inv, TypeOK, Busy, port, read_check, local, spin, go, has_byte
    <3>3. Undisturbed'
      BY <1>5, <2>2, UartAssumption
         DEF Inv, TypeOK, Undisturbed, HasByteGuarantee, port, read_check, local, spin, go, has_byte
    <3>4. StoreFindsRoom'
      BY <1>5, <2>2, UartAssumption
         DEF Inv, TypeOK, Undisturbed, StoreFindsRoom, port, read_check, local, spin, go, has_byte
    <3>5. HasByteGuarantee'
      BY <1>5, <2>2, UartAssumption
         DEF Inv, TypeOK, Undisturbed, HasByteGuarantee, port, read_check, local, spin, go, has_byte
    <3>6. QED
      BY <3>1, <3>2, <3>3, <3>4, <3>5 DEF Inv
  <2>3. QED
    BY <2>1, <2>2
<1>6. CASE read_load(t)
  <2>1. CASE op[t] = "read_byte"
    <3>1. TypeOK'
      <4>1. rx' \in 0..Depth
        BY <1>6, UartAssumption DEF Inv, TypeOK, read_load
      <4>2. return(t, "r_load") /\ UNCHANGED <<inner, timeout, CNTL, tx>>
        BY <1>6, <2>1 DEF read_load, port
      <4>3. QED
        BY <4>1, <4>2, ReturnStep DEF Inv, TypeOK
    <3>2. Busy'
      BY <1>6, <2>1, UartAssumption, ReturnStep DEF Inv, TypeOK, Busy, port, read_load
    <3>3. Undisturbed'
      <4>1. return(t, "r_load")
        BY <1>6, <2>1 DEF read_load
      <4>2. \A u \in Threads : ~alone'[u]
        BY <4>1, ReturnStep DEF Inv, Undisturbed
      <4>3. QED
        BY <4>2 DEF Undisturbed
    <3>4. StoreFindsRoom'
      BY <1>6, <2>1, UartAssumption, ReturnStep
         DEF Inv, TypeOK, Undisturbed, StoreFindsRoom, port, read_load
    <3>5. HasByteGuarantee'
      BY <1>6, <2>1, UartAssumption, ReturnStep
         DEF Inv, TypeOK, Undisturbed, HasByteGuarantee, port, read_load
    <3>6. QED
      BY <3>1, <3>2, <3>3, <3>4, <3>5 DEF Inv
  <2>2. CASE op[t] # "read_byte"
    <3>1. TypeOK'
      <4>1. rx' \in 0..Depth
        BY <1>6, UartAssumption DEF Inv, TypeOK, read_load
      <4>2. pc' \in [Threads -> Points] /\ n' \in [Threads -> Nat] /\ running' \in Threads
        BY <1>6, <2>2 DEF Inv, TypeOK, read_load, go, Points
      <4>3. UNCHANGED <<inner, timeout, CNTL, tx, op, out, len, left, nap, alone>>
        BY <1>6, <2>2 DEF read_load, port
      <4>4. QED
        BY <4>1, <4>2, <4>3 DEF Inv, TypeOK
    <3>2. Busy'
      BY <1>6, <2>2, UartAssumption DEF Inv, TypeOK, Busy, port, read_load, go
    <3>3. Undisturbed'
      BY <1>6, <2>2, UartAssumption
         DEF Inv, TypeOK, Undisturbed, HasByteGuarantee, port, read_load, go
    <3>4. StoreFindsRoom'
      BY <1>6, <2>2, UartAssumption
         DEF Inv, TypeOK, Undisturbed, StoreFindsRoom, port, read_load, go
    <3>5. HasByteGuarantee'
      BY <1>6, <2>2, UartAssumption
         DEF Inv, TypeOK, Undisturbed, HasByteGuarantee, port, read_load, go
    <3>6. QED
      BY <3>1, <3>2, <3>3, <3>4, <3>5 DEF Inv
  <2>3. QED
    BY <2>1, <2>2
<1>7. CASE wait_for_byte(t)
  <2>1. TypeOK'
    BY <1>7, UartAssumption DEF Inv, TypeOK, Busy, Points, port, None, wait_for_byte, go
  <2>2. Busy'
    BY <1>7, UartAssumption DEF Inv, TypeOK, Busy, port, wait_for_byte, go
  <2>3. Undisturbed'
    BY <1>7, UartAssumption
       DEF Inv, TypeOK, Undisturbed, HasByteGuarantee, port, wait_for_byte, go
  <2>4. StoreFindsRoom'
    BY <1>7, UartAssumption
       DEF Inv, TypeOK, Undisturbed, StoreFindsRoom, port, wait_for_byte, go
  <2>5. HasByteGuarantee'
    BY <1>7, UartAssumption
       DEF Inv, TypeOK, Undisturbed, HasByteGuarantee, port, wait_for_byte, go
  <2>6. QED
    BY <2>1, <2>2, <2>3, <2>4, <2>5 DEF Inv
<1>8. CASE wait_deadline(t)
  <2>1. CASE left[t] > 0
    <3>1. TypeOK'
      BY <1>8, <2>1, UartAssumption
         DEF Inv, TypeOK, Busy, Points, port, None, wait_deadline, local, go
    <3>2. Busy'
      BY <1>8, <2>1, UartAssumption DEF Inv, TypeOK, Busy, port, wait_deadline, local, go
    <3>3. Undisturbed'
      BY <1>8, <2>1, UartAssumption
         DEF Inv, TypeOK, Undisturbed, HasByteGuarantee, port, wait_deadline, local, go
    <3>4. StoreFindsRoom'
      BY <1>8, <2>1, UartAssumption
         DEF Inv, TypeOK, Undisturbed, StoreFindsRoom, port, wait_deadline, local, go
    <3>5. HasByteGuarantee'
      BY <1>8, <2>1, UartAssumption
         DEF Inv, TypeOK, Undisturbed, HasByteGuarantee, port, wait_deadline, local, go
    <3>6. QED
      BY <3>1, <3>2, <3>3, <3>4, <3>5 DEF Inv
  <2>2. CASE ~(left[t] > 0)
    <3>1. TypeOK'
      BY <1>8, <2>2, UartAssumption, ReturnStep
         DEF Inv, TypeOK, Busy, Points, port, None, wait_deadline
    <3>2. Busy'
      BY <1>8, <2>2, UartAssumption, ReturnStep DEF Inv, TypeOK, Busy, port, wait_deadline
    <3>3. Undisturbed'
      BY <1>8, <2>2, UartAssumption, ReturnStep
         DEF Inv, TypeOK, Undisturbed, HasByteGuarantee, port, wait_deadline
    <3>4. StoreFindsRoom'
      BY <1>8, <2>2, UartAssumption, ReturnStep
         DEF Inv, TypeOK, Undisturbed, StoreFindsRoom, port, wait_deadline
    <3>5. HasByteGuarantee'
      BY <1>8, <2>2, UartAssumption, ReturnStep
         DEF Inv, TypeOK, Undisturbed, HasByteGuarantee, port, wait_deadline
    <3>6. QED
      BY <3>1, <3>2, <3>3, <3>4, <3>5 DEF Inv
  <2>3. QED
    BY <2>1, <2>2
<1>9. CASE wait_look(t)
  <2>1. CASE has_byte
    <3>1. TypeOK'
      BY <1>9, <2>1, UartAssumption
         DEF Inv, TypeOK, Busy, Points, port, None, wait_look, local, spin, go, has_byte
    <3>2. Busy'
      BY <1>9, <2>1, UartAssumption
         DEF Inv, TypeOK, Busy, port, wait_look, local, spin, go, has_byte
    <3>3. Undisturbed'
      BY <1>9, <2>1, UartAssumption
         DEF Inv, TypeOK, Undisturbed, HasByteGuarantee, port, wait_look, local, spin, go, has_byte
    <3>4. StoreFindsRoom'
      BY <1>9, <2>1, UartAssumption
         DEF Inv, TypeOK, Undisturbed, StoreFindsRoom, port, wait_look, local, spin, go, has_byte
    <3>5. HasByteGuarantee'
      BY <1>9, <2>1, UartAssumption
         DEF Inv, TypeOK, Undisturbed, HasByteGuarantee, port, wait_look, local, spin, go, has_byte
    <3>6. QED
      BY <3>1, <3>2, <3>3, <3>4, <3>5 DEF Inv
  <2>2. CASE ~has_byte
    <3>1. TypeOK'
      BY <1>9, <2>2, UartAssumption
         DEF Inv, TypeOK, Busy, Points, port, None, wait_look, local, spin, go, has_byte
    <3>2. Busy'
      BY <1>9, <2>2, UartAssumption
         DEF Inv, TypeOK, Busy, port, wait_look, local, spin, go, has_byte
    <3>3. Undisturbed'
      BY <1>9, <2>2, UartAssumption
         DEF Inv, TypeOK, Undisturbed, HasByteGuarantee, port, wait_look, local, spin, go, has_byte
    <3>4. StoreFindsRoom'
      BY <1>9, <2>2, UartAssumption
         DEF Inv, TypeOK, Undisturbed, StoreFindsRoom, port, wait_look, local, spin, go, has_byte
    <3>5. HasByteGuarantee'
      BY <1>9, <2>2, UartAssumption
         DEF Inv, TypeOK, Undisturbed, HasByteGuarantee, port, wait_look, local, spin, go, has_byte
    <3>6. QED
      BY <3>1, <3>2, <3>3, <3>4, <3>5 DEF Inv
  <2>3. QED
    BY <2>1, <2>2
<1>10. CASE fill(t)
  <2>1. CASE n[t] < len[t] /\ has_byte
    <3>1. TypeOK'
      BY <1>10, <2>1, UartAssumption
         DEF Inv, TypeOK, Busy, Points, port, None, fill, local, go, has_byte
    <3>2. Busy'
      BY <1>10, <2>1, UartAssumption DEF Inv, TypeOK, Busy, port, fill, local, go, has_byte
    <3>3. Undisturbed'
      BY <1>10, <2>1, UartAssumption
         DEF Inv, TypeOK, Undisturbed, HasByteGuarantee, port, fill, local, go, has_byte
    <3>4. StoreFindsRoom'
      BY <1>10, <2>1, UartAssumption
         DEF Inv, TypeOK, Undisturbed, StoreFindsRoom, port, fill, local, go, has_byte
    <3>5. HasByteGuarantee'
      BY <1>10, <2>1, UartAssumption
         DEF Inv, TypeOK, Undisturbed, HasByteGuarantee, port, fill, local, go, has_byte
    <3>6. QED
      BY <3>1, <3>2, <3>3, <3>4, <3>5 DEF Inv
  <2>2. CASE ~(n[t] < len[t] /\ has_byte)
    <3>1. TypeOK'
      BY <1>10, <2>2, UartAssumption, ReturnStep
         DEF Inv, TypeOK, Busy, Points, port, None, fill
    <3>2. Busy'
      BY <1>10, <2>2, UartAssumption, ReturnStep DEF Inv, TypeOK, Busy, port, fill
    <3>3. Undisturbed'
      BY <1>10, <2>2, UartAssumption, ReturnStep
         DEF Inv, TypeOK, Undisturbed, HasByteGuarantee, port, fill
    <3>4. StoreFindsRoom'
      BY <1>10, <2>2, UartAssumption, ReturnStep
         DEF Inv, TypeOK, Undisturbed, StoreFindsRoom, port, fill
    <3>5. HasByteGuarantee'
      BY <1>10, <2>2, UartAssumption, ReturnStep
         DEF Inv, TypeOK, Undisturbed, HasByteGuarantee, port, fill
    <3>6. QED
      BY <3>1, <3>2, <3>3, <3>4, <3>5 DEF Inv
  <2>3. QED
    BY <2>1, <2>2
<1>11. CASE flush_look(t)
  <2>1. CASE TxIdle # 1
    <3>1. TypeOK'
      BY <1>11, <2>1, UartAssumption
         DEF Inv, TypeOK, Busy, Points, port, None, flush_look, local, spin, go
    <3>2. Busy'
      BY <1>11, <2>1, UartAssumption
         DEF Inv, TypeOK, Busy, port, flush_look, local, spin, go
    <3>3. Undisturbed'
      BY <1>11, <2>1, UartAssumption
         DEF Inv, TypeOK, Undisturbed, HasByteGuarantee, port, flush_look, local, spin, go
    <3>4. StoreFindsRoom'
      BY <1>11, <2>1, UartAssumption
         DEF Inv, TypeOK, Undisturbed, StoreFindsRoom, port, flush_look, local, spin, go
    <3>5. HasByteGuarantee'
      BY <1>11, <2>1, UartAssumption
         DEF Inv, TypeOK, Undisturbed, HasByteGuarantee, port, flush_look, local, spin, go
    <3>6. QED
      BY <3>1, <3>2, <3>3, <3>4, <3>5 DEF Inv
  <2>2. CASE ~(TxIdle # 1)
    <3>1. TypeOK'
      BY <1>11, <2>2, UartAssumption, ReturnStep
         DEF Inv, TypeOK, Busy, Points, port, None, flush_look
    <3>2. Busy'
      BY <1>11, <2>2, UartAssumption, ReturnStep DEF Inv, TypeOK, Busy, port, flush_look
    <3>3. Undisturbed'
      BY <1>11, <2>2, UartAssumption, ReturnStep
         DEF Inv, TypeOK, Undisturbed, HasByteGuarantee, port, flush_look
    <3>4. StoreFindsRoom'
      BY <1>11, <2>2, UartAssumption, ReturnStep
         DEF Inv, TypeOK, Undisturbed, StoreFindsRoom, port, flush_look
    <3>5. HasByteGuarantee'
      BY <1>11, <2>2, UartAssumption, ReturnStep
         DEF Inv, TypeOK, Undisturbed, HasByteGuarantee, port, flush_look
    <3>6. QED
      BY <3>1, <3>2, <3>3, <3>4, <3>5 DEF Inv
  <2>3. QED
    BY <2>1, <2>2
<1>12. CASE wake(t)
  <2>1. TypeOK'
    BY <1>12, UartAssumption DEF Inv, TypeOK, Busy, Points, port, None, wake, local, go
  <2>2. Busy'
    BY <1>12, UartAssumption DEF Inv, TypeOK, Busy, port, wake, local, go
  <2>3. Undisturbed'
    BY <1>12, UartAssumption
       DEF Inv, TypeOK, Undisturbed, HasByteGuarantee, port, wake, local, go
  <2>4. StoreFindsRoom'
    BY <1>12, UartAssumption
       DEF Inv, TypeOK, Undisturbed, StoreFindsRoom, port, wake, local, go
  <2>5. HasByteGuarantee'
    BY <1>12, UartAssumption
       DEF Inv, TypeOK, Undisturbed, HasByteGuarantee, port, wake, local, go
  <2>6. QED
    BY <2>1, <2>2, <2>3, <2>4, <2>5 DEF Inv
<1>13. QED
  BY <1>1, <1>2, <1>3, <1>4, <1>5, <1>6, <1>7, <1>8, <1>9, <1>10, <1>11, <1>12 DEF step

(* Entering an operation keeps the invariant. *)
LEMMA CallKeeps ==
  ASSUME Inv, NEW t \in Threads, NEW o \in {"write", "read_byte", "read", "flush"},
         call(t, o), out' \in [Threads -> Nat], \A u \in Threads : u # t => out'[u] = out[u],
         len' \in [Threads -> Lens \cup {0}], UNCHANGED n
  PROVE  Inv'
<1>1. TypeOK'
  <2>1. UNCHANGED <<inner, timeout, CNTL, rx, tx, left, nap, alone, n>>
    BY DEF call, port
  <2>2. /\ pc' \in [Threads -> Points] /\ running' \in Threads
        /\ op' \in [Threads -> {"none", "write", "read_byte", "read", "flush"}]
    BY FirstPoint DEF Inv, TypeOK, call, go, Points
  <2>3. QED
    BY <2>1, <2>2 DEF Inv, TypeOK
<1>2. Busy'
  BY FirstPoint DEF Inv, TypeOK, Busy, call, go
<1>3. pc'[t] \notin {"w_store", "r_load", "r_nap"} /\ ~alone[t] /\ ~alone'[t]
  BY FirstPoint DEF Inv, TypeOK, Undisturbed, call, go
<1>4. Undisturbed' /\ StoreFindsRoom' /\ HasByteGuarantee'
  BY <1>3 DEF Inv, TypeOK, Undisturbed, StoreFindsRoom, HasByteGuarantee, call, go, port
<1>5. QED
  BY <1>1, <1>2, <1>4 DEF Inv

(* So do the line, the clock and the exceptions. *)
LEMMA OutsideKeeps ==
  ASSUME Inv, receive \/ transmit \/ tick \/ exception \/ eret
  PROVE  Inv'
<1>1. CASE receive
  <2>1. rx' \in 0..Depth /\ rx' > rx
    BY <1>1, UartAssumption DEF Inv, TypeOK, receive
  <2>2. UNCHANGED <<inner, timeout, CNTL, tx, pc, op, out, len, n, left, nap, running, alone>>
    BY <1>1 DEF receive, port, local
  <2>3. rx \in Nat /\ rx' \in Nat
    BY <2>1, UartAssumption DEF Inv, TypeOK
  <2>4. QED
    BY <2>1, <2>2, <2>3 DEF Inv, TypeOK, Busy, Undisturbed, StoreFindsRoom, HasByteGuarantee
<1>2. CASE transmit
  <2>1. tx' \in 0..Depth /\ tx' < tx /\ tx \in 0..Depth
    BY <1>2, UartAssumption DEF Inv, TypeOK, transmit
  <2>2. UNCHANGED <<inner, timeout, CNTL, rx, pc, op, out, len, n, left, nap, running, alone>>
    BY <1>2 DEF transmit, port, local
  <2>3. tx < Depth => tx' < Depth
    BY <2>1, UartAssumption
  <2>4. QED
    BY <2>1, <2>2, <2>3 DEF Inv, TypeOK, Busy, Undisturbed, StoreFindsRoom, HasByteGuarantee
<1>3. CASE tick
  <2>1. nap' \in [Threads -> Nat]
    BY <1>3 DEF Inv, TypeOK, tick, less
  <2>2. left' \in [Threads -> Nat \cup {None}]
    BY <1>3 DEF Inv, TypeOK, tick, less, None
  <2>3. UNCHANGED <<inner, timeout, CNTL, rx, tx, pc, op, out, len, n, running, alone>>
    BY <1>3 DEF tick, port
  <2>4. QED
    BY <2>1, <2>2, <2>3 DEF Inv, TypeOK, Busy, Undisturbed, StoreFindsRoom, HasByteGuarantee
<1>4. CASE exception
  <2>1. UNCHANGED <<inner, timeout, CNTL, rx, tx, pc, op, out, len, n, left, nap>>
    BY <1>4 DEF exception, port, local
  <2>2. alone' \in [Threads -> BOOLEAN] /\ running' \in Threads
    BY <1>4 DEF Inv, TypeOK, exception, Threads
  <2>3. \A t \in Threads : ~alone'[t]
    BY <1>4 DEF Inv, TypeOK, Undisturbed, exception
  <2>4. QED
    BY <2>1, <2>2, <2>3 DEF Inv, TypeOK, Busy, Undisturbed, StoreFindsRoom, HasByteGuarantee
<1>5. CASE eret
  <2>1. UNCHANGED <<inner, timeout, CNTL, rx, tx, pc, op, out, len, n, left, nap, alone>>
    BY <1>5 DEF eret, port, local
  <2>2. running' \in Threads
    BY <1>5 DEF eret, Threads
  <2>3. \A t \in Threads : ~alone[t]
    BY <1>5 DEF Inv, TypeOK, Undisturbed, eret
  <2>4. QED
    BY <2>1, <2>2, <2>3 DEF Inv, TypeOK, Busy, Undisturbed, StoreFindsRoom, HasByteGuarantee
<1>6. QED
  BY <1>1, <1>2, <1>3, <1>4, <1>5

(* The invariant holds in every reachable state. *)
THEOREM Invariance == Spec => []Inv
<1>1. Init => Inv
  <2>1. SUFFICES ASSUME Init PROVE Inv
    OBVIOUS
  <2>2. TypeOK
    <3>1. 0 \in 0..Depth /\ 0 \in Nat
      BY UartAssumption
    <3>2. rx \in 0..Depth /\ tx \in 0..Depth /\ inner \in BOOLEAN /\ CNTL \in BOOLEAN
      BY <2>1, <3>1 DEF Init
    <3>3. QED
      BY <2>1, <3>1, <3>2 DEF Init, TypeOK, Points, Threads
  <2>3. QED
    BY <2>1, <2>2 DEF Init, Inv, Busy, Undisturbed, StoreFindsRoom, HasByteGuarantee
<1>2. Inv /\ [Next]_vars => Inv'
  <2>1. SUFFICES ASSUME Inv, [Next]_vars PROVE Inv'
    OBVIOUS
  <2>2. CASE \E t \in Threads : step(t)
    BY <2>1, <2>2, StepKeeps
  <2>3. CASE \E t \in Threads, s \in Strings : write_str(t, s)
    <3>1. PICK t \in Threads, s \in Strings : write_str(t, s)
      BY <2>3
    <3>2. call(t, "write") /\ out' = [out EXCEPT ![t] = written(s)] /\ UNCHANGED len /\ UNCHANGED n
      BY <3>1 DEF write_str
    <3>3. written(s) \in Nat
      BY UartAssumption, Written
    <3>4. out' \in [Threads -> Nat] /\ \A u \in Threads : u # t => out'[u] = out[u]
      BY <2>1, <3>2, <3>3 DEF Inv, TypeOK
    <3>5. len' \in [Threads -> Lens \cup {0}]
      BY <2>1, <3>2 DEF Inv, TypeOK
    <3>6. QED
      BY <2>1, <3>2, <3>4, <3>5, CallKeeps
  <2>4. CASE \E t \in Procs : read_byte(t) \/ flush(t)
    <3>1. PICK t \in Threads : read_byte(t) \/ flush(t)
      BY <2>4 DEF Threads
    <3>2. UNCHANGED out /\ UNCHANGED len /\ UNCHANGED n /\ (call(t, "read_byte") \/ call(t, "flush"))
      BY <3>1 DEF read_byte, flush
    <3>3. out' \in [Threads -> Nat] /\ len' \in [Threads -> Lens \cup {0}]
      BY <2>1, <3>2 DEF Inv, TypeOK
    <3>4. QED
      BY <2>1, <3>2, <3>3, CallKeeps
  <2>5. CASE \E t \in Procs, l \in Lens : read(t, l)
    <3>1. PICK t \in Threads, l \in Lens : read(t, l)
      BY <2>5 DEF Threads
    <3>2. call(t, "read") /\ UNCHANGED out /\ UNCHANGED n /\ len' = [len EXCEPT ![t] = l]
      BY <3>1 DEF read
    <3>3. out' \in [Threads -> Nat] /\ len' \in [Threads -> Lens \cup {0}]
      BY <2>1, <3>2 DEF Inv, TypeOK
    <3>4. QED
      BY <2>1, <3>2, <3>3, CallKeeps
  <2>6. CASE \E t \in Procs, ms \in Timeouts : set_read_timeout(t, ms)
    <3>1. PICK t \in Threads, ms \in Timeouts : set_read_timeout(t, ms)
      BY <2>6 DEF Threads
    <3>2. timeout' \in Timeouts /\ running' = running /\ pc' = pc
      BY <2>1, <3>1 DEF Inv, TypeOK, set_read_timeout, go
    <3>3. UNCHANGED <<inner, CNTL, rx, tx, op, out, len, n, left, nap, alone>>
      BY <3>1 DEF set_read_timeout, local
    <3>4. QED
      BY <2>1, <3>2, <3>3
         DEF Inv, TypeOK, Busy, Undisturbed, StoreFindsRoom, HasByteGuarantee
  <2>7. CASE receive \/ transmit \/ tick \/ exception \/ eret
    BY <2>1, <2>7, OutsideKeeps
  <2>8. CASE UNCHANGED vars
    BY <2>1, <2>8 DEF vars, Inv, TypeOK, Busy, Undisturbed, StoreFindsRoom, HasByteGuarantee
  <2>9. QED
    BY <2>1, <2>2, <2>3, <2>4, <2>5, <2>6, <2>7, <2>8 DEF Next
<1>3. QED
  BY <1>1, <1>2, PTL DEF Spec

(* No thread that was left alone between the test of the line status and    *)
(* the write of its byte meets a full FIFO.                                 *)
THEOREM RoomForByte == Spec => []StoreFindsRoom
<1>1. Inv => StoreFindsRoom
  BY DEF Inv
<1>2. QED
  BY <1>1, Invariance, PTL

(* What has_byte and wait_for_byte guarantee holds for every thread that    *)
(* was left alone since.                                                    *)
THEOREM ByteIsThere == Spec => []HasByteGuarantee
<1>1. Inv => HasByteGuarantee
  BY DEF Inv
<1>2. QED
  BY <1>1, Invariance, PTL

(* The type invariant holds for every set of processes and every FIFO. *)
THEOREM TypeCorrect == Spec => []TypeOK
<1>1. Inv => TypeOK
  BY DEF Inv
<1>2. QED
  BY <1>1, Invariance, PTL
=============================================================================
