--------------------------- MODULE SchedulerProofs ---------------------------
(* Theorems about Scheduler, for any number of processes and any times. *)
EXTENDS Scheduler, TLAPS, SequenceTheorems

(* The boot order has at least one process, and every process is in it. *)
LEMMA BootFacts ==
  /\ N \in Nat /\ N >= 1
  /\ Boot \in Seq(Procs)
  /\ \A k \in 1..N : Boot[k] \in Procs
  /\ \A p \in Procs : \E k \in 1..N : Boot[k] = p
<1>1. N \in Nat /\ N >= 1 /\ Boot \in Seq(Procs)
  BY BootAssumption, EmptySeq DEF N
<1>2. \A k \in 1..N : Boot[k] \in Procs
  BY <1>1, ElementOfSeq DEF N
<1>3. \A p \in Procs : \E k \in 1..N : Boot[k] = p
  BY <1>1 DEF Procs, ToSet, N
<1> QED BY <1>1, <1>2, <1>3

(* Moving the first m - 1 elements of a queue to its back. *)
LEMMA Rotated ==
  ASSUME NEW S, NEW s \in Seq(S), NEW n \in Nat, Len(s) = n, NEW m \in 1..n
  PROVE  /\ SubSeq(s, m, n) \o SubSeq(s, 1, m - 1) \in Seq(S)
         /\ Len(SubSeq(s, m, n) \o SubSeq(s, 1, m - 1)) = n
         /\ \A j \in 1..n :
              (SubSeq(s, m, n) \o SubSeq(s, 1, m - 1))[j]
                = IF j <= n - m + 1 THEN s[m + j - 1] ELSE s[j - (n - m + 1)]
<1> DEFINE a == SubSeq(s, m, n)
           b == SubSeq(s, 1, m - 1)
<1>1. /\ a \in Seq(S) /\ Len(a) = n - m + 1
      /\ \A j \in 1..(n - m + 1) : a[j] = s[m + j - 1]
  BY SubSeqProperties, SMT
<1>2. /\ b \in Seq(S) /\ Len(b) = m - 1
      /\ \A j \in 1..(m - 1) : b[j] = s[j]
  BY SubSeqProperties, SMT
<1>3. /\ a \o b \in Seq(S) /\ Len(a \o b) = n
      /\ \A j \in 1..n : (a \o b)[j] = IF j <= Len(a) THEN a[j] ELSE b[j - Len(a)]
  BY <1>1, <1>2, ConcatProperties
<1> HIDE DEF a, b
<1>4. \A j \in 1..n : (a \o b)[j] = IF j <= n - m + 1 THEN s[m + j - 1]
                                                      ELSE s[j - (n - m + 1)]
  BY <1>1, <1>2, <1>3
<1> QED BY <1>3, <1>4 DEF a, b

(* A rotation of the boot order is a sequence of all processes. *)
LEMMA RotationAt ==
  ASSUME NEW k \in 1..N
  PROVE  /\ Rotation(k) \in Seq(Procs) /\ Len(Rotation(k)) = N
         /\ \A j \in 1..N : Rotation(k)[j] = IF j <= N - k + 1 THEN Boot[k + j - 1]
                                                               ELSE Boot[j - (N - k + 1)]
         /\ \A p \in Procs : \E j \in 1..N : Rotation(k)[j] = p
<1>1. /\ Rotation(k) \in Seq(Procs) /\ Len(Rotation(k)) = N
      /\ \A j \in 1..N : Rotation(k)[j] = IF j <= N - k + 1 THEN Boot[k + j - 1]
                                                            ELSE Boot[j - (N - k + 1)]
  <2>1. Boot \in Seq(Procs) /\ N \in Nat /\ Len(Boot) = N
    BY BootFacts DEF N
  <2> DEFINE r == SubSeq(Boot, k, N) \o SubSeq(Boot, 1, k - 1)
  <2>2. /\ r \in Seq(Procs) /\ Len(r) = N
        /\ \A j \in 1..N : r[j] = IF j <= N - k + 1 THEN Boot[k + j - 1]
                                                     ELSE Boot[j - (N - k + 1)]
    BY <2>1, Rotated
  <2>3. Rotation(k) = r
    BY DEF Rotation
  <2> HIDE DEF r
  <2> QED BY <2>2, <2>3
<1>2. ASSUME NEW p \in Procs PROVE \E j \in 1..N : Rotation(k)[j] = p
  <2>1. PICK m \in 1..N : Boot[m] = p
    BY BootFacts
  <2>2. CASE m >= k
    <3>1. m - k + 1 \in 1..N /\ m - k + 1 <= N - k + 1 /\ k + (m - k + 1) - 1 = m
      BY BootFacts, <2>2
    <3> QED BY <1>1, <2>1, <3>1
  <2>3. CASE m < k
    <3>1. /\ m + (N - k + 1) \in 1..N /\ ~(m + (N - k + 1) <= N - k + 1)
          /\ (m + (N - k + 1)) - (N - k + 1) = m
      BY BootFacts, <2>3
    <3> QED BY <1>1, <2>1, <3>1
  <2> QED BY <2>2, <2>3, BootFacts
<1> QED BY <1>1, <1>2

(* A rotation of a rotation is a rotation. *)
LEMMA RotateAgain ==
  ASSUME NEW k \in 1..N, NEW m \in 1..N
  PROVE  \E h \in 1..N :
           SubSeq(Rotation(k), m, N) \o SubSeq(Rotation(k), 1, m - 1) = Rotation(h)
<1> DEFINE s == Rotation(k)
           r == SubSeq(s, m, N) \o SubSeq(s, 1, m - 1)
           h == IF k + m - 1 <= N THEN k + m - 1 ELSE k + m - 1 - N
<1>1. N \in Nat /\ h \in 1..N
  BY BootFacts
<1>2. /\ s \in Seq(Procs) /\ Len(s) = N
      /\ \A j \in 1..N : s[j] = IF j <= N - k + 1 THEN Boot[k + j - 1]
                                                  ELSE Boot[j - (N - k + 1)]
  BY RotationAt
<1>3. /\ r \in Seq(Procs) /\ Len(r) = N
      /\ \A j \in 1..N : r[j] = IF j <= N - m + 1 THEN s[m + j - 1] ELSE s[j - (N - m + 1)]
  <2> HIDE DEF s
  <2> QED BY <1>1, <1>2, Rotated
<1>4. /\ Rotation(h) \in Seq(Procs) /\ Len(Rotation(h)) = N
      /\ \A j \in 1..N : Rotation(h)[j] = IF j <= N - h + 1 THEN Boot[h + j - 1]
                                                            ELSE Boot[j - (N - h + 1)]
  <2> HIDE DEF h
  <2> QED BY <1>1, RotationAt
<1>5. ASSUME NEW j \in 1..N PROVE r[j] = Rotation(h)[j]
  <2> HIDE DEF s, r
  <2>1. CASE j <= N - m + 1
    <3>1. r[j] = s[m + j - 1] /\ m + j - 1 \in 1..N
      BY <1>1, <1>3, <2>1
    <3>2. s[m + j - 1] = IF m + j - 1 <= N - k + 1 THEN Boot[k + (m + j - 1) - 1]
                                            ELSE Boot[(m + j - 1) - (N - k + 1)]
      BY <1>2, <3>1
    <3> QED BY <1>1, <1>4, <2>1, <3>1, <3>2, SMT
  <2>2. CASE ~(j <= N - m + 1)
    <3>1. r[j] = s[j - (N - m + 1)] /\ j - (N - m + 1) \in 1..N
      BY <1>1, <1>3, <2>2
    <3>2. s[j - (N - m + 1)] = IF j - (N - m + 1) <= N - k + 1
                               THEN Boot[k + (j - (N - m + 1)) - 1]
                               ELSE Boot[(j - (N - m + 1)) - (N - k + 1)]
      BY <1>2, <3>1
    <3> QED BY <1>1, <1>4, <2>2, <3>1, <3>2, SMT
  <2> QED BY <2>1, <2>2
<1>6. r = Rotation(h)
  BY <1>3, <1>4, <1>5, SeqEqual
<1> QED BY <1>1, <1>6

(* The front process moved to the back. *)
LEMMA MoveToBack ==
  ASSUME NEW k \in 1..N
  PROVE  LET s == Rotation(k)
             q == Append(Tail(s), Head(s)) IN
         /\ q \in Seq(Procs) /\ Len(q) = N
         /\ \A j \in 1..(N - 1) : q[j] = s[j + 1]
         /\ q[N] = s[1]
         /\ \E h \in 1..N : q = Rotation(h)
<1> DEFINE s == Rotation(k)
           q == Append(Tail(s), Head(s))
<1>1. N \in Nat /\ N >= 1 /\ s \in Seq(Procs) /\ Len(s) = N
  BY BootFacts, RotationAt
<1> HIDE DEF s
<1>2. s # <<>> /\ Head(s) = s[1]
  BY <1>1
<1>3. /\ Head(s) \in Procs /\ Tail(s) \in Seq(Procs) /\ Len(Tail(s)) = N - 1
      /\ \A j \in 1..(N - 1) : Tail(s)[j] = s[j + 1]
  BY <1>1, <1>2, HeadTailProperties
<1>4. /\ q \in Seq(Procs) /\ Len(q) = N
      /\ \A j \in 1..(N - 1) : q[j] = s[j + 1]
      /\ q[N] = s[1]
  BY <1>1, <1>2, <1>3, AppendProperties
<1>5. \E h \in 1..N : q = Rotation(h)
  <2> DEFINE r == SubSeq(s, 2, N) \o SubSeq(s, 1, 2 - 1)
  <2>1. CASE N = 1
    <3>1. q = s
      <4> HIDE DEF q
      <4>1. \A j \in 1..Len(q) : q[j] = s[j]
        BY <1>1, <1>4, <2>1
      <4> QED BY <1>1, <1>4, <4>1, SeqEqual
    <3> QED BY <3>1 DEF s
  <2>2. CASE N >= 2
    <3>1. 2 \in 1..N
      BY <1>1, <2>2
    <3>2. /\ r \in Seq(Procs) /\ Len(r) = N
          /\ \A j \in 1..N : r[j] = IF j <= N - 2 + 1 THEN s[2 + j - 1]
                                                      ELSE s[j - (N - 2 + 1)]
      BY <1>1, <3>1, Rotated
    <3>3. q = r
      <4> HIDE DEF q, r
      <4>1. \A j \in 1..Len(q) : q[j] = r[j]
        BY <1>1, <1>4, <2>2, <3>2
      <4> QED BY <1>1, <1>4, <3>2, <4>1, SeqEqual
    <3>4. \E h \in 1..N : r = Rotation(h)
      BY <3>1, RotateAgain DEF s
    <3> QED BY <3>3, <3>4
  <2> QED BY <1>1, <2>1, <2>2
<1> QED BY <1>4, <1>5 DEF s

(* What the invariant says of the queue outside boot. *)
LEMMA QueueFacts ==
  ASSUME IInv, mode # "boot"
  PROVE  /\ N \in Nat /\ N >= 1
         /\ processes \in Seq(Procs) /\ Len(processes) = N
         /\ \A j \in 1..N : processes[j] \in Procs
         /\ \A p \in Procs : \E j \in 1..N : processes[j] = p
         /\ Head(processes) = processes[1] /\ processes[1] \in Procs
<1>1. PICK k \in 1..N : processes = Rotation(k)
  BY DEF IInv, QueueInv
<1>2. N \in Nat /\ N >= 1
  BY BootFacts
<1>3. /\ processes \in Seq(Procs) /\ Len(processes) = N
      /\ \A p \in Procs : \E j \in 1..N : processes[j] = p
  BY <1>1, RotationAt
<1>4. \A j \in 1..N : processes[j] \in Procs
  BY <1>2, <1>3
<1> QED BY <1>2, <1>3, <1>4

(* The registers of a new process are a context. *)
LEMMA ZeroedContext == \A p \in Procs : zeroed(p) \in Context
<1>1. 0 \in 0..(MaxElapsed \div MS)
  BY TimeAssumption
<1> QED BY <1>1 DEF zeroed, Context

(* The state before the first add satisfies the invariant. *)
LEMMA InitIInv == Init => IInv
<1> SUFFICES ASSUME Init PROVE IInv
  OBVIOUS
<1>1. Boot[1] \in Procs /\ N \in Nat /\ N >= 1
  BY BootFacts
<1>2. \A p \in Procs : zeroed(p) \in Context
  BY ZeroedContext
<1>3. TypeOK
  <2>1. /\ processes \in Seq(Procs) /\ Len(processes) <= N
        /\ current_id \in {1} /\ i \in 1..(N + 1)
    BY <1>1 DEF Init
  <2>2. /\ state \in [Procs -> {"ready", "waiting"}]
        /\ start_ago \in [Procs -> 0..MaxElapsed] /\ us \in [Procs -> 0..MaxElapsed]
        /\ bypassed \in [Procs -> 0..N] /\ left \in 0..TICK
    BY <1>1, TimeAssumption DEF Init
  <2>3. trap_frame \in [Procs -> Context] /\ cpu \in Context
    BY <1>1, <1>2 DEF Init
  <2>4. regs \in [Procs -> [rest : {0, 1}, q4 : {0, 1}, q5 : {0, 1}]]
    BY DEF Init, Kept, zeroed
  <2>5. /\ mode \in {"boot", "user", "switch", "panic"} /\ cause \in {"irq", "svc"}
        /\ pending \in BOOLEAN
    BY DEF Init
  <2> QED BY <2>1, <2>2, <2>3, <2>4, <2>5 DEF TypeOK
<1>4. QueueInv
  BY DEF Init, QueueInv
<1>5. FrameInv
  BY DEF Init, FrameInv, Saved, Kept, zeroed
<1>6. BypassInv
  BY DEF Init, BypassInv
<1>7. TickArmed
  BY TimeAssumption DEF Init, TickArmed
<1> QED BY <1>3, <1>4, <1>5, <1>6, <1>7 DEF IInv

(* Division keeps the order. *)
LEMMA DivMonotone ==
  ASSUME NEW a \in Nat, NEW b \in Nat, a <= b, NEW m \in Nat \ {0}
  PROVE  a \div m \in 0..(b \div m)
<1> DEFINE x == a \div m
           y == b \div m
<1>1. x \in Nat /\ y \in Nat /\ m * x <= a /\ a < m * (x + 1) /\ m * y <= b /\ b < m * (y + 1)
  BY SMT
<1> HIDE DEF x, y
<1>2. m * x < m * (y + 1)
  BY <1>1
<1>3. ~ (x >= y + 1)
  <2> SUFFICES ASSUME x >= y + 1 PROVE FALSE
    OBVIOUS
  <2>1. m * x = m * (y + 1) + m * (x - (y + 1)) /\ m * (x - (y + 1)) >= 0
    BY <1>1, SMT
  <2> QED BY <1>1, <1>2, <2>1
<1> QED BY <1>1, <1>3 DEF x, y

(* Writes into a frame keep its process and the program's registers. *)
LEMMA FrameWrites ==
  ASSUME NEW c \in Context
  PROVE  /\ c.of \in Procs
         /\ with_id(c, 1) \in Context /\ with_id(c, 1).of = c.of
         /\ with_id(c, 1).rest = c.rest /\ with_id(c, 1).q4 = c.q4
         /\ context_save(c) \in Context /\ context_save(c).of = c.of
         /\ context_save(c).rest = c.rest /\ context_save(c).q4 = c.q4
         /\ \A ms \in 0..(MaxElapsed \div MS) :
              /\ with_result(c, ms) \in Context /\ with_result(c, ms).of = c.of
              /\ with_result(c, ms).rest = c.rest /\ with_result(c, ms).q4 = c.q4
BY DEF Context, with_id, context_save, with_result

(* Scheduler::add appends the next process of the boot order. *)
LEMMA AddKeeps == IInv /\ add => IInv'
<1> SUFFICES ASSUME IInv, add PROVE IInv'
  OBVIOUS
<1> DEFINE n == Len(processes)
           p == Boot[n + 1]
<1>1. /\ N \in Nat /\ n \in Nat /\ n + 1 \in 1..N /\ p \in Procs
      /\ processes \in Seq(Procs) /\ mode = "boot"
  <2>1. processes \in Seq(Procs) /\ mode = "boot" /\ n < N
    BY DEF IInv, TypeOK, add
  <2>2. N \in Nat /\ n \in Nat /\ n + 1 \in 1..N
    BY <2>1, BootFacts, LenProperties
  <2> QED BY <2>1, <2>2, BootFacts
<1>2. /\ processes' \in Seq(Procs) /\ Len(processes') = n + 1
      /\ \A k \in 1..n : processes'[k] = processes[k]
      /\ processes'[n + 1] = p
  BY <1>1, AppendProperties DEF add
<1>3. /\ trap_frame' \in [Procs -> Context]
      /\ \A q \in Procs : /\ trap_frame'[q].of = trap_frame[q].of
                          /\ trap_frame'[q].rest = trap_frame[q].rest
                          /\ trap_frame'[q].q4 = trap_frame[q].q4
  <2>1. trap_frame \in [Procs -> Context] /\ current_id = 1
    BY DEF IInv, TypeOK
  <2>2. trap_frame' = [trap_frame EXCEPT ![p] = with_id(trap_frame[p], 1)]
    BY <1>1, <2>1 DEF add
  <2> QED BY <1>1, <2>1, <2>2, FrameWrites
<1> HIDE DEF p
<1>4. TypeOK'
  BY <1>1, <1>2, <1>3 DEF IInv, TypeOK, add, time, ghost
<1>5. QueueInv'
  <2>1. \A k \in 1..n : processes[k] = Boot[k]
    BY <1>1 DEF IInv, QueueInv
  <2>2. \A k \in 1..(n + 1) : processes'[k] = Boot[k]
    BY <1>1, <1>2, <2>1 DEF p
  <2>3. mode' = "boot" /\ \A q \in Procs : state'[q] = "ready"
    BY <1>1 DEF add, IInv, QueueInv
  <2> QED BY <1>2, <2>2, <2>3 DEF QueueInv
<1>6. FrameInv'
  BY <1>1, <1>3 DEF IInv, FrameInv, Saved, add, ghost
<1>7. BypassInv'
  BY <1>1 DEF IInv, BypassInv, add, ghost
<1>8. TickArmed'
  BY DEF IInv, TickArmed, add, time
<1> QED BY <1>4, <1>5, <1>6, <1>7, <1>8 DEF IInv

(* The eret of start runs the process at the front of the queue. *)
LEMMA StartKeeps == IInv /\ start => IInv'
<1> SUFFICES ASSUME IInv, start PROVE IInv'
  OBVIOUS
<1>1. N \in Nat /\ N >= 1 /\ Boot[1] \in Procs /\ mode = "boot" /\ mode' = "user"
  BY BootFacts DEF start
<1>2. cpu' = trap_frame[Boot[1]] /\ cpu' \in Context /\ Saved(cpu', Boot[1])
  BY <1>1 DEF IInv, TypeOK, FrameInv, start, context_restore, Saved
<1>3. cpu'.of = Boot[1]
  BY <1>2 DEF Saved
<1>4. TypeOK'
  BY <1>1, <1>2 DEF IInv, TypeOK, start, time, ghost
<1>5. processes = Rotation(1)
  <2>1. \A k \in 1..N : processes[k] = Boot[k]
    BY DEF IInv, QueueInv, start
  <2>2. /\ Rotation(1) \in Seq(Procs) /\ Len(Rotation(1)) = N
        /\ \A j \in 1..N : Rotation(1)[j] = IF j <= N - 1 + 1 THEN Boot[1 + j - 1]
                                                              ELSE Boot[j - (N - 1 + 1)]
    BY <1>1, RotationAt
  <2>3. \A k \in 1..N : processes[k] = Rotation(1)[k]
    BY <1>1, <2>1, <2>2
  <2>4. processes \in Seq(Procs) /\ Len(processes) = N
    BY DEF IInv, TypeOK, start
  <2> QED BY <2>2, <2>3, <2>4, SeqEqual
<1>6. processes[1] = Boot[1] /\ state[Boot[1]] = "ready"
  BY <1>1 DEF IInv, QueueInv, start
<1>7. QueueInv'
  BY <1>1, <1>3, <1>5, <1>6 DEF QueueInv, start, Rotation
<1>8. FrameInv'
  BY <1>1, <1>2, <1>3 DEF IInv, FrameInv, Saved, start, ghost
<1>9. BypassInv'
  <2>1. \A q \in Procs : bypassed[q] = 0
    BY <1>1 DEF IInv, BypassInv
  <2>2. \A k \in 1..N : processes[k] \in Procs
    BY ElementOfSeq DEF IInv, TypeOK, start
  <2>3. \A k \in 1..N : bypassed[processes[k]] + k <= N + 1
    BY <1>1, <2>1, <2>2
  <2> QED BY <1>1, <2>1, <2>3 DEF BypassInv, start, ghost
<1>10. TickArmed'
  BY DEF IInv, TickArmed, start, time
<1> QED BY <1>4, <1>7, <1>8, <1>9, <1>10 DEF IInv

(* A step of a program changes its own registers only. *)
LEMMA UserKeeps == IInv /\ user_step => IInv'
<1> SUFFICES ASSUME IInv, user_step PROVE IInv'
  OBVIOUS
<1>1. mode = "user" /\ mode' = "user" /\ cpu \in Context /\ cpu.of \in Procs
  BY FrameWrites DEF IInv, TypeOK, user_step
<1>2. PICK v \in Values :
        /\ cpu' = [cpu EXCEPT !.x0 = 0, !.x7 = 7, !.rest = v, !.q4 = v, !.q5 = 1 - v]
        /\ regs' = [regs EXCEPT ![cpu.of] = Kept(cpu')]
  BY DEF user_step
<1>3. /\ cpu' \in Context /\ cpu'.of = cpu.of
      /\ Kept(cpu') \in [rest : {0, 1}, q4 : {0, 1}, q5 : {0, 1}]
      /\ Kept(cpu').rest = cpu'.rest /\ Kept(cpu').q4 = cpu'.q4
  <2>1. v \in {0, 1} /\ 1 - v \in {0, 1} /\ 0 \in 0..(MaxElapsed \div MS)
    BY ValuesAssumption, TimeAssumption
  <2> QED BY <1>1, <1>2, <2>1 DEF Context, Kept
<1>4. /\ regs' \in [Procs -> [rest : {0, 1}, q4 : {0, 1}, q5 : {0, 1}]]
      /\ regs'[cpu.of] = Kept(cpu')
      /\ \A q \in Procs : q # cpu.of => regs'[q] = regs[q]
  BY <1>1, <1>2, <1>3 DEF IInv, TypeOK
<1>5. UNCHANGED <<processes, current_id, state, start_ago, us, trap_frame, mode, i,
                  cause, time, bypassed>>
  BY DEF user_step
<1>6. TypeOK'
  BY <1>3, <1>4, <1>5 DEF IInv, TypeOK, time
<1>7. QueueInv'
  BY <1>1, <1>3, <1>5 DEF IInv, QueueInv
<1>8. FrameInv'
  BY <1>1, <1>3, <1>4, <1>5 DEF IInv, FrameInv, Saved
<1>9. BypassInv'
  BY <1>1, <1>3, <1>5 DEF IInv, BypassInv
<1>10. TickArmed'
  BY <1>5 DEF IInv, TickArmed, time
<1> QED BY <1>6, <1>7, <1>8, <1>9, <1>10 DEF IInv

(* The timer never runs past its match without making it pending. *)
LEMMA TickKeeps == IInv /\ tick => IInv'
<1> SUFFICES ASSUME IInv, tick PROVE IInv'
  OBVIOUS
<1>1. UNCHANGED <<processes, current_id, state, us, trap_frame, cpu, mode, i, cause>>
      /\ UNCHANGED <<regs, bypassed>>
  BY DEF tick, ghost
<1>2. start_ago' \in [Procs -> 0..MaxElapsed]
  BY TimeAssumption DEF IInv, TypeOK, tick, Elapsed
<1>3. left' \in 0..TICK /\ (left' = 0 => left \in {0, 1}) /\ left \in 0..TICK
  BY TimeAssumption DEF IInv, TypeOK, tick
<1>4. pending' \in BOOLEAN /\ (pending' <=> pending \/ left = 1)
  BY DEF tick
<1>5. TypeOK'
  BY <1>1, <1>2, <1>3, <1>4 DEF IInv, TypeOK
<1>6. QueueInv' /\ FrameInv' /\ BypassInv'
  BY <1>1 DEF IInv, QueueInv, FrameInv, BypassInv, Saved
<1>7. TickArmed'
  BY <1>3, <1>4 DEF IInv, TickArmed
<1> QED BY <1>5, <1>6, <1>7 DEF IInv

(* A panic, the loop of panic_fmt and stuttering change no queue or frame. *)
LEMMA PanicKeeps == IInv /\ (unknown_syscall \/ panic_fmt \/ UNCHANGED vars) => IInv'
<1>1. ASSUME IInv, unknown_syscall PROVE IInv'
  <2>1. mode = "user" /\ mode' = "panic"
    BY <1>1 DEF unknown_syscall
  <2>2. /\ UNCHANGED <<processes, current_id, state, start_ago, us, trap_frame, cpu, i, cause>>
        /\ UNCHANGED <<left, pending, regs, bypassed>>
    BY <1>1 DEF unknown_syscall, time, ghost
  <2>3. TypeOK'
    BY <1>1, <2>1, <2>2 DEF IInv, TypeOK
  <2>4. QueueInv' /\ FrameInv' /\ BypassInv' /\ TickArmed'
    BY <1>1, <2>1, <2>2 DEF IInv, QueueInv, FrameInv, BypassInv, Saved, TickArmed
  <2> QED BY <2>3, <2>4 DEF IInv
<1>2. ASSUME IInv, UNCHANGED vars PROVE IInv'
  BY <1>2 DEF IInv, TypeOK, QueueInv, FrameInv, BypassInv, Saved, TickArmed, vars
<1> QED BY <1>1, <1>2 DEF panic_fmt

(* A failed poll of switch, and the wfi after a failed round. *)
LEMMA PollKeeps == IInv /\ (poll_next \/ wfi) => IInv'
<1>1. ASSUME IInv, poll_next PROVE IInv'
  <2>1. /\ N \in Nat /\ mode = "switch" /\ i \in 1..N /\ i' = i + 1
        /\ processes[i] \in Procs /\ state[processes[i]] = "waiting"
    BY <1>1, QueueFacts DEF poll_next, is_ready, IInv, TypeOK
  <2>2. /\ UNCHANGED <<processes, current_id, state, start_ago, us, trap_frame, cpu, mode, cause>>
        /\ UNCHANGED <<left, pending, regs, bypassed>>
    BY <1>1 DEF poll_next, time, ghost
  <2>3. TypeOK'
    <3>1. i' \in 1..(N + 1)
      BY <2>1
    <3>2. TypeOK
      BY <1>1 DEF IInv
    <3> QED BY <2>2, <3>1, <3>2 DEF TypeOK
  <2>4. \A k \in 1..(i' - 1) : state[processes[k]] = "waiting"
    BY <1>1, <2>1 DEF IInv, BypassInv
  <2>5. QueueInv' /\ FrameInv' /\ BypassInv' /\ TickArmed'
    BY <1>1, <2>1, <2>2, <2>4 DEF IInv, QueueInv, FrameInv, BypassInv, Saved, TickArmed
  <2> QED BY <2>3, <2>5 DEF IInv
<1>2. ASSUME IInv, wfi PROVE IInv'
  <2>1. N \in Nat /\ mode = "switch" /\ i' = 1
    BY <1>2, BootFacts DEF wfi
  <2>2. /\ UNCHANGED <<processes, current_id, state, start_ago, us, trap_frame, cpu, mode, cause>>
        /\ UNCHANGED <<left, pending, regs, bypassed>>
    BY <1>2 DEF wfi, time, ghost
  <2>3. TypeOK'
    BY <1>2, <2>1, <2>2 DEF IInv, TypeOK
  <2>4. QueueInv' /\ FrameInv' /\ BypassInv' /\ TickArmed'
    BY <1>2, <2>1, <2>2 DEF IInv, QueueInv, FrameInv, BypassInv, Saved, TickArmed
  <2> QED BY <2>3, <2>4 DEF IInv
<1> QED BY <1>1, <1>2

(* What switch does before its loop, for either new state. *)
LEMMA SwitchKeeps ==
  ASSUME IInv, mode = "user", NEW st \in {"ready", "waiting"}, NEW by \in {"irq", "svc"},
         switch(st, by), UNCHANGED <<current_id, left, pending, regs, bypassed>>,
         start_ago' \in [Procs -> 0..MaxElapsed], us' \in [Procs -> 0..MaxElapsed]
  PROVE  IInv'
<1> DEFINE cur == processes[1]
<1>1. /\ N \in Nat /\ N >= 1 /\ processes \in Seq(Procs) /\ Len(processes) = N
      /\ Head(processes) = cur /\ cur \in Procs
      /\ \A j \in 1..N : processes[j] \in Procs
  BY QueueFacts
<1>2. cpu.of = cur /\ cpu \in Context /\ Saved(cpu, cur) /\ bypassed[cur] = 0
  BY <1>1 DEF IInv, TypeOK, QueueInv, FrameInv, BypassInv
<1>3. /\ trap_frame' = [trap_frame EXCEPT ![cur] = context_save(cpu)]
      /\ state' = [state EXCEPT ![cur] = st]
      /\ processes' = Append(Tail(processes), Head(processes))
      /\ mode' = "switch" /\ i' = 1 /\ cause' = by /\ cpu' = zeroed(cur)
  BY <1>1, <1>2 DEF switch
<1>4. PICK k \in 1..N : processes = Rotation(k)
  BY DEF IInv, QueueInv
<1>5. /\ processes' \in Seq(Procs) /\ Len(processes') = N
      /\ \A j \in 1..(N - 1) : processes'[j] = processes[j + 1]
      /\ processes'[N] = cur
      /\ \E h \in 1..N : processes' = Rotation(h)
  BY <1>3, <1>4, MoveToBack
<1>6. /\ context_save(cpu) \in Context /\ context_save(cpu).of = cur
      /\ context_save(cpu).rest = cpu.rest /\ context_save(cpu).q4 = cpu.q4
  BY <1>2, FrameWrites
<1>7. zeroed(cur) \in Context
  BY <1>1, ZeroedContext
<1>0. /\ current_id' = current_id /\ left' = left /\ pending' = pending
      /\ regs' = regs /\ bypassed' = bypassed
  OBVIOUS
<1> HIDE DEF cur
<1>8. TypeOK'
  <2>1. trap_frame' \in [Procs -> Context] /\ cpu' \in Context
    BY <1>1, <1>3, <1>6, <1>7 DEF IInv, TypeOK
  <2>2. state' \in [Procs -> {"ready", "waiting"}]
    BY <1>1, <1>3 DEF IInv, TypeOK
  <2>3. /\ mode' \in {"boot", "user", "switch", "panic"} /\ cause' \in {"irq", "svc"}
        /\ i' \in 1..(N + 1) /\ Len(processes') <= N
    BY <1>1, <1>3, <1>5
  <2> QED BY <1>0, <1>5, <2>1, <2>2, <2>3 DEF IInv, TypeOK
<1>9. QueueInv'
  BY <1>3, <1>5 DEF QueueInv
<1>10. FrameInv'
  <2>1. \A p \in Procs : p # cur => trap_frame'[p] = trap_frame[p]
    BY <1>1, <1>3 DEF IInv, TypeOK
  <2>2. trap_frame'[cur] = context_save(cpu)
    BY <1>1, <1>3 DEF IInv, TypeOK
  <2>3. \A p \in Procs : p # cur => Saved(trap_frame[p], p)
    BY <1>2 DEF IInv, FrameInv
  <2>4. \A p \in Procs : /\ trap_frame'[p].of = p
                         /\ trap_frame'[p].rest = regs'[p].rest
                         /\ trap_frame'[p].q4 = regs'[p].q4
    BY <1>0, <1>2, <1>6, <2>1, <2>2, <2>3 DEF Saved
  <2>5. mode' = "switch"
    BY <1>3
  <2> QED BY <2>4, <2>5 DEF FrameInv, Saved
<1>11. BypassInv'
  <2>1. \A p \in Procs : state'[p] = "waiting" => bypassed[p] = 0
    BY <1>1, <1>2, <1>3 DEF IInv, TypeOK, BypassInv
  <2>2. \A j \in 1..N : bypassed[processes[j]] + j <= N + 1
    BY DEF IInv, BypassInv
  <2>3. \A j \in 1..N : bypassed[processes'[j]] + j <= N
    <3> TAKE j \in 1..N
    <3>1. CASE j = N
      BY <1>1, <1>2, <1>5, <3>1
    <3>2. CASE j # N
      <4>1. j \in 1..(N - 1) /\ j + 1 \in 1..N /\ processes'[j] = processes[j + 1]
        BY <1>1, <1>5, <3>2
      <4>2. bypassed[processes[j + 1]] \in Nat
        BY <1>1, <4>1 DEF IInv, TypeOK
      <4>3. bypassed[processes[j + 1]] + (j + 1) <= N + 1
        BY <2>2, <4>1
      <4>4. bypassed[processes[j + 1]] + j <= N
        BY <1>1, <4>2, <4>3
      <4> QED BY <4>1, <4>4
    <3> QED BY <3>1, <3>2
  <2>4. mode' = "switch" /\ bypassed' = bypassed /\ i' = 1
    BY <1>0, <1>3
  <2>5. \A j \in 1..N : bypassed'[processes'[j]] + j
                           <= N + (IF mode' = "switch" THEN 0 ELSE 1)
    BY <1>1, <2>3, <2>4
  <2>6. \A j \in 1..(i' - 1) : state'[processes'[j]] = "waiting"
    BY <2>4
  <2> QED BY <2>1, <2>4, <2>5, <2>6 DEF BypassInv
<1>12. TickArmed'
  BY DEF IInv, TickArmed
<1> QED BY <1>8, <1>9, <1>10, <1>11, <1>12 DEF IInv

(* handle_irq sends the preempted process to the back, still ready. *)
LEMMA IrqKeeps == IInv /\ handle_irq => IInv'
<1> SUFFICES ASSUME IInv, handle_irq PROVE IInv'
  OBVIOUS
<1>1. /\ mode = "user" /\ switch("ready", "irq")
      /\ UNCHANGED <<current_id, left, pending, regs, bypassed>>
      /\ UNCHANGED <<start_ago, us>>
  BY DEF handle_irq, time, ghost
<1>2. start_ago' \in [Procs -> 0..MaxElapsed] /\ us' \in [Procs -> 0..MaxElapsed]
  BY <1>1 DEF IInv, TypeOK
<1> QED BY <1>1, <1>2, SwitchKeeps

(* sleep sends its caller to the back, waiting. *)
LEMMA SleepKeeps == ASSUME NEW ms \in Durations PROVE IInv /\ sleep(ms) => IInv'
<1> SUFFICES ASSUME IInv, sleep(ms) PROVE IInv'
  OBVIOUS
<1>1. /\ mode = "user" /\ switch("waiting", "svc")
      /\ UNCHANGED <<current_id, left, pending, regs, bypassed>>
      /\ start_ago' = [start_ago EXCEPT ![Head(processes)] = 0]
      /\ us' = [us EXCEPT ![Head(processes)] = ms * MS]
  BY DEF sleep, time, ghost
<1>2. ms * MS \in 0..MaxElapsed /\ 0 \in 0..MaxElapsed
  <2>1. ms \in Nat /\ MS \in Nat /\ MaxElapsed \in Nat /\ ms * MS < MaxElapsed
    BY TimeAssumption
  <2>2. ms * MS \in Nat
    BY <2>1, SMT
  <2> QED BY <2>1, <2>2
<1>3. start_ago' \in [Procs -> 0..MaxElapsed] /\ us' \in [Procs -> 0..MaxElapsed]
  <2>1. start_ago \in [Procs -> 0..MaxElapsed] /\ us \in [Procs -> 0..MaxElapsed]
    BY DEF IInv, TypeOK
  <2> QED BY <1>1, <1>2, <2>1, Zenon
<1> QED BY <1>1, <1>3, SwitchKeeps

(* The step that leaves the loop of switch. *)
LEMMA ResumeKeeps == IInv /\ resume => IInv'
<1> SUFFICES ASSUME IInv, resume PROVE IInv'
  OBVIOUS
<1> DEFINE p == processes[i]
<1>1. /\ N \in Nat /\ N >= 1 /\ processes \in Seq(Procs) /\ Len(processes) = N
      /\ mode = "switch" /\ i \in 1..N /\ p \in Procs
      /\ \A j \in 1..N : processes[j] \in Procs
  <2>1. mode = "switch" /\ i <= N
    BY DEF resume
  <2>2. i \in 1..(N + 1)
    BY DEF IInv, TypeOK
  <2>3. /\ N \in Nat /\ N >= 1 /\ processes \in Seq(Procs) /\ Len(processes) = N
        /\ \A j \in 1..N : processes[j] \in Procs
    BY <2>1, QueueFacts
  <2>4. i \in 1..N
    BY <2>1, <2>2, <2>3
  <2> QED BY <2>1, <2>3, <2>4
<1>2. /\ processes' = SubSeq(processes, i, N) \o SubSeq(processes, 1, i - 1)
      /\ state' = [state EXCEPT ![p] = "ready"]
      /\ start_ago' = [start_ago EXCEPT ![p] = 0]
      /\ us' = [us EXCEPT ![p] = 0]
      /\ trap_frame' = woken(p)
      /\ cpu' = trap_frame'[p]
      /\ mode' = "user" /\ i' = 1 /\ current_id' = current_id
      /\ cause' = cause /\ regs' = regs
  BY DEF resume, rotated, context_restore
<1>3. bypassed' = [q \in Procs |->
        IF q = p \/ state[q] = "waiting" THEN 0
        ELSE IF bypassed[q] < N THEN bypassed[q] + 1 ELSE N]
  BY DEF resume
<1>4. (left' = TICK /\ pending' = FALSE) \/ (left' = left /\ pending' = pending)
  BY DEF resume, tick_in, time
<1>5. /\ processes' \in Seq(Procs) /\ Len(processes') = N
      /\ \A j \in 1..N : processes'[j] = IF j <= N - i + 1 THEN processes[i + j - 1]
                                                          ELSE processes[j - (N - i + 1)]
  BY <1>1, <1>2, Rotated
<1>6. \E h \in 1..N : processes' = Rotation(h)
  <2>1. PICK k \in 1..N : processes = Rotation(k)
    BY <1>1 DEF IInv, QueueInv
  <2> QED BY <1>1, <1>2, <2>1, RotateAgain
<1>7. processes'[1] = p
  BY <1>1, <1>5
<1>8. /\ trap_frame' \in [Procs -> Context]
      /\ \A q \in Procs : /\ trap_frame'[q].of = trap_frame[q].of
                          /\ trap_frame'[q].rest = trap_frame[q].rest
                          /\ trap_frame'[q].q4 = trap_frame[q].q4
  <2>1. trap_frame \in [Procs -> Context] /\ start_ago[p] \in 0..MaxElapsed
    BY <1>1 DEF IInv, TypeOK
  <2>2. start_ago[p] \div MS \in 0..(MaxElapsed \div MS)
    BY <2>1, TimeAssumption, DivMonotone
  <2>3. CASE state[p] = "waiting"
    <3> DEFINE f == with_result(trap_frame[p], start_ago[p] \div MS)
    <3>1. trap_frame' = [trap_frame EXCEPT ![p] = f]
      BY <1>2, <2>3 DEF woken
    <3>2. /\ f \in Context /\ f.of = trap_frame[p].of
          /\ f.rest = trap_frame[p].rest /\ f.q4 = trap_frame[p].q4
      BY <1>1, <2>1, <2>2, FrameWrites
    <3> HIDE DEF f, p
    <3> QED BY <1>1, <2>1, <3>1, <3>2
  <2>4. CASE state[p] # "waiting"
    BY <1>2, <2>1, <2>4 DEF woken
  <2> QED BY <2>3, <2>4
<1> HIDE DEF p
<1>9. TypeOK'
  <2>1. state' \in [Procs -> {"ready", "waiting"}]
    BY <1>1, <1>2 DEF IInv, TypeOK
  <2>2. start_ago' \in [Procs -> 0..MaxElapsed] /\ us' \in [Procs -> 0..MaxElapsed]
    <3>1. start_ago \in [Procs -> 0..MaxElapsed] /\ us \in [Procs -> 0..MaxElapsed]
      BY DEF IInv, TypeOK
    <3>2. 0 \in 0..MaxElapsed
      BY TimeAssumption
    <3> QED BY <1>1, <1>2, <3>1, <3>2, Zenon
  <2>3. bypassed' \in [Procs -> 0..N]
    <3>1. \A q \in Procs : bypassed[q] \in 0..N
      BY DEF IInv, TypeOK
    <3> QED BY <1>1, <1>3, <3>1
  <2>4. left' \in 0..TICK
    BY <1>4, TimeAssumption DEF IInv, TypeOK
  <2>5. pending' \in BOOLEAN
    BY <1>4 DEF IInv, TypeOK
  <2>6. /\ i' \in 1..(N + 1) /\ Len(processes') <= N /\ cpu' \in Context
        /\ mode' \in {"boot", "user", "switch", "panic"}
    BY <1>1, <1>2, <1>5, <1>8
  <2> QED BY <1>2, <1>5, <1>8, <2>1, <2>2, <2>3, <2>4, <2>5, <2>6 DEF IInv, TypeOK
<1>10. cpu'.of = p /\ state'[p] = "ready"
  BY <1>1, <1>2, <1>8 DEF IInv, FrameInv, TypeOK
<1>11. QueueInv'
  BY <1>2, <1>6, <1>7, <1>10 DEF QueueInv
<1>12. FrameInv'
  <2>1. \A q \in Procs : /\ trap_frame'[q].of = q
                         /\ trap_frame'[q].rest = regs'[q].rest
                         /\ trap_frame'[q].q4 = regs'[q].q4
    BY <1>1, <1>2, <1>8 DEF IInv, FrameInv, Saved
  <2> QED BY <1>1, <1>2, <1>10, <2>1 DEF FrameInv, Saved
<1>13. BypassInv'
  <2>1. \A q \in Procs : bypassed[q] \in Nat
    BY DEF IInv, TypeOK
  <2>2. \A q \in Procs : state'[q] = "waiting" \/ cpu'.of = q => bypassed'[q] = 0
    BY <1>1, <1>2, <1>3, <1>10 DEF IInv, TypeOK
  <2>3. ASSUME NEW k \in 1..N PROVE bypassed'[processes'[k]] + k <= N + 1
    <3>1. CASE k <= N - i + 1
      <4> DEFINE q == processes[i + k - 1]
      <4>1. i + k - 1 \in 1..N /\ processes'[k] = q
        BY <1>1, <1>5, <3>1
      <4>2. bypassed[q] + (i + k - 1) <= N /\ q \in Procs /\ bypassed[q] \in Nat
        BY <1>1, <2>1, <4>1 DEF IInv, BypassInv
      <4> HIDE DEF q
      <4>3. bypassed'[q] \in Nat /\ bypassed'[q] <= bypassed[q] + 1
        BY <1>1, <1>3, <4>2
      <4>4. bypassed'[q] + k <= N + 1
        BY <1>1, <4>2, <4>3
      <4> QED BY <4>1, <4>4
    <3>2. CASE ~(k <= N - i + 1)
      <4> DEFINE h == k - (N - i + 1)
                 q == processes[h]
      <4>1. h \in 1..(i - 1) /\ h \in 1..N /\ processes'[k] = q
        BY <1>1, <1>5, <3>2
      <4>2. state[q] = "waiting" /\ q \in Procs
        BY <1>1, <4>1 DEF IInv, BypassInv
      <4> HIDE DEF q, h
      <4>3. bypassed'[q] = 0
        BY <1>3, <4>2
      <4> QED BY <1>1, <4>1, <4>3
    <3> QED BY <3>1, <3>2
  <2>4. \A k \in 1..N : bypassed'[processes'[k]] + k
                          <= N + (IF mode' = "switch" THEN 0 ELSE 1)
    BY <1>2, <2>3
  <2> QED BY <1>2, <2>2, <2>4 DEF BypassInv
<1>14. TickArmed'
  BY <1>4, TimeAssumption DEF IInv, TickArmed
<1> QED BY <1>9, <1>11, <1>12, <1>13, <1>14 DEF IInv

(* The invariant is inductive. *)
LEMMA SpecIInv == Spec => []IInv
<1>1. IInv /\ [Next]_vars => IInv'
  <2> SUFFICES ASSUME IInv, [Next]_vars PROVE IInv'
    OBVIOUS
  <2>1. CASE Kernel
    BY <2>1, AddKeeps, StartKeeps, IrqKeeps, ResumeKeeps, PollKeeps DEF Kernel
  <2>2. CASE \E ms \in Durations : sleep(ms)
    BY <2>2, SleepKeeps
  <2> QED BY <2>1, <2>2, UserKeeps, TickKeeps, PanicKeeps DEF Next
<1> QED BY <1>1, InitIInv, PTL DEF Spec

(* The variables of the scheduler, the frames and the clock keep their     *)
(* types, and sleep never returns more milliseconds than have passed.      *)
THEOREM TypeCorrect == Spec => []TypeOK
<1>1. IInv => TypeOK
  BY DEF IInv
<1> QED BY <1>1, SpecIInv, PTL

(* For any number of processes, add, switch and next leave the queue a      *)
(* rotation of the boot order.                                              *)
THEOREM QueueRotates == Spec => []QueueIsRotation
<1>1. IInv => QueueIsRotation
  BY DEF IInv, QueueInv, QueueIsRotation
<1> QED BY <1>1, SpecIInv, PTL

(* The process whose code runs is the one that switch will save the         *)
(* registers of.                                                            *)
THEOREM FrontIsRunning == Spec => []FrontRuns
<1>1. ASSUME IInv PROVE FrontRuns
  <2> SUFFICES ASSUME mode = "user" PROVE cpu.of = Head(processes) /\ state[cpu.of] = "ready"
    BY DEF FrontRuns
  <2>1. Head(processes) = processes[1]
    BY <1>1, QueueFacts
  <2> QED BY <1>1, <2>1 DEF IInv, QueueInv
<1> QED BY <1>1, SpecIInv, PTL

(* context_save, switch and context_restore return to every process the     *)
(* registers that its program left, q5 apart.                               *)
THEOREM RegistersReturn == Spec => []RegistersSurvive
<1>1. IInv => RegistersSurvive
  BY DEF IInv, FrameInv, Saved, RegistersSurvive
<1> QED BY <1>1, SpecIInv, PTL

(* Round robin: with N processes, switch passes over a process that could   *)
(* run at most N - 1 times.                                                 *)
THEOREM BypassIsBounded == Spec => []BoundedBypass
<1>1. ASSUME IInv PROVE BoundedBypass
  <2> SUFFICES ASSUME NEW p \in Procs PROVE bypassed[p] <= N - 1
    BY DEF BoundedBypass
  <2>1. N \in Nat /\ N >= 1 /\ bypassed[p] \in Nat
    BY <1>1, BootFacts DEF IInv, TypeOK
  <2>2. CASE bypassed[p] = 0
    BY <2>1, <2>2
  <2>3. CASE bypassed[p] # 0
    <3>1. mode # "boot" /\ (mode \in {"user", "panic"} => cpu.of # p)
      BY <1>1, <2>3 DEF IInv, BypassInv
    <3>2. PICK k \in 1..N : processes[k] = p
      BY <1>1, <3>1, QueueFacts
    <3>3. CASE mode = "switch"
      <4>1. bypassed[p] + k <= N
        BY <1>1, <2>1, <3>2, <3>3 DEF IInv, BypassInv
      <4> QED BY <2>1, <3>2, <4>1
    <3>4. CASE mode # "switch"
      <4>1. cpu.of = processes[1] /\ cpu.of # p
        BY <1>1, <3>1, <3>4 DEF IInv, TypeOK, QueueInv
      <4>2. k >= 2
        BY <2>1, <3>2, <4>1
      <4>3. bypassed[p] + k <= N + 1
        BY <1>1, <3>1, <3>2, <3>4 DEF IInv, BypassInv
      <4> QED BY <2>1, <3>2, <4>2, <4>3
    <3> QED BY <3>3, <3>4
  <2> QED BY <2>2, <2>3
<1> QED BY <1>1, SpecIInv, PTL

(* handle_irq never leaves the timer without a tick to come. *)
THEOREM TickStaysArmed == Spec => []TickArmed
<1>1. IInv => TickArmed
  BY DEF IInv
<1> QED BY <1>1, SpecIInv, PTL

(* Rounding down to milliseconds keeps a whole number of them. *)
LEMMA MultipleBelow ==
  ASSUME NEW e \in Nat, NEW m \in Nat \ {0}, NEW d \in Nat, e > d * m
  PROVE  (e \div m) * m >= d * m
<1> DEFINE x == e \div m
<1>1. x \in Nat /\ e < m * (x + 1)
  BY SMT
<1> HIDE DEF x
<1>2. ~(x < d)
  <2> SUFFICES ASSUME x < d PROVE FALSE
    OBVIOUS
  <2>1. d * m = m * (x + 1) + m * (d - (x + 1)) /\ m * (d - (x + 1)) >= 0
    BY <1>1, SMT
  <2>2. m * (x + 1) \in Nat /\ d * m \in Nat
    BY <1>1, SMT
  <2> QED BY <1>1, <2>1, <2>2
<1>3. x * m = d * m + (x - d) * m /\ (x - d) * m >= 0
  BY <1>1, <1>2, SMT
<1>4. x * m \in Nat /\ d * m \in Nat
  BY <1>1, SMT
<1> QED BY <1>3, <1>4 DEF x

(* Only sleep and the end of a sleep change the time to wait. *)
LEMMA SpecSleepInv == Spec => []SleepInv
<1>1. Init => SleepInv
  BY TimeAssumption DEF Init, SleepInv
<1>2. ASSUME IInv, SleepInv, [Next]_vars PROVE SleepInv'
  <2>1. us \in [Procs -> 0..MaxElapsed]
    BY <1>2 DEF IInv, TypeOK
  <2>2. CASE resume
    <3>1. us' = [us EXCEPT ![processes[i]] = 0]
      BY <2>2 DEF resume
    <3>2. 0 * MS = 0
      BY TimeAssumption
    <3>3. \A p \in Procs : us'[p] = us[p] \/ us'[p] = 0
      BY <2>1, <3>1
    <3> QED BY <1>2, <3>2, <3>3 DEF SleepInv
  <2>3. CASE \E ms \in Durations : sleep(ms)
    <3>1. PICK ms \in Durations : us' = [us EXCEPT ![Head(processes)] = ms * MS]
      BY <2>3 DEF sleep
    <3>2. \A p \in Procs : us'[p] = us[p] \/ us'[p] = ms * MS
      BY <2>1, <3>1
    <3> QED BY <1>2, <3>2 DEF SleepInv
  <2>4. CASE us' = us
    BY <1>2, <2>4 DEF SleepInv
  <2>5. \/ resume \/ (\E ms \in Durations : sleep(ms)) \/ us' = us
    BY <1>2 DEF Next, Kernel, add, start, handle_irq, poll_next, wfi, user_step, tick,
                unknown_syscall, panic_fmt, vars
  <2> QED BY <2>2, <2>3, <2>4, <2>5
<1> QED BY <1>1, <1>2, SpecIInv, PTL DEF Spec

(* A sleeper returns from sleep with status 0 and no fewer milliseconds     *)
(* than it asked for, and only the poll of its own closure ends its sleep.  *)
THEOREM SleepReturns == Spec => SleepResult
<1> DEFINE A == \A p \in Procs : state[p] = "waiting" /\ state'[p] # "waiting" =>
                  cpu'.of = p /\ cpu'.x7 = 0 /\ cpu'.x0 * MS >= us[p]
<1>1. ASSUME IInv, SleepInv, [Next]_vars PROVE [A]_vars
  <2> SUFFICES ASSUME NEW p \in Procs, state[p] = "waiting", state'[p] # "waiting", Next
               PROVE  cpu'.of = p /\ cpu'.x7 = 0 /\ cpu'.x0 * MS >= us[p]
    BY <1>1
  <2>1. CASE resume
    <3> DEFINE q == processes[i]
               e == start_ago[p]
    <3>1. q \in Procs /\ is_ready(q) /\ state' = [state EXCEPT ![q] = "ready"]
      BY <1>1, <2>1, QueueFacts DEF resume, IInv, TypeOK
    <3>2. q = p
      BY <1>1, <3>1 DEF IInv, TypeOK
    <3>3. /\ cpu' = trap_frame'[p]
          /\ trap_frame' = [trap_frame EXCEPT ![p] = with_result(trap_frame[p], e \div MS)]
          /\ e > us[p]
      BY <2>1, <3>1, <3>2 DEF resume, woken, is_ready, context_restore
    <3>4. /\ trap_frame \in [Procs -> Context] /\ trap_frame[p].of = p
          /\ e \in Nat /\ us[p] \in Nat
      <4>1. trap_frame \in [Procs -> Context] /\ trap_frame[p].of = p
        BY <1>1 DEF IInv, TypeOK, FrameInv
      <4>2. start_ago \in [Procs -> 0..MaxElapsed] /\ us \in [Procs -> 0..MaxElapsed]
        BY <1>1 DEF IInv, TypeOK
      <4>3. start_ago[p] \in 0..MaxElapsed /\ us[p] \in 0..MaxElapsed
        BY <4>2
      <4> QED BY <4>1, <4>3, TimeAssumption
    <3>5. cpu' = with_result(trap_frame[p], e \div MS)
      BY <3>3, <3>4
    <3>6. cpu'.of = p /\ cpu'.x7 = 0 /\ cpu'.x0 = e \div MS
      BY <3>4, <3>5 DEF with_result, Context
    <3>7. PICK d \in Nat : us[p] = d * MS
      BY <1>1, TimeAssumption DEF SleepInv
    <3> HIDE DEF e, q
    <3>8. MS \in Nat \ {0} /\ e > d * MS
      BY <3>3, <3>7, TimeAssumption
    <3>9. (e \div MS) * MS >= d * MS
      BY <3>4, <3>8, MultipleBelow
    <3> QED BY <3>6, <3>7, <3>9
  <2>2. CASE ~resume
    <3>1. CASE \E ms \in Durations : sleep(ms)
      <4>1. mode = "user" /\ state' = [state EXCEPT ![Head(processes)] = "waiting"]
        BY <3>1 DEF sleep, switch
      <4> QED BY <1>1, <4>1 DEF IInv, TypeOK
    <3>2. CASE handle_irq
      <4>1. /\ mode = "user" /\ Head(processes) \in Procs
            /\ state' = [state EXCEPT ![Head(processes)] = "ready"]
        BY <1>1, <3>2, QueueFacts DEF handle_irq, switch
      <4>2. state[Head(processes)] = "ready"
        BY <1>1, <4>1, QueueFacts DEF IInv, QueueInv
      <4> QED BY <1>1, <4>1, <4>2 DEF IInv, TypeOK
    <3>3. CASE add \/ start \/ poll_next \/ wfi \/ user_step \/ tick \/ unknown_syscall \/ panic_fmt
      BY <3>3 DEF add, start, poll_next, wfi, user_step, tick, unknown_syscall, panic_fmt, vars
    <3> QED BY <2>2, <3>1, <3>2, <3>3 DEF Next, Kernel
  <2> QED BY <2>1, <2>2
<1> QED BY <1>1, SpecIInv, SpecSleepInv, PTL DEF SleepResult, Spec

=============================================================================
