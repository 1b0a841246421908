------------------------- MODULE BinAllocatorProofs -------------------------
(***************************************************************************)
(* Proofs about module BinAllocator, for every memory region, every set of *)
(* layouts and whatever callers write into their blocks.                   *)
(***************************************************************************)
EXTENDS BinAllocator, TLAPS, WellFoundedInduction

-----------------------------------------------------------------------------
(* Arithmetic. *)

(* No sum of two lengths saturates. *)
LEMMA WordFacts ==
  UMax \in Nat /\ MaxPower \in Nat /\ MaxPower >= 16 /\ UMax >= MaxPower + MaxPower - 1
BY UMaxAssumption, WordAssumption, SMT DEF MaxPower

(* A set of naturals that is not empty has a least element. *)
LEMMA LeastNatural ==
  ASSUME NEW T, T \subseteq Nat, T # {}
  PROVE  \E x \in T : \A y \in T : x <= y
<1> DEFINE R == OpToRel(<, Nat)
<1>1. IsWellFoundedOn(R, Nat)
  BY NatLessThanWellFounded
<1>2. \A y, x \in Nat : y < x => <<y, x>> \in R
  BY DEF OpToRel
<1> HIDE DEF R
<1>3. PICK x \in T : \A y \in T : ~ (<<y, x>> \in R)
  BY <1>1, WFMin
<1>4. \A y \in T : ~ (y < x)
  BY <1>2, <1>3, Zenon
<1>5. \A y \in T : x <= y
  BY <1>4
<1> QED BY <1>5

(* The powers of two are naturals; from 16 on they are whole granules, and *)
(* half of one is one.                                                     *)
LEMMA PowerFacts ==
  \A p \in PowersOfTwo :
    /\ p \in Nat /\ 1 <= p /\ p <= MaxPower
    /\ p >= BLOCK_LEN => p % BLOCK_LEN = 0
    /\ p > 1 => p \div 2 \in PowersOfTwo /\ 2 * (p \div 2) = p
BY SMTT(60) DEF PowersOfTwo, MaxPower, BLOCK_LEN

(* The powers of two below the granule. *)
LEMMA SmallPowers ==
  \A p \in PowersOfTwo : ~ (p >= BLOCK_LEN) => p \in {1, 2, 4, 8}
BY SMTT(60) DEF PowersOfTwo, MaxPower, BLOCK_LEN

(* There is a least power of two above n. *)
LEMMA NextPowerExists ==
  ASSUME NEW n \in 1 .. MaxPower
  PROVE  \E p \in PowersOfTwo :
           p >= n /\ \A q \in PowersOfTwo : q >= n => p <= q
<1> DEFINE T == { p \in PowersOfTwo : p >= n }
<1>1. T \subseteq Nat BY PowerFacts
<1>2. MaxPower \in PowersOfTwo BY DEF PowersOfTwo
<1>3. MaxPower \in T BY <1>2
<1>4. PICK p \in T : \A q \in T : p <= q
  BY <1>1, <1>3, LeastNatural
<1> QED BY <1>4

(* checked_next_power_of_two returns it; its half is below n. *)
LEMMA NextPower ==
  ASSUME NEW n \in 1 .. MaxPower
  PROVE  LET p == next_power_of_two(n) IN
         /\ p \in PowersOfTwo /\ p >= n
         /\ p > 1 => p \div 2 < n
<1> DEFINE p == next_power_of_two(n)
<1>1. p \in PowersOfTwo /\ p >= n /\ \A q \in PowersOfTwo : q >= n => p <= q
  BY NextPowerExists DEF next_power_of_two
<1> HIDE DEF p
<1>2. p > 1 => p \div 2 < n
  BY <1>1, PowerFacts
<1> QED BY <1>1, <1>2 DEF p

(* inner_layout: a size class that holds n bytes, in whole granules. *)
LEMMA InnerSize ==
  ASSUME NEW n \in 1 .. MaxPower
  PROVE  /\ inner_size(n) \in PowersOfTwo /\ inner_size(n) \in Nat
         /\ inner_size(n) >= n /\ inner_size(n) >= BLOCK_LEN
         /\ inner_size(n) % BLOCK_LEN = 0
<1> DEFINE m == umax(n, BLOCK_LEN)
<1>1. m \in 1 .. MaxPower /\ m >= n /\ m >= BLOCK_LEN
  BY WordFacts DEF umax, BLOCK_LEN
<1>2. CASE is_power_of_two(m)
  BY <1>1, <1>2, PowerFacts DEF inner_size, is_power_of_two
<1>3. CASE ~ is_power_of_two(m)
  <2>1. inner_size(n) = next_power_of_two(m)
    BY <1>3 DEF inner_size
  <2>2. next_power_of_two(m) \in PowersOfTwo /\ next_power_of_two(m) >= m
    BY <1>1, NextPower
  <2>3. next_power_of_two(m) \in Nat /\ next_power_of_two(m) >= BLOCK_LEN
    BY <1>1, <2>2, PowerFacts DEF BLOCK_LEN
  <2>4. next_power_of_two(m) >= n
    BY <1>1, <2>2, <2>3
  <2> QED BY <2>1, <2>2, <2>3, <2>4, PowerFacts
<1> QED BY <1>2, <1>3

(* next_power_of_two_below, on the length n of a block: less than n, and   *)
(* whole granules unless the block is a single one.                        *)
LEMMA HalfBelow ==
  ASSUME NEW n \in BLOCK_LEN .. MaxPower, n % BLOCK_LEN = 0
  PROVE  LET h == next_power_of_two_below(n) IN
         /\ h \in PowersOfTwo /\ h \in Nat /\ h < n /\ 1 <= h
         /\ n = BLOCK_LEN => h = 8
         /\ n # BLOCK_LEN => h >= BLOCK_LEN
<1> DEFINE p == next_power_of_two(n)
<1>0. n \in 1 .. MaxPower /\ n >= 16
  BY DEF BLOCK_LEN
<1>1. p \in PowersOfTwo /\ p >= n /\ (p > 1 => p \div 2 < n)
  BY <1>0, NextPower
<1> HIDE DEF p
<1>2. p \in Nat /\ p > 1 /\ p \div 2 \in PowersOfTwo /\ 2 * (p \div 2) = p
  BY <1>0, <1>1, PowerFacts
<1>3. p \div 2 \in Nat /\ 1 <= p \div 2
  BY <1>2, PowerFacts
<1>4. n # BLOCK_LEN => n >= 32
  BY <1>0 DEF BLOCK_LEN
<1>5. n # BLOCK_LEN => p \div 2 >= BLOCK_LEN
  BY <1>0, <1>1, <1>2, <1>3, <1>4 DEF BLOCK_LEN
<1>6. ASSUME n = BLOCK_LEN PROVE p \div 2 = 8
  <2>1. 16 \in PowersOfTwo
    BY DEF PowersOfTwo
  <2>2. p <= 16
    BY <1>6, <2>1, NextPowerExists, <1>0 DEF p, next_power_of_two, BLOCK_LEN
  <2> QED BY <1>0, <1>1, <1>2, <2>2
<1> QED BY <1>1, <1>2, <1>3, <1>5, <1>6 DEF next_power_of_two_below, p

(* align_down to a power of two from 16 on gives whole granules. *)
LEMMA AlignDownGranule ==
  ASSUME NEW y \in Nat, NEW h \in PowersOfTwo, h >= BLOCK_LEN
  PROVE  align_down(y, h) % BLOCK_LEN = 0
BY SMTT(60) DEF align_down, PowersOfTwo, MaxPower, BLOCK_LEN

(* align_up returns the next multiple: not below a and less than one step  *)
(* above it.                                                               *)
LEMMA AlignUp ==
  ASSUME NEW a \in 0 .. (MaxPower - 1), NEW h \in PowersOfTwo
  PROVE  LET r == align_up(a, h) IN
         /\ r = (a + h - 1) - ((a + h - 1) % h)
         /\ r \in Nat /\ a <= r /\ r < a + h
         /\ h >= BLOCK_LEN => r % BLOCK_LEN = 0
<1> DEFINE x == a + h - 1
           r == align_up(a, h)
<1>1. h \in Nat /\ 1 <= h /\ h <= MaxPower
  BY PowerFacts
<1>2. x \in Nat
  BY <1>1
<1>3. saturating_sub(saturating_add(a, h), 1) = x
  <2>1. a + h \in Nat /\ ~ (a + h > UMax) /\ ~ (a + h < 1)
    BY <1>1, WordFacts
  <2>2. saturating_add(a, h) = a + h
    BY <2>1 DEF saturating_add
  <2> QED BY <2>1, <2>2, <1>1, WordFacts DEF saturating_sub
<1>4. r = x - (x % h)
  BY <1>3 DEF align_up, align_down
<1>5. x % h \in 0 .. (h - 1)
  BY <1>1, <1>2
<1>6. r \in Nat /\ a <= r /\ r < a + h
  BY <1>1, <1>2, <1>4, <1>5
<1>7. h >= BLOCK_LEN => (x - (x % h)) % BLOCK_LEN = 0
  BY <1>2, AlignDownGranule DEF align_down
<1> QED BY <1>4, <1>6, <1>7

(* The region is a non-empty run of granules away from address zero. *)
LEMMA RegionFacts ==
  /\ Start \in Nat /\ Start >= BLOCK_LEN /\ Start % BLOCK_LEN = 0
  /\ End \in Nat /\ End <= MaxPower /\ End % BLOCK_LEN = 0
  /\ Start < End /\ Start \in Addr /\ 0 \notin Addr
  /\ \A a \in Addr : a \in Nat /\ a >= BLOCK_LEN /\ a % BLOCK_LEN = 0
                     /\ Start <= a /\ a < End /\ a < MaxPower
<1>1. MemStart \in Nat /\ MemStart >= 1 /\ MemStart <= MaxPower /\ MemEnd \in Nat
      /\ MemEnd <= MaxPower /\ Start < End
  BY MemoryAssumption
<1>2. saturating_sub(saturating_add(MemStart, 16), 1) = MemStart + 15
  <2>1. MemStart + 16 \in Nat /\ ~ (MemStart + 16 > UMax)
    BY <1>1, UMaxAssumption, WordAssumption, SMT DEF MaxPower
  <2>2. saturating_add(MemStart, 16) = MemStart + 16
    BY <2>1 DEF saturating_add
  <2> QED BY <1>1, <2>2 DEF saturating_sub
<1>3. Start = (MemStart + 15) - ((MemStart + 15) % 16)
  BY <1>2 DEF Start, align_up, align_down, BLOCK_LEN
<1>4. Start \in Nat /\ Start >= 16 /\ Start % 16 = 0
  BY <1>1, <1>3
<1>5. End = MemEnd - (MemEnd % 16)
  BY DEF End, align_down, BLOCK_LEN
<1>6. End \in Nat /\ End <= MaxPower /\ End % 16 = 0
  BY <1>1, <1>5, WordFacts
<1> QED BY <1>1, <1>4, <1>6, WordFacts DEF Addr, BLOCK_LEN

(* divide_maximally cuts a block on a granule boundary inside it. *)
LEMMA SplitPoint ==
  ASSUME NEW a \in Addr, size[a] \in Nat, InRegion(a, size[a])
  PROVE  LET mid == split_point(a) IN
         /\ mid \in Nat /\ mid % BLOCK_LEN = 0
         /\ a <= mid /\ mid < a + size[a]
<1> DEFINE n == size[a]
           h == next_power_of_two_below(n)
           r == align_up(a, h)
<1>1. a \in Nat /\ a % 16 = 0 /\ a \in 0 .. (MaxPower - 1) /\ a >= 16
  BY RegionFacts, WordFacts DEF BLOCK_LEN
<1>2. n \in Nat /\ n >= 16 /\ n % 16 = 0 /\ a + n <= End
  BY DEF InRegion, BLOCK_LEN
<1>3. n \in BLOCK_LEN .. MaxPower /\ n % BLOCK_LEN = 0
  BY <1>1, <1>2, RegionFacts, WordFacts DEF BLOCK_LEN
<1>4. /\ h \in PowersOfTwo /\ h \in Nat /\ h < n /\ 1 <= h
      /\ (n = 16 => h = 8) /\ (n # 16 => h >= 16)
  BY <1>3, HalfBelow DEF BLOCK_LEN
<1>5. /\ r = (a + h - 1) - ((a + h - 1) % h)
      /\ r \in Nat /\ a <= r /\ r < a + h
      /\ h >= 16 => r % 16 = 0
  BY <1>1, <1>4, AlignUp DEF BLOCK_LEN
<1>6. h >= 16 => h % 16 = 0
  BY <1>4, PowerFacts DEF BLOCK_LEN
<1> HIDE DEF n, h, r
<1>7. split_point(a) = IF a # r THEN r ELSE IF ~ is_power_of_two(n) THEN a + h ELSE a
  BY DEF split_point, n, h, r
<1>8. CASE n = 16
  <2>1. r = a
    BY <1>1, <1>4, <1>5, <1>8
  <2>2. is_power_of_two(n)
    BY <1>8 DEF is_power_of_two, PowersOfTwo
  <2>3. split_point(a) = a
    BY <1>7, <2>1, <2>2
  <2> QED BY <1>1, <1>2, <2>3 DEF n, BLOCK_LEN
<1>9. CASE n # 16
  <2>1. split_point(a) \in {a, a + h, r}
    BY <1>7
  <2> QED BY <1>1, <1>2, <1>4, <1>5, <1>6, <1>9, <2>1 DEF n, BLOCK_LEN
<1> QED BY <1>8, <1>9

(* No multiple of 2s is s. *)
LEMMA TwiceTimes ==
  ASSUME NEW m \in Nat, NEW j \in Int, NEW s \in Nat, m = 2 * s, s > 0, m * j = s
  PROVE FALSE
<1>1. CASE j >= 1
  <2>1. m * j >= m
  BY <1>1, SMT
  <2> QED BY <2>1
<1>2. CASE j <= 0
  <2>1. m * j <= 0
  BY <1>2, SMT
  <2> QED BY <2>1
<1> QED BY <1>1, <1>2

(* p + s is not a multiple of 2s when p is: why the absorbed half of a     *)
(* block fails the test of defragment.                                     *)
LEMMA OddMultiple ==
  ASSUME NEW s \in Nat, s > 0, NEW p \in Nat, p % (2 * s) = 0
  PROVE  (p + s) % (2 * s) # 0
<1> SUFFICES ASSUME (p + s) % (2 * s) = 0 PROVE FALSE
  OBVIOUS
<1> DEFINE m == 2 * s
           q == p \div m
           k == (p + s) \div m
<1>1. m \in Nat /\ m > 0
  OBVIOUS
<1>2. q \in Int /\ k \in Int
  BY <1>1
<1>3. p = m * q + (p % m)
  BY <1>1
<1>4. p + s = m * k + ((p + s) % m)
  BY <1>1
<1>5. p % m = 0 /\ (p + s) % m = 0
  OBVIOUS
<1>6. m * q = p /\ m * k = p + s
  BY <1>1, <1>2, <1>3, <1>4, <1>5
<1> HIDE DEF m, q, k
<1>7. m * (k - q) = m * k - m * q
  BY <1>1, <1>2
<1>8. m * (k - q) = s
  BY <1>6, <1>7
<1> QED BY <1>1, <1>2, <1>8, TwiceTimes DEF m

-----------------------------------------------------------------------------
(* The list. *)

(* Node::pop and LinkedList::pop: unlinking the successor of p keeps the   *)
(* list sorted.                                                            *)
LEMMA SortedRemove ==
  ASSUME NEW F, F \subseteq Addr, NEW lk \in [Cells -> Nat], Sorted(lk, F),
         NEW p \in {HEAD} \union F, NEW c \in F, lk[p] = c
  PROVE  Sorted([lk EXCEPT ![p] = lk[c]], F \ {c})
<1> DEFINE lk2 == [lk EXCEPT ![p] = lk[c]]
<1>1. /\ \A a \in F : a \in Nat /\ a > 0 /\ a \in Cells
      /\ p \in Cells /\ p \in Nat /\ p < c /\ c # 0
  BY RegionFacts DEF Sorted, HEAD, Null, Cells, BLOCK_LEN
<1>2. /\ lk2[p] = lk[c]
      /\ \A d \in {HEAD} \union F : d # p => lk2[d] = lk[d]
  BY <1>1 DEF Cells
<1> HIDE DEF lk2
<1>3. ASSUME NEW d \in {HEAD} \union (F \ {c})
      PROVE  IF lk2[d] = Null
             THEN \A e \in F \ {c} : e <= d
             ELSE /\ lk2[d] \in F \ {c} /\ d < lk2[d]
                  /\ \A e \in F \ {c} : e <= d \/ lk2[d] <= e
  <2>0. d \in Nat
    BY <1>1 DEF HEAD
  <2>1. CASE d = p
    BY <1>1, <1>2, <2>0, <2>1 DEF Sorted, HEAD, Null
  <2>2. CASE d # p
    BY <1>1, <1>2, <2>0, <2>2 DEF Sorted, HEAD, Null
  <2> QED BY <2>1, <2>2
<1> QED BY <1>3 DEF Sorted, lk2

(* LinkedList::push on the cell p, for an address between p and what p     *)
(* links to, keeps the list sorted.                                        *)
LEMMA SortedInsert ==
  ASSUME NEW F, F \subseteq Addr, NEW lk \in [Cells -> Nat], Sorted(lk, F),
         NEW p \in {HEAD} \union F, NEW x \in Addr, p < x,
         lk[p] = Null \/ x < lk[p]
  PROVE  Sorted([lk EXCEPT ![x] = lk[p], ![p] = x], F \union {x})
<1> DEFINE lk2 == [lk EXCEPT ![x] = lk[p], ![p] = x]
<1>1. /\ \A a \in F : a \in Nat /\ a > 0 /\ a \in Cells
      /\ p \in Cells /\ p \in Nat /\ x \in Nat /\ x > 0 /\ x \in Cells /\ p # x
  BY RegionFacts DEF HEAD, Cells, BLOCK_LEN
<1>2. /\ lk2[p] = x /\ lk2[x] = lk[p]
      /\ \A d \in {HEAD} \union F : d # p /\ d # x => lk2[d] = lk[d]
  BY <1>1 DEF Cells
<1> HIDE DEF lk2
<1>3. ASSUME NEW d \in {HEAD} \union (F \union {x})
      PROVE  IF lk2[d] = Null
             THEN \A e \in F \union {x} : e <= d
             ELSE /\ lk2[d] \in F \union {x} /\ d < lk2[d]
                  /\ \A e \in F \union {x} : e <= d \/ lk2[d] <= e
  <2>0. d \in Nat
    BY <1>1 DEF HEAD
  <2>1. CASE d = p
    BY <1>1, <1>2, <2>0, <2>1 DEF Sorted, HEAD, Null
  <2>2. CASE d = x
    BY <1>1, <1>2, <2>0, <2>2 DEF Sorted, HEAD, Null
  <2>3. CASE d # p /\ d # x
    <3>1. d \in {HEAD} \union F /\ lk2[d] = lk[d]
      BY <1>2, <2>3
    <3>2. CASE d < p
      <4>1. lk[d] # Null /\ lk[d] <= p /\ lk[d] \in F /\ d < lk[d]
        BY <1>1, <2>0, <3>1, <3>2 DEF Sorted, HEAD
      <4>2. \A e \in F : e <= d \/ lk[d] <= e
        BY <3>1, <4>1 DEF Sorted
      <4>3. lk[d] <= x
        <5>1. lk[d] \in Nat
          BY <1>1, <4>1
        <5> QED BY <1>1, <4>1, <5>1
      <4> QED BY <3>1, <4>1, <4>2, <4>3
    <3>3. CASE p < d
      <4>1. lk[p] # Null /\ lk[p] <= d /\ lk[p] \in F
        BY <1>1, <2>0, <3>1, <3>3 DEF Sorted, HEAD
      <4>2. x <= d
        BY <1>1, <2>0, <4>1
      <4> QED BY <1>1, <2>0, <3>1, <4>2 DEF Sorted
    <3> QED BY <1>1, <2>0, <2>3, <3>2, <3>3
  <2> QED BY <2>1, <2>2, <2>3
<1> QED BY <1>3 DEF Sorted, lk2

-----------------------------------------------------------------------------
(* Steps that leave the memory and its owners alone. *)

(* What such a step keeps of the invariant. *)
LEMMA Frame ==
  ASSUME IInv, UNCHANGED <<link, size, free, live>>,
         InFlight <=> InFlight', InFlight => UNCHANGED <<ptr, layout>>,
         pc' = "insert" => pc = "insert"
  PROVE  FreeListSorted' /\ NoOverlap' /\ NoLeak' /\ LiveBlocksSuit'
<1>1. FreeListSorted'
  BY DEF IInv, FreeListSorted, Sorted
<1>2. NoOverlap'
  BY DEF IInv, NoOverlap
<1>3. NoLeak'
  BY DEF IInv, NoLeak
<1>4. LiveBlocksSuit'
  BY DEF IInv, LiveBlocksSuit, InFlight, inner_layout
<1> QED BY <1>1, <1>2, <1>3, <1>4

(* What a cell of the list links to is null or a free block above it. *)
LEMMA Link ==
  ASSUME IInv, NEW c \in {HEAD} \union free
  PROVE  /\ c \in Cells /\ c \in Nat
         /\ link[c] \in {Null} \union free /\ link[c] \in Cells
         /\ link[c] # Null => c < link[c]
<1>1. free \subseteq Addr /\ HEAD \notin Addr
  BY RegionFacts DEF IInv, TypeOK, HEAD
<1>2. link[c] \in {Null} \union free /\ (link[c] # Null => c < link[c])
  BY DEF IInv, FreeListSorted, Sorted
<1>3. \A d \in {HEAD} \union free : d \in Cells /\ d \in Nat
  BY <1>1, RegionFacts DEF Cells, HEAD
<1> QED BY <1>2, <1>3 DEF HEAD, Null

(* The entry of alloc. *)
LEMMA AllocKeeps ==
  ASSUME IInv, NEW l \in Layouts, alloc(l)
  PROVE  IInv'
<1>1. TypeOK'
  BY Link, LayoutsAssumption DEF alloc, IInv, TypeOK, PCs, Cells
<1>2. FreeListSorted' /\ NoOverlap' /\ NoLeak' /\ LiveBlocksSuit'
  BY Frame DEF alloc, InFlight
<1>3. LoopInv' /\ PanicOnlyAtTop'
  BY DEF alloc, LoopInv, PanicOnlyAtTop, InFlight
<1> QED BY <1>1, <1>2, <1>3 DEF IInv

(* A loop that moves on to the next block, or ends without a result. *)
LEMMA MoveKeeps ==
  ASSUME IInv,
         \/ exact_step \/ exact_fail \/ contains_step \/ exhausted
         \/ divide_step \/ divide_done \/ defrag_step \/ defrag_done
  PROVE  IInv'
<1> USE DEF exact_step, exact_fail, contains_step, exhausted, divide_step,
            divide_done, defrag_step, defrag_done, advance, return
<1>0. cur # Null => cur \in free
  BY Link DEF IInv, LoopInv
<1>1. TypeOK'
  <2>1. link[HEAD] \in Cells /\ (cur # Null => link[cur] \in Cells)
    BY <1>0, Link
  <2>2. NoLayout \in [size : 1 .. MaxPower, align : PowersOfTwo]
        /\ Null \in Cells /\ HEAD \in Cells
    BY WordFacts DEF NoLayout, PowersOfTwo, Cells, Null, HEAD
  <2> QED BY <2>1, <2>2 DEF IInv, TypeOK, PCs
<1>2. FreeListSorted' /\ NoOverlap' /\ NoLeak' /\ LiveBlocksSuit'
  BY Frame DEF InFlight
<1>3. LoopInv' /\ PanicOnlyAtTop'
  BY <1>0, Link DEF IInv, LoopInv, PanicOnlyAtTop, InFlight, aligned_on
<1> QED BY <1>1, <1>2, <1>3 DEF IInv

(* The search of dealloc_inner moves on, or finds no block above. *)
LEMMA SearchKeeps ==
  ASSUME IInv, insert_step \/ insert_panic
  PROVE  IInv'
<1> USE DEF insert_step, insert_panic, advance, above
<1>1. /\ prev \in {HEAD} \union free /\ link[prev] = cur /\ ptr \in Addr
      /\ prev < ptr /\ (cur # Null => cur \in free)
  BY Link DEF IInv, LoopInv, InFlight
<1>2. TypeOK'
  <2>1. cur # Null => link[cur] \in Cells
    BY <1>1, Link
  <2> QED BY <2>1 DEF IInv, TypeOK, PCs
<1>3. FreeListSorted' /\ NoOverlap' /\ NoLeak' /\ LiveBlocksSuit'
  BY Frame DEF InFlight
<1>4. ASSUME insert_step PROVE LoopInv' /\ PanicOnlyAtTop'
  <2>1. cur \in Nat /\ ptr \in Nat /\ cur # ptr
    <3>1. cur \in free /\ cur \in Nat /\ ptr \in Nat
      BY <1>1, <1>4, Link, RegionFacts
    <3>2. /\ Disjoint(ptr, inner_size(layout.size), cur, size[cur])
          /\ InRegion(ptr, inner_size(layout.size)) /\ InRegion(cur, size[cur])
      BY <1>4, <3>1 DEF IInv, NoOverlap, InFlight
    <3>3. inner_size(layout.size) \in Nat /\ size[cur] \in Nat
      BY <3>1, InnerSize DEF IInv, TypeOK, Cells
    <3> QED BY <3>1, <3>2, <3>3 DEF Disjoint, InRegion, BLOCK_LEN
  <2>2. cur < ptr
    BY <1>4, <2>1
  <2> QED BY <1>1, <1>4, <2>2 DEF LoopInv, PanicOnlyAtTop, InFlight
<1>5. ASSUME insert_panic PROVE LoopInv' /\ PanicOnlyAtTop'
  <2>1. \A a \in free : a <= prev
    BY <1>1, <1>5 DEF IInv, FreeListSorted, Sorted
  <2>2. prev \in Nat /\ ptr \in Nat /\ \A a \in free : a \in Nat
    BY <1>1, Link, RegionFacts
  <2>3. \A a \in free : a < ptr
    BY <1>1, <2>1, <2>2
  <2> QED BY <1>1, <1>5, <2>3 DEF LoopInv, PanicOnlyAtTop, InFlight
<1> QED BY <1>2, <1>3, <1>4, <1>5 DEF IInv

(* The entry of dealloc: the caller's block becomes the one in flight. *)
LEMMA DeallocKeeps ==
  ASSUME IInv, NEW b \in live, dealloc(b)
  PROVE  IInv'
<1> USE DEF dealloc
<1>1. /\ b.addr \in Addr /\ b.len \in Nat
      /\ b.size \in 1 .. MaxPower /\ b.align \in PowersOfTwo
      /\ b.len = inner_size(b.size) /\ b.addr % umax(b.align, BLOCK_LEN) = 0
  BY DEF IInv, TypeOK, Blocks, LiveBlocksSuit
<1>2. pc' = "insert" /\ ptr' = b.addr /\ layout' = [size |-> b.size, align |-> b.align]
  <2>1. \A a \in Addr : ~ (a < Start \/ a >= End)
    BY RegionFacts
  <2> QED BY <1>1, <2>1
<1>3. TypeOK'
  BY <1>1, <1>2, Link DEF IInv, TypeOK, PCs, Cells
<1>4. FreeListSorted'
  BY DEF IInv, FreeListSorted, Sorted
<1>5. NoOverlap'
  BY <1>1, <1>2 DEF IInv, NoOverlap, InFlight, Disjoint
<1>6. NoLeak'
  BY <1>1, <1>2 DEF IInv, NoLeak, InFlight
<1>7. LiveBlocksSuit'
  BY <1>1, <1>2 DEF IInv, LiveBlocksSuit, inner_layout
<1>8. LoopInv' /\ PanicOnlyAtTop'
  <2>1. \A a \in Addr : HEAD < a
    BY RegionFacts DEF HEAD, BLOCK_LEN
  <2> QED BY <1>1, <1>2, <2>1 DEF LoopInv, PanicOnlyAtTop, InFlight
<1> QED BY <1>3, <1>4, <1>5, <1>6, <1>7, <1>8 DEF IInv

-----------------------------------------------------------------------------
(* Steps that change the memory or its owners. *)

(* The extent of a free block. *)
LEMMA FreeFacts ==
  ASSUME IInv, NEW a \in free
  PROVE  /\ a \in Addr /\ a \in Cells /\ a \in Nat /\ a >= 16 /\ a % 16 = 0
         /\ size[a] \in Nat /\ size[a] >= 16 /\ size[a] % 16 = 0
         /\ a + size[a] <= End /\ End \in Nat
<1>1. a \in Addr /\ a \in Cells
  BY DEF IInv, TypeOK, Cells
<1> QED BY <1>1, RegionFacts DEF IInv, TypeOK, NoOverlap, InRegion, BLOCK_LEN

(* The extent of a live block. *)
LEMMA LiveFacts ==
  ASSUME IInv, NEW b \in live
  PROVE  /\ b.addr \in Addr /\ b.addr \in Nat /\ b.addr >= 16 /\ b.addr % 16 = 0
         /\ b.len \in Nat /\ b.len >= 16 /\ b.len % 16 = 0
         /\ b.addr + b.len <= End
<1>1. b.addr \in Addr /\ b.len \in Nat
  BY DEF IInv, TypeOK, Blocks
<1> QED BY <1>1, RegionFacts DEF IInv, NoOverlap, InRegion, BLOCK_LEN

(* A caller writes its own block: no header of a free block is in it. *)
LEMMA ScribbleKeeps ==
  ASSUME IInv, NEW b \in live, NEW w \in Words, scribble(b, w)
  PROVE  IInv'
<1> DEFINE mine == { a \in Addr : b.addr <= a /\ a < b.addr + b.len }
<1>1. /\ pc = "idle" /\ UNCHANGED <<pc, prev, cur, layout, ptr, free, live>>
      /\ link' = [c \in Cells |-> IF c \in mine THEN w ELSE link[c]]
      /\ size' = [c \in Cells |-> IF c \in mine THEN w ELSE size[c]]
  BY DEF scribble
<1>2. \A a \in {HEAD} \union free : a \in Cells /\ a \notin mine
  <2>1. HEAD \in Cells /\ HEAD \notin mine
    BY RegionFacts DEF Cells, HEAD
  <2>2. ASSUME NEW a \in free PROVE a \in Cells /\ a \notin mine
    <3>1. Disjoint(a, size[a], b.addr, b.len)
      BY DEF IInv, NoOverlap
    <3> QED BY <3>1, FreeFacts, LiveFacts DEF Disjoint
  <2> QED BY <2>1, <2>2
<1>3. \A a \in {HEAD} \union free : link'[a] = link[a] /\ size'[a] = size[a]
  BY <1>1, <1>2
<1>4. TypeOK'
  <2>1. w \in Nat
    BY WordsAssumption
  <2> HIDE DEF mine
  <2>2. link' \in [Cells -> Nat] /\ size' \in [Cells -> Nat]
    BY <1>1, <2>1 DEF IInv, TypeOK
  <2> QED BY <1>1, <2>2 DEF IInv, TypeOK
<1> HIDE DEF mine
<1>5. FreeListSorted'
  BY <1>1, <1>3 DEF IInv, FreeListSorted, Sorted
<1>6. NoOverlap'
  BY <1>1, <1>3 DEF IInv, NoOverlap, InFlight
<1>7. NoLeak'
  BY <1>1, <1>3 DEF IInv, NoLeak, InFlight
<1>8. LiveBlocksSuit' /\ LoopInv' /\ PanicOnlyAtTop'
  BY <1>1 DEF IInv, LiveBlocksSuit, LoopInv, PanicOnlyAtTop, InFlight
<1> QED BY <1>4, <1>5, <1>6, <1>7, <1>8 DEF IInv

(* alloc takes a whole block off the list. *)
LEMMA ExactPopKeeps ==
  ASSUME IInv, exact_pop
  PROVE  IInv'
<1> DEFINE n == inner_size(layout.size)
           b == Granted(cur)
<1>1. /\ prev \in {HEAD} \union free /\ link[prev] = cur /\ cur \in free
      /\ prev \in Cells /\ pc = "exact" /\ pc' = "divide"
  BY Link DEF exact_pop, return_block, IInv, LoopInv
<1>2. /\ size[cur] = n /\ cur % umax(layout.align, BLOCK_LEN) = 0
  BY DEF exact_pop, matches_exact, inner_layout
<1>3. /\ layout.size \in 1 .. MaxPower /\ layout.align \in PowersOfTwo
      /\ n \in Nat /\ n >= layout.size
  BY InnerSize DEF IInv, TypeOK
<1>4. /\ link' = [link EXCEPT ![prev] = link[cur]] /\ size' = size
      /\ free' = free \ {cur} /\ live' = live \union {b}
      /\ b = [addr |-> cur, len |-> n, size |-> layout.size, align |-> layout.align]
      /\ prev' = HEAD /\ cur' = link'[HEAD] /\ layout' = NoLayout /\ ptr' = ptr
  BY DEF exact_pop, return_block, Granted
<1> HIDE DEF n, b
<1>5. b.addr = cur /\ b.len = n /\ b.size = layout.size /\ b.align = layout.align
  BY <1>4
<1>6. FreeListSorted'
  BY <1>1, <1>4, SortedRemove DEF IInv, TypeOK, FreeListSorted
<1>7. cur' \in {Null} \union free'
  BY <1>4, <1>6 DEF FreeListSorted, Sorted
<1>8. TypeOK'
  <2>1. link' \in [Cells -> Nat]
    BY <1>1, <1>4, FreeFacts DEF IInv, TypeOK
  <2>2. cur' \in Cells /\ HEAD \in Cells
    BY <1>4, <1>7 DEF IInv, TypeOK, Cells, HEAD, Null
  <2>3. NoLayout \in [size : 1 .. MaxPower, align : PowersOfTwo]
    BY WordFacts DEF NoLayout, PowersOfTwo
  <2>4. b \in Blocks
    BY <1>1, <1>3, <1>4, FreeFacts, PowerFacts DEF Blocks
  <2> QED BY <1>1, <1>4, <2>1, <2>2, <2>3, <2>4 DEF IInv, TypeOK, PCs
<1>9. NoOverlap'
  BY <1>1, <1>2, <1>4, <1>5 DEF IInv, NoOverlap, InFlight, Disjoint
<1>10. NoLeak'
  BY <1>1, <1>2, <1>4, <1>5 DEF IInv, NoLeak, InFlight
<1>11. LiveBlocksSuit'
  BY <1>1, <1>2, <1>3, <1>4, <1>5 DEF IInv, LiveBlocksSuit, n
<1>12. LoopInv' /\ PanicOnlyAtTop'
  BY <1>1, <1>7 DEF LoopInv, PanicOnlyAtTop, InFlight
<1> QED BY <1>6, <1>8, <1>9, <1>10, <1>11, <1>12 DEF IInv

(* Consecutive blocks of the list do not overlap. *)
LEMMA NextBeyond ==
  ASSUME IInv, NEW a \in free, link[a] # Null
  PROVE  a + size[a] <= link[a]
<1>1. link[a] \in free /\ a < link[a]
  BY Link DEF HEAD
<1>2. Disjoint(a, size[a], link[a], size[link[a]])
  BY <1>1, FreeFacts DEF IInv, NoOverlap
<1> QED BY <1>1, <1>2, FreeFacts DEF Disjoint

(* alloc takes the front of a block; the rest takes its place in the list. *)
LEMMA ContainsSplitKeeps ==
  ASSUME IInv, contains_split
  PROVE  IInv'
<1> DEFINE n == inner_size(layout.size)
           mid == saturating_add(cur, n)
           b == Granted(cur)
           rest == saturating_sub(size[cur], mid - cur)
<1>1. /\ prev \in {HEAD} \union free /\ link[prev] = cur /\ cur \in free
      /\ prev \in Cells /\ pc = "contains" /\ pc' = "divide" /\ prev \in Nat /\ prev < cur
  BY Link DEF contains_split, return_block, IInv, LoopInv
<1>2. /\ size[cur] > n /\ cur % umax(layout.align, BLOCK_LEN) = 0
  BY DEF contains_split, matches_contains, inner_layout
<1>3. /\ layout.size \in 1 .. MaxPower /\ layout.align \in PowersOfTwo
      /\ n \in Nat /\ n >= layout.size /\ n >= 16 /\ n % 16 = 0
  BY InnerSize DEF IInv, TypeOK, BLOCK_LEN
<1>4. /\ link' = [link EXCEPT ![mid] = link[cur], ![prev] = mid]
      /\ size' = [size EXCEPT ![mid] = rest]
      /\ free' = (free \ {cur}) \union {mid} /\ live' = live \union {b}
      /\ b = [addr |-> cur, len |-> n, size |-> layout.size, align |-> layout.align]
      /\ prev' = HEAD /\ cur' = link'[HEAD] /\ layout' = NoLayout /\ ptr' = ptr
  BY DEF contains_split, return_block, Granted
<1> HIDE DEF n, b
<1>5. mid = cur + n
  <2>1. ~ (cur + n > UMax)
    BY <1>1, <1>2, <1>3, FreeFacts, RegionFacts, WordFacts
  <2> QED BY <2>1 DEF saturating_add
<1>6. rest = size[cur] - n
  BY <1>1, <1>2, <1>3, <1>5, FreeFacts DEF saturating_sub
<1> HIDE DEF mid, rest
<1>7. b.addr = cur /\ b.len = n /\ b.size = layout.size /\ b.align = layout.align
  BY <1>4
<1>8. /\ rest \in Nat /\ rest >= 16 /\ rest % 16 = 0
      /\ mid \in Nat /\ mid % 16 = 0 /\ cur < mid /\ mid + rest = cur + size[cur]
      /\ mid \in Addr /\ mid \in Cells /\ mid \notin free /\ mid # prev
  <2>1. /\ rest \in Nat /\ rest >= 16 /\ rest % 16 = 0
        /\ mid \in Nat /\ mid % 16 = 0 /\ cur < mid /\ mid + rest = cur + size[cur]
    BY <1>1, <1>2, <1>3, <1>5, <1>6, FreeFacts
  <2>2. mid \in Addr /\ mid \in Cells
    BY <1>1, <2>1, FreeFacts, RegionFacts DEF Addr, Cells, BLOCK_LEN
  <2>3. ASSUME mid \in free PROVE FALSE
    <3>1. Disjoint(cur, size[cur], mid, size[mid])
      BY <1>1, <2>1, <2>3, FreeFacts DEF IInv, NoOverlap
    <3> QED BY <1>1, <2>1, <2>3, <3>1, FreeFacts DEF Disjoint
  <2> QED BY <1>1, <2>1, <2>2, <2>3, FreeFacts
<1>9. size'[mid] = rest /\ \A a \in free : size'[a] = size[a]
  BY <1>4, <1>8, FreeFacts DEF IInv, TypeOK
<1>10. FreeListSorted'
  <2> DEFINE F  == free \ {cur}
             lk == [link EXCEPT ![prev] = link[cur]]
  <2>1. Sorted(lk, F) /\ F \subseteq Addr
    BY <1>1, SortedRemove DEF IInv, TypeOK, FreeListSorted
  <2>2. lk \in [Cells -> Nat] /\ lk[prev] = link[cur]
    BY <1>1, FreeFacts DEF IInv, TypeOK
  <2>3. prev \in {HEAD} \union F /\ prev < mid
    BY <1>1, <1>8, FreeFacts
  <2>4. link[cur] = Null \/ mid < link[cur]
    BY <1>1, <1>8, NextBeyond, Link, FreeFacts
  <2>5. Sorted([lk EXCEPT ![mid] = lk[prev], ![prev] = mid], F \union {mid})
    <3> HIDE DEF F, lk
    <3> QED BY <1>8, <2>1, <2>2, <2>3, <2>4, SortedInsert
  <2>6. [lk EXCEPT ![mid] = lk[prev], ![prev] = mid] = link'
    BY <1>1, <1>4, <1>8, <2>2 DEF IInv, TypeOK
  <2> QED BY <1>4, <2>5, <2>6 DEF FreeListSorted
<1>11. cur' \in {Null} \union free'
  BY <1>4, <1>10 DEF FreeListSorted, Sorted
<1>12. TypeOK'
  <2>1. link' \in [Cells -> Nat]
    BY <1>1, <1>4, <1>8, FreeFacts DEF IInv, TypeOK
  <2>2. size' \in [Cells -> Nat]
    BY <1>4, <1>8 DEF IInv, TypeOK
  <2>3. free' \subseteq Addr
    BY <1>4, <1>8 DEF IInv, TypeOK
  <2>4. cur' \in Cells /\ HEAD \in Cells
    BY <2>3, <1>11 DEF Cells, HEAD, Null
  <2>5. NoLayout \in [size : 1 .. MaxPower, align : PowersOfTwo]
    BY WordFacts DEF NoLayout, PowersOfTwo
  <2>6. b \in Blocks
    BY <1>1, <1>3, <1>4, FreeFacts, PowerFacts DEF Blocks
  <2> QED BY <1>1, <1>4, <2>1, <2>2, <2>3, <2>4, <2>5, <2>6 DEF IInv, TypeOK, PCs
<1>13. NoOverlap'
  <2>1. \A a \in free' : InRegion(a, size'[a])
    BY <1>1, <1>4, <1>8, <1>9, FreeFacts DEF IInv, NoOverlap, InRegion, BLOCK_LEN
  <2>2. \A c \in live' : InRegion(c.addr, c.len)
    <3>1. InRegion(b.addr, b.len)
      BY <1>1, <1>2, <1>3, <1>7, FreeFacts DEF InRegion, BLOCK_LEN
    <3>2. \A c \in live : InRegion(c.addr, c.len)
      BY DEF IInv, NoOverlap
    <3> QED BY <1>4, <3>1, <3>2
  <2>3. \A a, d \in free' : a = d \/ Disjoint(a, size'[a], d, size'[d])
    <3>1. ASSUME NEW d \in free \ {cur} PROVE Disjoint(mid, rest, d, size[d])
      <4>1. Disjoint(cur, size[cur], d, size[d])
        BY <1>1, <3>1 DEF IInv, NoOverlap
      <4> QED BY <1>1, <1>8, <4>1, FreeFacts DEF Disjoint
    <3> QED BY <1>4, <1>9, <3>1 DEF IInv, NoOverlap, Disjoint
  <2>4. ASSUME NEW c \in live PROVE Disjoint(cur, n, c.addr, c.len) /\ Disjoint(mid, rest, c.addr, c.len)
    <3>1. Disjoint(cur, size[cur], c.addr, c.len)
      BY <1>1 DEF IInv, NoOverlap
    <3> QED BY <1>1, <1>2, <1>3, <1>5, <1>8, <3>1, FreeFacts, LiveFacts DEF Disjoint
  <2>5. \A c, d \in live' : c = d \/ Disjoint(c.addr, c.len, d.addr, d.len)
    BY <1>4, <1>7, <2>4 DEF IInv, NoOverlap, Disjoint
  <2>6. ASSUME NEW d \in free \ {cur} PROVE Disjoint(d, size[d], cur, n)
    <3>1. Disjoint(cur, size[cur], d, size[d])
      BY <1>1, <2>6 DEF IInv, NoOverlap
    <3> QED BY <1>1, <1>2, <1>3, <3>1, FreeFacts DEF Disjoint
  <2>7. Disjoint(mid, rest, cur, n)
    BY <1>5 DEF Disjoint
  <2>8. \A a \in free', c \in live' : Disjoint(a, size'[a], c.addr, c.len)
    BY <1>4, <1>7, <1>9, <2>4, <2>6, <2>7 DEF IInv, NoOverlap
  <2> QED BY <1>1, <2>1, <2>2, <2>3, <2>5, <2>8 DEF NoOverlap, InFlight
<1>14. NoLeak'
  <2> SUFFICES ASSUME NEW x \in Addr
               PROVE  \/ \E a \in free' : a <= x /\ x < a + size'[a]
                      \/ \E c \in live' : c.addr <= x /\ x < c.addr + c.len
    BY DEF NoLeak
  <2>1. CASE cur <= x /\ x < cur + size[cur]
    <3>1. x \in Nat
      BY RegionFacts
    <3>2. CASE x < mid
      BY <1>4, <1>5, <1>7, <2>1, <3>2
    <3>3. CASE ~ (x < mid)
      BY <1>1, <1>4, <1>8, <1>9, <2>1, <3>1, <3>3, FreeFacts
    <3> QED BY <3>2, <3>3
  <2>2. CASE ~ (cur <= x /\ x < cur + size[cur])
    BY <1>1, <1>4, <1>9, <2>2 DEF IInv, NoLeak, InFlight
  <2> QED BY <2>1, <2>2
<1>15. LiveBlocksSuit'
  BY <1>1, <1>2, <1>3, <1>4, <1>7 DEF IInv, LiveBlocksSuit, n
<1>16. LoopInv' /\ PanicOnlyAtTop'
  BY <1>1, <1>11 DEF LoopInv, PanicOnlyAtTop, InFlight
<1> QED BY <1>10, <1>12, <1>13, <1>14, <1>15, <1>16 DEF IInv

(* divide_maximally cuts a block in two. *)
LEMMA DivideSplitKeeps ==
  ASSUME IInv, divide_split
  PROVE  IInv'
<1> DEFINE mid == split_point(cur)
           front == mid - cur
           rest == size[cur] - (mid - cur)
<1>1. /\ cur \in free /\ mid # cur /\ pc = "divide"
      /\ UNCHANGED <<pc, prev, cur, layout, ptr, live>>
      /\ size' = [size EXCEPT ![mid] = rest, ![cur] = front]
      /\ link' = [link EXCEPT ![mid] = link[cur], ![cur] = mid]
      /\ free' = free \union {mid}
  BY DEF divide_split, IInv, LoopInv
<1>2. /\ mid \in Nat /\ mid % 16 = 0 /\ cur <= mid /\ mid < cur + size[cur]
  BY <1>1, FreeFacts, SplitPoint DEF IInv, NoOverlap, BLOCK_LEN
<1> HIDE DEF mid
<1>3. /\ front \in Nat /\ front >= 16 /\ front % 16 = 0
      /\ rest \in Nat /\ rest >= 16 /\ rest % 16 = 0
      /\ cur + front = mid /\ mid + rest = cur + size[cur] /\ cur < mid
  BY <1>1, <1>2, FreeFacts
<1> HIDE DEF front, rest
<1>4. mid \in Addr /\ mid \in Cells /\ mid \notin free
  <2>1. mid \in Addr /\ mid \in Cells
    BY <1>1, <1>2, FreeFacts, RegionFacts DEF Addr, Cells, BLOCK_LEN
  <2>2. ASSUME mid \in free PROVE FALSE
    <3>1. Disjoint(cur, size[cur], mid, size[mid])
      BY <1>1, <2>2 DEF IInv, NoOverlap
    <3> QED BY <1>1, <1>3, <2>2, <3>1, FreeFacts DEF Disjoint
  <2> QED BY <2>1, <2>2
<1>5. /\ size'[mid] = rest /\ size'[cur] = front
      /\ \A a \in free \ {cur} : size'[a] = size[a]
  BY <1>1, <1>4, FreeFacts DEF IInv, TypeOK
<1>6. FreeListSorted'
  <2>1. link[cur] = Null \/ mid < link[cur]
    BY <1>1, <1>2, NextBeyond, Link, FreeFacts
  <2> QED BY <1>1, <1>3, <1>4, <2>1, SortedInsert DEF IInv, TypeOK, FreeListSorted
<1>7. TypeOK'
  <2>1. link' \in [Cells -> Nat]
    BY <1>1, <1>2, <1>4, FreeFacts DEF IInv, TypeOK
  <2>2. size' \in [Cells -> Nat]
    BY <1>1, <1>3, <1>4, FreeFacts DEF IInv, TypeOK
  <2> QED BY <1>1, <1>4, <2>1, <2>2 DEF IInv, TypeOK
<1>8. NoOverlap'
  <2>1. \A a \in free' : InRegion(a, size'[a])
    <3>1. InRegion(cur, front) /\ InRegion(mid, rest)
      BY <1>1, <1>2, <1>3, FreeFacts DEF InRegion, BLOCK_LEN
    <3> QED BY <1>1, <1>5, <3>1 DEF IInv, NoOverlap
  <2>2. ASSUME NEW d \in free \ {cur}
        PROVE  Disjoint(cur, front, d, size[d]) /\ Disjoint(mid, rest, d, size[d])
    <3>1. Disjoint(cur, size[cur], d, size[d])
      BY <1>1, <2>2 DEF IInv, NoOverlap
    <3> QED BY <1>1, <1>3, <3>1, FreeFacts DEF Disjoint
  <2>3. Disjoint(cur, front, mid, rest)
    BY <1>2, <1>3 DEF Disjoint
  <2>4. \A a, d \in free' : a = d \/ Disjoint(a, size'[a], d, size'[d])
    <3>1. \A d \in free \ {cur} :
            Disjoint(d, size[d], cur, front) /\ Disjoint(d, size[d], mid, rest)
      BY <2>2 DEF Disjoint
    <3>2. Disjoint(mid, rest, cur, front)
      BY <2>3 DEF Disjoint
    <3>3. free' = (free \ {cur}) \union {cur, mid}
      BY <1>1
    <3>4. \A a, d \in free \ {cur} : a = d \/ Disjoint(a, size[a], d, size[d])
      BY DEF IInv, NoOverlap
    <3> QED BY <1>5, <2>2, <2>3, <3>1, <3>2, <3>3, <3>4
  <2>5. ASSUME NEW c \in live
        PROVE  Disjoint(cur, front, c.addr, c.len) /\ Disjoint(mid, rest, c.addr, c.len)
    <3>1. Disjoint(cur, size[cur], c.addr, c.len)
      BY <1>1 DEF IInv, NoOverlap
    <3> QED BY <1>1, <1>3, <3>1, FreeFacts, LiveFacts DEF Disjoint
  <2>6. \A a \in free', c \in live' : Disjoint(a, size'[a], c.addr, c.len)
    BY <1>1, <1>5, <2>5 DEF IInv, NoOverlap
  <2> QED BY <1>1, <2>1, <2>4, <2>6 DEF IInv, NoOverlap, InFlight
<1>9. NoLeak'
  <2> SUFFICES ASSUME NEW x \in Addr
               PROVE  \/ \E a \in free' : a <= x /\ x < a + size'[a]
                      \/ \E c \in live' : c.addr <= x /\ x < c.addr + c.len
    BY DEF NoLeak
  <2>1. CASE cur <= x /\ x < cur + size[cur]
    <3>1. x \in Nat
      BY RegionFacts
    <3>2. (cur <= x /\ x < cur + front) \/ (mid <= x /\ x < mid + rest)
      BY <1>1, <1>3, <2>1, <3>1, FreeFacts
    <3> QED BY <1>1, <1>5, <3>2
  <2>2. CASE ~ (cur <= x /\ x < cur + size[cur])
    BY <1>1, <1>5, <2>2 DEF IInv, NoLeak, InFlight
  <2> QED BY <2>1, <2>2
<1>10. LiveBlocksSuit' /\ LoopInv' /\ PanicOnlyAtTop'
  BY <1>1 DEF IInv, LiveBlocksSuit, LoopInv, PanicOnlyAtTop, InFlight
<1> QED BY <1>6, <1>7, <1>8, <1>9, <1>10 DEF IInv

(* dealloc_inner links the freed block in at its place. *)
LEMMA InsertKeeps ==
  ASSUME IInv, insert_block
  PROVE  IInv'
<1> DEFINE n == inner_size(layout.size)
<1>1. /\ prev \in {HEAD} \union free /\ link[prev] = cur /\ cur \in free
      /\ pc = "insert" /\ pc' = "defrag" /\ ptr < cur /\ ptr \in Addr /\ prev < ptr
      /\ prev \in Cells
  BY Link DEF insert_block, above, IInv, LoopInv, InFlight
<1>2. /\ size' = [size EXCEPT ![ptr] = n]
      /\ link' = [link EXCEPT ![ptr] = link[prev], ![prev] = ptr]
      /\ free' = free \union {ptr} /\ UNCHANGED <<layout, ptr, live>>
      /\ prev' = Null /\ cur' = link'[HEAD]
  BY DEF insert_block
<1>3. n \in Nat /\ n >= 16
  BY InnerSize DEF IInv, TypeOK, BLOCK_LEN
<1>4. /\ InRegion(ptr, n)
      /\ \A a \in free : Disjoint(ptr, n, a, size[a])
      /\ \A c \in live : Disjoint(ptr, n, c.addr, c.len)
  BY <1>1 DEF IInv, NoOverlap, InFlight
<1> HIDE DEF n
<1>5. ptr \in Cells /\ ptr \in Nat /\ ptr \notin free
  <2>1. ptr \in Cells /\ ptr \in Nat
    BY <1>1, RegionFacts DEF Cells
  <2>2. ASSUME ptr \in free PROVE FALSE
    BY <1>3, <1>4, <2>1, <2>2, FreeFacts DEF Disjoint
  <2> QED BY <2>1, <2>2
<1>6. size'[ptr] = n /\ \A a \in free : size'[a] = size[a]
  BY <1>2, <1>5, FreeFacts DEF IInv, TypeOK
<1>7. FreeListSorted'
  BY <1>1, <1>2, SortedInsert DEF IInv, TypeOK, FreeListSorted
<1>8. cur' \in {Null} \union free'
  BY <1>2, <1>7 DEF FreeListSorted, Sorted
<1>9. TypeOK'
  <2>1. link' \in [Cells -> Nat]
    BY <1>1, <1>2, <1>5, FreeFacts DEF IInv, TypeOK
  <2>2. size' \in [Cells -> Nat]
    BY <1>2, <1>3, <1>5 DEF IInv, TypeOK
  <2>3. free' \subseteq Addr
    BY <1>1, <1>2 DEF IInv, TypeOK
  <2>4. cur' \in Cells /\ Null \in Cells
    BY <2>3, <1>8 DEF Cells, HEAD, Null
  <2> QED BY <1>1, <1>2, <2>1, <2>2, <2>3, <2>4 DEF IInv, TypeOK, PCs
<1>10. NoOverlap'
  <2>1. \A a \in free' : InRegion(a, size'[a])
    BY <1>2, <1>4, <1>6 DEF IInv, NoOverlap
  <2>2. \A a, d \in free' : a = d \/ Disjoint(a, size'[a], d, size'[d])
    BY <1>2, <1>4, <1>6 DEF IInv, NoOverlap, Disjoint
  <2>3. \A a \in free', c \in live' : Disjoint(a, size'[a], c.addr, c.len)
    BY <1>2, <1>4, <1>6 DEF IInv, NoOverlap
  <2> QED BY <1>1, <1>2, <2>1, <2>2, <2>3 DEF IInv, NoOverlap, InFlight
<1>11. NoLeak'
  BY <1>1, <1>2, <1>6 DEF IInv, NoLeak, InFlight, n
<1>12. LiveBlocksSuit'
  BY <1>1, <1>2 DEF IInv, LiveBlocksSuit
<1>13. LoopInv' /\ PanicOnlyAtTop'
  BY <1>1, <1>2, <1>8 DEF LoopInv, PanicOnlyAtTop, InFlight
<1> QED BY <1>7, <1>9, <1>10, <1>11, <1>12, <1>13 DEF IInv

(* defragment merges only into the block that links to the current one. *)
LEMMA MergeTarget ==
  ASSUME IInv, defrag_merge
  PROVE  /\ prev \in free /\ link[prev] = cur /\ cur \in free /\ prev < cur
         /\ prev + size[prev] = cur /\ size[cur] = size[prev]
         /\ prev % (2 * size[prev]) = 0
<1>1. /\ pc = "defrag" /\ cur # Null /\ prev # Null
      /\ is_adjacent(prev, cur) /\ equal_size(prev, cur)
      /\ aligned_on(prev, 2 * size[prev])
  BY DEF defrag_merge, mergeable
<1>2. prev \in free /\ link[prev] = cur /\ cur \in free
  BY <1>1 DEF IInv, LoopInv
<1>3. prev < cur
  BY <1>1, <1>2, Link
<1>4. prev + size[prev] = cur
  <2>1. ~ (prev + size[prev] > UMax)
    BY <1>2, FreeFacts, RegionFacts, WordFacts
  <2> QED BY <1>1, <2>1 DEF is_adjacent, saturating_add
<1> QED BY <1>1, <1>2, <1>3, <1>4 DEF equal_size, aligned_on

(* defragment joins two halves. *)
LEMMA MergeKeeps ==
  ASSUME IInv, defrag_merge
  PROVE  IInv'
<1> DEFINE s == size[prev]
<1>1. /\ prev \in free /\ link[prev] = cur /\ cur \in free /\ prev < cur
      /\ prev + s = cur /\ size[cur] = s /\ prev % (2 * s) = 0
  BY MergeTarget
<1>2. /\ pc = "defrag" /\ cur # Null
      /\ link' = [link EXCEPT ![prev] = link[cur]]
      /\ size' = [size EXCEPT ![prev] = 2 * s]
      /\ free' = free \ {cur} /\ prev' = cur /\ cur' = link[cur]
      /\ UNCHANGED <<pc, layout, ptr, live>>
  BY <1>1 DEF defrag_merge, popped
<1>3. /\ s \in Nat /\ s >= 16 /\ s % 16 = 0 /\ prev \in Nat /\ cur \in Nat
      /\ prev \in Cells /\ cur \in Cells /\ cur \in Addr /\ cur + s <= End
  BY <1>1, FreeFacts
<1> HIDE DEF s
<1>4. /\ size'[prev] = 2 * s /\ size'[cur] = s
      /\ \A a \in free \ {prev} : size'[a] = size[a]
  BY <1>1, <1>2, <1>3, FreeFacts DEF IInv, TypeOK
<1>5. FreeListSorted'
  BY <1>1, <1>2, SortedRemove DEF IInv, TypeOK, FreeListSorted
<1>6. link[cur] \in {Null} \union free' /\ link[cur] \in Cells
  BY <1>1, <1>2, <1>3, Link, FreeFacts
<1>7. TypeOK'
  <2>1. link' \in [Cells -> Nat]
    BY <1>2, <1>3 DEF IInv, TypeOK
  <2>2. size' \in [Cells -> Nat]
    BY <1>2, <1>3 DEF IInv, TypeOK
  <2> QED BY <1>2, <1>3, <1>6, <2>1, <2>2 DEF IInv, TypeOK
<1>8. NoOverlap'
  <2>1. InRegion(prev, 2 * s)
    BY <1>1, <1>3, RegionFacts DEF InRegion, BLOCK_LEN
  <2>2. \A a \in free' : InRegion(a, size'[a])
    BY <1>2, <1>4, <2>1 DEF IInv, NoOverlap
  <2>3. ASSUME NEW d \in free \ {prev, cur}
        PROVE  Disjoint(prev, 2 * s, d, size[d]) /\ Disjoint(d, size[d], prev, 2 * s)
    <3>1. Disjoint(prev, s, d, size[d]) /\ Disjoint(cur, s, d, size[d])
      BY <1>1, <2>3 DEF IInv, NoOverlap, s
    <3> QED BY <1>1, <1>3, <3>1, FreeFacts DEF Disjoint
  <2>4. \A a, d \in free' : a = d \/ Disjoint(a, size'[a], d, size'[d])
    <3>1. free' = (free \ {prev, cur}) \union {prev}
      BY <1>1, <1>2, <1>3
    <3>2. \A a, d \in free \ {prev, cur} : a = d \/ Disjoint(a, size[a], d, size[d])
      BY DEF IInv, NoOverlap
    <3> QED BY <1>4, <2>3, <3>1, <3>2
  <2>5. ASSUME NEW c \in live PROVE Disjoint(prev, 2 * s, c.addr, c.len)
    <3>1. Disjoint(prev, s, c.addr, c.len) /\ Disjoint(cur, s, c.addr, c.len)
      BY <1>1 DEF IInv, NoOverlap, s
    <3> QED BY <1>1, <1>3, <3>1, LiveFacts DEF Disjoint
  <2>6. \A a \in free', c \in live' : Disjoint(a, size'[a], c.addr, c.len)
    BY <1>2, <1>4, <2>5 DEF IInv, NoOverlap
  <2> QED BY <1>2, <2>2, <2>4, <2>6 DEF IInv, NoOverlap, InFlight
<1>9. NoLeak'
  <2> SUFFICES ASSUME NEW x \in Addr
               PROVE  \/ \E a \in free' : a <= x /\ x < a + size'[a]
                      \/ \E c \in live' : c.addr <= x /\ x < c.addr + c.len
    BY DEF NoLeak
  <2>1. CASE \E a \in {prev, cur} : a <= x /\ x < a + s
    <3>1. x \in Nat
      BY RegionFacts
    <3>2. prev <= x /\ x < prev + 2 * s
      BY <1>1, <1>3, <2>1, <3>1
    <3> QED BY <1>1, <1>2, <1>3, <1>4, <3>2
  <2>2. CASE ~ \E a \in {prev, cur} : a <= x /\ x < a + s
    BY <1>1, <1>2, <1>4, <2>2 DEF IInv, NoLeak, InFlight, s
  <2> QED BY <2>1, <2>2
<1>10. LiveBlocksSuit'
  BY <1>2 DEF IInv, LiveBlocksSuit
<1>11. LoopInv' /\ PanicOnlyAtTop'
  <2>1. cur % (2 * s) # 0
    BY <1>1, <1>3, OddMultiple
  <2>2. size'[cur] > 0 /\ ~ aligned_on(cur, 2 * size'[cur])
    BY <1>3, <1>4, <2>1 DEF aligned_on
  <2> QED BY <1>2, <1>3, <1>6, <2>2 DEF LoopInv, PanicOnlyAtTop, InFlight, aligned_on
<1> QED BY <1>5, <1>7, <1>8, <1>9, <1>10, <1>11 DEF IInv

(* Allocator::new makes one free block of the whole region. *)
LEMMA InitIInv ==
  ASSUME Init
  PROVE  IInv
<1>1. PICK w \in Words :
        /\ link = [c \in Cells |-> IF c = HEAD THEN Start
                                   ELSE IF c = Start THEN Null ELSE w]
        /\ size = [c \in Cells |-> IF c = Start THEN End - Start ELSE w]
  BY DEF Init, new
<1>2. /\ pc = "divide" /\ prev = HEAD /\ cur = Start /\ layout = NoLayout
      /\ ptr = Null /\ free = {Start} /\ live = {}
  BY DEF Init, new
<1>3. /\ Start \in Addr /\ Start \in Nat /\ Start > 0 /\ Start \in Cells /\ HEAD \in Cells
      /\ End - Start \in Nat /\ End - Start >= 16 /\ (End - Start) % 16 = 0
      /\ Start % 16 = 0 /\ w \in Nat
  BY RegionFacts, WordsAssumption DEF Cells, BLOCK_LEN
<1>4. link[HEAD] = Start /\ link[Start] = Null /\ size[Start] = End - Start
  BY <1>1, <1>3 DEF HEAD
<1>5. TypeOK
  <2>1. link \in [Cells -> Nat] /\ size \in [Cells -> Nat]
    BY <1>1, <1>3 DEF Null
  <2>2. NoLayout \in [size : 1 .. MaxPower, align : PowersOfTwo]
    BY WordFacts DEF NoLayout, PowersOfTwo
  <2> QED BY <1>2, <1>3, <2>1, <2>2 DEF TypeOK, PCs, HEAD, Null
<1>6. FreeListSorted
  BY <1>2, <1>3, <1>4 DEF FreeListSorted, Sorted, HEAD, Null
<1>7. NoOverlap
  BY <1>2, <1>3, <1>4, RegionFacts DEF NoOverlap, InRegion, InFlight, BLOCK_LEN
<1>8. NoLeak
  BY <1>2, <1>3, <1>4, RegionFacts DEF NoLeak
<1>9. LiveBlocksSuit /\ LoopInv /\ PanicOnlyAtTop
  BY <1>2 DEF LiveBlocksSuit, LoopInv, PanicOnlyAtTop, InFlight
<1> QED BY <1>5, <1>6, <1>7, <1>8, <1>9 DEF IInv

(* Every step keeps the inductive invariant. *)
LEMMA NextIInv ==
  ASSUME IInv, [Next]_vars
  PROVE  IInv'
<1>1. ASSUME NEW l \in Layouts, alloc(l) PROVE IInv'
  BY <1>1, AllocKeeps
<1>2. ASSUME NEW b \in live, dealloc(b) PROVE IInv'
  BY <1>2, DeallocKeeps
<1>3. ASSUME NEW b \in live, NEW w \in Words, scribble(b, w) PROVE IInv'
  BY <1>3, ScribbleKeeps
<1>4. ASSUME Loop PROVE IInv'
  BY <1>4, MoveKeeps, SearchKeeps, ExactPopKeeps, ContainsSplitKeeps,
     DivideSplitKeeps, InsertKeeps, MergeKeeps DEF Loop
<1>5. ASSUME UNCHANGED vars PROVE IInv'
  <2>1. UNCHANGED <<link, size, free, live>> /\ UNCHANGED <<pc, prev, cur, layout, ptr>>
    BY <1>5 DEF vars
  <2>2. FreeListSorted' /\ NoOverlap' /\ NoLeak' /\ LiveBlocksSuit'
    BY <2>1, Frame DEF InFlight
  <2>3. TypeOK' /\ LoopInv' /\ PanicOnlyAtTop'
    BY <2>1 DEF IInv, TypeOK, LoopInv, PanicOnlyAtTop, InFlight, aligned_on
  <2> QED BY <2>2, <2>3 DEF IInv
<1> QED BY <1>1, <1>2, <1>3, <1>4, <1>5 DEF Next, panic_fmt

-----------------------------------------------------------------------------
(* Theorems. *)

(* The invariant is inductive: it holds after every step of the allocator. *)
LEMMA SpecIInv == Spec => []IInv
BY InitIInv, NextIInv, PTL DEF Spec

(* Every variable keeps its type, for every region and set of layouts. *)
THEOREM TypeCorrect == Spec => []TypeOK
<1>1. IInv => TypeOK
  BY DEF IInv
<1> QED BY <1>1, SpecIInv, PTL

(* Memory has one owner: free blocks, live blocks and the block being      *)
(* freed never overlap.                                                    *)
THEOREM BlocksNeverOverlap == Spec => []NoOverlap
<1>1. IInv => NoOverlap
  BY DEF IInv
<1> QED BY <1>1, SpecIInv, PTL

(* The free list is sorted and holds the free blocks, each once. *)
THEOREM ListStaysSorted == Spec => []FreeListSorted
<1>1. IInv => FreeListSorted
  BY DEF IInv
<1> QED BY <1>1, SpecIInv, PTL

(* No granule of the region is ever lost. *)
THEOREM NothingLeaks == Spec => []NoLeak
<1>1. IInv => NoLeak
  BY DEF IInv
<1> QED BY <1>1, SpecIInv, PTL

(* Live blocks meet the layout they were asked with, and the assertion of  *)
(* dealloc_inner holds.                                                    *)
THEOREM BlocksSuit == Spec => []LiveBlocksSuit
<1>1. IInv => LiveBlocksSuit
  BY DEF IInv
<1> QED BY <1>1, SpecIInv, PTL

(* A dealloc call that meets its contract panics only when no free block   *)
(* lies above the freed one.                                               *)
THEOREM PanicsOnlyAtTop == Spec => []PanicOnlyAtTop
<1>1. IInv => PanicOnlyAtTop
  BY DEF IInv
<1> QED BY <1>1, SpecIInv, PTL

(* The stale previous block of defragment is never merged into. *)
THEOREM StaleNeverMerges == Spec => StalePrevNeverMerges
<1>1. IInv /\ [Next]_vars => [defrag_merge => prev \in free /\ link[prev] = cur]_vars
  BY MergeTarget
<1> QED BY <1>1, SpecIInv, PTL DEF Spec, StalePrevNeverMerges

(* An allocation step hands out a block that suits the request and is      *)
(* apart from every live block.                                            *)
LEMMA GrantRefines ==
  ASSUME IInv, pc \in {"exact", "contains"}, cur \in free,
         size[cur] >= inner_size(layout.size),
         cur % umax(layout.align, BLOCK_LEN) = 0,
         live' = live \union {Granted(cur)}
  PROVE  \E l \in Layouts : Contract!Allocate(l)
<1> DEFINE n == inner_size(layout.size)
           b == Granted(cur)
<1>1. layout \in Layouts /\ layout.size \in 1 .. MaxPower /\ layout.align \in PowersOfTwo
  BY DEF IInv, LoopInv, TypeOK
<1>2. n \in Nat /\ n >= layout.size
  BY <1>1, InnerSize
<1>3. /\ b.addr = cur /\ b.len = n /\ b.size = layout.size /\ b.align = layout.align
      /\ b \in live' /\ live' = live \union {b}
  BY DEF Granted
<1>4. cur % layout.align = 0
  <2>1. layout.align \in Nat /\ layout.align >= 1
    BY <1>1, PowerFacts
  <2>2. CASE layout.align >= BLOCK_LEN
    BY <2>2 DEF umax
  <2>3. CASE ~ (layout.align >= BLOCK_LEN)
    <3>1. layout.align \in {1, 2, 4, 8}
      BY <1>1, <2>3, SmallPowers
    <3>2. cur \in Nat /\ cur % 16 = 0
      BY FreeFacts
    <3> QED BY <3>1, <3>2
  <2> QED BY <2>2, <2>3
<1> HIDE DEF n, b
<1>5. Contract!Suits(b, layout)
  BY <1>2, <1>3, <1>4, FreeFacts, RegionFacts DEF Contract!Suits, n
<1>6. ASSUME NEW c \in live PROVE Contract!Apart(b, c)
  <2>1. Disjoint(cur, size[cur], c.addr, c.len)
    BY DEF IInv, NoOverlap
  <2> QED BY <1>2, <1>3, <2>1, FreeFacts, LiveFacts DEF Disjoint, Contract!Apart, n
<1> QED BY <1>1, <1>3, <1>5, <1>6 DEF Contract!Allocate

(* bin.rs implements the contract of allocator/mod.rs. *)
THEOREM Refinement == Spec => ImplementsHeap
<1>1. Init => Contract!Init
  BY DEF Init, new, Contract!Init
<1>2. ASSUME IInv, [Next]_vars PROVE [Contract!Next]_live
  <2>1. ASSUME NEW b \in live, dealloc(b) PROVE Contract!Next
    BY <2>1 DEF dealloc, Contract!Next, Contract!Free
  <2>2. CASE exact_pop
    <3>1. /\ pc = "exact" /\ cur \in free /\ live' = live \union {Granted(cur)}
          /\ size[cur] = inner_size(layout.size) /\ cur % umax(layout.align, BLOCK_LEN) = 0
      BY <1>2, <2>2, Link DEF exact_pop, return_block, matches_exact, inner_layout, IInv, LoopInv
    <3>2. size[cur] >= inner_size(layout.size)
      BY <1>2, <3>1, FreeFacts
    <3> QED BY <1>2, <3>1, <3>2, GrantRefines DEF Contract!Next
  <2>3. CASE contains_split
    <3>1. /\ pc = "contains" /\ cur \in free /\ live' = live \union {Granted(cur)}
          /\ size[cur] > inner_size(layout.size) /\ cur % umax(layout.align, BLOCK_LEN) = 0
      BY <1>2, <2>3, Link DEF contains_split, return_block, matches_contains, inner_layout, IInv, LoopInv
    <3>2. size[cur] >= inner_size(layout.size)
      <4>1. inner_size(layout.size) \in Nat /\ size[cur] \in Nat
        BY <1>2, <3>1, FreeFacts, InnerSize DEF IInv, TypeOK
      <4> QED BY <3>1, <4>1
    <3> QED BY <1>2, <3>1, <3>2, GrantRefines DEF Contract!Next
  <2>4. CASE UNCHANGED live
    BY <2>4
  <2>5. ASSUME Loop, ~ exact_pop, ~ contains_split PROVE UNCHANGED live
    BY <2>5 DEF Loop, exact_step, exact_fail, contains_step, exhausted, divide_split,
       divide_step, divide_done, insert_step, insert_block, insert_panic,
       defrag_merge, defrag_step, defrag_done, advance, return
  <2> QED BY <1>2, <2>1, <2>2, <2>3, <2>4, <2>5
          DEF Next, alloc, scribble, panic_fmt, vars
<1> QED BY <1>1, <1>2, SpecIInv, PTL DEF Spec, ImplementsHeap, Contract!Spec

(* An address inside a free block is not inside a live one. *)
LEMMA FreeNotLive ==
  ASSUME IInv, NEW b \in live, NEW a \in free, NEW x \in Nat,
         b.addr <= x, x < b.addr + b.len
  PROVE  ~ (a <= x /\ x < a + size[a])
<1>1. Disjoint(a, size[a], b.addr, b.len)
  BY DEF IInv, NoOverlap
<1> QED BY <1>1, FreeFacts, LiveFacts DEF Disjoint

(* The allocator writes only to the head and to memory that no caller has. *)
THEOREM CallersKeepTheirWords == Spec => LiveWordsKept
<1> DEFINE Kept == \A b \in live, x \in Addr :
                     b.addr <= x /\ x < b.addr + b.len
                       => link'[x] = link[x] /\ size'[x] = size[x]
<1>1. ASSUME IInv, [Next]_vars, pc # "idle" PROVE Kept
  <2> SUFFICES ASSUME NEW b \in live, NEW x \in Addr,
                      b.addr <= x, x < b.addr + b.len
               PROVE  link'[x] = link[x] /\ size'[x] = size[x]
    OBVIOUS
  <2>1. x \in Nat /\ x # HEAD /\ x \in Cells
    BY RegionFacts DEF HEAD, BLOCK_LEN, Cells
  <2>2. \A a \in free : ~ (a <= x /\ x < a + size[a])
    BY <1>1, <2>1, FreeNotLive
  <2>3. \A a \in free : x # a
    BY <1>1, <2>1, <2>2, FreeFacts
  <2>4. link \in [Cells -> Nat] /\ size \in [Cells -> Nat]
    BY <1>1 DEF IInv, TypeOK
  <2>5. CASE exact_pop
    <3>1. prev \in {HEAD} \union free /\ link' = [link EXCEPT ![prev] = link[cur]]
          /\ size' = size
      BY <1>1, <2>5 DEF exact_pop, IInv, LoopInv
    <3> QED BY <2>1, <2>3, <2>4, <3>1
  <2>6. CASE contains_split
    <3> DEFINE mid == saturating_add(cur, inner_size(layout.size))
    <3>1. /\ prev \in {HEAD} \union free /\ cur \in free
          /\ link' = [link EXCEPT ![mid] = link[cur], ![prev] = mid]
          /\ size' = [size EXCEPT ![mid] = saturating_sub(size[cur], mid - cur)]
          /\ size[cur] > inner_size(layout.size)
      BY <1>1, <2>6, Link DEF contains_split, IInv, LoopInv, matches_contains, inner_layout
    <3>2. inner_size(layout.size) \in Nat
      BY <1>1, InnerSize DEF IInv, TypeOK
    <3>3. cur <= mid /\ mid < cur + size[cur]
      <4>1. ~ (cur + inner_size(layout.size) > UMax)
        BY <1>1, <3>1, <3>2, FreeFacts, RegionFacts, WordFacts
      <4> QED BY <1>1, <3>1, <3>2, <4>1, FreeFacts DEF saturating_add
    <3> HIDE DEF mid
    <3>4. x # mid
      BY <2>2, <3>1, <3>3
    <3> QED BY <2>1, <2>3, <2>4, <3>1, <3>4
  <2>7. CASE divide_split
    <3> DEFINE mid == split_point(cur)
    <3>1. /\ cur \in free
          /\ link' = [link EXCEPT ![mid] = link[cur], ![cur] = mid]
          /\ size' = [size EXCEPT ![mid] = size[cur] - (mid - cur), ![cur] = mid - cur]
      BY <1>1, <2>7 DEF divide_split, IInv, LoopInv
    <3>2. cur <= mid /\ mid < cur + size[cur]
      BY <1>1, <3>1, FreeFacts, SplitPoint DEF IInv, NoOverlap
    <3> HIDE DEF mid
    <3>3. x # mid
      BY <2>2, <3>1, <3>2
    <3> QED BY <2>1, <2>3, <2>4, <3>1, <3>3
  <2>8. CASE insert_block
    <3>1. /\ prev \in {HEAD} \union free /\ ptr \in Addr
          /\ link' = [link EXCEPT ![ptr] = link[prev], ![prev] = ptr]
          /\ size' = [size EXCEPT ![ptr] = inner_size(layout.size)]
          /\ Disjoint(ptr, inner_size(layout.size), b.addr, b.len)
      BY <1>1, <2>8 DEF insert_block, IInv, LoopInv, NoOverlap, InFlight
    <3>2. inner_size(layout.size) \in Nat /\ inner_size(layout.size) >= 16 /\ ptr \in Nat
      BY <1>1, <3>1, InnerSize, RegionFacts DEF IInv, TypeOK, BLOCK_LEN
    <3>3. x # ptr
      BY <1>1, <2>1, <3>1, <3>2, LiveFacts DEF Disjoint
    <3> QED BY <2>1, <2>3, <2>4, <3>1, <3>3
  <2>9. CASE defrag_merge
    <3>1. /\ prev \in free /\ link' = [link EXCEPT ![prev] = popped(prev)]
          /\ size' = [size EXCEPT ![prev] = 2 * size[prev]]
      BY <1>1, <2>9, MergeTarget DEF defrag_merge
    <3> QED BY <2>1, <2>3, <2>4, <3>1
  <2>10. CASE UNCHANGED <<link, size>>
    BY <2>10
  <2> QED BY <1>1, <2>5, <2>6, <2>7, <2>8, <2>9, <2>10
          DEF Next, Loop, alloc, dealloc, scribble, panic_fmt, vars, exact_step,
              exact_fail, contains_step, exhausted, divide_step, divide_done,
              insert_step, insert_panic, defrag_step, defrag_done, advance, return
<1>2. IInv /\ [Next]_vars => [pc # "idle" => Kept]_vars
  BY <1>1
<1> QED BY <1>2, SpecIInv, PTL DEF Spec, LiveWordsKept

(* A search that starts at the head has visited no block. *)
LEMMA HeadFirst ==
  ASSUME IInv
  PROVE  { a \in free : link[HEAD] = Null \/ a < link[HEAD] } = {}
<1>1. ASSUME NEW a \in free, link[HEAD] = Null \/ a < link[HEAD] PROVE FALSE
  <2>1. link[HEAD] = Null => a <= HEAD
    BY DEF IInv, FreeListSorted, Sorted
  <2>2. link[HEAD] # Null => a <= HEAD \/ link[HEAD] <= a
    BY DEF IInv, FreeListSorted, Sorted
  <2>3. link[HEAD] \in Nat /\ a \in Nat /\ a > HEAD
    BY Link, FreeFacts DEF HEAD, IInv, TypeOK
  <2> QED BY <1>1, <2>1, <2>2, <2>3 DEF HEAD
<1> QED BY <1>1

(* A search that moves on has visited one block more. *)
LEMMA AdvanceVisits ==
  ASSUME IInv, cur \in free
  PROVE  \A a \in free : (link[cur] = Null \/ a < link[cur]) => a < cur \/ a = cur
<1> SUFFICES ASSUME NEW a \in free, link[cur] = Null \/ a < link[cur]
             PROVE  a < cur \/ a = cur
  OBVIOUS
<1>1. link[cur] = Null => a <= cur
  BY DEF IInv, FreeListSorted, Sorted
<1>2. link[cur] # Null => a <= cur \/ link[cur] <= a
  BY DEF IInv, FreeListSorted, Sorted
<1>3. link[cur] \in Nat /\ a \in Nat /\ cur \in Nat
  BY FreeFacts DEF IInv, TypeOK
<1> QED BY <1>1, <1>2, <1>3

(* Every step keeps what the searches of alloc have established so far. *)
LEMMA NextSearchInv ==
  ASSUME IInv, SearchInv, [Next]_vars
  PROVE  SearchInv'
<1> DEFINE visited == { a \in free : cur = Null \/ a < cur }
<1>1. ASSUME NEW l \in Layouts, alloc(l) PROVE SearchInv'
  <2>1. pc' = "exact" /\ visited' = {}
    BY <1>1, HeadFirst DEF alloc
  <2> QED BY <2>1 DEF SearchInv
<1>2. CASE exact_step
  <2>1. /\ pc = "exact" /\ cur \in free /\ pc' = "exact" /\ cur' = link[cur]
        /\ UNCHANGED <<free, size, layout>> /\ ~ matches_exact(cur, inner_layout(layout))
    BY <1>2, Link DEF exact_step, advance, IInv, LoopInv
  <2>2. visited' \subseteq visited \union {cur}
    BY <2>1, AdvanceVisits
  <2>3. \A a \in visited' : ~ matches_exact(a, inner_layout(layout))
    BY <2>1, <2>2 DEF SearchInv
  <2> QED BY <2>1, <2>3 DEF SearchInv, matches_exact, inner_layout
<1>3. CASE exact_fail
  <2>1. /\ pc = "exact" /\ cur = Null /\ pc' = "contains" /\ cur' = link[HEAD]
        /\ UNCHANGED <<free, size, layout>>
    BY <1>3 DEF exact_fail
  <2>2. visited' = {}
    BY <2>1, HeadFirst
  <2>3. \A a \in free : ~ matches_exact(a, inner_layout(layout))
    BY <2>1 DEF SearchInv
  <2> QED BY <2>1, <2>2, <2>3 DEF SearchInv, matches_exact, inner_layout
<1>4. CASE contains_step
  <2>1. /\ pc = "contains" /\ cur \in free /\ pc' = "contains" /\ cur' = link[cur]
        /\ UNCHANGED <<free, size, layout>> /\ ~ matches_contains(cur, inner_layout(layout))
    BY <1>4, Link DEF contains_step, advance, IInv, LoopInv
  <2>2. visited' \subseteq visited \union {cur}
    BY <2>1, AdvanceVisits
  <2>3. /\ \A a \in visited' : ~ matches_contains(a, inner_layout(layout))
        /\ \A a \in free : ~ matches_exact(a, inner_layout(layout))
    BY <2>1, <2>2 DEF SearchInv
  <2> QED BY <2>1, <2>3 DEF SearchInv, matches_contains, matches_exact, inner_layout
<1>5. CASE pc' \notin {"exact", "contains"}
  BY <1>5 DEF SearchInv
<1>6. CASE UNCHANGED vars
  BY <1>6 DEF SearchInv, vars, matches_contains, matches_exact, inner_layout
<1>7. ASSUME Loop, ~ exact_step, ~ exact_fail, ~ contains_step
      PROVE  pc' \notin {"exact", "contains"}
  BY <1>7 DEF Loop, exact_pop, contains_split, exhausted, divide_split, divide_step,
     divide_done, insert_step, insert_block, insert_panic, defrag_merge, defrag_step,
     defrag_done, advance, return, return_block
<1>8. ASSUME NEW b \in live, dealloc(b) \/ \E w \in Words : scribble(b, w)
      PROVE  pc' \notin {"exact", "contains"}
  BY <1>8 DEF dealloc, scribble
<1> QED BY <1>1, <1>2, <1>3, <1>4, <1>5, <1>6, <1>7, <1>8 DEF Next, panic_fmt

(* alloc fails only when no free block at an aligned address is large      *)
(* enough.                                                                 *)
THEOREM FailsOnlyWhenSearched == Spec => ExhaustedSearchedAll
<1> DEFINE Miss == exhausted =>
             ~ \E a \in free : /\ a % inner_layout(layout).align = 0
                               /\ size[a] >= inner_layout(layout).size
<1>1. Init => SearchInv
  BY DEF Init, new, SearchInv
<1>2. Spec => []SearchInv
  BY <1>1, NextSearchInv, SpecIInv, PTL DEF Spec
<1>3. ASSUME IInv, SearchInv, exhausted, NEW a \in free,
             a % inner_layout(layout).align = 0, size[a] >= inner_layout(layout).size
      PROVE  FALSE
  <2>1. ~ matches_exact(a, inner_layout(layout)) /\ ~ matches_contains(a, inner_layout(layout))
    BY <1>3 DEF exhausted, SearchInv
  <2>2. size[a] \in Nat /\ inner_layout(layout).size \in Nat
    BY <1>3, FreeFacts, InnerSize DEF IInv, TypeOK, inner_layout
  <2> QED BY <1>3, <2>1, <2>2 DEF matches_exact, matches_contains
<1>4. IInv /\ SearchInv => [Miss]_vars
  BY <1>3
<1> QED BY <1>2, <1>4, SpecIInv, PTL DEF ExhaustedSearchedAll

(* On from a free block there is less of the region ahead. *)
LEMMA MovesUp ==
  ASSUME IInv, cur \in free, cur' = link[cur]
  PROVE  Ahead' < Ahead
<1>1. cur \in Addr /\ cur \in Nat /\ cur # Null /\ cur < End /\ End \in Nat
  BY RegionFacts DEF IInv, TypeOK, Null, BLOCK_LEN
<1>2. link[cur] # Null => link[cur] \in Addr /\ cur < link[cur]
  BY Link DEF IInv, TypeOK, HEAD
<1>3. link[cur] # Null => link[cur] \in Nat /\ link[cur] < End
  BY <1>2, RegionFacts
<1> QED BY <1>1, <1>2, <1>3 DEF Ahead

(* Every turn of a loop makes progress: the loops over the list end for     *)
(* every region and every request.                                          *)
THEOREM EveryTurnProgresses == Spec => CallsProgress
<1> DEFINE Progress == \/ LoopsLeft' < LoopsLeft
                       \/ LoopsLeft' = LoopsLeft /\ Ahead' < Ahead
                       \/ LoopsLeft' = LoopsLeft /\ cur' = cur /\ size'[cur] < size[cur]
<1>1. ASSUME IInv, [Next]_vars, pc \notin {"idle", "panic"} PROVE [Progress]_vars
  <2> SUFFICES ASSUME Next PROVE Progress
    BY <1>1
  <2>1. Loop
    BY <1>1 DEF Next, alloc, dealloc, scribble, panic_fmt
  <2>2. ASSUME cur # Null, pc' = pc, cur' = link[cur] PROVE Progress
    <3>1. cur \in free
      BY <1>1, <2>2, Link DEF IInv, LoopInv, TypeOK, PCs
    <3>2. Ahead' < Ahead
      BY <1>1, <2>2, <3>1, MovesUp
    <3>3. LoopsLeft' = LoopsLeft
      BY <2>2 DEF LoopsLeft
    <3> QED BY <3>2, <3>3
  <2>3. CASE exact_step \/ contains_step \/ divide_step \/ insert_step \/ defrag_step
             \/ defrag_merge
    BY <2>2, <2>3 DEF exact_step, contains_step, divide_step, insert_step, defrag_step,
       defrag_merge, advance
  <2>4. CASE divide_split
    <3> DEFINE mid == split_point(cur)
    <3>1. /\ pc = "divide" /\ cur # Null /\ mid # cur /\ UNCHANGED <<pc, cur>>
          /\ size' = [size EXCEPT ![mid] = size[cur] - (mid - cur), ![cur] = mid - cur]
      BY <2>4 DEF divide_split
    <3>2. cur \in free /\ cur \in Cells /\ size \in [Cells -> Nat]
      BY <1>1, <3>1 DEF IInv, LoopInv, TypeOK
    <3>3. cur \in Nat /\ size[cur] \in Nat /\ mid \in Nat /\ mid < cur + size[cur]
      BY <1>1, <3>2, FreeFacts, SplitPoint DEF IInv, NoOverlap
    <3> HIDE DEF mid
    <3>4. size'[cur] = mid - cur
      BY <3>1, <3>2
    <3>5. size'[cur] < size[cur]
      BY <3>3, <3>4
    <3>6. LoopsLeft' = LoopsLeft
      BY <3>1 DEF LoopsLeft
    <3> QED BY <3>1, <3>5, <3>6
  <2>5. CASE exact_pop \/ exact_fail \/ contains_split \/ insert_block
    BY <2>5 DEF exact_pop, exact_fail, contains_split, insert_block, return_block, LoopsLeft
  <2>6. CASE exhausted \/ divide_done \/ insert_panic \/ defrag_done
    BY <2>6 DEF exhausted, divide_done, insert_panic, defrag_done, return, LoopsLeft
  <2> QED BY <2>1, <2>3, <2>4, <2>5, <2>6 DEF Loop
<1>2. IInv /\ [Next]_vars => [pc \notin {"idle", "panic"} => Progress]_vars
  BY <1>1
<1> QED BY <1>2, SpecIInv, PTL DEF Spec, CallsProgress

=============================================================================
