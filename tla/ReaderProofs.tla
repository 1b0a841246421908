---------------------------- MODULE ReaderProofs ----------------------------
(***************************************************************************)
(* BufReader, for every file, size of the buffer and mix of reads and      *)
(* seeks: what is read is what the file has at the caller's position, and  *)
(* Lines::next returns the lines of the file.                              *)
(***************************************************************************)
EXTENDS BufReader, SequenceTheorems, FiniteSetTheorems, WellFoundedInduction, TLAPS

RType ==
  /\ file \in Seq(FileByte) /\ buf \in Seq(FileByte) /\ data \in Seq(FileByte)
  /\ inner \in 0..Len(file) /\ pos \in 0..Len(buf) /\ at \in Int
  /\ stale \in BOOLEAN /\ revived \in BOOLEAN

(* Only a client that reads bytes reads into data, and only one that reads  *)
(* lines is ever inside next.                                               *)
RClient == (client # "bytes" => data = <<>>) /\ (call = "next" => client = "lines")

(* The buffer is what the file has before its position, unless the file was *)
(* moved; then all of the buffer is used up.                                *)
RBuffer ==
  /\ at = inner - (Len(buf) - pos)
  /\ ~revived /\ stale => pos = Len(buf)
  /\ ~revived /\ ~stale => /\ Len(buf) <= inner
                           /\ \A i \in 1..Len(buf) : buf[i] = file[inner - Len(buf) + i]

(* The last read is what the file has before the caller's position. *)
RData ==
  ~revived => /\ Len(data) <= at
              /\ \A i \in 1..Len(data) : data[i] = file[at - Len(data) + i]

RInv == RType /\ RClient /\ RBuffer /\ RData
-----------------------------------------------------------------------------
(* A set of numbers that is not empty has a least one. *)
LEMMA MinOfNat ==
  ASSUME NEW S \in SUBSET Nat, S # {}
  PROVE  Min(S) \in S /\ \A y \in S : Min(S) <= y
<1> DEFINE R == {ss \in Nat \X Nat : ss[1] < ss[2]}
<1>1. IsWellFoundedOn(R, Nat)
  BY NatLessThanWellFounded DEF OpToRel
<1>2. PICK x \in S : \A y \in S : ~(<<y, x>> \in R)
  <2> HIDE DEF R
  <2> QED
    BY <1>1, WFMin
<1>3. ASSUME NEW y \in S PROVE x <= y
  <2>1. x \in Nat /\ y \in Nat /\ <<y, x>> \in Nat \X Nat
    OBVIOUS
  <2>2. <<y, x>> \notin R
    BY <1>2
  <2>3. y < x => <<y, x>> \in R
    BY <2>1
  <2>4. QED
    BY <2>1, <2>2, <2>3
<1>4. QED
  BY <1>3 DEF Min

LEMMA MinOfTwo ==
  ASSUME NEW a \in Nat, NEW b \in Nat
  PROVE  Min({a, b}) = IF a <= b THEN a ELSE b
<1>1. Min({a, b}) \in {a, b} /\ \A y \in {a, b} : Min({a, b}) <= y
  BY MinOfNat
<1>2. QED
  BY <1>1

(* A range of a sequence, by its elements. *)
LEMMA Piece ==
  ASSUME NEW s \in Seq(FileByte), NEW a \in 0..Len(s), NEW b \in a..Len(s)
  PROVE  /\ SubSeq(s, a + 1, b) \in Seq(FileByte) /\ Len(SubSeq(s, a + 1, b)) = b - a
         /\ \A i \in 1..(b - a) : SubSeq(s, a + 1, b)[i] = s[a + i]
<1>1. Len(s) \in Nat /\ a \in Nat /\ b \in Nat /\ a <= b /\ b <= Len(s)
  OBVIOUS
<1>2. \A i \in (a + 1)..b : s[i] \in FileByte
  BY <1>1
<1>3. /\ SubSeq(s, a + 1, b) \in Seq(FileByte)
      /\ Len(SubSeq(s, a + 1, b)) = IF a + 1 <= b THEN b - (a + 1) + 1 ELSE 0
      /\ \A i \in 1..(b - (a + 1) + 1) : SubSeq(s, a + 1, b)[i] = s[a + 1 + i - 1]
  BY <1>1, <1>2, SubSeqProperties
<1>4. b - (a + 1) + 1 = b - a /\ \A i \in Int : a + 1 + i - 1 = a + i
  BY <1>1
<1>5. QED
  BY <1>1, <1>3, <1>4

(* A read of the file ends within it. *)
LEMMA CountsFit ==
  ASSUME RInv, NEW k \in Nat, NEW m \in counts(k)
  PROVE  m \in Nat /\ inner + m <= Len(file)
<1>1. Len(file) \in Nat /\ inner \in 0..Len(file) /\ Len(file) - inner \in Nat
  BY DEF RInv, RType
<1>2. Min({k, Len(file) - inner}) = IF k <= Len(file) - inner THEN k ELSE Len(file) - inner
  BY <1>1, MinOfTwo
<1>3. QED
  BY <1>1, <1>2 DEF counts

(* b, used up to p, is what the file has before n, for a caller at its      *)
(* position.                                                                *)
Holds(b, p, n) ==
  /\ b \in Seq(FileByte) /\ p \in 0..Len(b) /\ n \in 0..Len(file) /\ at = n - (Len(b) - p)
  /\ ~revived => Len(b) <= n /\ \A i \in 1..Len(b) : b[i] = file[n - Len(b) + i]

(* fill_buf leaves in the buffer what the file has before its position. *)
LEMMA Filled ==
  ASSUME RInv, NEW m \in fills
  PROVE  \E b, p, n : Holds(b, p, n) /\ fill_buf(m) = [buf |-> b, pos |-> p, inner |-> n]
<1>1. /\ file \in Seq(FileByte) /\ Len(file) \in Nat /\ inner \in 0..Len(file)
      /\ buf \in Seq(FileByte) /\ Len(buf) \in Nat /\ pos \in 0..Len(buf)
      /\ at = inner - (Len(buf) - pos)
  BY DEF RInv, RType, RBuffer
<1>2. CASE pos >= Len(buf)
  <2>1. fill_buf(m) = [buf |-> SubSeq(file, inner + 1, inner + m), pos |-> 0, inner |-> inner + m]
    BY <1>2 DEF fill_buf, cap
  <2>2. m \in Nat /\ inner + m <= Len(file)
    BY <1>2, CountsFit, ReaderAssumption DEF fills, cap
  <2>3. inner + m \in inner..Len(file) /\ (inner + m) - inner = m
    BY <1>1, <2>2
  <2>4. /\ SubSeq(file, inner + 1, inner + m) \in Seq(FileByte)
        /\ Len(SubSeq(file, inner + 1, inner + m)) = m
        /\ \A i \in 1..m : SubSeq(file, inner + 1, inner + m)[i] = file[inner + i]
    BY <1>1, <2>3, Piece
  <2>5. /\ (inner + m) - m = inner /\ at = (inner + m) - (m - 0)
        /\ 0 \in 0..m /\ inner + m \in 0..Len(file) /\ m <= inner + m
    BY <1>1, <1>2, <2>2
  <2>6. Holds(SubSeq(file, inner + 1, inner + m), 0, inner + m)
    BY <2>4, <2>5 DEF Holds
  <2>7. QED
    BY <2>1, <2>6
<1>3. CASE ~(pos >= Len(buf))
  <2>1. fill_buf(m) = [buf |-> buf, pos |-> pos, inner |-> inner]
    BY <1>3 DEF fill_buf, cap
  <2>2. pos # Len(buf)
    BY <1>1, <1>3
  <2>3. Holds(buf, pos, inner)
    BY <1>1, <2>2 DEF RInv, RBuffer, Holds
  <2>4. QED
    BY <2>1, <2>3
<1>4. QED
  BY <1>2, <1>3

(* What is available then. *)
LEMMA Available ==
  ASSUME NEW b, NEW p, NEW n, Holds(b, p, n)
  PROVE  LET s == available([buf |-> b, pos |-> p, inner |-> n])
         IN  /\ s \in Seq(FileByte) /\ Len(s) = Len(b) - p
             /\ \A i \in 1..(Len(b) - p) : s[i] = b[p + i]
<1>1. available([buf |-> b, pos |-> p, inner |-> n]) = SubSeq(b, p + 1, Len(b))
  BY DEF available
<1>2. b \in Seq(FileByte) /\ p \in 0..Len(b) /\ Len(b) \in p..Len(b)
  BY DEF Holds
<1>3. /\ SubSeq(b, p + 1, Len(b)) \in Seq(FileByte)
      /\ Len(SubSeq(b, p + 1, Len(b))) = Len(b) - p
      /\ \A i \in 1..(Len(b) - p) : SubSeq(b, p + 1, Len(b))[i] = b[p + i]
  BY <1>2, Piece
<1>4. QED
  BY <1>1, <1>3

(* The reader after some of what is available is used up. *)
LEMMA Advanced ==
  ASSUME RInv, NEW b, NEW p, NEW n, Holds(b, p, n), NEW used \in 0..(Len(b) - p),
         advance([buf |-> b, pos |-> p, inner |-> n], used),
         at' = at + used, file' = file, revived' = revived
  PROVE  /\ buf' \in Seq(FileByte) /\ inner' \in 0..Len(file') /\ pos' \in 0..Len(buf')
         /\ at' \in Int /\ stale' \in BOOLEAN /\ RBuffer'
<1>1. /\ b \in Seq(FileByte) /\ p \in 0..Len(b) /\ n \in 0..Len(file)
      /\ at = n - (Len(b) - p)
  BY DEF Holds
<1>2. Len(b) \in Nat /\ Len(file) \in Nat
  BY <1>1 DEF RInv, RType
<1>3. used \in Nat /\ p \in Nat /\ n \in Nat /\ p + used <= Len(b) /\ p + used \in 0..Len(b)
  BY <1>1, <1>2
<1>4. Min({p + used, Len(b)}) = p + used
  BY <1>2, <1>3, MinOfTwo
<1>5. buf' = b /\ inner' = n /\ pos' = p + used
  BY <1>4 DEF advance, consume
<1>6. stale' \in BOOLEAN /\ (stale' => pos < Len(buf) /\ stale)
  BY DEF advance, cap
<1>7. ~revived => ~stale'
  <2>1. pos < Len(buf) => pos # Len(buf)
    BY DEF RInv, RType
  <2>2. QED
    BY <1>6, <2>1 DEF RInv, RBuffer
<1>8. at' = inner' - (Len(buf') - pos') /\ at' \in Int
  BY <1>1, <1>2, <1>3, <1>5
<1>9. RBuffer'
  BY <1>5, <1>7, <1>8 DEF RBuffer, Holds
<1>10. QED
  BY <1>1, <1>3, <1>5, <1>6, <1>8, <1>9
-----------------------------------------------------------------------------
(* A turn of read_until. *)
LEMMA ReadUntilKeeps ==
  ASSUME RInv, NEW m, read_until(m)
  PROVE  RInv'
<1> DEFINE hits == memchr(NL, available(fill_buf(m)))
           used == IF hits = {} THEN Len(available(fill_buf(m))) ELSE Min(hits)
<1>1. /\ call = "next" /\ m \in fills /\ advance(fill_buf(m), used) /\ at' = at + used
      /\ UNCHANGED <<client, file, data, revived>> /\ (call' = call \/ call' = "idle")
  BY DEF read_until
<1>2. client = "lines" /\ data = <<>>
  BY <1>1 DEF RInv, RClient
<1>3. PICK b, p, n : Holds(b, p, n) /\ fill_buf(m) = [buf |-> b, pos |-> p, inner |-> n]
  BY <1>1, Filled
<1>4. used \in 0..(Len(b) - p)
  <2>1. Len(available(fill_buf(m))) = Len(b) - p /\ Len(b) - p \in Nat
    BY <1>3, Available DEF Holds
  <2>2. hits \in SUBSET Nat /\ \A i \in hits : i \in 1..(Len(b) - p)
    BY <2>1 DEF memchr
  <2> HIDE DEF hits
  <2>3. hits # {} => Min(hits) \in 1..(Len(b) - p)
    BY <2>2, MinOfNat
  <2>4. CASE hits = {}
    BY <2>1, <2>4
  <2>5. CASE hits # {}
    BY <2>1, <2>3, <2>5
  <2>6. QED
    BY <2>4, <2>5
<1> HIDE DEF used
<1>5. /\ buf' \in Seq(FileByte) /\ inner' \in 0..Len(file') /\ pos' \in 0..Len(buf')
      /\ at' \in Int /\ stale' \in BOOLEAN /\ RBuffer'
  BY <1>1, <1>3, <1>4, Advanced
<1>6. RType'
  BY <1>1, <1>5 DEF RInv, RType
<1>7. RClient'
  BY <1>1 DEF RInv, RClient
<1>8. RData'
  <2>1. Len(data) = 0 /\ data' = data
    BY <1>1, <1>2, EmptySeq
  <2>2. used \in Nat
    BY <1>3, <1>4 DEF Holds
  <2>3. ~revived => 0 <= at /\ at \in Int
    BY <2>1 DEF RInv, RData, RType
  <2>4. QED
    BY <1>1, <2>1, <2>2, <2>3 DEF RData
<1>9. QED
  BY <1>5, <1>6, <1>7, <1>8 DEF RInv

(* BufReader::read. *)
LEMMA ReadKeeps ==
  ASSUME RInv, NEW k \in Nat, NEW m, read(k, m)
  PROVE  RInv'
<1>1. /\ client = "bytes" /\ at' = at + Len(data')
      /\ UNCHANGED <<client, file, call, revived>>
  BY DEF read
<1>2. RClient'
  BY <1>1 DEF RInv, RClient
<1>3. /\ file \in Seq(FileByte) /\ Len(file) \in Nat /\ inner \in 0..Len(file)
      /\ buf \in Seq(FileByte) /\ Len(buf) \in Nat /\ pos \in 0..Len(buf)
      /\ at = inner - (Len(buf) - pos) /\ at \in Int /\ revived \in BOOLEAN
  BY DEF RInv, RType, RBuffer
<1>4. CASE pos = cap /\ k >= BufSize
  <2>1. /\ m \in counts(k) /\ data' = SubSeq(file, inner + 1, inner + m)
        /\ inner' = inner + m /\ stale' = TRUE /\ buf' = buf /\ pos' = pos
    BY <1>4 DEF read
  <2>2. m \in Nat /\ inner + m <= Len(file)
    BY <2>1, CountsFit
  <2>3. inner + m \in inner..Len(file) /\ (inner + m) - inner = m
    BY <1>3, <2>2
  <2>4. data' \in Seq(FileByte) /\ Len(data') = m /\ \A i \in 1..m : data'[i] = file[inner + i]
    BY <1>3, <2>1, <2>3, Piece
  <2>5. pos = Len(buf) /\ at = inner
    BY <1>3, <1>4 DEF cap
  <2>6. stale' \in BOOLEAN
    BY <2>1
  <2>7. RType'
    BY <1>1, <1>3, <2>1, <2>2, <2>4, <2>6 DEF RType
  <2>8. RBuffer'
    BY <1>1, <1>3, <2>1, <2>2, <2>4, <2>5 DEF RBuffer
  <2>9. RData'
    <3>1. at' - Len(data') = inner /\ Len(data') <= at'
      BY <1>1, <1>3, <2>2, <2>4, <2>5
    <3>2. QED
      BY <1>1, <2>4, <3>1 DEF RData
  <2>10. QED
    BY <1>2, <2>7, <2>8, <2>9 DEF RInv
<1>5. CASE ~(pos = cap /\ k >= BufSize)
  <2>1. /\ m \in fills /\ advance(fill_buf(m), Len(data'))
        /\ data' = SubSeq(available(fill_buf(m)), 1, Min({k, Len(available(fill_buf(m)))}))
    BY <1>5 DEF read
  <2>2. PICK b, p, n : Holds(b, p, n) /\ fill_buf(m) = [buf |-> b, pos |-> p, inner |-> n]
    BY <2>1, Filled
  <2> DEFINE s == available(fill_buf(m))
  <2>3. s \in Seq(FileByte) /\ Len(s) = Len(b) - p /\ \A i \in 1..(Len(b) - p) : s[i] = b[p + i]
    <3> DEFINE t == available([buf |-> b, pos |-> p, inner |-> n])
    <3>1. t \in Seq(FileByte) /\ Len(t) = Len(b) - p /\ \A i \in 1..(Len(b) - p) : t[i] = b[p + i]
      BY <2>2, Available
    <3>2. s = t
      BY <2>2
    <3> HIDE DEF s, t
    <3>3. QED
      BY <3>1, <3>2
  <2>4. data' = SubSeq(s, 1, Min({k, Len(s)}))
    BY <2>1
  <2> HIDE DEF s
  <2> DEFINE c == Min({k, Len(s)})
  <2>5. /\ data' \in Seq(FileByte) /\ c \in 0..(Len(b) - p) /\ Len(data') = c
        /\ \A i \in 1..c : data'[i] = b[p + i]
    <3>1. Len(s) \in Nat /\ 0 \in 0..Len(s) /\ c \in 0..Len(s)
      BY <2>3, MinOfTwo
    <3> HIDE DEF c
    <3>2. 0 + 1 = 1 /\ c - 0 = c /\ \A i \in 1..c : 0 + i = i
      BY <3>1
    <3>3. data' = SubSeq(s, 0 + 1, c)
      BY <2>4, <3>2 DEF c
    <3>4. data' \in Seq(FileByte) /\ Len(data') = c /\ \A i \in 1..c : data'[i] = s[i]
      BY <2>3, <3>1, <3>2, <3>3, Piece
    <3>5. c \in 0..(Len(b) - p)
      BY <2>3, <3>1
    <3>6. \A i \in 1..c : i \in 1..(Len(b) - p)
      BY <2>3, <3>1, <3>5
    <3>7. QED
      BY <2>3, <3>4, <3>5, <3>6
  <2> HIDE DEF c
  <2>6. /\ buf' \in Seq(FileByte) /\ inner' \in 0..Len(file') /\ pos' \in 0..Len(buf')
        /\ at' \in Int /\ stale' \in BOOLEAN /\ RBuffer'
    BY <1>1, <2>1, <2>2, <2>5, Advanced
  <2>7. RType'
    BY <1>1, <1>3, <2>5, <2>6 DEF RType
  <2>8. RData'
    <3>1. Len(b) \in Nat /\ p \in 0..Len(b) /\ n \in 0..Len(file) /\ at = n - (Len(b) - p)
      BY <2>2 DEF Holds
    <3>2. n \in Nat /\ c \in Nat /\ c <= Len(b) - p
      BY <1>3, <2>5, <3>1
    <3>3. at' - Len(data') = at
      BY <1>1, <1>3, <2>5, <3>2
    <3>4. SUFFICES ASSUME ~revived
                   PROVE  Len(data') <= at' /\ \A i \in 1..c : data'[i] = file[at + i]
      BY <1>1, <2>5, <3>3 DEF RData
    <3>5. Len(b) <= n /\ \A i \in 1..Len(b) : b[i] = file[n - Len(b) + i]
      BY <2>2, <3>4 DEF Holds
    <3>6. Len(data') <= at'
      BY <1>1, <2>5, <3>1, <3>2, <3>5
    <3>7. ASSUME NEW i \in 1..c PROVE data'[i] = file[at + i]
      <4>1. p + i \in 1..Len(b) /\ n - Len(b) + (p + i) = at + i
        BY <3>1, <3>2
      <4>2. data'[i] = b[p + i]
        BY <2>5
      <4>3. b[p + i] = file[n - Len(b) + (p + i)]
        BY <3>5, <4>1
      <4>4. QED
        BY <4>1, <4>2, <4>3
    <3>8. QED
      BY <3>6, <3>7
  <2>9. QED
    BY <1>2, <2>6, <2>7, <2>8 DEF RInv
<1>6. QED
  BY <1>4, <1>5

(* After a move of the file to p the buffer is used up. *)
LEMMA MovedKeeps ==
  ASSUME RInv, NEW p \in Places, inner' = p, pos' = Len(buf), at' = p, stale' = TRUE,
         client = "bytes", UNCHANGED <<client, file, buf, call, revived>>,
         data' = <<>> \/ (data' = data /\ at' = at)
  PROVE  RInv'
<1>1. /\ file \in Seq(FileByte) /\ Len(file) \in Nat /\ p \in 0..Len(file)
      /\ buf \in Seq(FileByte) /\ Len(buf) \in Nat
  BY DEF RInv, RType, Places
<1>2. data' \in Seq(FileByte)
  BY EmptySeq DEF RInv, RType
<1>3. stale' \in BOOLEAN /\ revived \in BOOLEAN
  BY DEF RInv, RType
<1>4. RType'
  BY <1>1, <1>2, <1>3 DEF RType
<1>5. RClient' /\ RBuffer'
  BY <1>1 DEF RInv, RClient, RBuffer
<1>6. RData'
  BY <1>1, EmptySeq DEF RInv, RData
<1>7. QED
  BY <1>4, <1>5, <1>6 DEF RInv

LEMMA SeekCurrentKeeps ==
  ASSUME RInv, NEW k \in Int, client = "bytes", seek_current(k)
  PROVE  RInv'
<1>1. inner + k - remainder \in Places /\ seeked(inner + k - remainder, at + k)
  BY DEF seek_current
<1>2. at + k = inner + k - remainder
  BY DEF RInv, RType, RBuffer, remainder, cap
<1>3. QED
  BY <1>1, <1>2, MovedKeeps DEF seeked, cap

LEMMA SeekRelativeKeeps ==
  ASSUME RInv, NEW k \in Int, seek_relative(k)
  PROVE  RInv'
<1>1. CASE ~(pos + k \in 0..cap)
  BY <1>1, SeekCurrentKeeps DEF seek_relative
<1>2. CASE pos + k \in 0..cap
  <2>1. /\ client = "bytes" /\ pos' = pos + k /\ at' = at + k /\ data' = <<>>
        /\ revived' = (revived \/ (stale /\ k < 0))
        /\ UNCHANGED <<client, file, inner, buf, call, stale>>
    BY <1>2 DEF seek_relative
  <2>2. /\ Len(file) \in Nat /\ inner \in 0..Len(file) /\ Len(buf) \in Nat
        /\ pos \in 0..Len(buf) /\ at \in Int /\ at = inner - (Len(buf) - pos)
        /\ pos + k \in 0..Len(buf)
    BY <1>2 DEF RInv, RType, RBuffer, cap
  <2>3. revived' \in BOOLEAN /\ (~revived' => ~revived /\ ~(stale /\ k < 0))
    BY <2>1 DEF RInv, RType
  <2>4. ~revived' /\ stale => k = 0
    BY <2>2, <2>3 DEF RInv, RBuffer
  <2>5. RType'
    BY <2>1, <2>2, <2>3, EmptySeq DEF RInv, RType
  <2>6. RClient'
    BY <2>1 DEF RInv, RClient
  <2>7. RBuffer'
    <3>1. at' = inner' - (Len(buf') - pos')
      BY <2>1, <2>2
    <3>2. ~revived' /\ stale' => pos' = Len(buf')
      <4>1. ~revived' /\ stale => pos = Len(buf) /\ k = 0
        BY <2>3, <2>4 DEF RInv, RBuffer
      <4>2. QED
        BY <2>1, <2>2, <4>1
    <3>3. ~revived' /\ ~stale' =>
            Len(buf') <= inner' /\ \A i \in 1..Len(buf') : buf'[i] = file'[inner' - Len(buf') + i]
      <4>1. ~revived' /\ ~stale =>
              Len(buf) <= inner /\ \A i \in 1..Len(buf) : buf[i] = file[inner - Len(buf) + i]
        BY <2>3 DEF RInv, RBuffer
      <4>2. QED
        BY <2>1, <4>1
    <3>4. QED
      BY <3>1, <3>2, <3>3 DEF RBuffer
  <2>8. RData'
    <3>1. ~revived' => 0 <= at'
      <4>1. ~revived => 0 <= at
        BY <2>2 DEF RInv, RData, RType
      <4>2. CASE stale
        BY <2>1, <2>2, <2>3, <2>4, <4>1, <4>2
      <4>3. CASE ~stale
        BY <2>1, <2>2, <2>3, <4>3 DEF RInv, RBuffer
      <4>4. QED
        BY <4>2, <4>3
    <3>2. Len(data') = 0
      BY <2>1, EmptySeq
    <3>3. QED
      BY <3>1, <3>2 DEF RData
  <2>9. QED
    BY <2>5, <2>6, <2>7, <2>8 DEF RInv
<1>3. QED
  BY <1>1, <1>2

(* A call that moves nothing. *)
LEMMA UnmovedKeeps ==
  ASSUME RInv, unmoved, call' = "next" => client = "lines"
  PROVE  RInv'
BY DEF RInv, RType, RClient, RBuffer, RData, unmoved
-----------------------------------------------------------------------------
LEMMA ReaderNextKeeps == RInv /\ [ReaderNext]_reader_vars => RInv'
<1> SUFFICES ASSUME RInv, [ReaderNext]_reader_vars PROVE RInv'
  OBVIOUS
<1>1. CASE lines_next
  BY <1>1, UnmovedKeeps DEF lines_next, unmoved
<1>2. CASE UNCHANGED reader_vars
  BY <1>2, UnmovedKeeps DEF reader_vars, unmoved, RInv, RClient
<1>3. CASE read_until_interrupted
  BY <1>2, <1>3 DEF read_until_interrupted
<1>4. CASE read_until_fails
  BY <1>4, UnmovedKeeps DEF read_until_fails
<1>5. ASSUME NEW m \in 0..BufSize, read_until(m) PROVE RInv'
  BY <1>5, ReadUntilKeeps
<1>6. ASSUME NEW k \in 0..(BufSize + 1), NEW m \in 0..(BufSize + 1), read(k, m) PROVE RInv'
  BY <1>6, ReadKeeps, ReaderAssumption
<1>7. CASE read_fails \/ seek_fails
  BY <1>7, UnmovedKeeps DEF read_fails, seek_fails, RInv, RClient
<1>8. ASSUME NEW p \in {0, Len(file)}, seek(p) PROVE RInv'
  BY <1>8, MovedKeeps DEF seek, seeked, cap
<1>9. ASSUME NEW k \in Offsets,
             (client = "bytes" /\ seek_current(k)) \/ seek_fails_halfway(k) \/ seek_relative(k)
      PROVE  RInv'
  <2>1. k \in Int
    BY ReaderAssumption DEF Offsets, I64Min
  <2>2. CASE client = "bytes" /\ seek_current(k)
    BY <2>1, <2>2, SeekCurrentKeeps
  <2>3. CASE seek_relative(k)
    BY <2>1, <2>3, SeekRelativeKeeps
  <2>4. CASE seek_fails_halfway(k)
    <3>1. inner - remainder = at
      BY DEF RInv, RType, RBuffer, remainder, cap
    <3>2. QED
      BY <2>4, <3>1, MovedKeeps DEF seek_fails_halfway, cap
  <2>5. QED
    BY <1>9, <2>2, <2>3, <2>4
<1>10. QED
  BY <1>1, <1>2, <1>3, <1>4, <1>5, <1>6, <1>7, <1>8, <1>9 DEF ReaderNext

(* A reader begins with nothing in its buffer. *)
LEMMA ReaderStarts == ReaderInit => RInv
<1> SUFFICES ASSUME ReaderInit PROVE RInv
  OBVIOUS
<1>1. file \in Seq(FileByte) /\ <<>> \in Seq(FileByte) /\ Len(<<>>) = 0
  BY ReaderAssumption, EmptySeq DEF ReaderInit
<1>2. stale \in BOOLEAN /\ revived \in BOOLEAN
  BY DEF ReaderInit
<1>3. RType
  BY <1>1, <1>2 DEF ReaderInit, RType
<1>4. RClient /\ RBuffer
  <2>1. Len(buf) = 0 /\ pos = 0 /\ inner = 0 /\ at = 0 /\ ~stale
    BY <1>1 DEF ReaderInit
  <2>2. RBuffer
    BY <2>1 DEF RBuffer
  <2>3. QED
    BY <2>2 DEF ReaderInit, RClient
<1>5. RData
  <2>1. Len(data) = 0 /\ at = 0
    BY <1>1 DEF ReaderInit
  <2>2. QED
    BY <2>1 DEF RData
<1>6. QED
  BY <1>3, <1>4, <1>5 DEF RInv

THEOREM ReaderInvariant == ReaderSpec => []RInv
BY ReaderStarts, ReaderNextKeeps, PTL DEF ReaderSpec

(* Whatever the sizes of the buffer, of the file and of the reads, and      *)
(* however reads and seeks are mixed and fail, the bytes that read returns  *)
(* are the file's at the caller's position, until seek_relative goes back   *)
(* into a buffer that the file has left behind (ReadsAreTrue).              *)
THEOREM ReadsComeFromTheFile == ReaderSpec => []ReadsAreTrue
<1>1. RInv => ReadsAreTrue
  <2> SUFFICES ASSUME RInv PROVE ReadsAreTrue
    OBVIOUS
  <2>1. /\ file \in Seq(FileByte) /\ Len(file) \in Nat /\ inner \in 0..Len(file)
        /\ buf \in Seq(FileByte) /\ Len(buf) \in Nat /\ pos \in 0..Len(buf)
        /\ data \in Seq(FileByte) /\ Len(data) \in Nat
        /\ at \in Int /\ at = inner - (Len(buf) - pos)
    BY DEF RInv, RType, RBuffer
  <2>2. at = inner - remainder
    BY <2>1 DEF remainder, cap
  <2>3. ASSUME ~revived PROVE SubSeq(buf, pos + 1, cap) = SubSeq(file, at + 1, inner)
    <3>1. at \in 0..Len(file) /\ inner \in at..Len(file) /\ Len(buf) \in pos..Len(buf)
          /\ inner - at = Len(buf) - pos
      BY <2>1, <2>3 DEF RInv, RData
    <3>2. /\ SubSeq(buf, pos + 1, Len(buf)) \in Seq(FileByte)
          /\ Len(SubSeq(buf, pos + 1, Len(buf))) = Len(buf) - pos
          /\ \A i \in 1..(Len(buf) - pos) : SubSeq(buf, pos + 1, Len(buf))[i] = buf[pos + i]
      BY <2>1, <3>1, Piece
    <3>3. /\ SubSeq(file, at + 1, inner) \in Seq(FileByte)
          /\ Len(SubSeq(file, at + 1, inner)) = inner - at
          /\ \A i \in 1..(inner - at) : SubSeq(file, at + 1, inner)[i] = file[at + i]
      BY <2>1, <3>1, Piece
    <3>4. ASSUME NEW i \in 1..(Len(buf) - pos) PROVE buf[pos + i] = file[at + i]
      <4>1. pos + i \in 1..Len(buf) /\ inner - Len(buf) + (pos + i) = at + i /\ pos # Len(buf)
        BY <2>1
      <4>2. buf[pos + i] = file[inner - Len(buf) + (pos + i)]
        BY <2>3, <4>1 DEF RInv, RBuffer
      <4>3. QED
        BY <4>1, <4>2
    <3> DEFINE rest == SubSeq(buf, pos + 1, Len(buf))
               piece == SubSeq(file, at + 1, inner)
    <3>5. /\ rest \in Seq(FileByte) /\ piece \in Seq(FileByte) /\ Len(rest) = Len(piece)
          /\ \A i \in 1..Len(rest) : rest[i] = piece[i]
      BY <3>1, <3>2, <3>3, <3>4
    <3> HIDE DEF rest, piece
    <3>6. rest = piece
      BY <3>5, SeqEqual
    <3>7. QED
      BY <3>6 DEF rest, piece, cap
  <2>4. ASSUME ~revived PROVE data = SubSeq(file, at - Len(data) + 1, at)
    <3>1. at - Len(data) \in 0..Len(file) /\ at \in (at - Len(data))..Len(file)
          /\ at - (at - Len(data)) = Len(data)
      BY <2>1, <2>4 DEF RInv, RData
    <3>2. /\ SubSeq(file, at - Len(data) + 1, at) \in Seq(FileByte)
          /\ Len(SubSeq(file, at - Len(data) + 1, at)) = Len(data)
          /\ \A i \in 1..Len(data) :
               SubSeq(file, at - Len(data) + 1, at)[i] = file[at - Len(data) + i]
      BY <2>1, <3>1, Piece
    <3> DEFINE piece == SubSeq(file, at - Len(data) + 1, at)
    <3>3. \A i \in 1..Len(data) : data[i] = file[at - Len(data) + i]
      BY <2>4 DEF RInv, RData
    <3>4. /\ piece \in Seq(FileByte) /\ Len(piece) = Len(data)
          /\ \A i \in 1..Len(data) : data[i] = piece[i]
      BY <3>2, <3>3
    <3> HIDE DEF piece
    <3>5. data = piece
      BY <2>1, <3>4, SeqEqual
    <3>6. QED
      BY <3>5 DEF piece
  <2>5. QED
    BY <2>2, <2>3, <2>4 DEF ReadsAreTrue
<1>2. QED
  BY <1>1, ReaderInvariant, PTL
-----------------------------------------------------------------------------
(* The ends of lines are positions of the sequence, so there are finitely   *)
(* many, and so are those before a position.                                *)
LEMMA EndsFinite ==
  ASSUME NEW s \in Seq(FileByte)
  PROVE  /\ LineEnds(s) \subseteq 0..Len(s) /\ 0 \in LineEnds(s) /\ Len(s) \in LineEnds(s)
         /\ IsFiniteSet(LineEnds(s)) /\ Cardinality(LineEnds(s)) \in Nat
         /\ \A e \in Int : /\ IsFiniteSet({f \in LineEnds(s) : f < e})
                           /\ rank(s, e) \in Nat
<1>1. Len(s) \in Nat
  OBVIOUS
<1>2. LineEnds(s) \subseteq 0..Len(s) /\ 0 \in LineEnds(s) /\ Len(s) \in LineEnds(s)
  BY <1>1 DEF LineEnds, memchr
<1>3. IsFiniteSet(LineEnds(s))
  <2>1. IsFiniteSet(0..Len(s))
    <3>1. 0 \in Int /\ Len(s) \in Int
      BY <1>1
    <3>2. QED
      BY <3>1, FS_Interval
  <2>2. LineEnds(s) \in SUBSET (0..Len(s))
    BY <1>2
  <2>3. QED
    BY <2>1, <2>2, FS_Subset
<1>4. \A e \in Int : IsFiniteSet({f \in LineEnds(s) : f < e})
  <2> TAKE e \in Int
  <2>1. {f \in LineEnds(s) : f < e} \in SUBSET LineEnds(s)
    OBVIOUS
  <2>2. QED
    BY <1>3, <2>1, FS_Subset
<1>5. QED
  BY <1>2, <1>3, <1>4, FS_CardinalityType DEF rank

(* The end of a line has one end fewer before it than the next end has. *)
LEMMA RankOfNext ==
  ASSUME NEW s \in Seq(FileByte), NEW e \in LineEnds(s), NEW g \in LineEnds(s), e < g,
         \A f \in LineEnds(s) : ~(e < f /\ f < g)
  PROVE  rank(s, g) = rank(s, e) + 1
<1> DEFINE S == {f \in LineEnds(s) : f < e}
<1>1. e \in Int /\ g \in Int /\ \A f \in LineEnds(s) : f \in Int
  BY EndsFinite
<1>2. {f \in LineEnds(s) : f < g} = S \cup {e}
  <2>1. \A f \in LineEnds(s) : f < g <=> f < e \/ f = e
    BY <1>1
  <2>2. QED
    BY <2>1, Zenon
<1>3. IsFiniteSet(S) /\ e \notin S
  BY <1>1, EndsFinite
<1> HIDE DEF S
<1>4. Cardinality(S \cup {e}) = Cardinality(S) + 1
  BY <1>3, FS_AddElement
<1>5. QED
  BY <1>2, <1>4 DEF rank, S

(* Ends have different ranks, in their order. *)
LEMMA RankGrows ==
  ASSUME NEW s \in Seq(FileByte), NEW e \in LineEnds(s), NEW g \in LineEnds(s), e < g
  PROVE  rank(s, e) < rank(s, g)
<1> DEFINE S == {f \in LineEnds(s) : f < e}
           T == {f \in LineEnds(s) : f < g}
<1>1. e \in Int /\ g \in Int /\ \A f \in LineEnds(s) : f \in Int
  BY EndsFinite
<1>2. S \in SUBSET T /\ e \in T /\ e \notin S
  <2>1. (\A f \in LineEnds(s) : f < e => f < g) /\ ~(e < e)
    BY <1>1
  <2>2. QED
    BY <2>1, Zenon
<1>3. IsFiniteSet(T) /\ rank(s, e) \in Nat /\ rank(s, g) \in Nat
  BY <1>1, EndsFinite
<1> HIDE DEF S, T
<1>4. Cardinality(S) <= Cardinality(T) /\ (Cardinality(T) = Cardinality(S) => T = S)
  BY <1>2, <1>3, FS_Subset
<1>5. Cardinality(S) = rank(s, e) /\ Cardinality(T) = rank(s, g) /\ T # S
  BY <1>2 DEF S, T, rank
<1>6. QED
  BY <1>3, <1>4, <1>5

(* line_end finds the end of a rank. *)
LEMMA EndOfRank ==
  ASSUME NEW s \in Seq(FileByte), NEW e \in LineEnds(s)
  PROVE  line_end(s, rank(s, e)) = e
<1>1. \A f \in LineEnds(s) : f \in Int /\ rank(s, f) \in Nat
  <2>1. \A f \in LineEnds(s) : f \in Int
    BY EndsFinite
  <2>2. QED
    BY <2>1, EndsFinite, Zenon
<1>2. ASSUME NEW f \in LineEnds(s), rank(s, f) = rank(s, e) PROVE f = e
  <2>1. ~(f < e) /\ ~(e < f)
    BY <1>1, <1>2, RankGrows
  <2>2. QED
    BY <1>1, <2>1
<1>3. line_end(s, rank(s, e)) \in LineEnds(s) /\ rank(s, line_end(s, rank(s, e))) = rank(s, e)
  BY DEF line_end
<1>4. QED
  BY <1>2, <1>3

(* The ranks of the first and the last end. *)
LEMMA RankBounds ==
  ASSUME NEW s \in Seq(FileByte)
  PROVE  /\ rank(s, 0) = 0 /\ rank(s, Len(s)) = Cardinality(LineEnds(s)) - 1
         /\ \A e \in LineEnds(s) : rank(s, e) <= Cardinality(LineEnds(s)) - 1
<1>1. Len(s) \in Nat /\ \A f \in LineEnds(s) : f \in Int /\ 0 <= f /\ f <= Len(s)
  BY EndsFinite
<1>2. rank(s, 0) = 0
  <2>1. {f \in LineEnds(s) : f < 0} = {}
    BY <1>1
  <2>2. QED
    BY <2>1, FS_EmptySet DEF rank
<1>3. rank(s, Len(s)) = Cardinality(LineEnds(s)) - 1
  <2>1. {f \in LineEnds(s) : f < Len(s)} = LineEnds(s) \ {Len(s)}
    BY <1>1
  <2>2. Cardinality(LineEnds(s) \ {Len(s)}) = Cardinality(LineEnds(s)) - 1
    BY EndsFinite, FS_RemoveElement
  <2>3. QED
    BY <2>1, <2>2 DEF rank
<1>4. ASSUME NEW e \in LineEnds(s) PROVE rank(s, e) <= rank(s, Len(s))
  <2>1. e < Len(s) \/ e = Len(s)
    BY <1>1
  <2>2. rank(s, e) \in Nat /\ rank(s, Len(s)) \in Nat /\ Len(s) \in LineEnds(s)
    BY <1>1, EndsFinite
  <2>3. e < Len(s) => rank(s, e) < rank(s, Len(s))
    BY <2>2, RankGrows
  <2>4. QED
    BY <2>1, <2>2, <2>3
<1>5. QED
  BY <1>2, <1>3, <1>4

(* What lies between two ends that follow each other is a line. *)
LEMMA NextLine ==
  ASSUME NEW s \in Seq(FileByte), NEW e \in LineEnds(s), NEW g \in LineEnds(s), e < g,
         \A f \in (e + 1)..(g - 1) : s[f] # NL
  PROVE  /\ rank(s, g) = rank(s, e) + 1
         /\ RawLines(s)[rank(s, g)] = SubSeq(s, e + 1, g)
<1>1. Len(s) \in Nat /\ e \in 0..Len(s) /\ g \in 0..Len(s)
  BY EndsFinite
<1>2. \A f \in LineEnds(s) : ~(e < f /\ f < g)
  <2> SUFFICES ASSUME NEW f \in LineEnds(s), e < f, f < g PROVE FALSE
    OBVIOUS
  <2>1. f \in 0..Len(s)
    BY EndsFinite
  <2>2. f # 0 /\ f # Len(s) /\ f \in (e + 1)..(g - 1)
    BY <1>1, <2>1
  <2>3. s[f] = NL
    BY <2>2 DEF LineEnds, memchr
  <2>4. QED
    BY <2>2, <2>3
<1>3. rank(s, g) = rank(s, e) + 1
  BY <1>2, RankOfNext
<1>4. rank(s, g) \in 1..(Cardinality(LineEnds(s)) - 1) /\ rank(s, g) - 1 = rank(s, e)
  <2>1. e \in Int
    BY <1>1
  <2>2. rank(s, e) \in Nat /\ Cardinality(LineEnds(s)) \in Nat
    BY <2>1, EndsFinite
  <2>3. rank(s, g) <= Cardinality(LineEnds(s)) - 1
    BY RankBounds
  <2>4. QED
    BY <1>3, <2>2, <2>3
<1>5. line_end(s, rank(s, e)) = e /\ line_end(s, rank(s, g)) = g
  BY EndOfRank
<1>6. QED
  BY <1>3, <1>4, <1>5 DEF RawLines
-----------------------------------------------------------------------------
(* What next can return. *)
Answers == {returned(s) : s \in Seq(FileByte)}

LBegin == at - Len(appended)   \* where the current line begins

(* Inside next the bytes appended so far are those of the file since the    *)
(* end of the last line, and no newline is among them; the lines returned   *)
(* are those up to there.                                                   *)
LLines ==
  /\ appended \in Seq(FileByte) /\ lines \in Seq(Answers)
  /\ Len(appended) <= at /\ LBegin \in LineEnds(file)
  /\ \A i \in 1..Len(appended) : appended[i] = file[LBegin + i] /\ appended[i] # NL
  /\ rank(file, LBegin) = Len(lines)
  /\ \A k \in 1..Len(lines) : lines[k] = returned(RawLines(file)[k])
  /\ answer = "none" => at = Len(file)

LInv ==
  /\ RInv
  /\ call = "idle" => appended = <<>>
  /\ client = "lines" => ~revived
  /\ client = "lines" /\ ~failed => LLines

(* What is available are the next bytes of the file; at its end, and only   *)
(* there, nothing is.                                                       *)
LEMMA AvailableIsNext ==
  ASSUME RInv, ~revived, NEW m \in fills
  PROVE  LET s == available(fill_buf(m)) IN
         /\ s \in Seq(FileByte) /\ Len(s) \in Nat /\ at \in Nat /\ at + Len(s) <= Len(file)
         /\ \A i \in 1..Len(s) : s[i] = file[at + i]
         /\ Len(s) = 0 => at = Len(file)
<1> DEFINE s == available(fill_buf(m))
<1>1. PICK b, p, n : Holds(b, p, n) /\ fill_buf(m) = [buf |-> b, pos |-> p, inner |-> n]
  BY Filled
<1>2. s \in Seq(FileByte) /\ Len(s) = Len(b) - p /\ \A i \in 1..(Len(b) - p) : s[i] = b[p + i]
  <2> DEFINE t == available([buf |-> b, pos |-> p, inner |-> n])
  <2>1. t \in Seq(FileByte) /\ Len(t) = Len(b) - p /\ \A i \in 1..(Len(b) - p) : t[i] = b[p + i]
    BY <1>1, Available
  <2>2. s = t
    BY <1>1
  <2> HIDE DEF s, t
  <2>3. QED
    BY <2>1, <2>2
<1>3. /\ Len(b) \in Nat /\ p \in 0..Len(b) /\ n \in 0..Len(file) /\ Len(file) \in Nat
      /\ at = n - (Len(b) - p) /\ Len(b) <= n
      /\ \A i \in 1..Len(b) : b[i] = file[n - Len(b) + i]
  BY <1>1 DEF Holds, RInv, RType
<1> HIDE DEF s
<1>4. Len(s) \in Nat /\ at \in Nat /\ at + Len(s) <= Len(file)
  BY <1>2, <1>3
<1>5. ASSUME NEW i \in 1..Len(s) PROVE s[i] = file[at + i]
  <2>1. i \in 1..(Len(b) - p) /\ p + i \in 1..Len(b) /\ n - Len(b) + (p + i) = at + i
    BY <1>2, <1>3
  <2>2. s[i] = b[p + i] /\ b[p + i] = file[n - Len(b) + (p + i)]
    BY <1>2, <1>3, <2>1
  <2>3. QED
    BY <2>1, <2>2
<1>6. ASSUME Len(s) = 0 PROVE at = Len(file)
  <2>1. at = n /\ Len(b) = p
    <3>1. Len(b) - p = 0
      BY <1>2, <1>6
    <3>2. p \in Nat
      BY <1>3
    <3>3. QED
      BY <1>3, <3>1, <3>2
  <2>2. /\ Len(buf) \in Nat /\ pos \in 0..Len(buf) /\ inner \in 0..Len(file)
        /\ at = inner - (Len(buf) - pos)
    BY DEF RInv, RType, RBuffer
  <2>3. CASE ~(pos >= Len(buf))
    <3>1. fill_buf(m) = [buf |-> buf, pos |-> pos, inner |-> inner]
      BY <2>3 DEF fill_buf, cap
    <3>2. fill_buf(m).buf = buf /\ fill_buf(m).pos = pos /\ fill_buf(m).buf = b /\ fill_buf(m).pos = p
      BY <1>1, <3>1
    <3>3. QED
      BY <2>1, <2>2, <2>3, <3>2
  <2>4. CASE pos >= Len(buf)
    <3>1. fill_buf(m) = [buf |-> SubSeq(file, inner + 1, inner + m), pos |-> 0,
                         inner |-> inner + m]
      BY <2>4 DEF fill_buf, cap
    <3>2. fill_buf(m).inner = inner + m /\ fill_buf(m).inner = n
      BY <1>1, <3>1
    <3>3. at = inner /\ m \in counts(BufSize)
      BY <2>2, <2>4 DEF fills, cap
    <3>4. m \in Nat
      BY <3>3, CountsFit, ReaderAssumption
    <3>5. m = 0
      BY <2>1, <2>2, <3>2, <3>3, <3>4
    <3>6. Len(file) - inner \in Nat /\ BufSize \in Nat \ {0}
      BY <1>3, <2>2, ReaderAssumption
    <3>7. Min({BufSize, Len(file) - inner})
            = IF BufSize <= Len(file) - inner THEN BufSize ELSE Len(file) - inner
      BY <3>6, MinOfTwo
    <3>8. Min({BufSize, Len(file) - inner}) = 0
      BY <3>3, <3>5, <3>6, <3>7 DEF counts
    <3>9. Len(file) - inner = 0
      BY <3>6, <3>7, <3>8
    <3>10. inner \in Nat /\ Len(file) \in Nat
      BY <1>3, <2>2
    <3>11. QED
      BY <3>3, <3>9, <3>10
  <2>5. QED
    BY <2>3, <2>4
<1>7. QED
  BY <1>2, <1>4, <1>5, <1>6 DEF s
-----------------------------------------------------------------------------
(* A turn that returns the line that ends at g. *)
LEMMA LineReturned ==
  ASSUME LInv, client = "lines", ~failed, NEW got, NEW g \in LineEnds(file), LBegin < g,
         got = SubSeq(file, LBegin + 1, g), \A f \in (LBegin + 1)..(g - 1) : file[f] # NL,
         lines' = Append(lines, returned(got)), file' = file, appended' = <<>>, at' = g,
         answer' = "ok"
  PROVE  LLines'
<1>1. /\ file \in Seq(FileByte) /\ Len(file) \in Nat /\ LBegin \in LineEnds(file)
      /\ rank(file, LBegin) = Len(lines) /\ lines \in Seq(Answers)
      /\ \A k \in 1..Len(lines) : lines[k] = returned(RawLines(file)[k])
  BY DEF LInv, LLines, RInv, RType
<1>2. g \in 0..Len(file) /\ LBegin \in 0..Len(file)
  BY <1>1, EndsFinite
<1>3. rank(file, g) = Len(lines) + 1 /\ RawLines(file)[Len(lines) + 1] = got
  BY <1>1, NextLine
<1>4. got \in Seq(FileByte)
  <2>1. g \in LBegin..Len(file)
    BY <1>2
  <2>2. QED
    BY <1>1, <1>2, <2>1, Piece
<1>5. returned(got) \in Answers
  BY <1>4 DEF Answers
<1>6. /\ lines' \in Seq(Answers) /\ Len(lines') = Len(lines) + 1
      /\ \A i \in 1..Len(lines) : lines'[i] = lines[i]
      /\ lines'[Len(lines) + 1] = returned(got)
  BY <1>1, <1>5, AppendProperties
<1>7. \A k \in 1..Len(lines') : lines'[k] = returned(RawLines(file)[k])
  <2> TAKE k \in 1..Len(lines')
  <2>1. Len(lines) \in Nat
    BY <1>1
  <2>2. k \in 1..Len(lines) \/ k = Len(lines) + 1
    BY <1>6, <2>1
  <2>3. QED
    BY <1>1, <1>3, <1>6, <2>2
<1>8. Len(appended') = 0 /\ LBegin' = g
  <2>1. Len(appended') = 0
    BY EmptySeq
  <2>2. QED
    BY <1>2, <2>1 DEF LBegin
<1>9. Len(appended') <= at' /\ \A i \in 1..Len(appended') : FALSE
  BY <1>2, <1>8
<1>10. QED
  BY <1>3, <1>6, <1>7, <1>8, <1>9, EmptySeq DEF LLines

LEMMA LinesTurnKeeps ==
  ASSUME LInv, client = "lines", ~failed, NEW m, read_until(m)
  PROVE  LLines'
<1> DEFINE s == available(fill_buf(m))
           hits == memchr(NL, s)
           used == IF hits = {} THEN Len(s) ELSE Min(hits)
           got == appended \o SubSeq(s, 1, used)
<1>1. /\ call = "next" /\ m \in fills /\ at' = at + used
      /\ UNCHANGED <<client, file, failed>>
      /\ IF hits = {} /\ used # 0
         THEN appended' = got /\ UNCHANGED <<call, lines, answer>>
         ELSE /\ call' = "idle" /\ appended' = <<>>
              /\ IF got = <<>> THEN answer' = "none" /\ UNCHANGED lines
                 ELSE lines' = Append(lines, returned(got)) /\ answer' = "ok"
  BY DEF read_until
<1>2. /\ file \in Seq(FileByte) /\ Len(file) \in Nat /\ appended \in Seq(FileByte)
      /\ Len(appended) \in Nat /\ lines \in Seq(Answers) /\ LLines /\ RInv /\ ~revived
  BY DEF LInv, LLines, RInv, RType
<1>3. /\ s \in Seq(FileByte) /\ Len(s) \in Nat /\ at \in Nat /\ at + Len(s) <= Len(file)
      /\ \A i \in 1..Len(s) : s[i] = file[at + i]
      /\ Len(s) = 0 => at = Len(file)
  BY <1>1, <1>2, AvailableIsNext
<1> HIDE DEF s
<1>4. /\ used \in 0..Len(s) /\ \A i \in 1..(used - 1) : s[i] # NL
      /\ hits = {} => used = Len(s) /\ \A i \in 1..used : s[i] # NL
      /\ hits # {} => used # 0 /\ s[used] = NL
  <2>1. hits \in SUBSET Nat /\ \A i \in hits : i \in 1..Len(s) /\ s[i] = NL
    BY <1>3 DEF memchr
  <2>2. \A i \in 1..Len(s) : s[i] = NL => i \in hits
    BY DEF memchr
  <2> HIDE DEF hits
  <2>3. CASE hits = {}
    <3>1. used = Len(s)
      BY <2>3
    <3>2. QED
      BY <1>3, <2>2, <2>3, <3>1
  <2>4. CASE hits # {}
    <3>1. used = Min(hits)
      BY <2>4
    <3>2. used \in hits /\ \A y \in hits : used <= y
      BY <2>1, <2>4, <3>1, MinOfNat
    <3> HIDE DEF used
    <3>3. used \in 1..Len(s) /\ s[used] = NL
      BY <2>1, <3>2
    <3>4. \A i \in 1..(used - 1) : s[i] # NL
      BY <1>3, <2>2, <3>2, <3>3
    <3>5. QED
      BY <1>3, <2>4, <3>3, <3>4
  <2>5. QED
    BY <2>3, <2>4
<1> HIDE DEF hits, used
<1>5. /\ Len(appended) <= at /\ LBegin \in LineEnds(file) /\ LBegin \in 0..Len(file)
      /\ at = LBegin + Len(appended)
      /\ \A i \in 1..Len(appended) : appended[i] = file[LBegin + i] /\ appended[i] # NL
  BY <1>2, <1>3, EndsFinite DEF LLines, LBegin
<1>6. /\ got \in Seq(FileByte) /\ Len(got) = Len(appended) + used
      /\ \A i \in 1..Len(got) : got[i] = file[LBegin + i]
  <2> DEFINE u == SubSeq(s, 1, used)
  <2>1. u \in Seq(FileByte) /\ Len(u) = used /\ \A i \in 1..used : u[i] = s[i]
    <3>1. 0 \in 0..Len(s) /\ 0 + 1 = 1 /\ used - 0 = used /\ \A i \in 1..used : 0 + i = i
      BY <1>3, <1>4
    <3>2. /\ SubSeq(s, 0 + 1, used) \in Seq(FileByte) /\ Len(SubSeq(s, 0 + 1, used)) = used - 0
          /\ \A i \in 1..(used - 0) : SubSeq(s, 0 + 1, used)[i] = s[0 + i]
      BY <1>3, <1>4, <3>1, Piece
    <3>3. QED
      BY <3>1, <3>2
  <2> HIDE DEF u
  <2>2. /\ appended \o u \in Seq(FileByte) /\ Len(appended \o u) = Len(appended) + Len(u)
        /\ \A i \in 1..(Len(appended) + Len(u)) :
             (appended \o u)[i] = IF i <= Len(appended) THEN appended[i] ELSE u[i - Len(appended)]
    BY <1>2, <2>1, ConcatProperties
  <2>3. got = appended \o u
    BY DEF u
  <2> HIDE DEF got
  <2>4. got \in Seq(FileByte) /\ Len(got) = Len(appended) + used
    BY <2>1, <2>2, <2>3
  <2>5. ASSUME NEW i \in 1..Len(got) PROVE got[i] = file[LBegin + i]
    <3>1. CASE i <= Len(appended)
      <4>1. got[i] = appended[i] /\ i \in 1..Len(appended)
        BY <1>2, <2>1, <2>2, <2>3, <2>4, <3>1
      <4>2. QED
        BY <1>5, <4>1
    <3>2. CASE ~(i <= Len(appended))
      <4>1. i - Len(appended) \in 1..used /\ i - Len(appended) \in 1..Len(s)
            /\ at + (i - Len(appended)) = LBegin + i
        BY <1>2, <1>3, <1>4, <1>5, <2>4, <3>2
      <4>2. got[i] = u[i - Len(appended)]
        BY <1>2, <2>1, <2>2, <2>3, <2>4, <3>2
      <4>3. QED
        BY <1>3, <2>1, <4>1, <4>2
    <3>3. QED
      BY <3>1, <3>2
  <2>6. QED
    BY <2>4, <2>5
<1> HIDE DEF got
<1>7. /\ at + used = LBegin + Len(got) /\ at + used \in LBegin..Len(file)
      /\ got = SubSeq(file, LBegin + 1, at + used)
  <2>1. at + used = LBegin + Len(got) /\ at + used \in LBegin..Len(file)
        /\ (at + used) - LBegin = Len(got)
    BY <1>2, <1>3, <1>4, <1>5, <1>6
  <2> DEFINE piece == SubSeq(file, LBegin + 1, at + used)
  <2>2. /\ piece \in Seq(FileByte) /\ Len(piece) = (at + used) - LBegin
        /\ \A i \in 1..((at + used) - LBegin) : piece[i] = file[LBegin + i]
    BY <1>2, <1>5, <2>1, Piece
  <2> HIDE DEF piece
  <2>3. Len(piece) = Len(got) /\ \A i \in 1..Len(got) : got[i] = piece[i]
    BY <1>6, <2>1, <2>2
  <2>4. got = piece
    BY <1>6, <2>2, <2>3, SeqEqual
  <2>5. QED
    BY <2>1, <2>4 DEF piece
<1>8. \A f \in (LBegin + 1)..((at + used) - 1) : file[f] # NL
  <2> TAKE f \in (LBegin + 1)..((at + used) - 1)
  <2>1. CASE f <= at
    <3>1. f - LBegin \in 1..Len(appended) /\ LBegin + (f - LBegin) = f
      BY <1>2, <1>3, <1>5, <2>1
    <3>2. QED
      BY <1>5, <3>1
  <2>2. CASE ~(f <= at)
    <3>1. f - at \in 1..(used - 1) /\ f - at \in 1..Len(s) /\ at + (f - at) = f
      BY <1>3, <1>4, <1>5, <2>2
    <3>2. QED
      BY <1>3, <1>4, <3>1
  <2>3. QED
    BY <2>1, <2>2
<1>9. CASE hits = {} /\ used # 0
  <2>1. appended' = got /\ UNCHANGED <<call, lines, answer>> /\ file' = file /\ at' = at + used
    BY <1>1, <1>9
  <2>2. LBegin' = LBegin /\ Len(appended') <= at'
    <3>1. LBegin' = (at + used) - Len(got)
      BY <2>1 DEF LBegin
    <3>2. LBegin \in Nat /\ used \in Nat /\ at + used = LBegin + Len(got) /\ Len(got) \in Nat
      BY <1>2, <1>3, <1>4, <1>5, <1>6, <1>7
    <3>3. QED
      BY <1>3, <2>1, <3>1, <3>2
  <2>3. \A i \in 1..Len(got) : got[i] # NL
    <3> TAKE i \in 1..Len(got)
    <3>1. CASE i <= Len(got) - 1
      <4>1. LBegin + i \in (LBegin + 1)..((at + used) - 1)
        <5>1. Len(got) \in Nat
          BY <1>6
        <5>2. LBegin \in Nat /\ used \in Nat
          BY <1>2, <1>3, <1>4, <1>5
        <5>3. LBegin + i <= (LBegin + Len(got)) - 1 /\ LBegin + i >= LBegin + 1
          BY <3>1, <5>1, <5>2
        <5>4. QED
          BY <1>3, <1>7, <5>1, <5>2, <5>3
      <4>2. QED
        BY <1>6, <1>8, <4>1
    <3>2. CASE i = Len(got)
      <4>1. used \in 1..used /\ used \in 1..Len(s) /\ LBegin + i = at + used
        BY <1>3, <1>4, <1>5, <1>6, <1>9, <3>2
      <4>2. s[used] # NL /\ s[used] = file[at + used]
        BY <1>3, <1>4, <1>9, <4>1
      <4>3. QED
        BY <1>6, <4>1, <4>2
    <3>3. QED
      BY <1>6, <3>1, <3>2
  <2>4. answer # "none"
    <3>1. at # Len(file)
      <4>1. Len(s) # 0
        BY <1>4, <1>9
      <4>2. QED
        BY <1>2, <1>3, <4>1
    <3>2. QED
      BY <1>2, <3>1 DEF LLines
  <2>5. LLines'
    BY <1>2, <1>5, <1>6, <2>1, <2>2, <2>3, <2>4 DEF LLines
  <2>6. QED
    BY <2>5
<1>10. CASE hits # {}
  <2>1. got # <<>>
    BY <1>2, <1>4, <1>6, <1>10, EmptySeq
  <2>2. /\ lines' = Append(lines, returned(got)) /\ appended' = <<>> /\ answer' = "ok"
        /\ file' = file /\ at' = at + used
    BY <1>1, <1>10, <2>1
  <2>3. at + used \in LineEnds(file) /\ LBegin < at + used
    <3>1. used \in 1..Len(s) /\ at + used \in 1..Len(file) /\ file[at + used] = NL
      BY <1>2, <1>3, <1>4, <1>10
    <3>2. LBegin < at + used
      BY <1>2, <1>3, <1>5, <3>1
    <3>3. QED
      BY <3>1, <3>2 DEF LineEnds, memchr
  <2>4. LLines'
    <3> DEFINE g == at + used
    <3>1. g \in LineEnds(file) /\ LBegin < g
      BY <2>3
    <3>2. got = SubSeq(file, LBegin + 1, g)
      BY <1>7
    <3>3. \A f \in (LBegin + 1)..(g - 1) : file[f] # NL
      BY <1>8
    <3>4. at' = g
      BY <2>2
    <3> HIDE DEF g
    <3>5. QED
      BY <2>2, <3>1, <3>2, <3>3, <3>4, LineReturned
  <2>5. QED
    BY <2>4
<1>11. CASE hits = {} /\ used = 0
  <2>1. at = Len(file) /\ at + used = at
    BY <1>3, <1>4, <1>11
  <2>2. CASE got = <<>>
    <3>1. /\ lines' = lines /\ appended' = <<>> /\ answer' = "none" /\ file' = file /\ at' = at
      BY <1>1, <1>11, <2>1, <2>2
    <3>2. Len(appended) = 0 /\ Len(appended') = 0
      BY <1>2, <1>6, <1>11, <2>2, <3>1, EmptySeq
    <3>3. LBegin' = LBegin /\ Len(appended') <= at'
      BY <1>3, <3>1, <3>2 DEF LBegin
    <3>4. LLines'
      BY <1>2, <2>1, <3>1, <3>2, <3>3, EmptySeq DEF LLines
    <3>5. QED
      BY <3>4
  <2>3. CASE got # <<>>
    <3>1. /\ lines' = Append(lines, returned(got)) /\ appended' = <<>> /\ answer' = "ok"
          /\ file' = file /\ at' = at + used
      BY <1>1, <1>11, <2>3
    <3>2. Len(got) # 0
      BY <1>6, <2>3, EmptySeq
    <3>3. at + used \in LineEnds(file) /\ LBegin < at + used
      <4>1. at + used \in LineEnds(file)
        BY <1>2, <2>1, EndsFinite
      <4>2. Len(got) \in Nat
        BY <1>6
      <4>3. LBegin \in Nat
        BY <1>2, <1>5
      <4>4. LBegin < LBegin + Len(got)
        BY <3>2, <4>2, <4>3
      <4>5. QED
        BY <1>7, <4>1, <4>4
    <3>4. LLines'
      <4> DEFINE g == at + used
      <4>1. g \in LineEnds(file) /\ LBegin < g
        BY <3>3
      <4>2. got = SubSeq(file, LBegin + 1, g)
        BY <1>7
      <4>3. \A f \in (LBegin + 1)..(g - 1) : file[f] # NL
        BY <1>8
      <4>4. at' = g
        BY <3>1
      <4> HIDE DEF g
      <4>5. QED
        BY <3>1, <4>1, <4>2, <4>3, <4>4, LineReturned
    <3>5. QED
      BY <3>4
  <2>4. QED
    BY <2>2, <2>3
<1>12. QED
  BY <1>9, <1>10, <1>11
-----------------------------------------------------------------------------
(* Where nothing of the lines changes, they stay as they are. *)
LEMMA LinesStay ==
  ASSUME LLines, UNCHANGED <<file, appended, at, lines, answer>>
  PROVE  LLines'
<1>1. LBegin' = LBegin
  BY DEF LBegin
<1>2. QED
  BY <1>1 DEF LLines

LEMMA LinesNextKeeps == LInv /\ [ReaderNext]_reader_vars => LInv'
<1> SUFFICES ASSUME LInv, [ReaderNext]_reader_vars PROVE LInv'
  OBVIOUS
<1>1. RInv /\ RInv'
  BY ReaderNextKeeps DEF LInv
<1> DEFINE Rest == /\ call' = "idle" => appended' = <<>>
                   /\ client' = "lines" => ~revived'
                   /\ client' = "lines" /\ ~failed' => LLines'
<1> SUFFICES Rest
  BY <1>1 DEF LInv
<1>2. CASE UNCHANGED reader_vars \/ read_until_interrupted
  <2>1. UNCHANGED <<client, file, call, appended, lines, answer, failed, at, revived>>
    BY <1>2 DEF reader_vars, read_until_interrupted
  <2>2. QED
    BY <2>1, LinesStay DEF LInv
<1>3. CASE lines_next
  <2>1. /\ call = "idle" /\ call' = "next" /\ appended' = <<>>
        /\ UNCHANGED <<client, file, lines, answer, failed, at, revived>>
    BY <1>3 DEF lines_next
  <2>2. appended' = appended
    BY <2>1 DEF LInv
  <2>3. QED
    BY <2>1, <2>2, LinesStay DEF LInv
<1>4. CASE read_until_fails
  <2>1. appended' = <<>> /\ failed' = TRUE /\ UNCHANGED <<client, revived>>
    BY <1>4 DEF read_until_fails, unmoved
  <2>2. QED
    BY <2>1 DEF LInv
<1>5. ASSUME NEW m \in 0..BufSize, read_until(m) PROVE Rest
  <2>1. /\ UNCHANGED <<client, failed, revived>>
        /\ call = "next" /\ ((call' = "idle" /\ appended' = <<>>) \/ call' = call)
    BY <1>5 DEF read_until
  <2>2. client = "lines" /\ ~failed => LLines'
    BY <1>5, LinesTurnKeeps
  <2>3. QED
    BY <2>1, <2>2 DEF LInv
<1>6. ASSUME client = "bytes", UNCHANGED <<client, call, appended>> PROVE Rest
  BY <1>6 DEF LInv
<1>7. CASE (\E k, m \in 0..(BufSize + 1) : read(k, m)) \/ read_fails \/ seek_fails
  <2>1. client = "bytes" /\ UNCHANGED <<client, call, appended>>
    BY <1>7 DEF read, read_fails, seek_fails, unmoved
  <2>2. QED
    BY <1>6, <2>1
<1>8. CASE \E p \in {0, Len(file)} : seek(p)
  <2>1. client = "bytes" /\ UNCHANGED <<client, call, appended>>
    BY <1>8 DEF seek, seeked
  <2>2. QED
    BY <1>6, <2>1
<1>9. ASSUME NEW k \in Offsets,
             \/ client = "bytes" /\ seek_current(k)
             \/ seek_fails_halfway(k) \/ seek_relative(k)
      PROVE  Rest
  <2>1. client = "bytes" /\ UNCHANGED <<client, call, appended>>
    BY <1>9 DEF seek_current, seeked, seek_fails_halfway, seek_relative
  <2>2. QED
    BY <1>6, <2>1
<1> HIDE DEF Rest
<1>10. QED
  BY <1>2, <1>3, <1>4, <1>5, <1>7, <1>8, <1>9 DEF ReaderNext

THEOREM LinesInvariant == ReaderSpec => []LInv
<1>1. ReaderInit => LInv
  <2> SUFFICES ASSUME ReaderInit PROVE LInv
    OBVIOUS
  <2>1. RInv /\ file \in Seq(FileByte)
    BY ReaderStarts DEF RInv, RType
  <2>2. Len(appended) = 0 /\ Len(lines) = 0 /\ at = 0 /\ answer = "ok" /\ LBegin = 0
    <3>1. at = 0 /\ answer = "ok"
      BY DEF ReaderInit
    <3>2. Len(appended) = 0 /\ Len(lines) = 0
      BY EmptySeq DEF ReaderInit
    <3>3. at - Len(appended) = 0
      BY <3>1, <3>2
    <3>4. QED
      BY <3>1, <3>2, <3>3 DEF LBegin
  <2>3. 0 \in LineEnds(file) /\ rank(file, 0) = 0
    BY <2>1, EndsFinite, RankBounds
  <2>4. appended \in Seq(FileByte) /\ lines \in Seq(Answers)
    BY EmptySeq DEF ReaderInit
  <2>5. LLines
    BY <2>2, <2>3, <2>4 DEF LLines
  <2>6. QED
    BY <2>1, <2>5 DEF LInv, ReaderInit
<1>2. QED
  BY <1>1, LinesNextKeeps, PTL DEF ReaderSpec

(* Whatever the file and the size of the buffer, wherever the reads cut it, *)
(* and however often one is interrupted: what next has returned are the     *)
(* first lines of the file, each once and in order, and it says None when   *)
(* all of them were returned and not before (LinesAreTheFile).              *)
THEOREM LinesOfTheFile == ReaderSpec => []LinesAreTheFile
<1>1. LInv => LinesAreTheFile
  <2> SUFFICES ASSUME LInv, client = "lines", ~failed, call = "idle"
               PROVE  /\ Len(lines) <= Len(RawLines(file))
                      /\ \A k \in 1..Len(lines) : lines[k] = returned(RawLines(file)[k])
                      /\ answer = "none" => Len(lines) = Len(RawLines(file))
    BY DEF LinesAreTheFile
  <2>1. file \in Seq(FileByte) /\ LLines /\ appended = <<>> /\ at \in Int
    BY DEF LInv, RInv, RType
  <2>2. LBegin = at
    BY <2>1, EmptySeq DEF LBegin
  <2>3. at \in LineEnds(file) /\ rank(file, at) = Len(lines)
    BY <2>1, <2>2 DEF LLines
  <2>4. Cardinality(LineEnds(file)) - 1 \in Nat
    <3>1. 0 \in LineEnds(file) /\ rank(file, 0) = 0 /\ Cardinality(LineEnds(file)) \in Nat
      BY <2>1, EndsFinite, RankBounds
    <3>2. 0 <= Cardinality(LineEnds(file)) - 1
      BY <2>1, <3>1, RankBounds
    <3>3. QED
      BY <3>1, <3>2
  <2>5. Len(RawLines(file)) = Cardinality(LineEnds(file)) - 1
    BY <2>4 DEF RawLines
  <2>6. rank(file, at) <= Cardinality(LineEnds(file)) - 1
    BY <2>1, <2>3, RankBounds
  <2>7. rank(file, Len(file)) = Cardinality(LineEnds(file)) - 1
    BY <2>1, RankBounds
  <2>8. QED
    BY <2>1, <2>3, <2>5, <2>6, <2>7 DEF LLines
<1>2. QED
  BY <1>1, LinesInvariant, PTL

(* A call of next takes no more turns than the file has bytes left, and one *)
(* to find the end (NextProgresses); interrupted reads are not counted.     *)
THEOREM EveryTurnAdvances == ReaderSpec => NextProgresses
<1> DEFINE Further == call = "next" /\ call' = "next" => at < at' /\ at' <= Len(file)
<1>1. ASSUME LInv, ReaderNext, call = "next", call' = "next", ~ UNCHANGED reader_vars
      PROVE  at < at' /\ at' <= Len(file)
  <2>1. RInv /\ client = "lines" /\ ~revived
    BY <1>1 DEF LInv, RInv, RClient
  <2>2. PICK m : read_until(m)
    BY <1>1, <2>1 DEF ReaderNext, lines_next, read_until_interrupted, read_until_fails, read,
       read_fails, seek_fails, seek, seek_fails_halfway, seek_relative
  <2> DEFINE s == available(fill_buf(m))
             hits == memchr(NL, s)
  <2>3. m \in fills /\ hits = {} /\ Len(s) # 0 /\ at' = at + Len(s)
    BY <1>1, <2>2 DEF read_until
  <2>4. Len(s) \in Nat /\ at \in Nat /\ at + Len(s) <= Len(file)
    BY <2>1, <2>3, AvailableIsNext
  <2> HIDE DEF s
  <2>5. QED
    BY <2>3, <2>4
<1>2. LInv /\ [ReaderNext]_reader_vars => [Further]_reader_vars
  BY <1>1
<1>3. QED
  BY <1>2, LinesInvariant, PTL DEF ReaderSpec, NextProgresses
=============================================================================
