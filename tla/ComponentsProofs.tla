-------------------------- MODULE ComponentsProofs --------------------------
(***************************************************************************)
(* The iterator over the components of a path, for every path and every    *)
(* order in which its two ends are asked: each component is produced once  *)
(* and in its place, no call goes on for ever, and the root is cut off     *)
(* only where it still is.                                                 *)
(***************************************************************************)
EXTENDS Components, SequenceTheorems, FiniteSetTheorems, WellFoundedInduction, TLAPS

(* A set of numbers that is not empty has a least one. *)
LEMMA MinOfNat ==
  ASSUME NEW S \in SUBSET Nat, S # {}
  PROVE  Min(S) \in S /\ \A y \in S : Min(S) <= y
<1> DEFINE R == {ss \in Nat \X Nat : ss[1] < ss[2]}
<1>1. IsWellFoundedOn(R, Nat)
  BY NatLessThanWellFounded DEF OpToRel
<1>2. PICK x \in S : \A y \in S : ~(<<y, x>> \in R)
  <2> HIDE DEF R
  <2> QED
    BY <1>1, WFMin
<1>3. ASSUME NEW y \in S PROVE x <= y
  <2>1. x \in Nat /\ y \in Nat /\ <<y, x>> \in Nat \X Nat
    OBVIOUS
  <2>2. <<y, x>> \notin R
    BY <1>2
  <2>3. y < x => <<y, x>> \in R
    BY <2>1
  <2>4. QED
    BY <2>1, <2>2, <2>3
<1>4. QED
  BY <1>3 DEF Min

(* A set of numbers up to n that is not empty has a greatest one. *)
LEMMA MaxOfRange ==
  ASSUME NEW n \in Nat, NEW S \in SUBSET (1..n), S # {}
  PROVE  Max(S) \in S /\ \A y \in S : y <= Max(S)
<1> DEFINE T == {n - y : y \in S}
<1>1. T \in SUBSET Nat /\ T # {}
  <2>1. \A y \in S : n - y \in Nat
    OBVIOUS
  <2>2. QED
    BY <2>1, Zenon
<1>2. Min(T) \in T /\ \A z \in T : Min(T) <= z
  <2> HIDE DEF T
  <2> QED
    BY <1>1, MinOfNat
<1>3. PICK x \in S : Min(T) = n - x
  BY <1>2
<1>4. ASSUME NEW y \in S PROVE y <= x
  <2>1. n - y \in T
    OBVIOUS
  <2>2. n - x <= n - y
    BY <1>2, <1>3, <2>1
  <2>3. x \in Int /\ y \in Int
    OBVIOUS
  <2>4. QED
    BY <2>2, <2>3
<1>5. QED
  BY <1>4 DEF Max

(* A range of a sequence, by its elements. *)
LEMMA Bytes ==
  ASSUME NEW s \in Seq(PathByte), NEW a \in 0..Len(s), NEW b \in a..Len(s)
  PROVE  /\ SubSeq(s, a + 1, b) \in Seq(PathByte) /\ Len(SubSeq(s, a + 1, b)) = b - a
         /\ \A i \in 1..(b - a) : SubSeq(s, a + 1, b)[i] = s[a + i]
<1>1. Len(s) \in Nat /\ a \in Nat /\ b \in Nat /\ a <= b /\ b <= Len(s)
  OBVIOUS
<1>2. \A i \in (a + 1)..b : s[i] \in PathByte
  BY <1>1
<1>3. /\ SubSeq(s, a + 1, b) \in Seq(PathByte)
      /\ Len(SubSeq(s, a + 1, b)) = IF a + 1 <= b THEN b - (a + 1) + 1 ELSE 0
      /\ \A i \in 1..(b - (a + 1) + 1) : SubSeq(s, a + 1, b)[i] = s[a + 1 + i - 1]
  BY <1>1, <1>2, SubSeqProperties
<1>4. b - (a + 1) + 1 = b - a /\ \A i \in Int : a + 1 + i - 1 = a + i
  BY <1>1
<1>5. QED
  BY <1>1, <1>3, <1>4

(* A range of a range is a range. *)
LEMMA BytesOfBytes ==
  ASSUME NEW s \in Seq(PathByte), NEW a \in 0..Len(s), NEW b \in a..Len(s),
         NEW c \in 0..(b - a), NEW d \in c..(b - a)
  PROVE  SubSeq(SubSeq(s, a + 1, b), c + 1, d) = SubSeq(s, (a + c) + 1, a + d)
<1> DEFINE p == SubSeq(s, a + 1, b)
           q == SubSeq(p, c + 1, d)
           r == SubSeq(s, (a + c) + 1, a + d)
<1>1. /\ Len(s) \in Nat /\ a \in Nat /\ b \in Nat /\ c \in Nat /\ d \in Nat
      /\ a <= b /\ b <= Len(s) /\ c <= d /\ d <= b - a
  OBVIOUS
<1>2. p \in Seq(PathByte) /\ Len(p) = b - a /\ \A i \in 1..(b - a) : p[i] = s[a + i]
  BY Bytes
<1> HIDE DEF p
<1>3. q \in Seq(PathByte) /\ Len(q) = d - c /\ \A i \in 1..(d - c) : q[i] = p[c + i]
  <2>1. c \in 0..Len(p) /\ d \in c..Len(p)
    BY <1>1, <1>2
  <2>2. QED
    BY <1>2, <2>1, Bytes
<1>4. r \in Seq(PathByte) /\ Len(r) = d - c /\ \A i \in 1..(d - c) : r[i] = s[(a + c) + i]
  <2>1. a + c \in 0..Len(s) /\ a + d \in (a + c)..Len(s) /\ (a + d) - (a + c) = d - c
    BY <1>1
  <2>2. QED
    BY <2>1, Bytes
<1> HIDE DEF q, r
<1>5. ASSUME NEW i \in 1..(d - c) PROVE q[i] = r[i]
  <2>1. c + i \in 1..(b - a) /\ a + (c + i) = (a + c) + i
    BY <1>1
  <2>2. QED
    BY <1>2, <1>3, <1>4, <2>1
<1>6. q = r
  BY <1>3, <1>4, <1>5, SeqEqual
<1>7. QED
  BY <1>6 DEF p, q, r
-----------------------------------------------------------------------------
(* Counting the elements of a set of positions. *)
LEMMA BeforeFinite ==
  ASSUME NEW n \in Nat, NEW S \in SUBSET (1..n)
  PROVE  /\ IsFiniteSet(S) /\ Cardinality(S) \in Nat
         /\ \A e \in Int : IsFiniteSet({j \in S : j < e}) /\ before(S, e) \in Nat
<1>1. IsFiniteSet(S)
  <2>1. IsFiniteSet(1..n)
    <3>1. 1 \in Int /\ n \in Int
      OBVIOUS
    <3>2. QED
      BY <3>1, FS_Interval
  <2>2. QED
    BY <2>1, FS_Subset
<1>2. \A e \in Int : IsFiniteSet({j \in S : j < e})
  <2> TAKE e \in Int
  <2>1. {j \in S : j < e} \in SUBSET S
    OBVIOUS
  <2>2. QED
    BY <1>1, <2>1, FS_Subset
<1>3. QED
  BY <1>1, <1>2, FS_CardinalityType DEF before

LEMMA BeforeEnds ==
  ASSUME NEW n \in Nat, NEW S \in SUBSET (1..n)
  PROVE  before(S, 1) = 0 /\ before(S, n + 1) = Cardinality(S)
<1>1. \A j \in S : ~(j < 1) /\ j < n + 1
  OBVIOUS
<1>2. {j \in S : j < 1} = {} /\ {j \in S : j < n + 1} = S
  BY <1>1, Zenon
<1>3. QED
  BY <1>2, FS_EmptySet DEF before

LEMMA BeforeSame ==
  ASSUME NEW n \in Nat, NEW S \in SUBSET (1..n), NEW x \in Int, NEW y \in Int, x <= y,
         \A i \in S : ~(x <= i /\ i < y)
  PROVE  before(S, y) = before(S, x)
<1>1. \A i \in S : i < y <=> i < x
  OBVIOUS
<1>2. {i \in S : i < y} = {i \in S : i < x}
  BY <1>1, Zenon
<1>3. QED
  BY <1>2 DEF before

LEMMA BeforeOne ==
  ASSUME NEW n \in Nat, NEW S \in SUBSET (1..n), NEW f \in S
  PROVE  before(S, f + 1) = before(S, f) + 1
<1> DEFINE T == {j \in S : j < f}
<1>1. {j \in S : j < f + 1} = T \cup {f}
  <2>1. \A j \in S : j < f + 1 <=> j < f \/ j = f
    OBVIOUS
  <2>2. QED
    BY <2>1, Zenon
<1>2. IsFiniteSet(T) /\ f \notin T
  <2>1. f \in Int /\ ~(f < f)
    OBVIOUS
  <2>2. QED
    BY <2>1, BeforeFinite, Zenon
<1> HIDE DEF T
<1>3. Cardinality(T \cup {f}) = Cardinality(T) + 1
  BY <1>2, FS_AddElement
<1>4. QED
  BY <1>1, <1>3 DEF before, T

LEMMA BeforeGrows ==
  ASSUME NEW n \in Nat, NEW S \in SUBSET (1..n), NEW x \in Int, NEW y \in Int, x <= y
  PROVE  before(S, x) <= before(S, y) /\ before(S, y) <= Cardinality(S)
<1> DEFINE X == {j \in S : j < x}
           Y == {j \in S : j < y}
<1>1. X \in SUBSET Y /\ Y \in SUBSET S
  <2>1. \A j \in S : j < x => j < y
    OBVIOUS
  <2>2. QED
    BY <2>1, Zenon
<1>2. IsFiniteSet(Y) /\ IsFiniteSet(S)
  BY BeforeFinite
<1> HIDE DEF X, Y
<1>3. Cardinality(X) <= Cardinality(Y) /\ Cardinality(Y) <= Cardinality(S)
  BY <1>1, <1>2, FS_Subset
<1>4. QED
  BY <1>3 DEF before, X, Y

(* An element is found by how many there are before it. *)
LEMMA NthIs ==
  ASSUME NEW n \in Nat, NEW S \in SUBSET (1..n), NEW f \in S
  PROVE  before(S, f) + 1 \in 1..Cardinality(S) /\ nth(S, before(S, f) + 1) = f
<1>1. \A i \in S : i \in Int /\ i + 1 \in Int
  OBVIOUS
<1>2. \A i \in S : before(S, i) \in Nat /\ before(S, i + 1) = before(S, i) + 1
  BY <1>1, BeforeFinite, BeforeOne
<1>3. Cardinality(S) \in Nat
  BY BeforeFinite
<1>4. before(S, f + 1) <= Cardinality(S)
  BY <1>1, BeforeGrows
<1>5. ASSUME NEW i \in S, NEW j \in S, i < j PROVE before(S, i) < before(S, j)
  <2>1. i + 1 <= j
    BY <1>1, <1>5
  <2>2. before(S, i + 1) <= before(S, j)
    BY <1>1, <2>1, BeforeGrows
  <2>3. QED
    BY <1>2, <2>2
<1>6. ASSUME NEW i \in S, before(S, i) = before(S, f) PROVE i = f
  <2>1. ~(i < f) /\ ~(f < i)
    BY <1>2, <1>5, <1>6
  <2>2. QED
    BY <1>1, <2>1
<1>7. (before(S, f) + 1) - 1 = before(S, f)
  BY <1>2
<1>8. nth(S, before(S, f) + 1) = CHOOSE i \in S : before(S, i) = before(S, f)
  BY <1>7 DEF nth
<1>9. before(S, f) + 1 \in 1..Cardinality(S)
  BY <1>2, <1>3, <1>4
<1>10. QED
  BY <1>6, <1>8, <1>9

(* f is the only element of S from x to before y. *)
Only(S, x, y, f) ==
  f \in S /\ x <= f /\ f < y /\ \A i \in S : x <= i /\ i < y => i = f

LEMMA BeforeRange ==
  ASSUME NEW n \in Nat, NEW S \in SUBSET (1..n), NEW x \in Int, NEW y \in Int,
         NEW f, Only(S, x, y, f)
  PROVE  before(S, f) = before(S, x) /\ before(S, y) = before(S, x) + 1
<1>1. /\ f \in S /\ f \in Int /\ x <= f /\ f < y
      /\ \A i \in S : i \in Int /\ (x <= i /\ i < y => i = f)
  BY DEF Only
<1>2. before(S, f) = before(S, x)
  <2>1. \A i \in S : ~(x <= i /\ i < f)
    BY <1>1
  <2>2. QED
    BY <1>1, <2>1, BeforeSame
<1>3. before(S, y) = before(S, f + 1)
  <2>1. \A i \in S : ~(f + 1 <= i /\ i < y)
    BY <1>1
  <2>2. f + 1 \in Int /\ f + 1 <= y
    BY <1>1
  <2>3. QED
    BY <2>1, <2>2, BeforeSame
<1>4. before(S, f + 1) = before(S, f) + 1
  BY <1>1, BeforeOne
<1>5. QED
  BY <1>2, <1>3, <1>4
-----------------------------------------------------------------------------
(* A word is what lies between its beginning and the next separator. *)
LEMMA WordIs ==
  ASSUME NEW t \in Seq(PathByte), NEW i \in 1..Len(t), NEW e \in i..Len(t),
         \A k \in i..e : t[k] # Sep, e = Len(t) \/ t[e + 1] = Sep
  PROVE  Word(t, i) = SubSeq(t, i, e)
<1> DEFINE S == {j \in i..(Len(t) + 1) : j = Len(t) + 1 \/ t[j] = Sep}
<1>1. Len(t) \in Nat /\ i \in Nat /\ e \in Nat /\ i <= e /\ e <= Len(t)
  OBVIOUS
<1>2. S \in SUBSET Nat /\ e + 1 \in S
  BY <1>1
<1>3. Min(S) \in S /\ \A y \in S : Min(S) <= y
  <2> HIDE DEF S
  <2> QED
    BY <1>2, MinOfNat
<1>4. Min(S) \in Nat /\ i <= Min(S) /\ Min(S) <= e + 1
  BY <1>2, <1>3
<1>5. ~(Min(S) <= e)
  <2>1. Min(S) <= e => Min(S) \in i..e /\ Min(S) # Len(t) + 1
    BY <1>1, <1>4
  <2>2. QED
    BY <1>3, <2>1
<1>6. Min(S) - 1 = e
  BY <1>1, <1>4, <1>5
<1>7. QED
  BY <1>6 DEF Word, S

(* 1 if the path has a root or begins with the component ".", else 0. *)
lead(t) ==
  IF /\ t # <<>>
     /\ t[1] = Sep \/ (t[1] = Dot /\ (Len(t) = 1 \/ t[2] = Sep))
  THEN 1 ELSE 0

LEMMA MarksIn ==
  ASSUME NEW t \in Seq(PathByte)
  PROVE  Marks(t) \in SUBSET (1..Len(t)) /\ Len(t) \in Nat
BY DEF Marks

(* The first byte begins the root or ".". *)
LEMMA LeadIs ==
  ASSUME NEW t \in Seq(PathByte), lead(t) = 1
  PROVE  /\ Len(t) >= 1 /\ 1 \in Marks(t)
         /\ component(t, 1) = IF has_physical_root(t) THEN RootDir ELSE CurDir
<1>1. Len(t) \in Nat /\ Len(t) >= 1 /\ t # <<>>
  BY DEF lead
<1>2. 1 \in Marks(t)
  BY <1>1 DEF Marks
<1>3. CASE t[1] = Sep
  BY <1>1, <1>2, <1>3 DEF component, has_physical_root
<1>4. CASE t[1] # Sep
  <2>1. t[1] = Dot /\ (Len(t) = 1 \/ t[2] = Sep)
    BY <1>4 DEF lead
  <2>2. Word(t, 1) = SubSeq(t, 1, 1)
    <3>1. 1 \in 1..Len(t) /\ \A k \in 1..1 : t[k] # Sep
      BY <1>1, <1>4
    <3>2. 1 = Len(t) \/ t[1 + 1] = Sep
      BY <2>1
    <3>3. QED
      BY <3>1, <3>2, WordIs
  <2>3. SubSeq(t, 1, 1) = <<Dot>>
    <3>1. /\ SubSeq(t, 0 + 1, 1) \in Seq(PathByte) /\ Len(SubSeq(t, 0 + 1, 1)) = 1 - 0
          /\ \A i \in 1..(1 - 0) : SubSeq(t, 0 + 1, 1)[i] = t[0 + i]
      <4>1. 0 \in 0..Len(t) /\ 1 \in 0..Len(t)
        BY <1>1
      <4>2. QED
        BY <4>1, Bytes
    <3>2. 0 + 1 = 1 /\ 1 - 0 = 1
      OBVIOUS
    <3>3. /\ SubSeq(t, 1, 1) \in Seq(PathByte) /\ Len(SubSeq(t, 1, 1)) = 1
          /\ SubSeq(t, 1, 1)[1] = Dot
      BY <2>1, <3>1, <3>2
    <3>4. <<Dot>> \in Seq(PathByte) /\ Len(<<Dot>>) = 1 /\ <<Dot>>[1] = Dot
      BY DEF PathByte
    <3>5. \A i \in 1..Len(SubSeq(t, 1, 1)) : SubSeq(t, 1, 1)[i] = <<Dot>>[i]
      BY <3>3, <3>4
    <3>6. QED
      BY <3>3, <3>4, <3>5, SeqEqual
  <2>4. QED
    BY <1>1, <1>2, <1>4, <2>2, <2>3 DEF component, has_physical_root, CurDir
<1>5. QED
  BY <1>3, <1>4

(* A stretch of bytes beyond the first component: separators, a word and    *)
(* separators.  A component begins in it just if the word is one.           *)
LEMMA Stretch ==
  ASSUME NEW t \in Seq(PathByte), NEW x \in Nat, NEW y \in 0..Len(t), lead(t) <= x, x < y,
         NEW f \in (x + 1)..(y + 1), NEW e \in (f - 1)..y,
         \A k \in (x + 1)..(f - 1) : t[k] = Sep, \A k \in f..e : t[k] # Sep,
         \A k \in (e + 1)..y : t[k] = Sep,
         f <= e => (f = 1 \/ t[f - 1] = Sep) /\ (e = Len(t) \/ t[e + 1] = Sep)
  PROVE  LET w == parse_single_component(SubSeq(t, f, e)) IN
         /\ w = None => \A i \in Marks(t) : ~(x < i /\ i <= y)
         /\ w # None => /\ f \in Marks(t) /\ f <= y /\ component(t, f) = w
                        /\ \A i \in Marks(t) : x < i /\ i <= y => i = f
<1>1. /\ Len(t) \in Nat /\ y \in Nat /\ y <= Len(t) /\ f \in Nat /\ e \in Nat
      /\ x + 1 <= f /\ f <= y + 1 /\ f - 1 <= e /\ e <= y
  OBVIOUS
<1>2. t[1] = Sep /\ Len(t) >= 1 => x >= 1
  BY <1>1 DEF lead
<1>3. ASSUME NEW i \in Marks(t), x < i, i <= y PROVE i = f /\ f <= e
  <2>1. i \in 1..Len(t) /\ (i = 1 \/ (t[i] # Sep /\ t[i - 1] = Sep))
    BY DEF Marks
  <2>2. t[i] # Sep
    BY <1>1, <1>2, <1>3, <2>1
  <2>3. i \notin (x + 1)..(f - 1) /\ i \notin (e + 1)..y
    BY <2>2
  <2>4. i \in f..e
    BY <1>1, <1>3, <2>1, <2>3
  <2>5. i # f => i - 1 \in f..e /\ i # 1
    BY <1>1, <2>4
  <2>6. QED
    BY <1>1, <2>1, <2>4, <2>5
<1>4. CASE f > e
  <2>1. SubSeq(t, f, e) = <<>>
    <3>1. f = e + 1 /\ e \in 0..Len(t)
      BY <1>1, <1>4
    <3>2. SubSeq(t, e + 1, e) \in Seq(PathByte) /\ Len(SubSeq(t, e + 1, e)) = e - e
      BY <1>1, <3>1, Bytes
    <3>3. QED
      BY <1>1, <3>1, <3>2
  <2>2. parse_single_component(SubSeq(t, f, e)) = None
    BY <2>1 DEF parse_single_component, None
  <2>3. QED
    BY <1>1, <1>3, <1>4, <2>2
<1>5. CASE f <= e
  <2>1. Word(t, f) = SubSeq(t, f, e)
    <3>1. f \in 1..Len(t) /\ e \in f..Len(t)
      BY <1>1, <1>5
    <3>2. QED
      BY <1>5, <3>1, WordIs
  <2>2. /\ Len(SubSeq(t, f, e)) = e - (f - 1) /\ SubSeq(t, f, e)[1] = t[f]
        /\ SubSeq(t, f, e) # <<>>
    <3>1. /\ f - 1 \in 0..Len(t) /\ e \in (f - 1)..Len(t) /\ (f - 1) + 1 = f
          /\ 1 \in 1..(e - (f - 1))
      BY <1>1, <1>5
    <3>2. /\ Len(SubSeq(t, f, e)) = e - (f - 1)
          /\ \A i \in 1..(e - (f - 1)) : SubSeq(t, f, e)[i] = t[(f - 1) + i]
      BY <3>1, Bytes
    <3>3. QED
      BY <1>1, <1>5, <3>1, <3>2
  <2>3. f \in f..e /\ t[f] # Sep /\ f \in 1..Len(t)
    BY <1>1, <1>5
  <2>4. CASE SubSeq(t, f, e) = <<Dot>>
    <3>1. Len(<<Dot>>) = 1 /\ <<Dot>>[1] = Dot
      OBVIOUS
    <3>2. e = f /\ t[f] = Dot
      BY <1>1, <2>2, <2>4, <3>1
    <3>3. f # 1
      <4>1. f = 1 => t[1] = Dot /\ (Len(t) = 1 \/ t[2] = Sep) /\ t # <<>>
        BY <1>1, <1>5, <2>3, <3>2
      <4>2. f = 1 => lead(t) = 1
        BY <4>1 DEF lead
      <4>3. QED
        BY <1>1, <4>2
    <3>4. f \notin Marks(t)
      BY <2>1, <2>4, <3>3 DEF Marks, CurDir
    <3>5. parse_single_component(SubSeq(t, f, e)) = None
      BY <2>4 DEF parse_single_component
    <3>6. QED
      BY <1>3, <3>4, <3>5
  <2>5. CASE SubSeq(t, f, e) # <<Dot>>
    <3>1. parse_single_component(SubSeq(t, f, e)) = SubSeq(t, f, e)
      BY <2>5 DEF parse_single_component
    <3>2. f \in Marks(t)
      BY <1>5, <2>1, <2>3, <2>5 DEF Marks, CurDir
    <3>3. component(t, f) = SubSeq(t, f, e)
      BY <2>1, <2>3 DEF component
    <3>4. f <= y
      BY <1>1, <1>5
    <3>5. QED
      BY <1>3, <2>2, <3>1, <3>2, <3>3, <3>4 DEF None
  <2>6. QED
    BY <2>4, <2>5
<1>6. QED
  BY <1>1, <1>4, <1>5
-----------------------------------------------------------------------------
CompType ==
  [path : Seq(PathByte), has_physical_root : BOOLEAN, front : 0..3, back : 0..3]

(* No word goes on across position a. *)
Cut(t, a) == a = 0 \/ a = Len(t) \/ t[a] = Sep \/ t[a + 1] = Sep

(* How far an iterator in states f and k has come from its two ends. *)
Meets(t, f, k, a, b) ==
  /\ IF f <= StartDir THEN a = 0 ELSE a >= lead(t)
  /\ f <= StartDir /\ k = Body => b >= lead(t)
  /\ k = StartDir => IF f <= StartDir THEN b = lead(t) ELSE a = b
  /\ f = Done \/ k \in {Prefix, Done} => a = b

(* Iterator c of t has the bytes after a up to b before it. *)
Slice(t, c, a, b) ==
  /\ a \in Nat /\ b \in Nat /\ a <= b /\ b <= Len(t)
  /\ c \in CompType /\ c.path = SubSeq(t, a + 1, b)
  /\ c.has_physical_root = has_physical_root(t)
  /\ Cut(t, a) /\ Cut(t, b)
  /\ Meets(t, c.front, c.back, a, b)

(* w is the one component that begins after x up to y, None if none does. *)
Passed(t, x, y, w) ==
  /\ w = None => \A i \in Marks(t) : ~(x < i /\ i <= y)
  /\ w # None => \E f \in Marks(t) : /\ x < f /\ f <= y /\ component(t, f) = w
                                     /\ \A i \in Marks(t) : x < i /\ i <= y => i = f

LEMMA SliceBytes ==
  ASSUME NEW t \in Seq(PathByte), NEW c, NEW a, NEW b, Slice(t, c, a, b)
  PROVE  /\ c.path \in Seq(PathByte) /\ Len(c.path) = b - a
         /\ \A i \in 1..(b - a) : c.path[i] = t[a + i]
<1>1. a \in 0..Len(t) /\ b \in a..Len(t) /\ c.path = SubSeq(t, a + 1, b)
  BY DEF Slice
<1>2. QED
  BY <1>1, Bytes

LEMMA DropLeft ==
  ASSUME NEW t \in Seq(PathByte), NEW c, NEW a, NEW b, Slice(t, c, a, b),
         NEW m \in 0..(b - a)
  PROVE  LET d == drop_left(c, m) IN
         /\ d \in CompType /\ d.path = SubSeq(t, (a + m) + 1, b)
         /\ d.has_physical_root = c.has_physical_root
         /\ d.front = c.front /\ d.back = c.back
<1>1. a \in Nat /\ b \in Nat /\ a <= b /\ b <= Len(t) /\ m \in Nat /\ m <= b - a /\ Len(t) \in Nat
  BY DEF Slice
<1>2. c \in CompType /\ c.path = SubSeq(t, a + 1, b)
  BY DEF Slice
<1>3. Len(c.path) = b - a
  BY SliceBytes
<1>4. SubSeq(c.path, m + 1, b - a) = SubSeq(t, (a + m) + 1, a + (b - a))
  <2>1. a \in 0..Len(t) /\ b \in a..Len(t) /\ b - a \in m..(b - a)
    BY <1>1
  <2>2. QED
    BY <1>2, <2>1, BytesOfBytes
<1>5. a + (b - a) = b /\ a + m \in 0..Len(t) /\ b \in (a + m)..Len(t)
  BY <1>1
<1>6. SubSeq(t, (a + m) + 1, b) \in Seq(PathByte)
  BY <1>5, Bytes
<1>7. drop_left(c, m) = [c EXCEPT !.path = SubSeq(t, (a + m) + 1, b)]
  BY <1>3, <1>4, <1>5 DEF drop_left
<1>8. QED
  BY <1>2, <1>6, <1>7 DEF CompType

LEMMA DropRight ==
  ASSUME NEW t \in Seq(PathByte), NEW c, NEW a, NEW b, Slice(t, c, a, b),
         NEW m \in 0..(b - a)
  PROVE  LET d == drop_right(c, m) IN
         /\ d \in CompType /\ d.path = SubSeq(t, a + 1, b - m)
         /\ d.has_physical_root = c.has_physical_root
         /\ d.front = c.front /\ d.back = c.back
<1>1. a \in Nat /\ b \in Nat /\ a <= b /\ b <= Len(t) /\ m \in Nat /\ m <= b - a /\ Len(t) \in Nat
  BY DEF Slice
<1>2. c \in CompType /\ c.path = SubSeq(t, a + 1, b)
  BY DEF Slice
<1>3. Len(c.path) = b - a
  BY SliceBytes
<1>4. SubSeq(c.path, 0 + 1, (b - a) - m) = SubSeq(t, (a + 0) + 1, a + ((b - a) - m))
  <2>1. /\ a \in 0..Len(t) /\ b \in a..Len(t) /\ 0 \in 0..(b - a)
        /\ (b - a) - m \in 0..(b - a)
    BY <1>1
  <2>2. QED
    BY <1>2, <2>1, BytesOfBytes
<1>5. /\ a + ((b - a) - m) = b - m /\ (a + 0) + 1 = a + 1 /\ 0 + 1 = 1
      /\ a \in 0..Len(t) /\ b - m \in a..Len(t)
  BY <1>1
<1>6. SubSeq(t, a + 1, b - m) \in Seq(PathByte)
  BY <1>5, Bytes
<1>7. SubSeq(c.path, 1, Len(c.path) - m) = SubSeq(t, a + 1, b - m)
  BY <1>3, <1>4, <1>5
<1>8. drop_right(c, m) = [c EXCEPT !.path = SubSeq(t, a + 1, b - m)]
  BY <1>7 DEF drop_right
<1>9. QED
  BY <1>2, <1>6, <1>8 DEF CompType

(* An iterator that has not passed its first component knows whether that   *)
(* is the root or ".".                                                      *)
LEMMA LeadKnown ==
  ASSUME NEW t \in Seq(PathByte), NEW c, NEW a, NEW b, Slice(t, c, a, b),
         c.front <= StartDir, c.back \in {StartDir, Body}
  PROVE  (c.has_physical_root \/ include_cur_dir(c)) <=> lead(t) = 1
<1>1. /\ a = 0 /\ b \in Nat /\ b <= Len(t) /\ lead(t) <= b /\ Len(t) \in Nat /\ Cut(t, b)
      /\ c.has_physical_root = has_physical_root(t)
  BY DEF Slice, Meets, Body, StartDir, lead
<1>2. /\ c.path \in Seq(PathByte) /\ Len(c.path) = b
      /\ \A i \in 1..b : c.path[i] = t[i]
  <2>1. b - a = b /\ \A i \in Int : a + i = i
    BY <1>1
  <2>2. QED
    BY <2>1, SliceBytes
<1>3. t # <<>> <=> Len(t) >= 1
  BY <1>1
<1>4. c.path # <<>> <=> b >= 1
  BY <1>1, <1>2
<1> DEFINE root == t # <<>> /\ t[1] = Sep
           dot  == t # <<>> /\ t[1] = Dot /\ (Len(t) = 1 \/ t[2] = Sep)
           cur  == c.path # <<>> /\ c.path[1] = Dot /\ (Len(c.path) = 1 \/ c.path[2] = Sep)
<1>5. lead(t) = 1 <=> root \/ dot
  BY DEF lead
<1>6. c.has_physical_root <=> root
  BY <1>1 DEF has_physical_root
<1>7. include_cur_dir(c) <=> ~c.has_physical_root /\ cur
  BY DEF include_cur_dir
<1>8. lead(t) \in {0, 1}
  BY DEF lead
<1>9. ~root => (cur <=> dot)
  <2> SUFFICES ASSUME ~root PROVE cur <=> dot
    OBVIOUS
  <2>1. CASE b = 0
    <3>1. lead(t) # 1 /\ c.path = <<>>
      BY <1>1, <1>4, <1>8, <2>1
    <3>2. QED
      BY <1>5, <3>1
  <2>2. CASE b = 1
    <3>1. 1 \in 1..b /\ c.path[1] = t[1] /\ Len(c.path) = 1 /\ t # <<>> /\ c.path # <<>>
      BY <1>1, <1>2, <1>3, <1>4, <2>2
    <3>2. t[1] = Sep \/ Len(t) = 1 \/ t[2] = Sep
      BY <1>1, <2>2 DEF Cut
    <3>3. QED
      BY <3>1, <3>2
  <2>3. CASE b >= 2
    <3>1. c.path[1] = t[1] /\ c.path[2] = t[2]
      BY <1>1, <1>2, <2>3
    <3>2. Len(t) # 1 /\ Len(c.path) # 1 /\ t # <<>> /\ c.path # <<>>
      BY <1>1, <1>2, <1>3, <1>4, <2>3
    <3>3. QED
      BY <3>1, <3>2
  <2>4. QED
    BY <1>1, <2>1, <2>2, <2>3
<1> HIDE DEF root, dot, cur
<1>10. QED
  BY <1>5, <1>6, <1>7, <1>9
-----------------------------------------------------------------------------
(* A turn of next in the body takes a word, or nothing, and what follows it. *)
LEMMA FrontBody ==
  ASSUME NEW t \in Seq(PathByte), NEW c, NEW a, NEW b, Slice(t, c, a, b),
         c.front = Body, c.back = Body, c.path # <<>>
  PROVE  LET it == drop_left(c, parse_next_component(c).size) IN
         /\ it.front = c.front /\ it.back = c.back
         /\ \E d \in Nat : /\ a < d /\ d <= b /\ Slice(t, it, d, b)
                           /\ Passed(t, a, d, parse_next_component(c).comp)
<1> DEFINE p == c.path
           seps == position(p, Sep)
           m == parse_next_component(c).size
           w == parse_next_component(c).comp
<1>1. /\ a \in Nat /\ b \in Nat /\ a <= b /\ b <= Len(t) /\ Len(t) \in Nat /\ lead(t) <= a
      /\ Cut(t, a) /\ Cut(t, b) /\ p = SubSeq(t, a + 1, b)
  BY DEF Slice, Meets, Body, StartDir, lead
<1>2. p \in Seq(PathByte) /\ Len(p) = b - a /\ \A i \in 1..(b - a) : p[i] = t[a + i]
  BY SliceBytes
<1>3. a < b
  BY <1>1, <1>2
<1>4. \A k \in (a + 1)..b : k - a \in 1..(b - a) /\ t[k] = p[k - a]
  <2> TAKE k \in (a + 1)..b
  <2>1. k - a \in 1..(b - a) /\ a + (k - a) = k
    BY <1>1
  <2>2. QED
    BY <1>2, <2>1
<1>5. \E e \in a..b : /\ m \in 1..(b - a) /\ w = parse_single_component(SubSeq(t, a + 1, e))
                      /\ \A k \in (a + 1)..e : t[k] # Sep
                      /\ \A k \in (e + 1)..(a + m) : t[k] = Sep
                      /\ e <= a + m /\ Cut(t, a + m)
                      /\ a < e => (e = Len(t) \/ t[e + 1] = Sep)
  <2>1. CASE seps = {}
    <3>1. m = Len(p) /\ w = parse_single_component(p)
      BY <2>1 DEF parse_next_component
    <3>2. \A k \in (a + 1)..b : t[k] # Sep
      BY <1>2, <1>4, <2>1 DEF position
    <3>3. a + m = b /\ b \in a..b /\ m \in 1..(b - a) /\ (b + 1)..b = {}
      BY <1>1, <1>2, <1>3, <3>1
    <3>4. b = Len(t) \/ t[b + 1] = Sep
      <4>1. b \in (a + 1)..b /\ b # 0
        BY <1>1, <1>3
      <4>2. QED
        BY <1>1, <3>2, <4>1 DEF Cut
    <3>5. /\ b <= a + m /\ Cut(t, a + m) /\ \A k \in (b + 1)..(a + m) : t[k] = Sep
          /\ w = parse_single_component(SubSeq(t, a + 1, b))
      BY <1>1, <3>1, <3>3
    <3> HIDE DEF m, w, p, seps
    <3>6. QED
      BY <3>2, <3>3, <3>4, <3>5
  <2>2. CASE seps # {}
    <3>1. m = Min(seps) /\ w = parse_single_component(SubSeq(p, 1, Min(seps) - 1))
      BY <2>2 DEF parse_next_component
    <3>2. seps \in SUBSET Nat /\ seps = {i \in 1..(b - a) : p[i] = Sep}
      BY <1>1, <1>2 DEF position
    <3> HIDE DEF seps
    <3>3. m \in seps /\ \A y \in seps : m <= y
      BY <2>2, <3>1, <3>2, MinOfNat
    <3> HIDE DEF m, w, p
    <3>4. m \in 1..(b - a) /\ p[m] = Sep
      BY <3>2, <3>3
    <3> DEFINE e == (a + m) - 1
    <3>5. /\ e \in a..b /\ e <= a + m /\ e + 1 = a + m /\ m - 1 \in 0..(b - a)
          /\ a + (m - 1) = e /\ a + m \in (a + 1)..b /\ (a + m) - a = m
      BY <1>1, <3>4
    <3>6. t[a + m] = Sep
      BY <1>4, <3>4, <3>5
    <3>7. ASSUME NEW k \in (a + 1)..e PROVE t[k] # Sep
      <4>1. k \in (a + 1)..b /\ ~(m <= k - a)
        BY <1>1, <3>4, <3>5
      <4>2. k - a \notin seps
        BY <3>3, <4>1
      <4>3. QED
        BY <1>4, <3>2, <4>1, <4>2
    <3>8. SubSeq(p, 1, m - 1) = SubSeq(t, a + 1, e)
      <4>1. a \in 0..Len(t) /\ b \in a..Len(t) /\ 0 \in 0..(b - a) /\ m - 1 \in 0..(b - a)
        BY <1>1, <3>5
      <4>2. SubSeq(SubSeq(t, a + 1, b), 0 + 1, m - 1) = SubSeq(t, (a + 0) + 1, a + (m - 1))
        BY <4>1, BytesOfBytes
      <4>3. (a + 0) + 1 = a + 1 /\ 0 + 1 = 1
        BY <1>1
      <4>4. QED
        BY <1>1, <3>5, <4>2, <4>3
    <3>9. \A k \in (e + 1)..(a + m) : t[k] = Sep
      <4>1. \A k \in (e + 1)..(a + m) : k = a + m
        BY <1>1, <3>4, <3>5
      <4>2. QED
        BY <3>6, <4>1
    <3>10. Cut(t, a + m) /\ t[e + 1] = Sep
      BY <3>5, <3>6 DEF Cut
    <3>11. w = parse_single_component(SubSeq(t, a + 1, e))
      BY <3>1, <3>8
    <3> HIDE DEF e
    <3>12. QED
      BY <3>4, <3>5, <3>7, <3>9, <3>10, <3>11
  <2>3. QED
    BY <2>1, <2>2
<1> HIDE DEF m, w, p, seps
<1>6. PICK e \in a..b :
        /\ m \in 1..(b - a) /\ w = parse_single_component(SubSeq(t, a + 1, e))
        /\ \A k \in (a + 1)..e : t[k] # Sep
        /\ \A k \in (e + 1)..(a + m) : t[k] = Sep
        /\ e <= a + m /\ Cut(t, a + m)
        /\ a < e => (e = Len(t) \/ t[e + 1] = Sep)
  BY <1>5
<1>7. /\ m \in Nat /\ a + m \in Nat /\ a <= a + m /\ a + m <= b /\ a < a + m /\ m \in 0..(b - a)
      /\ a + m \in 0..Len(t) /\ a + 1 \in (a + 1)..((a + m) + 1)
      /\ e \in ((a + 1) - 1)..(a + m) /\ (a + 1)..((a + 1) - 1) = {} /\ e \in Nat
  BY <1>1, <1>6
<1>8. Passed(t, a, a + m, w)
  <2>1. a + 1 <= e => /\ a + 1 = 1 \/ t[(a + 1) - 1] = Sep
                      /\ e = Len(t) \/ t[e + 1] = Sep
    <3> SUFFICES ASSUME a + 1 <= e
                 PROVE  (a + 1 = 1 \/ t[(a + 1) - 1] = Sep) /\ (e = Len(t) \/ t[e + 1] = Sep)
      OBVIOUS
    <3>1. a + 1 \in (a + 1)..e /\ a < e /\ (a + 1) - 1 = a /\ a # Len(t)
      BY <1>1, <1>3, <1>7
    <3>2. t[a + 1] # Sep
      BY <1>6, <3>1
    <3>3. a = 0 \/ t[a] = Sep
      BY <1>1, <3>1, <3>2 DEF Cut
    <3>4. QED
      BY <1>6, <3>1, <3>3
  <2>2. \A k \in (a + 1)..((a + 1) - 1) : t[k] = Sep
    BY <1>7
  <2>3. /\ w = None => \A i \in Marks(t) : ~(a < i /\ i <= a + m)
        /\ w # None => /\ a + 1 \in Marks(t) /\ a + 1 <= a + m /\ component(t, a + 1) = w
                       /\ \A i \in Marks(t) : a < i /\ i <= a + m => i = a + 1
    <3> DEFINE f == a + 1
               y == a + m
    <3>1. /\ a \in Nat /\ y \in 0..Len(t) /\ lead(t) <= a /\ a < y
          /\ f \in (a + 1)..(y + 1) /\ e \in (f - 1)..y
      BY <1>1, <1>7
    <3>2. /\ \A k \in (a + 1)..(f - 1) : t[k] = Sep
          /\ \A k \in f..e : t[k] # Sep
          /\ \A k \in (e + 1)..y : t[k] = Sep
          /\ f <= e => (f = 1 \/ t[f - 1] = Sep) /\ (e = Len(t) \/ t[e + 1] = Sep)
          /\ w = parse_single_component(SubSeq(t, f, e))
      BY <1>6, <2>1, <2>2
    <3> HIDE DEF f, y
    <3>3. /\ w = None => \A i \in Marks(t) : ~(a < i /\ i <= y)
          /\ w # None => /\ f \in Marks(t) /\ f <= y /\ component(t, f) = w
                         /\ \A i \in Marks(t) : a < i /\ i <= y => i = f
      BY <3>1, <3>2, Stretch
    <3>4. QED
      BY <3>3 DEF f, y
  <2>4. a < a + 1
    BY <1>1
  <2>5. QED
    BY <2>3, <2>4 DEF Passed
<1>9. /\ Slice(t, drop_left(c, m), a + m, b)
      /\ drop_left(c, m).front = c.front /\ drop_left(c, m).back = c.back
  <2> DEFINE d == drop_left(c, m)
  <2>1. /\ d \in CompType /\ d.path = SubSeq(t, (a + m) + 1, b)
        /\ d.has_physical_root = c.has_physical_root
        /\ d.front = c.front /\ d.back = c.back
    BY <1>7, DropLeft
  <2> HIDE DEF d
  <2>2. c.has_physical_root = has_physical_root(t)
    BY DEF Slice
  <2>3. Meets(t, Body, Body, a + m, b)
    <3>1. lead(t) \in {0, 1}
      BY DEF lead
    <3>2. QED
      BY <1>1, <1>7, <3>1 DEF Meets, Body, StartDir, Prefix, Done
  <2>4. Slice(t, d, a + m, b)
    BY <1>1, <1>6, <1>7, <2>1, <2>2, <2>3 DEF Slice
  <2>5. QED
    BY <2>1, <2>4 DEF d
<1>10. QED
  BY <1>7, <1>8, <1>9 DEF m, w

(* A turn of next_back in the body takes a word, or nothing, and the        *)
(* separator before it, and never reaches into the first component while    *)
(* that is next's to take.                                                  *)
LEMMA BackBody ==
  ASSUME NEW t \in Seq(PathByte), NEW c, NEW a, NEW b, Slice(t, c, a, b),
         c.front <= Body, c.back = Body, Len(c.path) > len_before_body(c)
  PROVE  LET it == drop_right(c, parse_next_component_back(c).size) IN
         /\ it.front = c.front /\ it.back = c.back
         /\ \E d \in Nat : /\ a <= d /\ d < b /\ Slice(t, it, a, d)
                           /\ Passed(t, d, b, parse_next_component_back(c).comp)
<1> DEFINE L == len_before_body(c)
           s == a + L
           body == SubSeq(c.path, L + 1, Len(c.path))
           seps == position(body, Sep)
           m == parse_next_component_back(c).size
           w == parse_next_component_back(c).comp
<1>1. /\ a \in Nat /\ b \in Nat /\ a <= b /\ b <= Len(t) /\ Len(t) \in Nat /\ L \in {0, 1}
      /\ Cut(t, a) /\ Cut(t, b) /\ c.path = SubSeq(t, a + 1, b) /\ lead(t) \in {0, 1}
  BY DEF Slice, lead, len_before_body
<1>2. /\ c.path \in Seq(PathByte) /\ Len(c.path) = b - a
      /\ \A i \in 1..(b - a) : c.path[i] = t[a + i]
  BY SliceBytes
<1>3. /\ s \in Nat /\ a <= s /\ s < b /\ L \in 0..(b - a) /\ b - a \in L..(b - a)
      /\ a \in 0..Len(t) /\ b \in a..Len(t) /\ a + (b - a) = b /\ s \in 0..Len(t)
      /\ b \in s..Len(t)
  BY <1>1, <1>2
<1>4. lead(t) <= s /\ Cut(t, s) /\ (c.front <= StartDir => s = lead(t))
  <2>1. CASE c.front <= StartDir
    <3>1. a = 0
      BY <2>1 DEF Slice, Meets
    <3>2. L = IF lead(t) = 1 THEN 1 ELSE 0
      <4>1. (c.has_physical_root \/ include_cur_dir(c)) <=> lead(t) = 1
        BY <2>1, LeadKnown
      <4>2. QED
        BY <2>1, <4>1 DEF len_before_body
    <3>3. s = lead(t)
      BY <1>1, <3>1, <3>2
    <3>4. Cut(t, s)
      <4>1. s = 1 => t[1] = Sep \/ Len(t) = 1 \/ t[2] = Sep
        BY <3>3 DEF lead
      <4>2. 1 + 1 = 2
        OBVIOUS
      <4>3. QED
        BY <1>1, <3>3, <4>1, <4>2 DEF Cut
    <3>5. QED
      BY <1>1, <3>3, <3>4
  <2>2. CASE ~(c.front <= StartDir)
    <3>1. L = 0 /\ a >= lead(t)
      BY <2>2 DEF Slice, Meets, len_before_body
    <3>2. s = a
      BY <1>1, <3>1
    <3>3. QED
      BY <1>1, <2>2, <3>1, <3>2
  <2>3. QED
    BY <2>1, <2>2
<1>5. body = SubSeq(t, s + 1, b)
  BY <1>1, <1>2, <1>3, BytesOfBytes
<1> HIDE DEF L, s, body
<1>6. /\ body \in Seq(PathByte) /\ Len(body) = b - s
      /\ \A i \in 1..(b - s) : body[i] = t[s + i]
  BY <1>3, <1>5, Bytes
<1>7. \A k \in (s + 1)..b : k - s \in 1..(b - s) /\ t[k] = body[k - s]
  <2> TAKE k \in (s + 1)..b
  <2>1. k - s \in 1..(b - s) /\ s + (k - s) = k
    BY <1>1, <1>3
  <2>2. QED
    BY <1>6, <2>1
<1>8. m = Len(SubSeq(body, IF seps = {} THEN 1 ELSE Max(seps) + 1, Len(body)))
          + (IF seps = {} THEN 0 ELSE 1)
  BY DEF parse_next_component_back, L, body
<1>9. w = parse_single_component(SubSeq(body, IF seps = {} THEN 1 ELSE Max(seps) + 1, Len(body)))
  BY DEF parse_next_component_back, L, body
<1>10. seps = {i \in 1..(b - s) : body[i] = Sep}
  BY <1>6 DEF position
<1> HIDE DEF m, w, body, seps
<1>11. \E f \in (s + 1)..(b + 1) :
         /\ m \in 1..(b - s) /\ w = parse_single_component(SubSeq(t, f, b))
         /\ \A k \in f..b : t[k] # Sep
         /\ \A k \in ((b - m) + 1)..(f - 1) : t[k] = Sep
         /\ b - m <= f - 1 /\ Cut(t, b - m)
         /\ f <= b => (f = 1 \/ t[f - 1] = Sep)
  <2>1. CASE seps = {}
    <3>1. SubSeq(body, 1, Len(body)) = SubSeq(t, s + 1, b)
      <4>1. SubSeq(SubSeq(t, s + 1, b), 0 + 1, b - s) = SubSeq(t, (s + 0) + 1, s + (b - s))
        <5>1. 0 \in 0..(b - s) /\ b - s \in 0..(b - s)
          BY <1>1, <1>3
        <5>2. QED
          BY <1>3, <5>1, BytesOfBytes
      <4>2. 0 + 1 = 1 /\ (s + 0) + 1 = s + 1 /\ s + (b - s) = b
        BY <1>1, <1>3
      <4>3. QED
        BY <1>5, <1>6, <4>1, <4>2
    <3>2. m = b - s /\ w = parse_single_component(SubSeq(t, s + 1, b))
      <4>1. Len(SubSeq(t, s + 1, b)) = b - s
        BY <1>3, Bytes
      <4>2. (b - s) + 0 = b - s
        BY <1>1, <1>3
      <4>3. QED
        BY <1>8, <1>9, <2>1, <3>1, <4>1, <4>2
    <3>3. \A k \in (s + 1)..b : t[k] # Sep
      BY <1>7, <1>10, <2>1
    <3>4. /\ s + 1 \in (s + 1)..(b + 1) /\ m \in 1..(b - s) /\ b - m = s /\ (s + 1) - 1 = s
          /\ b - m <= (s + 1) - 1 /\ ((b - m) + 1)..((s + 1) - 1) = {}
      BY <1>1, <1>3, <3>2
    <3>5. s = 0 \/ t[s] = Sep
      <4>1. s + 1 \in (s + 1)..b /\ s # Len(t)
        BY <1>1, <1>3
      <4>2. QED
        BY <1>4, <3>3, <4>1 DEF Cut
    <3>6. s = 0 => s + 1 = 1
      OBVIOUS
    <3>7. /\ \A k \in ((b - m) + 1)..((s + 1) - 1) : t[k] = Sep
          /\ Cut(t, b - m) /\ (s + 1 = 1 \/ t[(s + 1) - 1] = Sep)
      BY <1>4, <3>4, <3>5, <3>6
    <3>8. QED
      BY <3>2, <3>3, <3>4, <3>7
  <2>2. CASE seps # {}
    <3> DEFINE x == Max(seps)
               f == (s + x) + 1
    <3>1. x \in seps /\ \A y \in seps : y <= x
      <4>1. b - s \in Nat /\ seps \in SUBSET (1..(b - s))
        BY <1>1, <1>3, <1>10
      <4>2. QED
        BY <2>2, <4>1, MaxOfRange
    <3>2. m = Len(SubSeq(body, x + 1, b - s)) + 1 /\ w = parse_single_component(SubSeq(body, x + 1, b - s))
      BY <1>6, <1>8, <1>9, <2>2
    <3> HIDE DEF x
    <3>3. x \in 1..(b - s) /\ body[x] = Sep
      BY <1>10, <3>1
    <3>4. /\ x \in 0..(b - s) /\ b - s \in x..(b - s) /\ s + (b - s) = b
          /\ s + x \in 0..Len(t) /\ b \in (s + x)..Len(t) /\ s + x \in (s + 1)..b /\ (s + x) - s = x
      BY <1>1, <1>3, <3>3
    <3>5. SubSeq(body, x + 1, b - s) = SubSeq(t, f, b)
      BY <1>3, <1>5, <3>4, BytesOfBytes
    <3>6. Len(SubSeq(t, f, b)) = b - (s + x)
      BY <3>4, Bytes
    <3>7. m = (b - (s + x)) + 1 /\ w = parse_single_component(SubSeq(t, f, b))
      BY <3>2, <3>5, <3>6
    <3>8. t[s + x] = Sep
      BY <1>7, <3>3, <3>4
    <3>9. /\ f \in (s + 1)..(b + 1) /\ m \in 1..(b - s) /\ b - m <= f - 1 /\ f - 1 = s + x
          /\ (b - m) + 1 = s + x
      BY <1>1, <1>3, <3>3, <3>7
    <3>10. ASSUME NEW k \in f..b PROVE t[k] # Sep
      <4>1. k \in (s + 1)..b /\ ~(k - s <= x)
        BY <1>1, <1>3, <3>3
      <4>2. k - s \notin seps
        BY <3>1, <4>1
      <4>3. QED
        BY <1>7, <1>10, <4>1, <4>2
    <3>11. \A k \in ((b - m) + 1)..(f - 1) : t[k] = Sep
      <4>1. \A k \in (s + x)..(s + x) : k = s + x
        BY <1>3, <3>3
      <4>2. QED
        BY <3>8, <3>9, <4>1
    <3>12. Cut(t, b - m) /\ t[f - 1] = Sep
      BY <3>8, <3>9 DEF Cut
    <3> HIDE DEF f
    <3>13. QED
      BY <3>7, <3>9, <3>10, <3>11, <3>12
  <2>3. QED
    BY <2>1, <2>2
<1>12. PICK f \in (s + 1)..(b + 1) :
         /\ m \in 1..(b - s) /\ w = parse_single_component(SubSeq(t, f, b))
         /\ \A k \in f..b : t[k] # Sep
         /\ \A k \in ((b - m) + 1)..(f - 1) : t[k] = Sep
         /\ b - m <= f - 1 /\ Cut(t, b - m)
         /\ f <= b => (f = 1 \/ t[f - 1] = Sep)
  BY <1>11
<1> DEFINE d == b - m
<1>13. /\ d \in Nat /\ s <= d /\ a <= d /\ d < b /\ d <= b /\ m \in 0..(b - a) /\ b \in 0..Len(t)
       /\ lead(t) <= d /\ f \in (d + 1)..(b + 1) /\ b \in (f - 1)..b /\ (b + 1)..b = {}
       /\ f \in Nat /\ d < f /\ d <= Len(t)
  BY <1>1, <1>3, <1>4, <1>12
<1>14. Passed(t, d, b, w)
  <2>1. f <= b => (f = 1 \/ t[f - 1] = Sep) /\ (b = Len(t) \/ t[b + 1] = Sep)
    <3> SUFFICES ASSUME f <= b PROVE b = Len(t) \/ t[b + 1] = Sep
      BY <1>12
    <3>1. b \in f..b /\ b # 0
      BY <1>1, <1>3, <1>13
    <3>2. QED
      BY <1>1, <1>12, <3>1 DEF Cut
  <2>2. /\ \A k \in (d + 1)..(f - 1) : t[k] = Sep
        /\ \A k \in (b + 1)..b : t[k] = Sep
    BY <1>12, <1>13
  <2> HIDE DEF d
  <2>3. /\ w = None => \A i \in Marks(t) : ~(d < i /\ i <= b)
        /\ w # None => /\ f \in Marks(t) /\ f <= b /\ component(t, f) = w
                       /\ \A i \in Marks(t) : d < i /\ i <= b => i = f
    BY <1>12, <1>13, <2>1, <2>2, Stretch
  <2>4. QED
    BY <1>13, <2>3 DEF Passed
<1>15. /\ Slice(t, drop_right(c, m), a, d)
       /\ drop_right(c, m).front = c.front /\ drop_right(c, m).back = c.back
  <2> DEFINE e == drop_right(c, m)
  <2>1. /\ e \in CompType /\ e.path = SubSeq(t, a + 1, d)
        /\ e.has_physical_root = c.has_physical_root
        /\ e.front = c.front /\ e.back = c.back
    BY <1>13, DropRight
  <2> HIDE DEF e
  <2>2. c.has_physical_root = has_physical_root(t) /\ c.front \in 0..3
    BY DEF Slice, CompType
  <2>3. Meets(t, c.front, Body, a, d)
    BY <1>1, <1>4, <1>13, <2>2 DEF Slice, Meets, Body, StartDir, Prefix, Done
  <2>4. Cut(t, d)
    BY <1>12
  <2> HIDE DEF d
  <2>5. Slice(t, e, a, d)
    BY <1>1, <1>13, <2>1, <2>2, <2>3, <2>4 DEF Slice
  <2>6. QED
    BY <2>1, <2>5 DEF e
<1> HIDE DEF d
<1>16. QED
  BY <1>13, <1>14, <1>15 DEF m, w

(* An iterator whose ends did not move, in another state. *)
LEMMA FrontState ==
  ASSUME NEW t \in Seq(PathByte), NEW c, NEW a, NEW b, Slice(t, c, a, b),
         NEW s \in 0..3, Meets(t, s, c.back, a, b), NEW e, e = [c EXCEPT !.front = s]
  PROVE  /\ Slice(t, e, a, b) /\ e.front = s /\ e.back = c.back
         /\ Passed(t, a, a, None) /\ a \in Nat /\ a <= b
<1>1. a \in Nat /\ b \in Nat /\ a <= b /\ \A i \in Marks(t) : i \in Int
  BY DEF Slice, Marks
<1>2. Passed(t, a, a, None)
  BY <1>1 DEF Passed
<1>3. c \in CompType
  BY DEF Slice
<1>4. /\ e \in CompType /\ e.path = c.path /\ e.has_physical_root = c.has_physical_root
      /\ e.front = s /\ e.back = c.back
  BY <1>3 DEF CompType
<1>5. QED
  BY <1>1, <1>2, <1>4 DEF Slice

LEMMA BackState ==
  ASSUME NEW t \in Seq(PathByte), NEW c, NEW a, NEW b, Slice(t, c, a, b),
         NEW s \in 0..3, Meets(t, c.front, s, a, b), NEW e, e = [c EXCEPT !.back = s]
  PROVE  /\ Slice(t, e, a, b) /\ e.back = s /\ e.front = c.front
         /\ Passed(t, b, b, None) /\ b \in Nat /\ a <= b
<1>1. a \in Nat /\ b \in Nat /\ a <= b /\ \A i \in Marks(t) : i \in Int
  BY DEF Slice, Marks
<1>2. Passed(t, b, b, None)
  BY <1>1 DEF Passed
<1>3. c \in CompType
  BY DEF Slice
<1>4. /\ e \in CompType /\ e.path = c.path /\ e.has_physical_root = c.has_physical_root
      /\ e.back = s /\ e.front = c.front
  BY <1>3 DEF CompType
<1>5. QED
  BY <1>1, <1>2, <1>4 DEF Slice

(* The first component, taken by the end that comes to it. *)
LEMMA LeadPassed ==
  ASSUME NEW t \in Seq(PathByte), lead(t) = 1, NEW c, c.has_physical_root = has_physical_root(t)
  PROVE  Passed(t, 0, 1, start_dir(c)) /\ Cut(t, 1) /\ Len(t) >= 1
<1>1. /\ Len(t) >= 1 /\ 1 \in Marks(t)
      /\ component(t, 1) = IF has_physical_root(t) THEN RootDir ELSE CurDir
  BY LeadIs
<1>2. component(t, 1) = start_dir(c) /\ start_dir(c) # None
  BY <1>1 DEF start_dir, RootDir, CurDir, None
<1>3. \A i \in Marks(t) : 0 < i /\ i <= 1 => i = 1
  BY DEF Marks
<1>4. t[1] = Sep \/ Len(t) = 1 \/ t[1 + 1] = Sep
  BY DEF lead
<1>5. QED
  BY <1>1, <1>2, <1>3, <1>4 DEF Passed, Cut

(* A turn of next takes one component from the front of what is left, or    *)
(* nothing that is part of one.                                             *)
LEMMA FrontTurn ==
  ASSUME NEW t \in Seq(PathByte), NEW c, NEW a, NEW b, Slice(t, c, a, b), ~finished(c)
  PROVE  LET r == next_turn(c) IN
         \E d \in Nat : /\ a <= d /\ d <= b /\ Slice(t, r.it, d, b) /\ Passed(t, a, d, r.out)
                        /\ r.it.back = c.back /\ c.front <= r.it.front
                        /\ a < d \/ c.front < r.it.front
<1>1. /\ c \in CompType /\ a \in Nat /\ b \in Nat /\ a <= b /\ b <= Len(t) /\ Len(t) \in Nat
      /\ Meets(t, c.front, c.back, a, b) /\ c.has_physical_root = has_physical_root(t)
      /\ Cut(t, b) /\ c.path = SubSeq(t, a + 1, b)
  BY DEF Slice
<1>2. /\ c.front \in {0, 1, 2} /\ c.back \in {0, 1, 2} /\ c.front <= c.back
      /\ c.front \in 0..3 /\ c.back \in 0..3
  BY <1>1 DEF finished, Done, CompType
<1>3. lead(t) \in {0, 1}
  BY DEF lead
<1>4. CASE c.front = Prefix
  <2>1. next_turn(c).it = [c EXCEPT !.front = StartDir] /\ next_turn(c).out = None
    BY <1>4 DEF next_turn, yields
  <2>2. Meets(t, StartDir, c.back, a, b) /\ StartDir \in 0..3
    BY <1>1, <1>2, <1>4 DEF Meets, Prefix, StartDir, Body, Done
  <2>3. /\ Slice(t, next_turn(c).it, a, b) /\ Passed(t, a, a, None) /\ a <= b
        /\ next_turn(c).it.front = StartDir /\ next_turn(c).it.back = c.back
    BY <1>2, <2>2, <2>1, FrontState
  <2>4. c.front < StartDir /\ c.front <= StartDir
    BY <1>4 DEF Prefix, StartDir
  <2>5. QED
    BY <1>1, <1>2, <2>1, <2>3, <2>4 DEF yields
<1>5. CASE c.front = StartDir
  <2>1. c.back \in {StartDir, Body} /\ c.front <= StartDir /\ a = 0 /\ b >= lead(t)
        /\ (c.back = StartDir => b = lead(t))
    BY <1>1, <1>2, <1>3, <1>5 DEF Meets, Prefix, StartDir, Body, Done
  <2>2. (c.has_physical_root \/ include_cur_dir(c)) <=> lead(t) = 1
    BY <2>1, LeadKnown
  <2>3. CASE lead(t) = 1
    <3> DEFINE e == drop_left([c EXCEPT !.front = Body], 1)
               u == drop_left(c, 1)
    <3>1. next_turn(c) = yields(e, start_dir(c))
      BY <1>5, <2>2, <2>3 DEF next_turn, Prefix, StartDir
    <3>2. Passed(t, 0, 1, start_dir(c)) /\ Cut(t, 1)
      BY <1>1, <2>3, LeadPassed
    <3>3. /\ u \in CompType /\ u.path = SubSeq(t, (a + 1) + 1, b)
          /\ u.has_physical_root = c.has_physical_root /\ u.back = c.back
      <4>1. 1 \in 0..(b - a)
        BY <1>1, <2>1, <2>3
      <4>2. QED
        BY <4>1, DropLeft
    <3>4. /\ e \in CompType /\ e.path = u.path /\ e.front = Body /\ e.back = u.back
          /\ e.has_physical_root = u.has_physical_root
      <4> DEFINE v == [c EXCEPT !.front = Body]
                 q == SubSeq(c.path, 1 + 1, Len(c.path))
      <4>1. /\ v \in CompType /\ v.path = c.path /\ v.front = Body /\ v.back = c.back
            /\ v.has_physical_root = c.has_physical_root
        <5>1. c \in CompType /\ Body \in 0..3
          BY <1>1 DEF Body
        <5> QED
          BY <5>1 DEF CompType
      <4>2. u.path = q /\ q \in Seq(PathByte)
        BY <1>1, <3>3 DEF CompType, drop_left
      <4>3. e = [v EXCEPT !.path = q]
        BY <4>1 DEF drop_left
      <4> HIDE DEF v, q, e, u
      <4>4. /\ e \in CompType /\ e.path = q /\ e.front = v.front /\ e.back = v.back
            /\ e.has_physical_root = v.has_physical_root
        BY <4>1, <4>2, <4>3 DEF CompType
      <4>5. QED
        BY <3>3, <4>1, <4>2, <4>4
    <3>5. Meets(t, Body, c.back, 1, b)
      BY <1>1, <1>2, <2>1, <2>3 DEF Meets, Prefix, StartDir, Body, Done
    <3>6. a + 1 = 1 /\ 1 \in Nat /\ 1 <= b /\ a <= 1
      BY <1>1, <2>1, <2>3
    <3> HIDE DEF e, u
    <3>7. Slice(t, e, 1, b)
      BY <1>1, <3>2, <3>3, <3>4, <3>5, <3>6 DEF Slice
    <3>8. e.back = c.back /\ c.front < e.front /\ c.front <= e.front
      BY <1>5, <3>3, <3>4 DEF StartDir, Body
    <3>9. QED
      BY <2>1, <3>1, <3>2, <3>6, <3>7, <3>8 DEF yields
  <2>4. CASE lead(t) # 1
    <3>1. next_turn(c).it = [c EXCEPT !.front = Body] /\ next_turn(c).out = None
      BY <1>5, <2>2, <2>4 DEF next_turn, Prefix, StartDir, yields
    <3>2. Meets(t, Body, c.back, a, b) /\ Body \in 0..3
      BY <1>1, <1>2, <1>3, <2>1, <2>4 DEF Meets, Prefix, StartDir, Body, Done
    <3>3. /\ Slice(t, next_turn(c).it, a, b) /\ Passed(t, a, a, None) /\ a <= b
          /\ next_turn(c).it.front = Body /\ next_turn(c).it.back = c.back
      BY <1>2, <3>2, <3>1, FrontState
    <3>4. c.front < Body /\ c.front <= Body
      BY <1>5 DEF StartDir, Body
    <3>5. QED
      BY <1>1, <3>1, <3>3, <3>4 DEF yields
  <2>5. QED
    BY <2>3, <2>4
<1>6. CASE c.front = Body
  <2>1. c.back = Body
    BY <1>2, <1>6 DEF Body
  <2>2. CASE c.path # <<>>
    <3>1. next_turn(c) = yields(drop_left(c, parse_next_component(c).size), parse_next_component(c).comp)
      BY <1>6, <2>2 DEF next_turn, Prefix, StartDir, Body
    <3> DEFINE it == drop_left(c, parse_next_component(c).size)
    <3>2. /\ it.front = c.front /\ it.back = c.back
          /\ \E d \in Nat : /\ a < d /\ d <= b /\ Slice(t, it, d, b)
                            /\ Passed(t, a, d, parse_next_component(c).comp)
      BY <1>6, <2>1, <2>2, FrontBody
    <3> HIDE DEF it
    <3>3. PICK d \in Nat : /\ a < d /\ d <= b /\ Slice(t, it, d, b)
                           /\ Passed(t, a, d, parse_next_component(c).comp)
      BY <3>2
    <3>4. a <= d /\ c.front <= it.front
      BY <1>1, <1>2, <3>2, <3>3
    <3>5. next_turn(c).it = it /\ next_turn(c).out = parse_next_component(c).comp
      BY <3>1 DEF yields, it
    <3>6. QED
      BY <3>2, <3>3, <3>4, <3>5
  <2>3. CASE c.path = <<>>
    <3>1. next_turn(c).it = [c EXCEPT !.front = Done] /\ next_turn(c).out = None
      BY <1>6, <2>3 DEF next_turn, Prefix, StartDir, Body, yields
    <3>2. a = b
      <4>1. Len(c.path) = b - a /\ Len(c.path) = 0
        BY <2>3, SliceBytes
      <4>2. QED
        BY <1>1, <4>1
    <3>3. Meets(t, Done, c.back, a, b) /\ Done \in 0..3
      BY <1>1, <1>2, <1>6, <3>2 DEF Meets, Prefix, StartDir, Body, Done
    <3>4. /\ Slice(t, next_turn(c).it, a, b) /\ Passed(t, a, a, None) /\ a <= b
          /\ next_turn(c).it.front = Done /\ next_turn(c).it.back = c.back
      BY <1>2, <3>3, <3>1, FrontState
    <3>5. c.front < Done /\ c.front <= Done
      BY <1>6 DEF Body, Done
    <3>6. QED
      BY <1>1, <3>1, <3>4, <3>5 DEF yields
  <2>4. QED
    BY <2>2, <2>3
<1>7. QED
  BY <1>2, <1>4, <1>5, <1>6 DEF Prefix, StartDir, Body

(* A turn of next_back takes one from the back. *)
LEMMA BackTurn ==
  ASSUME NEW t \in Seq(PathByte), NEW c, NEW a, NEW b, Slice(t, c, a, b), ~finished(c)
  PROVE  LET r == next_back_turn(c) IN
         \E d \in Nat : /\ a <= d /\ d <= b /\ Slice(t, r.it, a, d) /\ Passed(t, d, b, r.out)
                        /\ r.it.front = c.front /\ ahead(r.it.back) <= ahead(c.back)
                        /\ d < b \/ ahead(r.it.back) < ahead(c.back)
<1>1. /\ c \in CompType /\ a \in Nat /\ b \in Nat /\ a <= b /\ b <= Len(t) /\ Len(t) \in Nat
      /\ Meets(t, c.front, c.back, a, b) /\ c.has_physical_root = has_physical_root(t)
      /\ Cut(t, a) /\ c.path = SubSeq(t, a + 1, b)
  BY DEF Slice
<1>2. /\ c.front \in {0, 1, 2} /\ c.back \in {0, 1, 2} /\ c.front <= c.back
      /\ c.front \in 0..3 /\ c.back \in 0..3
  BY <1>1 DEF finished, Done, CompType
<1>3. lead(t) \in {0, 1}
  BY DEF lead
<1>4. /\ ahead(Done) = 0 /\ ahead(Prefix) = 1 /\ ahead(StartDir) = 2 /\ ahead(Body) = 3
      /\ 0 < 1 /\ 1 < 2 /\ 2 < 3 /\ 0 <= 1 /\ 1 <= 2 /\ 2 <= 3 /\ 3 <= 3
  BY DEF ahead, Done, Prefix, StartDir, Body
<1>5. CASE c.back = Body
  <2>1. CASE Len(c.path) > len_before_body(c)
    <3>1. next_back_turn(c) =
            yields(drop_right(c, parse_next_component_back(c).size), parse_next_component_back(c).comp)
      BY <1>5, <2>1 DEF next_back_turn
    <3> DEFINE it == drop_right(c, parse_next_component_back(c).size)
    <3>2. /\ it.front = c.front /\ it.back = c.back
          /\ \E d \in Nat : /\ a <= d /\ d < b /\ Slice(t, it, a, d)
                            /\ Passed(t, d, b, parse_next_component_back(c).comp)
      <4>1. c.front <= Body
        BY <1>2 DEF Body
      <4>2. QED
        BY <1>5, <2>1, <4>1, BackBody
    <3> HIDE DEF it
    <3>3. PICK d \in Nat : /\ a <= d /\ d < b /\ Slice(t, it, a, d)
                           /\ Passed(t, d, b, parse_next_component_back(c).comp)
      BY <3>2
    <3>4. d <= b /\ ahead(it.back) <= ahead(c.back)
      BY <1>1, <1>5, <1>4, <3>2, <3>3
    <3>5. next_back_turn(c).it = it /\ next_back_turn(c).out = parse_next_component_back(c).comp
      BY <3>1 DEF yields, it
    <3>6. QED
      BY <3>2, <3>3, <3>4, <3>5
  <2>2. CASE ~(Len(c.path) > len_before_body(c))
    <3>1. next_back_turn(c).it = [c EXCEPT !.back = StartDir] /\ next_back_turn(c).out = None
      BY <1>5, <2>2 DEF next_back_turn, yields
    <3>2. Len(c.path) = b - a /\ len_before_body(c) \in {0, 1}
      BY SliceBytes DEF len_before_body
    <3>3. CASE c.front <= StartDir
      <4>1. (c.has_physical_root \/ include_cur_dir(c)) <=> lead(t) = 1
        BY <1>5, <3>3, LeadKnown
      <4>2. len_before_body(c) = lead(t)
        BY <1>3, <3>3, <4>1 DEF len_before_body
      <4>3. a = 0 /\ b >= lead(t)
        BY <1>1, <1>5, <3>3 DEF Meets
      <4>4. b = lead(t)
        BY <1>1, <1>3, <2>2, <3>2, <4>2, <4>3
      <4>5. Meets(t, c.front, StartDir, a, b)
        BY <1>2, <3>3, <4>3, <4>4 DEF Meets, Prefix, StartDir, Body, Done
      <4>6. StartDir \in 0..3
        BY DEF StartDir
      <4>7. /\ Slice(t, next_back_turn(c).it, a, b) /\ Passed(t, b, b, None) /\ a <= b
            /\ next_back_turn(c).it.back = StartDir /\ next_back_turn(c).it.front = c.front
        BY <1>2, <4>5, <4>6, <3>1, BackState
      <4>8. QED
        BY <1>1, <1>5, <1>4, <3>1, <4>7 DEF yields
    <3>4. CASE ~(c.front <= StartDir)
      <4>1. len_before_body(c) = 0 /\ a >= lead(t)
        BY <1>1, <3>4 DEF len_before_body, Meets
      <4>2. a = b
        BY <1>1, <2>2, <3>2, <4>1
      <4>3. Meets(t, c.front, StartDir, a, b)
        BY <1>2, <3>4, <4>1, <4>2 DEF Meets, Prefix, StartDir, Body, Done
      <4>4. StartDir \in 0..3
        BY DEF StartDir
      <4>5. /\ Slice(t, next_back_turn(c).it, a, b) /\ Passed(t, b, b, None) /\ a <= b
            /\ next_back_turn(c).it.back = StartDir /\ next_back_turn(c).it.front = c.front
        BY <1>2, <4>3, <4>4, <3>1, BackState
      <4>6. QED
        BY <1>1, <1>5, <1>4, <3>1, <4>5 DEF yields
    <3>5. QED
      BY <3>3, <3>4
  <2>3. QED
    BY <2>1, <2>2
<1>6. CASE c.back = StartDir
  <2>1. /\ c.back \in {StartDir, Body} /\ c.front <= StartDir /\ a = 0 /\ b = lead(t)
    BY <1>1, <1>2, <1>3, <1>6 DEF Meets, Prefix, StartDir, Body, Done
  <2>2. (c.has_physical_root \/ include_cur_dir(c)) <=> lead(t) = 1
    BY <2>1, LeadKnown
  <2>3. CASE lead(t) = 1
    <3> DEFINE e == drop_right([c EXCEPT !.back = Prefix], 1)
               u == drop_right(c, 1)
    <3>1. next_back_turn(c) = yields(e, start_dir(c))
      BY <1>6, <2>2, <2>3 DEF next_back_turn, Prefix, StartDir, Body
    <3>2. Passed(t, 0, 1, start_dir(c)) /\ Cut(t, 0)
      BY <1>1, <2>3, LeadPassed DEF Cut
    <3>3. /\ u \in CompType /\ u.path = SubSeq(t, a + 1, b - 1)
          /\ u.has_physical_root = c.has_physical_root /\ u.front = c.front
      <4>1. 1 \in 0..(b - a)
        BY <1>1, <2>1, <2>3
      <4>2. QED
        BY <4>1, DropRight
    <3>4. /\ e \in CompType /\ e.path = u.path /\ e.back = Prefix /\ e.front = u.front
          /\ e.has_physical_root = u.has_physical_root
      <4> DEFINE v == [c EXCEPT !.back = Prefix]
                 q == SubSeq(c.path, 1, Len(c.path) - 1)
      <4>1. /\ v \in CompType /\ v.path = c.path /\ v.back = Prefix /\ v.front = c.front
            /\ v.has_physical_root = c.has_physical_root
        <5>1. c \in CompType /\ Prefix \in 0..3
          BY <1>1 DEF Prefix
        <5> QED
          BY <5>1 DEF CompType
      <4>2. u.path = q /\ q \in Seq(PathByte)
        BY <1>1, <3>3 DEF CompType, drop_right
      <4>3. e = [v EXCEPT !.path = q]
        BY <4>1 DEF drop_right
      <4> HIDE DEF v, q, e, u
      <4>4. /\ e \in CompType /\ e.path = q /\ e.front = v.front /\ e.back = v.back
            /\ e.has_physical_root = v.has_physical_root
        BY <4>1, <4>2, <4>3 DEF CompType
      <4>5. QED
        BY <3>3, <4>1, <4>2, <4>4
    <3>5. Meets(t, c.front, Prefix, 0, 0)
      BY <1>2, <2>1 DEF Meets, Prefix, StartDir, Body, Done
    <3>6. b - 1 = 0 /\ b = 1 /\ 0 \in Nat /\ 0 <= Len(t) /\ a <= 0 /\ 0 <= b
      BY <1>1, <2>1, <2>3
    <3> HIDE DEF e, u
    <3>7. Slice(t, e, 0, 0)
      BY <1>1, <2>1, <3>2, <3>3, <3>4, <3>5, <3>6 DEF Slice
    <3>8. QED
      BY <1>6, <1>4, <2>1, <3>1, <3>2, <3>3, <3>4, <3>6, <3>7 DEF yields
  <2>4. CASE lead(t) # 1
    <3>1. next_back_turn(c).it = [c EXCEPT !.back = Prefix] /\ next_back_turn(c).out = None
      BY <1>6, <2>2, <2>4 DEF next_back_turn, Prefix, StartDir, Body, yields
    <3>2. Meets(t, c.front, Prefix, a, b) /\ Prefix \in 0..3
      BY <1>1, <1>2, <1>3, <2>1, <2>4 DEF Meets, Prefix, StartDir, Body, Done
    <3>3. /\ Slice(t, next_back_turn(c).it, a, b) /\ Passed(t, b, b, None) /\ a <= b
          /\ next_back_turn(c).it.back = Prefix /\ next_back_turn(c).it.front = c.front
      BY <1>2, <3>2, <3>1, BackState
    <3>4. QED
      BY <1>1, <1>6, <1>4, <3>1, <3>3 DEF yields
  <2>5. QED
    BY <2>3, <2>4
<1>7. CASE c.back = Prefix
  <2>1. next_back_turn(c).it = [c EXCEPT !.back = Done] /\ next_back_turn(c).out = None
    BY <1>7 DEF next_back_turn, Prefix, StartDir, Body, yields
  <2>2. Meets(t, c.front, Done, a, b) /\ Done \in 0..3
    BY <1>1, <1>2, <1>7 DEF Meets, Prefix, StartDir, Body, Done
  <2>3. /\ Slice(t, next_back_turn(c).it, a, b) /\ Passed(t, b, b, None) /\ a <= b
        /\ next_back_turn(c).it.back = Done /\ next_back_turn(c).it.front = c.front
    BY <1>2, <2>2, <2>1, BackState
  <2>4. QED
    BY <1>1, <1>7, <1>4, <2>1, <2>3 DEF yields
<1>8. QED
  BY <1>2, <1>5, <1>6, <1>7 DEF Prefix, StartDir, Body
-----------------------------------------------------------------------------
(* fs and bs are components of t from its two ends, up to where the bytes   *)
(* after a up to b begin and end.                                           *)
Taken(t, fs, bs, a, b) ==
  LET n == Cardinality(Marks(t)) IN
  /\ Len(fs) = before(Marks(t), a + 1) /\ Len(bs) = n - before(Marks(t), b + 1)
  /\ \A k \in 1..Len(fs) : fs[k] = Parsed(t)[k]
  /\ \A k \in 1..Len(bs) : bs[k] = Parsed(t)[(n + 1) - k]

CInv ==
  /\ text \in Seq(PathByte)
  /\ fronts \in Seq(Seq(PathByte)) /\ backs \in Seq(Seq(PathByte))
  /\ ended => finished(comps)
  /\ \E a, b : Slice(text, comps, a, b) /\ Taken(text, fronts, backs, a, b)

(* The next component from the front is the one that a turn passed. *)
LEMMA FrontTaken ==
  ASSUME NEW t \in Seq(PathByte), NEW fs \in Seq(Seq(PathByte)), NEW bs, NEW w \in Seq(PathByte),
         NEW a \in Nat, NEW d \in Nat, NEW b \in Nat, a <= d,
         Taken(t, fs, bs, a, b), Passed(t, a, d, w)
  PROVE  Taken(t, IF w = None THEN fs ELSE Append(fs, w), bs, d, b)
<1> DEFINE M == Marks(t)
<1>1. M \in SUBSET (1..Len(t)) /\ Len(t) \in Nat
  BY MarksIn
<1>2. CASE w = None
  <2>1. \A i \in M : i \in Int /\ ~(a < i /\ i <= d)
    BY <1>1, <1>2 DEF Passed
  <2>2. \A i \in M : ~(a + 1 <= i /\ i < d + 1)
    BY <2>1
  <2>3. before(M, d + 1) = before(M, a + 1)
    <3>1. a + 1 \in Int /\ d + 1 \in Int /\ a + 1 <= d + 1
      OBVIOUS
    <3>2. QED
      BY <1>1, <2>2, <3>1, BeforeSame
  <2>4. QED
    BY <1>2, <2>3 DEF Taken
<1>3. CASE w # None
  <2>1. PICK f \in M : /\ a < f /\ f <= d /\ component(t, f) = w
                       /\ \A i \in M : a < i /\ i <= d => i = f
    BY <1>3 DEF Passed
  <2>2. before(M, f) = before(M, a + 1) /\ before(M, d + 1) = before(M, a + 1) + 1
    <3>1. \A i \in M : i \in Int
      BY <1>1
    <3> HIDE DEF M
    <3>2. Only(M, a + 1, d + 1, f)
      <4>1. \A i \in M : a + 1 <= i /\ i < d + 1 <=> a < i /\ i <= d
        BY <3>1
      <4>2. QED
        BY <2>1, <4>1, Zenon DEF Only
    <3>3. a + 1 \in Int /\ d + 1 \in Int
      OBVIOUS
    <3>4. QED
      BY <1>1, <3>2, <3>3, BeforeRange
  <2>3. before(M, f) + 1 \in 1..Cardinality(M) /\ nth(M, before(M, f) + 1) = f
    BY <1>1, NthIs
  <2>4. Len(fs) = before(M, f) /\ \A k \in 1..Len(fs) : fs[k] = Parsed(t)[k]
    BY <2>2 DEF Taken
  <2>5. Parsed(t)[Len(fs) + 1] = w
    BY <2>1, <2>3, <2>4 DEF Parsed
  <2> DEFINE gs == Append(fs, w)
  <2>6. /\ Len(gs) = Len(fs) + 1 /\ gs[Len(fs) + 1] = w /\ Len(fs) \in Nat
        /\ \A k \in 1..Len(fs) : gs[k] = fs[k]
    OBVIOUS
  <2> HIDE DEF gs
  <2>7. \A k \in 1..Len(gs) : gs[k] = Parsed(t)[k]
    <3>1. \A k \in 1..Len(gs) : k \in 1..Len(fs) \/ k = Len(fs) + 1
      BY <2>6
    <3>2. QED
      BY <2>4, <2>5, <2>6, <3>1
  <2>8. Taken(t, gs, bs, d, b)
    BY <2>2, <2>4, <2>6, <2>7 DEF Taken
  <2>9. QED
    BY <1>3, <2>8 DEF gs
<1>4. QED
  BY <1>2, <1>3

LEMMA BackTaken ==
  ASSUME NEW t \in Seq(PathByte), NEW fs, NEW bs \in Seq(Seq(PathByte)), NEW w \in Seq(PathByte),
         NEW a \in Nat, NEW d \in Nat, NEW b \in Nat, d <= b,
         Taken(t, fs, bs, a, b), Passed(t, d, b, w)
  PROVE  Taken(t, fs, IF w = None THEN bs ELSE Append(bs, w), a, d)
<1> DEFINE M == Marks(t)
           n == Cardinality(Marks(t))
<1>1. M \in SUBSET (1..Len(t)) /\ Len(t) \in Nat
  BY MarksIn
<1>2. CASE w = None
  <2>1. \A i \in M : i \in Int /\ ~(d < i /\ i <= b)
    BY <1>1, <1>2 DEF Passed
  <2>2. \A i \in M : ~(d + 1 <= i /\ i < b + 1)
    BY <2>1
  <2>3. before(M, b + 1) = before(M, d + 1)
    <3>1. d + 1 \in Int /\ b + 1 \in Int /\ d + 1 <= b + 1
      OBVIOUS
    <3>2. QED
      BY <1>1, <2>2, <3>1, BeforeSame
  <2>4. QED
    BY <1>2, <2>3 DEF Taken
<1>3. CASE w # None
  <2>1. PICK f \in M : /\ d < f /\ f <= b /\ component(t, f) = w
                       /\ \A i \in M : d < i /\ i <= b => i = f
    BY <1>3 DEF Passed
  <2>2. before(M, f) = before(M, d + 1) /\ before(M, b + 1) = before(M, d + 1) + 1
    <3>1. \A i \in M : i \in Int
      BY <1>1
    <3> HIDE DEF M
    <3>2. Only(M, d + 1, b + 1, f)
      <4>1. \A i \in M : d + 1 <= i /\ i < b + 1 <=> d < i /\ i <= b
        BY <3>1
      <4>2. QED
        BY <2>1, <4>1, Zenon DEF Only
    <3>3. d + 1 \in Int /\ b + 1 \in Int
      OBVIOUS
    <3>4. QED
      BY <1>1, <3>2, <3>3, BeforeRange
  <2>3. before(M, f) + 1 \in 1..Cardinality(M) /\ nth(M, before(M, f) + 1) = f
    BY <1>1, NthIs
  <2>4. Len(bs) = n - before(M, b + 1) /\ \A k \in 1..Len(bs) : bs[k] = Parsed(t)[(n + 1) - k]
    BY DEF Taken
  <2>5. n \in Nat /\ before(M, f) \in Nat /\ Len(bs) \in Nat
    <3>1. f \in Int /\ Len(bs) \in Nat
      BY <1>1
    <3>2. Cardinality(M) \in Nat /\ before(M, f) \in Nat
      BY <1>1, <3>1, BeforeFinite
    <3>3. QED
      BY <3>1, <3>2
  <2>6. Parsed(t)[before(M, f) + 1] = w
    BY <2>1, <2>3 DEF Parsed
  <2> HIDE DEF M, n
  <2>7. (n + 1) - (Len(bs) + 1) = before(M, f) + 1 /\ n - before(M, d + 1) = Len(bs) + 1
    BY <2>2, <2>4, <2>5
  <2> DEFINE gs == Append(bs, w)
  <2>8. /\ Len(gs) = Len(bs) + 1 /\ gs[Len(bs) + 1] = w
        /\ \A k \in 1..Len(bs) : gs[k] = bs[k]
    OBVIOUS
  <2> HIDE DEF gs
  <2>9. \A k \in 1..Len(gs) : gs[k] = Parsed(t)[(n + 1) - k]
    <3>1. \A k \in 1..Len(gs) : k \in 1..Len(bs) \/ k = Len(bs) + 1
      BY <2>5, <2>8
    <3>2. gs[Len(bs) + 1] = Parsed(t)[(n + 1) - (Len(bs) + 1)]
      BY <2>6, <2>7, <2>8
    <3>3. QED
      BY <2>4, <2>8, <3>1, <3>2
  <2>10. Taken(t, fs, gs, a, d)
    BY <2>7, <2>8, <2>9 DEF Taken, M, n
  <2>11. QED
    BY <1>3, <2>10 DEF gs
<1>4. QED
  BY <1>2, <1>3
-----------------------------------------------------------------------------
LEMMA CompsStart == CompsInit => CInv
<1> SUFFICES ASSUME NEW t \in Texts(MaxPath), iterates(t) PROVE CInv
  BY DEF CompsInit
<1>1. t \in Seq(PathByte) /\ Len(t) \in Nat
  <2>1. PICK m \in 0..MaxPath : t \in [1..m -> PathByte]
    BY DEF Texts
  <2>2. m \in Nat
    BY PathAssumption
  <2>3. QED
    BY <2>1, <2>2
<1>2. /\ text = t /\ comps = components(t) /\ fronts = <<>> /\ backs = <<>> /\ ended = FALSE
  BY DEF iterates
<1>3. /\ comps.path = t /\ comps.has_physical_root = has_physical_root(t)
      /\ comps.front = Prefix /\ comps.back = Body /\ comps \in CompType
  <2>1. has_physical_root(t) \in BOOLEAN /\ Prefix \in 0..3 /\ Body \in 0..3
    BY DEF has_physical_root, Prefix, Body
  <2>2. QED
    BY <1>1, <1>2, <2>1 DEF components, CompType
<1>4. t = SubSeq(t, 0 + 1, Len(t))
  <2> DEFINE q == SubSeq(t, 0 + 1, Len(t))
  <2>1. 0 \in 0..Len(t) /\ Len(t) \in 0..Len(t) /\ Len(t) - 0 = Len(t) /\ \A i \in Int : 0 + i = i
    BY <1>1
  <2>2. /\ q \in Seq(PathByte) /\ Len(q) = Len(t) - 0
        /\ \A i \in 1..(Len(t) - 0) : q[i] = t[0 + i]
    BY <1>1, <2>1, Bytes
  <2> HIDE DEF q
  <2>3. Len(q) = Len(t) /\ \A i \in 1..Len(q) : q[i] = t[i]
    BY <2>1, <2>2
  <2>4. q = t
    BY <1>1, <2>2, <2>3, SeqEqual
  <2>5. QED
    BY <2>4 DEF q
<1>5. lead(t) <= Len(t)
  BY <1>1 DEF lead
<1>6. Slice(text, comps, 0, Len(t))
  <2>1. Meets(t, Prefix, Body, 0, Len(t))
    BY <1>1, <1>5 DEF Meets, Prefix, StartDir, Body, Done
  <2>2. Cut(t, 0) /\ Cut(t, Len(t))
    BY DEF Cut
  <2>3. QED
    BY <1>1, <1>2, <1>3, <1>4, <2>1, <2>2 DEF Slice
<1>7. Taken(text, fronts, backs, 0, Len(t))
  <2>1. Marks(t) \in SUBSET (1..Len(t))
    BY <1>1, MarksIn
  <2>2. before(Marks(t), 1) = 0 /\ before(Marks(t), Len(t) + 1) = Cardinality(Marks(t))
    BY <1>1, <2>1, BeforeEnds
  <2>3. Cardinality(Marks(t)) \in Nat
    BY <1>1, <2>1, BeforeFinite
  <2>4. /\ Len(<<>>) = 0 /\ 0 + 1 = 1 /\ 1..0 = {}
        /\ Cardinality(Marks(t)) - Cardinality(Marks(t)) = 0
    BY <2>3
  <2>5. QED
    BY <1>2, <2>2, <2>4 DEF Taken
<1>8. fronts \in Seq(Seq(PathByte)) /\ backs \in Seq(Seq(PathByte))
  BY <1>2
<1>9. QED
  BY <1>1, <1>2, <1>6, <1>7, <1>8 DEF CInv

(* A component that a turn passed is made of the path's bytes. *)
LEMMA PassedBytes ==
  ASSUME NEW t \in Seq(PathByte), NEW x, NEW y, NEW w, Passed(t, x, y, w)
  PROVE  w \in Seq(PathByte)
<1>1. CASE w = None
  BY <1>1 DEF None
<1>2. CASE w # None
  <2>1. PICK f \in Marks(t) : component(t, f) = w
    BY <1>2 DEF Passed
  <2>2. f \in 1..Len(t) /\ Len(t) \in Nat
    BY MarksIn
  <2>3. CASE t[f] = Sep
    <3>1. w = <<Sep>> /\ Sep \in PathByte
      BY <2>1, <2>3 DEF component, RootDir, PathByte
    <3>2. QED
      BY <3>1
  <2>4. CASE t[f] # Sep
    <3> DEFINE S == {j \in f..(Len(t) + 1) : j = Len(t) + 1 \/ t[j] = Sep}
    <3>1. S \in SUBSET Nat /\ Len(t) + 1 \in S
      BY <2>2
    <3>2. Min(S) \in S
      <4> HIDE DEF S
      <4> QED
        BY <3>1, MinOfNat
    <3>3. /\ f - 1 \in 0..Len(t) /\ Min(S) - 1 \in (f - 1)..Len(t) /\ (f - 1) + 1 = f
      BY <2>2, <3>2
    <3> HIDE DEF S
    <3>4. SubSeq(t, f, Min(S) - 1) \in Seq(PathByte)
      BY <3>3, Bytes
    <3>5. QED
      BY <2>1, <2>4, <3>4 DEF component, Word, S
  <2>5. QED
    BY <2>3, <2>4
<1>3. QED
  BY <1>1, <1>2

LEMMA FrontKeeps ==
  ASSUME CInv, front_turn
  PROVE  CInv'
<1> DEFINE r == next_turn(comps)
<1>1. PICK a, b : Slice(text, comps, a, b) /\ Taken(text, fronts, backs, a, b)
  BY DEF CInv
<1>2. /\ text \in Seq(PathByte) /\ fronts \in Seq(Seq(PathByte)) /\ backs \in Seq(Seq(PathByte))
      /\ ~ended /\ a \in Nat /\ b \in Nat
  BY <1>1 DEF CInv, front_turn, Slice
<1>3. PICK d \in Nat : a <= d /\ d <= b /\ Slice(text, r.it, d, b) /\ Passed(text, a, d, r.out)
  BY <1>1, <1>2, FrontTurn DEF front_turn
<1>4. r.out \in Seq(PathByte)
  BY <1>2, <1>3, PassedBytes
<1>5. /\ comps' = r.it /\ text' = text /\ backs' = backs /\ ended' = ended
      /\ fronts' = IF r.out = None THEN fronts ELSE Append(fronts, r.out)
  BY DEF front_turn
<1> HIDE DEF r
<1>6. Taken(text, fronts', backs, d, b)
  BY <1>1, <1>2, <1>3, <1>4, <1>5, FrontTaken
<1>7. fronts' \in Seq(Seq(PathByte))
  BY <1>2, <1>4, <1>5
<1>8. Slice(text', comps', d, b) /\ Taken(text', fronts', backs', d, b)
  BY <1>3, <1>5, <1>6
<1>9. QED
  BY <1>2, <1>5, <1>7, <1>8 DEF CInv

LEMMA BackKeeps ==
  ASSUME CInv, back_turn
  PROVE  CInv'
<1> DEFINE r == next_back_turn(comps)
<1>1. PICK a, b : Slice(text, comps, a, b) /\ Taken(text, fronts, backs, a, b)
  BY DEF CInv
<1>2. /\ text \in Seq(PathByte) /\ fronts \in Seq(Seq(PathByte)) /\ backs \in Seq(Seq(PathByte))
      /\ ~ended /\ a \in Nat /\ b \in Nat
  BY <1>1 DEF CInv, back_turn, Slice
<1>3. PICK d \in Nat : a <= d /\ d <= b /\ Slice(text, r.it, a, d) /\ Passed(text, d, b, r.out)
  BY <1>1, <1>2, BackTurn DEF back_turn
<1>4. r.out \in Seq(PathByte)
  BY <1>2, <1>3, PassedBytes
<1>5. /\ comps' = r.it /\ text' = text /\ fronts' = fronts /\ ended' = ended
      /\ backs' = IF r.out = None THEN backs ELSE Append(backs, r.out)
  BY DEF back_turn
<1> HIDE DEF r
<1>6. Taken(text, fronts, backs', a, d)
  BY <1>1, <1>2, <1>3, <1>4, <1>5, BackTaken
<1>7. backs' \in Seq(Seq(PathByte))
  BY <1>2, <1>4, <1>5
<1>8. Slice(text', comps', a, d) /\ Taken(text', fronts', backs', a, d)
  BY <1>3, <1>5, <1>6
<1>9. QED
  BY <1>2, <1>5, <1>7, <1>8 DEF CInv

(* CInv is inductive. *)
THEOREM ComponentsInvariant == CompsSpec => []CInv
<1>1. ASSUME CInv, [CompsNext]_comps_vars PROVE CInv'
  <2>1. ASSUME text' = text, comps' = comps, fronts' = fronts, backs' = backs, ended' = ended
        PROVE  CInv'
    BY <1>1, <2>1 DEF CInv
  <2>2. CASE take("front") \/ take("back")
    BY <2>1, <2>2 DEF take
  <2>3. CASE front_turn
    BY <1>1, <2>3, FrontKeeps
  <2>4. CASE back_turn
    BY <1>1, <2>4, BackKeeps
  <2>5. CASE take_none
    BY <1>1, <2>5 DEF take_none, CInv
  <2>6. CASE UNCHANGED comps_vars
    BY <2>1, <2>6 DEF comps_vars
  <2>7. QED
    BY <1>1, <2>2, <2>3, <2>4, <2>5, <2>6 DEF CompsNext
<1>2. QED
  BY <1>1, CompsStart, PTL DEF CompsSpec

(* EndsMeet: from whichever end next and next_back take the components of a *)
(* path, and however the calls interleave, each of them is produced once    *)
(* and in its place, and when one returns None all have been.               *)
THEOREM ComponentsMeet == CompsSpec => []EndsMeet
<1>1. CInv => EndsMeet
  <2> SUFFICES ASSUME CInv PROVE EndsMeet
    OBVIOUS
  <2> DEFINE M == Marks(text)
             n == Cardinality(M)
  <2>1. PICK a, b : Slice(text, comps, a, b) /\ Taken(text, fronts, backs, a, b)
    BY DEF CInv
  <2>2. M \in SUBSET (1..Len(text)) /\ Len(text) \in Nat /\ text \in Seq(PathByte)
    BY MarksIn DEF CInv
  <2>3. a \in Nat /\ b \in Nat /\ a <= b
    BY <2>1 DEF Slice
  <2>4. a + 1 \in Int /\ b + 1 \in Int /\ a + 1 <= b + 1
    BY <2>3
  <2>5. n \in Nat /\ before(M, a + 1) \in Nat /\ before(M, b + 1) \in Nat
    BY <2>2, <2>4, BeforeFinite
  <2>6. before(M, a + 1) <= before(M, b + 1) /\ before(M, b + 1) <= n
    BY <2>2, <2>4, BeforeGrows
  <2>7. Len(Parsed(text)) = n
    BY <2>5 DEF Parsed
  <2>8. Len(fronts) = before(M, a + 1) /\ Len(backs) = n - before(M, b + 1)
    BY <2>1 DEF Taken
  <2>9. finished(comps) => a = b
    <3>1. /\ comps.front \in 0..3 /\ comps.back \in 0..3
          /\ Meets(text, comps.front, comps.back, a, b)
      BY <2>1 DEF Slice, CompType
    <3>2. QED
      BY <3>1 DEF finished, Meets, Prefix, StartDir, Body, Done
  <2>10. ended => a = b
    BY <2>9 DEF CInv
  <2> HIDE DEF M, n
  <2>11. /\ Len(fronts) + Len(backs) <= n
         /\ ended => Len(fronts) + Len(backs) = n
    BY <2>5, <2>6, <2>8, <2>10
  <2>12. /\ \A k \in 1..Len(fronts) : fronts[k] = Parsed(text)[k]
         /\ \A k \in 1..Len(backs) : backs[k] = Parsed(text)[(n + 1) - k]
    BY <2>1 DEF Taken, M, n
  <2>13. QED
    BY <2>7, <2>11, <2>12 DEF EndsMeet
<1>2. QED
  BY <1>1, ComponentsInvariant, PTL

(* RootIsThere: neither end cuts the root off an empty slice. *)
THEOREM RootNotCutTwice == CompsSpec => []RootIsThere
<1>1. ASSUME CInv, ~finished(comps), comps.has_physical_root,
             comps.front = StartDir \/ comps.back = StartDir
      PROVE  comps.path # <<>>
  <2>1. PICK a, b : Slice(text, comps, a, b)
    BY <1>1 DEF CInv
  <2>2. /\ text \in Seq(PathByte) /\ a \in Nat /\ b \in Nat
        /\ comps.front \in 0..3 /\ comps.back \in 0..3
        /\ Meets(text, comps.front, comps.back, a, b)
        /\ comps.has_physical_root = has_physical_root(text)
    BY <1>1, <2>1 DEF CInv, Slice, CompType
  <2>3. lead(text) = 1
    BY <1>1, <2>2 DEF has_physical_root, lead
  <2>4. a = 0 /\ b >= 1
    BY <1>1, <2>2, <2>3 DEF Meets, finished, Prefix, StartDir, Body, Done
  <2>5. Len(comps.path) = b - a
    BY <2>1, <2>2, SliceBytes
  <2>6. Len(<<>>) = 0 /\ b - a # 0
    BY <2>2, <2>4
  <2>7. QED
    BY <2>5, <2>6
<1>2. CInv => RootIsThere
  BY <1>1 DEF RootIsThere
<1>3. QED
  BY <1>2, ComponentsInvariant, PTL

(* TurnsProgress: no turn of next or next_back repeats. *)
THEOREM EveryTurnTakes == CompsSpec => TurnsProgress
<1>1. ASSUME CInv, [CompsNext]_comps_vars, ~UNCHANGED comps_vars,
             taking # "none", ~finished(comps)
      PROVE  to_go(comps') \in Nat /\ to_go(comps') < to_go(comps)
  <2>1. PICK a, b : Slice(text, comps, a, b)
    BY <1>1 DEF CInv
  <2>2. text \in Seq(PathByte) /\ a \in Nat /\ b \in Nat
    BY <1>1, <2>1 DEF CInv, Slice
  <2>3. ASSUME NEW c, NEW x, NEW y, Slice(text, c, x, y)
        PROVE  /\ Len(c.path) = y - x /\ x \in Nat /\ y \in Nat /\ x <= y
               /\ c.front \in 0..3 /\ ahead(c.back) \in Nat
               /\ to_go(c) = (y - x) + (3 - c.front) + ahead(c.back)
    <3>1. Len(c.path) = y - x
      BY <2>2, <2>3, SliceBytes
    <3>2. x \in Nat /\ y \in Nat /\ x <= y /\ c.front \in 0..3 /\ c.back \in 0..3
      BY <2>3 DEF Slice, CompType
    <3>3. ahead(c.back) \in Nat
      BY <3>2 DEF ahead
    <3>4. QED
      BY <3>1, <3>2, <3>3 DEF to_go, Done
  <2>4. CASE front_turn
    <3>1. comps' = next_turn(comps).it
      BY <2>4 DEF front_turn
    <3>2. PICK d \in Nat :
            /\ a <= d /\ Slice(text, comps', d, b)
            /\ comps'.back = comps.back /\ comps.front <= comps'.front
            /\ a < d \/ comps.front < comps'.front
      BY <1>1, <2>1, <2>2, <3>1, FrontTurn
    <3>3. /\ to_go(comps) = (b - a) + (3 - comps.front) + ahead(comps.back)
          /\ comps.front \in 0..3 /\ ahead(comps.back) \in Nat
      BY <2>1, <2>3
    <3>4. /\ to_go(comps') = (b - d) + (3 - comps'.front) + ahead(comps.back)
          /\ comps'.front \in 0..3 /\ d <= b
      BY <2>3, <3>2
    <3>5. /\ a <= d /\ comps.front <= comps'.front
          /\ a < d \/ comps.front < comps'.front
      BY <3>2
    <3>6. ASSUME NEW f \in 0..3, NEW g \in 0..3, NEW k \in Nat, f <= g, a < d \/ f < g
          PROVE  /\ (b - d) + (3 - g) + k \in Nat
                 /\ (b - d) + (3 - g) + k < (b - a) + (3 - f) + k
      BY <2>2, <3>4, <3>5, <3>6
    <3>7. QED
      BY <3>3, <3>4, <3>5, <3>6
  <2>5. CASE back_turn
    <3>1. comps' = next_back_turn(comps).it
      BY <2>5 DEF back_turn
    <3>2. PICK d \in Nat :
            /\ d <= b /\ Slice(text, comps', a, d)
            /\ comps'.front = comps.front /\ ahead(comps'.back) <= ahead(comps.back)
            /\ d < b \/ ahead(comps'.back) < ahead(comps.back)
      BY <1>1, <2>1, <2>2, <3>1, BackTurn
    <3>3. /\ to_go(comps) = (b - a) + (3 - comps.front) + ahead(comps.back)
          /\ comps.front \in 0..3 /\ ahead(comps.back) \in Nat
      BY <2>1, <2>3
    <3>4. /\ to_go(comps') = (d - a) + (3 - comps.front) + ahead(comps'.back)
          /\ ahead(comps'.back) \in Nat /\ a <= d
      BY <2>3, <3>2
    <3>5. /\ d <= b /\ ahead(comps'.back) <= ahead(comps.back)
          /\ d < b \/ ahead(comps'.back) < ahead(comps.back)
      BY <3>2
    <3>6. ASSUME NEW f \in 0..3, NEW k \in Nat, NEW l \in Nat, l <= k, d < b \/ l < k
          PROVE  /\ (d - a) + (3 - f) + l \in Nat
                 /\ (d - a) + (3 - f) + l < (b - a) + (3 - f) + k
      BY <2>2, <3>4, <3>5, <3>6
    <3>7. QED
      BY <3>3, <3>4, <3>5, <3>6
  <2>6. front_turn \/ back_turn
    BY <1>1 DEF CompsNext, take, take_none
  <2>7. QED
    BY <2>4, <2>5, <2>6
<1>2. CInv /\ [CompsNext]_comps_vars =>
        [taking # "none" /\ ~finished(comps) =>
           to_go(comps') \in Nat /\ to_go(comps') < to_go(comps)]_comps_vars
  BY <1>1
<1>3. QED
  BY <1>2, ComponentsInvariant, PTL DEF CompsSpec, TurnsProgress
=============================================================================
