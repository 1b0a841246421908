----------------------------- MODULE Components -----------------------------
(***************************************************************************)
(* std/src/path.rs: Components, the double-ended iterator over the parts   *)
(* of a path, as far as it is built for this target (no prefixes).  A turn *)
(* of the loop of next or next_back is a step.                             *)
(*                                                                         *)
(* A path is a sequence of bytes; a component is the bytes that as_os_str  *)
(* gives for it.                                                           *)
(***************************************************************************)
EXTENDS Integers, Sequences, FiniteSets, FiniteSetsExt

CONSTANTS
  Letters,   \* the bytes besides the separator and the dot
  MaxPath    \* bound: bytes of a path that is iterated

ASSUME PathAssumption == MaxPath \in Nat

Sep == "/"
Dot == "."

RootDir   == <<Sep>>
CurDir    == <<Dot>>
ParentDir == <<Dot, Dot>>
None      == <<>>          \* no component is empty

PathByte == {Sep, Dot} \cup Letters

Texts(k) == UNION {[1..m -> PathByte] : m \in 0..k}
-----------------------------------------------------------------------------
(* The iterator's State, in its order. *)
Prefix == 0
StartDir == 1
Body == 2
Done == 3

has_physical_root(s) == s # <<>> /\ s[1] = Sep

components(s) ==
  [path |-> s, has_physical_root |-> has_physical_root(s), front |-> Prefix, back |-> Body]

include_cur_dir(c) ==
  /\ ~c.has_physical_root
  /\ c.path # <<>> /\ c.path[1] = Dot
  /\ Len(c.path) = 1 \/ c.path[2] = Sep

len_before_body_blind(c) == 0   \* mutant: the back eats the start of the path

len_before_body(c) ==
  IF c.front <= StartDir /\ (c.has_physical_root \/ include_cur_dir(c)) THEN 1 ELSE 0

finished(c) == c.front = Done \/ c.back = Done \/ c.front > c.back

parse_single_component(s) == IF s = <<Dot>> THEN None ELSE s

position(s, b) == {i \in 1..Len(s) : s[i] = b}

parse_next_component(c) ==
  LET seps == position(c.path, Sep) IN
  IF seps = {} THEN [size |-> Len(c.path), comp |-> parse_single_component(c.path)]
  ELSE [size |-> Min(seps),
        comp |-> parse_single_component(SubSeq(c.path, 1, Min(seps) - 1))]

parse_next_component_back(c) ==
  LET body == SubSeq(c.path, len_before_body(c) + 1, Len(c.path))
      seps == position(body, Sep)
      from == IF seps = {} THEN 1 ELSE Max(seps) + 1
      comp == SubSeq(body, from, Len(body))
  IN  [size |-> Len(comp) + (IF seps = {} THEN 0 ELSE 1), comp |-> parse_single_component(comp)]

drop_left(c, k)  == [c EXCEPT !.path = SubSeq(@, k + 1, Len(@))]
drop_right(c, k) == [c EXCEPT !.path = SubSeq(@, 1, Len(@) - k)]

yields(c, comp) == [it |-> c, out |-> comp]

start_dir(c) == IF c.has_physical_root THEN RootDir ELSE CurDir

(* One turn of the loop of next. *)
next_turn(c) ==
  LET parsed == parse_next_component(c) IN
  IF c.front = Prefix THEN yields([c EXCEPT !.front = StartDir], None)
  ELSE IF c.front = StartDir THEN
    IF c.has_physical_root \/ include_cur_dir(c)
    THEN yields(drop_left([c EXCEPT !.front = Body], 1), start_dir(c))
    ELSE yields([c EXCEPT !.front = Body], None)
  ELSE IF c.path # <<>> THEN yields(drop_left(c, parsed.size), parsed.comp)
  ELSE yields([c EXCEPT !.front = Done], None)

(* One turn of the loop of next_back.  Its last one returns None at once;   *)
(* here the loop ends, which it would as well.                              *)
next_back_turn(c) ==
  LET parsed == parse_next_component_back(c) IN
  IF c.back = Body THEN
    IF Len(c.path) > len_before_body(c)
    THEN yields(drop_right(c, parsed.size), parsed.comp)
    ELSE yields([c EXCEPT !.back = StartDir], None)
  ELSE IF c.back = StartDir THEN
    IF c.has_physical_root \/ include_cur_dir(c)
    THEN yields(drop_right([c EXCEPT !.back = Prefix], 1), start_dir(c))
    ELSE yields([c EXCEPT !.back = Prefix], None)
  ELSE yields([c EXCEPT !.back = Done], None)
-----------------------------------------------------------------------------
VARIABLES
  text,      \* the path that is iterated
  comps,     \* its Components
  taking,    \* inside next ("front") or next_back ("back"), or "none"
  fronts,    \* history: what next and next_back returned
  backs,
  ended      \* history: one of them returned None

comps_vars == <<text, comps, taking, fronts, backs, ended>>

iterates(t) ==
  /\ text = t /\ comps = components(t) /\ taking = "none"
  /\ fronts = <<>> /\ backs = <<>> /\ ended = FALSE

CompsInit == \E t \in Texts(MaxPath) : iterates(t)

(* next or next_back is called. *)
take(end) ==
  /\ taking = "none" /\ taking' = end
  /\ UNCHANGED <<text, comps, fronts, backs, ended>>

front_turn ==
  LET r == next_turn(comps) IN
  /\ taking = "front" /\ ~finished(comps)
  /\ comps' = r.it
  /\ IF r.out = None THEN UNCHANGED <<taking, fronts>>
     ELSE taking' = "none" /\ fronts' = Append(fronts, r.out)
  /\ UNCHANGED <<text, backs, ended>>

back_turn ==
  LET r == next_back_turn(comps) IN
  /\ taking = "back" /\ ~finished(comps)
  /\ comps' = r.it
  /\ IF r.out = None THEN UNCHANGED <<taking, backs>>
     ELSE taking' = "none" /\ backs' = Append(backs, r.out)
  /\ UNCHANGED <<text, fronts, ended>>

(* The loop is left: next or next_back returns None. *)
take_none ==
  /\ taking # "none" /\ finished(comps)
  /\ taking' = "none" /\ ended' = TRUE
  /\ UNCHANGED <<text, comps, fronts, backs>>

CompsNext == take("front") \/ take("back") \/ front_turn \/ back_turn \/ take_none

CompsSpec == CompsInit /\ [][CompsNext]_comps_vars
-----------------------------------------------------------------------------
(* The reference.  A path is the words between its separators, except for   *)
(* words "." that do not begin it, after the root if it begins with one.    *)
Word(t, i) ==
  SubSeq(t, i, Min({j \in i..(Len(t) + 1) : j = Len(t) + 1 \/ t[j] = Sep}) - 1)

component(t, i) == IF t[i] = Sep THEN RootDir ELSE Word(t, i)

(* Where the components of t begin. *)
Marks(t) ==
  {i \in 1..Len(t) : i = 1 \/ (t[i] # Sep /\ t[i - 1] = Sep /\ Word(t, i) # CurDir)}

before(S, i) == Cardinality({j \in S : j < i})

nth(S, k) == CHOOSE i \in S : before(S, i) = k - 1

Parsed(t) == [k \in 1..Cardinality(Marks(t)) |-> component(t, nth(Marks(t), k))]

(* From whichever end the components are taken, every one is produced once  *)
(* and in its place, and the two ends meet.                                 *)
EndsMeet ==
  LET all == Parsed(text) IN
  /\ Len(fronts) + Len(backs) <= Len(all)
  /\ \A k \in 1..Len(fronts) : fronts[k] = all[k]
  /\ \A k \in 1..Len(backs) : backs[k] = all[(Len(all) + 1) - k]
  /\ ended => Len(fronts) + Len(backs) = Len(all)

(* The root is still in the slice when next or next_back cuts it off: the   *)
(* assertion of next, and that the length in next_back does not underflow.  *)
RootIsThere ==
  /\ ~finished(comps) /\ comps.has_physical_root
  /\ comps.front = StartDir \/ comps.back = StartDir
  => comps.path # <<>>

(* What an iterator has left to go through. *)
ahead(state) == IF state = Done THEN 0 ELSE state + 1

to_go(c) == Len(c.path) + (Done - c.front) + ahead(c.back)

(* Every turn of the loops of next and next_back leaves less to go through, *)
(* so each call returns.                                                    *)
TurnsProgress ==
  [][taking # "none" /\ ~finished(comps) =>
       to_go(comps') \in Nat /\ to_go(comps') < to_go(comps)]_comps_vars
=============================================================================
