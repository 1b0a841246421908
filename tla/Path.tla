-------------------------------- MODULE Path --------------------------------
(***************************************************************************)
(* std/src/path.rs, as far as it is built for this target (no prefixes, no *)
(* file system): what Path and PathBuf build on the iterator of module     *)
(* Components, and the shell's canonical_join that walks one path with the *)
(* iterator and edits another.                                             *)
(*                                                                         *)
(* An Option is a set of at most one element.                              *)
(***************************************************************************)
EXTENDS Components, SequencesExt

CONSTANT
  MaxArg     \* bound: bytes of a path that is typed, pushed or stripped

(* A whole call: turns until one produces a component. *)
RECURSIVE next(_)
next(c) ==
  IF finished(c) THEN yields(c, None)
  ELSE LET turn == next_turn(c) IN IF turn.out # None THEN turn ELSE next(turn.it)

RECURSIVE next_back(_)
next_back(c) ==
  IF finished(c) THEN yields(c, None)
  ELSE LET turn == next_back_turn(c) IN IF turn.out # None THEN turn ELSE next_back(turn.it)

RECURSIVE trim_left(_)
trim_left(c) ==
  LET parsed == parse_next_component(c) IN
  IF c.path = <<>> \/ parsed.comp # None THEN c ELSE trim_left(drop_left(c, parsed.size))

RECURSIVE trim_right(_)
trim_right(c) ==
  LET parsed == parse_next_component_back(c) IN
  IF Len(c.path) <= len_before_body(c) \/ parsed.comp # None THEN c
  ELSE trim_right(drop_right(c, parsed.size))

as_path(c) ==
  LET left == IF c.front = Body THEN trim_left(c) ELSE c
  IN  (IF c.back = Body THEN trim_right(left) ELSE left).path
-----------------------------------------------------------------------------
(* Path and PathBuf. *)
is_absolute(p) == components(p).has_physical_root

parent(p) ==
  LET last == next_back(components(p)) IN
  IF last.out \in {None, RootDir} THEN {} ELSE {as_path(last.it)}

file_name(p) ==
  LET last == next_back(components(p)).out IN
  IF last \in {None, RootDir, CurDir, ParentDir} THEN {} ELSE {last}

push_glued(p, q) == IF is_absolute(q) THEN q ELSE p \o q   \* mutant: no separator

push_separated(p, q) ==   \* mutant: a separator also after a separator
  IF is_absolute(q) THEN q ELSE p \o <<Sep>> \o q

_push(p, q) ==
  LET need_sep == p # <<>> /\ Last(p) # Sep IN
  IF is_absolute(q) THEN q ELSE IF need_sep THEN p \o <<Sep>> \o q ELSE p \o q

(* The buffer after pop, which returns whether there is a parent. *)
pop(p) == IF parent(p) = {} THEN p ELSE SubSeq(p, 1, Len(CHOOSE q \in parent(p) : TRUE))

(* (before, after) of the last dot, as file_stem and extension use them. *)
split_file_at_dot(f) ==
  LET dots == position(f, Dot) IN
  IF f = ParentDir \/ dots = {} \/ Max(dots) = 1 THEN [stem |-> f, extension |-> {}]
  ELSE [stem |-> SubSeq(f, 1, Max(dots) - 1), extension |-> {SubSeq(f, Max(dots) + 1, Len(f))}]

set_file_name(p, f) == _push(IF file_name(p) = {} THEN p ELSE pop(p), f)

set_extension(p, e) ==
  IF file_name(p) = {} THEN p
  ELSE LET stem == split_file_at_dot(CHOOSE f \in file_name(p) : TRUE).stem
       IN  set_file_name(p, IF e = <<>> THEN stem ELSE stem \o <<Dot>> \o e)

(* What is left of iterator c after iterator b, from the front or the back. *)
RECURSIVE iter_after(_, _, _)
iter_after(c, b, back) ==
  LET x == IF back THEN next_back(c) ELSE next(c)
      y == IF back THEN next_back(b) ELSE next(b)
  IN  IF y.out = None THEN {c}
      ELSE IF x.out # y.out THEN {}
      ELSE iter_after(x.it, y.it, back)

strip_prefix(p, base) ==
  {as_path(c) : c \in iter_after(components(p), components(base), FALSE)}

ends_with(p, child) == iter_after(components(p), components(child), TRUE) # {}

reset_once(p) == pop(p)   \* mutant: the loop of reset is an if

(* shell.rs: Reset for PathBuf *)
RECURSIVE reset_buf(_)
reset_buf(p) == IF parent(p) = {} THEN p ELSE reset_buf(pop(p))
-----------------------------------------------------------------------------
VARIABLES
  using,     \* "iterate": a caller takes components from both ends of a path;
             \* "cd": the shell changes directories; "join": inside canonical_join
  cwd_buf,   \* the shell's cwd
  pathbuf    \* the copy that canonical_join edits

path_vars == <<using, comps_vars, cwd_buf, pathbuf>>

PathInit ==
  /\ \/ using = "iterate" /\ CompsInit /\ cwd_buf = <<>>
     \/ using = "cd" /\ iterates(<<>>) /\ cwd_buf = RootDir
  /\ pathbuf = <<>>

(* cd or another command calls canonical_join with what was typed. *)
join_start(t) ==
  /\ using = "cd" /\ using' = "join"
  /\ text' = t /\ comps' = components(t) /\ pathbuf' = cwd_buf
  /\ UNCHANGED <<taking, fronts, backs, ended, cwd_buf>>

(* One component: the error of a parent that is not there ends the join. *)
join_component ==
  LET r == next(comps) IN
  /\ using = "join" /\ r.out # None
  /\ IF r.out = ParentDir /\ parent(pathbuf) = {}
     THEN using' = "cd" /\ pathbuf' = <<>> /\ text' = <<>> /\ comps' = components(<<>>)
     ELSE /\ pathbuf' = IF r.out = RootDir THEN reset_buf(pathbuf)
                        ELSE IF r.out = ParentDir THEN pop(pathbuf)
                        ELSE IF r.out = CurDir THEN pathbuf
                        ELSE _push(pathbuf, r.out)
          /\ comps' = r.it /\ UNCHANGED <<using, text>>
  /\ UNCHANGED <<taking, fronts, backs, ended, cwd_buf>>

(* The join is complete; cd moves there if the card has the directory and   *)
(* the path is no longer than MaxPath.                                      *)
join_end(opened) ==
  /\ using = "join" /\ next(comps).out = None
  /\ opened => Len(pathbuf) <= MaxPath
  /\ cwd_buf' = IF opened THEN pathbuf ELSE cwd_buf
  /\ using' = "cd" /\ pathbuf' = <<>> /\ text' = <<>> /\ comps' = components(<<>>)
  /\ UNCHANGED <<taking, fronts, backs, ended>>

PathNext == \/ using = "iterate" /\ CompsNext /\ UNCHANGED <<using, cwd_buf, pathbuf>>
            \/ join_component
            \/ \E t \in Texts(MaxArg) : join_start(t)
            \/ \E opened \in BOOLEAN : join_end(opened)

PathSpec == PathInit /\ [][PathNext]_path_vars
-----------------------------------------------------------------------------
between_calls == using = "iterate" /\ taking = "none"

fresh == between_calls /\ fronts = <<>> /\ backs = <<>> /\ ~ended

(* Between calls as_path is a path with just the components that are left. *)
as_path_agrees ==
  Parsed(as_path(comps)) =
    SubSeq(Parsed(text), Len(fronts) + 1, Len(Parsed(text)) - Len(backs))

(* pop drops the last component, unless it is the root or there is none;    *)
(* a file's extension can be set and read back without touching the rest.   *)
pop_agrees(p) ==
  LET all == Parsed(p) IN
  /\ (parent(p) = {}) <=> (all \in {<<>>, <<RootDir>>})
  /\ parent(p) # {} => Parsed(pop(p)) = Front(all)
  /\ \A e \in UNION {[1..m -> Letters] : m \in 1..MaxArg}, f \in file_name(p) :
       LET named == set_extension(p, e) IN
       /\ Parsed(named) = Front(all) \o <<split_file_at_dot(f).stem \o <<Dot>> \o e>>
       /\ file_name(named) = {Last(Parsed(named))}
       /\ split_file_at_dot(Last(Parsed(named))) =
            [stem |-> split_file_at_dot(f).stem, extension |-> {e}]

(* push appends components and an absolute path replaces all; strip_prefix  *)
(* succeeds on exactly the leading components, and pushing its result on    *)
(* the base gives the path back; ends_with holds of exactly the trailing    *)
(* ones.                                                                    *)
push_agrees(p, q) ==
  LET tail == IF Parsed(p) # <<>> /\ Parsed(q) # <<>> /\ Parsed(q)[1] = CurDir
              THEN Tail(Parsed(q)) ELSE Parsed(q)
  IN  /\ Parsed(_push(p, q)) = IF is_absolute(q) THEN Parsed(q) ELSE Parsed(p) \o tail
      /\ (strip_prefix(p, q) # {}) <=> IsPrefix(Parsed(q), Parsed(p))
      /\ \A r \in strip_prefix(p, q) : Parsed(_push(q, r)) = Parsed(p)
      /\ ends_with(p, q) <=> IsSuffix(Parsed(q), Parsed(p))

(* What PathBuf does to a path's bytes agrees with what it should do to its *)
(* components, for every path and every argument, and as_path with what     *)
(* the iterator has not produced.                                           *)
PathBufAgrees ==
  /\ between_calls => as_path_agrees
  /\ fresh => pop_agrees(text) /\ \A q \in Texts(MaxArg) : push_agrees(text, q)
=============================================================================
