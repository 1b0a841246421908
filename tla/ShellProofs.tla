----------------------------- MODULE ShellProofs -----------------------------
(***************************************************************************)
(* The safety of the shell for every card, every set of typed paths and    *)
(* every size of its two buffers.  What canonical_join computes does not   *)
(* matter here: only a directory that was opened becomes the current one.  *)
(*                                                                         *)
(* LineWriter, for every capacity, every data and every way in which the   *)
(* inner writer cuts short, is interrupted or fails: no byte is lost,      *)
(* doubled or moved, and the buffer stays within its capacity.             *)
(***************************************************************************)
EXTENDS Shell, LineWriter, FiniteSetTheorems, SequenceTheorems, TLAPS

(* The line is a line, and everything the theorems claim. *)
Inv ==
  /\ line \in Seq({"x", "sp"})
  /\ ScreenShowsLine /\ CwdIsDirectory /\ ArgsInBounds

(* Lines have a number of words. *)
LEMMA WordsType ==
  ASSUME NEW l \in Seq({"x", "sp"})
  PROVE  words(l) \in Nat
<1>1. IsFiniteSet({i \in 1..Len(l) : l[i] # "sp" /\ (i = 1 \/ l[i - 1] = "sp")})
  BY FS_Interval, FS_Subset, Len(l) \in Int
<1>2. QED
  BY <1>1, FS_CardinalityType DEF words

(* Erasing the last character of a line. *)
LEMMA Erased ==
  ASSUME NEW S, NEW l \in Seq(S), l # <<>>
  PROVE  /\ SubSeq(l, 1, Len(l) - 1) \in Seq(S)
         /\ Len(SubSeq(l, 1, Len(l) - 1)) = Len(l) - 1
<1>1. PICK m \in Nat : m = Len(l) - 1
  BY EmptySeq, Len(l) \in Nat
<1>2. \A i \in 1..m : l[i] \in S
  BY <1>1
<1>3. SubSeq(l, 1, m) \in Seq(S) /\ Len(SubSeq(l, 1, m)) = m
  BY <1>1, <1>2
<1>4. QED
  BY <1>1, <1>3

(* Typing keeps the screen and the line together. *)
LEMMA KeysKeep ==
  ASSUME Inv, (\E b \in {"x", "sp"} : key_char(b)) \/ key_erase \/ key_enter \/ key_other
  PROVE  Inv'
<1>1. CASE \E b \in {"x", "sp"} : key_char(b)
  <2>1. PICK b \in {"x", "sp"} : key_char(b)
    BY <1>1
  <2>2. CASE Len(line) < LineLen
    <3>1. /\ line' = Append(line, b) /\ screen' = screen + 1 /\ pc = "readline" /\ pc' = pc
          /\ cwd' = cwd
      BY <2>1, <2>2 DEF key_char, push
    <3>2. screen = Len(line)
      BY <3>1 DEF Inv, ScreenShowsLine
    <3>3. Len(line') = Len(line) + 1 /\ line' \in Seq({"x", "sp"})
      BY <3>1 DEF Inv
    <3>4. QED
      BY <3>1, <3>2, <3>3 DEF Inv, ScreenShowsLine, CwdIsDirectory, ArgsInBounds
  <2>3. CASE ~(Len(line) < LineLen)
    BY <2>1, <2>3 DEF key_char, push, Inv, ScreenShowsLine, CwdIsDirectory, ArgsInBounds
  <2>4. QED
    BY <2>2, <2>3
<1>2. CASE key_erase
  <2>1. CASE line = <<>>
    BY <1>2, <2>1 DEF key_erase, Inv, ScreenShowsLine, CwdIsDirectory, ArgsInBounds
  <2>2. CASE line # <<>>
    <3>1. /\ line' = SubSeq(line, 1, Len(line) - 1) /\ screen' = screen - 1
          /\ pc = "readline" /\ pc' = pc /\ cwd' = cwd
      BY <1>2, <2>2 DEF key_erase
    <3>2. screen = Len(line)
      BY <3>1 DEF Inv, ScreenShowsLine
    <3>3. Len(line') = Len(line) - 1 /\ line' \in Seq({"x", "sp"})
      BY <2>2, <3>1, Erased DEF Inv
    <3>4. QED
      BY <3>1, <3>2, <3>3 DEF Inv, ScreenShowsLine, CwdIsDirectory, ArgsInBounds
  <2>3. QED
    BY <2>1, <2>2
<1>3. CASE key_enter
  BY <1>3 DEF key_enter, Inv, ScreenShowsLine, CwdIsDirectory, ArgsInBounds
<1>4. CASE key_other
  BY <1>4 DEF key_other, vars, Inv, ScreenShowsLine, CwdIsDirectory, ArgsInBounds
<1>5. QED
  BY <1>1, <1>2, <1>3, <1>4

(* A command ends where it was or, for cd, in a directory that could be    *)
(* opened; it sleeps; or it ends the shell.                                *)
Ended ==
  /\ pc' = "prompt" /\ UNCHANGED <<line, screen>>
  /\ cwd' = cwd \/ (status' = "ok" /\ cwd' \in Dirs)

Left ==
  /\ pc' \in {"svc", "returned"} /\ UNCHANGED <<line, screen, cwd>>

(* The end of a command keeps the invariant. *)
LEMMA EndedKeeps ==
  ASSUME Inv, Ended
  PROVE  Inv'
BY DEF Inv, Ended, ScreenShowsLine, CwdIsDirectory, ArgsInBounds

(* What a command does. *)
LEMMA DispatchDoes ==
  ASSUME dispatch
  PROVE  Ended \/ Left
<1>1. CASE exit
  BY <1>1 DEF exit, Left
<1>2. CASE echo \/ pwd \/ unknown \/ ls_usage
  BY <1>2 DEF echo, pwd, unknown, ls_usage, ends, Ended
<1>3. CASE \E p \in Paths : cd(p)
  <2>1. PICK p \in Paths : cd(p)
    BY <1>3
  <2>2. CASE canonical_join(cwd, p) = PathError
    BY <2>1, <2>2 DEF cd, ends, Ended
  <2>3. CASE canonical_join(cwd, p) # PathError
    <3>1. PICK s \in open_dir(canonical_join(cwd, p)) :
            ends(s) /\ cwd' = IF s = "ok" THEN canonical_join(cwd, p) ELSE cwd
      BY <2>1, <2>3 DEF cd
    <3>2. s = "ok" => canonical_join(cwd, p) \in Dirs
      BY <3>1 DEF open_dir
    <3>3. QED
      BY <3>1, <3>2 DEF ends, Ended
  <2>4. QED
    BY <2>2, <2>3
<1>4. CASE \E p \in Paths \cup {<<>>}, all \in BOOLEAN : ls(p, all)
  BY <1>4 DEF ls, ends, Ended
<1>5. CASE \E ps \in [1..n -> Paths] : cat(ps)
  BY <1>5 DEF cat, ends, Ended
<1>6. CASE \E number \in BOOLEAN : sleep(number)
  BY <1>6 DEF sleep, ends, Ended, Left
<1>7. CASE usage_error({1}) \/ usage_error({0, 1, 2}) \/ usage_error(1..MaxArgs)
  BY <1>7 DEF usage_error, ends, Ended
<1>8. QED
  BY <1>1, <1>2, <1>3, <1>4, <1>5, <1>6, <1>7 DEF dispatch

(* Every step keeps the invariant. *)
LEMMA NextKeeps == Inv /\ [Next]_vars => Inv'
<1>1. SUFFICES ASSUME Inv, [Next]_vars PROVE Inv'
  OBVIOUS
<1>3. CASE repl
  BY <1>1, <1>3 DEF repl, Inv, ScreenShowsLine, CwdIsDirectory, ArgsInBounds
<1>4. CASE eval
  <2>1. CASE line = <<>> \/ words(line) > MaxArgs \/ words(line) = 0
    <3>1. Ended
      BY <1>4, <2>1 DEF eval, ends, Ended
    <3>2. QED
      BY <1>1, <3>1, EndedKeeps
  <2>2. CASE ~(line = <<>> \/ words(line) > MaxArgs \/ words(line) = 0)
    <3>1. pc = "eval" /\ pc' = "dispatch" /\ UNCHANGED <<line, screen, cwd>>
      BY <1>4, <2>2 DEF eval
    <3>2. words(line) \in 1..MaxArgs
      BY <1>1, <2>2, WordsType, ShellAssumption DEF Inv
    <3>3. words(line') = words(line)
      BY <3>1
    <3>4. QED
      BY <1>1, <3>1, <3>2, <3>3 DEF Inv, ScreenShowsLine, CwdIsDirectory, ArgsInBounds
  <2>3. QED
    BY <2>1, <2>2
<1>5. CASE dispatch
  <2>1. CASE Ended
    BY <1>1, <2>1, EndedKeeps
  <2>2. CASE Left
    BY <1>1, <2>2 DEF Left, Inv, ScreenShowsLine, CwdIsDirectory, ArgsInBounds
  <2>3. QED
    BY <1>5, <2>1, <2>2, DispatchDoes
<1>6. CASE start_shell
  BY <1>1, <1>6, ShellAssumption
     DEF start_shell, Inv, ScreenShowsLine, CwdIsDirectory, ArgsInBounds
<1>7. CASE sleep_return
  BY <1>1, <1>7, EndedKeeps DEF sleep_return, ends, Ended
<1>8. CASE (\E b \in {"x", "sp"} : key_char(b)) \/ key_erase \/ key_enter \/ key_other
  BY <1>1, <1>8, KeysKeep
<1>9. CASE UNCHANGED vars
  BY <1>1, <1>9 DEF vars, Inv, ScreenShowsLine, CwdIsDirectory, ArgsInBounds
<1>10. QED
  BY <1>1, <1>3, <1>4, <1>5, <1>6, <1>7, <1>8, <1>9 DEF Next, step

(* The invariant holds in every reachable state. *)
THEOREM Invariance == Spec => []Inv
<1>1. Init => Inv
  BY ShellAssumption DEF Init, Inv, ScreenShowsLine, CwdIsDirectory, ArgsInBounds
<1>2. QED
  BY <1>1, NextKeeps, PTL DEF Spec

(* Whatever is typed and whatever the card fails to read, the current       *)
(* directory is a directory of the card.                                    *)
THEOREM StaysInDirectory == Spec => []CwdIsDirectory
<1>1. Inv => CwdIsDirectory
  BY DEF Inv
<1>2. QED
  BY <1>1, Invariance, PTL

(* The screen shows the line that is edited. *)
THEOREM EchoIsExact == Spec => []ScreenShowsLine
<1>1. Inv => ScreenShowsLine
  BY DEF Inv
<1>2. QED
  BY <1>1, Invariance, PTL

(* path and dispatch never index a word that is not there. *)
THEOREM NoIndexPanic == Spec => []ArgsInBounds
<1>1. Inv => ArgsInBounds
  BY DEF Inv
<1>2. QED
  BY <1>1, Invariance, PTL

(* A command that fails does not move the shell. *)
THEOREM FailedCommandsStay == Spec => ErrorKeepsCwd
<1>1. [Next]_vars => [pc = "dispatch" /\ status' # "ok" => cwd' = cwd]_vars
  <2>1. SUFFICES ASSUME Next, pc = "dispatch", status' # "ok"
                 PROVE  cwd' = cwd
    OBVIOUS
  <2>2. dispatch
    BY <2>1 DEF Next, step, repl, eval, start_shell, sleep_return, key_char, key_erase,
                key_enter, key_other
  <2>3. QED
    BY <2>1, <2>2, DispatchDoes DEF Ended, Left
<1>2. QED
  BY <1>1, PTL DEF Spec, ErrorKeepsCwd
-----------------------------------------------------------------------------
Stages == {"idle", "write", "pre", "first", "line", "rest", "only", "flush", "into_inner",
           "drop", "gone"}

WType ==
  /\ sunk \in Seq(Byte) /\ wbuf \in Seq(Byte) /\ todo \in Seq(Byte) /\ accepted \in Seq(Byte)
  /\ need_flush \in BOOLEAN /\ flushing \in BOOLEAN
  /\ done \in 0..Len(todo) /\ written \in 0..Len(wbuf) /\ stage \in Stages

(* Where a call of BufWriter::write has come past flush_buf there is room   *)
(* for its bytes, or the buffer is empty; where flush has, it is empty.     *)
WRoom ==
  /\ Len(wbuf) <= Capacity
  /\ stage \in {"first", "rest", "only"} /\ ~flushing =>
       (wbuf = <<>> \/ Len(wbuf) + Len(given(stage)) <= Capacity)
  /\ stage \in {"pre", "line", "flush", "into_inner", "drop"} /\ ~flushing => wbuf = <<>>

(* What the counters mean in each stage. *)
WPlace ==
  /\ ~flushing => written = 0
  /\ stage \in {"idle", "write", "gone"} => ~flushing
  /\ stage \notin {"line", "rest"} => done = 0
  /\ stage \in {"first", "line", "rest"} => memrchr(todo) # {}
  /\ stage = "rest" => done = first_len
  /\ stage = "idle" /\ result = "flushed" => (wbuf = <<>> /\ ~need_flush)

(* The equation: the bytes taken and the ones still in the buffer are the   *)
(* ones reported, with the ones that the running write will report.         *)
WBytes == sunk \o drop_first(wbuf, written) = accepted \o SubSeq(todo, 1, done)

WInv == WType /\ WRoom /\ WPlace /\ WBytes
-----------------------------------------------------------------------------
(* SubSeq from the start or to the end of a sequence. *)
LEMMA Parts ==
  ASSUME NEW s \in Seq(Byte), NEW k \in 0..Len(s)
  PROVE  /\ SubSeq(s, 1, k) \in Seq(Byte) /\ Len(SubSeq(s, 1, k)) = k
         /\ drop_first(s, k) \in Seq(Byte) /\ Len(drop_first(s, k)) = Len(s) - k
         /\ SubSeq(s, 1, k) \o drop_first(s, k) = s
<1>1. k \in Nat /\ Len(s) \in Nat /\ k <= Len(s)
  OBVIOUS
<1>2. \A i \in 1..k : s[i] \in Byte
  BY <1>1
<1>3. \A i \in (k + 1)..Len(s) : s[i] \in Byte
  BY <1>1
<1>4. SubSeq(s, 1, k) \in Seq(Byte) /\ Len(SubSeq(s, 1, k)) = k
  BY <1>1, <1>2, SubSeqProperties
<1>5. drop_first(s, k) \in Seq(Byte) /\ Len(drop_first(s, k)) = Len(s) - k
  BY <1>1, <1>3, SubSeqProperties DEF drop_first
<1>6. SubSeq(s, 1, k) \o SubSeq(s, k + 1, Len(s)) = SubSeq(s, 1, Len(s))
  <2>1. 1 \in 1..(Len(s) + 1) /\ k \in (1 - 1)..Len(s) /\ Len(s) \in k..Len(s)
    BY <1>1
  <2>2. QED
    BY <2>1, ConcatAdjacentSubSeq
<1>7. QED
  BY <1>4, <1>5, <1>6, SubSeqFull DEF drop_first

(* The ends of the range. *)
LEMMA Ends ==
  ASSUME NEW s \in Seq(Byte)
  PROVE  /\ SubSeq(s, 1, 0) = <<>> /\ SubSeq(s, 1, Len(s)) = s
         /\ drop_first(s, 0) = s /\ drop_first(s, Len(s)) = <<>>
         /\ s \o <<>> = s /\ <<>> \o s = s
<1>1. SubSeq(s, 1, 0) = <<>> /\ SubSeq(s, Len(s) + 1, Len(s)) = <<>>
  BY SubSeqEmpty
<1>2. SubSeq(s, 1, Len(s)) = s /\ s \o <<>> = s /\ <<>> \o s = s
  BY SubSeqFull, ConcatEmptySeq
<1>3. QED
  BY <1>1, <1>2 DEF drop_first

(* Concatenation is associative. *)
LEMMA Joined ==
  \A s, t, u \in Seq(Byte) : (s \o t) \o u = s \o (t \o u)
BY ConcatAssociative

(* The bytes of two neighbouring ranges. *)
LEMMA Adjacent ==
  ASSUME NEW s \in Seq(Byte), NEW k \in 0..Len(s), NEW m \in 0..(Len(s) - k)
  PROVE  /\ SubSeq(s, 1, k) \o SubSeq(s, k + 1, k + m) = SubSeq(s, 1, k + m)
         /\ SubSeq(s, k + 1, k + m) \o drop_first(s, k + m) = drop_first(s, k)
         /\ SubSeq(s, k + 1, k + m) \in Seq(Byte)
<1>1. k \in Nat /\ m \in Nat /\ Len(s) \in Nat /\ k + m <= Len(s)
  OBVIOUS
<1>2. 1 \in 1..(Len(s) + 1) /\ k \in (1 - 1)..Len(s) /\ k + m \in k..Len(s)
  BY <1>1
<1>3. SubSeq(s, 1, k) \o SubSeq(s, k + 1, k + m) = SubSeq(s, 1, k + m)
  BY <1>2, ConcatAdjacentSubSeq
<1>4. k + 1 \in 1..(Len(s) + 1) /\ k + m \in ((k + 1) - 1)..Len(s) /\ Len(s) \in (k + m)..Len(s)
  BY <1>1
<1>5. SubSeq(s, k + 1, k + m) \o SubSeq(s, (k + m) + 1, Len(s)) = SubSeq(s, k + 1, Len(s))
  BY <1>4, ConcatAdjacentSubSeq
<1>6. \A i \in (k + 1)..(k + m) : s[i] \in Byte
  BY <1>1
<1>7. SubSeq(s, k + 1, k + m) \in Seq(Byte)
  BY <1>1, <1>6, SubSeqProperties
<1>8. QED
  BY <1>3, <1>5, <1>7 DEF drop_first

(* The first write's length is a prefix of the data. *)
LEMMA FirstLen ==
  ASSUME WType, memrchr(todo) # {}
  PROVE  first_len \in 1..Len(todo)
<1>1. Len(todo) \in Nat
  BY DEF WType
<1>2. \A i \in memrchr(todo) : i \in 0..(Len(todo) - 1)
  BY <1>1 DEF memrchr
<1>3. (CHOOSE i \in memrchr(todo) : TRUE) \in memrchr(todo)
  OBVIOUS
<1>4. QED
  BY <1>1, <1>2, <1>3 DEF first_len
-----------------------------------------------------------------------------
(* Between two calls of LineWriter::write. *)
LEMMA Settled ==
  ASSUME sunk' \in Seq(Byte), wbuf' \in Seq(Byte), todo' \in Seq(Byte), accepted' \in Seq(Byte),
         need_flush' \in BOOLEAN, Len(wbuf') <= Capacity,
         done' = 0, stage' \in {"idle", "write", "gone"}, flushing' = FALSE, written' = 0,
         sunk' \o wbuf' = accepted',
         stage' = "idle" => (result' # "flushed" \/ (wbuf' = <<>> /\ ~need_flush'))
  PROVE  WInv'
<1>1. drop_first(wbuf', 0) = wbuf' /\ SubSeq(todo', 1, 0) = <<>> /\ accepted' \o <<>> = accepted'
  BY Ends
<1>2. WBytes'
  BY <1>1 DEF WBytes, drop_first
<1>3. WType'
  <2>1. Len(todo') \in Nat /\ Len(wbuf') \in Nat
    OBVIOUS
  <2>2. done' \in 0..Len(todo') /\ written' \in 0..Len(wbuf') /\ stage' \in Stages
    BY <2>1 DEF Stages
  <2>3. flushing' \in BOOLEAN
    OBVIOUS
  <2>4. QED
    BY <2>2, <2>3 DEF WType
<1>4. WRoom' /\ WPlace'
  BY DEF WRoom, WPlace
<1>5. QED
  BY <1>2, <1>3, <1>4 DEF WInv

(* A call of the client returns without a byte that is not reported. *)
LEMMA EndsKeep ==
  ASSUME WInv, NEW r, ends_with_result(r), sunk' \in Seq(Byte), wbuf' \in Seq(Byte),
         need_flush' \in BOOLEAN, Len(wbuf') <= Capacity, sunk' \o wbuf' = accepted,
         r # "flushed" \/ (wbuf' = <<>> /\ ~need_flush')
  PROVE  WInv'
<1>1. todo' = <<>> /\ accepted' = accepted /\ done' = 0 /\ stage' = "idle" /\ flushing' = FALSE
      /\ written' = 0 /\ result' = r
  BY DEF ends_with_result, enter
<1>2. accepted \in Seq(Byte) /\ <<>> \in Seq(Byte)
  BY DEF WInv, WType
<1>3. QED
  BY <1>1, <1>2, Settled

(* write returns Ok(k) when k bytes more are in the writer. *)
LEMMA ReturnsKeep ==
  ASSUME WInv, NEW k \in 0..Len(todo), write_returns(k), sunk' \in Seq(Byte),
         wbuf' \in Seq(Byte), need_flush' \in BOOLEAN, Len(wbuf') <= Capacity,
         sunk' \o wbuf' = accepted \o SubSeq(todo, 1, k)
  PROVE  WInv'
<1>1. todo \in Seq(Byte) /\ accepted \in Seq(Byte)
  BY DEF WInv, WType
<1>2. CASE k = 0
  <2>1. SubSeq(todo, 1, 0) = <<>> /\ accepted \o <<>> = accepted
    BY <1>1, Ends
  <2>2. ends_with_result("error")
    BY <1>2 DEF write_returns
  <2>3. QED
    BY <1>2, <2>1, <2>2, EndsKeep
<1>3. CASE k # 0
  <2>1. /\ accepted' = accepted \o SubSeq(todo, 1, k) /\ todo' = drop_first(todo, k)
        /\ stage' \in {"idle", "write"} /\ flushing' = FALSE /\ written' = 0
        /\ done' = 0 /\ result' = "ok"
    BY <1>3 DEF write_returns, enter
  <2>2. SubSeq(todo, 1, k) \in Seq(Byte) /\ drop_first(todo, k) \in Seq(Byte)
    BY <1>1, Parts
  <2>3. accepted' \in Seq(Byte)
    BY <1>1, <2>1, <2>2, ConcatProperties
  <2>4. QED
    BY <2>1, <2>2, <2>3, Settled
<1>4. QED
  BY <1>2, <1>3

(* BufWriter::write begins in stage s, with the same bytes in the writer. *)
LEMMA BufWriteKeeps ==
  ASSUME WInv, ~flushing, NEW s \in {"first", "rest", "only"}, buf_write(s),
         UNCHANGED <<sunk, wbuf, todo, done, accepted>>, need_flush' \in BOOLEAN,
         s # "only" => memrchr(todo) # {},
         s = "rest" => done = first_len,
         s # "rest" => done = 0
  PROVE  WInv'
<1>1. stage' = s /\ written' = 0 /\ written = 0
      /\ flushing' = (Len(wbuf) + Len(given(s)) > Capacity)
  BY DEF WInv, WPlace, buf_write, enter
<1>2. WType'
  BY <1>1 DEF WInv, WType, Stages
<1>3. WBytes'
  BY <1>1 DEF WInv, WBytes, drop_first
<1>4. given(s)' = given(s) /\ first_len' = first_len /\ memrchr(todo)' = memrchr(todo)
  BY DEF given, first_len, memrchr, drop_first
<1>5. Len(given(s)) \in Nat
  <2>1. s = "only" => given(s) = todo
    BY DEF given
  <2>2. s # "only" => first_len \in 0..Len(todo)
    BY FirstLen DEF WInv, WType
  <2>3. QED
    BY <2>1, <2>2, Parts DEF WInv, WType, given
<1>6. WRoom'
  <2>1. given(stage)' = given(s)
    BY <1>1, <1>4 DEF given
  <2>2. Len(wbuf) \in Nat /\ Len(wbuf) <= Capacity /\ wbuf' = wbuf /\ Capacity \in Nat
    BY WriterAssumption DEF WInv, WType, WRoom
  <2>3. ~flushing' => Len(wbuf) + Len(given(s)) <= Capacity
    <3>1. ~flushing' => ~(Len(wbuf) + Len(given(s)) > Capacity)
      BY <1>1, Zenon
    <3>2. QED
      BY <3>1, <1>5, <2>2
  <2>4. QED
    BY <1>1, <2>1, <2>2, <2>3 DEF WRoom
<1>7. WPlace'
  BY <1>1, <1>4 DEF WPlace
<1>8. QED
  BY <1>2, <1>3, <1>6, <1>7 DEF WInv
-----------------------------------------------------------------------------
(* What flush_buf leaves in the buffer when it ends. *)
LEMMA Drained ==
  ASSUME WInv
  PROVE  /\ drop_first(wbuf, written) \in Seq(Byte)
         /\ Len(drop_first(wbuf, written)) <= Capacity
         /\ written = Len(wbuf) => drop_first(wbuf, written) = <<>>
<1>1. wbuf \in Seq(Byte) /\ written \in 0..Len(wbuf) /\ Len(wbuf) <= Capacity
  BY DEF WInv, WType, WRoom
<1>2. drop_first(wbuf, written) \in Seq(Byte) /\ Len(drop_first(wbuf, written)) = Len(wbuf) - written
  BY <1>1, Parts
<1>3. Len(drop_first(wbuf, written)) <= Capacity
  BY <1>1, <1>2, WriterAssumption
<1>4. QED
  BY <1>1, <1>2, <1>3, Ends

(* An error keeps the invariant when the buffer is drained before it. *)
LEMMA WrongKeeps ==
  ASSUME WInv, NEW i \in BOOLEAN, goes_wrong(i), sunk' = sunk,
         wbuf' = drop_first(wbuf, written), need_flush' \in BOOLEAN
  PROVE  WInv'
<1>1. /\ sunk' \in Seq(Byte) /\ wbuf' \in Seq(Byte) /\ Len(wbuf') <= Capacity
      /\ sunk' \o wbuf' = accepted \o SubSeq(todo, 1, done)
  BY Drained DEF WInv, WType, WBytes
<1>2. done \in 0..Len(todo) /\ todo \in Seq(Byte) /\ accepted \in Seq(Byte)
  BY DEF WInv, WType
<1>3. stage \notin {"line", "rest"} => sunk' \o wbuf' = accepted
  BY <1>1, <1>2, Ends DEF WInv, WPlace
<1>4. CASE stage \in {"line", "rest"} /\ write_returns(done)
  BY <1>1, <1>2, <1>4, ReturnsKeep
<1>5. CASE stage \notin {"line", "rest"} /\ ends_with_result("error")
  BY <1>1, <1>3, <1>5, EndsKeep
<1>6. CASE /\ stage \notin {"line", "rest"} /\ (enter("write", FALSE) \/ enter("gone", FALSE))
           /\ UNCHANGED <<todo, done, accepted, result>>
  <2>1. stage' \in {"write", "gone"} /\ flushing' = FALSE /\ written' = 0
    BY <1>6 DEF enter
  <2>2. done' = 0 /\ todo' = todo /\ accepted' = accepted
    BY <1>6 DEF WInv, WPlace
  <2>3. QED
    BY <1>1, <1>2, <1>3, <1>6, <2>1, <2>2, Settled
<1>7. QED
  BY <1>4, <1>5, <1>6 DEF goes_wrong

(* Outside flush_buf there is nothing to drain. *)
LEMMA NotFlushing ==
  ASSUME WInv, ~flushing
  PROVE  /\ written = 0 /\ drop_first(wbuf, written) = wbuf
         /\ sunk \o wbuf = accepted \o SubSeq(todo, 1, done)
BY Ends DEF WInv, WType, WPlace, WBytes

(* split begins the first, or the only, write. *)
LEMMA SplitKeeps ==
  ASSUME WInv, ~flushing, done = 0, split, need_flush' \in BOOLEAN,
         UNCHANGED <<sunk, wbuf, todo, done, accepted>>
  PROVE  WInv'
<1>1. CASE memrchr(todo) = {}
  BY <1>1, BufWriteKeeps DEF split
<1>2. CASE memrchr(todo) # {}
  BY <1>2, BufWriteKeeps DEF split
<1>3. QED
  BY <1>1, <1>2
-----------------------------------------------------------------------------
(* flush_buf begins. *)
LEMMA FlushStarts ==
  ASSUME WInv, ~flushing, done = 0, NEW s \in {"pre", "flush", "into_inner", "drop"},
         enter(s, TRUE), UNCHANGED <<sunk, wbuf, need_flush, todo, done, accepted>>
  PROVE  WInv'
<1>1. stage' = s /\ flushing' = TRUE /\ written' = 0 /\ written = 0
  BY DEF enter, WInv, WPlace
<1>2. WType'
  BY <1>1 DEF WInv, WType, Stages
<1>3. WRoom' /\ WPlace'
  BY <1>1 DEF WInv, WRoom, WPlace
<1>4. WBytes'
  BY <1>1 DEF WInv, WBytes, drop_first
<1>5. QED
  BY <1>2, <1>3, <1>4 DEF WInv

(* A turn of flush_buf moves bytes from the buffer to the inner writer. *)
LEMMA TurnKeeps ==
  ASSUME WInv, NEW m \in 1..Capacity, flush_buf(m)
  PROVE  WInv'
<1>1. /\ flushing /\ m <= Len(wbuf) - written /\ written' = written + m
      /\ sunk' = sunk \o SubSeq(wbuf, written + 1, written + m)
      /\ UNCHANGED <<wbuf, need_flush, todo, done, stage, flushing, accepted, result>>
  BY DEF flush_buf
<1>2. /\ sunk \in Seq(Byte) /\ wbuf \in Seq(Byte) /\ written \in 0..Len(wbuf)
      /\ m \in 0..(Len(wbuf) - written)
  BY <1>1, WriterAssumption DEF WInv, WType
<1>3. /\ SubSeq(wbuf, written + 1, written + m) \in Seq(Byte)
      /\ SubSeq(wbuf, written + 1, written + m) \o drop_first(wbuf, written + m)
           = drop_first(wbuf, written)
  BY <1>2, Adjacent
<1>4. written + m \in 0..Len(wbuf)
  BY <1>2
<1>5. drop_first(wbuf, written + m) \in Seq(Byte)
  BY <1>2, <1>4, Parts
<1>6. sunk' \o drop_first(wbuf, written + m) = sunk \o drop_first(wbuf, written)
  <2>1. (sunk \o SubSeq(wbuf, written + 1, written + m)) \o drop_first(wbuf, written + m)
          = sunk \o (SubSeq(wbuf, written + 1, written + m) \o drop_first(wbuf, written + m))
    BY <1>2, <1>3, <1>5, Joined, Zenon
  <2>2. QED
    BY <1>1, <1>3, <2>1
<1>7. WBytes'
  BY <1>1, <1>6 DEF WInv, WBytes, drop_first
<1>8. sunk' \in Seq(Byte)
  BY <1>1, <1>2, <1>3, ConcatProperties
<1>9. WType'
  BY <1>1, <1>4, <1>8 DEF WInv, WType
<1>10. given(stage)' = given(stage) /\ first_len' = first_len /\ memrchr(todo)' = memrchr(todo)
  BY <1>1 DEF given, first_len, memrchr, drop_first
<1>11. WRoom' /\ WPlace'
  BY <1>1, <1>10 DEF WInv, WRoom, WPlace
<1>12. QED
  BY <1>7, <1>9, <1>11 DEF WInv

(* flush_buf has written all. *)
LEMMA FlushBufOkKeeps ==
  ASSUME WInv, flush_buf_ok
  PROVE  WInv'
<1>1. /\ flushing /\ written = Len(wbuf) /\ wbuf' = <<>> /\ flushing' = FALSE /\ written' = 0
      /\ UNCHANGED <<sunk, need_flush, todo, done, stage, accepted, result>>
  BY Drained DEF flush_buf_ok
<1>2. drop_first(<<>>, 0) = <<>> /\ <<>> \in Seq(Byte) /\ Len(<<>>) = 0
  <2>1. <<>> \in Seq(Byte) /\ Len(<<>>) = 0
    BY EmptySeq
  <2>2. QED
    BY <2>1, Ends
<1>3. WType'
  <2>1. written' \in 0..Len(wbuf')
    BY <1>1, <1>2
  <2>2. flushing' \in BOOLEAN
    BY <1>1
  <2>3. QED
    BY <1>1, <1>2, <2>1, <2>2 DEF WInv, WType
<1>4. WBytes'
  BY <1>1, <1>2, Drained DEF WInv, WBytes, drop_first
<1>5. first_len' = first_len /\ memrchr(todo)' = memrchr(todo)
  BY <1>1 DEF first_len, memrchr
<1>6. WRoom' /\ WPlace'
  BY <1>1, <1>2, <1>5, WriterAssumption DEF WInv, WRoom, WPlace
<1>7. QED
  BY <1>3, <1>4, <1>6 DEF WInv
-----------------------------------------------------------------------------
(* The bytes given to BufWriter::write are the next ones of todo. *)
LEMMA GivenIsNext ==
  ASSUME WInv, stage \in {"first", "rest", "only"}
  PROVE  /\ given(stage) \in Seq(Byte)
         /\ \A m \in 0..Len(given(stage)) :
              /\ done + m \in 0..Len(todo)
              /\ SubSeq(todo, 1, done) \o SubSeq(given(stage), 1, m) = SubSeq(todo, 1, done + m)
<1>1. todo \in Seq(Byte) /\ Len(todo) \in Nat /\ done \in 0..Len(todo)
  BY DEF WInv, WType
<1>2. stage # "only" => first_len \in 1..Len(todo)
  BY FirstLen DEF WInv, WPlace
<1>3. CASE stage = "rest"
  <2>1. done = first_len /\ given(stage) = drop_first(todo, done)
    BY <1>3 DEF WInv, WPlace, given
  <2>2. given(stage) \in Seq(Byte) /\ Len(given(stage)) = Len(todo) - done
    BY <1>1, <2>1, Parts
  <2>3. ASSUME NEW m \in 0..Len(given(stage))
        PROVE  SubSeq(given(stage), 1, m) = SubSeq(todo, done + 1, done + m)
    <3>1. CASE m = 0
      BY <1>1, <3>1, SubSeqEmpty
    <3>2. CASE m # 0
      <4>1. /\ done + 1 \in 1..Len(todo) /\ Len(todo) \in 1..Len(todo)
            /\ 1 \in 1..(Len(todo) - (done + 1) + 1) /\ m \in 1..(Len(todo) - (done + 1) + 1)
        BY <1>1, <2>2, <3>2
      <4>2. SubSeq(SubSeq(todo, done + 1, Len(todo)), 1, m)
              = SubSeq(todo, (done + 1) + 1 - 1, (done + 1) + m - 1)
        BY <1>1, <4>1, SubSeqOfSubSeq
      <4>3. (done + 1) + 1 - 1 = done + 1 /\ (done + 1) + m - 1 = done + m
        BY <1>1, <4>1
      <4>4. QED
        BY <2>1, <4>2, <4>3 DEF drop_first
    <3>3. QED
      BY <3>1, <3>2
  <2>4. \A m \in 0..Len(given(stage)) : done + m \in 0..Len(todo) /\ m \in 0..(Len(todo) - done)
    BY <1>1, <2>2
  <2>5. QED
    BY <1>1, <2>2, <2>3, <2>4, Adjacent
<1>4. CASE stage # "rest"
  <2>1. PICK f \in 0..Len(todo) : given(stage) = SubSeq(todo, 1, f)
    <3>1. CASE stage = "only"
      BY <1>1, <3>1, Ends DEF given
    <3>2. CASE stage = "first"
      BY <1>1, <1>2, <3>2 DEF given
    <3>3. QED
      BY <1>4, <3>1, <3>2
  <2>2. given(stage) \in Seq(Byte) /\ Len(given(stage)) = f
    BY <1>1, <2>1, Parts
  <2>3. done = 0
    BY <1>4 DEF WInv, WPlace
  <2>4. ASSUME NEW m \in 0..Len(given(stage))
        PROVE  SubSeq(given(stage), 1, m) = SubSeq(todo, 1, m)
    <3>1. CASE m = 0
      BY <3>1, SubSeqEmpty
    <3>2. CASE m # 0
      <4>1. 1 \in 1..Len(todo) /\ f \in 1..Len(todo) /\ 1 \in 1..(f - 1 + 1) /\ m \in 1..(f - 1 + 1)
        BY <1>1, <2>2, <3>2
      <4>2. SubSeq(SubSeq(todo, 1, f), 1, m) = SubSeq(todo, 1 + 1 - 1, 1 + m - 1)
        BY <1>1, <4>1, SubSeqOfSubSeq
      <4>3. 1 + 1 - 1 = 1 /\ 1 + m - 1 = m
        BY <4>1
      <4>4. QED
        BY <2>1, <4>2, <4>3
    <3>3. QED
      BY <3>1, <3>2
  <2>5. ASSUME NEW m \in 0..Len(given(stage))
        PROVE  /\ done + m \in 0..Len(todo)
               /\ SubSeq(todo, 1, done) \o SubSeq(given(stage), 1, m) = SubSeq(todo, 1, done + m)
    <3>1. m \in 0..Len(todo) /\ done + m = m
      BY <1>1, <2>2, <2>3
    <3>2. SubSeq(todo, 1, m) \in Seq(Byte) /\ SubSeq(todo, 1, 0) = <<>>
      BY <1>1, <3>1, Parts, Ends
    <3>3. QED
      BY <2>3, <2>4, <3>1, <3>2, Ends
  <2>6. QED
    BY <2>2, <2>5
<1>5. QED
  BY <1>3, <1>4
-----------------------------------------------------------------------------
(* BufWriter::write takes m bytes, into the buffer or past it when empty. *)
LEMMA PutAdds ==
  ASSUME WInv, NEW m, put(m)
  PROVE  /\ m \in 0..Len(given(stage)) /\ sunk' \in Seq(Byte) /\ wbuf' \in Seq(Byte)
         /\ Len(wbuf') <= Capacity
         /\ sunk' \o wbuf' = accepted \o SubSeq(todo, 1, done + m)
<1>0. DEFINE d == given(stage)
<1>1. /\ stage \in {"first", "rest", "only"} /\ ~flushing
      /\ sunk \in Seq(Byte) /\ wbuf \in Seq(Byte) /\ accepted \in Seq(Byte) /\ todo \in Seq(Byte)
      /\ done \in 0..Len(todo)
  BY DEF put, WInv, WType
<1>2. d \in Seq(Byte) /\ Len(d) \in Nat /\ Capacity \in Nat
  BY <1>1, GivenIsNext, WriterAssumption
<1>3. wbuf = <<>> \/ Len(wbuf) + Len(d) <= Capacity
  BY <1>1 DEF WInv, WRoom
<1>4. m \in 0..Len(d) => SubSeq(d, 1, m) \in Seq(Byte)
  BY <1>2, Parts
<1>5. /\ m \in 0..Len(d) /\ sunk' \in Seq(Byte) /\ wbuf' \in Seq(Byte) /\ Len(wbuf') <= Capacity
      /\ sunk' \o wbuf' = (sunk \o wbuf) \o SubSeq(d, 1, m)
  <2>1. CASE Len(d) >= Capacity
    <3>1. m \in 0..Len(d) /\ sunk' = sunk \o SubSeq(d, 1, m) /\ wbuf' = wbuf
      BY <2>1 DEF put
    <3>2. wbuf = <<>>
      <4>1. Len(wbuf) + Len(d) <= Capacity => Len(wbuf) = 0
        BY <1>1, <1>2, <2>1
      <4>2. QED
        BY <1>1, <1>3, <4>1, EmptySeq
    <3>3. sunk' \in Seq(Byte) /\ Len(wbuf') <= Capacity
      BY <1>1, <1>2, <1>4, <3>1, <3>2, ConcatProperties, EmptySeq
    <3>4. sunk \o wbuf = sunk /\ sunk' \o wbuf' = sunk'
      BY <1>1, <3>1, <3>2, <3>3, Ends
    <3>5. QED
      BY <1>1, <3>1, <3>3, <3>4
  <2>2. CASE ~(Len(d) >= Capacity)
    <3>1. m = Len(d) /\ wbuf' = wbuf \o d /\ sunk' = sunk
      BY <2>2 DEF put
    <3>2. wbuf' \in Seq(Byte) /\ Len(wbuf') = Len(wbuf) + Len(d)
      BY <1>1, <1>2, <3>1, ConcatProperties
    <3>3. Len(wbuf') <= Capacity
      <4>1. CASE wbuf = <<>>
        BY <1>2, <2>2, <3>2, <4>1, EmptySeq
      <4>2. QED
        BY <1>3, <3>2, <4>1
    <3>4. SubSeq(d, 1, m) = d /\ m \in 0..Len(d)
      BY <1>2, <3>1, Ends
    <3>5. sunk \o (wbuf \o d) = (sunk \o wbuf) \o d
      <4>1. sunk \in Seq(Byte) /\ wbuf \in Seq(Byte) /\ d \in Seq(Byte)
        BY <1>1, <1>2
      <4>2. QED
        BY ONLY <4>1, Joined, Zenon
    <3>6. QED
      BY <1>1, <3>1, <3>2, <3>3, <3>4, <3>5
  <2>3. QED
    BY <2>1, <2>2
<1>6. SubSeq(todo, 1, done) \o SubSeq(d, 1, m) = SubSeq(todo, 1, done + m)
  BY <1>1, <1>5, GivenIsNext
<1>7. (sunk \o wbuf) \o SubSeq(d, 1, m) = accepted \o SubSeq(todo, 1, done + m)
  <2>1. sunk \o wbuf = accepted \o SubSeq(todo, 1, done)
    BY <1>1, NotFlushing
  <2>2. SubSeq(todo, 1, done) \in Seq(Byte) /\ SubSeq(d, 1, m) \in Seq(Byte)
    BY <1>1, <1>4, <1>5, Parts
  <2>3. (accepted \o SubSeq(todo, 1, done)) \o SubSeq(d, 1, m)
          = accepted \o (SubSeq(todo, 1, done) \o SubSeq(d, 1, m))
    <3>1. accepted \in Seq(Byte)
      BY <1>1
    <3>2. QED
      BY ONLY <2>2, <3>1, Joined, Zenon
  <2>4. QED
    BY <1>6, <2>1, <2>3
<1>8. QED
  BY <1>5, <1>7

(* put keeps the invariant. *)
LEMMA PutKeeps ==
  ASSUME WInv, NEW m, put(m)
  PROVE  WInv'
<1>1. /\ m \in 0..Len(given(stage)) /\ sunk' \in Seq(Byte) /\ wbuf' \in Seq(Byte)
      /\ Len(wbuf') <= Capacity /\ sunk' \o wbuf' = accepted \o SubSeq(todo, 1, done + m)
  BY PutAdds
<1>2. stage \in {"first", "rest", "only"} /\ done + m \in 0..Len(todo)
  BY <1>1, GivenIsNext DEF put
<1>3. CASE stage = "first"
  <2>1. /\ done' = m /\ need_flush' = TRUE /\ stage' = "line" /\ flushing' = TRUE /\ written' = 0
        /\ todo' = todo /\ accepted' = accepted
    BY <1>3 DEF put, enter
  <2>2. done = 0 /\ done + m = m /\ memrchr(todo) # {}
    BY <1>1, <1>3, GivenIsNext DEF WInv, WPlace, WType
  <2>3. drop_first(wbuf', 0) = wbuf' /\ Len(wbuf') \in Nat
    BY <1>1, Ends
  <2>4. WBytes'
    BY <1>1, <2>1, <2>2, <2>3 DEF WBytes, drop_first
  <2>5. WType'
    <3>1. done' \in 0..Len(todo') /\ written' \in 0..Len(wbuf') /\ stage' \in Stages
      BY <1>2, <2>1, <2>2, <2>3 DEF Stages
    <3>2. need_flush' \in BOOLEAN /\ flushing' \in BOOLEAN
      BY <2>1
    <3>3. QED
      BY <1>1, <2>1, <3>1, <3>2 DEF WInv, WType
  <2>6. memrchr(todo)' # {}
    BY <2>1, <2>2 DEF memrchr
  <2>7. WRoom' /\ WPlace'
    BY <1>1, <2>1, <2>6 DEF WRoom, WPlace
  <2>8. QED
    BY <2>4, <2>5, <2>7 DEF WInv
<1>4. CASE stage # "first"
  <2>1. write_returns(done + m) /\ need_flush' = need_flush
    BY <1>4 DEF put
  <2>2. need_flush' \in BOOLEAN
    BY <2>1 DEF WInv, WType
  <2>3. QED
    BY <1>1, <1>2, <2>1, <2>2, ReturnsKeep
<1>5. QED
  BY <1>3, <1>4
-----------------------------------------------------------------------------
(* Every step keeps the invariant. *)
LEMMA WriterNextKeeps == WInv /\ [WriterNext]_writer_vars => WInv'
<1> SUFFICES ASSUME WInv, [WriterNext]_writer_vars PROVE WInv'
  OBVIOUS
<1>1. CASE \E d \in Datas : write_all(d)
  <2>1. PICK d \in Datas : write_all(d)
    BY <1>1
  <2>2. /\ stage = "idle" /\ todo' = d /\ stage' = "write" /\ flushing' = FALSE /\ written' = 0
        /\ UNCHANGED <<sunk, wbuf, need_flush, done, accepted, result>>
    BY <2>1 DEF write_all, enter
  <2>3. d \in Seq(Byte) /\ ~flushing /\ done = 0
    BY <2>2, WriterAssumption DEF WInv, WPlace
  <2>4. sunk \o wbuf = accepted
    BY <2>3, NotFlushing, Ends DEF WInv, WType
  <2>5. QED
    BY <2>2, <2>3, <2>4, Settled DEF WInv, WType, WRoom
<1>2. CASE write
  <2>1. stage = "write" /\ UNCHANGED <<sunk, wbuf, need_flush, todo, done, accepted, result>>
    BY <1>2 DEF write
  <2>2. ~flushing /\ done = 0 /\ need_flush' \in BOOLEAN
    BY <2>1 DEF WInv, WPlace, WType
  <2>3. CASE need_flush
    BY <1>2, <2>1, <2>2, <2>3, FlushStarts DEF write
  <2>4. CASE ~need_flush
    BY <1>2, <2>1, <2>2, <2>4, SplitKeeps DEF write
  <2>5. QED
    BY <2>3, <2>4
<1>3. CASE flush_buf_ok
  BY <1>3, FlushBufOkKeeps
<1>4. CASE flush_buf_err
  <2>1. goes_wrong(FALSE) /\ wbuf' = drop_first(wbuf, written) /\ sunk' = sunk
    BY <1>4 DEF flush_buf_err
  <2>2. need_flush' \in BOOLEAN
    BY <1>4 DEF flush_buf_err
  <2>3. QED
    BY <2>1, <2>2, WrongKeeps
<1>5. CASE inner_flush
  <2>1. ~flushing /\ need_flush' = FALSE /\ sunk' = sunk /\ wbuf' = wbuf
    BY <1>5 DEF inner_flush
  <2>2. /\ sunk' \in Seq(Byte) /\ wbuf' \in Seq(Byte) /\ Len(wbuf') <= Capacity
        /\ need_flush' \in BOOLEAN /\ done \in 0..Len(todo)
        /\ sunk' \o wbuf' = accepted \o SubSeq(todo, 1, done)
    BY <2>1, NotFlushing DEF WInv, WType, WRoom
  <2>3. CASE stage = "pre"
    <3>1. split /\ UNCHANGED <<todo, done, accepted, result>>
      BY <1>5, <2>3 DEF inner_flush
    <3>2. done = 0
      BY <2>3 DEF WInv, WPlace
    <3>3. QED
      BY <2>1, <2>2, <3>1, <3>2, SplitKeeps
  <2>4. CASE stage = "line" /\ done # first_len
    <3>1. write_returns(done)
      BY <1>5, <2>4 DEF inner_flush
    <3>2. QED
      BY <2>2, <3>1, ReturnsKeep
  <2>5. CASE stage = "line" /\ done = first_len
    <3>1. buf_write("rest") /\ UNCHANGED <<todo, done, accepted, result>>
      BY <1>5, <2>5 DEF inner_flush
    <3>2. memrchr(todo) # {}
      BY <2>5 DEF WInv, WPlace
    <3>3. QED
      BY <2>1, <2>2, <2>5, <3>1, <3>2, BufWriteKeeps
  <2>6. CASE stage = "flush"
    <3>1. ends_with_result("flushed")
      BY <1>5, <2>6 DEF inner_flush
    <3>2. wbuf = <<>> /\ done = 0
      BY <2>1, <2>6 DEF WInv, WRoom, WPlace
    <3>3. sunk' \o wbuf' = accepted
      BY <2>2, <3>2, Ends DEF WInv, WType
    <3>4. QED
      BY <2>1, <2>2, <3>1, <3>2, <3>3, EndsKeep
  <2>7. QED
    BY <1>5, <2>3, <2>4, <2>5, <2>6 DEF inner_flush
<1>6. CASE taken
  <2>1. /\ stage \in {"into_inner", "drop"} /\ ~flushing /\ stage' = "gone" /\ flushing' = FALSE
        /\ written' = 0 /\ UNCHANGED <<sunk, wbuf, need_flush, todo, done, accepted, result>>
    BY <1>6 DEF taken, enter
  <2>2. done = 0 /\ sunk \o wbuf = accepted
    BY <2>1, NotFlushing, Ends DEF WInv, WPlace, WType
  <2>3. QED
    BY <2>1, <2>2, Settled DEF WInv, WType, WRoom
<1>7. CASE with_capacity
  <2>1. /\ stage' = "idle" /\ flushing' = FALSE /\ written' = 0 /\ sunk' = <<>> /\ wbuf' = <<>>
        /\ need_flush' = FALSE /\ todo' = <<>> /\ done' = 0 /\ accepted' = <<>> /\ result' = "ok"
    BY <1>7 DEF with_capacity, enter
  <2>2. <<>> \in Seq(Byte) /\ Len(<<>>) <= Capacity /\ <<>> \o <<>> = <<>>
    BY WriterAssumption, EmptySeq, ConcatEmptySeq
  <2>3. QED
    BY <2>1, <2>2, Settled
<1>8. CASE \E s \in {"flush", "into_inner", "drop"} : empty_buffer(s)
  <2>1. PICK s \in {"flush", "into_inner", "drop"} : empty_buffer(s)
    BY <1>8
  <2>2. ~flushing /\ done = 0
    BY <2>1 DEF empty_buffer, WInv, WPlace
  <2>3. QED
    BY <2>1, <2>2, FlushStarts DEF empty_buffer
<1>9. CASE \E m \in 1..Capacity : flush_buf(m)
  BY <1>9, TurnKeeps
<1>10. CASE \E m \in 0..MaxSunk : put(m)
  BY <1>10, PutKeeps
<1>11. CASE \E i \in BOOLEAN : put_err(i) \/ inner_flush_err(i)
  <2>1. PICK i \in BOOLEAN : put_err(i) \/ inner_flush_err(i)
    BY <1>11
  <2>2. ~flushing /\ goes_wrong(i) /\ UNCHANGED <<sunk, wbuf, need_flush>>
    BY <2>1 DEF put_err, inner_flush_err
  <2>3. wbuf' = drop_first(wbuf, written) /\ need_flush' \in BOOLEAN
    BY <2>2, NotFlushing DEF WInv, WType
  <2>4. QED
    BY <2>2, <2>3, WrongKeeps
<1>12. CASE UNCHANGED writer_vars
  BY <1>12 DEF writer_vars, WInv, WType, WRoom, WPlace, WBytes, drop_first, given, first_len, memrchr
<1>13. QED
  BY <1>1, <1>2, <1>3, <1>4, <1>5, <1>6, <1>7, <1>8, <1>9, <1>10, <1>11, <1>12 DEF WriterNext

(* The invariant holds of every behaviour. *)
THEOREM WriterInvariant == WriterSpec => []WInv
<1>1. WriterInit => WInv
  <2> SUFFICES ASSUME WriterInit PROVE WInv
    OBVIOUS
  <2>1. <<>> \in Seq(Byte) /\ Len(<<>>) = 0 /\ <<>> \o <<>> = <<>>
    BY EmptySeq, ConcatEmptySeq
  <2>2. drop_first(<<>>, 0) = <<>> /\ SubSeq(<<>>, 1, 0) = <<>>
    BY <2>1, Ends
  <2>3. WType
    <3>1. done \in 0..Len(todo) /\ written \in 0..Len(wbuf) /\ stage \in Stages
      BY <2>1 DEF WriterInit, Stages
    <3>2. need_flush \in BOOLEAN /\ flushing \in BOOLEAN
      BY DEF WriterInit
    <3>3. QED
      BY <2>1, <3>1, <3>2 DEF WriterInit, WType
  <2>4. WRoom /\ WPlace
    BY <2>1, WriterAssumption DEF WriterInit, WRoom, WPlace
  <2>5. WBytes
    BY <2>1, <2>2 DEF WriterInit, WBytes
  <2>6. QED
    BY <2>3, <2>4, <2>5 DEF WInv
<1>2. QED
  BY <1>1, WriterNextKeeps, PTL DEF WriterSpec

(* Whatever the inner writer does, the buffer of BufWriter stays within its *)
(* capacity (WithinCapacity).                                               *)
THEOREM BufferWithinCapacity == WriterSpec => []WithinCapacity
<1>1. WInv => WithinCapacity
  BY DEF WInv, WType, WRoom, WithinCapacity
<1>2. QED
  BY <1>1, WriterInvariant, PTL

(* No byte that write has reported is lost, doubled or moved, and none is   *)
(* kept that was not reported (BytesInOrder), whatever the inner writer     *)
(* cuts short or fails.                                                     *)
THEOREM NoByteLost == WriterSpec => []BytesInOrder
<1>1. WInv => BytesInOrder
  <2> SUFFICES ASSUME WInv, stage \in {"idle", "write"} PROVE sunk \o wbuf = accepted
    BY DEF BytesInOrder
  <2>1. ~flushing /\ done = 0
    BY DEF WInv, WPlace
  <2>2. QED
    BY <2>1, NotFlushing, Ends DEF WInv, WType
<1>2. QED
  BY <1>1, WriterInvariant, PTL

(* A successful flush or into_inner leaves nothing behind                   *)
(* (FlushedMeansSunk).                                                      *)
THEOREM FlushIsComplete == WriterSpec => []FlushedMeansSunk
<1>1. WInv => FlushedMeansSunk
  <2> SUFFICES ASSUME WInv PROVE FlushedMeansSunk
    OBVIOUS
  <2>1. ASSUME stage = "into_inner", ~flushing PROVE sunk = accepted
    <3>1. done = 0 /\ wbuf = <<>>
      BY <2>1 DEF WInv, WPlace, WRoom
    <3>2. QED
      BY <2>1, <3>1, NotFlushing, Ends DEF WInv, WType
  <2>2. QED
    BY <2>1 DEF FlushedMeansSunk, WInv, WPlace
<1>2. QED
  BY <1>1, WriterInvariant, PTL
=============================================================================
