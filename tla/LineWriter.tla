----------------------------- MODULE LineWriter -----------------------------
(***************************************************************************)
(* std/src/io: LineWriter over BufWriter (buffered.rs) and write_all on    *)
(* top of them (mod.rs).                                                   *)
(*                                                                         *)
(* The inner writer may take fewer bytes than it is given, or none, be     *)
(* interrupted, or fail; what it reports as written it has taken.  A call  *)
(* of the inner writer is a step.  stage says which call of flush_buf or   *)
(* of the inner writer LineWriter is in.                                   *)
(***************************************************************************)
EXTENDS Integers, Sequences

CONSTANTS
  Capacity,   \* bytes of the buffer (1024 in the code)
  Byte,       \* the bytes
  Datas,      \* what is given to write_all
  MaxSunk     \* bound: bytes that are written before the writer is dropped

Newline == "nl"

ASSUME WriterAssumption ==
  /\ Capacity \in Nat \ {0} /\ MaxSunk \in Nat
  /\ Datas \subseteq Seq(Byte) \ {<<>>}

VARIABLES
  sunk,       \* the bytes that the inner writer has taken
  wbuf,       \* BufWriter's buf
  need_flush,
  todo,       \* the bytes that write_all still has to write
  done,       \* n of LineWriter::write: bytes of todo written before its flush
  stage,      \* the call that runs, "idle", or "gone" when there is no writer
  flushing,   \* it is inside flush_buf
  written,    \* flush_buf's count
  accepted,   \* history: the bytes that write has reported as written
  result      \* history: how the client's last call ended

writer_vars == <<sunk, wbuf, need_flush, todo, done, stage, flushing, written, accepted, result>>

WriterInit ==
  /\ sunk = <<>> /\ wbuf = <<>> /\ need_flush = FALSE /\ todo = <<>> /\ done = 0
  /\ stage = "idle" /\ flushing = FALSE /\ written = 0 /\ accepted = <<>> /\ result = "ok"

drop_first(s, k) == SubSeq(s, k + 1, Len(s))
-----------------------------------------------------------------------------
(* memrchr counts from the end of the data. *)
memrchr(d) ==
  {Len(d) - i : i \in {i \in 1..Len(d) : d[i] = Newline /\ \A j \in (i + 1)..Len(d) : d[j] # Newline}}

(* The bytes of todo that LineWriter::write writes before it flushes. *)
first_len == 1 + (CHOOSE i \in memrchr(todo) : TRUE)

(* What LineWriter::write gives to BufWriter::write in stage s. *)
given(s) == IF s = "first" THEN SubSeq(todo, 1, first_len)
            ELSE IF s = "rest" THEN drop_first(todo, first_len)
            ELSE todo

(* Stage s begins, with flush_buf if f. *)
enter(s, f) == stage' = s /\ flushing' = f /\ written' = 0

(* BufWriter::write begins: it empties the buffer if there is no room. *)
buf_write(s) == enter(s, Len(wbuf) + Len(given(s)) > Capacity)

split == buf_write(IF memrchr(todo) = {} THEN "only" ELSE "first")

(* A call of the client returns. *)
ends_with_result(r) ==
  /\ enter("idle", FALSE) /\ todo' = <<>> /\ done' = 0 /\ result' = r /\ UNCHANGED accepted

(* LineWriter::write returns Ok(k), and write_all's loop goes on. *)
write_returns(k) ==
  IF k = 0 THEN ends_with_result("error")
  ELSE /\ accepted' = accepted \o SubSeq(todo, 1, k) /\ todo' = drop_first(todo, k)
       /\ enter(IF k = Len(todo) THEN "idle" ELSE "write", FALSE)
       /\ done' = 0 /\ result' = "ok"

(* The error of the inner writer, or of flush_buf, goes up from stage. *)
goes_wrong(interrupted) ==
  \/ /\ stage \in {"pre", "first", "only"} /\ interrupted
     /\ enter("write", FALSE) /\ UNCHANGED <<todo, done, accepted, result>>
  \/ stage \in {"pre", "first", "only"} /\ ~interrupted /\ ends_with_result("error")
  \/ stage \in {"line", "rest"} /\ write_returns(done)
  \/ stage \in {"flush", "into_inner"} /\ ends_with_result("error")
  \/ stage = "drop" /\ enter("gone", FALSE) /\ UNCHANGED <<todo, done, accepted, result>>
-----------------------------------------------------------------------------
write_all(d) ==
  /\ stage = "idle" /\ Len(accepted) + Len(d) <= MaxSunk
  /\ todo' = d /\ enter("write", FALSE) /\ UNCHANGED <<sunk, wbuf, need_flush, done, accepted, result>>

write ==
  /\ stage = "write"
  /\ IF need_flush THEN enter("pre", TRUE) ELSE split
  /\ UNCHANGED <<sunk, wbuf, need_flush, todo, done, accepted, result>>

(* flush, into_inner and the destructor. *)
empty_buffer(s) ==
  /\ stage = "idle" /\ enter(s, TRUE)
  /\ UNCHANGED <<sunk, wbuf, need_flush, todo, done, accepted, result>>

(* A turn of flush_buf in which the inner writer takes m bytes; one that is *)
(* interrupted changes nothing.                                             *)
flush_buf(m) ==
  /\ flushing /\ m <= Len(wbuf) - written
  /\ sunk' = sunk \o SubSeq(wbuf, written + 1, written + m) /\ written' = written + m
  /\ UNCHANGED <<wbuf, need_flush, todo, done, stage, flushing, accepted, result>>

flush_buf_once ==   \* mutant: one write for all of the buffer
  /\ flushing /\ (written > 0 \/ wbuf = <<>>)
  /\ wbuf' = drop_first(wbuf, written) /\ flushing' = FALSE /\ written' = 0
  /\ UNCHANGED <<sunk, need_flush, todo, done, stage, accepted, result>>

flush_buf_ok ==
  /\ flushing /\ written = Len(wbuf)
  /\ wbuf' = drop_first(wbuf, written) /\ flushing' = FALSE /\ written' = 0
  /\ UNCHANGED <<sunk, need_flush, todo, done, stage, accepted, result>>

flush_buf_err_keeps ==   \* mutant: an error returns before drain
  /\ flushing /\ written < Len(wbuf)
  /\ UNCHANGED wbuf /\ goes_wrong(FALSE)
  /\ need_flush' = (need_flush /\ stage # "into_inner") /\ UNCHANGED sunk

(* The inner writer takes none or fails: what is written leaves the buffer. *)
flush_buf_err ==
  /\ flushing /\ written < Len(wbuf)
  /\ wbuf' = drop_first(wbuf, written) /\ goes_wrong(FALSE)
  /\ need_flush' = (need_flush /\ stage # "into_inner") /\ UNCHANGED sunk

(* BufWriter::write after that: to the inner writer, which takes m bytes,   *)
(* or into the buffer.                                                      *)
put(m) ==
  LET d == given(stage) IN
  /\ stage \in {"first", "rest", "only"} /\ ~flushing
  /\ IF Len(d) >= Capacity
     THEN m \in 0..Len(d) /\ sunk' = sunk \o SubSeq(d, 1, m) /\ UNCHANGED wbuf
     ELSE m = Len(d) /\ wbuf' = wbuf \o d /\ UNCHANGED sunk
  /\ IF stage = "first"
     THEN /\ done' = m /\ need_flush' = TRUE /\ enter("line", TRUE)
          /\ UNCHANGED <<todo, accepted, result>>
     ELSE write_returns(done + m) /\ UNCHANGED need_flush

put_err(interrupted) ==
  /\ stage \in {"first", "rest", "only"} /\ ~flushing /\ Len(given(stage)) >= Capacity
  /\ goes_wrong(interrupted) /\ UNCHANGED <<sunk, wbuf, need_flush>>

(* BufWriter::flush after flush_buf: the inner writer's flush. *)
inner_flush ==
  /\ ~flushing /\ need_flush' = FALSE /\ UNCHANGED <<sunk, wbuf>>
  /\ \/ stage = "pre" /\ split /\ UNCHANGED <<todo, done, accepted, result>>
     \/ stage = "line" /\ done # first_len /\ write_returns(done)
     \/ /\ stage = "line" /\ done = first_len
        /\ buf_write("rest") /\ UNCHANGED <<todo, done, accepted, result>>
     \/ stage = "flush" /\ ends_with_result("flushed")

inner_flush_err(interrupted) ==
  /\ stage \in {"pre", "line", "flush"} /\ ~flushing
  /\ goes_wrong(interrupted) /\ UNCHANGED <<sunk, wbuf, need_flush>>

(* into_inner gives the inner writer away, the destructor is done. *)
taken ==
  /\ stage \in {"into_inner", "drop"} /\ ~flushing /\ enter("gone", FALSE)
  /\ UNCHANGED <<sunk, wbuf, need_flush, todo, done, accepted, result>>

with_capacity ==
  /\ stage = "gone" /\ enter("idle", FALSE)
  /\ sunk' = <<>> /\ wbuf' = <<>> /\ need_flush' = FALSE /\ todo' = <<>> /\ done' = 0
  /\ accepted' = <<>> /\ result' = "ok"

WriterNext ==
  \/ \E d \in Datas : write_all(d)
  \/ write \/ flush_buf_ok \/ flush_buf_err \/ inner_flush \/ taken \/ with_capacity
  \/ \E s \in {"flush", "into_inner", "drop"} : empty_buffer(s)
  \/ \E m \in 1..Capacity : flush_buf(m)
  \/ \E m \in 0..MaxSunk : put(m)
  \/ \E interrupted \in BOOLEAN : put_err(interrupted) \/ inner_flush_err(interrupted)

WriterSpec == WriterInit /\ [][WriterNext]_writer_vars
-----------------------------------------------------------------------------
(* The buffer never outgrows its capacity, so Vec never moves it. *)
WithinCapacity == Len(wbuf) <= Capacity /\ written <= Len(wbuf)

(* Between two calls of write, whatever was cut short or failed before, the *)
(* inner writer and the buffer hold the bytes that write has reported, each *)
(* once and in order, and no others.                                        *)
BytesInOrder ==
  stage \in {"idle", "write"} => sunk \o wbuf = accepted

(* A successful flush leaves nothing behind, and a writer that is taken     *)
(* apart without an error has passed everything on.                         *)
FlushedMeansSunk ==
  /\ stage = "idle" /\ result = "flushed" => (wbuf = <<>> /\ ~need_flush)
  /\ stage = "into_inner" /\ ~flushing => sunk = accepted

(* "flushing whenever a newline is detected" (LineWriter's comment): after  *)
(* a successful write, unless the writer knows that a flush is due, no      *)
(* newline waits in the buffer.                                             *)
LinesAreFlushed ==
  stage = "idle" /\ result = "ok" /\ ~need_flush => \A i \in 1..Len(wbuf) : wbuf[i] # Newline
=============================================================================
