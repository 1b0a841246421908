------------------------------ MODULE BufReader ------------------------------
(***************************************************************************)
(* std/src/io: BufReader (buffered.rs), and on top of it read_until,       *)
(* read_line and Lines (mod.rs), which cat prints a file with.             *)
(*                                                                         *)
(* The inner reader is a file of the card.  It may return fewer bytes than *)
(* asked for, be interrupted, or fail.  One turn of the loop of read_until *)
(* is a step; every other call is one.                                     *)
(***************************************************************************)
EXTENDS Integers, Sequences, FiniteSets, FiniteSetsExt

CONSTANTS
  FileByte,  \* the bytes of a file
  Files,     \* the contents of the files that are read by lines
  Blobs,     \* and of those that are read by bytes
  BufSize,   \* bytes of the buffer (4096 in the code)
  I64Size    \* 2^63, cut down

ASSUME ReaderAssumption ==
  /\ BufSize \in Nat \ {0} /\ I64Size \in Nat \ {0}
  /\ Files \subseteq Seq(FileByte) /\ Blobs \subseteq Seq(FileByte)

I64Min == -I64Size   \* i64::min_value()

NL == "nl"
CR == "cr"

VARIABLES
  client,    \* what the reader is used for: "lines", or "bytes" with seeks
  file,      \* the bytes of the file
  inner,     \* the position of the file
  buf,       \* the bytes of the last read into the buffer; cap is their number
  pos,       \* how many of them are used up
  call,      \* "idle", or "next" inside Lines::next
  appended,  \* the bytes that read_until has appended
  lines,     \* history: what next returned so far
  answer,    \* history: how the last call ended
  failed,    \* history: a call has failed
  at,        \* history: the position in the stream, as the caller counts it
  data,      \* history: the bytes of the last read
  stale,     \* history: the file was moved past the buffer since the last fill
  revived    \* history: seek_relative has gone back into such a buffer

reader_vars == <<client, file, inner, buf, pos, call, appended, lines, answer, failed, at,
                 data, stale, revived>>

cap == Len(buf)

ReaderInit ==
  /\ client \in {"lines", "bytes"}
  /\ file \in IF client = "lines" THEN Files ELSE Blobs
  /\ inner = 0 /\ buf = <<>> /\ pos = 0
  /\ call = "idle" /\ appended = <<>> /\ lines = <<>> /\ answer = "ok" /\ failed = FALSE
  /\ at = 0 /\ data = <<>> /\ stale = FALSE /\ revived = FALSE
-----------------------------------------------------------------------------
(* How many bytes a read of the file with room for k may return. *)
counts(k) ==
  LET most == Min({k, Len(file) - inner}) IN IF most = 0 THEN {0} ELSE 1..most

(* fill_buf when the inner read, if there is one, returns m bytes. *)
fill_buf(m) ==
  IF pos >= cap
  THEN [buf |-> SubSeq(file, inner + 1, inner + m), pos |-> 0, inner |-> inner + m]
  ELSE [buf |-> buf, pos |-> pos, inner |-> inner]

fills == IF pos >= cap THEN counts(BufSize) ELSE {0}

available(r) == SubSeq(r.buf, r.pos + 1, Len(r.buf))

consume_all(r, amt) == Len(r.buf)   \* mutant: the rest of the buffer is lost

consume(r, amt) == Min({r.pos + amt, Len(r.buf)})

(* The reader becomes r with amt more bytes used up. *)
advance(r, amt) ==
  /\ buf' = r.buf /\ inner' = r.inner /\ pos' = consume(r, amt)
  /\ stale' = (pos < cap /\ stale)

unmoved == UNCHANGED <<client, file, inner, buf, pos, lines, at, data, stale, revived>>
-----------------------------------------------------------------------------
(* Lines::next with read_line and append_to_string. *)
lines_next ==
  /\ client = "lines" /\ call = "idle"
  /\ call' = "next" /\ appended' = <<>>
  /\ UNCHANGED <<client, file, inner, buf, pos, lines, answer, failed, at, data, stale,
                 revived>>

(* Two bytes stand for a character of two bytes. *)
from_utf8(s) ==
  \A i \in 1..Len(s) : /\ s[i] = "u1" => i < Len(s) /\ s[i + 1] = "u2"
                       /\ s[i] = "u2" => i > 1 /\ s[i - 1] = "u1"

chomp(s, b) == IF s # <<>> /\ s[Len(s)] = b THEN SubSeq(s, 1, Len(s) - 1) ELSE s

ends_in(s, b) == s # <<>> /\ s[Len(s)] = b

stripped(s) == IF ends_in(s, NL) THEN chomp(chomp(s, NL), CR) ELSE s

Invalid == <<"bad">>   \* the error of append_to_string

returned(s) == IF from_utf8(s) THEN stripped(s) ELSE Invalid

memchr(b, s) == {i \in 1..Len(s) : s[i] = b}

read_until_forever(m) ==   \* mutant: the end of the file is no reason to stop
  LET r == fill_buf(m)
      hits == memchr(NL, available(r))
      used == IF hits = {} THEN Len(available(r)) ELSE Min(hits)
      got == appended \o SubSeq(available(r), 1, used)
  IN  /\ call = "next" /\ m \in fills
      /\ advance(r, used) /\ at' = at + used
      /\ IF hits = {}
         THEN appended' = got /\ UNCHANGED <<call, lines, answer>>
         ELSE /\ call' = "idle" /\ appended' = <<>>
              /\ lines' = Append(lines, returned(got)) /\ answer' = "ok"
      /\ UNCHANGED <<client, file, failed, data, revived>>

(* A turn of read_until: what is available up to the delimiter is taken. *)
read_until(m) ==
  LET r == fill_buf(m)
      hits == memchr(NL, available(r))
      used == IF hits = {} THEN Len(available(r)) ELSE Min(hits)
      got == appended \o SubSeq(available(r), 1, used)
  IN  /\ call = "next" /\ m \in fills
      /\ advance(r, used) /\ at' = at + used
      /\ IF hits = {} /\ used # 0
         THEN appended' = got /\ UNCHANGED <<call, lines, answer>>
         ELSE /\ call' = "idle" /\ appended' = <<>>
              /\ IF got = <<>> THEN answer' = "none" /\ UNCHANGED lines
                 ELSE lines' = Append(lines, returned(got)) /\ answer' = "ok"
      /\ UNCHANGED <<client, file, failed, data, revived>>

(* The inner read is interrupted: read_until tries again. *)
read_until_interrupted == call = "next" /\ pos >= cap /\ UNCHANGED reader_vars

(* The inner read fails: the bytes read_until has are dropped with it. *)
read_until_fails ==
  /\ call = "next" /\ pos >= cap
  /\ call' = "idle" /\ appended' = <<>> /\ answer' = "error" /\ failed' = TRUE
  /\ unmoved
-----------------------------------------------------------------------------
(* BufReader::read into k bytes: past the buffer if it is empty and k is    *)
(* no smaller.                                                              *)
read(k, m) ==
  /\ client = "bytes" /\ answer' = "ok"
  /\ IF pos = cap /\ k >= BufSize
     THEN /\ m \in counts(k)
          /\ data' = SubSeq(file, inner + 1, inner + m) /\ inner' = inner + m
          /\ stale' = TRUE /\ UNCHANGED <<buf, pos>>
     ELSE /\ m \in fills
          /\ data' = SubSeq(available(fill_buf(m)), 1, Min({k, Len(available(fill_buf(m)))}))
          /\ advance(fill_buf(m), Len(data'))
  /\ at' = at + Len(data')
  /\ UNCHANGED <<client, file, call, appended, lines, failed, revived>>

read_fails ==
  /\ client = "bytes" /\ pos >= cap
  /\ answer' = "error" /\ unmoved /\ UNCHANGED <<call, appended, failed>>

(* The file is at p and the buffer empty; the caller goes to position q. *)
seeked(p, q) ==
  /\ inner' = p /\ pos' = cap /\ stale' = TRUE
  /\ at' = q /\ data' = <<>> /\ answer' = "ok"
  /\ UNCHANGED <<client, file, buf, call, appended, lines, failed, revived>>

Places == 0..Len(file)   \* where the file can be moved to

(* BufReader::seek from the start or the end of the file. *)
seek(p) == client = "bytes" /\ p \in Places /\ seeked(p, p)

remainder == cap - pos

seek_current_raw(k) == inner + k \in Places /\ seeked(inner + k, at + k)

(* BufReader::seek from the current position, in one move or, where the sum *)
(* is no i64, in two.                                                       *)
seek_current(k) ==
  /\ inner + k - remainder \in Places
  /\ k - remainder < I64Min => inner - remainder \in Places
  /\ seeked(inner + k - remainder, at + k)

(* A seek fails, in its first move or in its second. *)
seek_fails ==
  /\ client = "bytes" /\ answer' = "error" /\ unmoved /\ UNCHANGED <<call, appended, failed>>

seek_fails_halfway(k) ==
  /\ client = "bytes" /\ k - remainder < I64Min /\ inner - remainder \in Places
  /\ inner' = inner - remainder /\ pos' = cap /\ stale' = TRUE /\ answer' = "error"
  /\ UNCHANGED <<client, file, buf, call, appended, lines, failed, at, data, revived>>

(* Within the buffer only pos moves. *)
seek_relative(k) ==
  /\ client = "bytes"
  /\ IF pos + k \in 0..cap
     THEN /\ pos' = pos + k /\ at' = at + k /\ data' = <<>> /\ answer' = "ok"
          /\ revived' = (revived \/ (stale /\ k < 0))
          /\ UNCHANGED <<client, file, inner, buf, call, appended, lines, failed, stale>>
     ELSE seek_current(k)
-----------------------------------------------------------------------------
Offsets == I64Min..(I64Size - 1)

ReaderNext ==
  \/ lines_next \/ read_until_interrupted \/ read_until_fails
  \/ \E m \in 0..BufSize : read_until(m)
  \/ \E k, m \in 0..(BufSize + 1) : read(k, m)
  \/ read_fails \/ seek_fails
  \/ \E p \in {0, Len(file)} : seek(p)
  \/ \E k \in Offsets : \/ client = "bytes" /\ seek_current(k)
                        \/ seek_fails_halfway(k) \/ seek_relative(k)

ReaderSpec == ReaderInit /\ [][ReaderNext]_reader_vars
-----------------------------------------------------------------------------
(* A line of s begins behind the start of s or a newline and ends with the  *)
(* next newline or with s.                                                  *)
LineEnds(s) == {0} \cup memchr(NL, s) \cup {Len(s)}

rank(s, e) == Cardinality({f \in LineEnds(s) : f < e})

line_end(s, k) == CHOOSE e \in LineEnds(s) : rank(s, e) = k

(* The lines of s with their ends. *)
RawLines(s) ==
  [k \in 1..(Cardinality(LineEnds(s)) - 1) |-> SubSeq(s, line_end(s, k - 1) + 1, line_end(s, k))]

(* However the file's bytes come in, cut through a line end or a character, *)
(* and however often a read is interrupted, next returns the lines of the   *)
(* file, each once, and None at its end and only there.                     *)
LinesAreTheFile ==
  client = "lines" /\ ~failed /\ call = "idle" =>
    LET raw == RawLines(file) IN
    /\ Len(lines) <= Len(raw)
    /\ \A k \in 1..Len(lines) : lines[k] = returned(raw[k])
    /\ answer = "none" => Len(lines) = Len(raw)

(* What is buffered is what the file has before its own position, and the   *)
(* caller's position is where the next byte comes from, through reads past  *)
(* the buffer, failed reads and seeks; until a seek_relative goes back into *)
(* a buffer that the file has left behind.                                  *)
ReadsAreTrue ==
  /\ at = inner - remainder
  /\ ~revived => /\ SubSeq(buf, pos + 1, cap) = SubSeq(file, at + 1, inner)
                 /\ data = SubSeq(file, at - Len(data) + 1, at)

(* A call of next returns unless its reads are interrupted for ever. *)
NextReturns == [](call = "next" => <>(call = "idle"))

(* Every turn of read_until that does not end the call, and is not just     *)
(* interrupted, gets further in the file.                                   *)
NextProgresses ==
  [][call = "next" /\ call' = "next" => at < at' /\ at' <= Len(file)]_reader_vars
=============================================================================
