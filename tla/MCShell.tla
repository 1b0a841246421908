------------------------------- MODULE MCShell -------------------------------
(***************************************************************************)
(* The shell on a card with the directories /, /a and /a/b, and the parts  *)
(* of std under it: paths, buffered readers and line writers.  Each part   *)
(* runs by itself; part says which.  What the shell takes paths and        *)
(* canonical_join to be is related to the bytes that Path works on.        *)
(***************************************************************************)
EXTENDS Shell, Path, BufReader, LineWriter

VARIABLE part

MCDirs == {<<>>, <<"a">>, <<"a", "b">>}

MCPaths == {<<Root, "a">>, <<Root, Parent>>, <<Cur, "b">>, <<"a">>, <<"b", Parent>>,
            <<Parent, Parent, "a">>}

MCFileByte == {"a", NL, CR, "u1", "u2"}

MCFiles == UNION {[1..m -> MCFileByte] : m \in 0..4}

MCBlobs == {<<"a", NL, CR, "u1", "u2">>}

MCByte == {"a", Newline}

MCDatas == UNION {[1..m -> MCByte] : m \in 1..4}
-----------------------------------------------------------------------------
all_vars == <<part, vars, path_vars, reader_vars, writer_vars>>

MCInit ==
  /\ part \in {"shell", "path", "reader", "writer"}
  /\ Init /\ PathInit /\ ReaderInit /\ WriterInit
  /\ part # "path" => using = "cd"
  /\ part # "reader" => client = "lines" /\ file = <<>>

of_shell(A) ==
  part = "shell" /\ A /\ UNCHANGED <<part, path_vars, reader_vars, writer_vars>>

of_reader(A) == part = "reader" /\ A /\ UNCHANGED <<part, vars, path_vars, writer_vars>>

MCNext ==
  \/ of_shell(Next)
  \/ part = "path" /\ PathNext /\ UNCHANGED <<part, vars, reader_vars, writer_vars>>
  \/ of_reader(ReaderNext)
  \/ part = "writer" /\ WriterNext /\ UNCHANGED <<part, vars, path_vars, reader_vars>>

MCSpec == MCInit /\ [][MCNext]_all_vars

(* The fairness of FairSpec, and a read that is not interrupted for ever. *)
MCFairSpec ==
  /\ MCSpec
  /\ WF_all_vars(of_shell(step)) /\ WF_all_vars(of_shell(sleep_return))
  /\ WF_all_vars(of_reader(\E m \in 0..BufSize : read_until(m)))
-----------------------------------------------------------------------------
(* A component as Shell has it, a directory as the names below the root. *)
Symbol(c) == IF c = RootDir THEN Root ELSE IF c = ParentDir THEN Parent
             ELSE IF c = CurDir THEN Cur
             ELSE FoldLeft(LAMBDA name, b : name \o b, "", c)

Symbols(cs) == [i \in 1..Len(cs) |-> Symbol(cs[i])]

Below(p) == Symbols(Tail(Parsed(p)))

(* Pops, pushes and resets on a path's bytes compute Shell's canonical_join *)
(* of what the bytes mean: at every component of the argument the rest of   *)
(* it still leads from the path so far to where all of it leads from the    *)
(* cwd, and there is no parent just at the root.                            *)
JoinImplements ==
  using = "join" =>
    /\ canonical_join(Below(pathbuf), Symbols(Parsed(as_path(comps)))) =
         canonical_join(Below(cwd_buf), Symbols(Parsed(text)))
    /\ (parent(pathbuf) = {}) <=> (Below(pathbuf) = <<>>)

(* However long the shell changes directories, its cwd is absolute and in   *)
(* normal form: one separator between names, none at the end, no "." or     *)
(* ".." left.                                                               *)
CwdCanonical ==
  LET seps == position(cwd_buf, Sep) IN
  using # "iterate" =>
    /\ is_absolute(cwd_buf)
    /\ \A i \in seps : i + 1 \notin seps /\ (i < Len(cwd_buf) \/ cwd_buf = RootDir)
    /\ \A i \in 2..Len(Parsed(cwd_buf)) : Parsed(cwd_buf)[i] \notin {CurDir, ParentDir}
=============================================================================
