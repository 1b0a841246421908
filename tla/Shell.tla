-------------------------------- MODULE Shell --------------------------------
(***************************************************************************)
(* kernel/src/shell.rs: one shell, from its prompt over the line editor to *)
(* the command and back.  A typed line is a sequence of letters "x" and    *)
(* spaces "sp": it fixes how many words there are.  Which command the      *)
(* words are and which paths they name is chosen when the line is          *)
(* dispatched.                                                             *)
(*                                                                         *)
(* A path is the sequence of its components, a directory the sequence of   *)
(* names below the root.  Path prefixes do not exist on this target.       *)
(***************************************************************************)
EXTENDS Integers, Sequences, FiniteSets

CONSTANTS
  LineLen,   \* bytes of a line (512 in the code)
  MaxArgs,   \* words of a command (64 in the code)
  Names,     \* names of files and directories
  Dirs,      \* the directories of the card
  Paths      \* the paths that are typed

Root   == "root"
Parent == "parent"
Cur    == "cur"

ASSUME ShellAssumption ==
  /\ LineLen \in Nat /\ MaxArgs \in Nat \ {0}
  /\ {Root, Parent, Cur} \cap Names = {}
  /\ Dirs \subseteq Seq(Names) /\ <<>> \in Dirs
  /\ Paths \subseteq Seq(Names \cup {Root, Parent, Cur})

VARIABLES
  pc,       \* where the shell is
  line,     \* line_stack
  screen,   \* characters shown after the prompt
  cwd,      \* Shell.cwd
  status    \* how the last command ended

vars == <<pc, line, screen, cwd, status>>

Init == pc = "prompt" /\ line = <<>> /\ screen = 0 /\ cwd = <<>> /\ status = "ok"
-----------------------------------------------------------------------------
(* Paths.  No directory is called "..": this stands for Err. *)
PathError == <<Parent>>

reset(d) == <<>>

walk(d, c) ==
  IF d = PathError THEN PathError
  ELSE IF c = Root THEN reset(d)
  ELSE IF c = Parent THEN IF d = <<>> THEN PathError ELSE SubSeq(d, 1, Len(d) - 1)
  ELSE IF c = Cur THEN d
  ELSE Append(d, c)

canonical_join(d, p) ==
  LET joined[i \in 0..Len(p)] == IF i = 0 THEN d ELSE walk(joined[i - 1], p[i])
  IN  joined[Len(p)]

is_relative(p) == p = <<>> \/ p[1] # Root

(* The number of words of a line. *)
words(l) ==
  Cardinality({i \in 1..Len(l) : l[i] # "sp" /\ (i = 1 \/ l[i - 1] = "sp")})
-----------------------------------------------------------------------------
(* The prompt. *)
repl ==
  /\ pc = "prompt" /\ pc' = "readline"
  /\ line' = <<>> /\ screen' = 0
  /\ UNCHANGED <<cwd, status>>

(* A command has ended, in an error or not; repl goes round. *)
ends(s) ==
  /\ pc' = "prompt" /\ status' = s
  /\ UNCHANGED <<line, screen>>

push(b) ==
  /\ UNCHANGED cwd
  /\ IF Len(line) < LineLen
     THEN line' = Append(line, b) /\ UNCHANGED <<pc, status>>
     ELSE pc' = "prompt" /\ status' = "LineTooLong" /\ UNCHANGED line

(* A printable character is shown, then kept. *)
key_char(b) == pc = "readline" /\ screen' = screen + 1 /\ push(b)

key_erase_blind ==   \* mutant: something is always erased
  /\ pc = "readline"
  /\ line' = SubSeq(line, 1, Len(line) - 1) /\ screen' = screen - 1
  /\ UNCHANGED <<pc, cwd, status>>

(* Backspace and delete. *)
key_erase ==
  /\ pc = "readline"
  /\ IF line = <<>> THEN UNCHANGED <<line, screen>>
     ELSE line' = SubSeq(line, 1, Len(line) - 1) /\ screen' = screen - 1
  /\ UNCHANGED <<pc, cwd, status>>

key_enter ==
  /\ pc = "readline" /\ pc' = "eval"
  /\ UNCHANGED <<line, screen, cwd, status>>

(* Any other key rings the bell. *)
key_other == pc = "readline" /\ UNCHANGED vars

eval_quiet ==   \* mutant: no new prompt after an empty line
  /\ pc = "eval" /\ UNCHANGED <<line, screen, cwd, status>>
  /\ pc' = IF line = <<>> THEN "readline" ELSE "dispatch"

eval_blank ==   \* mutant: a line of spaces is taken for a command
  /\ pc = "eval" /\ UNCHANGED cwd
  /\ IF line = <<>> THEN ends("ok")
     ELSE IF words(line) > MaxArgs THEN ends("TooManyArgs")
     ELSE pc' = "dispatch" /\ UNCHANGED <<line, screen, status>>

(* eval up to the command, with Command::parse. *)
eval ==
  /\ pc = "eval" /\ UNCHANGED cwd
  /\ IF line = <<>> THEN ends("ok")
     ELSE IF words(line) > MaxArgs THEN ends("TooManyArgs")
     ELSE IF words(line) = 0 THEN ends("Empty")
     ELSE pc' = "dispatch" /\ UNCHANGED <<line, screen, status>>
-----------------------------------------------------------------------------
(* The commands, with n arguments after the name. *)
n == words(line) - 1

at_dispatch == pc = "dispatch"

exit ==
  /\ at_dispatch /\ pc' = "returned" /\ status' = "ok"
  /\ UNCHANGED <<line, screen, cwd>>

echo == at_dispatch /\ ends("ok") /\ UNCHANGED cwd

pwd == at_dispatch /\ ends(IF n > 0 THEN "InvalidArgs" ELSE "ok") /\ UNCHANGED cwd

unknown == at_dispatch /\ ends("UnknownCommand") /\ UNCHANGED cwd

usage_error(valid) == at_dispatch /\ n \notin valid /\ ends("InvalidArgs") /\ UNCHANGED cwd

(* What the card answers when a directory is opened: also a directory that *)
(* is there may fail to be read.                                           *)
open_dir(d) == IF d \in Dirs THEN {"ok", "Io"} ELSE {"Io"}

cd_early(p) ==   \* mutant: the directory is opened after the change
  LET d == canonical_join(cwd, p) IN
  /\ at_dispatch /\ n = 1
  /\ IF d = PathError THEN ends("Path") /\ UNCHANGED cwd
     ELSE cwd' = d /\ \E s \in open_dir(d) : ends(s)

cd(p) ==
  LET d == canonical_join(cwd, p) IN
  /\ at_dispatch /\ n = 1
  /\ IF d = PathError THEN ends("Path") /\ UNCHANGED cwd
     ELSE \E s \in open_dir(d) : ends(s) /\ cwd' = IF s = "ok" THEN d ELSE cwd

(* ls: a relative path is joined, an absolute one is left to the card. *)
ls(p, all) ==
  /\ at_dispatch
  /\ \/ n = 0 /\ p = <<>> /\ ~all
     \/ n = 1 /\ p # <<>> /\ ~all
     \/ n = 2 /\ p # <<>> /\ all
  /\ IF is_relative(p) /\ canonical_join(cwd, p) = PathError THEN ends("Path")
     ELSE \E s \in IF is_relative(p) THEN open_dir(canonical_join(cwd, p)) ELSE {"ok", "Io"} :
            ends(s)
  /\ UNCHANGED cwd

ls_usage == at_dispatch /\ n = 2 /\ ends("InvalidArgs") /\ UNCHANGED cwd

(* cat: every path is joined before the first file is opened; a file that  *)
(* cannot be opened is skipped, one that cannot be read ends the command.  *)
cat(ps) ==
  /\ at_dispatch /\ n > 0 /\ Len(ps) = n
  /\ IF \E i \in 1..n : canonical_join(cwd, ps[i]) = PathError THEN ends("Path")
     ELSE \E s \in {"ok", "Io"} : ends(s)
  /\ UNCHANGED cwd

(* sleep with a word that is a u32, or is none. *)
sleep(number) ==
  /\ at_dispatch /\ n = 1 /\ UNCHANGED cwd
  /\ IF number THEN pc' = "svc" /\ UNCHANGED <<line, screen, status>>
               ELSE ends("InvalidArgs")

(* The system call returns, with status 0. *)
sleep_return == pc = "svc" /\ ends("ok") /\ UNCHANGED cwd

(* A process calls shell again when it has returned. *)
start_shell ==
  /\ pc = "returned" /\ pc' = "prompt"
  /\ cwd' = <<>> /\ line' = <<>> /\ screen' = 0 /\ status' = "ok"
-----------------------------------------------------------------------------
dispatch ==
  /\ at_dispatch
  /\ \/ exit \/ echo \/ pwd \/ unknown
     \/ \E p \in Paths : cd(p)
     \/ \E p \in Paths \cup {<<>>}, all \in BOOLEAN : ls(p, all)
     \/ \E ps \in [1..n -> Paths] : cat(ps)
     \/ \E number \in BOOLEAN : sleep(number)
     \/ usage_error({1}) \/ usage_error({0, 1, 2}) \/ usage_error(1..MaxArgs) \/ ls_usage

step == repl \/ eval \/ dispatch \/ start_shell

Next ==
  \/ step
  \/ \E b \in {"x", "sp"} : key_char(b)
  \/ key_erase \/ key_enter \/ key_other
  \/ sleep_return

Spec == Init /\ [][Next]_vars

(* The process of the shell is scheduled, and its system call returns; *)
(* nobody has to type.                                                 *)
FairSpec == Spec /\ WF_vars(step) /\ WF_vars(sleep_return)
-----------------------------------------------------------------------------
Errors == {"ok", "Empty", "TooManyArgs", "InvalidArgs", "LineTooLong", "UnknownCommand",
           "Io", "Path"}

(* The type invariant. *)
TypeOK ==
  /\ pc \in {"prompt", "readline", "eval", "dispatch", "svc", "returned"}
  /\ line \in Seq({"x", "sp"}) /\ Len(line) <= LineLen
  /\ screen \in 0..(LineLen + 1)
  /\ cwd \in Seq(Names)
  /\ status \in Errors

(* While a line is edited, the screen shows it and nothing else: erasing    *)
(* never eats the prompt, a character that is shown is in the line.         *)
ScreenShowsLine == pc \in {"readline", "eval", "dispatch"} => screen = Len(line)

(* The current directory is a directory of the card, whatever was typed and *)
(* whatever the card failed to read.                                        *)
CwdIsDirectory == cwd \in Dirs

(* A command that ends in an error leaves the current directory alone. *)
ErrorKeepsCwd == [][pc = "dispatch" /\ status' # "ok" => cwd' = cwd]_vars

(* No line, blank ones and ones of too many words included, makes path or   *)
(* dispatch index a word that is not there or that its buffer cannot hold.  *)
ArgsInBounds == pc = "dispatch" => words(line) \in 1..MaxArgs

(* Every line that is entered is answered by a prompt or ends the shell. *)
LinesAreAnswered == pc = "eval" ~> pc \in {"prompt", "returned"}
=============================================================================
