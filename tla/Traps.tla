-------------------------------- MODULE Traps --------------------------------
(***************************************************************************)
(* Which exceptions the kernel survives: handle_exception                  *)
(* (kernel/src/traps/mod.rs) with the decoding of the syndrome             *)
(* (traps/syndrome.rs), the interrupt controller (pi/src/interrupt.rs) and *)
(* handle_irq.  What the scheduler does in them is module Scheduler.       *)
(*                                                                         *)
(* An interrupt does not write ESR: its handler decodes the syndrome that  *)
(* an earlier synchronous exception left, or that was there at reset.      *)
(***************************************************************************)
EXTENDS Integers

CONSTANTS
  Lines,     \* interrupt lines that devices raise
  Classes,   \* exception classes of synchronous exceptions, 0..63
  AtReset,   \* classes that ESR can hold before the first of them
  Calls      \* numbers of system calls

Timer1 == 1
Svc    == 21   \* 0b010101
Brk    == 60   \* 0b111100

ASSUME TrapsAssumption ==
  Lines \subseteq 0..63 /\ Classes \subseteq 0..63 /\ Calls \subseteq Nat

(* Not the class that Syndrome::from cannot decode. *)
ASSUME ResetAssumption == AtReset \subseteq 0..63 /\ 37 \notin AtReset

VARIABLES
  esr,       \* class and immediate in ESR_EL1
  raised,    \* lines that are raised
  enabled,   \* lines that the controller passes on
  mode,      \* "boot", "user", "handler" or "panic"
  kind       \* Info.kind of the last exception

trap_vars == <<esr, raised, enabled, mode, kind>>

TrapsInit ==
  /\ esr \in [class : AtReset, imm : {0}]
  /\ raised = {} /\ enabled = {} /\ mode = "boot" /\ kind = "none"

(* The line of an offset in a word of a register, and where a line is. *)
line(w) == 32 * w[1] + w[2]
index_and_offset(int) == <<int \div 32, int % 32>>

enable_word(int) ==   \* mutant: the whole word is written
  enabled' = enabled \union {i \in 0..63 : i \div 32 = int \div 32}

(* A 1 written to ENABLE_IRQS enables, a 0 changes nothing. *)
enable(int) == enabled' = enabled \union {line(index_and_offset(int))}

is_pending(int) == line(index_and_offset(int)) \in raised \intersect enabled

(* GlobalScheduler::start: the timer's interrupt is enabled, and the first  *)
(* process entered with interrupts unmasked.                                *)
start ==
  /\ mode = "boot" /\ mode' = "user"
  /\ enable(Timer1)
  /\ UNCHANGED <<esr, raised, kind>>

(* A device raises its line, and keeps it raised. *)
raise(i) ==
  /\ mode # "panic"
  /\ raised' = raised \union {i}
  /\ UNCHANGED <<esr, enabled, mode, kind>>

exception(k) == mode = "user" /\ mode' = "handler" /\ kind' = k

irq ==
  /\ raised \intersect enabled # {} /\ exception("Irq")
  /\ UNCHANGED <<esr, raised, enabled>>

synchronous(c, n) ==
  /\ exception("Synchronous") /\ esr' = [class |-> c, imm |-> n]
  /\ UNCHANGED <<raised, enabled>>

serror == exception("SError") /\ esr' = [class |-> 47, imm |-> 0] /\ UNCHANGED <<raised, enabled>>

(* Fault::from panics but for four classes.  One of them is written in      *)
(* decimal, 100101, which as a u8 is 5.                                     *)
fault_panics(c) == c \notin {32, 33, 36, 100101 % 256}

(* Syndrome::from panics where it asks for a Fault and there is none. *)
decode_panics(c) == c \in {32, 33, 36, 37} /\ fault_panics(c)

(* What handle_exception, handle_syscall and handle_irq have an arm for: a  *)
(* shell for a Brk, the system call sleep, and the timer's interrupt.       *)
arm ==
  IF kind = "Synchronous" /\ esr.class = Brk THEN "shell"
  ELSE IF kind = "Synchronous" /\ esr.class = Svc /\ esr.imm = 1 THEN "sleep"
  ELSE IF kind = "Irq" /\ is_pending(Timer1) THEN "switch"
  ELSE "unexpected"

(* The syndrome is decoded for every kind of exception.  After a switch,    *)
(* tick_in clears the timer's match.                                        *)
handle_exception ==
  /\ mode = "handler"
  /\ mode' = IF decode_panics(esr.class) \/ arm = "unexpected" THEN "panic" ELSE "user"
  /\ raised' = IF mode' = "user" /\ arm = "switch" THEN raised \ {Timer1} ELSE raised
  /\ UNCHANGED <<esr, enabled, kind>>

panic_fmt == mode = "panic" /\ UNCHANGED trap_vars

TrapsNext ==
  \/ start \/ irq \/ serror \/ handle_exception \/ panic_fmt
  \/ \E i \in Lines : raise(i)
  \/ \E c \in Classes, n \in Calls : synchronous(c, n)

TrapsSpec == TrapsInit /\ [][TrapsNext]_trap_vars
-----------------------------------------------------------------------------
(* No interrupt stops the kernel: the only line that is enabled is the      *)
(* timer's, it is still raised when the handler looks, and the syndrome it  *)
(* decodes on the way is one that an earlier exception survived.            *)
InterruptsAreHandled == mode = "panic" => kind # "Irq"
=============================================================================
