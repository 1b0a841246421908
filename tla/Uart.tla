-------------------------------- MODULE Uart ---------------------------------
(***************************************************************************)
(* pi/src/uart.rs behind kernel/src/console.rs: the mini UART and its two  *)
(* FIFOs, used by processes and by the exception handler, which prints the *)
(* trap frame on every exception.  The lock of the console excludes nobody *)
(* (module Mutex), so it is left out.                                      *)
(*                                                                         *)
(* Every access to the line status and to the data register is one step.   *)
(* Bytes are counted, not told apart.  Time is relative: a wait keeps the  *)
(* microseconds that are left of it.                                       *)
(***************************************************************************)
EXTENDS Integers, FiniteSets, Sequences

CONSTANTS
  Procs, Handler,
  Depth,      \* bytes that fit into each FIFO (8 in the hardware)
  POLL,       \* microseconds between two looks at the line status
  MS,         \* microseconds of a millisecond (1000 in the code)
  Width,      \* u32 arithmetic is modulo this
  Timeouts,   \* the milliseconds given to set_read_timeout
  Lens,       \* the lengths of the buffers given to read
  Strings     \* the strings given to write_str, over "c" and "\n"

ASSUME UartAssumption ==
  /\ Handler \notin Procs /\ Procs # {}
  /\ Depth \in Nat \ {0} /\ POLL \in Nat /\ MS \in Nat /\ Width \in Nat \ {0}
  /\ Timeouts \subseteq Nat /\ Lens \subseteq Nat
  /\ Strings \subseteq Seq({"c", "\n"})

Threads == Procs \cup {Handler}
None    == -1

VARIABLES
  inner,     \* Console.inner is Some
  timeout,   \* MiniUart.timeout, or None
  CNTL,      \* receiver and transmitter are enabled
  rx, tx,    \* bytes in the FIFOs
  pc, op,    \* of each thread: where it is, and in which operation
  out,       \* bytes that it still has to write
  len, n,    \* length of its read buffer, and bytes read
  left,      \* time to the deadline of wait_for_byte; None without one
  nap,       \* time to the end of spin_sleep_us
  running,   \* the thread on the processor
  alone      \* history: not interrupted since it last saw what it waits for

local == <<op, out, len, n, left, nap>>
port  == <<inner, timeout, CNTL>>
vars  == <<inner, timeout, CNTL, rx, tx, pc, op, out, len, n, left, nap, running, alone>>

(* A b'\r' before every b'\n'. *)
written(s) == Len(s) + Cardinality({i \in 1..Len(s) : s[i] = "\n"})

never_full == FALSE   \* mutant: the line status is not looked at
room == tx < Depth    \* mutant: the test turned round

(* The bits of LSR.  TxIdle is bit 6. *)
write_fifo_full == tx = Depth
has_byte        == rx > 0
TxIdle          == IF tx = 0 THEN 64 ELSE 0

Init ==
  /\ inner = FALSE /\ timeout = None /\ CNTL = FALSE
  /\ rx = 0 /\ tx = 0
  /\ pc = [t \in Threads |-> "idle"] /\ op = [t \in Threads |-> "none"]
  /\ out = [t \in Threads |-> 0] /\ len = [t \in Threads |-> 0]
  /\ n = [t \in Threads |-> 0]
  /\ left = [t \in Threads |-> 0] /\ nap = [t \in Threads |-> 0]
  /\ running \in Procs /\ alone = [t \in Threads |-> FALSE]
-----------------------------------------------------------------------------
(* Thread t goes on from one point to another. *)
go(t, from, to) ==
  /\ running = t /\ pc[t] = from
  /\ pc' = [pc EXCEPT ![t] = to]
  /\ UNCHANGED running

(* It returns from its operation, whose local variables are gone. *)
return(t, from) ==
  /\ go(t, from, "idle")
  /\ op' = [op EXCEPT ![t] = "none"] /\ out' = [out EXCEPT ![t] = 0]
  /\ len' = [len EXCEPT ![t] = 0] /\ n' = [n EXCEPT ![t] = 0]
  /\ left' = [left EXCEPT ![t] = 0] /\ alone' = [alone EXCEPT ![t] = FALSE]
  /\ UNCHANGED nap

spin(t, from, to) ==
  /\ go(t, from, to)
  /\ nap' = [nap EXCEPT ![t] = POLL]
  /\ UNCHANGED <<op, out, len, n, left>>

(* The first step of an operation. *)
first(o) == [write |-> "w_check", read_byte |-> "r_check", read |-> "wait",
             flush |-> "flush"][o]

(* Console::inner: the device is set up when it is first used. *)
call(t, o) ==
  /\ go(t, "idle", IF inner THEN first(o) ELSE "new")
  /\ op' = [op EXCEPT ![t] = o]
  /\ UNCHANGED <<port, rx, tx, left, nap, alone>>

write_str(t, s) ==
  /\ call(t, "write")
  /\ out' = [out EXCEPT ![t] = written(s)]
  /\ UNCHANGED <<len, n>>

read_byte(t) == call(t, "read_byte") /\ UNCHANGED <<out, len, n>>

flush(t) == call(t, "flush") /\ UNCHANGED <<out, len, n>>

(* io::Read::read with a buffer of l bytes. *)
read(t, l) ==
  /\ call(t, "read")
  /\ len' = [len EXCEPT ![t] = l]
  /\ UNCHANGED <<out, n>>

set_read_timeout(t, ms) ==
  /\ go(t, "idle", "idle") /\ inner
  /\ timeout' = ms
  /\ UNCHANGED <<inner, CNTL, rx, tx, local, alone>>

(* MiniUart::new: everything off, FIFOs cleared, the pins set up ... *)
new(t) ==
  /\ go(t, "new", "enable")
  /\ CNTL' = FALSE /\ rx' = 0 /\ tx' = 0
  /\ UNCHANGED <<inner, timeout, local, alone>>

(* ... and on again. *)
enable(t) ==
  /\ go(t, "enable", first(op[t]))
  /\ CNTL' = TRUE /\ timeout' = None /\ inner' = TRUE
  /\ UNCHANGED <<rx, tx, local, alone>>

write_look(t) ==
  IF write_fifo_full
  THEN spin(t, "w_check", "w_nap") /\ UNCHANGED alone
  ELSE /\ go(t, "w_check", "w_store")
       /\ alone' = [alone EXCEPT ![t] = TRUE] /\ UNCHANGED local

(* The loop over the bytes, and the one of write_byte in it. *)
write_check(t) ==
  /\ IF out[t] = 0 THEN return(t, "w_check") ELSE write_look(t)
  /\ UNCHANGED <<port, rx, tx>>

(* A byte written to a full FIFO is lost. *)
write_store(t) ==
  /\ go(t, "w_store", "w_check")
  /\ tx' = IF tx < Depth THEN tx + 1 ELSE tx
  /\ out' = [out EXCEPT ![t] = @ - 1]
  /\ UNCHANGED <<port, rx, op, len, n, left, nap, alone>>

(* read_byte *)
read_check(t) ==
  /\ IF has_byte
     THEN /\ go(t, "r_check", "r_load")
          /\ alone' = [alone EXCEPT ![t] = TRUE] /\ UNCHANGED local
     ELSE spin(t, "r_check", "r_nap") /\ UNCHANGED alone
  /\ UNCHANGED <<port, rx, tx>>

(* An empty FIFO yields a byte that nobody sent. *)
read_load(t) ==
  /\ rx' = IF rx > 0 THEN rx - 1 ELSE 0
  /\ IF op[t] = "read_byte"
     THEN return(t, "r_load")
     ELSE /\ go(t, "r_load", "fill")
          /\ n' = [n EXCEPT ![t] = @ + 1]
          /\ UNCHANGED <<op, out, len, left, nap, alone>>
  /\ UNCHANGED <<port, tx>>

(* wait_for_byte: the deadline, in u32 milliseconds ... *)
wait_for_byte(t) ==
  /\ go(t, "wait", IF timeout = None THEN "look" ELSE "deadline")
  /\ left' = [left EXCEPT ![t] = IF timeout = None THEN None ELSE (timeout * MS) % Width]
  /\ UNCHANGED <<port, rx, tx, op, out, len, n, nap, alone>>

(* ... which comes before the next look: then read returns TimedOut. *)
wait_deadline(t) ==
  /\ IF left[t] > 0 THEN go(t, "deadline", "look") /\ UNCHANGED <<local, alone>>
                    ELSE return(t, "deadline")
  /\ UNCHANGED <<port, rx, tx>>

wait_look(t) ==
  /\ IF has_byte
     THEN /\ go(t, "look", "fill")
          /\ alone' = [alone EXCEPT ![t] = TRUE] /\ UNCHANGED local
     ELSE spin(t, "look", "l_nap") /\ UNCHANGED alone
  /\ UNCHANGED <<port, rx, tx>>

fill_blind(t) ==   \* mutant: read waits for the whole buffer
  /\ IF n[t] < len[t]
     THEN go(t, "fill", "r_check") /\ UNCHANGED <<local, alone>>
     ELSE return(t, "fill")
  /\ UNCHANGED <<port, rx, tx>>

(* The loop of read: more bytes while there are some, or return Ok(n). *)
fill(t) ==
  /\ IF n[t] < len[t] /\ has_byte
     THEN /\ go(t, "fill", "r_check")
          /\ alone' = [alone EXCEPT ![t] = TRUE] /\ UNCHANGED local
     ELSE return(t, "fill")
  /\ UNCHANGED <<port, rx, tx>>

(* flush waits for the bit of TxIdle to be 1, not set. *)
flush_look(t) ==
  /\ IF TxIdle # 1 THEN spin(t, "flush", "f_nap") /\ UNCHANGED alone
                   ELSE return(t, "flush")
  /\ UNCHANGED <<port, rx, tx>>

(* spin_sleep_us returns, and the loop that called it goes round. *)
wake(t) ==
  /\ nap[t] = 0
  /\ \/ go(t, "w_nap", "w_check") \/ go(t, "r_nap", "r_check") \/ go(t, "f_nap", "flush")
     \/ go(t, "l_nap", IF left[t] = None THEN "look" ELSE "deadline")
  /\ UNCHANGED <<port, rx, tx, local, alone>>
-----------------------------------------------------------------------------
(* The line: a byte comes in, or goes out. *)
receive ==
  /\ CNTL /\ rx < Depth /\ rx' = rx + 1
  /\ UNCHANGED <<port, tx, pc, local, running, alone>>

transmit ==
  /\ CNTL /\ tx > 0 /\ tx' = tx - 1
  /\ UNCHANGED <<port, rx, pc, local, running, alone>>

less(f) == [t \in Threads |-> IF f[t] > 0 THEN f[t] - 1 ELSE f[t]]

(* A microsecond. *)
tick ==
  /\ nap' = less(nap) /\ left' = less(left)
  /\ UNCHANGED <<port, rx, tx, pc, op, out, len, n, running, alone>>

(* An exception.  The first use of the console ends within microseconds of  *)
(* start, in the first time slice.                                          *)
exception ==
  /\ running \in Procs /\ pc[running] \notin {"new", "enable"}
  /\ running' = Handler
  /\ alone' = [alone EXCEPT ![running] = FALSE]
  /\ UNCHANGED <<port, rx, tx, pc, local>>

eret ==
  /\ running = Handler /\ pc[Handler] = "idle"
  /\ running' \in Procs
  /\ UNCHANGED <<port, rx, tx, pc, local, alone>>

step(t) == \/ new(t) \/ enable(t) \/ write_check(t) \/ write_store(t)
           \/ read_check(t) \/ read_load(t) \/ wait_for_byte(t) \/ wait_deadline(t)
           \/ wait_look(t) \/ fill(t) \/ flush_look(t) \/ wake(t)

Next ==
  \/ \E t \in Threads : step(t)
  \/ \E t \in Threads, s \in Strings : write_str(t, s)
  \/ \E t \in Procs : read_byte(t) \/ flush(t)
  \/ \E t \in Procs, l \in Lens : read(t, l)
  \/ \E t \in Procs, ms \in Timeouts : set_read_timeout(t, ms)
  \/ receive \/ transmit \/ tick \/ exception \/ eret

Spec == Init /\ [][Next]_vars

(* Nothing preempts the handler, the transmitter sends what is in its FIFO, *)
(* and time passes.                                                         *)
FairSpec == Spec /\ WF_vars(step(Handler)) /\ WF_vars(transmit) /\ WF_vars(tick)
-----------------------------------------------------------------------------
Points == {"idle", "new", "enable", "w_check", "w_store", "w_nap", "r_check", "r_load",
           "r_nap", "wait", "deadline", "look", "l_nap", "fill", "flush", "f_nap"}

(* The type invariant. *)
TypeOK ==
  /\ inner \in BOOLEAN /\ timeout \in {None} \cup Timeouts /\ CNTL \in BOOLEAN
  /\ rx \in 0..Depth /\ tx \in 0..Depth
  /\ pc \in [Threads -> Points]
  /\ op \in [Threads -> {"none", "write", "read_byte", "read", "flush"}]
  /\ out \in [Threads -> Nat] /\ len \in [Threads -> Lens \cup {0}]
  /\ n \in [Threads -> Nat]
  /\ left \in [Threads -> Nat \cup {None}] /\ nap \in [Threads -> Nat]
  /\ running \in Threads /\ alone \in [Threads -> BOOLEAN]

(* A thread that was not interrupted between write_fifo_full and the write  *)
(* of its byte finds room for it: no byte is lost, also when a handler that *)
(* fills the FIFO ran just before, or the device was set up again.          *)
StoreFindsRoom ==
  \A t \in Threads : pc[t] = "w_store" /\ alone[t] => tx < Depth

(* What the comments on has_byte and wait_for_byte guarantee: for a thread  *)
(* that was not interrupted since, the byte is there, and a read does not   *)
(* wait a second time.                                                      *)
HasByteGuarantee ==
  \A t \in Threads : alone[t] =>
    /\ pc[t] = "r_load" => rx > 0
    /\ pc[t] = "r_nap" => op[t] # "read"

(* The handler gets its text out, whatever state its process left the       *)
(* device in.                                                               *)
HandlerFinishes == [](pc[Handler] # "idle" => <>(pc[Handler] = "idle"))
=============================================================================
