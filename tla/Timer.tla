-------------------------------- MODULE Timer --------------------------------
(***************************************************************************)
(* pi/src/timer.rs: a 64 bit counter read as two words while it counts,    *)
(* the delay loop on top of it, and the match of timer 1.                  *)
(*                                                                         *)
(* Every access to a register is one step, and the counter may advance     *)
(* between any two.  Slack bounds what it advances within one tick_in,     *)
(* which runs with interrupts masked.                                      *)
(***************************************************************************)
EXTENDS Integers

CONSTANTS
  B,        \* the counter's low word counts to B (2^32 in the hardware)
  Delays,   \* the microseconds that callers ask for
  Slack,    \* bound: microseconds that pass within tick_in
  MaxNow    \* bound: the counter's last value

ASSUME TimerAssumption ==
  /\ B \in Nat \ {0} /\ MaxNow \in Nat /\ Slack \in Nat
  /\ Delays \subseteq (Slack + 1)..(B - 1)

VARIABLES
  now,        \* the counter
  COMPARE,    \* of timer 1
  CS,         \* the match bit of timer 1
  pc,         \* "idle", or the step of read or tick_in that comes next
  caller,     \* whose read it is: "read", or spin_sleep_us's "deadline", "poll"
  word,       \* the first word of a read
  time,       \* the last value that read returned
  deadline, us, future,   \* locals of spin_sleep_us and tick_in
  began,      \* history: when the call began
  due         \* history: when the match that was asked for is due, or -1

vars == <<now, COMPARE, CS, pc, caller, word, time, deadline, us, future, began, due>>

CHI == now \div B
CLO == now % B

order_swapped == <<"CLO", "CHI">>

(* Timer::read reads the left operand of its | first. *)
order == <<"CHI", "CLO">>

register(r) == IF r = "CHI" THEN CHI ELSE CLO

(* The words of a read, put together. *)
value(first, second) == IF order[1] = "CHI" THEN first * B + second ELSE second * B + first

Init ==
  /\ now \in 0..(B - 1)
  /\ COMPARE = 0 /\ CS = FALSE
  /\ pc = "idle" /\ caller = "read" /\ word = 0 /\ time = 0
  /\ deadline = 0 /\ us = 0 /\ future = 0 /\ began = 0 /\ due = -1

(* A microsecond: a match sets the bit of timer 1. *)
count ==
  /\ now < MaxNow
  /\ pc \in {"cs", "compare"} => now < began + Slack
  /\ now' = now + 1
  /\ CS' = (CS \/ (now + 1) % B = COMPARE)
  /\ UNCHANGED <<COMPARE, pc, caller, word, time, deadline, us, future, began, due>>

(* Timer::read and current_time *)
read ==
  /\ pc = "idle"
  /\ pc' = "first" /\ caller' = "read" /\ began' = now
  /\ UNCHANGED <<now, COMPARE, CS, word, time, deadline, us, future, due>>

(* spin_sleep_us starts with a read for its deadline. *)
spin_sleep_us(d) ==
  /\ pc = "idle"
  /\ pc' = "first" /\ caller' = "deadline" /\ began' = now /\ us' = d
  /\ UNCHANGED <<now, COMPARE, CS, word, time, deadline, future, due>>

read_first ==
  /\ pc = "first"
  /\ word' = register(order[1]) /\ pc' = "second"
  /\ UNCHANGED <<now, COMPARE, CS, caller, time, deadline, us, future, began, due>>

(* The second word completes the value: it is returned, or makes the        *)
(* deadline, or is compared with it, and read again while it is less.       *)
read_second ==
  /\ pc = "second"
  /\ time' = value(word, register(order[2]))
  /\ word' = 0
  /\ deadline' = IF caller = "deadline" THEN time' + us ELSE deadline
  /\ caller' = IF caller = "deadline" THEN "poll" ELSE caller
  /\ pc' = IF caller = "deadline" \/ (caller = "poll" /\ deadline > time')
            THEN "first" ELSE "idle"
  /\ UNCHANGED <<now, COMPARE, CS, us, future, began, due>>

tick_in_drift(d) ==
  /\ pc = "idle"
  /\ future' = (COMPARE + d) % B
  /\ began' = now /\ due' = -1 /\ us' = d /\ pc' = "cs"
  /\ UNCHANGED <<now, COMPARE, CS, caller, word, time, deadline>>

(* Timer::tick_in: future from CLO, the match bit cleared, COMPARE set. *)
tick_in(d) ==
  /\ pc = "idle"
  /\ future' = (CLO + d) % B
  /\ began' = now /\ due' = -1 /\ us' = d /\ pc' = "cs"
  /\ UNCHANGED <<now, COMPARE, CS, caller, word, time, deadline>>

write_cs ==
  /\ pc = "cs"
  /\ CS' = FALSE /\ pc' = "compare"
  /\ UNCHANGED <<now, COMPARE, caller, word, time, deadline, us, future, began, due>>

write_compare ==
  /\ pc = "compare"
  /\ COMPARE' = future /\ due' = began + us /\ pc' = "idle"
  /\ UNCHANGED <<now, CS, caller, word, time, deadline, us, future, began>>

(* At the end of the modelled time nothing more is asked. *)
rest == now = MaxNow /\ UNCHANGED vars

Next == \/ count \/ read \/ read_first \/ read_second \/ write_cs \/ write_compare \/ rest
        \/ \E d \in Delays : spin_sleep_us(d) \/ tick_in(d)

Spec == Init /\ [][Next]_vars
-----------------------------------------------------------------------------
(* The type invariant. *)
TypeOK ==
  /\ now \in 0..MaxNow /\ COMPARE \in 0..(B - 1) /\ CS \in BOOLEAN
  /\ pc \in {"idle", "first", "second", "cs", "compare"}
  /\ caller \in {"read", "deadline", "poll"}
  /\ word \in Nat /\ time \in Nat /\ deadline \in Nat /\ us \in Nat
  /\ future \in 0..(B - 1) /\ began \in 0..now /\ due \in -1..(MaxNow + B)

(* A read never returns a time that has not come yet, although its words    *)
(* are of two instants: a wait that compares with it does not end early on  *)
(* account of the reads it polls.                                           *)
NeverAhead == time <= now

(* A match asked for with tick_in is pending when it is due, and until the  *)
(* next tick_in, across a carry of the low word too.                        *)
MatchInTime == (due # -1 /\ now >= due) => CS

(* The comment on spin_sleep_us: "Spins until `us` microseconds have passed". *)
SpinsLongEnough ==
  [][caller = "poll" /\ pc = "second" /\ pc' = "idle" => now >= began + us]_vars

(* The inductive invariant.  The first word of a read is no later than now. *)
(* While tick_in runs, future is the low word of the time asked for, and    *)
(* that time is still to come; after it, the match is still to come too or  *)
(* has happened.                                                            *)
ReadInv == time <= now /\ (pc = "second" => word <= CHI)

MatchInv ==
  /\ pc \in {"cs", "compare"} => /\ future = (began + us) % B
                                 /\ us > Slack /\ now <= began + Slack
                                 /\ due = -1
  /\ (due # -1 /\ ~CS) => now < due /\ COMPARE = due % B

IInv == /\ now \in Nat /\ time \in Nat /\ word \in Nat /\ CS \in BOOLEAN
        /\ began \in Nat /\ us \in Nat /\ due \in Int
        /\ ReadInv /\ MatchInv
=============================================================================
