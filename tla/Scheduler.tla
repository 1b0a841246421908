------------------------------ MODULE Scheduler ------------------------------
(***************************************************************************)
(* Preemptive round robin: kernel/src/process/{scheduler,process,state}.rs *)
(* with the handlers that call it (kernel/src/traps/{mod,irq,syscall}.rs)  *)
(* and the register save and restore of kernel/ext/init.S.                 *)
(*                                                                         *)
(* The processor is either in a process ("user") or, with interrupts       *)
(* masked, in the loop of Scheduler::switch ("switch").  A poll of one     *)
(* process is one step, and time passes between any two steps.             *)
(*                                                                         *)
(* Time is relative: the timer keeps the microseconds to the next match,   *)
(* and a sleeper the time since its call, up to MaxElapsed.                *)
(***************************************************************************)
EXTENDS Naturals, Sequences, SequencesExt, FiniteSets

CONSTANTS
  Boot,        \* the processes in the order that start adds them
  TICK,        \* microseconds of a time slice
  MS,          \* microseconds of a millisecond (1000 in the code)
  Durations,   \* the milliseconds that processes sleep
  Calls,       \* the system call numbers that processes use
  Values,      \* the values, 0 and 1, that programs put into registers
  MaxElapsed   \* bound: elapsed times from here on are not told apart

Procs == ToSet(Boot)
N     == Len(Boot)

ASSUME BootAssumption == Boot \in Seq(Procs) /\ Boot # <<>> /\ IsInjective(Boot)
ASSUME ValuesAssumption == Values \subseteq {0, 1}
ASSUME TimeAssumption == /\ TICK \in Nat \ {0} /\ MS \in Nat \ {0}
                         /\ Durations \subseteq Nat /\ MaxElapsed \in Nat
                         /\ \A d \in Durations : d * MS < MaxElapsed

VARIABLES
  processes,   \* the queue
  current_id,  \* the number that the next process gets
  state,       \* of each process: "new", "ready" or "waiting"
  start_ago,   \* of a sleeper: time since its call, and what it asked for
  us,
  trap_frame,  \* the saved registers of each process
  cpu,         \* the registers; cpu.of is the process whose code they run
  mode,        \* "boot", "user", "switch" or "panic"
  i,           \* the process that switch polls next, N + 1 for wfi
  cause,       \* the handler that called switch: "irq" or "svc"
  left,        \* time to the match of timer 1
  pending,     \* the match has happened and is not acknowledged
  regs,        \* history: the registers as each process's program left them
  bypassed     \* history: switches to others since a process became ready

time  == <<left, pending>>
ghost == <<regs, bypassed>>
vars  == <<processes, current_id, state, start_ago, us, trap_frame, cpu, mode,
           i, cause, left, pending, regs, bypassed>>

(* The registers of the processor.  x0 and x7 carry the results of a system *)
(* call, q4 and q5 are two vector registers, rest stands for all others, of *)
(* for the code and the stack that elr and sp point to.                     *)
Context == [of : Procs, tpidr : {0, 1}, x0 : 0..(MaxElapsed \div MS), x7 : {0, 7},
            rest : {0, 1}, q4 : {0, 1}, q5 : {0, 1}]

zeroed(p) == [of |-> p, tpidr |-> 0, x0 |-> 0, x7 |-> 0,
              rest |-> 0, q4 |-> 0, q5 |-> 0]

(* What a program keeps in its registers across a step of the kernel. *)
Kept(c) == [rest |-> c.rest, q4 |-> c.q4, q5 |-> c.q5]

(* Line 146 of init.S stores q4 into the slots of q4 and q5. *)
context_save(c) == [c EXCEPT !.q5 = c.q4]

(* Every slot of the frame into its register. *)
context_restore(f) == f

(* What add and the closure of a sleeper write into a frame. *)
with_id(f, pid) == [f EXCEPT !.tpidr = pid]
with_result(f, ms) == [f EXCEPT !.x0 = ms, !.x7 = 0]

Elapsed(t) == IF t < MaxElapsed THEN t ELSE MaxElapsed
-----------------------------------------------------------------------------
(* GlobalScheduler::start before its first add: timer 1 enabled and armed,  *)
(* the queue empty, all processes built by new_process.                     *)
Init ==
  /\ processes = <<>> /\ current_id = 1
  /\ state = [p \in Procs |-> "ready"]
  /\ start_ago = [p \in Procs |-> 0] /\ us = [p \in Procs |-> 0]
  /\ trap_frame = [p \in Procs |-> zeroed(p)]
  /\ cpu = zeroed(Boot[1])
  /\ mode = "boot" /\ i = 1 /\ cause = "irq"
  /\ left = TICK /\ pending = FALSE
  /\ regs = [p \in Procs |-> Kept(zeroed(p))]
  /\ bypassed = [p \in Procs |-> 0]

(* Scheduler::add: the successor of current_id is computed and dropped. *)
add ==
  /\ mode = "boot" /\ Len(processes) < N
  /\ LET p == Boot[Len(processes) + 1] IN
       /\ trap_frame' = [trap_frame EXCEPT ![p] = with_id(@, current_id)]
       /\ processes' = Append(processes, p)
  /\ UNCHANGED <<current_id, state, start_ago, us, cpu, mode, i, cause, time, ghost>>

(* The end of start: the frame of the first process, and eret. *)
start ==
  /\ mode = "boot" /\ Len(processes) = N
  /\ cpu' = context_restore(trap_frame[Boot[1]])
  /\ mode' = "user"
  /\ UNCHANGED <<processes, current_id, state, start_ago, us, trap_frame, i, cause,
                 time, ghost>>

(* The program of the running process changes its registers. *)
user_step ==
  /\ mode = "user"
  /\ \E v \in Values :
       /\ cpu' = [cpu EXCEPT !.x0 = 0, !.x7 = 7, !.rest = v, !.q4 = v, !.q5 = 1 - v]
       /\ regs' = [regs EXCEPT ![cpu.of] = Kept(cpu')]
  /\ UNCHANGED <<processes, current_id, state, start_ago, us, trap_frame, mode, i,
                 cause, time, bypassed>>

(* A microsecond of the system timer, and the match of timer 1. *)
tick ==
  /\ start_ago' = [p \in Procs |-> IF state[p] = "waiting"
                                   THEN Elapsed(start_ago[p] + 1) ELSE start_ago[p]]
  /\ left' = IF left = 0 THEN 0 ELSE left - 1
  /\ pending' = (pending \/ left = 1)
  /\ UNCHANGED <<processes, current_id, state, us, trap_frame, cpu, mode, i, cause,
                 ghost>>

tick_in_unset == left' = left /\ pending' = FALSE

(* tick_in: the match of timer 1 acknowledged and set TICK from now. *)
tick_in == left' = TICK /\ pending' = FALSE

switch_in_place(new_state, by) ==
  /\ trap_frame' = [trap_frame EXCEPT ![Head(processes)] = context_save(cpu)]
  /\ state' = [state EXCEPT ![Head(processes)] = new_state]
  /\ processes' = processes
  /\ mode' = "switch" /\ i' = 1 /\ cause' = by /\ cpu' = zeroed(cpu.of)

switch_late_save(new_state, by) ==
  /\ processes' = Append(Tail(processes), Head(processes))
  /\ trap_frame' = [trap_frame EXCEPT ![Head(processes')] = context_save(cpu)]
  /\ state' = [state EXCEPT ![Head(processes)] = new_state]
  /\ mode' = "switch" /\ i' = 1 /\ cause' = by /\ cpu' = zeroed(cpu.of)

(* Scheduler::switch up to its loop: the frame and new_state into the      *)
(* process at the front, which goes to the back.  The kernel's own values   *)
(* are in the registers from here on.                                       *)
switch(new_state, by) ==
  LET cur == Head(processes) IN
    /\ trap_frame' = [trap_frame EXCEPT ![cur] = context_save(cpu)]
    /\ state' = [state EXCEPT ![cur] = new_state]
    /\ processes' = Append(Tail(processes), cur)
    /\ mode' = "switch" /\ i' = 1 /\ cause' = by /\ cpu' = zeroed(cpu.of)

(* handle_irq: timer 1 has matched, and user code runs with IRQs unmasked. *)
handle_irq ==
  /\ mode = "user" /\ pending
  /\ switch("ready", "irq")
  /\ UNCHANGED <<current_id, start_ago, us, time, ghost>>

(* svc 1 with ms in x0: the start of the sleep is the time of the call. *)
sleep(ms) ==
  /\ mode = "user" /\ 1 \in Calls
  /\ switch("waiting", "svc")
  /\ start_ago' = [start_ago EXCEPT ![Head(processes)] = 0]
  /\ us' = [us EXCEPT ![Head(processes)] = ms * MS]
  /\ UNCHANGED <<current_id, time, ghost>>

(* Any other number: unimplemented! of handle_syscall. *)
unknown_syscall ==
  /\ mode = "user" /\ Calls \ {1} # {}
  /\ mode' = "panic"
  /\ UNCHANGED <<processes, current_id, state, start_ago, us, trap_frame, cpu, i, cause,
                 time, ghost>>

(* panic_fmt spins for ever. *)
panic_fmt == mode = "panic" /\ UNCHANGED vars

(* Process::is_ready: a sleeper is ready once more than us have passed. *)
is_ready(p) == state[p] = "waiting" => start_ago[p] > us[p]

(* The frames after is_ready(p) was true: a sleeper's closure stored the    *)
(* elapsed milliseconds and the status.                                     *)
woken(p) ==
  IF state[p] = "waiting"
  THEN [trap_frame EXCEPT ![p] = with_result(@, start_ago[p] \div MS)]
  ELSE trap_frame

rotated_none(k) == processes

(* Scheduler::next moves the k - 1 processes before the ready one to the   *)
(* back, in their order.                                                    *)
rotated(k) == SubSeq(processes, k, N) \o SubSeq(processes, 1, k - 1)

(* The poll that succeeds: next returns, the frame of the ready process    *)
(* becomes tf, handle_irq rearms the timer, and eret.                      *)
resume ==
  /\ mode = "switch" /\ i <= N /\ is_ready(processes[i])
  /\ LET p == processes[i] IN
       /\ processes' = rotated(i)
       /\ state' = [state EXCEPT ![p] = "ready"]
       /\ start_ago' = [start_ago EXCEPT ![p] = 0]
       /\ us' = [us EXCEPT ![p] = 0]
       /\ trap_frame' = woken(p)
       /\ cpu' = context_restore(trap_frame'[p])
       /\ bypassed' = [q \in Procs |->
            IF q = p \/ state[q] = "waiting" THEN 0
            ELSE IF bypassed[q] < N THEN bypassed[q] + 1 ELSE N]
  /\ mode' = "user" /\ i' = 1
  /\ IF cause = "irq" THEN tick_in ELSE UNCHANGED time
  /\ UNCHANGED <<current_id, cause, regs>>

poll_next_forget ==
  /\ mode = "switch" /\ i <= N /\ ~is_ready(processes[i])
  /\ i' = i + 1
  /\ state' = [state EXCEPT ![processes[i]] = "ready"]
  /\ UNCHANGED <<processes, current_id, start_ago, us, trap_frame, cpu, mode,
                 cause, time, ghost>>

(* The poll that fails: is_ready puts the closure back and the process     *)
(* waits on.                                                               *)
poll_next ==
  /\ mode = "switch" /\ i <= N /\ ~is_ready(processes[i])
  /\ i' = i + 1
  /\ UNCHANGED <<processes, current_id, state, start_ago, us, trap_frame, cpu, mode,
                 cause, time, ghost>>

(* wfi returns once an interrupt is pending, masked or not.  The match is   *)
(* not acknowledged here, so that later calls return at once.               *)
wfi ==
  /\ mode = "switch" /\ i = N + 1 /\ pending
  /\ i' = 1
  /\ UNCHANGED <<processes, current_id, state, start_ago, us, trap_frame, cpu, mode,
                 cause, time, ghost>>

Kernel == add \/ start \/ handle_irq \/ resume \/ poll_next \/ wfi

Next == \/ Kernel \/ user_step \/ tick \/ unknown_syscall \/ panic_fmt
        \/ \E ms \in Durations : sleep(ms)

Spec == Init /\ [][Next]_vars

(* The kernel runs on, an unmasked interrupt is taken, and time passes. *)
FairSpec == Spec /\ WF_vars(Kernel) /\ WF_vars(tick)

-----------------------------------------------------------------------------
Rotation(k) == SubSeq(Boot, k, N) \o SubSeq(Boot, 1, k - 1)

(* The type invariant.  The milliseconds that sleep returns (x0) are no    *)
(* more than the bound on elapsed time allows.                             *)
TypeOK ==
  /\ processes \in Seq(Procs) /\ Len(processes) <= N
  /\ current_id \in {1}
  /\ state \in [Procs -> {"ready", "waiting"}]
  /\ start_ago \in [Procs -> 0..MaxElapsed] /\ us \in [Procs -> 0..MaxElapsed]
  /\ trap_frame \in [Procs -> Context] /\ cpu \in Context
  /\ mode \in {"boot", "user", "switch", "panic"}
  /\ i \in 1..(N + 1) /\ cause \in {"irq", "svc"}
  /\ left \in 0..TICK /\ pending \in BOOLEAN
  /\ regs \in [Procs -> [rest : {0, 1}, q4 : {0, 1}, q5 : {0, 1}]]
  /\ bypassed \in [Procs -> 0..N]

(* However sleeps and time slices end, switch and next leave the queue a    *)
(* rotation of the order in which the processes were added: nobody is       *)
(* lost, duplicated or overtaken.                                           *)
QueueIsRotation ==
  mode # "boot" => \E k \in 1..N : processes = Rotation(k)

(* In user mode the process at the front of the queue, which switch saves   *)
(* the registers into, is the one that runs, and it does not wait.          *)
FrontRuns ==
  mode = "user" => cpu.of = Head(processes) /\ state[cpu.of] = "ready"

(* Whatever happened between, a process that runs finds its registers as    *)
(* its program left them (x0, x7 and q5 apart).                             *)
RegistersSurvive ==
  mode = "user" => cpu.rest = regs[cpu.of].rest /\ cpu.q4 = regs[cpu.of].q4

(* A process that could run is passed over at most N - 1 times. *)
BoundedBypass == \A p \in Procs : bypassed[p] <= N - 1

(* The next tick is always on its way or pending: handle_irq never          *)
(* acknowledges a match without setting the next one.                       *)
TickArmed == pending \/ left > 0

(* sleep returns the status 0 and at least the milliseconds asked for, to   *)
(* the process that asked.                                                  *)
SleepResult ==
  [][\A p \in Procs : state[p] = "waiting" /\ state'[p] # "waiting" =>
       cpu'.of = p /\ cpu'.x7 = 0 /\ cpu'.x0 * MS >= us[p]]_vars

(* Every process runs again and again, unless the kernel panics: preempted  *)
(* ones get their turn, sleepers wake, also when all processes sleep and    *)
(* switch waits in wfi.                                                     *)
NobodyStarves ==
  \A p \in Procs : []<>(mode = "panic" \/ (mode = "user" /\ cpu.of = p))

(* The comment on Process: a structure that represents "the complete state  *)
(* of a process".  Here with q5.                                            *)
AllRegistersSurvive == mode = "user" => Kept(cpu) = regs[cpu.of]

(* The inductive invariant.  Before start the queue is the beginning of    *)
(* Boot.  A frame belongs to its process and holds the registers of every   *)
(* process that is not running.  While switch polls, all processes it has   *)
(* passed wait, and a ready process has been bypassed no more often than    *)
(* it has moved up from the back of the queue.                              *)
Saved(c, p) == c.of = p /\ c.rest = regs[p].rest /\ c.q4 = regs[p].q4

QueueInv ==
  /\ mode = "boot" => /\ \A k \in 1..Len(processes) : processes[k] = Boot[k]
                      /\ \A p \in Procs : state[p] = "ready"
  /\ mode # "boot" => \E k \in 1..N : processes = Rotation(k)
  /\ mode \in {"user", "panic"} => cpu.of = processes[1] /\ state[cpu.of] = "ready"

FrameInv ==
  /\ \A p \in Procs : trap_frame[p].of = p
  /\ \A p \in Procs : ~(mode \in {"user", "panic"} /\ cpu.of = p)
                        => Saved(trap_frame[p], p)
  /\ mode = "user" => Saved(cpu, cpu.of)

BypassInv ==
  /\ \A p \in Procs :
       (mode = "boot" \/ state[p] = "waiting" \/ (mode \in {"user", "panic"} /\ cpu.of = p))
         => bypassed[p] = 0
  /\ mode = "switch" => \A k \in 1..(i - 1) : state[processes[k]] = "waiting"
  /\ mode # "boot" =>
       \A k \in 1..N : bypassed[processes[k]] + k <= N + (IF mode = "switch" THEN 0 ELSE 1)

IInv == TypeOK /\ QueueInv /\ FrameInv /\ BypassInv /\ TickArmed

(* The time that a sleeper waits is a whole number of milliseconds. *)
SleepInv == \A p \in Procs : \E d \in Durations \cup {0} : us[p] = d * MS
=============================================================================
