--------------------------------- MODULE Boot --------------------------------
(***************************************************************************)
(* From power-on to user mode.  The bootloader (bootloader/src/kmain.rs)   *)
(* receives a binary over the serial line and jumps to it; the kernel's    *)
(* kmain then sets up the allocator from the ATAGs that the firmware left  *)
(* (pi/src/atags), the file system and the scheduler with its first two    *)
(* processes.                                                              *)
(*                                                                         *)
(* The XMODEM receiver, the card's driver and the FAT32 library are        *)
(* external: each of their outcomes is possible.                           *)
(***************************************************************************)
EXTENDS Integers, Sequences

CONSTANTS
  MAX_BINARY_SIZE,
  BinaryEnd,    \* the address of _end
  U32,          \* u32 arithmetic is modulo this
  AtagMemories, \* ATAGs in memory: functions from a word offset to a tag
  InitCodes     \* results of sd_init

ASSUME BootAssumption == MAX_BINARY_SIZE \in Nat /\ U32 \in Nat

(* The ATAGs start with CORE, end with NONE, and each is as long as it says. *)
ASSUME AtagsAssumption ==
  \A m \in AtagMemories :
    /\ 0 \in DOMAIN m /\ m[0].tag = "CORE"
    /\ \A o \in DOMAIN m :
         /\ o \in Nat
         /\ m[o].start \in Nat /\ m[o].size \in Nat /\ m[o].start + m[o].size < U32
         /\ m[o].tag # "NONE" =>
              /\ m[o].dwords \in Nat \ {0} /\ o + m[o].dwords \in DOMAIN m
              /\ \A q \in DOMAIN m : q <= o \/ o + m[o].dwords <= q

VARIABLES
  at,        \* what the processor is doing
  image,     \* the memory at BINARY_START: "old", "partial" or "whole"
  received,  \* the n of the last Ok(n)
  atags,     \* the ATAGs in memory
  ptr,       \* Atags.ptr, as a word offset
  heap,      \* the region of ALLOCATOR, or <<>>
  fs,        \* FILE_SYSTEM is Some
  queue,     \* the ids of the scheduler's processes
  cause      \* the message of the panic

loader_vars == <<image, received>>
kernel_vars == <<atags, ptr, heap, fs, queue, cause>>
boot_vars   == <<at, image, received, atags, ptr, heap, fs, queue, cause>>

BootInit ==
  /\ at = "listen" /\ image = "old" /\ received = 0
  /\ atags \in AtagMemories /\ ptr = 0
  /\ heap = <<>> /\ fs = FALSE /\ queue = <<>> /\ cause = "none"

goto(from, to) == at = from /\ at' = to
-----------------------------------------------------------------------------
(* The bootloader: a new MiniUart, and its first byte. *)
read_first_byte == goto("listen", "receive") /\ UNCHANGED <<loader_vars, kernel_vars>>

(* Xmodem::receive stores a packet in place ... *)
receive_packet ==
  /\ goto("receive", "receive") /\ image' = "partial"
  /\ UNCHANGED <<received, kernel_vars>>

receive_ok_any(n) ==   \* mutant: the length is not looked at
  /\ goto("receive", "jump")
  /\ image' = IF n > 0 THEN "whole" ELSE image
  /\ received' = n
  /\ UNCHANGED kernel_vars

(* ... and returns Ok(n), *)
receive_ok(n) ==
  /\ goto("receive", IF n > 0 /\ n < MAX_BINARY_SIZE THEN "jump" ELSE "listen")
  /\ image' = IF n > 0 THEN "whole" ELSE image
  /\ received' = n
  /\ UNCHANGED kernel_vars

(* or TimedOut, after which the loop starts again, *)
receive_timed_out == goto("receive", "listen") /\ UNCHANGED <<loader_vars, kernel_vars>>

(* or another error, which is printed for ever. *)
receive_err == goto("receive", "failed") /\ UNCHANGED <<loader_vars, kernel_vars>>

print_err == goto("failed", "failed") /\ UNCHANGED <<loader_vars, kernel_vars>>

jump_to == goto("jump", "kmain") /\ UNCHANGED <<loader_vars, kernel_vars>>
-----------------------------------------------------------------------------
panic(from, message) ==
  /\ goto(from, "panic") /\ cause' = message
  /\ UNCHANGED <<loader_vars, atags, ptr, heap, fs, queue>>

panic_loop == goto("panic", "panic") /\ UNCHANGED <<loader_vars, kernel_vars>>

(* What kmain calls next. *)
after(s) == [kmain |-> "atags", allocator |-> "sd", fs |-> "scheduler"][s]

(* spin_sleep_ms(1000), and Atags::get. *)
kmain ==
  /\ goto("kmain", after("kmain")) /\ ptr' = 0
  /\ UNCHANGED <<loader_vars, atags, heap, fs, queue, cause>>

raw_next_stuck(p) == p   \* mutant: the length of the tag is not added

raw_next(p) == p + atags[p].dwords

(* Iterator::next in the find of memory_map: on to the next tag, which is   *)
(* converted.                                                               *)
atags_next ==
  LET q == raw_next(ptr) IN
  /\ atags[ptr].tag # "NONE"
  /\ atags[q].tag # "CMDLINE" \/ atags[q].utf8
  /\ goto("atags", IF atags[q].tag = "MEM" THEN "allocator" ELSE "atags")
  /\ ptr' = q
  /\ UNCHANGED <<loader_vars, atags, heap, fs, queue, cause>>

atags_cmdline ==
  LET q == raw_next(ptr) IN
  /\ atags[ptr].tag # "NONE"
  /\ atags[q].tag = "CMDLINE" /\ ~ atags[q].utf8
  /\ panic("atags", "utf8 conversion failed")

atags_end == atags[ptr].tag = "NONE" /\ panic("atags", "failed to find memory map")

physical_end_size ==   \* mutant: the start of the memory is not added
  atags[ptr].size

physical_end == (atags[ptr].start + atags[ptr].size) % U32

(* imp::Allocator::new, of module BinAllocator. *)
allocator_new ==
  /\ goto("allocator", after("allocator"))
  /\ heap' = <<BinaryEnd, physical_end>>
  /\ UNCHANGED <<loader_vars, atags, ptr, fs, queue, cause>>

(* FileSystem::initialize: Sd::new ... *)
sd_new(code) ==
  /\ code >= 0 /\ goto("sd", "vfat")
  /\ UNCHANGED <<loader_vars, kernel_vars>>

sd_new_err(code) == code < 0 /\ panic("sd", "sd init")

(* Allocator::alloc in the middle of A, with its expect. *)
allocating(s, A) ==
  IF heap = <<>> THEN panic(s, "allocator uninitialized") ELSE A

(* ... and VFat::from, which allocates. *)
vfat_from ==
  allocating("vfat",
    /\ goto("vfat", after("fs")) /\ fs' = TRUE
    /\ UNCHANGED <<loader_vars, atags, ptr, heap, queue, cause>>)

vfat_from_err == allocating("vfat", panic("vfat", "vfat init"))

(* GlobalScheduler::start creates two processes, which get the same id: add *)
(* does not store the next one.                                             *)
new_process ==
  allocating("scheduler",
    /\ goto("scheduler", IF Len(queue) = 1 THEN "user" ELSE "scheduler")
    /\ queue' = Append(queue, 1)
    /\ UNCHANGED <<loader_vars, atags, ptr, heap, fs, cause>>)

new_process_err == allocating("scheduler", panic("scheduler", "first process"))

(* FileSystem::open, from a shell. *)
open ==
  IF fs THEN goto("user", "user") /\ UNCHANGED <<loader_vars, kernel_vars>>
        ELSE panic("user", "file system uninitialized")

kernel_step ==
  \/ kmain \/ atags_next \/ atags_cmdline \/ atags_end \/ allocator_new
  \/ \E c \in InitCodes : sd_new(c) \/ sd_new_err(c)
  \/ vfat_from \/ vfat_from_err \/ new_process \/ new_process_err

BootNext ==
  \/ read_first_byte \/ receive_packet
  \/ \E n \in 0..MAX_BINARY_SIZE : receive_ok(n)
  \/ receive_timed_out \/ receive_err \/ print_err \/ jump_to
  \/ kernel_step
  \/ open \/ panic_loop

BootSpec == BootInit /\ [][BootNext]_boot_vars
-----------------------------------------------------------------------------
(* The bootloader jumps only to a binary that was received to its end and   *)
(* left room: whatever was received or broken off before.                   *)
JumpsToWholeBinary ==
  at \notin {"listen", "receive", "failed"} =>
    image = "whole" /\ received \in 1..(MAX_BINARY_SIZE - 1)

(* Nothing is used before it is initialized: the allocator's and the file   *)
(* system's "uninitialized" panics never happen.                            *)
InitializedBeforeUse ==
  /\ at = "panic" => cause \in {"utf8 conversion failed", "failed to find memory map",
                                "sd init", "vfat init", "first process"}
  /\ at = "user" => heap # <<>> /\ fs

(* The heap is the memory between the kernel and the end of the first MEM   *)
(* tag, wherever that is among the others.                                  *)
HeapIsMemory ==
  heap # <<>> =>
    \E o \in DOMAIN atags :
      /\ atags[o].tag = "MEM" /\ \A q \in DOMAIN atags : q < o => atags[q].tag # "MEM"
      /\ heap = <<BinaryEnd, atags[o].start + atags[o].size>>

(* A kernel that was started reaches user mode or stops with a message: the *)
(* walk over the ATAGs ends.                                                *)
KernelStarts == at = "kmain" ~> at \in {"user", "panic"}
=============================================================================
