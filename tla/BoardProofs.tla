----------------------------- MODULE BoardProofs -----------------------------
(***************************************************************************)
(* Proofs about modules Bump, Sd, Traps, Boot, Gpio and Timer: for every   *)
(* region and set of layouts, every set of reading processes, every set of *)
(* interrupt lines, every well-formed list of ATAGs, every set of pins and *)
(* content of their registers, and every width of the counter's words.     *)
(***************************************************************************)
EXTENDS Bump, Sd, Traps, Boot, Gpio, Timer, TLAPS

-----------------------------------------------------------------------------
(* The bump allocator. *)

(* No sum of an address and an alignment or a size saturates. *)
LEMMA Words == UMax \in Nat /\ MaxPower \in Nat /\ UMax >= MaxPower + MaxPower - 1
BY UMaxAssumption, BumpWordAssumption, SMT DEF MaxPower

(* The powers of two are naturals up to the largest address. *)
LEMMA Powers == \A p \in PowersOfTwo : p \in Nat /\ 1 <= p /\ p <= MaxPower
BY SMTT(60) DEF PowersOfTwo, MaxPower

(* align_down returns a multiple. *)
LEMMA AlignDown ==
  ASSUME NEW x \in Nat, NEW h \in PowersOfTwo
  PROVE  align_down(x, h) % h = 0
BY SMTT(60) DEF align_down, PowersOfTwo, MaxPower

(* align_up does not saturate on an address of the board: it returns a      *)
(* multiple that is not below the address.                                  *)
LEMMA AlignUp ==
  ASSUME NEW a \in 0..(MaxPower - 1), NEW h \in PowersOfTwo
  PROVE  /\ align_up(a, h) \in Nat /\ a <= align_up(a, h)
         /\ align_up(a, h) < MaxPower + MaxPower
         /\ align_up(a, h) % h = 0
<1> DEFINE x == a + h - 1
<1>1. h \in Nat /\ 1 <= h /\ h <= MaxPower
  BY Powers
<1>2. x \in Nat /\ x < MaxPower + MaxPower
  BY <1>1, Words
<1>3. saturating_sub(saturating_add(a, h), 1) = x
  <2>1. a + h \in Nat /\ ~ (a + h > UMax) /\ ~ (a + h < 1)
    BY <1>1, Words
  <2>2. saturating_add(a, h) = a + h
    BY <2>1 DEF saturating_add
  <2> QED BY <1>1, <2>1, <2>2 DEF saturating_sub
<1> HIDE DEF x
<1>4. align_up(a, h) = align_down(x, h) /\ align_up(a, h) = x - (x % h)
  BY <1>3 DEF align_up, align_down
<1>5. x % h \in 0..(h - 1)
  BY <1>1, <1>2
<1>6. align_up(a, h) \in Nat /\ a <= align_up(a, h) /\ align_up(a, h) <= x
  BY <1>1, <1>2, <1>4, <1>5 DEF x
<1>7. align_up(a, h) < MaxPower + MaxPower
  BY <1>2, <1>6, Words
<1> QED BY <1>2, <1>4, <1>6, <1>7, AlignDown, Zenon

(* The invariant of the bump allocator is inductive; an allocation is one   *)
(* of the contract.                                                         *)
LEMMA BumpAllocates ==
  ASSUME BumpInv, NEW l \in BumpLayouts, bump_alloc(l)
  PROVE  BumpInv' /\ BumpContract!Allocate(l)
<1> DEFINE a == align_up(current, l.align)
           b == Block(a, l)
<1>1. /\ l.size \in 1..MaxPower /\ l.align \in PowersOfTwo
      /\ BumpStart \in 0..(MaxPower - 1) /\ BumpEnd \in 0..(MaxPower - 1)
  BY BumpAssumption, Zenon
<1>2. current \in 0..(MaxPower - 1)
  BY <1>1, Words DEF BumpInv
<1>3. a \in Nat /\ current <= a /\ a < MaxPower + MaxPower /\ a % l.align = 0
  BY <1>1, <1>2, AlignUp
<1> HIDE DEF a
<1>4. /\ saturating_add(a, l.size) <= BumpEnd
      /\ current' = saturating_add(a, l.size)
      /\ owned' = owned \union {b}
  BY DEF bump_alloc, a
<1>5. saturating_add(a, l.size) = a + l.size
  BY <1>1, <1>3, <1>4, Words DEF saturating_add
<1>6. current' = a + l.size /\ a + l.size <= BumpEnd
  BY <1>4, <1>5
<1>7. b.addr = a /\ b.len = l.size /\ b.size = l.size /\ b.align = l.align
  BY DEF Block
<1> HIDE DEF b
<1>8. BumpInv'
  <2>1. current' \in Nat /\ BumpStart <= current' /\ current' <= BumpEnd
    BY <1>1, <1>3, <1>6 DEF BumpInv
  <2>2. ASSUME NEW c \in owned' PROVE c.addr \in Nat /\ c.len \in Nat /\ c.addr + c.len <= current'
    <3>1. CASE c \in owned BY <1>1, <1>2, <1>3, <1>6, <3>1 DEF BumpInv
    <3>2. CASE c = b BY <1>1, <1>3, <1>6, <1>7, <3>2
    <3> QED BY <1>4, <2>2, <3>1, <3>2
  <2> QED BY <2>1, <2>2 DEF BumpInv
<1>9. BumpContract!Suits(b, l)
  BY <1>1, <1>2, <1>3, <1>6, <1>7 DEF BumpContract!Suits, BumpInv
<1>10. \A c \in owned : BumpContract!Apart(b, c)
  BY <1>1, <1>2, <1>3, <1>7 DEF BumpContract!Apart, BumpInv
<1> QED BY <1>4, <1>8, <1>9, <1>10 DEF BumpContract!Allocate

(* All memory that alloc ever handed out and nobody gave back is below      *)
(* current (bump.rs 42-52).                                                 *)
THEOREM BumpInvariant == BumpSpec => []BumpInv
<1>1. BumpInit => BumpInv
  BY BumpAssumption DEF BumpInit, bump_new, BumpInv
<1>2. BumpInv /\ [BumpNext]_bump_vars => BumpInv'
  <2> SUFFICES ASSUME BumpInv, [BumpNext]_bump_vars PROVE BumpInv'
    OBVIOUS
  <2>1. ASSUME NEW l \in BumpLayouts, bump_alloc(l) PROVE BumpInv'
    BY <2>1, BumpAllocates
  <2>2. CASE UNCHANGED bump_vars
    BY <2>2 DEF BumpInv, bump_vars
  <2>3. ASSUME NEW b \in owned, bump_dealloc(b) PROVE BumpInv'
    BY <2>3 DEF BumpInv, bump_dealloc
  <2> QED BY <2>1, <2>2, <2>3 DEF BumpNext, bump_exhausted
<1> QED BY <1>1, <1>2, PTL DEF BumpSpec

(* The bump allocator keeps the contract of allocator/mod.rs on every       *)
(* region of the board (bump.rs alloc and dealloc).                         *)
THEOREM BumpRefinesHeap == BumpSpec => BumpImplementsHeap
<1>1. BumpInit => BumpContract!Init
  BY DEF BumpInit, bump_new, BumpContract!Init
<1>2. BumpInv /\ [BumpNext]_bump_vars => [BumpContract!Next]_owned
  <2> SUFFICES ASSUME BumpInv, [BumpNext]_bump_vars PROVE [BumpContract!Next]_owned
    OBVIOUS
  <2>1. ASSUME NEW l \in BumpLayouts, bump_alloc(l) PROVE BumpContract!Next
    BY <2>1, BumpAllocates DEF BumpContract!Next
  <2>2. CASE UNCHANGED bump_vars
    BY <2>2 DEF bump_vars
  <2>3. ASSUME NEW b \in owned, bump_dealloc(b) PROVE BumpContract!Next
    BY <2>3 DEF bump_dealloc, BumpContract!Next, BumpContract!Free
  <2> QED BY <2>1, <2>2, <2>3 DEF BumpNext, bump_exhausted
<1> QED BY <1>1, <1>2, BumpInvariant, PTL DEF BumpSpec, BumpImplementsHeap, BumpContract!Spec
-----------------------------------------------------------------------------
(* The card. *)

(* A process whose read failed finds a code in sd_err that was stored since. *)
SdInv ==
  /\ stage \in [Readers -> {"idle", "driver", "failed", "panic"}]
  /\ sd_err \in {0} \union Codes
  /\ outcome \in [Readers -> {"none", "InvalidInput", "Ok", "TimedOut", "Other", "unreachable"}]
  /\ since \in [Readers -> SUBSET Codes]
  /\ \A p \in Readers : stage[p] = "failed" => sd_err \in since[p]

(* A negative code is the same as an i32, and Error::from has a kind for it. *)
LEMMA CodeKinds ==
  ASSUME NEW c \in Codes
  PROVE  Explains(c, error_from(as_i32(c)))
<1>1. c \in Int /\ -Half <= c /\ c <= -1 /\ Half \in Nat /\ Half # 0
  BY SdAssumption
<1>2. (c + Half) % (2 * Half) = c + Half
  BY <1>1
<1>3. as_i32(c) = c
  BY <1>1, <1>2 DEF as_i32
<1> QED BY <1>1, <1>3 DEF Explains, error_from

(* The numbers that pass the test are the same as an i32. *)
LEMMA SectorFits ==
  ASSUME NEW s \in Nat, NEW len, fits(s, len)
  PROVE  as_i32(s) = s
<1>1. s < Half /\ Half \in Nat
  BY SdAssumption DEF fits
<1>2. (s + Half) % (2 * Half) = s + Half
  BY <1>1
<1> QED BY <1>1, <1>2 DEF as_i32

(* Of two reads that fail, the second one overwrites the first one's code,   *)
(* and both find one that was stored since they failed (sd.rs 87-89).        *)
THEOREM SdInvariant == SdSpec => []SdInv
<1>1. SdInit => SdInv
  BY DEF SdInit, SdInv
<1>2. SdInv /\ [SdNext]_sd_vars => SdInv'
  <2> SUFFICES ASSUME SdInv, [SdNext]_sd_vars PROVE SdInv'
    OBVIOUS
  <2> USE DEF SdInv
  <2>1. ASSUME NEW p \in Readers, NEW s \in Sectors, NEW len \in Sizes, read_sector(p, s, len)
        PROVE  SdInv'
    BY <2>1 DEF read_sector
  <2>2. ASSUME NEW p \in Readers, sd_readsector(p) PROVE SdInv'
    BY <2>2 DEF sd_readsector
  <2>3. ASSUME NEW p \in Readers, NEW c \in Codes, sd_readsector_err(p, c) PROVE SdInv'
    BY <2>3 DEF sd_readsector_err
  <2>4. ASSUME NEW p \in Readers, load_sd_err(p) PROVE SdInv'
    BY <2>4 DEF load_sd_err, error_from
  <2>5. CASE UNCHANGED sd_vars
    BY <2>5 DEF sd_vars
  <2> QED BY <2>1, <2>2, <2>3, <2>4, <2>5 DEF SdNext
<1> QED BY <1>1, <1>2, PTL DEF SdSpec

(* Whatever reads fail in between, read_sector reports an error that a read *)
(* had from its own failure on (sd.rs 88-98).                               *)
THEOREM ErrorsAreExplained == SdSpec => ReportsAnError
<1>1. SdInv /\ [SdNext]_sd_vars =>
        [\A p \in Readers : stage[p] = "failed" /\ stage'[p] # "failed"
           => \E c \in since[p] : Explains(c, outcome'[p])]_sd_vars
  <2> SUFFICES ASSUME SdInv, SdNext, NEW p \in Readers,
                      stage[p] = "failed", stage'[p] # "failed"
               PROVE  \E c \in since[p] : Explains(c, outcome'[p])
    BY DEF sd_vars
  <2>1. load_sd_err(p)
    BY DEF SdNext, SdInv, read_sector, sd_readsector, sd_readsector_err, load_sd_err
  <2>2. outcome'[p] = error_from(as_i32(sd_err))
    BY <2>1 DEF load_sd_err, SdInv
  <2>3. sd_err \in since[p] /\ sd_err \in Codes
    BY DEF SdInv
  <2> QED BY <2>2, <2>3, CodeKinds
<1> QED BY <1>1, SdInvariant, PTL DEF SdSpec, ReportsAnError

(* The cast of the sector number to an i32 loses nothing (sd.rs 83-87). *)
THEOREM SectorsAreKept == SdSpec => []SectorKept
<1> DEFINE Inv == /\ SectorKept
                  /\ stage \in [Readers -> {"idle", "driver", "failed", "panic"}]
                  /\ sector \in [Readers -> Nat] /\ argument \in [Readers -> Int]
<1>1. SdInit => Inv
  BY DEF SdInit, SectorKept
<1>2. Inv /\ [SdNext]_sd_vars => Inv'
  <2> SUFFICES ASSUME Inv, [SdNext]_sd_vars PROVE Inv'
    OBVIOUS
  <2>1. ASSUME NEW p \in Readers, NEW s \in Sectors, NEW len \in Sizes, read_sector(p, s, len)
        PROVE  Inv'
    <3>1. s \in Nat BY SdAssumption
    <3>2. CASE fits(s, len)
      BY <2>1, <3>1, <3>2, SectorFits DEF read_sector, SectorKept
    <3>3. CASE ~ fits(s, len)
      BY <2>1, <3>3 DEF read_sector, SectorKept
    <3> QED BY <3>2, <3>3
  <2>2. ASSUME NEW p \in Readers, sd_readsector(p) PROVE Inv'
    BY <2>2 DEF sd_readsector, SectorKept
  <2>3. ASSUME NEW p \in Readers, NEW c \in Codes, sd_readsector_err(p, c) PROVE Inv'
    BY <2>3 DEF sd_readsector_err, SectorKept
  <2>4. ASSUME NEW p \in Readers, load_sd_err(p) PROVE Inv'
    BY <2>4 DEF load_sd_err, SectorKept
  <2>5. CASE UNCHANGED sd_vars
    BY <2>5 DEF sd_vars, SectorKept
  <2> QED BY <2>1, <2>2, <2>3, <2>4, <2>5 DEF SdNext
<1> QED BY <1>1, <1>2, PTL DEF SdSpec
-----------------------------------------------------------------------------
(* Exceptions. *)

(* The timer's is the only line that is enabled, it stays raised until its  *)
(* handler has looked, and ESR decodes unless its exception is at hand.     *)
TrapsInv ==
  /\ mode \in {"boot", "user", "handler", "panic"}
  /\ enabled \subseteq {Timer1}
  /\ mode = "handler" /\ kind = "Irq" => Timer1 \in raised \intersect enabled
  /\ mode = "boot" => ~ decode_panics(esr.class)
  /\ mode = "user" => ~ decode_panics(esr.class)
  /\ mode = "handler" /\ kind = "Irq" => ~ decode_panics(esr.class)
  /\ InterruptsAreHandled

(* The line of a register's bit. *)
LEMMA TimerLine == line(index_and_offset(Timer1)) = Timer1
<1>1. Timer1 \div 32 = 0 /\ Timer1 % 32 = 1
  BY DEF Timer1
<1> QED BY <1>1 DEF line, index_and_offset, Timer1

(* Syndrome::from panics for one class, a data abort in the kernel itself. *)
LEMMA DecodePanics == \A c \in 0..63 : decode_panics(c) => c = 37
<1>1. 100101 % 256 = 5
  BY SMT
<1> QED BY <1>1, SMT DEF decode_panics, fault_panics

(* An interrupt never stops the kernel (traps/mod.rs 52-69, interrupt.rs,   *)
(* syndrome.rs): not its dispatch, and not the decoding of a syndrome that  *)
(* is not its own.                                                          *)
THEOREM InterruptsNeverPanic == TrapsSpec => []InterruptsAreHandled
<1> USE DEF TrapsInv, InterruptsAreHandled
<1>1. TrapsInit => TrapsInv
  <2> SUFFICES ASSUME TrapsInit PROVE TrapsInv
    OBVIOUS
  <2>1. esr.class \in AtReset
    BY DEF TrapsInit
  <2>2. esr.class \in 0..63 /\ esr.class # 37
    BY <2>1, ResetAssumption, Zenon
  <2>3. ~ decode_panics(esr.class)
    BY <2>2, DecodePanics
  <2> QED BY <2>3 DEF TrapsInit
<1>2. TrapsInv /\ [TrapsNext]_trap_vars => TrapsInv'
  <2> SUFFICES ASSUME TrapsInv, [TrapsNext]_trap_vars PROVE TrapsInv'
    OBVIOUS
  <2>1. CASE start
    BY <2>1, TimerLine DEF start, enable, decode_panics
  <2>2. CASE irq
    BY <2>2 DEF irq, exception, decode_panics
  <2>3. CASE serror
    BY <2>3 DEF serror, exception
  <2>4. CASE handle_exception
    <3>1. CASE kind = "Irq"
      <4>1. ~ decode_panics(esr.class) /\ is_pending(Timer1)
        BY <2>4, <3>1, TimerLine DEF handle_exception, is_pending
      <4>2. arm = "switch"
        BY <3>1, <4>1 DEF arm
      <4>3. mode' = "user"
        BY <2>4, <4>1, <4>2 DEF handle_exception
      <4> QED BY <2>4, <4>1, <4>3 DEF handle_exception, decode_panics
    <3>2. CASE kind # "Irq"
      <4>1. mode' = "user" => ~ decode_panics(esr.class)
        BY <2>4 DEF handle_exception
      <4> QED BY <2>4, <3>2, <4>1 DEF handle_exception, decode_panics
    <3> QED BY <3>1, <3>2
  <2>5. ASSUME NEW i \in Lines, raise(i) PROVE TrapsInv'
    BY <2>5 DEF raise, decode_panics
  <2>6. ASSUME NEW c \in Classes, NEW n \in Calls, synchronous(c, n) PROVE TrapsInv'
    BY <2>6 DEF synchronous, exception
  <2>7. CASE UNCHANGED trap_vars
    BY <2>7 DEF trap_vars, decode_panics
  <2> QED BY <2>1, <2>2, <2>3, <2>4, <2>5, <2>6, <2>7 DEF TrapsNext, panic_fmt
<1> QED BY <1>1, <1>2, PTL DEF TrapsSpec
-----------------------------------------------------------------------------
(* The start. *)

Loading == {"listen", "receive", "failed"}
Started == {"kmain", "atags", "allocator", "sd", "vfat", "scheduler", "user", "panic"}

(* The bootloader's part, the order of kmain, and what the walk over the    *)
(* ATAGs has passed: ptr is at a tag, and none before it is a MEM.          *)
BootInv ==
  /\ at \in Loading \union {"jump"} \union Started
  /\ atags \in AtagMemories
  /\ JumpsToWholeBinary
  /\ at \in {"sd", "vfat", "scheduler", "user"} => heap # <<>>
  /\ at \in {"scheduler", "user"} => fs
  /\ InitializedBeforeUse
  /\ ptr \in DOMAIN atags
  /\ \A q \in DOMAIN atags : q < ptr => atags[q].tag # "MEM"
  /\ at = "atags" => atags[ptr].tag # "MEM"
  /\ at = "allocator" => atags[ptr].tag = "MEM"
  /\ HeapIsMemory

(* Where tags are, and what they hold. *)
LEMMA Tags ==
  ASSUME BootInv
  PROVE  /\ 0 \in DOMAIN atags /\ atags[0].tag = "CORE"
         /\ \A q \in DOMAIN atags :
              /\ q \in Nat /\ atags[q].start \in Nat /\ atags[q].size \in Nat
              /\ atags[q].start + atags[q].size < U32
BY AtagsAssumption DEF BootInv

(* One step of the walk: the next tag is in memory, and what it passes is   *)
(* the tag that ptr was at.                                                 *)
LEMMA Walk ==
  ASSUME BootInv, atags[ptr].tag # "NONE"
  PROVE  /\ raw_next(ptr) \in DOMAIN atags
         /\ \A q \in DOMAIN atags : q < raw_next(ptr) => q <= ptr
<1>1. atags \in AtagMemories /\ ptr \in DOMAIN atags
  BY DEF BootInv
<1>2. /\ \A q \in DOMAIN atags : q \in Nat
      /\ atags[ptr].dwords \in Nat \ {0} /\ ptr + atags[ptr].dwords \in DOMAIN atags
      /\ \A q \in DOMAIN atags : q <= ptr \/ ptr + atags[ptr].dwords <= q
  BY <1>1, AtagsAssumption
<1> QED BY <1>1, <1>2 DEF raw_next

(* The stages of the bootloader and of kmain come in order, and the walk of *)
(* memory_map stays on the tags and skips none (bootloader/src/kmain.rs,     *)
(* kernel/src/kmain.rs, atags).                                              *)
THEOREM BootInvariant == BootSpec => []BootInv
<1> USE DEF Loading, Started
<1>1. BootInit => BootInv
  <2> SUFFICES ASSUME BootInit PROVE BootInv
    OBVIOUS
  <2>1. 0 \in DOMAIN atags /\ \A q \in DOMAIN atags : q \in Nat
    BY AtagsAssumption DEF BootInit
  <2> QED BY <2>1 DEF BootInit, BootInv, JumpsToWholeBinary, InitializedBeforeUse, HeapIsMemory
<1>2. BootInv /\ [BootNext]_boot_vars => BootInv'
  <2> SUFFICES ASSUME BootInv, [BootNext]_boot_vars PROVE BootInv'
    OBVIOUS
  <2> USE DEF goto, loader_vars, kernel_vars
  <2>1. CASE read_first_byte \/ receive_packet \/ receive_timed_out \/ receive_err \/ print_err
    BY <2>1 DEF read_first_byte, receive_packet, receive_timed_out, receive_err, print_err,
         BootInv, JumpsToWholeBinary, InitializedBeforeUse, HeapIsMemory
  <2>2. ASSUME NEW n \in 0..MAX_BINARY_SIZE, receive_ok(n) PROVE BootInv'
    BY <2>2, BootAssumption DEF receive_ok, BootInv, JumpsToWholeBinary, InitializedBeforeUse, HeapIsMemory
  <2>3. CASE jump_to
    BY <2>3 DEF jump_to, BootInv, JumpsToWholeBinary, InitializedBeforeUse, HeapIsMemory
  <2>4. CASE kmain
    BY <2>4, Tags DEF kmain, after, BootInv, JumpsToWholeBinary, InitializedBeforeUse, HeapIsMemory
  <2>5. CASE atags_next
    <3>1. /\ at = "atags" /\ at' \in {"atags", "allocator"}
          /\ at' = "allocator" <=> atags[ptr'].tag = "MEM"
          /\ ptr' = raw_next(ptr)
          /\ UNCHANGED <<image, received, atags, heap, fs, queue, cause>>
      BY <2>5 DEF atags_next
    <3>2. ptr' \in DOMAIN atags /\ \A q \in DOMAIN atags : q < ptr' => q <= ptr
      BY <2>5, <3>1, Walk DEF atags_next
    <3>3. ASSUME NEW q \in DOMAIN atags, q < ptr' PROVE atags[q].tag # "MEM"
      <4>1. q < ptr \/ q = ptr
        BY <3>2, <3>3, Tags DEF BootInv
      <4> QED BY <3>1, <4>1 DEF BootInv
    <3> QED BY <3>1, <3>2, <3>3 DEF BootInv, JumpsToWholeBinary, InitializedBeforeUse, HeapIsMemory
  <2>6. CASE atags_cmdline \/ atags_end
    BY <2>6 DEF atags_cmdline, atags_end, panic, BootInv, JumpsToWholeBinary,
         InitializedBeforeUse, HeapIsMemory
  <2>7. CASE allocator_new
    <3>1. /\ at = "allocator" /\ at' = "sd" /\ heap' = <<BinaryEnd, physical_end>>
          /\ UNCHANGED <<image, received, atags, ptr, fs, queue, cause>>
      BY <2>7 DEF allocator_new, after
    <3>2. physical_end = atags[ptr].start + atags[ptr].size
      <4>1. /\ atags[ptr].start \in Nat /\ atags[ptr].size \in Nat
            /\ atags[ptr].start + atags[ptr].size < U32 /\ U32 \in Nat
        BY Tags, BootAssumption DEF BootInv
      <4> QED BY <4>1 DEF physical_end
    <3>3. HeapIsMemory'
      BY <3>1, <3>2 DEF HeapIsMemory, BootInv
    <3> QED BY <3>1, <3>3 DEF BootInv, JumpsToWholeBinary, InitializedBeforeUse
  <2>8. ASSUME NEW c \in InitCodes, sd_new(c) \/ sd_new_err(c) PROVE BootInv'
    BY <2>8 DEF sd_new, sd_new_err, panic, BootInv, JumpsToWholeBinary,
         InitializedBeforeUse, HeapIsMemory
  <2>9. CASE vfat_from \/ vfat_from_err
    BY <2>9 DEF vfat_from, vfat_from_err, allocating, after, panic, BootInv,
         JumpsToWholeBinary, InitializedBeforeUse, HeapIsMemory
  <2>10. CASE new_process \/ new_process_err
    BY <2>10 DEF new_process, new_process_err, allocating, panic, BootInv,
         JumpsToWholeBinary, InitializedBeforeUse, HeapIsMemory
  <2>11. CASE open \/ panic_loop \/ UNCHANGED boot_vars
    BY <2>11 DEF open, panic_loop, boot_vars, panic, BootInv, JumpsToWholeBinary,
         InitializedBeforeUse, HeapIsMemory
  <2> QED BY <2>1, <2>2, <2>3, <2>4, <2>5, <2>6, <2>7, <2>8, <2>9, <2>10, <2>11
        DEF BootNext, kernel_step
<1> QED BY <1>1, <1>2, PTL DEF BootSpec

(* The bootloader starts no binary that broke off, was empty or was too     *)
(* long (bootloader/src/kmain.rs 42-55).                                    *)
THEOREM OnlyWholeBinariesRun == BootSpec => []JumpsToWholeBinary
<1>1. BootInv => JumpsToWholeBinary
  BY DEF BootInv
<1> QED BY <1>1, BootInvariant, PTL

(* kmain initializes the allocator and the file system before anything      *)
(* uses them (kernel/src/kmain.rs 68-73).                                   *)
THEOREM NothingUsedTooEarly == BootSpec => []InitializedBeforeUse
<1>1. BootInv => InitializedBeforeUse
  BY DEF BootInv
<1> QED BY <1>1, BootInvariant, PTL

(* memory_map finds the first MEM tag among any others, and the heap ends   *)
(* where that memory does (allocator/mod.rs 98-109).                        *)
THEOREM HeapIsTheMemory == BootSpec => []HeapIsMemory
<1>1. BootInv => HeapIsMemory
  BY DEF BootInv
<1> QED BY <1>1, BootInvariant, PTL
-----------------------------------------------------------------------------
(* The pins. *)

(* Quotient and remainder. *)
LEMMA Quotient ==
  ASSUME NEW P \in Nat \ {0}, NEW n \in Nat
  PROVE  n \div P \in Nat /\ n % P \in 0..(P - 1) /\ n = P * (n \div P) + (n % P)
BY SMT

(* The quotient is unique. *)
LEMMA QuotientIs ==
  ASSUME NEW P \in Nat \ {0}, NEW n \in Nat, NEW q \in Int, NEW r \in 0..(P - 1), n = P * q + r
  PROVE  n \div P = q
<1> DEFINE k == n \div P
           s == n % P
<1>1. k \in Nat /\ s \in 0..(P - 1) /\ n = P * k + s
  BY Quotient
<1> HIDE DEF k, s
<1>2. ~(k > q)
  <2> SUFFICES ASSUME k > q PROVE FALSE
    OBVIOUS
  <2>1. P * k = P * q + P + P * (k - q - 1) /\ P * (k - q - 1) >= 0
    BY <1>1, SMT
  <2>2. P * k \in Int /\ P * q \in Int /\ P * (k - q - 1) \in Int
    BY <1>1, SMT
  <2>3. QED
    BY <1>1, <2>1, <2>2
<1>3. ~(q > k)
  <2> SUFFICES ASSUME q > k PROVE FALSE
    OBVIOUS
  <2>1. P * q = P * k + P + P * (q - k - 1) /\ P * (q - k - 1) >= 0
    BY <1>1, SMT
  <2>2. P * k \in Int /\ P * q \in Int /\ P * (q - k - 1) \in Int
    BY <1>1, SMT
  <2>3. QED
    BY <1>1, <2>1, <2>2
<1>4. k = q
  BY <1>1, <1>2, <1>3
<1>5. QED
  BY <1>4 DEF k

(* A multiple of the divisor is added to the quotient. *)
LEMMA AddMultiple ==
  ASSUME NEW P \in Nat \ {0}, NEW n \in Nat, NEW k \in Int, n + k * P \in Nat
  PROVE  (n + k * P) \div P = (n \div P) + k
<1> DEFINE q == n \div P
           r == n % P
<1>1. q \in Nat /\ r \in 0..(P - 1) /\ n = P * q + r
  BY Quotient
<1> HIDE DEF q, r
<1>2. P * (q + k) = P * q + k * P /\ P * q \in Int /\ k * P \in Int
  BY <1>1, SMT
<1>3. n + k * P = P * (q + k) + r /\ q + k \in Int
  BY <1>1, <1>2
<1>4. (n + k * P) \div P = q + k
  BY <1>1, <1>3, QuotientIs
<1>5. QED
  BY <1>4 DEF q

(* Two shifts to the right are one. *)
LEMMA DivDiv ==
  ASSUME NEW P \in Nat \ {0}, NEW Q \in Nat \ {0}, NEW n \in Nat
  PROVE  n \div (P * Q) = (n \div P) \div Q
<1> DEFINE x == n \div P
           r == n % P
           y == x \div Q
           u == x % Q
<1>1. x \in Nat /\ r \in 0..(P - 1) /\ n = P * x + r
  BY Quotient
<1> HIDE DEF x, r
<1>2. y \in Nat /\ u \in 0..(Q - 1) /\ x = Q * y + u
  BY <1>1, Quotient
<1> HIDE DEF y, u
<1>3. P * x = (P * Q) * y + P * u /\ (P * Q) * y \in Nat /\ P * u \in Nat
  BY <1>1, <1>2, SMT
<1>4. P * Q = P * u + P + P * (Q - 1 - u) /\ P * (Q - 1 - u) \in Nat /\ P * Q \in Nat
  BY <1>2, SMT
<1>5. P * u + r \in 0..(P * Q - 1) /\ P * Q \in Nat \ {0}
  BY <1>1, <1>3, <1>4
<1>6. n = (P * Q) * y + (P * u + r)
  BY <1>1, <1>3
<1>7. n \div (P * Q) = y
  BY <1>2, <1>5, <1>6, QuotientIs
<1>8. QED
  BY <1>7 DEF y, x
-----------------------------------------------------------------------------
(* What a write of three bits at place P = 2^shift does to a register. *)
field(reg, P) == (reg \div P) % 8

put(reg, bits, P) == reg + (bits - ((reg \div P) % 8)) * P

LEMMA PutQuotient ==
  ASSUME NEW P \in Nat \ {0}, NEW reg \in Nat, NEW bits \in 0..7
  PROVE  /\ put(reg, bits, P) \in Nat
         /\ put(reg, bits, P) \div P = (reg \div P) - ((reg \div P) % 8) + bits
<1> DEFINE x == reg \div P
           r == reg % P
           o == x % 8
<1>1. x \in Nat /\ r \in 0..(P - 1) /\ reg = P * x + r
  BY Quotient
<1> HIDE DEF x, r
<1>2. o \in 0..7 /\ o <= x
  BY <1>1
<1> HIDE DEF o
<1>3. P * x = o * P + (x - o) * P /\ (x - o) * P \in Nat /\ o * P \in Nat /\ bits * P \in Nat
      /\ (bits - o) * P = bits * P - o * P
  BY <1>1, <1>2, SMT
<1>4. reg + (bits - o) * P = (x - o) * P + bits * P + r
  BY <1>1, <1>3
<1>5. reg + (bits - o) * P \in Nat
  BY <1>1, <1>3, <1>4
<1>6. bits - o \in Int
  BY <1>2
<1>7. (reg + (bits - o) * P) \div P = x + (bits - o)
  BY <1>5, <1>6, AddMultiple DEF x
<1>8. x + (bits - o) = x - o + bits
  BY <1>1, <1>2
<1>9. QED
  BY <1>5, <1>7, <1>8 DEF put, x, o

(* A place T that is left of the field at place P. *)
left_of(T, P) == \E Q \in Nat \ {0} : T = (P * 8) * Q

(* The bits written are there. *)
LEMMA PutField ==
  ASSUME NEW P \in Nat \ {0}, NEW reg \in Nat, NEW bits \in 0..7
  PROVE  field(put(reg, bits, P), P) = bits
<1> DEFINE x == reg \div P
<1>1. put(reg, bits, P) \div P = x - (x % 8) + bits /\ x \in Nat
  BY PutQuotient, Quotient
<1> HIDE DEF x
<1>2. (x - (x % 8) + bits) % 8 = bits
  BY <1>1
<1>3. QED
  BY <1>1, <1>2 DEF field

(* Fields to the left of them are as they were, *)
LEMMA PutLeft ==
  ASSUME NEW P \in Nat \ {0}, NEW reg \in Nat, NEW bits \in 0..7,
         NEW T \in Nat \ {0}, left_of(T, P)
  PROVE  field(put(reg, bits, P), T) = field(reg, T)
<1>0. PICK Q \in Nat \ {0} : T = (P * 8) * Q
  BY DEF left_of
<1> DEFINE new == put(reg, bits, P)
           x == reg \div P
<1>1. new \in Nat /\ new \div P = x - (x % 8) + bits /\ x \in Nat
  BY PutQuotient, Quotient
<1> HIDE DEF new, x
<1>2. (x - (x % 8) + bits) \div 8 = x \div 8
  BY <1>1
<1>3. P * 8 \in Nat \ {0} /\ 8 \in Nat \ {0}
  OBVIOUS
<1>4. /\ new \div ((P * 8) * Q) = (new \div (P * 8)) \div Q
      /\ reg \div ((P * 8) * Q) = (reg \div (P * 8)) \div Q
  BY <1>1, <1>3, DivDiv
<1>5. new \div (P * 8) = (new \div P) \div 8 /\ reg \div (P * 8) = x \div 8
  BY <1>1, <1>3, DivDiv DEF x
<1>6. QED
  BY <1>0, <1>1, <1>2, <1>4, <1>5 DEF new, field

(* and fields to the right too. *)
LEMMA PutRight ==
  ASSUME NEW P \in Nat \ {0}, NEW reg \in Nat, NEW bits \in 0..7,
         NEW T \in Nat \ {0}, left_of(P, T)
  PROVE  field(put(reg, bits, P), T) = field(reg, T)
<1>0. PICK Q \in Nat \ {0} : P = (T * 8) * Q
  BY DEF left_of
<1> DEFINE new == put(reg, bits, P)
           x == reg \div P
           k == bits - (x % 8)
           y == reg \div T
<1>1. new \in Nat /\ k \in Int /\ y \in Nat /\ new = reg + k * P
  <2>1. new \in Nat /\ y \in Nat /\ x \in Nat
    BY PutQuotient, Quotient
  <2> HIDE DEF x
  <2>2. k \in Int
    BY <2>1
  <2>3. new = reg + k * P
    BY DEF put, x
  <2>4. QED
    BY <2>1, <2>2, <2>3
<1> HIDE DEF new, x, k, y
<1>2. k * P = (8 * (Q * k)) * T /\ Q * k \in Int
  BY <1>0, <1>1, SMT
<1> DEFINE l == 8 * (Q * k)
<1>3. l \in Int /\ new = reg + l * T
  BY <1>1, <1>2
<1>4. \A z \in Int : (y + 8 * z) % 8 = y % 8
  BY <1>1, SMT
<1>5. (y + l) % 8 = y % 8
  BY <1>2, <1>4
<1> HIDE DEF l
<1>6. new \div T = y + l
  <2>1. reg + l * T \in Nat
    BY <1>1, <1>3
  <2>2. (reg + l * T) \div T = (reg \div T) + l
    BY <1>3, <2>1, AddMultiple
  <2>3. QED
    BY <1>3, <2>2 DEF y
<1>7. QED
  BY <1>5, <1>6 DEF new, y, field

(* Where the field of the k-th pin of a register begins. *)
place(k) == 2^(3 * k)

LEMMA Ladder == place(0) = 1 /\ \A k \in 0..8 : place(k + 1) = place(k) * 8
<1>1. /\ 2^0 = 1 /\ 2^3 = 8 /\ 2^6 = 64 /\ 2^9 = 512 /\ 2^12 = 4096 /\ 2^15 = 32768
      /\ 2^18 = 262144 /\ 2^21 = 2097152 /\ 2^24 = 16777216 /\ 2^27 = 134217728
  BY SMT
<1>2. /\ 3 * 0 = 0 /\ 3 * 1 = 3 /\ 3 * 2 = 6 /\ 3 * 3 = 9 /\ 3 * 4 = 12 /\ 3 * 5 = 15
      /\ 3 * 6 = 18 /\ 3 * 7 = 21 /\ 3 * 8 = 24 /\ 3 * 9 = 27
  OBVIOUS
<1>3. /\ place(0) = 1 /\ place(1) = 8 /\ place(2) = 64 /\ place(3) = 512 /\ place(4) = 4096
      /\ place(5) = 32768 /\ place(6) = 262144 /\ place(7) = 2097152 /\ place(8) = 16777216
      /\ place(9) = 134217728
  BY <1>1, <1>2, SMT DEF place
<1>4. ASSUME NEW k \in 0..8 PROVE place(k + 1) = place(k) * 8
  <2>1. k = 0 \/ k = 1 \/ k = 2 \/ k = 3 \/ k = 4 \/ k = 5 \/ k = 6 \/ k = 7 \/ k = 8
    OBVIOUS
  <2>2. QED
    BY <1>3, <2>1, SMT
<1>5. QED
  BY <1>3, <1>4, SMT

LEMMA PlaceType == \A k \in 0..9 : place(k) \in Nat \ {0}
<1> DEFINE T(k) == place(k) \in Nat \ {0}
<1>1. T(0) /\ \A k \in 0..8 : T(k) => T(k + 1)
  BY Ladder
<1>2. T(0) /\ T(1) /\ T(2) /\ T(3) /\ T(4) /\ T(5) /\ T(6) /\ T(7) /\ T(8) /\ T(9)
  BY <1>1
<1> HIDE DEF T
<1>3. \A k \in 0..9 : T(k)
  BY <1>2
<1>4. QED
  BY <1>3 DEF T

(* A field is eight times an earlier one, or a multiple of that. *)
LEMMA Apart ==
  ASSUME NEW i \in 0..9, NEW j \in 0..9, i < j
  PROVE  left_of(place(j), place(i))
<1> DEFINE A(n) == i < n => left_of(place(n), place(i))
<1>1. ASSUME NEW n \in 0..8, A(n) PROVE A(n + 1)
  <2>1. place(n + 1) = place(n) * 8 /\ place(i) \in Nat
    BY Ladder, PlaceType
  <2>2. CASE i < n
    <3>1. PICK Q \in Nat \ {0} : place(n) = (place(i) * 8) * Q
      BY <1>1, <2>2 DEF left_of
    <3>2. place(n + 1) = (place(i) * 8) * (Q * 8) /\ Q * 8 \in Nat \ {0}
      BY <2>1, <3>1, SMT
    <3>3. QED
      BY <3>2 DEF left_of
  <2>3. CASE i = n
    <3>1. place(n + 1) = (place(i) * 8) * 1
      BY <2>1, <2>3
    <3>2. QED
      BY <3>1 DEF left_of
  <2>4. QED
    BY <2>2, <2>3
<1>2. A(0)
  OBVIOUS
<1> HIDE DEF A
<1>3. A(1) /\ A(2) /\ A(3)
  BY <1>1, <1>2
<1>4. A(4) /\ A(5) /\ A(6)
  BY <1>1, <1>3
<1>5. A(7) /\ A(8) /\ A(9)
  BY <1>1, <1>4
<1>6. A(j)
  BY <1>2, <1>3, <1>4, <1>5
<1>7. QED
  BY <1>6 DEF A
-----------------------------------------------------------------------------
GType ==
  /\ FSEL \in [0..5 -> Nat] /\ chosen \in [Pins -> 0..7]
  /\ state \in [Pins -> {"Uninitialized", "Alt", "Output", "Input"}]

GInv == GType /\ HandlesAreTrue

(* A write to the field of one pin: it is there, and no other pin sees it. *)
LEMMA WriteFsel ==
  ASSUME GInv, NEW p \in Pins, NEW f \in 0..7, write_fsel(p, f)
  PROVE  /\ FSEL' \in [0..5 -> Nat]
         /\ function_bits(FSEL'[fsel_reg_index(p)], 3 * (p % 10)) = f
         /\ \A q \in Pins \ {p} :
              function_bits(FSEL'[fsel_reg_index(q)], 3 * (q % 10))
                = function_bits(FSEL[fsel_reg_index(q)], 3 * (q % 10))
<1> DEFINE x == p \div 10
           i == p % 10
<1>1. p \in 0..53 /\ x \in 0..5 /\ i \in 0..9 /\ p = 10 * x + i
  BY GpioAssumption
<1>2. FSEL' = [FSEL EXCEPT ![x] = put(FSEL[x], f, place(i))]
  <2>1. (p % 10) * 3 = 3 * i
    BY <1>1
  <2>2. QED
    BY <2>1 DEF write_fsel, fsel_reg_index, fsel_reg_shift, fsel_set_function_bits,
                function_bits, put, place
<1> HIDE DEF x, i
<1>3. FSEL \in [0..5 -> Nat] /\ FSEL[x] \in Nat /\ place(i) \in Nat \ {0}
  BY <1>1, PlaceType DEF GInv, GType
<1>4. put(FSEL[x], f, place(i)) \in Nat /\ FSEL'[x] = put(FSEL[x], f, place(i))
  BY <1>1, <1>2, <1>3, PutQuotient
<1>5. function_bits(FSEL'[fsel_reg_index(p)], 3 * (p % 10)) = f
  <2>1. field(put(FSEL[x], f, place(i)), place(i)) = f
    BY <1>3, PutField
  <2>2. QED
    BY <1>4, <2>1 DEF field, function_bits, fsel_reg_index, place, x, i
<1>6. ASSUME NEW q \in Pins \ {p}
      PROVE  function_bits(FSEL'[fsel_reg_index(q)], 3 * (q % 10))
               = function_bits(FSEL[fsel_reg_index(q)], 3 * (q % 10))
  <2> DEFINE y == q \div 10
             j == q % 10
  <2>1. q \in 0..53 /\ y \in 0..5 /\ j \in 0..9 /\ q = 10 * y + j
    BY GpioAssumption
  <2> HIDE DEF y, j
  <2>2. SUFFICES field(FSEL'[y], place(j)) = field(FSEL[y], place(j))
    BY DEF field, function_bits, fsel_reg_index, place, y, j
  <2>3. CASE y # x
    BY <1>2, <1>3, <2>1, <2>3
  <2>4. place(j) \in Nat \ {0}
    BY <2>1, PlaceType
  <2>5. CASE y = x
    <3>1. i # j
      BY <1>1, <2>1, <2>5
    <3>2. CASE i < j
      <4>1. left_of(place(j), place(i))
        BY <1>1, <2>1, <3>2, Apart
      <4>2. field(put(FSEL[x], f, place(i)), place(j)) = field(FSEL[x], place(j))
        BY <1>3, <2>4, <4>1, PutLeft
      <4>3. QED
        BY <1>4, <2>5, <4>2
    <3>3. CASE j < i
      <4>1. left_of(place(i), place(j))
        BY <1>1, <2>1, <3>3, Apart
      <4>2. field(put(FSEL[x], f, place(i)), place(j)) = field(FSEL[x], place(j))
        BY <1>3, <2>4, <4>1, PutRight
      <4>3. QED
        BY <1>4, <2>5, <4>2
    <3>4. QED
      BY <1>1, <2>1, <3>1, <3>2, <3>3
  <2>6. QED
    BY <2>3, <2>5
<1>7. FSEL' \in [0..5 -> Nat]
  BY <1>1, <1>2, <1>3, <1>4
<1>8. QED
  BY <1>5, <1>6, <1>7

LEMMA BecomesKeeps ==
  ASSUME GInv, NEW p \in Pins, NEW f \in 0..7, NEW s \in {"Alt", "Output", "Input"},
         becomes(p, s, f)
  PROVE  GInv'
<1>1. /\ write_fsel(p, f) /\ state' = [state EXCEPT ![p] = s]
      /\ chosen' = [chosen EXCEPT ![p] = f]
  BY DEF becomes
<1>2. GType'
  BY <1>1, WriteFsel DEF GInv, GType
<1>3. ASSUME NEW q \in Pins, state'[q] # "Uninitialized"
      PROVE  function_bits(FSEL'[fsel_reg_index(q)], 3 * (q % 10)) = chosen'[q]
  <2>1. CASE q = p
    BY <1>1, <2>1, WriteFsel DEF GInv, GType
  <2>2. CASE q # p
    <3>1. state'[q] = state[q] /\ chosen'[q] = chosen[q]
      BY <1>1, <2>2 DEF GInv, GType
    <3>2. QED
      BY <1>1, <1>3, <2>2, <3>1, WriteFsel DEF GInv, HandlesAreTrue
  <2>3. QED
    BY <2>1, <2>2
<1>4. QED
  <2>1. HandlesAreTrue'
    BY <1>3 DEF HandlesAreTrue, function_bits, fsel_reg_index
  <2>2. QED
    BY <1>2, <2>1 DEF GInv

(* Whatever is done to the other pins, also those of the same register, a   *)
(* pin has the function that its handle was given (HandlesAreTrue): for     *)
(* any set of the board's pins and any content of the registers at reset.   *)
THEOREM HandlesTellTheTruth == GpioSpec => []HandlesAreTrue
<1>1. GpioInit => GInv
  BY GpioAssumption DEF GpioInit, GInv, GType, HandlesAreTrue
<1>2. GInv /\ [GpioNext]_gpio_vars => GInv'
  <2> SUFFICES ASSUME GInv, [GpioNext]_gpio_vars PROVE GInv'
    OBVIOUS
  <2>1. CASE UNCHANGED gpio_vars
    BY <2>1 DEF gpio_vars, GInv, GType, HandlesAreTrue, function_bits, fsel_reg_index
  <2>2. ASSUME NEW p \in Pins, gpio_new(p) PROVE GInv'
    <3>1. FSEL' = FSEL /\ chosen' = chosen /\ state' = [state EXCEPT ![p] = "Uninitialized"]
      BY <2>2 DEF gpio_new
    <3>2. GType'
      BY <3>1 DEF GInv, GType
    <3>3. \A q \in Pins : state'[q] # "Uninitialized" => state[q] # "Uninitialized"
      BY <3>1 DEF GInv, GType
    <3>4. HandlesAreTrue'
      BY <3>1, <3>3 DEF GInv, HandlesAreTrue, function_bits, fsel_reg_index
    <3>5. QED
      BY <3>2, <3>4 DEF GInv
  <2>3. ASSUME NEW p \in Pins, into_output(p) \/ into_input(p) PROVE GInv'
    BY <2>3, BecomesKeeps DEF into_output, into_input
  <2>4. ASSUME NEW p \in Pins, NEW f \in Functions, into_alt(p, f) PROVE GInv'
    BY <2>4, BecomesKeeps, GpioAssumption DEF into_alt
  <2>5. ASSUME NEW p \in Pins, set(p) \/ clear(p) \/ disable_pull_up_down(p) PROVE GInv'
    BY <2>5 DEF set, clear, disable_pull_up_down, GInv, GType, HandlesAreTrue,
                function_bits, fsel_reg_index
  <2>6. QED
    BY <2>1, <2>2, <2>3, <2>4, <2>5 DEF GpioNext
<1>3. GInv => HandlesAreTrue
  BY DEF GInv
<1>4. QED
  BY <1>1, <1>2, <1>3, PTL DEF GpioSpec
-----------------------------------------------------------------------------
(* The system timer.  Spec, Next and IInv are Timer's. *)

(* Quotient and remainder of the counter. *)
LEMMA CounterWords ==
  ASSUME NEW n \in Nat
  PROVE  /\ n \div B \in Nat /\ n % B \in 0..(B - 1)
         /\ n = (B * (n \div B)) + (n % B)
BY TimerAssumption, SMT

(* Remainders are unique. *)
LEMMA Remainder ==
  ASSUME NEW n \in Nat, NEW q \in Nat, NEW r \in 0..(B - 1), n = B * q + r
  PROVE  n % B = r
<1> DEFINE k == n \div B
           s == n % B
<1>1. k \in Nat /\ s \in 0..(B - 1) /\ n = B * k + s /\ B \in Nat /\ B > 0
  BY CounterWords, TimerAssumption
<1> HIDE DEF k, s
<1>2. ~(k > q)
  <2> SUFFICES ASSUME k > q PROVE FALSE
    OBVIOUS
  <2>1. B * k = B * q + B + B * (k - q - 1) /\ B * (k - q - 1) >= 0
    BY <1>1, SMT
  <2>2. B * k \in Nat /\ B * q \in Nat /\ B * (k - q - 1) \in Nat
    BY <1>1, SMT
  <2> QED BY <1>1, <2>1, <2>2
<1>3. ~(q > k)
  <2> SUFFICES ASSUME q > k PROVE FALSE
    OBVIOUS
  <2>1. B * q = B * k + B + B * (q - k - 1) /\ B * (q - k - 1) >= 0
    BY <1>1, SMT
  <2>2. B * k \in Nat /\ B * q \in Nat /\ B * (q - k - 1) \in Nat
    BY <1>1, SMT
  <2> QED BY <1>1, <2>1, <2>2
<1>4. k = q
  BY <1>1, <1>2, <1>3
<1>5. B * k \in Nat
  BY <1>1, SMT
<1>6. s = r
  BY <1>1, <1>4, <1>5
<1> QED BY <1>6 DEF s

(* wrapping_add on the low word is addition on the counter. *)
LEMMA LowWordAdds ==
  ASSUME NEW n \in Nat, NEW d \in Nat
  PROVE  ((n % B) + d) % B = (n + d) % B
<1> DEFINE q == n \div B
           r == n % B
           p == (r + d) \div B
           s == (r + d) % B
<1>1. q \in Nat /\ r \in Nat /\ n = B * q + r /\ B \in Nat
  BY CounterWords, TimerAssumption
<1> HIDE DEF q, r
<1>2. p \in Nat /\ s \in 0..(B - 1) /\ r + d = B * p + s
  BY <1>1, CounterWords
<1> HIDE DEF p, s
<1>3. B * (q + p) = B * q + B * p /\ B * q \in Nat /\ B * p \in Nat
  BY <1>1, <1>2, SMT
<1>4. n + d = B * (q + p) + s
  BY <1>1, <1>2, <1>3
<1>5. (n + d) % B = s
  <2>1. n + d \in Nat /\ q + p \in Nat
    BY <1>1, <1>2
  <2> QED BY <1>2, <1>4, <2>1, Remainder
<1> QED BY <1>5 DEF s, r

(* The high word does not decrease. *)
LEMMA HighWordGrows ==
  ASSUME NEW n \in Nat
  PROVE  n \div B <= (n + 1) \div B
<1> DEFINE k == n \div B
           l == (n + 1) \div B
<1>1. /\ k \in Nat /\ l \in Nat /\ B \in Nat /\ B > 0
      /\ B * k <= n /\ n + 1 < B * l + B
  BY CounterWords, TimerAssumption, SMT
<1> HIDE DEF k, l
<1>2. ~(k > l)
  <2> SUFFICES ASSUME k > l PROVE FALSE
    OBVIOUS
  <2>1. B * k = B * l + B + B * (k - l - 1) /\ B * (k - l - 1) >= 0
    BY <1>1, SMT
  <2>2. B * k \in Nat /\ B * l \in Nat /\ B * (k - l - 1) \in Nat
    BY <1>1, SMT
  <2> QED BY <1>1, <2>1, <2>2
<1> QED BY <1>1, <1>2 DEF k, l

(* A low word of now under a high word of the past is not ahead of now. *)
LEMMA OldWordBehind ==
  ASSUME NEW n \in Nat, NEW w \in Nat, w <= n \div B
  PROVE  (w * B) + (n % B) \in Nat /\ (w * B) + (n % B) <= n
<1> DEFINE k == n \div B
           r == n % B
<1>1. k \in Nat /\ r \in Nat /\ n = B * k + r /\ B \in Nat /\ w <= k
  BY CounterWords, TimerAssumption
<1> HIDE DEF k, r
<1>2. B * k = w * B + (k - w) * B /\ (k - w) * B >= 0 /\ w * B \in Nat /\ B * k \in Nat
  BY <1>1, SMT
<1>3. w * B + r \in Nat /\ w * B + r <= n
  BY <1>1, <1>2
<1> QED BY <1>3 DEF r

(* The counter advances: the awaited match comes when it is due. *)
LEMMA CountKeeps == IInv /\ count => IInv'
<1> SUFFICES ASSUME IInv, count PROVE IInv'
  OBVIOUS
<1>1. /\ now' = now + 1 /\ now \in Nat /\ now' \in Nat
      /\ UNCHANGED <<COMPARE, pc, caller, word, time, deadline, us, future, began, due>>
  BY DEF IInv, count
<1>2. CS' \in BOOLEAN /\ (CS' <=> CS \/ (now + 1) % B = COMPARE)
  BY DEF count
<1>3. ReadInv'
  <2>1. now \div B \in Nat /\ now' \div B \in Nat /\ now \div B <= now' \div B
    BY <1>1, HighWordGrows, CounterWords
  <2> QED BY <1>1, <2>1 DEF IInv, ReadInv, CHI
<1>4. MatchInv'
  <2>1. pc \in {"cs", "compare"} => /\ future = (began + us) % B
                                    /\ us > Slack /\ now' <= began + Slack /\ due = -1
    BY <1>1, TimerAssumption DEF IInv, MatchInv, count
  <2>2. (due # -1 /\ ~CS') => now' < due /\ COMPARE = due % B
    <3> SUFFICES ASSUME due # -1, ~CS' PROVE now' < due /\ COMPARE = due % B
      OBVIOUS
    <3>1. now < due /\ COMPARE = due % B /\ due \in Int /\ now + 1 # due
      BY <1>2 DEF IInv, MatchInv
    <3> QED BY <1>1, <3>1
  <2> QED BY <1>1, <2>1, <2>2 DEF MatchInv
<1> QED BY <1>1, <1>2, <1>3, <1>4 DEF IInv

(* The two word reads of Timer::read, and the comparison of spin_sleep_us. *)
LEMMA ReadKeeps ==
  ASSUME IInv, \/ read \/ read_first \/ read_second
               \/ \E d \in Delays : spin_sleep_us(d)
  PROVE  IInv'
<1>1. now \in Nat /\ CHI \in Nat /\ CLO \in Nat
  BY CounterWords DEF IInv, CHI, CLO
<1>2. CASE read
  BY <1>2 DEF IInv, ReadInv, MatchInv, read, CHI
<1>3. CASE \E d \in Delays : spin_sleep_us(d)
  <2>1. PICK d \in Delays : spin_sleep_us(d)
    BY <1>3
  <2>2. d \in Nat
    BY TimerAssumption
  <2> QED BY <2>1, <2>2 DEF IInv, ReadInv, MatchInv, spin_sleep_us, CHI
<1>4. CASE read_first
  <2>1. /\ pc = "first" /\ pc' = "second" /\ word' = CHI
        /\ UNCHANGED <<now, COMPARE, CS, caller, time, deadline, us, future, began, due>>
    BY <1>4 DEF read_first, register, order
  <2> QED BY <1>1, <2>1 DEF IInv, ReadInv, MatchInv, CHI
<1>5. CASE read_second
  <2>1. /\ pc = "second" /\ pc' \in {"first", "idle"} /\ word' = 0
        /\ time' = (word * B) + CLO
        /\ UNCHANGED <<now, COMPARE, CS, us, future, began, due>>
    BY <1>5 DEF read_second, register, order, value
  <2>2. word \in Nat /\ word <= now \div B
    BY <2>1 DEF IInv, ReadInv, CHI
  <2>3. time' \in Nat /\ time' <= now
    BY <1>1, <2>1, <2>2, OldWordBehind DEF CLO
  <2>4. ReadInv'
    BY <2>1, <2>3 DEF ReadInv
  <2>5. MatchInv'
    BY <2>1 DEF IInv, MatchInv
  <2> QED BY <2>1, <2>3, <2>4, <2>5 DEF IInv
<1> QED BY <1>2, <1>3, <1>4, <1>5

(* The three register accesses of tick_in. *)
LEMMA TickInKeeps ==
  ASSUME IInv, \/ write_cs \/ write_compare
               \/ \E d \in Delays : tick_in(d)
  PROVE  IInv'
<1>1. CASE \E d \in Delays : tick_in(d)
  <2>1. PICK d \in Delays : tick_in(d)
    BY <1>1
  <2>2. d \in Nat /\ d > Slack /\ Slack \in Nat /\ now \in Nat
    BY TimerAssumption DEF IInv
  <2>3. /\ future' = ((now % B) + d) % B /\ began' = now /\ us' = d /\ due' = -1
        /\ pc' = "cs" /\ UNCHANGED <<now, CS, word, time>>
    BY <2>1 DEF tick_in, CLO
  <2>4. future' = (began' + us') % B
    BY <2>2, <2>3, LowWordAdds
  <2>5. MatchInv'
    BY <2>2, <2>3, <2>4 DEF MatchInv
  <2> QED BY <2>2, <2>3, <2>5 DEF IInv, ReadInv
<1>2. CASE write_cs
  <2>1. /\ pc = "cs" /\ pc' = "compare" /\ CS' = FALSE
        /\ UNCHANGED <<now, COMPARE, word, time, us, future, began, due>>
    BY <1>2 DEF write_cs
  <2>2. due = -1
    BY <2>1 DEF IInv, MatchInv
  <2> QED BY <2>1, <2>2 DEF IInv, ReadInv, MatchInv
<1>3. CASE write_compare
  <2>1. /\ pc = "compare" /\ pc' = "idle" /\ COMPARE' = future /\ due' = began + us
        /\ UNCHANGED <<now, CS, word, time, us, future, began>>
    BY <1>3 DEF write_compare
  <2>2. /\ future = (began + us) % B /\ us > Slack /\ now <= began + Slack
        /\ began \in Nat /\ us \in Nat /\ now \in Nat /\ Slack \in Nat
    BY <2>1, TimerAssumption DEF IInv, MatchInv
  <2>3. due' \in Int /\ now' < due' /\ COMPARE' = due' % B
    BY <2>1, <2>2
  <2>4. MatchInv'
    BY <2>1, <2>3 DEF MatchInv
  <2> QED BY <2>1, <2>3, <2>4 DEF IInv, ReadInv
<1> QED BY <1>1, <1>2, <1>3

(* The invariant is inductive. *)
LEMMA SpecIInv == Spec => []IInv
<1>1. ASSUME Init PROVE IInv
  <2>1. /\ now \in Nat /\ time = 0 /\ word = 0 /\ began = 0 /\ us = 0 /\ due = -1
        /\ pc = "idle"
    BY <1>1, TimerAssumption DEF Init
  <2>2. CS \in BOOLEAN
    BY <1>1 DEF Init
  <2>3. ReadInv /\ MatchInv
    BY <2>1 DEF ReadInv, MatchInv
  <2> QED BY <2>1, <2>2, <2>3 DEF IInv
<1>2. ASSUME IInv, [Next]_vars PROVE IInv'
  <2>1. CASE UNCHANGED vars
    BY <1>2, <2>1 DEF IInv, ReadInv, MatchInv, CHI, vars
  <2> QED BY <1>2, <2>1, CountKeeps, ReadKeeps, TickInKeeps DEF Next, rest
<1> QED BY <1>1, <1>2, PTL DEF Spec

(* read, with its two words of two instants, never runs ahead of the        *)
(* counter.                                                                 *)
THEOREM ReadsNeverAhead == Spec => []NeverAhead
<1>1. IInv => NeverAhead
  BY DEF IInv, ReadInv, NeverAhead
<1> QED BY <1>1, SpecIInv, PTL

(* tick_in's match comes in time for any width of the low word, provided    *)
(* tick_in takes less time than it was asked to set.                        *)
THEOREM MatchesInTime == Spec => []MatchInTime
<1>1. IInv => MatchInTime
  BY DEF IInv, MatchInv, MatchInTime
<1> QED BY <1>1, SpecIInv, PTL
=============================================================================
