-------------------------------- MODULE Bump ---------------------------------
(***************************************************************************)
(* The kernel's first allocator, kernel/src/allocator/bump.rs, which       *)
(* promises its callers what the bin allocator does and can take its place *)
(* (the #[path] of allocator/mod.rs chooses): it never takes memory back.  *)
(***************************************************************************)
EXTENDS Util

CONSTANTS BumpStart, BumpEnd,   \* the region given to new
          BumpLayouts           \* requested layouts, [size, align] records

ASSUME BumpWordAssumption == UMax >= 2147483647
ASSUME BumpAssumption ==
  /\ BumpStart \in 0..(MaxPower - 1) /\ BumpEnd \in 0..(MaxPower - 1)
  /\ BumpLayouts \subseteq [size : 1..MaxPower, align : PowersOfTwo]

VARIABLES current,   \* where the free memory starts
          owned      \* history: the blocks that callers own

bump_vars == <<current, owned>>

bump_new == current = BumpStart /\ owned = {}

BumpInit == bump_new

Block(a, l) == [addr |-> a, len |-> l.size, size |-> l.size, align |-> l.align]

bump_alloc_checks_start(l) ==   \* mutant: the start of the block is compared
  LET aligned == align_up(current, l.align) IN
  /\ aligned <= BumpEnd
  /\ current' = saturating_add(aligned, l.size)
  /\ owned' = owned \union {Block(aligned, l)}

bump_alloc(l) ==
  LET aligned == align_up(current, l.align)
      next    == saturating_add(aligned, l.size)
  IN  /\ next <= BumpEnd
      /\ current' = next
      /\ owned' = owned \union {Block(aligned, l)}

(* AllocErr::Exhausted *)
bump_exhausted(l) ==
  /\ saturating_add(align_up(current, l.align), l.size) > BumpEnd
  /\ UNCHANGED bump_vars

bump_dealloc(b) == owned' = owned \ {b} /\ UNCHANGED current

BumpNext ==
  \/ \E l \in BumpLayouts : bump_alloc(l) \/ bump_exhausted(l)
  \/ \E b \in owned : bump_dealloc(b)

BumpSpec == BumpInit /\ [][BumpNext]_bump_vars
-----------------------------------------------------------------------------
(* All that was handed out lies below the free memory. *)
BumpInv ==
  /\ current \in Nat /\ BumpStart <= current
  /\ current <= BumpEnd \/ current = BumpStart
  /\ \A b \in owned : b.addr \in Nat /\ b.len \in Nat /\ b.addr + b.len <= current

BumpContract == INSTANCE Heap WITH
  Lo <- BumpStart, Hi <- BumpEnd, Requests <- BumpLayouts, live <- owned

(* The bump allocator implements the contract of allocator/mod.rs: blocks   *)
(* are large enough, aligned, in the region and apart from every live one,  *)
(* although align_up and the sum of alloc saturate (bump.rs 43-47).         *)
BumpImplementsHeap == BumpContract!Spec
=============================================================================
