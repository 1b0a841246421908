---------------------------- MODULE BinAllocator ----------------------------
(***************************************************************************)
(* The kernel's memory allocator, kernel/src/allocator/bin.rs, with the    *)
(* intrusive list of kernel/src/allocator/linked_list.rs that keeps its    *)
(* free blocks.  A free block starts with a BlockHeader of two words, kept *)
(* in the block itself:                                                    *)
(*                                                                         *)
(*   link[a]   the word BlockHeader.head: the next free block, or Null     *)
(*   size[a]   the word BlockHeader.size                                   *)
(*                                                                         *)
(* The list cell in the Allocator structure is outside the heap and has    *)
(* the index HEAD.  The words of memory that is not a header are whatever  *)
(* was left there, or written there by the owner of a live block.          *)
(*                                                                         *)
(* Every loop iteration of an operation is one step; pc is the loop the    *)
(* allocator is in, and prev and cur are the loop's two pointers.  Calls   *)
(* do not overlap here: module Mutex is about the lock around them.       *)
(*                                                                         *)
(* free and live are history variables: the addresses on the list, and     *)
(* the blocks that callers own.                                            *)
(***************************************************************************)
EXTENDS Util

CONSTANTS
  MemStart, MemEnd,   \* the memory map: see memory_map()
  Layouts,            \* requested layouts, [size, align] records
  Words               \* what uninitialised memory, and callers' data, may hold

BLOCK_LEN == 16       \* size_of::<BlockHeader>(): two 64-bit words

Start == align_up(MemStart, BLOCK_LEN)
End   == align_down(MemEnd, BLOCK_LEN)

Null == 0             \* ptr::null_mut()
HEAD == 0             \* the cell Allocator.head; no block has this address

NoLayout == [size |-> 1, align |-> 1]   \* no request is being served

Addr  == { a \in Start .. (End - 1) : a % BLOCK_LEN = 0 }
Cells == {HEAD} \union Addr

ASSUME WordAssumption    == UMax >= 2147483647
ASSUME MemoryAssumption  == /\ MemStart \in Nat \ {0} /\ MemEnd \in Nat
                            /\ MemStart <= MaxPower /\ MemEnd <= MaxPower
                            /\ Start < End
ASSUME LayoutsAssumption == Layouts \subseteq [size : 1 .. MaxPower, align : PowersOfTwo]
ASSUME WordsAssumption   == Words \subseteq Nat /\ Words # {}

VARIABLES link, size, pc, prev, cur, layout, ptr, free, live

vars   == <<link, size, pc, prev, cur, layout, ptr, free, live>>

-----------------------------------------------------------------------------
(* Helpers of the allocator. *)

next_power_of_two_below(n) == next_power_of_two(n) \div 2

inner_size(n) ==
  LET m == umax(n, BLOCK_LEN)
  IN  IF is_power_of_two(m) THEN m ELSE next_power_of_two(m)

inner_layout(l) == [size |-> inner_size(l.size), align |-> umax(l.align, BLOCK_LEN)]

matches_size(a, l) == size[a] = l.size   \* mutant: alignment not looked at

matches_exact(a, l)    == size[a] = l.size /\ a % l.align = 0
matches_contains(a, l) == size[a] > l.size /\ a % l.align = 0

any_size(p, a) == TRUE   \* mutant: sizes not compared
any_place(p, n) == TRUE   \* mutant: alignment of the joined block not tested

is_adjacent(p, a) == saturating_add(p, size[p]) = a
equal_size(p, a)  == size[p] = size[a]
aligned_on(p, n)  == p % n = 0

(* The test of defragment: p and a are the two halves of one block. *)
mergeable(p, a) ==
  is_adjacent(p, a) /\ equal_size(p, a) /\ aligned_on(p, 2 * size[p])

(* The block that the caller of the current request gets at address a. *)
Granted(a) == [addr |-> a, len |-> inner_size(layout.size),
               size |-> layout.size, align |-> layout.align]

(* LinkedList::pop on the cell c: what its link becomes. *)
popped(c) == IF link[c] = Null THEN Null ELSE link[link[c]]

(* Where divide_maximally cuts the block at a; a itself for no cut. *)
split_point(a) ==
  LET half    == next_power_of_two_below(size[a])
      aligned == align_up(a, half)
  IN  IF a # aligned THEN aligned
      ELSE IF ~ is_power_of_two(size[a]) THEN a + half
      ELSE a

-----------------------------------------------------------------------------
(* Allocator::new makes one block of the whole region and divides it. *)
new ==
  /\ \E w \in Words :
       /\ link = [c \in Cells |-> IF c = HEAD THEN Start
                                  ELSE IF c = Start THEN Null ELSE w]
       /\ size = [c \in Cells |-> IF c = Start THEN End - Start ELSE w]
  /\ pc = "divide" /\ prev = HEAD /\ cur = Start
  /\ layout = NoLayout /\ ptr = Null
  /\ free = {Start} /\ live = {}

Init == new

(* Entry of alloc, up to the loop of find_exact_free_block. *)
alloc(l) ==
  /\ pc = "idle"
  /\ layout' = l
  /\ pc' = "exact" /\ prev' = HEAD /\ cur' = link[HEAD]
  /\ UNCHANGED <<link, size, ptr, free, live>>

(* The call returns and its locals go. *)
return ==
  /\ pc' = "idle" /\ prev' = Null /\ cur' = Null
  /\ layout' = NoLayout /\ ptr' = Null
  /\ UNCHANGED <<link, size, free, live>>

advance ==
  /\ prev' = cur /\ cur' = link[cur]
  /\ UNCHANGED <<link, size, pc, layout, ptr, free, live>>

(* After a block has been taken, alloc divides what is left. *)
return_block(a) ==
  /\ live' = live \union {Granted(a)}
  /\ pc' = "divide" /\ prev' = HEAD /\ cur' = link'[HEAD]
  /\ layout' = NoLayout /\ UNCHANGED ptr

exact_step ==
  /\ pc = "exact" /\ cur # Null
  /\ ~ matches_exact(cur, inner_layout(layout))
  /\ advance

(* Node::pop: the link that led here skips the block. *)
exact_pop ==
  /\ pc = "exact" /\ cur # Null
  /\ matches_exact(cur, inner_layout(layout))
  /\ link' = [link EXCEPT ![prev] = link[cur]]
  /\ free' = free \ {cur}
  /\ return_block(cur)
  /\ UNCHANGED size

exact_fail_skip ==   \* mutant: the second search misses the first block
  /\ pc = "exact" /\ cur = Null
  /\ pc' = "contains" /\ prev' = link[HEAD] /\ cur' = popped(HEAD)
  /\ UNCHANGED <<link, size, layout, ptr, free, live>>

(* No exact match: the list is searched again for a larger block. *)
exact_fail ==
  /\ pc = "exact" /\ cur = Null
  /\ pc' = "contains" /\ prev' = HEAD /\ cur' = link[HEAD]
  /\ UNCHANGED <<link, size, layout, ptr, free, live>>

contains_step ==
  /\ pc = "contains" /\ cur # Null
  /\ ~ matches_contains(cur, inner_layout(layout))
  /\ advance

(* The front of the block is taken; a header is written behind it and      *)
(* replaces the block in the list.                                         *)
contains_split ==
  LET mid == saturating_add(cur, inner_size(layout.size)) IN
  /\ pc = "contains" /\ cur # Null
  /\ matches_contains(cur, inner_layout(layout))
  /\ size' = [size EXCEPT ![mid] = saturating_sub(size[cur], mid - cur)]
  /\ link' = [link EXCEPT ![mid] = link[cur], ![prev] = mid]
  /\ free' = (free \ {cur}) \union {mid}
  /\ return_block(cur)

exhausted ==
  /\ pc = "contains" /\ cur = Null
  /\ return

divide_split ==
  LET mid == split_point(cur) IN
  /\ pc = "divide" /\ cur # Null
  /\ mid # cur
  /\ size' = [size EXCEPT ![mid] = size[cur] - (mid - cur), ![cur] = mid - cur]
  /\ link' = [link EXCEPT ![mid] = link[cur], ![cur] = mid]
  /\ free' = free \union {mid}
  /\ UNCHANGED <<pc, prev, cur, layout, ptr, live>>

divide_stay ==   \* mutant: no iter.next() after the last cut
  pc = "divide" /\ cur # Null /\ split_point(cur) = cur /\ UNCHANGED vars

divide_step ==
  /\ pc = "divide" /\ cur # Null
  /\ split_point(cur) = cur
  /\ advance

divide_done ==
  /\ pc = "divide" /\ cur = Null
  /\ return

(* Entry of dealloc: the caller gives the block up with its layout. *)
dealloc(b) ==
  /\ pc = "idle"
  /\ layout' = [size |-> b.size, align |-> b.align] /\ ptr' = b.addr
  /\ live' = live \ {b}
  /\ pc' = IF b.addr < Start \/ b.addr >= End THEN "panic" ELSE "insert"
  /\ prev' = HEAD /\ cur' = link[HEAD]
  /\ UNCHANGED <<link, size, free>>

below(p, a) == p > a   \* mutant: the comparison turned round

(* The place for the freed block p is before a. *)
above(p, a) == p < a

insert_step ==
  /\ pc = "insert" /\ cur # Null
  /\ ~ above(ptr, cur)
  /\ advance

insert_front ==   \* mutant: pushed on the head of the list
  /\ pc = "insert" /\ cur # Null
  /\ above(ptr, cur)
  /\ size' = [size EXCEPT ![ptr] = inner_size(layout.size)]
  /\ link' = [link EXCEPT ![ptr] = link[HEAD], ![HEAD] = ptr]
  /\ free' = free \union {ptr}
  /\ pc' = "defrag" /\ prev' = Null /\ cur' = link'[HEAD]
  /\ UNCHANGED <<layout, ptr, live>>

(* The header of the freed block is written and pushed on the cell prev,   *)
(* and defragment starts.                                                  *)
insert_block ==
  /\ pc = "insert" /\ cur # Null
  /\ above(ptr, cur)
  /\ size' = [size EXCEPT ![ptr] = inner_size(layout.size)]
  /\ link' = [link EXCEPT ![ptr] = link[prev], ![prev] = ptr]
  /\ free' = free \union {ptr}
  /\ pc' = "defrag" /\ prev' = Null /\ cur' = link'[HEAD]
  /\ UNCHANGED <<layout, ptr, live>>

(* No free block lies above the freed one: "invalid pointer provided". *)
insert_panic ==
  /\ pc = "insert" /\ cur = Null
  /\ pc' = "panic"
  /\ UNCHANGED <<link, size, prev, cur, layout, ptr, free, live>>

defrag_drop ==   \* mutant: the joined block keeps its old size
  /\ pc = "defrag" /\ cur # Null
  /\ prev # Null /\ mergeable(prev, cur)
  /\ link' = [link EXCEPT ![prev] = popped(prev)]
  /\ free' = free \ {link[prev]}
  /\ prev' = cur /\ cur' = link[cur]
  /\ UNCHANGED <<size, pc, layout, ptr, live>>

(* The two halves of a block are joined; the next iteration still has the  *)
(* absorbed half as its previous block.                                    *)
defrag_merge ==
  /\ pc = "defrag" /\ cur # Null
  /\ prev # Null /\ mergeable(prev, cur)
  /\ link' = [link EXCEPT ![prev] = popped(prev)]
  /\ size' = [size EXCEPT ![prev] = 2 * size[prev]]
  /\ free' = free \ {link[prev]}
  /\ prev' = cur /\ cur' = link[cur]
  /\ UNCHANGED <<pc, layout, ptr, live>>

defrag_step ==
  /\ pc = "defrag" /\ cur # Null
  /\ prev = Null \/ ~ mergeable(prev, cur)
  /\ advance

defrag_done ==
  /\ pc = "defrag" /\ cur = Null
  /\ return

(* panic_fmt prints and waits for ever. *)
panic_fmt == pc = "panic" /\ UNCHANGED vars

(* The owner of a live block fills it. *)
scribble(b, w) ==
  LET mine == { a \in Addr : b.addr <= a /\ a < b.addr + b.len } IN
  /\ pc = "idle"
  /\ link' = [c \in Cells |-> IF c \in mine THEN w ELSE link[c]]
  /\ size' = [c \in Cells |-> IF c \in mine THEN w ELSE size[c]]
  /\ UNCHANGED <<pc, prev, cur, layout, ptr, free, live>>

Loop ==
  \/ exact_step \/ exact_pop \/ exact_fail
  \/ contains_step \/ contains_split \/ exhausted
  \/ divide_split \/ divide_step \/ divide_done
  \/ insert_step \/ insert_block \/ insert_panic
  \/ defrag_merge \/ defrag_step \/ defrag_done

Next ==
  \/ \E l \in Layouts : alloc(l)
  \/ \E b \in live : dealloc(b)
  \/ \E b \in live, w \in Words : scribble(b, w)
  \/ Loop
  \/ panic_fmt

Spec == Init /\ [][Next]_vars

(* A call, once entered, keeps running: nothing else has the processor. *)
FairSpec == Spec /\ WF_vars(Loop)

-----------------------------------------------------------------------------
(* Properties. *)

PCs == {"idle", "exact", "contains", "divide", "insert", "defrag", "panic"}

Blocks == [addr : Addr, len : Nat, size : Nat, align : Nat]

(* Every variable has its type: in particular the blocks on the list and   *)
(* the pointers of the loops stay on the 16-byte grid of the region.       *)
TypeOK ==
  /\ link \in [Cells -> Nat] /\ size \in [Cells -> Nat]
  /\ pc \in PCs
  /\ prev \in Cells /\ cur \in Cells
  /\ layout \in [size : 1 .. MaxPower, align : PowersOfTwo]
  /\ ptr \in Cells
  /\ free \subseteq Addr
  /\ live \subseteq Blocks

(* The block that a dealloc call has taken back and not listed yet. *)
InFlight == pc \in {"insert", "panic"}

(* The n bytes at a and the m bytes at b do not meet. *)
Disjoint(a, n, b, m) == a + n <= b \/ b + m <= a

(* The n bytes at a are whole granules of the region. *)
InRegion(a, n) == n >= BLOCK_LEN /\ n % BLOCK_LEN = 0 /\ a + n <= End

(* In the links lk, every cell of F and the head links to its successor in *)
(* F.                                                                      *)
Sorted(lk, F) ==
  \A c \in {HEAD} \union F :
    IF lk[c] = Null
    THEN \A d \in F : d <= c
    ELSE /\ lk[c] \in F /\ c < lk[c]
         /\ \A d \in F : d <= c \/ lk[c] <= d

(* Following the links from the head meets the free blocks, each once, in  *)
(* address order (linked_list.rs push, pop and Node::pop; dealloc_inner    *)
(* finds the place of a freed block).                                      *)
FreeListSorted == Sorted(link, free)

(* Memory belongs to one owner: free blocks, live blocks and the block     *)
(* being freed lie in the region and never overlap (alloc_inner,           *)
(* divide_maximally, defragment).                                          *)
NoOverlap ==
  /\ \A a \in free : InRegion(a, size[a])
  /\ \A b \in live : InRegion(b.addr, b.len)
  /\ \A a, d \in free : a = d \/ Disjoint(a, size[a], d, size[d])
  /\ \A b, c \in live : b = c \/ Disjoint(b.addr, b.len, c.addr, c.len)
  /\ \A a \in free, b \in live : Disjoint(a, size[a], b.addr, b.len)
  /\ InFlight =>
       LET n == inner_size(layout.size) IN
       /\ InRegion(ptr, n)
       /\ \A a \in free : Disjoint(ptr, n, a, size[a])
       /\ \A b \in live : Disjoint(ptr, n, b.addr, b.len)

(* No granule is lost: each is in a free block, in a live block or in the  *)
(* block being freed, through splits, merges and the panic of dealloc.     *)
NoLeak ==
  \A x \in Addr :
    \/ \E a \in free : a <= x /\ x < a + size[a]
    \/ \E b \in live : b.addr <= x /\ x < b.addr + b.len
    \/ InFlight /\ ptr <= x /\ x < ptr + inner_size(layout.size)

(* A block is as large as its layout asks and aligned to it, and has the   *)
(* length that dealloc computes again from the layout; so the assertion    *)
(* in dealloc_inner holds (alloc's contract, bin.rs 212-219).              *)
LiveBlocksSuit ==
  /\ \A b \in live :
       /\ b.size \in 1 .. MaxPower /\ b.align \in PowersOfTwo
       /\ b.len = inner_size(b.size) /\ b.len >= b.size
       /\ b.addr % umax(b.align, BLOCK_LEN) = 0
  /\ pc = "insert" => ptr % inner_layout(layout).align = 0

(* The allocator works in its own memory: no step of a call changes a word *)
(* of a block that a caller owns.                                          *)
LiveWordsKept ==
  [][ pc # "idle" =>
        \A b \in live, x \in Addr :
          b.addr <= x /\ x < b.addr + b.len
            => link'[x] = link[x] /\ size'[x] = size[x] ]_vars

(* Exhausted is returned only when no free block starts at an aligned      *)
(* address and is large enough: the two searches miss none.                *)
ExhaustedSearchedAll ==
  [][ exhausted =>
        ~ \E a \in free : /\ a % inner_layout(layout).align = 0
                          /\ size[a] >= inner_layout(layout).size ]_vars

(* In defragment the previous block can be one that was just absorbed; its *)
(* stale header never passes the merge test, so what is merged into is on  *)
(* the list and the block that is unlinked is the current one.             *)
StalePrevNeverMerges ==
  [][ defrag_merge => prev \in free /\ link[prev] = cur ]_vars

(* dealloc of a block it owns panics only when no free block lies above it.*)
PanicOnlyAtTop == pc = "panic" => \A a \in free : a < ptr

(* What the loops know of their two pointers.  The searches keep the cell  *)
(* that links to cur, so the assertion on list.pop() in alloc_inner holds. *)
(* The previous block of defragment is on the list, or is one that was     *)
(* absorbed and does not start at a multiple of twice its size.            *)
LoopInv ==
  /\ pc \in {"exact", "contains", "insert"} =>
       prev \in {HEAD} \union free /\ link[prev] = cur
  /\ pc \in {"divide", "defrag"} => cur \in {Null} \union free
  /\ pc = "defrag" =>
       \/ prev = Null
       \/ prev \in free /\ link[prev] = cur
       \/ prev \in Addr /\ size[prev] > 0 /\ ~ aligned_on(prev, 2 * size[prev])
  /\ pc \in {"exact", "contains"} => layout \in Layouts
  /\ pc = "insert" => prev < ptr
  /\ InFlight => ptr \in Addr

(* The inductive invariant. *)
IInv ==
  /\ TypeOK /\ FreeListSorted /\ NoOverlap /\ NoLeak /\ LiveBlocksSuit
  /\ LoopInv /\ PanicOnlyAtTop

(* What the searches of alloc have ruled out so far. *)
SearchInv ==
  LET l == inner_layout(layout)
      visited == { a \in free : cur = Null \/ a < cur } IN
  /\ pc = "exact"    => \A a \in visited : ~ matches_exact(a, l)
  /\ pc = "contains" => /\ \A a \in free : ~ matches_exact(a, l)
                        /\ \A a \in visited : ~ matches_contains(a, l)

(* Every call ends: it returns or panics.  No loop over the list runs for  *)
(* ever (divide_maximally does not advance after a cut).                   *)
CallsEnd == pc # "idle" ~> pc \in {"idle", "panic"}

(* How many loops a call still enters, and how far its loop is from the    *)
(* end of the region.                                                      *)
LoopsLeft == IF pc = "exact" THEN 3 ELSE IF pc \in {"contains", "insert"} THEN 2
             ELSE IF pc \in {"divide", "defrag"} THEN 1 ELSE 0
Ahead == IF cur = Null THEN 0 ELSE End - cur

(* Every step of a call leaves its loop, moves up in the region, or cuts   *)
(* the block that it stays at.  So no call takes for ever, whatever the    *)
(* size of the region.                                                     *)
CallsProgress ==
  [][ pc \notin {"idle", "panic"} =>
        \/ LoopsLeft' < LoopsLeft
        \/ LoopsLeft' = LoopsLeft /\ Ahead' < Ahead
        \/ LoopsLeft' = LoopsLeft /\ cur' = cur /\ size'[cur] < size[cur] ]_vars

(* The contract of allocator/mod.rs. *)
Contract == INSTANCE Heap WITH Lo <- Start, Hi <- End, Requests <- Layouts

(* The allocator implements the contract. *)
ImplementsHeap == Contract!Spec

(* Said by tests.rs:233, "Just check that deallocation doesn't panic.": a  *)
(* correct dealloc call does not panic.                                    *)
DeallocNeverPanics == pc # "panic"
=============================================================================
