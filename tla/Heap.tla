-------------------------------- MODULE Heap --------------------------------
(***************************************************************************)
(* What a memory allocator promises its callers (the contract in the       *)
(* comments of kernel/src/allocator/mod.rs, lines 40-81): the storage of a *)
(* successful request is large enough, aligned, inside the memory that the *)
(* allocator manages, and shared with no other live allocation.  Which     *)
(* block is chosen, and when a request fails, is left open.                *)
(***************************************************************************)
EXTENDS Integers

CONSTANTS Lo, Hi,      \* the managed region is Lo .. Hi - 1
          Requests     \* the layouts asked for: [size, align] records

VARIABLE live          \* blocks handed out: [addr, len, size, align]

(* The bytes of two blocks do not meet. *)
Apart(b, c) == b.addr + b.len <= c.addr \/ c.addr + c.len <= b.addr

Suits(b, l) ==
  /\ b.size = l.size /\ b.align = l.align
  /\ b.len >= l.size
  /\ b.addr % l.align = 0
  /\ Lo <= b.addr /\ b.addr + b.len <= Hi

Init == live = {}

(* Some block b that suits the layout, apart from every live one, is       *)
(* handed out.                                                             *)
Allocate(l) ==
  \E b \in live' :
    /\ Suits(b, l)
    /\ \A c \in live : Apart(b, c)
    /\ live' = live \union {b}

Free(b) == live' = live \ {b}

Next == \/ \E l \in Requests : Allocate(l)
        \/ \E b \in live : Free(b)

Spec == Init /\ [][Next]_live

=============================================================================
