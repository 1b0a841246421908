--------------------------- MODULE MCBinAllocator ---------------------------
(***************************************************************************)
(* BinAllocator on a region of a few granules that starts and ends off the *)
(* 16-byte grid and is not aligned to its own size.                        *)
(***************************************************************************)
EXTENDS BinAllocator

MCLayouts == { [size |-> 1, align |-> 1], [size |-> 20, align |-> 8],
               [size |-> 16, align |-> 32], [size |-> 48, align |-> 16] }
=============================================================================
