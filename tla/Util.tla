-------------------------------- MODULE Util --------------------------------
(***************************************************************************)
(* The address arithmetic of kernel/src/allocator/util.rs, on machine      *)
(* words.  A usize is a natural number up to UMax; saturating operations   *)
(* stop at the ends of that range.  Powers of two are listed up to 2^30,   *)
(* the bound MaxPower: the RAM of the board ends below IO_BASE =           *)
(* 0x3F000000 (pi/src/common.rs), so no address, size class or alignment   *)
(* that can be served is larger.                                           *)
(***************************************************************************)
EXTENDS Integers

CONSTANT UMax   \* usize::max_value()

ASSUME UMaxAssumption == UMax \in Nat

MaxPower == 1073741824

PowersOfTwo ==
  { 1, 2, 4, 8, 16, 32, 64, 128, 256, 512, 1024, 2048, 4096, 8192, 16384,
    32768, 65536, 131072, 262144, 524288, 1048576, 2097152, 4194304, 8388608,
    16777216, 33554432, 67108864, 134217728, 268435456, 536870912, MaxPower }

is_power_of_two(n) == n \in PowersOfTwo

(* usize::checked_next_power_of_two, for n <= MaxPower. *)
next_power_of_two(n) ==
  CHOOSE p \in PowersOfTwo :
    p >= n /\ \A q \in PowersOfTwo : q >= n => p <= q

saturating_add(a, b) == IF a + b > UMax THEN UMax ELSE a + b

saturating_sub(a, b) == IF a < b THEN 0 ELSE a - b

umax(a, b) == IF a >= b THEN a ELSE b

(* addr & !(align - 1), for align a power of two. *)
align_down(addr, align) == addr - (addr % align)

align_up(addr, align) ==
  align_down(saturating_sub(saturating_add(addr, align), 1), align)

=============================================================================
