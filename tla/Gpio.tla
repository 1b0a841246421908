-------------------------------- MODULE Gpio ---------------------------------
(***************************************************************************)
(* pi/src/gpio.rs: handles to the pins of the board.  The type of a handle *)
(* says what its pin is used for, and the pin's three bits in one of six   *)
(* function select registers, shared with nine other pins, make it so.     *)
(***************************************************************************)
EXTENDS Integers

CONSTANTS Pins,        \* pins that have a handle, one each
          Functions,   \* functions given to into_alt
          OldFSEL      \* what the registers can hold at first

ASSUME GpioAssumption ==
  Pins \subseteq 0..53 /\ Functions \subseteq 0..7 /\ OldFSEL \subseteq Nat

VARIABLES
  FSEL,     \* the function select registers
  pull,     \* of each pin: 0 off, 1 down, 2 up
  high,     \* the pins that are driven high
  state,    \* the type of each pin's handle
  chosen    \* the function that its handle was given

gpio_vars == <<FSEL, pull, high, state, chosen>>

GpioInit ==
  /\ \E v \in OldFSEL : FSEL = [i \in 0..5 |-> v]
  /\ pull = [p \in 0..53 |-> 2]
  /\ high = {}
  /\ state = [p \in Pins |-> "Uninitialized"] /\ chosen = [p \in Pins |-> 0]

fsel_reg_index(p) == p \div 10

fsel_reg_shift_narrow(p) == (p % 10) * 2   \* mutant: two bits a pin

fsel_reg_shift(p) == (p % 10) * 3

(* The three bits at shift of a register. *)
function_bits(reg, shift) == (reg \div 2^shift) % 8

fsel_set_function_bits(reg, bits, shift) ==
  reg + (bits - function_bits(reg, shift)) * 2^shift

write_fsel(p, f) ==
  FSEL' = [FSEL EXCEPT ![fsel_reg_index(p)] =
             fsel_set_function_bits(@, f, fsel_reg_shift(p))]

(* Another handle for the pin replaces the one it had. *)
gpio_new(p) ==
  /\ state[p] # "Uninitialized"
  /\ state' = [state EXCEPT ![p] = "Uninitialized"]
  /\ UNCHANGED <<FSEL, pull, high, chosen>>

(* into_alt, into_output and into_input. *)
becomes(p, s, f) ==
  /\ state[p] = "Uninitialized"
  /\ write_fsel(p, f)
  /\ state' = [state EXCEPT ![p] = s] /\ chosen' = [chosen EXCEPT ![p] = f]
  /\ UNCHANGED <<pull, high>>

into_alt(p, f) == becomes(p, "Alt", f)
into_output(p) == becomes(p, "Output", 1)
into_input(p)  == becomes(p, "Input", 0)

(* The pin of bit p % 32 of word p \div 32. *)
pin(index, bit) == 32 * index + bit
pin_index(p) == p \div 32
pin_bit(p)   == p % 32

set(p) ==
  /\ state[p] = "Output"
  /\ high' = high \union {pin(pin_index(p), pin_bit(p))}
  /\ UNCHANGED <<FSEL, pull, state, chosen>>

clear(p) ==
  /\ state[p] = "Output"
  /\ high' = high \ {pin(pin_index(p), pin_bit(p))}
  /\ UNCHANGED <<FSEL, pull, state, chosen>>

(* PUD says no pull, and the pin of the mask is clocked: always one of the  *)
(* first 32.                                                                *)
disable_pull_up_down(p) ==
  /\ state[p] = "Alt"
  /\ pull' = [pull EXCEPT ![pin(0, pin_bit(p))] = 0]
  /\ UNCHANGED <<FSEL, high, state, chosen>>

GpioNext ==
  \E p \in Pins :
    \/ gpio_new(p) \/ into_output(p) \/ into_input(p)
    \/ \E f \in Functions : into_alt(p, f)
    \/ set(p) \/ clear(p) \/ disable_pull_up_down(p)

GpioSpec == GpioInit /\ [][GpioNext]_gpio_vars
-----------------------------------------------------------------------------
(* A handle's type tells the truth: whatever was done to the other pins,    *)
(* also those of the same register, the pin has the function that its       *)
(* handle was given.                                                        *)
HandlesAreTrue ==
  \A p \in Pins : state[p] # "Uninitialized" =>
    function_bits(FSEL[fsel_reg_index(p)], 3 * (p % 10)) = chosen[p]
=============================================================================
