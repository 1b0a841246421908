------------------------------- MODULE MCBoard -------------------------------
(***************************************************************************)
(* The start of the system and its smaller parts, each by itself; part     *)
(* says which one runs.                                                    *)
(***************************************************************************)
EXTENDS Boot, Bump, Sd, Gpio, Traps, TLC

VARIABLE part

MCBumpLayouts == {[size |-> 5, align |-> 1], [size |-> 20, align |-> 8],
                  [size |-> 3, align |-> 32], [size |-> MaxPower, align |-> 1]}

Tag(t, n)     == [tag |-> t, dwords |-> n, start |-> 0, size |-> 0, utf8 |-> TRUE]
Mem(s, n)     == [Tag("MEM", 4) EXCEPT !.start = s, !.size = n]
BrokenCmdline == [Tag("CMDLINE", 3) EXCEPT !.utf8 = FALSE]

(* No MEM tag, one, two; a command line before it, after it, or not UTF-8;  *)
(* an empty CORE tag, and tags that the kernel does not know.               *)
MCAtagMemories ==
  { 0 :> Tag("CORE", 5) @@ 5 :> Mem(0, 60) @@ 9 :> BrokenCmdline @@ 12 :> Tag("NONE", 0),
    0 :> Tag("CORE", 2) @@ 2 :> Tag("CMDLINE", 3) @@ 5 :> Mem(8, 50) @@ 9 :> Mem(0, 4)
      @@ 13 :> Tag("NONE", 0),
    0 :> Tag("CORE", 2) @@ 2 :> BrokenCmdline @@ 5 :> Mem(0, 60) @@ 9 :> Tag("NONE", 0),
    0 :> Tag("CORE", 5) @@ 5 :> Tag("SERIAL", 4) @@ 9 :> Tag("NONE", 0) }

MCInitCodes == {-3, -2, -1, 0}
MCCodes     == {-2, -1}
-----------------------------------------------------------------------------
board_vars == <<part, boot_vars, bump_vars, sd_vars, gpio_vars, trap_vars>>

(* A part that does not run has one initial state. *)
MCInit ==
  /\ part \in {"boot", "bump", "sd", "gpio", "traps"}
  /\ BootInit /\ BumpInit /\ SdInit /\ GpioInit /\ TrapsInit
  /\ part # "boot" => atags[0].dwords = 2 /\ atags[2].utf8
  /\ part # "gpio" => FSEL[0] = 0
  /\ part # "traps" => esr.class = 0

of_boot(A) ==
  part = "boot" /\ A /\ UNCHANGED <<part, bump_vars, sd_vars, gpio_vars, trap_vars>>

MCNext ==
  \/ of_boot(BootNext)
  \/ part = "bump" /\ BumpNext /\ UNCHANGED <<part, boot_vars, sd_vars, gpio_vars, trap_vars>>
  \/ part = "sd" /\ SdNext /\ UNCHANGED <<part, boot_vars, bump_vars, gpio_vars, trap_vars>>
  \/ part = "gpio" /\ GpioNext /\ UNCHANGED <<part, boot_vars, bump_vars, sd_vars, trap_vars>>
  \/ part = "traps" /\ TrapsNext /\ UNCHANGED <<part, boot_vars, bump_vars, sd_vars, gpio_vars>>

MCSpec == MCInit /\ [][MCNext]_board_vars

(* Nothing else has the processor while the kernel starts. *)
MCFairSpec == MCSpec /\ WF_board_vars(of_boot(kernel_step))
=============================================================================
