---------------------------------- MODULE Sd ---------------------------------
(***************************************************************************)
(* kernel/src/fs/sd.rs: processes read sectors of the card.  The C driver  *)
(* reports a failure by the result 0 and leaves the code in the global     *)
(* sd_err, which read_sector loads after the call has returned; a process  *)
(* can be interrupted in between, and another one's read can fail.         *)
(*                                                                         *)
(* A u64, an i64 and an i32 keep their widths as multiples of Half, which  *)
(* is 2^31 in the code.                                                    *)
(***************************************************************************)
EXTENDS Integers

CONSTANTS
  Readers,   \* processes
  Half,      \* an i32 is in -Half .. Half - 1
  Sectors,   \* sector numbers asked for
  Sizes,     \* lengths of the buffers
  Codes,     \* what the driver leaves in sd_err
  SECTOR     \* bytes of a sector, 512

ASSUME SdAssumption ==
  /\ Half \in Nat \ {0} /\ SECTOR \in Nat
  /\ Sectors \subseteq Nat /\ Sizes \subseteq Nat
  /\ Codes \subseteq (-Half)..(-1)

VARIABLES
  sd_err,      \* the global
  stage,       \* of each process: where it is in read_sector
  sector,      \* the sector it asked for, during the call of the driver
  argument,    \* what the driver got of it
  outcome,     \* what its last read returned
  since        \* history: codes stored from its own failure on

sd_vars == <<sd_err, stage, sector, argument, outcome, since>>

SdInit ==
  /\ sd_err = 0
  /\ stage = [p \in Readers |-> "idle"]
  /\ sector = [p \in Readers |-> 0] /\ argument = [p \in Readers |-> 0]
  /\ outcome = [p \in Readers |-> "none"] /\ since = [p \in Readers |-> {}]

(* x as i32 *)
as_i32(x) == ((x + Half) % (2 * Half)) - Half

fits(s, len) == s < Half /\ len >= SECTOR

error_from_below(n) ==   \* mutant: off by one
  IF n >= -1 THEN "unreachable" ELSE "Other"

(* Error::from, and the kind of the io::Error that read_sector makes of it. *)
error_from(n) ==
  IF n >= 0 THEN "unreachable" ELSE IF n = -1 THEN "TimedOut" ELSE "Other"

(* The arguments are looked at, and the driver is called. *)
read_sector(p, s, len) ==
  /\ stage[p] = "idle"
  /\ IF fits(s, len)
     THEN /\ stage' = [stage EXCEPT ![p] = "driver"]
          /\ sector' = [sector EXCEPT ![p] = s]
          /\ argument' = [argument EXCEPT ![p] = as_i32(s)]
          /\ outcome' = [outcome EXCEPT ![p] = "none"]
     ELSE /\ outcome' = [outcome EXCEPT ![p] = "InvalidInput"]
          /\ UNCHANGED <<stage, sector, argument>>
  /\ UNCHANGED <<sd_err, since>>

(* sd_readsector reads the sector ... *)
sd_readsector(p) ==
  /\ stage[p] = "driver"
  /\ stage' = [stage EXCEPT ![p] = "idle"]
  /\ outcome' = [outcome EXCEPT ![p] = "Ok"]
  /\ sector' = [sector EXCEPT ![p] = 0] /\ argument' = [argument EXCEPT ![p] = 0]
  /\ UNCHANGED <<sd_err, since>>

(* ... or fails. *)
sd_readsector_err(p, c) ==
  /\ stage[p] = "driver"
  /\ stage' = [stage EXCEPT ![p] = "failed"]
  /\ sd_err' = c
  /\ since' = [q \in Readers |->
                 IF q = p THEN {c}
                 ELSE IF stage[q] = "failed" THEN since[q] \union {c} ELSE since[q]]
  /\ sector' = [sector EXCEPT ![p] = 0] /\ argument' = [argument EXCEPT ![p] = 0]
  /\ UNCHANGED outcome

(* unreachable!() is a panic: the process goes no further. *)
load_sd_err(p) ==
  LET kind == error_from(as_i32(sd_err)) IN
  /\ stage[p] = "failed"
  /\ outcome' = [outcome EXCEPT ![p] = kind]
  /\ stage' = [stage EXCEPT ![p] = IF kind = "unreachable" THEN "panic" ELSE "idle"]
  /\ since' = [since EXCEPT ![p] = {}]
  /\ UNCHANGED <<sd_err, sector, argument>>

SdNext ==
  \E p \in Readers :
    \/ \E s \in Sectors, len \in Sizes : read_sector(p, s, len)
    \/ sd_readsector(p)
    \/ \E c \in Codes : sd_readsector_err(p, c)
    \/ load_sd_err(p)

SdSpec == SdInit /\ [][SdNext]_sd_vars
-----------------------------------------------------------------------------
(* A code that explains an outcome. *)
Explains(c, kind) == kind = IF c = -1 THEN "TimedOut" ELSE "Other"

(* The error that read_sector reports is of a code that some read stored    *)
(* from this read's own failure on: its own code when no other read failed  *)
(* in between, never one left by an earlier read, and never the panic.      *)
ReportsAnError ==
  [][\A p \in Readers : stage[p] = "failed" /\ stage'[p] # "failed"
       => \E c \in since[p] : Explains(c, outcome'[p])]_sd_vars

(* The driver gets the number of the sector that was asked for: the cast to *)
(* an i32 never changes it.                                                 *)
SectorKept == \A p \in Readers : stage[p] = "driver" => argument[p] = sector[p]
=============================================================================
