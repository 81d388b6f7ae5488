---------------------------- MODULE ValidatorStore ----------------------------
(***************************************************************************)
(* crates/validator-store: the row of one validator, live in memory and in *)
(* the validators file, and the durable operations on it.  Every operation *)
(* runs under save_lock.  One that makes signing less safe writes the file *)
(* first and publishes afterwards; one that makes it safer publishes first.*)
(* A crash between the two halves is, for what it leaves on disk, a crash  *)
(* just before or just after the operation, so each is one step.           *)
(*                                                                         *)
(* Each operation is an action with its result as last parameter.  Its     *)
(* failing outcomes consume I/O faults.                                    *)
(***************************************************************************)
EXTENDS Naturals

CONSTANTS
    MaxFaults,              \* bound on I/O errors in a behaviour
    SlashedPersistAttempts, \* SLASHED_PERSIST_ATTEMPTS
    ReconcileAttempts       \* tries of the two boot calls that enable an elapsed hold

ASSUME StoreAssumption == /\ MaxFaults \in Nat
                          /\ {SlashedPersistAttempts, ReconcileAttempts} \subseteq Nat \ {0}

VARIABLES
    row,        \* the live row
    file,       \* the row in the validators file
    faults      \* I/O errors so far

storeVars == <<row, file, faults>>

(* doppelganger_hold_until is kept as what a reader learns from it: Held   *)
(* before the deadline, Elapsed from it on.                                *)
HoldRows == {"Held", "Elapsed"}

Rows == {"Absent", "Enabled", "Disabled"} \cup HoldRows

(* Gone: moved off the boot path or truncated; no start reads past it.     *)
StoreTypeOK == /\ row \in Rows
               /\ file \in Rows \cup {"Gone"}
               /\ faults \in 0 .. MaxFaults

Fault(n) == /\ faults + n <= MaxFaults
            /\ faults' = faults + n

NoFault == UNCHANGED faults

-----------------------------------------------------------------------------
(* commit_less_safe, then publish.  A write that fails before the rename   *)
(* leaves the file; after it, the snapshot of the live rows is written     *)
(* back; when that fails as well the file is quarantined.                  *)
CommitLessSafe(new, ok) ==
    \/ ok /\ row' = new /\ file' = new /\ NoFault
    \/ /\ ~ok /\ row' = row
       /\ \/ file' \in {file, row} /\ Fault(1)
          \/ file' = "Gone" /\ Fault(2)

(* publish_enabled or publish_doppelganger_hold, then                      *)
(* persist_disabled_snapshot: a failure keeps whichever document is there, *)
(* unless the caller quarantines it.                                       *)
PersistDisabled(new, attempts, quarantine, ok) ==
    /\ row' = new
    /\ \/ ok /\ file' = new /\ NoFault
       \/ /\ ~ok /\ Fault(attempts)
          /\ file' \in IF quarantine THEN {"Gone"} ELSE {file, new}

-----------------------------------------------------------------------------
(* add_validator_durable: an existing row is left alone.                   *)
AddValidatorDurable(new, result) ==
    \/ result = "exists" /\ row # "Absent" /\ UNCHANGED storeVars
    \/ /\ row = "Absent"
       /\ result \in {"inserted", "failed"}
       /\ CommitLessSafe(new, result = "inserted")

(* remove_validator_durable *)
RemoveValidatorDurable(result) ==
    \/ result = "absent" /\ row = "Absent" /\ UNCHANGED storeVars
    \/ /\ row # "Absent"
       /\ result \in {"removed", "failed"}
       /\ CommitLessSafe("Absent", result = "removed")

(* persist_signing_disable: a file that still carries a hold would enable  *)
(* the key at a later start.                                               *)
PersistSigningDisable(ok) ==
    IF row = "Absent" THEN ok /\ UNCHANGED storeVars
    ELSE PersistDisabled("Disabled", 1, row \in HoldRows, ok)

(* disable_slashed *)
DisableSlashed(ok) ==
    IF row = "Absent" THEN ok /\ UNCHANGED storeVars
    ELSE PersistDisabled("Disabled", SlashedPersistAttempts, row \in HoldRows, ok)

\* Mutant: an operator or slashing disable becomes a hold.
BeginDoppelgangerHoldAny(result) ==
    /\ result \in {"armed", "failed"}
    /\ IF row = "Absent" THEN CommitLessSafe("Held", result = "armed")
       ELSE PersistDisabled("Held", 1, TRUE, result = "armed")

(* begin_doppelganger_hold: a plain disable stays, any other row gets the  *)
(* later deadline, and a failure may not leave the old one at boot.        *)
BeginDoppelgangerHold(result) ==
    \/ result = "refused" /\ row = "Disabled" /\ UNCHANGED storeVars
    \/ /\ row # "Disabled"
       /\ result \in {"armed", "failed"}
       /\ IF row = "Absent" THEN CommitLessSafe("Held", result = "armed")
          ELSE PersistDisabled("Held", 1, TRUE, result = "armed")

(* persist_keystore_hold *)
PersistKeystoreHold(result) ==
    IF row = "Absent" THEN AddValidatorDurable("Held", result)
                      ELSE BeginDoppelgangerHold(result)

(* release_doppelganger_hold: only an elapsed hold.                        *)
ReleaseDoppelgangerHold(result) ==
    \/ result = "kept" /\ row # "Elapsed" /\ UNCHANGED storeVars
    \/ /\ row = "Elapsed"
       /\ result \in {"released", "failed"}
       /\ CommitLessSafe("Enabled", result = "released")

(* save_config and the durable operations on other rows write a snapshot   *)
(* of all live rows.                                                       *)
SaveConfig == /\ file # row
              /\ file' = row
              /\ UNCHANGED <<row, faults>>

(* The deadline of a hold passes.                                          *)
AfterDeadline(r) == IF r = "Held" THEN "Elapsed" ELSE r

Elapse == /\ "Held" \in {row, file}
          /\ row' = AfterDeadline(row)
          /\ file' = AfterDeadline(file)
          /\ NoFault
===============================================================================
