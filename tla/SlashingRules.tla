--------------------------- MODULE SlashingRules ---------------------------
(***************************************************************************)
(* The pure slashing-protection rules of crates/slashing/src/rules.rs:     *)
(* what check_block and check_attestation answer for one candidate, given  *)
(* the rows stored for its validator and the validator's watermarks.       *)
(*                                                                         *)
(* Rows are records: an attestation row [source, target, root], a block    *)
(* row [slot, root].  A root is an opaque value or None (SQL NULL).  The   *)
(* rules read rows only through the questions of the history traits: the   *)
(* row at a target or slot, a surrounding or surrounded row, the minimum.  *)
(***************************************************************************)
EXTENDS Naturals

CONSTANT None          \* Rust's Option::None: no watermark, no signing root

ASSUME NoneAssumption == None \notin Nat

----------------------------------------------------------------------------
(* Watermark comparisons: an absent watermark never refuses.               *)

AtOrBelow(x, wm) == wm # None /\ x <= wm

Below(x, wm) == wm # None /\ x < wm

(* The root of an existing row lets the candidate through as a re-sign.    *)
(* Two absent roots only match while semantics are not strict.             *)
SameRoot(existing, new, strict) == existing = new /\ (new # None \/ ~strict)

----------------------------------------------------------------------------
(* BlockVerdict and its error variants.                                    *)

AcceptedBlock == {"Stage", "Resign"}

BlockVerdicts == AcceptedBlock \cup
    {"BelowBlockWatermark", "DoubleBlockProposal", "SlotBelowMinimum"}

\* Mutant: the block watermark admits a second proposal at the watermark slot.
CheckBlockEqualityAllowed(rows, wm, c, strict) ==
    IF Below(c.slot, wm) THEN "BelowBlockWatermark"
    ELSE IF \E r \in rows : r.slot = c.slot
         THEN IF \E r \in rows : r.slot = c.slot /\ SameRoot(r.root, c.root, strict)
              THEN "Resign" ELSE "DoubleBlockProposal"
         ELSE "Stage"

CheckBlock(rows, wm, c, strict) ==
    LET here == {r \in rows : r.slot = c.slot}
    IN  IF AtOrBelow(c.slot, wm)                          THEN "BelowBlockWatermark"
        ELSE IF \E r \in here : SameRoot(r.root, c.root, strict) THEN "Resign"
        ELSE IF here # {}                                 THEN "DoubleBlockProposal"
        ELSE IF rows # {} /\ \A r \in rows : c.slot < r.slot THEN "SlotBelowMinimum"
        ELSE "Stage"

----------------------------------------------------------------------------
(* AttestationVerdict and its error variants.                              *)

AcceptedAttestation == {"Stage", "Duplicate"}

AttestationVerdicts == AcceptedAttestation \cup
    {"BelowSourceWatermark", "BelowTargetWatermark", "DoubleVote",
     "SurroundingVote", "SurroundedVote", "TargetBelowMinimum"}

\* The candidate's span strictly contains the row's (history.rs, surrounding_exists).
Surrounding(c, r) == c.source < r.source /\ r.target < c.target

\* The row's span strictly contains the candidate's (surrounded_exists).
Surrounded(c, r) == r.source < c.source /\ c.target < r.target

\* Mutant: the surround query looks at one direction only.
CheckAttestationOneSided(rows, wmSource, wmTarget, c, strict) ==
    LET here == {r \in rows : r.target = c.target}
        dup  == \E r \in here : SameRoot(r.root, c.root, strict)
    IN  IF Below(c.source, wmSource)                  THEN "BelowSourceWatermark"
        ELSE IF AtOrBelow(c.target, wmTarget)         THEN "BelowTargetWatermark"
        ELSE IF here # {} /\ ~dup                     THEN "DoubleVote"
        ELSE IF \E r \in rows : Surrounded(c, r)      THEN "SurroundedVote"
        ELSE IF dup THEN "Duplicate" ELSE "Stage"

CheckAttestation(rows, wmSource, wmTarget, c, strict) ==
    LET here == {r \in rows : r.target = c.target}
        dup  == \E r \in here : SameRoot(r.root, c.root, strict)
    IN  IF Below(c.source, wmSource)                  THEN "BelowSourceWatermark"
        ELSE IF AtOrBelow(c.target, wmTarget)         THEN "BelowTargetWatermark"
        ELSE IF here # {} /\ ~dup                     THEN "DoubleVote"
        ELSE IF \E r \in rows : Surrounding(c, r)     THEN "SurroundingVote"
        ELSE IF \E r \in rows : Surrounded(c, r)      THEN "SurroundedVote"
        ELSE IF dup                                   THEN "Duplicate"
        ELSE IF rows # {} /\ \A r \in rows : c.target < r.target
                                                      THEN "TargetBelowMinimum"
        ELSE "Stage"
=============================================================================
