------------------------------ MODULE SlashingDb ------------------------------
(***************************************************************************)
(* The slashing-protection database (crates/slashing): the attestation and *)
(* block rows and the watermarks of every validator, and the transactions  *)
(* that change them: reserve, compensating delete, watermark setters,      *)
(* prune and EIP-3076 import.  Each is one SQLite BEGIN IMMEDIATE .. COMMIT *)
(* under the connection mutex, hence one action; how concurrent reserves   *)
(* share a transaction is the subject of module GroupCommit.               *)
(*                                                                         *)
(* A duty stands for the message to sign and for its signing root: the     *)
(* root commits to every field, so two duties have the same root only if   *)
(* they are equal.  payload is what else the message carries (the voted    *)
(* block, the block body).                                                 *)
(***************************************************************************)
EXTENDS SlashingRules

CONSTANTS
    Pubkeys,            \* validators
    Epochs, Slots,      \* the numbers a duty may carry (u64 in the code)
    Payloads,           \* message contents that tell duties apart
    Duties,             \* every message an instance may be asked to sign
    Strict              \* fork_aware_strict: absent roots never match

AttDuties == [kind : {"att"}, source : Epochs, target : Epochs, payload : Payloads]

BlkDuties == [kind : {"block"}, slot : Slots, payload : Payloads]

HasMaximum(S) == \E x \in S : \A y \in S : y <= x

(* The numbers are bounded, so MAX() of a non-empty set of rows exists.    *)
ASSUME NumbersAssumption ==
    /\ Epochs \subseteq Nat /\ \A S \in SUBSET Epochs : S # {} => HasMaximum(S)
    /\ Slots \subseteq Nat  /\ \A S \in SUBSET Slots  : S # {} => HasMaximum(S)

ASSUME DutiesAssumption == /\ Duties \subseteq AttDuties \cup BlkDuties
                           /\ None \notin Duties
                           /\ Strict \in BOOLEAN

VARIABLES
    attestations,       \* table attestations, by pubkey
    blocks,             \* table blocks, by pubkey
    watermarks          \* table watermarks: block slot, source and target epoch

dbVars == <<attestations, blocks, watermarks>>

(* A row keeps the signing root; an imported row may have none.            *)
AttRows ==
    {r \in [source : Epochs, target : Epochs, root : Duties \cup {None}] :
        r.root # None => /\ r.root \in AttDuties
                         /\ r.root.source = r.source /\ r.root.target = r.target}

BlkRows ==
    {r \in [slot : Slots, root : Duties \cup {None}] :
        r.root # None => r.root \in BlkDuties /\ r.root.slot = r.slot}

Watermarks == [block  : Slots \cup {None},
               source : Epochs \cup {None}, target : Epochs \cup {None}]

NoWatermarks == [block |-> None, source |-> None, target |-> None]

DbTypeOK == /\ attestations \in [Pubkeys -> SUBSET AttRows]
            /\ blocks \in [Pubkeys -> SUBSET BlkRows]
            /\ watermarks \in [Pubkeys -> Watermarks]

DbInit == /\ attestations = [pk \in Pubkeys |-> {}]
          /\ blocks = [pk \in Pubkeys |-> {}]
          /\ watermarks = [pk \in Pubkeys |-> NoWatermarks]

-----------------------------------------------------------------------------
(* The row a reservation writes, and the candidate the rules are asked.    *)

AttRow(d) == [source |-> d.source, target |-> d.target, root |-> d]

BlkRow(d) == [slot |-> d.slot, root |-> d]

Verdict(pk, d) ==
    IF d.kind = "att"
    THEN CheckAttestation(attestations[pk], watermarks[pk].source,
                          watermarks[pk].target, AttRow(d), Strict)
    ELSE CheckBlock(blocks[pk], watermarks[pk].block, BlkRow(d), Strict)

Accepted(pk, d) == Verdict(pk, d) \in AcceptedAttestation \cup AcceptedBlock

(* reserve_block / reserve_attestation, the accepting outcomes: a new row  *)
(* is written unless this very duty is already on record.                  *)
Insert(pk, d) ==
    /\ IF d.kind = "att"
       THEN /\ attestations' = [attestations EXCEPT ![pk] = @ \cup {AttRow(d)}]
            /\ UNCHANGED blocks
       ELSE /\ blocks' = [blocks EXCEPT ![pk] = @ \cup {BlkRow(d)}]
            /\ UNCHANGED attestations
    /\ UNCHANGED watermarks

(* The same for several messages <<pk, d>> checked one after the other in  *)
(* one transaction: each sees the rows of the ones before it.              *)
AttRowsOf(ms, pk) == {AttRow(m[2]) : m \in {n \in ms : n[1] = pk /\ n[2].kind = "att"}}

BlkRowsOf(ms, pk) == {BlkRow(m[2]) : m \in {n \in ms : n[1] = pk /\ n[2].kind = "block"}}

VerdictAfter(ms, pk, d) ==
    IF d.kind = "att"
    THEN CheckAttestation(attestations[pk] \cup AttRowsOf(ms, pk), watermarks[pk].source,
                          watermarks[pk].target, AttRow(d), Strict)
    ELSE CheckBlock(blocks[pk] \cup BlkRowsOf(ms, pk), watermarks[pk].block, BlkRow(d), Strict)

InsertAll(ms) ==
    /\ attestations' = [pk \in Pubkeys |-> attestations[pk] \cup AttRowsOf(ms, pk)]
    /\ blocks' = [pk \in Pubkeys |-> blocks[pk] \cup BlkRowsOf(ms, pk)]
    /\ UNCHANGED watermarks

(* delete_reserved_row: exactly the reserved identity, never a watermark.  *)
DeleteReserved(pk, d) ==
    /\ IF d.kind = "att"
       THEN /\ attestations' = [attestations EXCEPT ![pk] = @ \ {AttRow(d)}]
            /\ UNCHANGED blocks
       ELSE /\ blocks' = [blocks EXCEPT ![pk] = @ \ {BlkRow(d)}]
            /\ UNCHANGED attestations
    /\ UNCHANGED watermarks

(* The database remembers d for pk: by its own row or below a floor.       *)
Covered(pk, d) ==
    IF d.kind = "att"
    THEN \/ AttRow(d) \in attestations[pk]
         \/ /\ AtOrBelow(d.target, watermarks[pk].target)
            /\ AtOrBelow(d.source, watermarks[pk].source)
    ELSE \/ BlkRow(d) \in blocks[pk]
         \/ AtOrBelow(d.slot, watermarks[pk].block)

(* No floor lowered: a watermark that was set stays set, at or above.      *)
NotLowered(old, new) == old # None => new # None /\ old <= new

(* Unique indexes (pubkey, gvr, target_epoch) and (pubkey, gvr, slot).     *)
UniqueRows ==
    \A pk \in Pubkeys :
        /\ \A r, s \in attestations[pk] : r.target = s.target => r = s
        /\ \A r, s \in blocks[pk] : r.slot = s.slot => r = s

-----------------------------------------------------------------------------
MaxOf(S) == CHOOSE x \in S : \A y \in S : y <= x

\* Mutant: the floor is stored as an exclusive bound, one past the maximum.
RaiseExclusive(wm, values) ==
    IF values = {} \/ (wm # None /\ MaxOf(values) <= wm) THEN wm ELSE MaxOf(values) + 1

(* raise_watermark_max: the maximum of the old value and the new ones.     *)
Raise(wm, values) ==
    IF values = {} \/ (wm # None /\ MaxOf(values) <= wm) THEN wm ELSE MaxOf(values)

\* Mutant: the setter stores whatever it is given.
SetAttestationWatermarkLowers(pk, s, t) ==
    /\ watermarks' = [watermarks EXCEPT ![pk] = [@ EXCEPT !.source = s, !.target = t]]
    /\ UNCHANGED <<attestations, blocks>>

(* set_block_watermark, set_attestation_watermark: a lower value aborts    *)
(* the transaction, for the pair as a whole.                               *)
SetBlockWatermark(pk, s) ==
    /\ ~Below(s, watermarks[pk].block)
    /\ watermarks' = [watermarks EXCEPT ![pk] = [@ EXCEPT !.block = s]]
    /\ UNCHANGED <<attestations, blocks>>

SetAttestationWatermark(pk, s, t) ==
    /\ ~Below(s, watermarks[pk].source)
    /\ ~Below(t, watermarks[pk].target)
    /\ watermarks' = [watermarks EXCEPT ![pk] = [@ EXCEPT !.source = s, !.target = t]]
    /\ UNCHANGED <<attestations, blocks>>

(* prune_below_watermarks, for all validators in one transaction: before   *)
(* the rows below a target watermark go, the source watermark rises to     *)
(* their largest source.                                                   *)
PrunedAtts(pk) == {r \in attestations[pk] : Below(r.target, watermarks[pk].target)}

PrunedBlks(pk) == {r \in blocks[pk] : Below(r.slot, watermarks[pk].block)}

\* Mutant: rows are deleted without raising the source watermark.
PruneTargetOnly ==
    /\ \E pk \in Pubkeys : watermarks[pk] # NoWatermarks
    /\ attestations' = [pk \in Pubkeys |-> attestations[pk] \ PrunedAtts(pk)]
    /\ blocks' = [pk \in Pubkeys |-> blocks[pk] \ PrunedBlks(pk)]
    /\ UNCHANGED watermarks

Prune ==
    /\ \E pk \in Pubkeys : watermarks[pk] # NoWatermarks
    /\ watermarks' = [pk \in Pubkeys |->
           [watermarks[pk] EXCEPT
               !.source = Raise(watermarks[pk].source, {r.source : r \in PrunedAtts(pk)})]]
    /\ attestations' = [pk \in Pubkeys |-> attestations[pk] \ PrunedAtts(pk)]
    /\ blocks' = [pk \in Pubkeys |-> blocks[pk] \ PrunedBlks(pk)]

-----------------------------------------------------------------------------
(* INSERT .. WHERE NOT EXISTS: a file row whose target (slot) is taken, by *)
(* a stored row or by an earlier row of the file, is dropped.              *)
KeptAtts(old, file) ==
    {new \in SUBSET file :
        /\ \A r \in new : ~\E e \in old \cup (new \ {r}) : e.target = r.target
        /\ \A r \in file : \E e \in old \cup new : e.target = r.target}

KeptBlks(old, file) ==
    {new \in SUBSET file :
        /\ \A r \in new : ~\E e \in old \cup (new \ {r}) : e.slot = r.slot
        /\ \A r \in file : \E e \in old \cup new : e.slot = r.slot}

\* Mutant: only the rows that were inserted raise the watermarks.
ImportKeptOnly(pk, file) ==
    \E atts \in KeptAtts(attestations[pk], file.atts),
       blks \in KeptBlks(blocks[pk], file.blocks) :
        /\ attestations' = [attestations EXCEPT ![pk] = @ \cup atts]
        /\ blocks' = [blocks EXCEPT ![pk] = @ \cup blks]
        /\ watermarks' = [watermarks EXCEPT ![pk] =
               [block  |-> Raise(@.block, {r.slot : r \in blks}),
                source |-> Raise(@.source, {r.source : r \in atts}),
                target |-> Raise(@.target, {r.target : r \in atts})]]

(* import of one validator's record: rows and watermarks in one            *)
(* transaction, the watermarks raised to the maxima of the whole file.     *)
Import(pk, file) ==
    \E atts \in KeptAtts(attestations[pk], file.atts),
       blks \in KeptBlks(blocks[pk], file.blocks) :
        /\ attestations' = [attestations EXCEPT ![pk] = @ \cup atts]
        /\ blocks' = [blocks EXCEPT ![pk] = @ \cup blks]
        /\ watermarks' = [watermarks EXCEPT ![pk] =
               [block  |-> Raise(@.block, {r.slot : r \in file.blocks}),
                source |-> Raise(@.source, {r.source : r \in file.atts}),
                target |-> Raise(@.target, {r.target : r \in file.atts})]]
===============================================================================
