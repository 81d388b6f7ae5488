----------------------------- MODULE Interchange -----------------------------
(***************************************************************************)
(* EIP-3076 export (crates/slashing/src/db/interchange.rs) as a function   *)
(* of the database state, and what an importer of the file refuses.  The   *)
(* export runs under the connection mutex, so it sees one state.           *)
(***************************************************************************)
EXTENDS SlashingDb

(* The sources an importer must not go below once rows up to target t are  *)
(* folded into one record, and the rows above t that such a record would   *)
(* contradict.                                                             *)
SourceBound(rows, sourceWm, t) ==
    MaxOf({sourceWm} \cup {r.source : r \in {q \in rows : q.target <= t}})

Contradicted(rows, sourceWm, t) ==
    {r \in rows : r.target > t /\ r.source < SourceBound(rows, sourceWm, t)}

\* Mutant: the watermark pair itself is exported.
TargetBoundAtWatermark(rows, sourceWm, targetWm) == targetWm

(* attestation_synthetic_bounds: raise the bound to the largest            *)
(* contradicted target until none is left.                                 *)
TargetBound(rows, sourceWm, targetWm) ==
    LET raised[t \in Epochs] ==
            LET above == {r.target : r \in Contradicted(rows, sourceWm, t)}
            IN  IF above = {} THEN t ELSE raised[MaxOf(above)]
    IN  raised[targetWm]

\* Mutant: the rows below the floor go, the floor does not.
ExportedAttsUnfloored(rows, sourceWm, targetWm) ==
    [ok |-> TRUE, rows |-> {r \in rows : ~AtOrBelow(r.target, targetWm)}]

(* The attestations of export_validator; unrepresentable floors fail the   *)
(* whole export.                                                           *)
ExportedAtts(rows, sourceWm, targetWm) ==
    LET t == TargetBound(rows, sourceWm, targetWm)
        s == SourceBound(rows, sourceWm, t)
    IN  IF sourceWm = None /\ targetWm = None THEN [ok |-> TRUE, rows |-> rows]
        ELSE IF None \in {sourceWm, targetWm} \/ s > t THEN [ok |-> FALSE, rows |-> {}]
        ELSE [ok |-> TRUE, rows |-> {[source |-> s, target |-> t, root |-> None]}
                                        \cup {r \in rows : r.target > t}]

\* Mutant: the floor is appended beside the rows below it.
ExportedBlksAppended(rows, wm) ==
    IF wm = None THEN rows ELSE rows \cup {[slot |-> wm, root |-> None]}

(* The blocks of export_validator *)
ExportedBlks(rows, wm) ==
    IF wm = None THEN rows
    ELSE {[slot |-> wm, root |-> None]} \cup {r \in rows : r.slot > wm}

-----------------------------------------------------------------------------
(* An importer that follows the conditions of EIP-3076: double votes and   *)
(* proposals, surrounds, and nothing at or below the minimum of the file.  *)

EipRefusesAtt(rows, c) ==
    \/ \E r \in rows : \/ r.target = c.target /\ ~SameRoot(r.root, c.root, TRUE)
                       \/ Surrounding(c, r) \/ Surrounded(c, r)
    \/ rows # {} /\ \A r \in rows : c.source < r.source
    \/ rows # {} /\ \A r \in rows : c.target <= r.target

EipRefusesBlk(rows, c) ==
    \/ \E r \in rows : r.slot = c.slot /\ ~SameRoot(r.root, c.root, TRUE)
    \/ rows # {} /\ \A r \in rows : c.slot <= r.slot

(* This program as the importer, into an empty database                    *)
OwnRefusesAtt(rows, c) ==
    \A kept \in KeptAtts({}, rows) :
        CheckAttestation(kept, Raise(None, {r.source : r \in rows}),
                         Raise(None, {r.target : r \in rows}), c, Strict)
            \notin AcceptedAttestation

OwnRefusesBlk(rows, c) ==
    \A kept \in KeptBlks({}, rows) :
        CheckBlock(kept, Raise(None, {r.slot : r \in rows}), c, Strict) \notin AcceptedBlock

AttWeaker(pk, d) ==
    LET out == ExportedAtts(attestations[pk], watermarks[pk].source, watermarks[pk].target)
    IN  out.ok /\ ~(EipRefusesAtt(out.rows, AttRow(d)) /\ OwnRefusesAtt(out.rows, AttRow(d)))

BlkWeaker(pk, d) ==
    LET out == ExportedBlks(blocks[pk], watermarks[pk].block)
    IN  ~(EipRefusesBlk(out, BlkRow(d)) /\ OwnRefusesBlk(out, BlkRow(d)))

(* Refusals that only say that a candidate is older than every row.  An    *)
(* exported floor below the oldest row replaces that bound.                *)
BelowMinimum == {"TargetBelowMinimum", "SlotBelowMinimum"}

(* What this database refuses, an importer of its export refuses too, be   *)
(* it one that follows the conditions of EIP-3076 or this program: the     *)
(* export's non-weakening invariant, in every state that prunes, imports,  *)
(* floors and compensating deletes lead to.  BelowMinimum is excepted.     *)
ExportNotWeaker ==
    \A pk \in Pubkeys, d \in Duties :
        Accepted(pk, d) \/ Verdict(pk, d) \in BelowMinimum
            \/ IF d.kind = "att" THEN ~AttWeaker(pk, d) ELSE ~BlkWeaker(pk, d)

(* The exported attestations carry the floors: no record is below a        *)
(* watermark, and no two of them are a double vote or a surround, which an *)
(* importer may reject (the reasons export gives for folding the rows up   *)
(* to a fixed point instead of appending the watermarks).                  *)
ExportCarriesFloor ==
    \A pk \in Pubkeys :
        LET wm  == watermarks[pk]
            out == ExportedAtts(attestations[pk], wm.source, wm.target)
        IN  /\ \A r \in out.rows : ~Below(r.source, wm.source) /\ ~Below(r.target, wm.target)
            /\ wm.target # None =>
                   \A r, q \in out.rows :
                       (r.target = q.target => r = q) /\ ~Surrounding(r, q)
===============================================================================
