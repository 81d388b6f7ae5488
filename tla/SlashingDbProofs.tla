--------------------------- MODULE SlashingDbProofs ---------------------------
(***************************************************************************)
(* Lemmas about the slashing rules, the transactions of SlashingDb and the *)
(* export of Interchange, which the proofs about SlashableSigning and      *)
(* GroupCommit rest on.                                                    *)
(***************************************************************************)
EXTENDS Interchange, WellFoundedInduction, TLAPS

-----------------------------------------------------------------------------
(* Duties, rows and watermarks.                                            *)

(* A duty is an attestation or a block, and kind tells which. *)
LEMMA DutyKinds ==
    ASSUME NEW d \in Duties
    PROVE  \/ /\ d.kind = "att" /\ d \in AttDuties
              /\ d.source \in Epochs /\ d.target \in Epochs
              /\ AttRow(d) \in AttRows
           \/ /\ d.kind = "block" /\ d \in BlkDuties
              /\ d.slot \in Slots
              /\ BlkRow(d) \in BlkRows
<1>1. CASE d \in AttDuties
  <2>1. d.kind = "att" /\ d.source \in Epochs /\ d.target \in Epochs
    BY <1>1 DEF AttDuties
  <2>2. AttRow(d) \in AttRows
    BY <1>1, <2>1 DEF AttRow, AttRows
  <2> QED BY <1>1, <2>1, <2>2
<1>2. CASE d \in BlkDuties
  <2>1. d.kind = "block" /\ d.slot \in Slots
    BY <1>2 DEF BlkDuties
  <2>2. BlkRow(d) \in BlkRows
    BY <1>2, <2>1 DEF BlkRow, BlkRows
  <2> QED BY <1>2, <2>1, <2>2
<1> QED BY <1>1, <1>2, DutiesAssumption

(* MaxOf picks the maximum of a set that has one. *)
LEMMA MaxOfIsMaximum ==
    ASSUME NEW S, HasMaximum(S)
    PROVE  MaxOf(S) \in S /\ \A y \in S : y <= MaxOf(S)
BY DEF HasMaximum, MaxOf

(* raise_watermark_max never lowers a watermark and ends at or above every *)
(* value it was given.                                                     *)
LEMMA RaiseIsUpperBound ==
    ASSUME NEW V \in SUBSET Nat, NEW wm \in V \cup {None}, NEW S \in SUBSET V,
           S # {} => HasMaximum(S)
    PROVE  /\ Raise(wm, S) \in V \cup {None}
           /\ NotLowered(wm, Raise(wm, S))
           /\ \A x \in S : AtOrBelow(x, Raise(wm, S))
<1>1. CASE S = {}
  BY <1>1, NoneAssumption DEF Raise, NotLowered
<1>2. CASE S # {}
  <2>1. MaxOf(S) \in S /\ \A y \in S : y <= MaxOf(S)
    BY <1>2, MaxOfIsMaximum
  <2>2. MaxOf(S) \in Nat /\ MaxOf(S) # None
    BY <2>1, NoneAssumption
  <2>3. CASE wm # None /\ MaxOf(S) <= wm
    <3>1. Raise(wm, S) = wm /\ wm \in Nat
      BY <2>3 DEF Raise
    <3>2. \A x \in S : x <= wm
      BY <2>1, <2>2, <2>3, <3>1
    <3> QED BY <3>1, <3>2, <2>3 DEF NotLowered, AtOrBelow
  <2>4. CASE ~(wm # None /\ MaxOf(S) <= wm)
    <3>1. Raise(wm, S) = MaxOf(S)
      BY <1>2, <2>4 DEF Raise
    <3> QED BY <3>1, <2>1, <2>2, <2>4 DEF NotLowered, AtOrBelow
  <2> QED BY <2>3, <2>4
<1> QED BY <1>1, <1>2

(* What is at or below a floor stays so when the floor is raised. *)
LEMMA RaisedFloorCovers ==
    ASSUME NEW x \in Nat, NEW old \in Nat \cup {None}, NEW new \in Nat \cup {None},
           NotLowered(old, new), AtOrBelow(x, old)
    PROVE  AtOrBelow(x, new)
BY NoneAssumption DEF NotLowered, AtOrBelow

-----------------------------------------------------------------------------
(* The transactions keep the tables well typed.                            *)

(* The database operations keep the tables and watermarks well typed. *)
LEMMA InsertType ==
    ASSUME DbTypeOK, NEW pk \in Pubkeys, NEW d \in Duties, Insert(pk, d)
    PROVE  DbTypeOK'
BY DutyKinds DEF DbTypeOK, Insert

(* delete_reserved_row keeps the tables well typed. *)
LEMMA DeleteType ==
    ASSUME DbTypeOK, NEW pk \in Pubkeys, NEW d \in Duties, DeleteReserved(pk, d)
    PROVE  DbTypeOK'
BY DEF DbTypeOK, DeleteReserved

(* The watermark setters keep the tables well typed. *)
LEMMA SetWatermarkType ==
    ASSUME DbTypeOK, NEW pk \in Pubkeys,
           \/ \E s \in Slots : SetBlockWatermark(pk, s)
           \/ \E s, t \in Epochs : SetAttestationWatermark(pk, s, t)
    PROVE  DbTypeOK'
<1>1. ASSUME NEW s \in Slots, SetBlockWatermark(pk, s)
      PROVE  watermarks' \in [Pubkeys -> Watermarks]
  BY <1>1 DEF DbTypeOK, SetBlockWatermark, Watermarks
<1>2. ASSUME NEW s \in Epochs, NEW t \in Epochs, SetAttestationWatermark(pk, s, t)
      PROVE  watermarks' \in [Pubkeys -> Watermarks]
  BY <1>2 DEF DbTypeOK, SetAttestationWatermark, Watermarks
<1> QED BY <1>1, <1>2 DEF DbTypeOK, SetBlockWatermark, SetAttestationWatermark

(* A watermark that stays as it is is not lowered. *)
LEMMA NotLoweredReflexive ==
    ASSUME DbTypeOK, NEW pk \in Pubkeys
    PROVE  /\ NotLowered(watermarks[pk].block, watermarks[pk].block)
           /\ NotLowered(watermarks[pk].source, watermarks[pk].source)
           /\ NotLowered(watermarks[pk].target, watermarks[pk].target)
<1>1. /\ watermarks[pk].block \in Nat \cup {None}
      /\ watermarks[pk].source \in Nat \cup {None}
      /\ watermarks[pk].target \in Nat \cup {None}
  BY NumbersAssumption DEF DbTypeOK, Watermarks
<1> QED BY <1>1 DEF NotLowered

(* The source watermark that prune writes. *)
LEMMA PruneRaises ==
    ASSUME DbTypeOK, NEW pk \in Pubkeys
    PROVE  LET new == Raise(watermarks[pk].source, {r.source : r \in PrunedAtts(pk)})
           IN  /\ new \in Epochs \cup {None}
               /\ NotLowered(watermarks[pk].source, new)
               /\ \A r \in PrunedAtts(pk) : AtOrBelow(r.source, new)
<1> DEFINE S == {r.source : r \in PrunedAtts(pk)}
<1>1. S \in SUBSET Epochs
  BY DEF DbTypeOK, PrunedAtts, AttRows
<1>2. watermarks[pk].source \in Epochs \cup {None}
  BY DEF DbTypeOK, Watermarks
<1>3. S # {} => HasMaximum(S)
  BY <1>1, NumbersAssumption
<1>4. Epochs \in SUBSET Nat
  BY NumbersAssumption
<1> HIDE DEF S
<1>5. /\ Raise(watermarks[pk].source, S) \in Epochs \cup {None}
      /\ NotLowered(watermarks[pk].source, Raise(watermarks[pk].source, S))
      /\ \A x \in S : AtOrBelow(x, Raise(watermarks[pk].source, S))
  BY <1>1, <1>2, <1>3, <1>4, RaiseIsUpperBound
<1>6. \A r \in PrunedAtts(pk) : r.source \in S
  BY DEF S
<1> QED BY <1>5, <1>6 DEF S

(* prune_below_watermarks keeps the tables well typed. *)
LEMMA PruneType ==
    ASSUME DbTypeOK, Prune
    PROVE  DbTypeOK'
<1>1. \A pk \in Pubkeys :
        Raise(watermarks[pk].source, {r.source : r \in PrunedAtts(pk)}) \in Epochs \cup {None}
  BY PruneRaises
<1>2. watermarks' \in [Pubkeys -> Watermarks]
  BY <1>1 DEF DbTypeOK, Prune, Watermarks
<1> QED BY <1>2 DEF DbTypeOK, Prune

-----------------------------------------------------------------------------
(* What the rules say of an accepted duty.                                 *)

(* A duty the rules accept is above the watermarks, and its target or slot *)
(* is free or taken by itself.                                             *)
LEMMA AcceptedAttestationFacts ==
    ASSUME DbTypeOK, NEW pk \in Pubkeys, NEW c \in Duties, c.kind = "att", Accepted(pk, c)
    PROVE  /\ ~Below(c.source, watermarks[pk].source)
           /\ ~AtOrBelow(c.target, watermarks[pk].target)
           /\ (\E r \in attestations[pk] : r.target = c.target)
                 => \E r \in attestations[pk] : r.target = c.target /\ r.root = c
           /\ \A r \in attestations[pk] : ~Surrounding(c, r) /\ ~Surrounded(c, r)
           /\ (Verdict(pk, c) = "Stage") <=> ~\E r \in attestations[pk] : r.target = c.target
<1>1. /\ AttRow(c).source = c.source /\ AttRow(c).target = c.target /\ AttRow(c).root = c
      /\ \A r : Surrounding(AttRow(c), r) <=> Surrounding(c, r)
      /\ \A r : Surrounded(AttRow(c), r) <=> Surrounded(c, r)
  BY DEF AttRow, Surrounding, Surrounded
<1>2. \A r \in attestations[pk] : SameRoot(r.root, c, Strict) <=> r.root = c
  BY DutiesAssumption DEF SameRoot
<1> QED
  BY <1>1, <1>2 DEF Accepted, Verdict, CheckAttestation, AcceptedAttestation, AcceptedBlock

(* The same for a block that check_block accepts. *)
LEMMA AcceptedBlockFacts ==
    ASSUME DbTypeOK, NEW pk \in Pubkeys, NEW c \in Duties, c.kind = "block", Accepted(pk, c)
    PROVE  /\ ~AtOrBelow(c.slot, watermarks[pk].block)
           /\ (\E r \in blocks[pk] : r.slot = c.slot)
                 => \E r \in blocks[pk] : r.slot = c.slot /\ r.root = c
           /\ (Verdict(pk, c) = "Stage") <=> ~\E r \in blocks[pk] : r.slot = c.slot
<1>1. BlkRow(c).slot = c.slot /\ BlkRow(c).root = c
  BY DEF BlkRow
<1>2. \A r \in blocks[pk] : SameRoot(r.root, c, Strict) <=> r.root = c
  BY DutiesAssumption DEF SameRoot
<1> QED
  BY <1>1, <1>2 DEF Accepted, Verdict, CheckBlock, AcceptedAttestation, AcceptedBlock

(* A fresh reservation was not on record; an accepted repeat was.          *)
LEMMA StageIffUncovered ==
    ASSUME DbTypeOK, UniqueRows, NEW pk \in Pubkeys, NEW c \in Duties, Accepted(pk, c)
    PROVE  Verdict(pk, c) = "Stage" <=> ~Covered(pk, c)
<1>1. CASE c.kind = "att"
  <2>1. \A r \in attestations[pk] : r.root = c => r = AttRow(c)
    <3> SUFFICES ASSUME NEW r \in attestations[pk], r.root = c PROVE r = AttRow(c)
      OBVIOUS
    <3>1. r \in AttRows
      BY DEF DbTypeOK
    <3> QED BY <3>1, DutiesAssumption DEF AttRows, AttRow
  <2>2. AttRow(c).target = c.target /\ AttRow(c).root = c
    BY DEF AttRow
  <2> QED BY <1>1, <2>1, <2>2, AcceptedAttestationFacts DEF Covered
<1>2. CASE c.kind = "block"
  <2>1. \A r \in blocks[pk] : r.root = c => r = BlkRow(c)
    <3> SUFFICES ASSUME NEW r \in blocks[pk], r.root = c PROVE r = BlkRow(c)
      OBVIOUS
    <3>1. r \in BlkRows
      BY DEF DbTypeOK
    <3> QED BY <3>1, DutiesAssumption DEF BlkRows, BlkRow
  <2>2. BlkRow(c).slot = c.slot /\ BlkRow(c).root = c
    BY DEF BlkRow
  <2> QED BY <1>2, <2>1, <2>2, AcceptedBlockFacts DEF Covered
<1> QED BY <1>1, <1>2, DutyKinds

-----------------------------------------------------------------------------
(* What each transaction keeps.                                            *)

(* No duty on record is forgotten by a step. *)
Remembers == \A pk \in Pubkeys, d \in Duties : Covered(pk, d) => Covered(pk, d)'

FloorsHold == \A pk \in Pubkeys :
    /\ NotLowered(watermarks[pk].block, watermarks'[pk].block)
    /\ NotLowered(watermarks[pk].source, watermarks'[pk].source)
    /\ NotLowered(watermarks[pk].target, watermarks'[pk].target)

(* Raised floors keep what they cover; rows may go only below a floor. *)
LEMMA FloorsRemember ==
    ASSUME DbTypeOK, DbTypeOK', FloorsHold,
           \A pk \in Pubkeys :
              /\ \A r \in attestations[pk] :
                    \/ r \in attestations'[pk]
                    \/ /\ AtOrBelow(r.target, watermarks'[pk].target)
                       /\ AtOrBelow(r.source, watermarks'[pk].source)
              /\ \A r \in blocks[pk] :
                    r \in blocks'[pk] \/ AtOrBelow(r.slot, watermarks'[pk].block)
    PROVE  Remembers
<1> SUFFICES ASSUME NEW pk \in Pubkeys, NEW d \in Duties, Covered(pk, d)
             PROVE  Covered(pk, d)'
  BY DEF Remembers
<1>0. /\ watermarks[pk].block \in Nat \cup {None} /\ watermarks'[pk].block \in Nat \cup {None}
      /\ watermarks[pk].source \in Nat \cup {None} /\ watermarks'[pk].source \in Nat \cup {None}
      /\ watermarks[pk].target \in Nat \cup {None} /\ watermarks'[pk].target \in Nat \cup {None}
  BY NumbersAssumption DEF DbTypeOK, Watermarks
<1>1. CASE d.kind = "att"
  <2>1. d.source \in Nat /\ d.target \in Nat
    BY <1>1, DutyKinds, NumbersAssumption
  <2>2. CASE AttRow(d) \in attestations[pk]
    <3>1. AttRow(d).target = d.target /\ AttRow(d).source = d.source
      BY DEF AttRow
    <3> QED BY <1>1, <2>2, <3>1 DEF Covered
  <2>3. CASE /\ AtOrBelow(d.target, watermarks[pk].target)
             /\ AtOrBelow(d.source, watermarks[pk].source)
    <3>1. /\ AtOrBelow(d.target, watermarks'[pk].target)
          /\ AtOrBelow(d.source, watermarks'[pk].source)
      BY <1>0, <2>1, <2>3, RaisedFloorCovers DEF FloorsHold
    <3> QED BY <1>1, <3>1 DEF Covered
  <2> QED BY <1>1, <2>2, <2>3 DEF Covered
<1>2. CASE d.kind = "block"
  <2>1. d.slot \in Nat
    BY <1>2, DutyKinds, NumbersAssumption
  <2>2. CASE BlkRow(d) \in blocks[pk]
    <3>1. BlkRow(d).slot = d.slot
      BY DEF BlkRow
    <3> QED BY <1>2, <2>2, <3>1 DEF Covered
  <2>3. CASE AtOrBelow(d.slot, watermarks[pk].block)
    <3>1. AtOrBelow(d.slot, watermarks'[pk].block)
      BY <1>0, <2>1, <2>3, RaisedFloorCovers DEF FloorsHold
    <3> QED BY <1>2, <3>1 DEF Covered
  <2> QED BY <1>2, <2>2, <2>3 DEF Covered
<1> QED BY <1>1, <1>2, DutyKinds

(* A fresh row is remembered, alone at its target or slot. *)
LEMMA InsertKeeps ==
    ASSUME DbTypeOK, UniqueRows, NEW pk \in Pubkeys, NEW d \in Duties,
           Accepted(pk, d), Verdict(pk, d) = "Stage", Insert(pk, d)
    PROVE  UniqueRows' /\ FloorsHold /\ Remembers /\ Covered(pk, d)'
<1>1. DbTypeOK'
  BY InsertType
<1>2. FloorsHold
  BY NotLoweredReflexive DEF FloorsHold, Insert
<1>3. CASE d.kind = "att"
  <2>1. attestations' = [attestations EXCEPT ![pk] = @ \cup {AttRow(d)}] /\ blocks' = blocks
    BY <1>3 DEF Insert
  <2>2. ~\E r \in attestations[pk] : r.target = d.target
    BY <1>3, AcceptedAttestationFacts
  <2>3. AttRow(d).target = d.target
    BY DEF AttRow
  <2>4. UniqueRows'
    BY <2>1, <2>2, <2>3 DEF UniqueRows, DbTypeOK
  <2>5. Remembers
    BY <1>1, <1>2, <2>1, FloorsRemember DEF DbTypeOK
  <2>6. Covered(pk, d)'
    BY <1>3, <2>1 DEF Covered, DbTypeOK
  <2> QED BY <1>2, <2>4, <2>5, <2>6
<1>4. CASE d.kind = "block"
  <2>1. blocks' = [blocks EXCEPT ![pk] = @ \cup {BlkRow(d)}] /\ attestations' = attestations
    BY <1>4 DEF Insert
  <2>2. ~\E r \in blocks[pk] : r.slot = d.slot
    BY <1>4, AcceptedBlockFacts
  <2>3. BlkRow(d).slot = d.slot
    BY DEF BlkRow
  <2>4. UniqueRows'
    BY <2>1, <2>2, <2>3 DEF UniqueRows, DbTypeOK
  <2>5. Remembers
    BY <1>1, <1>2, <2>1, FloorsRemember DEF DbTypeOK
  <2>6. Covered(pk, d)'
    BY <1>4, <2>1 DEF Covered, DbTypeOK
  <2> QED BY <1>2, <2>4, <2>5, <2>6
<1> QED BY <1>3, <1>4, DutyKinds

(* The compensating delete forgets one duty at most: its own. *)
LEMMA DeleteKeepsOthers ==
    ASSUME DbTypeOK, UniqueRows, NEW pk \in Pubkeys, NEW d \in Duties, DeleteReserved(pk, d)
    PROVE  /\ UniqueRows' /\ FloorsHold
           /\ \A k \in Pubkeys, e \in Duties :
                 (k # pk \/ e # d) /\ Covered(k, e) => Covered(k, e)'
<1>1. FloorsHold
  BY NotLoweredReflexive DEF FloorsHold, DeleteReserved
<1>2. UniqueRows'
  BY DEF UniqueRows, DeleteReserved, DbTypeOK
<1>3. ASSUME NEW k \in Pubkeys, NEW e \in Duties, k # pk \/ e # d, Covered(k, e)
      PROVE  Covered(k, e)'
  <2>1. AttRow(e) = AttRow(d) => e = d
    BY DEF AttRow
  <2>2. BlkRow(e) = BlkRow(d) => e = d
    BY DEF BlkRow
  <2> QED BY <1>3, <2>1, <2>2 DEF Covered, DeleteReserved, DbTypeOK
<1> QED BY <1>1, <1>2, <1>3

(* A watermark setter forgets nothing: rows stay and floors only rise. *)
LEMMA SetWatermarkKeeps ==
    ASSUME DbTypeOK, UniqueRows, NEW pk \in Pubkeys,
           \/ \E s \in Slots : SetBlockWatermark(pk, s)
           \/ \E s, t \in Epochs : SetAttestationWatermark(pk, s, t)
    PROVE  UniqueRows' /\ FloorsHold /\ Remembers
<1>1. DbTypeOK'
  BY SetWatermarkType
<1>2. attestations' = attestations /\ blocks' = blocks
  BY DEF SetBlockWatermark, SetAttestationWatermark
<1>0. /\ watermarks[pk].block \in Nat \cup {None}
      /\ watermarks[pk].source \in Nat \cup {None}
      /\ watermarks[pk].target \in Nat \cup {None}
  BY NumbersAssumption DEF DbTypeOK, Watermarks
<1>3. FloorsHold
  <2>1. ASSUME NEW s \in Slots, SetBlockWatermark(pk, s)
        PROVE  FloorsHold
    <3>1. watermarks' = [watermarks EXCEPT ![pk] = [@ EXCEPT !.block = s]] /\ s \in Nat
      BY <2>1, NumbersAssumption DEF SetBlockWatermark
    <3>2. /\ watermarks'[pk].block = s
          /\ watermarks'[pk].source = watermarks[pk].source
          /\ watermarks'[pk].target = watermarks[pk].target
          /\ \A k \in Pubkeys : k # pk => watermarks'[k] = watermarks[k]
      BY <3>1 DEF DbTypeOK, Watermarks
    <3>3. NotLowered(watermarks[pk].block, s)
      BY <1>0, <2>1, <3>1, NoneAssumption DEF SetBlockWatermark, Below, NotLowered
    <3> QED BY <3>2, <3>3, NotLoweredReflexive DEF FloorsHold
  <2>2. ASSUME NEW s \in Epochs, NEW t \in Epochs, SetAttestationWatermark(pk, s, t)
        PROVE  FloorsHold
    <3>1. /\ watermarks' = [watermarks EXCEPT ![pk] = [@ EXCEPT !.source = s, !.target = t]]
          /\ s \in Nat /\ t \in Nat
      BY <2>2, NumbersAssumption DEF SetAttestationWatermark
    <3>2. /\ watermarks'[pk].block = watermarks[pk].block
          /\ watermarks'[pk].source = s
          /\ watermarks'[pk].target = t
          /\ \A k \in Pubkeys : k # pk => watermarks'[k] = watermarks[k]
      BY <3>1 DEF DbTypeOK, Watermarks
    <3>0. ~Below(s, watermarks[pk].source) /\ ~Below(t, watermarks[pk].target)
      BY <2>2 DEF SetAttestationWatermark
    <3>3. NotLowered(watermarks[pk].source, s) /\ NotLowered(watermarks[pk].target, t)
      BY <1>0, <3>0, <3>1, NoneAssumption DEF Below, NotLowered
    <3> QED BY <3>2, <3>3, NotLoweredReflexive DEF FloorsHold
  <2> QED BY <2>1, <2>2
<1>4. Remembers
  BY <1>1, <1>2, <1>3, FloorsRemember
<1> QED BY <1>2, <1>3, <1>4 DEF UniqueRows

(* Prune forgets nothing: the rows it deletes lie below the target         *)
(* watermark and below the source watermark it raises first.               *)
LEMMA PruneKeeps ==
    ASSUME DbTypeOK, UniqueRows, Prune
    PROVE  UniqueRows' /\ FloorsHold /\ Remembers
<1>1. DbTypeOK'
  BY PruneType
<1>2. \A pk \in Pubkeys :
        /\ watermarks'[pk].block = watermarks[pk].block
        /\ watermarks'[pk].source =
              Raise(watermarks[pk].source, {r.source : r \in PrunedAtts(pk)})
        /\ watermarks'[pk].target = watermarks[pk].target
        /\ attestations'[pk] = attestations[pk] \ PrunedAtts(pk)
        /\ blocks'[pk] = blocks[pk] \ PrunedBlks(pk)
  BY DEF Prune, DbTypeOK, Watermarks
<1>3. FloorsHold
  BY <1>2, PruneRaises, NotLoweredReflexive DEF FloorsHold
<1>4. \A pk \in Pubkeys :
        /\ \A r \in attestations[pk] :
              \/ r \in attestations'[pk]
              \/ /\ AtOrBelow(r.target, watermarks'[pk].target)
                 /\ AtOrBelow(r.source, watermarks'[pk].source)
        /\ \A r \in blocks[pk] :
              r \in blocks'[pk] \/ AtOrBelow(r.slot, watermarks'[pk].block)
  <2> SUFFICES ASSUME NEW pk \in Pubkeys
               PROVE /\ \A r \in PrunedAtts(pk) :
                           /\ AtOrBelow(r.target, watermarks[pk].target)
                           /\ AtOrBelow(r.source, watermarks'[pk].source)
                     /\ \A r \in PrunedBlks(pk) : AtOrBelow(r.slot, watermarks[pk].block)
    BY <1>2
  <2>1. /\ \A r \in PrunedAtts(pk) : r.target \in Nat /\ Below(r.target, watermarks[pk].target)
        /\ \A r \in PrunedBlks(pk) : r.slot \in Nat /\ Below(r.slot, watermarks[pk].block)
    BY NumbersAssumption DEF PrunedAtts, PrunedBlks, DbTypeOK, AttRows, BlkRows
  <2>2. /\ watermarks[pk].block \in Nat \cup {None}
        /\ watermarks[pk].target \in Nat \cup {None}
    BY NumbersAssumption DEF DbTypeOK, Watermarks
  <2>3. \A r \in PrunedAtts(pk) : AtOrBelow(r.source, watermarks'[pk].source)
    BY <1>2, PruneRaises
  <2> QED BY <2>1, <2>2, <2>3 DEF Below, AtOrBelow
<1>5. Remembers
  BY <1>1, <1>3, <1>4, FloorsRemember
<1>6. UniqueRows'
  BY <1>2 DEF UniqueRows
<1> QED BY <1>3, <1>5, <1>6

-----------------------------------------------------------------------------
(* The export of Interchange.                                              *)

(* The least number of a non-empty set.                                    *)
LEMMA LeastNumber ==
    ASSUME NEW S \in SUBSET Nat, S # {}
    PROVE  \E x \in S : \A y \in S : x <= y
<1>1. PICK R : R = OpToRel(<, Nat)
  OBVIOUS
<1>2. IsWellFoundedOn(R, Nat)
  BY <1>1, NatLessThanWellFounded
<1>3. PICK x \in S : \A y \in S : <<y, x>> \notin R
  BY <1>2, WFMin
<1>4. \A y \in S : ~(y < x)
  BY <1>1, <1>3 DEF OpToRel
<1> QED BY <1>4

(* The source bound is reached and bounds the floor and the folded rows,   *)
(* and it rises with the rows that are folded.                             *)
LEMMA SourceBoundFacts ==
    ASSUME NEW rows \in SUBSET AttRows, NEW sw \in Epochs
    PROVE  /\ \A t \in Epochs :
                 /\ SourceBound(rows, sw, t) \in Epochs /\ sw <= SourceBound(rows, sw, t)
                 /\ \A r \in rows : r.target <= t => r.source <= SourceBound(rows, sw, t)
           /\ \A t, u \in Epochs : t <= u => SourceBound(rows, sw, t) <= SourceBound(rows, sw, u)
<1> DEFINE Sources(t) == {sw} \cup {r.source : r \in {q \in rows : q.target <= t}}
<1>0. \A r \in rows : r.source \in Epochs /\ r.target \in Epochs /\ r.source \in Nat /\ r.target \in Nat
  BY NumbersAssumption DEF AttRows
<1>1. ASSUME NEW t \in Epochs
      PROVE  /\ SourceBound(rows, sw, t) \in Sources(t) /\ Sources(t) \subseteq Epochs
             /\ \A y \in Sources(t) : y <= SourceBound(rows, sw, t)
  <2>1. Sources(t) \subseteq Epochs /\ Sources(t) # {}
    BY <1>0
  <2>2. HasMaximum(Sources(t))
    BY <2>1, NumbersAssumption
  <2>3. SourceBound(rows, sw, t) = MaxOf(Sources(t))
    BY DEF SourceBound
  <2> HIDE DEF Sources
  <2> QED BY <2>1, <2>2, <2>3, MaxOfIsMaximum
<1>2. ASSUME NEW t \in Epochs, NEW u \in Epochs, t <= u
      PROVE  SourceBound(rows, sw, t) <= SourceBound(rows, sw, u)
  <2>1. Sources(t) \subseteq Sources(u)
    BY <1>0, <1>2, NumbersAssumption
  <2> HIDE DEF Sources
  <2> QED BY <1>1, <2>1
<1>3. ASSUME NEW t \in Epochs
      PROVE  /\ SourceBound(rows, sw, t) \in Epochs /\ sw <= SourceBound(rows, sw, t)
             /\ \A r \in rows : r.target <= t => r.source <= SourceBound(rows, sw, t)
  BY <1>1
<1> QED BY <1>2, <1>3

(* The loop of attestation_synthetic_bounds ends, at or above the floor    *)
(* and with a bound that contradicts no row.                               *)
LEMMA TargetBoundCloses ==
    ASSUME NEW rows \in SUBSET AttRows, NEW sw \in Epochs, NEW tw \in Epochs
    PROVE  LET b == TargetBound(rows, sw, tw)
           IN  b \in Epochs /\ tw <= b /\ Contradicted(rows, sw, b) = {}
<1> DEFINE Con(t) == Contradicted(rows, sw, t)
           Above(t) == {r.target : r \in Con(t)}
           Closed(t) == {u \in Epochs : t <= u /\ Con(u) = {}}
           Least(t) == CHOOSE u \in Closed(t) : \A v \in Closed(t) : u <= v
<1>0. Epochs \subseteq Nat /\ \A r \in rows : r.target \in Epochs /\ r.source \in Epochs
  BY NumbersAssumption DEF AttRows
<1>1. ASSUME NEW t \in Epochs, Con(t) # {}
      PROVE  /\ MaxOf(Above(t)) \in Epochs /\ t < MaxOf(Above(t))
             /\ \E r \in Con(t) : r.target = MaxOf(Above(t))
  <2>1. Above(t) \subseteq Epochs /\ Above(t) # {}
    BY <1>0, <1>1 DEF Contradicted
  <2>2. HasMaximum(Above(t))
    BY <2>1, NumbersAssumption
  <2>3. MaxOf(Above(t)) \in Above(t)
    <3> HIDE DEF Above
    <3> QED BY <2>2, MaxOfIsMaximum
  <2>4. PICK r \in Con(t) : r.target = MaxOf(Above(t))
    BY <2>3
  <2>5. r.target > t
    BY DEF Contradicted
  <2> QED BY <1>0, <2>1, <2>3, <2>4, <2>5
(* A closed bound is never passed. *)
<1>2. ASSUME NEW t \in Epochs, Con(t) # {}, NEW u \in Closed(t) PROVE MaxOf(Above(t)) <= u
  <2>1. PICK r \in Con(t) : r.target = MaxOf(Above(t))
    BY <1>1, <1>2
  <2>2. r \in rows /\ r.source < SourceBound(rows, sw, t) /\ r.source \in Nat /\ r.target \in Nat
    BY <1>0 DEF Contradicted
  <2>3. /\ SourceBound(rows, sw, t) <= SourceBound(rows, sw, u)
        /\ SourceBound(rows, sw, t) \in Nat /\ SourceBound(rows, sw, u) \in Nat
    BY <1>0, SourceBoundFacts
  <2>4. r.source < SourceBound(rows, sw, u)
    BY <2>2, <2>3
  <2>5. ~(r.target > u)
    <3>1. Con(u) = {}
      OBVIOUS
    <3> QED BY <2>2, <2>4, <3>1 DEF Contradicted
  <2>6. u \in Nat
    BY <1>0
  <2> QED BY <2>1, <2>2, <2>5, <2>6
<1>3. ASSUME NEW t \in Epochs PROVE Closed(t) # {}
  <2>1. HasMaximum({t} \cup {r.target : r \in rows})
    <3>1. {t} \cup {r.target : r \in rows} \in SUBSET Epochs /\ {t} \cup {r.target : r \in rows} # {}
      BY <1>0
    <3> QED BY <3>1, NumbersAssumption
  <2>5. PICK u \in {t} \cup {r.target : r \in rows} : \A y \in {t} \cup {r.target : r \in rows} : y <= u
    BY <2>1 DEF HasMaximum
  <2>2. u \in Epochs /\ t <= u /\ \A r \in rows : r.target <= u
    BY <1>0, <2>5
  <2>6. u \in Nat /\ \A r \in rows : r.target \in Nat
    BY <1>0, <2>2
  <2>3. \A r \in rows : ~(r.target > u)
    BY <2>2, <2>6
  <2>4. Con(u) = {}
    BY <2>3 DEF Contradicted
  <2> QED BY <2>2, <2>4
<1>4. ASSUME NEW t \in Epochs PROVE Least(t) \in Closed(t) /\ \A v \in Closed(t) : Least(t) <= v
  <2>1. Closed(t) \in SUBSET Nat /\ Closed(t) # {}
    BY <1>0, <1>3
  <2>2. \E u \in Closed(t) : \A v \in Closed(t) : u <= v
    <3> HIDE DEF Closed
    <3> QED BY <2>1, LeastNumber
  <2> QED BY <2>2, Zenon
<1> DEFINE Step(f) == [t \in Epochs |-> LET above == Above(t) IN IF above = {} THEN t ELSE f[MaxOf(above)]]
           raised == CHOOSE f : f = Step(f)
<1>5. TargetBound(rows, sw, tw) = raised[tw]
  BY Zenon DEF TargetBound
<1>6. \A t \in Epochs : Above(t) = {} <=> Con(t) = {}
  OBVIOUS
<1>7. \E f : f = Step(f)
  <2> DEFINE g == [t \in Epochs |-> Least(t)]
  <2>1. ASSUME NEW t \in Epochs PROVE g[t] = (IF Above(t) = {} THEN t ELSE g[MaxOf(Above(t))])
    <3>1. CASE Con(t) = {}
      <4>1. t \in Closed(t)
        BY <1>0, <3>1
      <4>2. Least(t) <= t /\ t <= Least(t) /\ Least(t) \in Nat
        BY <1>0, <1>4, <4>1
      <4>3. Least(t) = t
        <5> HIDE DEF Least
        <5> QED BY <1>0, <4>2
      <4> QED BY <1>6, <3>1, <4>3
    <3>2. CASE Con(t) # {}
      <4>1. PICK m \in Epochs : m = MaxOf(Above(t)) /\ t < m /\ \A u \in Closed(t) : m <= u
        BY <1>1, <1>2, <3>2
      <4>2. Closed(m) = Closed(t)
        <5>1. \A u \in Epochs : u \in Nat
          BY <1>0
        <5>2. \A u \in Epochs : m <= u => t <= u
          BY <4>1, <5>1
        <5>3. \A u \in Epochs : t <= u /\ Con(u) = {} => m <= u
          BY <4>1
        <5> HIDE DEF Con
        <5> QED BY <5>2, <5>3
      <4>3. Least(m) = Least(t)
        BY <4>2, Zenon
      <4>4. g[t] = Least(t) /\ g[m] = Least(m)
        OBVIOUS
      <4>5. Above(t) # {}
        BY <1>6, <3>2
      <4> QED BY <4>1, <4>3, <4>4, <4>5, Zenon
    <3> QED BY <3>1, <3>2
  <2>2. g = Step(g)
    <3> HIDE DEF Least, Above
    <3> QED BY <2>1
  <2> QED BY <2>2, Zenon
<1>8. raised = Step(raised)
  BY <1>7, Zenon
<1> HIDE DEF raised
<1>9. \A t \in Epochs : raised[t] = (IF Above(t) = {} THEN t ELSE raised[MaxOf(Above(t))])
  <2> HIDE DEF Above
  <2> QED BY <1>8
<1> DEFINE Good(t) == raised[t] \in Epochs /\ t <= raised[t] /\ Con(raised[t]) = {}
           Bad == {t \in Epochs : ~Good(t)}
<1>10. Bad = {}
  <2>1. SUFFICES ASSUME Bad # {} PROVE FALSE
    OBVIOUS
  <2>2. PICK t \in Bad : \A u \in Bad : u <= t
    <3>1. HasMaximum(Bad)
      BY <2>1, NumbersAssumption
    <3> QED BY <3>1 DEF HasMaximum
  <2>3. CASE Con(t) = {}
    <3>1. raised[t] = t
      BY <1>6, <1>9, <2>3
    <3>2. t \in Nat /\ t \in Epochs
      BY <1>0
    <3>3. Good(t)
      BY <2>3, <3>1, <3>2
    <3> QED BY <3>3
  <2>4. CASE Con(t) # {}
    <3>1. PICK m \in Epochs : m = MaxOf(Above(t)) /\ t < m
      BY <1>1, <2>4
    <3>2. m \notin Bad
      BY <1>0, <2>2, <3>1
    <3>3. Good(m)
      BY <3>2
    <3>4. raised[t] = raised[m]
      BY <1>6, <1>9, <2>4, <3>1
    <3>5. t \in Nat /\ m \in Nat /\ raised[m] \in Nat
      BY <1>0, <3>3
    <3>6. Good(t)
      BY <3>1, <3>3, <3>4, <3>5
    <3> QED BY <3>6
  <2> QED BY <2>3, <2>4
<1> QED BY <1>5, <1>10

(* One record for the floors and for all rows up to target t, which the    *)
(* rows above do not contradict, and those rows.                           *)
Folded(rows, sw, tw, out, s, t) ==
    /\ sw \in Nat /\ tw \in Nat /\ sw <= s /\ tw <= t
    /\ \A r \in rows : IF r.target <= t THEN r.source <= s ELSE s <= r.source
    /\ out = {[source |-> s, target |-> t, root |-> None]} \cup {r \in rows : r.target > t}

(* What an export of attestations that succeeds consists of: the rows, or  *)
(* a folded record and the rows above it.                                  *)
LEMMA ExportShape ==
    ASSUME NEW rows \in SUBSET AttRows, NEW sw \in Epochs \cup {None}, NEW tw \in Epochs \cup {None},
           ExportedAtts(rows, sw, tw).ok
    PROVE  \/ sw = None /\ tw = None /\ ExportedAtts(rows, sw, tw).rows = rows
           \/ \E s, t \in Epochs : Folded(rows, sw, tw, ExportedAtts(rows, sw, tw).rows, s, t)
<1>1. CASE sw = None /\ tw = None
  BY <1>1 DEF ExportedAtts
<1>2. CASE ~(sw = None /\ tw = None)
  <2>1. sw # None /\ tw # None
    BY <1>2 DEF ExportedAtts
  <2>2. sw \in Epochs /\ tw \in Epochs
    BY <2>1
  <2>3. PICK t \in Epochs : t = TargetBound(rows, sw, tw) /\ tw <= t /\ Contradicted(rows, sw, t) = {}
    BY <2>2, TargetBoundCloses
  <2>4. PICK s \in Epochs : /\ s = SourceBound(rows, sw, t) /\ sw <= s
                            /\ \A r \in rows : r.target <= t => r.source <= s
    BY <2>2, SourceBoundFacts
  <2>5. ExportedAtts(rows, sw, tw).rows =
          {[source |-> s, target |-> t, root |-> None]} \cup {r \in rows : r.target > t}
    BY <2>1, <2>3, <2>4 DEF ExportedAtts
  <2>6. \A r \in rows : r.source \in Nat /\ r.target \in Nat
    BY NumbersAssumption DEF AttRows
  <2>7. s \in Nat /\ t \in Nat /\ sw \in Nat /\ tw \in Nat
    BY <2>2, NumbersAssumption
  <2>8. \A r \in rows : ~(r.target > t /\ r.source < s)
    BY <2>3, <2>4 DEF Contradicted
  <2>9. \A r \in rows : IF r.target <= t THEN r.source <= s ELSE s <= r.source
    BY <2>4, <2>6, <2>7, <2>8
  <2> QED BY <2>3, <2>4, <2>5, <2>7, <2>9 DEF Folded
<1> QED BY <1>1, <1>2

(* Why this database refuses an attestation, being older than every row    *)
(* aside.                                                                  *)
AttRefusal(rows, sw, tw, c) ==
    \/ Below(c.source, sw) \/ AtOrBelow(c.target, tw)
    \/ \E r \in rows : \/ r.target = c.target /\ r.root # c.root
                       \/ Surrounding(c, r) \/ Surrounded(c, r)

(* check_attestation refuses for no other reason.                          *)
LEMMA RefusedAtt ==
    ASSUME NEW rows, NEW sw, NEW tw, NEW c, c.root # None,
           CheckAttestation(rows, sw, tw, c, Strict) \notin AcceptedAttestation \cup BelowMinimum
    PROVE  AttRefusal(rows, sw, tw, c)
  BY DEF CheckAttestation, AcceptedAttestation, BelowMinimum, AttRefusal, SameRoot

(* An import into an empty database refuses whatever its floors refuse.    *)
LEMMA ImporterFloors ==
    ASSUME NEW rows, {r.source : r \in rows} \subseteq Epochs, {r.target : r \in rows} \subseteq Epochs,
           NEW c, c.source \in Nat, c.target \in Nat,
           \E r \in rows : c.source < r.source \/ c.target <= r.target
    PROVE  OwnRefusesAtt(rows, c)
<1>1. PICK sources \in SUBSET Epochs : sources = {r.source : r \in rows}
  OBVIOUS
<1>2. PICK targets \in SUBSET Epochs : targets = {r.target : r \in rows}
  OBVIOUS
<1>3. PICK r \in rows : c.source < r.source \/ c.target <= r.target
  OBVIOUS
<1>4. r.source \in sources /\ r.target \in targets
  BY <1>1, <1>2
<1>5. /\ sources # {} => HasMaximum(sources)
      /\ targets # {} => HasMaximum(targets)
      /\ Epochs \in SUBSET Nat /\ None \notin Nat
  BY NumbersAssumption, NoneAssumption
<1>6. PICK sw : sw = Raise(None, sources)
  OBVIOUS
<1>7. PICK tw : tw = Raise(None, targets)
  OBVIOUS
<1>8. /\ sw \in Epochs \cup {None} /\ AtOrBelow(r.source, sw)
      /\ tw \in Epochs \cup {None} /\ AtOrBelow(r.target, tw)
  BY <1>4, <1>5, <1>6, <1>7, RaiseIsUpperBound
<1>9. sw \in Nat /\ tw \in Nat /\ r.source \in Nat /\ r.target \in Nat /\ r.source <= sw /\ r.target <= tw
  BY <1>4, <1>5, <1>8 DEF AtOrBelow
<1>10. Below(c.source, sw) \/ AtOrBelow(c.target, tw)
  BY <1>3, <1>5, <1>9 DEF Below, AtOrBelow
<1>11. \A kept : CheckAttestation(kept, sw, tw, c, Strict) \notin AcceptedAttestation
  BY <1>10 DEF CheckAttestation, AcceptedAttestation
<1> QED BY <1>1, <1>2, <1>6, <1>7, <1>11 DEF OwnRefusesAtt

(* An importer of the attestations refuses what the exporter refuses.      *)
LEMMA ExportRefusesAtt ==
    ASSUME NEW rows \in SUBSET AttRows, NEW sw \in Epochs \cup {None}, NEW tw \in Epochs \cup {None},
           ExportedAtts(rows, sw, tw).ok,
           NEW c, c.source \in Nat, c.target \in Nat, c.root # None, AttRefusal(rows, sw, tw, c)
    PROVE  /\ EipRefusesAtt(ExportedAtts(rows, sw, tw).rows, c)
           /\ OwnRefusesAtt(ExportedAtts(rows, sw, tw).rows, c)
<1>0. \A r \in rows : /\ r.source \in Nat /\ r.target \in Nat
                      /\ r.source \in Epochs /\ r.target \in Epochs
  BY NumbersAssumption DEF AttRows
<1>1. PICK out : out = ExportedAtts(rows, sw, tw).rows
  OBVIOUS
<1>2. \A r : SameRoot(r.root, c.root, TRUE) <=> r.root = c.root
  BY DEF SameRoot
<1>3. CASE sw = None /\ tw = None /\ out = rows
  <2>1. PICK r \in rows : \/ r.target = c.target /\ r.root # c.root
                          \/ Surrounding(c, r) \/ Surrounded(c, r)
    BY <1>3 DEF AttRefusal, Below, AtOrBelow
  <2>2. EipRefusesAtt(out, c)
    BY <1>2, <1>3, <2>1 DEF EipRefusesAtt
  <2>3. c.source < r.source \/ c.target <= r.target
    BY <1>0, <2>1 DEF Surrounding, Surrounded
  <2>4. OwnRefusesAtt(out, c)
    BY <1>0, <1>3, <2>3, ImporterFloors
  <2> QED BY <1>1, <2>2, <2>4
<1>4. ASSUME NEW s \in Epochs, NEW t \in Epochs, Folded(rows, sw, tw, out, s, t)
      PROVE  EipRefusesAtt(out, c) /\ OwnRefusesAtt(out, c)
  <2>0. s \in Nat /\ t \in Nat /\ sw \in Nat /\ tw \in Nat /\ sw <= s /\ tw <= t
    BY <1>4, NumbersAssumption DEF Folded
  <2>1. PICK f : f = [source |-> s, target |-> t, root |-> None]
    OBVIOUS
  <2>2. f.source = s /\ f.target = t /\ f \in out
    BY <1>4, <2>1 DEF Folded
  <2>3. \A q \in out : q = f \/ (q \in rows /\ q.target > t)
    BY <1>4, <2>1 DEF Folded
  <2>4. \A r \in rows : r.target > t => r \in out
    BY <1>4 DEF Folded
  <2>5. \A q \in out : s <= q.source /\ t <= q.target /\ q.source \in Epochs /\ q.target \in Epochs
    <3> SUFFICES ASSUME NEW q \in out
                 PROVE  s <= q.source /\ t <= q.target /\ q.source \in Epochs /\ q.target \in Epochs
      OBVIOUS
    <3>1. CASE q = f
      BY <2>0, <2>2, <3>1
    <3>2. CASE q \in rows /\ q.target > t
      <4>1. q.source \in Nat /\ q.target \in Nat /\ q.source \in Epochs /\ q.target \in Epochs
        BY <1>0, <3>2
      <4>2. IF q.target <= t THEN q.source <= s ELSE s <= q.source
        BY <1>4, <3>2 DEF Folded
      <4> QED BY <2>0, <3>2, <4>1, <4>2
    <3> QED BY <2>3, <3>1, <3>2
  <2>6. \A r \in rows : r.target <= t => r.source <= s
    BY <1>4 DEF Folded
  <2>7. \/ \A q \in out : c.source < q.source
        \/ \A q \in out : c.target <= q.target
        \/ \E q \in out : \/ q.target = c.target /\ q.root # c.root
                          \/ Surrounding(c, q) \/ Surrounded(c, q)
    <3>0. \A q \in out : q.source \in Nat /\ q.target \in Nat
      BY <2>5, NumbersAssumption
    <3>1. CASE c.source < s
      BY <2>0, <2>5, <3>0, <3>1
    <3>2. CASE c.target <= t
      BY <2>0, <2>5, <3>0, <3>2
    <3>3. CASE ~(c.source < s) /\ ~(c.target <= t)
      <4>1. ~Below(c.source, sw) /\ ~AtOrBelow(c.target, tw)
        BY <2>0, <3>3 DEF Below, AtOrBelow
      <4>2. PICK r \in rows : \/ r.target = c.target /\ r.root # c.root
                              \/ Surrounding(c, r) \/ Surrounded(c, r)
        BY <4>1 DEF AttRefusal
      <4>3. r.target > t
        BY <1>0, <2>0, <2>6, <3>3, <4>2 DEF Surrounding, Surrounded
      <4>4. r \in out
        BY <2>4, <4>3
      <4> QED BY <4>2, <4>4
    <3> QED BY <3>1, <3>2, <3>3
  <2>8. EipRefusesAtt(out, c)
    BY <1>2, <2>2, <2>7 DEF EipRefusesAtt
  <2>9. \E q \in out : c.source < q.source \/ c.target <= q.target
    <3>0. \A q \in out : q.source \in Nat /\ q.target \in Nat
      BY <2>5, NumbersAssumption
    <3> QED BY <2>2, <2>7, <3>0 DEF Surrounding, Surrounded
  <2>10. OwnRefusesAtt(out, c)
    <3>1. {q.source : q \in out} \subseteq Epochs /\ {q.target : q \in out} \subseteq Epochs
      BY <2>5
    <3> QED BY <2>9, <3>1, ImporterFloors
  <2> QED BY <2>8, <2>10
<1> QED BY <1>1, <1>3, <1>4, ExportShape

(* The same for blocks.                                                    *)
LEMMA ExportRefusesBlk ==
    ASSUME NEW rows \in SUBSET BlkRows, NEW wm \in Slots \cup {None},
           NEW c, c.slot \in Nat, c.root # None,
           CheckBlock(rows, wm, c, Strict) \notin AcceptedBlock \cup BelowMinimum
    PROVE  EipRefusesBlk(ExportedBlks(rows, wm), c) /\ OwnRefusesBlk(ExportedBlks(rows, wm), c)
<1>0. \A r \in rows : r.slot \in Nat /\ r.slot \in Slots
  BY NumbersAssumption DEF BlkRows
<1>1. PICK out : out = ExportedBlks(rows, wm)
  OBVIOUS
<1>2. \A r : SameRoot(r.root, c.root, TRUE) <=> r.root = c.root
  BY DEF SameRoot
<1>3. \/ AtOrBelow(c.slot, wm)
      \/ ~AtOrBelow(c.slot, wm) /\ \E r \in rows : r.slot = c.slot /\ r.root # c.root
  BY DEF CheckBlock, AcceptedBlock, BelowMinimum, SameRoot
<1>4. wm # None => wm \in Nat
  BY NumbersAssumption
<1>5. \A q \in out : q.slot \in Slots /\ q.slot \in Nat /\ (wm # None => wm <= q.slot)
  <2> SUFFICES ASSUME NEW q \in out PROVE q.slot \in Slots /\ (wm # None => wm <= q.slot)
    BY NumbersAssumption
  <2>1. \/ q \in rows /\ (wm # None => q.slot > wm)
        \/ wm # None /\ q = [slot |-> wm, root |-> None]
    BY <1>1 DEF ExportedBlks
  <2> QED BY <1>0, <1>4, <2>1
<1>6. ASSUME wm # None PROVE \E q \in out : q.slot = wm
  <2>1. PICK f : f = [slot |-> wm, root |-> None]
    OBVIOUS
  <2>2. f \in out /\ f.slot = wm
    BY <1>1, <1>6, <2>1 DEF ExportedBlks
  <2> QED BY <2>2
<1>7. \/ (out # {} /\ \A q \in out : c.slot <= q.slot)
      \/ \E q \in out : q.slot = c.slot /\ q.root # c.root
  <2>1. CASE AtOrBelow(c.slot, wm)
    BY <1>4, <1>5, <1>6, <2>1 DEF AtOrBelow
  <2>2. ASSUME ~AtOrBelow(c.slot, wm), NEW r \in rows, r.slot = c.slot, r.root # c.root
        PROVE  \E q \in out : q.slot = c.slot /\ q.root # c.root
    <3>1. r \in out
      BY <1>0, <1>1, <1>4, <2>2 DEF ExportedBlks, AtOrBelow
    <3> QED BY <2>2, <3>1
  <2> QED BY <1>3, <2>1, <2>2
<1>8. EipRefusesBlk(out, c)
  BY <1>2, <1>7 DEF EipRefusesBlk
<1>9. OwnRefusesBlk(out, c)
  <2>1. PICK slots \in SUBSET Slots : slots = {r.slot : r \in out}
    BY <1>5
  <2>2. PICK q \in out : c.slot <= q.slot
    BY <1>5, <1>7
  <2>3. q.slot \in slots /\ q.slot \in Nat
    BY <1>5, <2>1
  <2>4. /\ slots # {} => HasMaximum(slots)
        /\ Slots \in SUBSET Nat /\ None \notin Nat
    BY NumbersAssumption, NoneAssumption
  <2>5. PICK new : new = Raise(None, slots)
    OBVIOUS
  <2>6. new \in Slots \cup {None} /\ AtOrBelow(q.slot, new)
    BY <2>3, <2>4, <2>5, RaiseIsUpperBound
  <2>7. AtOrBelow(c.slot, new)
    BY <2>2, <2>3, <2>4, <2>6 DEF AtOrBelow
  <2>8. \A kept : CheckBlock(kept, new, c, Strict) \notin AcceptedBlock
    BY <2>7 DEF CheckBlock, AcceptedBlock
  <2> QED BY <2>1, <2>5, <2>8 DEF OwnRefusesBlk
<1> QED BY <1>1, <1>8, <1>9

(* The export of any well-typed database is not weaker than the database.  *)
LEMMA ExportKeepsRefusals == ASSUME DbTypeOK PROVE ExportNotWeaker
<1> SUFFICES ASSUME NEW pk \in Pubkeys, NEW d \in Duties, ~Accepted(pk, d),
                    Verdict(pk, d) \notin BelowMinimum
             PROVE  IF d.kind = "att" THEN ~AttWeaker(pk, d) ELSE ~BlkWeaker(pk, d)
  BY DEF ExportNotWeaker
<1>0. d # None
  BY DutiesAssumption
<1>1. CASE d.kind = "att"
  <2>1. PICK c : c = AttRow(d)
    OBVIOUS
  <2>2. c.source \in Nat /\ c.target \in Nat /\ c.root = d
    BY <1>1, <2>1, DutyKinds, NumbersAssumption DEF AttRow
  <2>3. PICK rows \in SUBSET AttRows : rows = attestations[pk]
    BY DEF DbTypeOK
  <2>4. PICK sw \in Epochs \cup {None} : sw = watermarks[pk].source
    BY DEF DbTypeOK, Watermarks
  <2>5. PICK tw \in Epochs \cup {None} : tw = watermarks[pk].target
    BY DEF DbTypeOK, Watermarks
  <2>6. CheckAttestation(rows, sw, tw, c, Strict) \notin AcceptedAttestation \cup BelowMinimum
    BY <1>1, <2>1, <2>3, <2>4, <2>5 DEF Accepted, Verdict
  <2>7. AttRefusal(rows, sw, tw, c)
    BY <1>0, <2>2, <2>6, RefusedAtt
  <2>8. ExportedAtts(rows, sw, tw).ok =>
           /\ EipRefusesAtt(ExportedAtts(rows, sw, tw).rows, c)
           /\ OwnRefusesAtt(ExportedAtts(rows, sw, tw).rows, c)
    BY <1>0, <2>2, <2>7, ExportRefusesAtt
  <2>9. ~AttWeaker(pk, d)
    BY <2>1, <2>3, <2>4, <2>5, <2>8 DEF AttWeaker
  <2> QED BY <1>1, <2>9
<1>2. CASE d.kind = "block"
  <2>1. PICK c : c = BlkRow(d)
    OBVIOUS
  <2>2. c.slot \in Nat /\ c.root = d
    BY <1>2, <2>1, DutyKinds, NumbersAssumption DEF BlkRow
  <2>3. PICK rows \in SUBSET BlkRows : rows = blocks[pk]
    BY DEF DbTypeOK
  <2>4. PICK wm \in Slots \cup {None} : wm = watermarks[pk].block
    BY DEF DbTypeOK, Watermarks
  <2>6. CheckBlock(rows, wm, c, Strict) \notin AcceptedBlock \cup BelowMinimum
    BY <1>2, <2>1, <2>3, <2>4 DEF Accepted, Verdict
  <2>8. EipRefusesBlk(ExportedBlks(rows, wm), c) /\ OwnRefusesBlk(ExportedBlks(rows, wm), c)
    BY <1>0, <2>2, <2>6, ExportRefusesBlk
  <2>9. ~BlkWeaker(pk, d)
    BY <2>1, <2>3, <2>4, <2>8 DEF BlkWeaker
  <2> QED BY <1>2, <2>9
<1> QED BY <1>1, <1>2, DutyKinds

(* Rows above the target floor do not surround each other: they were       *)
(* reserved here, against each other.                                      *)
AboveFloorSafe ==
    \A pk \in Pubkeys : \A r, q \in attestations[pk] :
        ~AtOrBelow(r.target, watermarks[pk].target) /\ ~AtOrBelow(q.target, watermarks[pk].target)
            => ~Surrounding(r, q)

(* Then the records of an export do not conflict and carry the floors.     *)
LEMMA ExportIsClean == ASSUME DbTypeOK, UniqueRows, AboveFloorSafe PROVE ExportCarriesFloor
<1> SUFFICES ASSUME NEW pk \in Pubkeys
             PROVE  LET wm  == watermarks[pk]
                        out == ExportedAtts(attestations[pk], wm.source, wm.target)
                    IN  /\ \A r \in out.rows : ~Below(r.source, wm.source) /\ ~Below(r.target, wm.target)
                        /\ wm.target # None =>
                               \A r, q \in out.rows :
                                   (r.target = q.target => r = q) /\ ~Surrounding(r, q)
  BY DEF ExportCarriesFloor
<1>1. PICK rows \in SUBSET AttRows : rows = attestations[pk]
  BY DEF DbTypeOK
<1>2. PICK sw \in Epochs \cup {None} : sw = watermarks[pk].source
  BY DEF DbTypeOK, Watermarks
<1>3. PICK tw \in Epochs \cup {None} : tw = watermarks[pk].target
  BY DEF DbTypeOK, Watermarks
<1>4. PICK out : out = ExportedAtts(rows, sw, tw).rows
  OBVIOUS
<1>5. \A r \in rows : r.source \in Nat /\ r.target \in Nat
  BY NumbersAssumption DEF AttRows
<1>6. CASE ~ExportedAtts(rows, sw, tw).ok
  <2>1. out = {}
    BY <1>4, <1>6 DEF ExportedAtts
  <2> QED BY <1>1, <1>2, <1>3, <1>4, <2>1
<1>7. CASE sw = None /\ tw = None
  BY <1>1, <1>2, <1>3, <1>7 DEF Below
<1>8. ASSUME NEW s \in Epochs, NEW t \in Epochs, Folded(rows, sw, tw, out, s, t)
      PROVE  /\ \A r \in out : ~Below(r.source, sw) /\ ~Below(r.target, tw)
             /\ \A r, q \in out : (r.target = q.target => r = q) /\ ~Surrounding(r, q)
  <2>0. s \in Nat /\ t \in Nat /\ sw \in Nat /\ tw \in Nat /\ sw <= s /\ tw <= t
    BY <1>8, NumbersAssumption DEF Folded
  <2>1. PICK f : f = [source |-> s, target |-> t, root |-> None]
    OBVIOUS
  <2>2. f.source = s /\ f.target = t
    BY <2>1
  <2>3. \A q \in out : q = f \/ (q \in rows /\ q.target > t /\ s <= q.source)
    <3>1. \A q \in out : q = f \/ (q \in rows /\ q.target > t)
      BY <1>8, <2>1 DEF Folded
    <3>2. \A r \in rows : IF r.target <= t THEN r.source <= s ELSE s <= r.source
      BY <1>8 DEF Folded
    <3> QED BY <1>5, <2>0, <3>1, <3>2
  <2>4. \A q \in out : q.source \in Nat /\ q.target \in Nat /\ s <= q.source /\ t <= q.target
    BY <1>5, <2>0, <2>2, <2>3
  <2>5. \A r \in out : ~Below(r.source, sw) /\ ~Below(r.target, tw)
    BY <2>0, <2>4 DEF Below
  <2>6. ASSUME NEW r \in out, NEW q \in out PROVE (r.target = q.target => r = q) /\ ~Surrounding(r, q)
    <3>1. CASE r = f \/ q = f
      BY <1>5, <2>0, <2>2, <2>3, <2>4, <3>1 DEF Surrounding
    <3>2. CASE r # f /\ q # f
      <4>1. r \in rows /\ q \in rows /\ r.target > t /\ q.target > t
        BY <2>3, <3>2
      <4>2. ~AtOrBelow(r.target, tw) /\ ~AtOrBelow(q.target, tw)
        BY <1>5, <2>0, <4>1 DEF AtOrBelow
      <4> QED BY <1>1, <1>3, <4>1, <4>2 DEF AboveFloorSafe, UniqueRows
    <3> QED BY <3>1, <3>2
  <2> QED BY <2>5, <2>6
<1>9. CASE \E s, t \in Epochs : Folded(rows, sw, tw, out, s, t)
  BY <1>1, <1>2, <1>3, <1>4, <1>8, <1>9
<1> QED BY <1>4, <1>6, <1>7, <1>9, ExportShape

(* Removing rows, adding rows below the floor and raising the floor keep   *)
(* the rows above it apart.                                                *)
LEMMA FewerAboveFloor ==
    ASSUME DbTypeOK, DbTypeOK', FloorsHold, AboveFloorSafe,
           \A pk \in Pubkeys : \A r \in attestations'[pk] :
               r \in attestations[pk] \/ AtOrBelow(r.target, watermarks'[pk].target)
    PROVE  AboveFloorSafe'
<1> SUFFICES ASSUME NEW pk \in Pubkeys, NEW r \in attestations'[pk], NEW q \in attestations'[pk],
                    ~AtOrBelow(r.target, watermarks'[pk].target),
                    ~AtOrBelow(q.target, watermarks'[pk].target)
             PROVE  ~Surrounding(r, q)
  BY DEF AboveFloorSafe
<1>1. r \in attestations[pk] /\ q \in attestations[pk]
  OBVIOUS
<1>2. r.target \in Nat /\ q.target \in Nat
  BY <1>1, NumbersAssumption DEF DbTypeOK, AttRows
<1>3. watermarks[pk].target \in Nat \cup {None} /\ watermarks'[pk].target \in Nat \cup {None}
  BY NumbersAssumption DEF DbTypeOK, Watermarks
<1>4. ~AtOrBelow(r.target, watermarks[pk].target) /\ ~AtOrBelow(q.target, watermarks[pk].target)
  BY <1>2, <1>3, RaisedFloorCovers DEF FloorsHold
<1> QED BY <1>1, <1>4 DEF AboveFloorSafe

(* A reservation is checked against every row, above the floor or not.     *)
LEMMA InsertAboveFloor ==
    ASSUME DbTypeOK, AboveFloorSafe, NEW pk \in Pubkeys, NEW d \in Duties,
           Accepted(pk, d), Insert(pk, d)
    PROVE  AboveFloorSafe'
<1>1. CASE d.kind = "att"
  <2>1. PICK new : new = AttRow(d)
    OBVIOUS
  <2>2. /\ attestations'[pk] = attestations[pk] \cup {new}
        /\ \A k \in Pubkeys : k # pk => attestations'[k] = attestations[k]
        /\ watermarks' = watermarks
    BY <1>1, <2>1 DEF Insert, DbTypeOK
  <2>3. \A r \in attestations[pk] : ~Surrounding(new, r) /\ ~Surrounding(r, new)
    <3>1. \A r \in attestations[pk] : ~Surrounding(d, r) /\ ~Surrounded(d, r)
      BY <1>1, AcceptedAttestationFacts
    <3>2. new.source = d.source /\ new.target = d.target
      BY <2>1 DEF AttRow
    <3> QED BY <3>1, <3>2 DEF Surrounding, Surrounded
  <2>4. ~Surrounding(new, new)
    <3>1. new.source \in Nat
      BY <1>1, <2>1, DutyKinds, NumbersAssumption DEF AttRow
    <3> QED BY <3>1 DEF Surrounding
  <2> QED BY <2>2, <2>3, <2>4 DEF AboveFloorSafe
<1>2. CASE d.kind = "block"
  BY <1>2 DEF Insert, AboveFloorSafe
<1> QED BY <1>1, <1>2, DutyKinds

===============================================================================
