------------------------ MODULE SlashableSigningProofs ------------------------
(***************************************************************************)
(* Proofs about SlashableSigning, for every number of validators, calls,   *)
(* epochs, slots and duties.                                               *)
(***************************************************************************)
EXTENDS SlashableSigning, SlashingDbProofs, TLAPS

-----------------------------------------------------------------------------
(* Type correctness.                                                       *)

(* The watermarks an import writes are those of the whole file. *)
LEMMA ImportRaises ==
    ASSUME DbTypeOK, NEW pk \in Pubkeys, NEW f \in Files, Import(pk, f)
    PROVE  /\ watermarks' \in [Pubkeys -> Watermarks]
           /\ \A k \in Pubkeys :
                 /\ NotLowered(watermarks[k].block, watermarks'[k].block)
                 /\ NotLowered(watermarks[k].source, watermarks'[k].source)
                 /\ NotLowered(watermarks[k].target, watermarks'[k].target)
           /\ \A r \in f.atts : /\ AtOrBelow(r.source, watermarks'[pk].source)
                                /\ AtOrBelow(r.target, watermarks'[pk].target)
           /\ \A r \in f.blocks : AtOrBelow(r.slot, watermarks'[pk].block)
<1> DEFINE wm == watermarks[pk]
           B  == {r.slot : r \in f.blocks}
           S  == {r.source : r \in f.atts}
           T  == {r.target : r \in f.atts}
<1>1. f.atts \subseteq AttRows /\ f.blocks \subseteq BlkRows
  BY SigningAssumption
<1>2. B \in SUBSET Slots /\ S \in SUBSET Epochs /\ T \in SUBSET Epochs
  BY <1>1 DEF AttRows, BlkRows
<1>3. /\ wm.block \in Slots \cup {None}
      /\ wm.source \in Epochs \cup {None}
      /\ wm.target \in Epochs \cup {None}
  BY DEF DbTypeOK, Watermarks
<1>4. watermarks' = [watermarks EXCEPT ![pk] =
        [block |-> Raise(wm.block, B), source |-> Raise(wm.source, S),
         target |-> Raise(wm.target, T)]]
  BY DEF Import
<1>5. /\ B # {} => HasMaximum(B)
      /\ S # {} => HasMaximum(S)
      /\ T # {} => HasMaximum(T)
      /\ Epochs \in SUBSET Nat /\ Slots \in SUBSET Nat
  BY <1>2, NumbersAssumption
<1>6. /\ \A r \in f.atts : r.source \in S /\ r.target \in T
      /\ \A r \in f.blocks : r.slot \in B
  OBVIOUS
<1> HIDE DEF B, S, T
<1>7. /\ Raise(wm.block, B) \in Slots \cup {None}
      /\ NotLowered(wm.block, Raise(wm.block, B))
      /\ \A x \in B : AtOrBelow(x, Raise(wm.block, B))
  BY <1>2, <1>3, <1>5, RaiseIsUpperBound
<1>8. /\ Raise(wm.source, S) \in Epochs \cup {None}
      /\ NotLowered(wm.source, Raise(wm.source, S))
      /\ \A x \in S : AtOrBelow(x, Raise(wm.source, S))
  BY <1>2, <1>3, <1>5, RaiseIsUpperBound
<1>9. /\ Raise(wm.target, T) \in Epochs \cup {None}
      /\ NotLowered(wm.target, Raise(wm.target, T))
      /\ \A x \in T : AtOrBelow(x, Raise(wm.target, T))
  BY <1>2, <1>3, <1>5, RaiseIsUpperBound
<1>10. /\ watermarks'[pk].block = Raise(wm.block, B)
       /\ watermarks'[pk].source = Raise(wm.source, S)
       /\ watermarks'[pk].target = Raise(wm.target, T)
  BY <1>4 DEF DbTypeOK, Watermarks
<1>11. \A k \in Pubkeys : k # pk => watermarks'[k] = watermarks[k]
  BY <1>4 DEF DbTypeOK
<1>12. watermarks' \in [Pubkeys -> Watermarks]
  BY <1>4, <1>7, <1>8, <1>9 DEF DbTypeOK, Watermarks
<1>13. \A k \in Pubkeys : k # pk =>
         /\ NotLowered(watermarks[k].block, watermarks'[k].block)
         /\ NotLowered(watermarks[k].source, watermarks'[k].source)
         /\ NotLowered(watermarks[k].target, watermarks'[k].target)
  BY <1>11, NotLoweredReflexive
<1> QED BY <1>6, <1>7, <1>8, <1>9, <1>10, <1>12, <1>13

(* import keeps the tables well typed. *)
LEMMA ImportType ==
    ASSUME DbTypeOK, NEW pk \in Pubkeys, NEW f \in Files, Import(pk, f)
    PROVE  DbTypeOK'
<1>1. watermarks' \in [Pubkeys -> Watermarks]
  BY ImportRaises
<1>2. f.atts \subseteq AttRows /\ f.blocks \subseteq BlkRows
  BY SigningAssumption
<1>3. PICK atts \in SUBSET f.atts, blks \in SUBSET f.blocks :
        /\ attestations' = [attestations EXCEPT ![pk] = @ \cup atts]
        /\ blocks' = [blocks EXCEPT ![pk] = @ \cup blks]
  BY DEF Import, KeptAtts, KeptBlks
<1> QED BY <1>1, <1>2, <1>3 DEF DbTypeOK

(* A call in progress has all its fields. *)
LEMMA ActiveCall ==
    ASSUME TypeOK, NEW t \in Tasks, task[t].phase # "idle"
    PROVE  task[t] \in Calls
BY DEF TypeOK, Idle

(* Every step keeps the types. *)
LEMMA TypeStep ==
    ASSUME TypeOK, [Next]_vars
    PROVE  TypeOK'
<1> USE DEF TypeOK
<1>1. ASSUME NEW t \in Tasks, NEW pk \in Pubkeys, NEW d \in Duties, Request(t, pk, d)
      PROVE  TypeOK'
  BY <1>1 DEF Request, RouteOf, Calls, sysVars, dbVars, DbTypeOK
<1>2. ASSUME NEW t \in Tasks, DropCaller(t) \/ EnterBlocked(t)
      PROVE  TypeOK'
  BY <1>2 DEF DropCaller, EnterBlocked, sysVars, dbVars, DbTypeOK
<1>3. ASSUME NEW t \in Tasks, Enter(t)
      PROVE  TypeOK'
  <2>1. task[t] \in Calls
    BY <1>3, ActiveCall DEF Enter, At
  <2>2. EntryPolicy(t) \in {"Retain", "Discard"}
    BY DEF EntryPolicy, ResolvePolicy
  <2>3. task' \in [Tasks -> {Idle} \cup Calls] /\ lock' \in [Pubkeys -> Tasks \cup {None}]
    BY <1>3, <2>1, <2>2 DEF Enter, Calls, Critical
  <2> QED BY <1>3, <2>3 DEF Enter, dbVars, DbTypeOK
<1>4. ASSUME NEW t \in Tasks, Reserve(t)
      PROVE  TypeOK'
  <2>1. task[t] \in Calls
    BY <1>4, ActiveCall DEF Reserve, At
  <2>2. task' \in [Tasks -> {Idle} \cup Calls]
    BY <1>4, <2>1 DEF Reserve, Calls, Critical
  <2>3. task[t].pk \in Pubkeys /\ task[t].duty \in Duties
    BY <2>1 DEF Calls
  <2>4. DbTypeOK'
    <3>1. CASE Insert(task[t].pk, task[t].duty)
      BY <3>1, <2>3, InsertType
    <3>2. CASE UNCHANGED dbVars
      BY <3>2 DEF dbVars, DbTypeOK
    <3> QED BY <1>4, <3>1, <3>2 DEF Reserve
  <2> QED BY <1>4, <2>2, <2>4 DEF Reserve, sysVars
<1>5. ASSUME NEW t \in Tasks,
             ReserveRefused(t) \/ SignInProcess(t) \/ RemoteOk(t) \/ ReconcileFails(t)
      PROVE  TypeOK'
  <2>1. task[t] \in Calls
    BY <1>5, ActiveCall DEF ReserveRefused, SignInProcess, RemoteOk, ReconcileFails, At
  <2>2. task' \in [Tasks -> {Idle} \cup Calls] /\ lock' \in [Pubkeys -> Tasks \cup {None}]
    BY <1>5, <2>1 DEF ReserveRefused, SignInProcess, RemoteOk, ReconcileFails, Return, Calls
  <2>3. signed' \subseteq Messages
    BY <1>5, <2>1 DEF ReserveRefused, SignInProcess, RemoteOk, ReconcileFails, Messages, Calls
  <2> QED BY <1>5, <2>2, <2>3
         DEF ReserveRefused, SignInProcess, RemoteOk, ReconcileFails, dbVars, DbTypeOK
<1>6. ASSUME NEW t \in Tasks, Recheck(t)
      PROVE  TypeOK'
  <2>1. task[t] \in Calls
    BY <1>6, ActiveCall DEF Recheck, At
  <2>2. FailClosedMax(task[t].policy, EntryPolicy(t)) \in {"Retain", "Discard"}
    BY DEF FailClosedMax
  <2>3. task' \in [Tasks -> {Idle} \cup Calls]
    BY <1>6, <2>1, <2>2 DEF Recheck, Calls, Critical
  <2> QED BY <1>6, <2>3 DEF Recheck, sysVars, dbVars, DbTypeOK
<1>7. ASSUME NEW t \in Tasks, NoSignature(t) \/ InProcessFailure(t) \/ Contact(t)
      PROVE  TypeOK'
  <2>1. task[t] \in Calls
    BY <1>7, ActiveCall DEF NoSignature, InProcessFailure, Contact, At
  <2>2. task' \in [Tasks -> {Idle} \cup Calls]
    BY <1>7, <2>1 DEF NoSignature, InProcessFailure, Contact, Goto, Calls, Critical
  <2>3. requests' \subseteq Messages
    BY <1>7, <2>1 DEF NoSignature, InProcessFailure, Contact, Messages, Calls, sysVars
  <2> QED BY <1>7, <2>2, <2>3
         DEF NoSignature, InProcessFailure, Contact, sysVars, dbVars, DbTypeOK
<1>8. ASSUME NEW t \in Tasks, RemoteUnclear(t)
      PROVE  TypeOK'
  <2>1. task[t] \in Calls
    BY <1>8, ActiveCall DEF RemoteUnclear, At
  <2>2. task' \in [Tasks -> {Idle} \cup Calls] /\ lock' \in [Pubkeys -> Tasks \cup {None}]
    BY <1>8, <2>1 DEF RemoteUnclear, Return, Goto, Calls, Critical
  <2> QED BY <1>8, <2>2 DEF RemoteUnclear, dbVars, DbTypeOK
<1>9. ASSUME NEW t \in Tasks, Reconcile(t)
      PROVE  TypeOK'
  <2>1. task[t] \in Calls
    BY <1>9, ActiveCall DEF Reconcile, At
  <2>2. task' \in [Tasks -> {Idle} \cup Calls] /\ lock' \in [Pubkeys -> Tasks \cup {None}]
    BY <1>9, <2>1 DEF Reconcile, Return, Calls
  <2>3. task[t].pk \in Pubkeys /\ task[t].duty \in Duties
    BY <2>1 DEF Calls
  <2>4. DbTypeOK'
    <3>1. CASE DeleteReserved(task[t].pk, task[t].duty)
      BY <3>1, <2>3, DeleteType
    <3>2. CASE UNCHANGED dbVars
      BY <3>2 DEF dbVars, DbTypeOK
    <3> QED BY <1>9, <3>1, <3>2 DEF Reconcile
  <2> QED BY <1>9, <2>2, <2>4 DEF Reconcile
<1>10. CASE RemoteSigns
  BY <1>10 DEF RemoteSigns, dbVars, DbTypeOK
<1>11. ASSUME NEW pk \in Pubkeys, NEW b \in Importable, AddBackend(pk, b) \/ RemoveBackend(pk, b)
       PROVE  TypeOK'
  <2>1. b \in Backends
    BY SigningAssumption DEF Backends
  <2>2. registry' \in [Pubkeys -> SUBSET Backends]
    BY <1>11, <2>1 DEF AddBackend, RemoveBackend
  <2> QED BY <1>11, <2>2 DEF AddBackend, RemoveBackend, dbVars, DbTypeOK
<1>12. ASSUME NEW pk \in Watched, Toggle(pk)
       PROVE  TypeOK'
  BY <1>12, SigningAssumption DEF Toggle, dbVars, DbTypeOK
<1>13. ASSUME NEW pk \in Quiescable, Quiesce(pk) \/ Drain(pk)
       PROVE  TypeOK'
  BY <1>13, SigningAssumption DEF Quiesce, Drain, dbVars, DbTypeOK
<1>14. ASSUME NEW pk \in Pubkeys, NEW f \in Files, ImportFile(pk, f)
       PROVE  TypeOK'
  <2>1. DbTypeOK'
    BY <1>14, ImportType DEF ImportFile
  <2>2. f.atts \subseteq AttRows /\ f.blocks \subseteq BlkRows
    BY SigningAssumption
  <2>3. foreign' \in [atts : SUBSET (Pubkeys \X AttRows), blocks : SUBSET (Pubkeys \X BlkRows)]
    BY <1>14, <2>2 DEF ImportFile
  <2> QED BY <1>14, <2>1, <2>3 DEF ImportFile
<1>15. CASE Maintain
  <2>1. DbTypeOK'
    <3>1. ASSUME NEW pk \in Pubkeys, NEW s \in BlockFloors, SetBlockWatermark(pk, s)
          PROVE  DbTypeOK'
      BY <3>1, SetWatermarkType, SigningAssumption
    <3>2. ASSUME NEW pk \in Pubkeys, NEW f \in AttestationFloors,
                 SetAttestationWatermark(pk, f[1], f[2])
          PROVE  DbTypeOK'
      <4>1. f[1] \in Epochs /\ f[2] \in Epochs
        BY SigningAssumption
      <4> QED BY <3>2, <4>1, SetWatermarkType
    <3>3. CASE Prune
      BY <3>3, PruneType
    <3> QED BY <1>15, <3>1, <3>2, <3>3 DEF Maintain
  <2> QED BY <1>15, <2>1 DEF Maintain, sysVars
<1>16. CASE Crash
  <2>1. registry' \in [Pubkeys -> SUBSET Backends]
    BY <1>16, SigningAssumption DEF Crash, Boot
  <2>2. enabled' \subseteq Pubkeys
    BY <1>16, SigningAssumption DEF Crash, Boot
  <2> QED BY <1>16, <2>1, <2>2 DEF Crash, Boot, dbVars, DbTypeOK
<1>17. CASE UNCHANGED vars
  BY <1>17 DEF vars, sysVars, dbVars, DbTypeOK
<1> QED
  BY <1>1, <1>2, <1>3, <1>4, <1>5, <1>6, <1>7, <1>8, <1>9, <1>10, <1>11, <1>12,
     <1>13, <1>14, <1>15, <1>16, <1>17
  DEF Next, Call, Step, Surroundings

(* The initial state is well typed. *)
LEMMA TypeInit == Init => TypeOK
<1> SUFFICES ASSUME Init PROVE TypeOK
  OBVIOUS
<1>1. DbTypeOK
  BY DEF Init, DbInit, DbTypeOK, NoWatermarks, Watermarks
<1>2. registry \in [Pubkeys -> SUBSET Backends]
  BY SigningAssumption DEF Init
<1> QED BY <1>1, <1>2 DEF Init, TypeOK

(* Every reachable state of the signing path is well typed: the tables,    *)
(* the control state of every call, locks, registries and histories.       *)
THEOREM TypeCorrect == Spec => []TypeOK
<1>1. TypeOK /\ [Next]_vars => TypeOK'
  BY TypeStep
<1> QED BY <1>1, TypeInit, PTL DEF Spec

-----------------------------------------------------------------------------
(* What an accepted reservation says about the duties on record.           *)

(* EIP-3076 in one sentence: what check_attestation and check_block accept *)
(* is not slashable with anything the database remembers, by row or by     *)
(* watermark.                                                              *)
LEMMA AcceptedIsSafe ==
    ASSUME DbTypeOK, UniqueRows, NEW pk \in Pubkeys, NEW c \in Duties, NEW d \in Duties,
           Accepted(pk, c), Covered(pk, d)
    PROVE  ~Slashable(c, d)
<1>1. CASE c.kind = "att" /\ d.kind = "att"
  <2>1. /\ c.source \in Nat /\ c.target \in Nat /\ d.source \in Nat /\ d.target \in Nat
    BY <1>1, DutyKinds, NumbersAssumption
  <2>2. /\ ~Below(c.source, watermarks[pk].source)
        /\ ~AtOrBelow(c.target, watermarks[pk].target)
        /\ (\E r \in attestations[pk] : r.target = c.target)
              => \E r \in attestations[pk] : r.target = c.target /\ r.root = c
        /\ \A r \in attestations[pk] : ~Surrounding(c, r) /\ ~Surrounded(c, r)
    BY <1>1, AcceptedAttestationFacts
  <2>3. CASE AttRow(d) \in attestations[pk]
    <3>1. AttRow(d).source = d.source /\ AttRow(d).target = d.target /\ AttRow(d).root = d
      BY DEF AttRow
    <3>2. ~(c # d /\ c.target = d.target)
      BY <2>2, <2>3, <3>1 DEF UniqueRows
    <3>3. ~Surrounding(c, d) /\ ~Surrounding(d, c)
      BY <2>1, <2>2, <2>3, <3>1 DEF Surrounding, Surrounded
    <3> QED BY <1>1, <3>2, <3>3 DEF Slashable
  <2>4. CASE /\ AtOrBelow(d.target, watermarks[pk].target)
             /\ AtOrBelow(d.source, watermarks[pk].source)
    <3>1. watermarks[pk].source \in Nat /\ watermarks[pk].target \in Nat
      BY <2>4, NumbersAssumption DEF AtOrBelow, DbTypeOK, Watermarks
    <3>2. d.source <= c.source /\ d.target < c.target
      BY <2>1, <2>2, <2>4, <3>1 DEF AtOrBelow, Below
    <3> QED BY <1>1, <2>1, <3>2 DEF Slashable, Surrounding
  <2> QED BY <1>1, <2>3, <2>4 DEF Covered
<1>2. CASE c.kind = "block" /\ d.kind = "block"
  <2>1. c.slot \in Nat /\ d.slot \in Nat
    BY <1>2, DutyKinds, NumbersAssumption
  <2>2. /\ ~AtOrBelow(c.slot, watermarks[pk].block)
        /\ (\E r \in blocks[pk] : r.slot = c.slot)
              => \E r \in blocks[pk] : r.slot = c.slot /\ r.root = c
    BY <1>2, AcceptedBlockFacts
  <2>3. CASE BlkRow(d) \in blocks[pk]
    <3>1. BlkRow(d).slot = d.slot /\ BlkRow(d).root = d
      BY DEF BlkRow
    <3> QED BY <1>2, <2>2, <2>3, <3>1 DEF Slashable, UniqueRows
  <2>4. CASE AtOrBelow(d.slot, watermarks[pk].block)
    BY <1>2, <2>2, <2>4 DEF Slashable
  <2> QED BY <1>2, <2>3, <2>4 DEF Covered
<1>3. CASE c.kind # d.kind
  BY <1>3 DEF Slashable
<1> QED BY <1>1, <1>2, <1>3, DutyKinds

-----------------------------------------------------------------------------
(* What each database transaction keeps.                                   *)

(* import forgets nothing: it only adds rows and raises floors. *)
LEMMA ImportKeeps ==
    ASSUME DbTypeOK, UniqueRows, NEW pk \in Pubkeys, NEW f \in Files, Import(pk, f)
    PROVE  UniqueRows' /\ FloorsHold /\ Remembers
<1>1. DbTypeOK'
  BY ImportType
<1>2. FloorsHold
  BY ImportRaises DEF FloorsHold
<1>3. PICK atts \in KeptAtts(attestations[pk], f.atts), blks \in KeptBlks(blocks[pk], f.blocks) :
        /\ attestations' = [attestations EXCEPT ![pk] = @ \cup atts]
        /\ blocks' = [blocks EXCEPT ![pk] = @ \cup blks]
  BY DEF Import
<1>4. Remembers
  BY <1>1, <1>2, <1>3, FloorsRemember DEF DbTypeOK
<1>5. \A r, s \in attestations[pk] \cup atts : r.target = s.target => r = s
  BY DEF KeptAtts, UniqueRows
<1>6. \A r, s \in blocks[pk] \cup blks : r.slot = s.slot => r = s
  BY DEF KeptBlks, UniqueRows
<1>7. UniqueRows'
  BY <1>3, <1>5, <1>6 DEF UniqueRows, DbTypeOK
<1> QED BY <1>2, <1>4, <1>7

-----------------------------------------------------------------------------
(* The safety invariant is inductive.                                      *)

(* Which of two messages was signed first makes no difference. *)
LEMMA SlashableSymmetric ==
    ASSUME NEW c \in Duties, NEW d \in Duties
    PROVE  Slashable(c, d) <=> Slashable(d, c)
BY DEF Slashable

(* Signing one message twice is not slashable. *)
LEMMA NotSlashableWithItself ==
    ASSUME NEW d \in Duties
    PROVE  ~Slashable(d, d)
<1>1. CASE d.kind = "att"
  <2>1. d.source \in Nat
    BY <1>1, DutyKinds, NumbersAssumption
  <2> QED BY <1>1, <2>1 DEF Slashable, Surrounding
<1>2. CASE d.kind = "block"
  BY <1>2 DEF Slashable
<1> QED BY <1>1, <1>2, DutyKinds

(* Steps of the surroundings that leave calls and locks alone.             *)
LEMMA SurroundingsKeepSafety ==
    ASSUME TypeOK, SafetyInv, UniqueRows', Remembers,
           task' = task, lock' = lock, Authorized' = Authorized,
           \A pk \in Pubkeys : "grpc" \in registry[pk] => "grpc" \in registry'[pk]
    PROVE  SafetyInv'
<1>0. \A t \in Tasks : task[t].phase # "idle" =>
        task[t].pk \in Pubkeys /\ task[t].duty \in Duties
  BY ActiveCall DEF Calls
<1>1. LockHeld'
  BY DEF SafetyInv, LockHeld
<1>2. TypedRetains'
  BY <1>0 DEF SafetyInv, TypedRetains, At
<1>3. ReservationHolds'
  BY <1>0 DEF SafetyInv, ReservationHolds, Remembers
<1>4. DeletableRowUnused'
  BY DEF SafetyInv, DeletableRowUnused
<1>5. EverySignatureCovered'
  <2>1. \A m \in Authorized : m[1] \in Pubkeys /\ m[2] \in Duties
    BY DEF Authorized, TypeOK, Messages
  <2> QED BY <2>1 DEF SafetyInv, EverySignatureCovered, Remembers
<1>6. NoSlashableSignatures'
  BY DEF SafetyInv, NoSlashableSignatures
<1> QED BY <1>1, <1>2, <1>3, <1>4, <1>5, <1>6 DEF SafetyInv

(* A step of call t on validator pk and duty d.  It touches no other call, *)
(* takes only a free lock and gives up only its own; it may forget only d, *)
(* and only while reconciling; it may authorize only d, and only when      *)
(* ready; and it leaves t itself in a state that satisfies the invariant.  *)
LEMMA CallKeepsSafety ==
    ASSUME TypeOK, SafetyInv, UniqueRows',
           NEW t \in Tasks, NEW pk \in Pubkeys, NEW d \in Duties,
           task[t].phase \in Critical => task[t].pk = pk /\ task[t].duty = d,
           \A u \in Tasks : u # t => task'[u] = task[u],
           registry' = registry,
           \A k \in Pubkeys : lock'[k] # lock[k] =>
               k = pk /\ (lock[k] = None \/ task[t].phase \in Critical),
           task'[t].phase \in Critical => task'[t].pk = pk /\ lock'[pk] = t,
           \A k \in Pubkeys, e \in Duties : Covered(k, e) =>
               \/ Covered(k, e)'
               \/ k = pk /\ e = d /\ task[t].phase = "reconciling" /\ <<pk, d>> \notin Authorized,
           \/ Authorized' = Authorized
           \/ Authorized' = Authorized \cup {<<pk, d>>} /\ task[t].phase = "ready",
           task'[t].phase # "idle" =>
               /\ task'[t].route = "typed" =>
                     "grpc" \in registry[task'[t].pk] /\ task'[t].policy = "Retain"
               /\ task'[t].phase = "contacted" => task'[t].route = "typed",
           task'[t].phase \in {"reserved", "ready", "contacted"} =>
               /\ task'[t].duty = d
               /\ Covered(pk, d)'
               /\ \A m \in Authorized' : m[1] = pk => ~Slashable(d, m[2]),
           task'[t].phase \in {"reserved", "ready", "reconciling"} /\ task'[t].inserted =>
               task'[t].duty = d /\ <<pk, d>> \notin Authorized'
    PROVE  SafetyInv'
<1>0. \A u \in Tasks : task[u].phase # "idle" =>
        task[u].pk \in Pubkeys /\ task[u].duty \in Duties
  BY ActiveCall DEF Calls
<1>1. "idle" \notin Critical /\ {"reserved", "ready", "contacted", "reconciling"} \subseteq Critical
  BY DEF Critical
<1>2. \A u \in Tasks : task[u].phase \in Critical => lock[task[u].pk] = u
  BY DEF SafetyInv, LockHeld
<1>3. \A u \in Tasks : u # t /\ task[u].phase \in Critical /\ task[t].phase \in Critical
        => task[u].pk # pk
  BY <1>2
<1>4. LockHeld'
  <2> SUFFICES ASSUME NEW u \in Tasks, task'[u].phase \in Critical
               PROVE  lock'[task'[u].pk] = u
    BY DEF LockHeld
  <2>1. CASE u = t
    BY <2>1
  <2>2. CASE u # t
    <3>1. task'[u] = task[u] /\ lock[task[u].pk] = u /\ task[u].pk \in Pubkeys
      BY <1>0, <1>1, <1>2, <2>2
    <3>2. lock'[task[u].pk] = lock[task[u].pk]
      BY <1>3, <2>2, <3>1, SigningAssumption
    <3> QED BY <3>1, <3>2
  <2> QED BY <2>1, <2>2
<1>5. TypedRetains'
  BY DEF SafetyInv, TypedRetains, At
<1>6. ReservationHolds'
  <2> SUFFICES ASSUME NEW u \in Tasks, u # t, task[u].phase \in {"reserved", "ready", "contacted"}
               PROVE  /\ Covered(task[u].pk, task[u].duty)'
                      /\ \A m \in Authorized' : m[1] = task[u].pk => ~Slashable(task[u].duty, m[2])
    BY <1>1 DEF ReservationHolds
  <2>1. task[u].phase \in Critical /\ task[u].pk \in Pubkeys /\ task[u].duty \in Duties
    BY <1>0, <1>1
  <2>2. Covered(task[u].pk, task[u].duty)
    BY DEF SafetyInv, ReservationHolds
  <2>3. Covered(task[u].pk, task[u].duty)'
    BY <1>1, <1>3, <2>1, <2>2
  <2>4. ASSUME NEW m \in Authorized', m[1] = task[u].pk
        PROVE  ~Slashable(task[u].duty, m[2])
    <3>1. m \in Authorized
      BY <1>1, <1>3, <2>1, <2>4
    <3> QED BY <2>4, <3>1 DEF SafetyInv, ReservationHolds
  <2> QED BY <2>3, <2>4
<1>7. DeletableRowUnused'
  <2> SUFFICES ASSUME NEW u \in Tasks, u # t,
                      task[u].phase \in {"reserved", "ready", "reconciling"}, task[u].inserted
               PROVE  <<task[u].pk, task[u].duty>> \notin Authorized'
    BY <1>1 DEF DeletableRowUnused
  <2>1. task[u].phase \in Critical
    BY <1>1
  <2>2. <<task[u].pk, task[u].duty>> \notin Authorized
    BY DEF SafetyInv, DeletableRowUnused
  <2> QED BY <1>1, <1>3, <2>1, <2>2
<1>8. \A m \in Authorized : m = <<m[1], m[2]>> /\ m[1] \in Pubkeys /\ m[2] \in Duties
  BY DEF Authorized, TypeOK, Messages
<1>9. task[t].phase = "ready" =>
        /\ Covered(pk, d)
        /\ \A m \in Authorized : m[1] = pk => ~Slashable(d, m[2]) /\ ~Slashable(m[2], d)
  BY <1>1, <1>8, SlashableSymmetric DEF SafetyInv, ReservationHolds
<1>10. EverySignatureCovered'
  <2> SUFFICES ASSUME NEW m \in Authorized' PROVE Covered(m[1], m[2])'
    BY DEF EverySignatureCovered
  <2>1. CASE m \in Authorized
    BY <1>8, <2>1 DEF SafetyInv, EverySignatureCovered
  <2>2. CASE m \notin Authorized
    <3>1. m = <<pk, d>> /\ task[t].phase = "ready"
      BY <2>2
    <3>2. Covered(pk, d)'
      BY <1>9, <3>1
    <3> QED BY <3>1, <3>2
  <2> QED BY <2>1, <2>2
<1>11. NoSlashableSignatures'
  <2> SUFFICES ASSUME NEW m \in Authorized', NEW n \in Authorized', m[1] = n[1]
               PROVE  ~Slashable(m[2], n[2])
    BY DEF NoSlashableSignatures
  <2>1. CASE m \in Authorized /\ n \in Authorized
    BY <2>1 DEF SafetyInv, NoSlashableSignatures
  <2>2. CASE m \notin Authorized \/ n \notin Authorized
    BY <1>9, <2>2, NotSlashableWithItself
  <2> QED BY <2>1, <2>2
<1> QED BY <1>4, <1>5, <1>6, <1>7, <1>10, <1>11 DEF SafetyInv

(* A step that leaves the database alone forgets nothing. *)
LEMMA UnchangedDbKeeps ==
    ASSUME UniqueRows, UNCHANGED dbVars
    PROVE  /\ UniqueRows' /\ Remembers
           /\ \A k \in Pubkeys, e \in Duties : Covered(k, e) => Covered(k, e)'
BY DEF dbVars, UniqueRows, Remembers, Covered

(* Every step keeps the safety invariant. *)
LEMMA SafetyStep ==
    ASSUME TypeOK, SafetyInv, [Next]_vars
    PROVE  SafetyInv'
<1>0. TypeOK' /\ DbTypeOK /\ UniqueRows
  BY TypeStep DEF TypeOK, SafetyInv
<1>1. ASSUME NEW t \in Tasks, NEW pk \in Pubkeys, NEW d \in Duties, Request(t, pk, d)
      PROVE  SafetyInv'
  <2>1. UNCHANGED dbVars /\ UNCHANGED <<lock, registry>> /\ Authorized' = Authorized
    BY <1>1 DEF TypeOK, Request, sysVars, Authorized
  <2>2. /\ task'[t].phase = "waiting" /\ task'[t].pk = pk /\ task'[t].route = RouteOf(pk)
        /\ task'[t].policy = "Retain"
        /\ \A u \in Tasks : u # t => task'[u] = task[u]
    BY <1>1 DEF TypeOK, Request
  <2>3. RouteOf(pk) = "typed" => "grpc" \in registry[pk]
    BY DEF RouteOf
  <2>4. task[t].phase \notin Critical /\ "waiting" \notin Critical
    BY <1>1 DEF TypeOK, Request, At, Critical
  <2>5. UniqueRows' /\ \A k \in Pubkeys, e \in Duties : Covered(k, e) => Covered(k, e)'
    BY <1>0, <2>1, UnchangedDbKeeps
  <2> QED BY <2>1, <2>2, <2>3, <2>4, <2>5, CallKeepsSafety
<1>2. ASSUME NEW t \in Tasks, DropCaller(t) \/ EnterBlocked(t)
      PROVE  SafetyInv'
  <2>0. task[t] \in Calls
    BY <1>2, ActiveCall DEF TypeOK, DropCaller, EnterBlocked, At
  <2>1. UNCHANGED dbVars /\ UNCHANGED <<lock, registry>> /\ Authorized' = Authorized
    BY <1>2 DEF TypeOK, DropCaller, EnterBlocked, sysVars, Authorized
  <2>2. task'[t].phase = "idle" /\ \A u \in Tasks : u # t => task'[u] = task[u]
    BY <1>2 DEF TypeOK, DropCaller, EnterBlocked, Idle
  <2>3. "idle" \notin Critical /\ task[t].pk \in Pubkeys /\ task[t].duty \in Duties
    BY <2>0 DEF Critical, Calls
  <2>4. UniqueRows' /\ \A k \in Pubkeys, e \in Duties : Covered(k, e) => Covered(k, e)'
    BY <1>0, <2>1, UnchangedDbKeeps
  <2> QED BY <2>1, <2>2, <2>3, <2>4, CallKeepsSafety
<1>3. ASSUME NEW t \in Tasks, Enter(t)
      PROVE  SafetyInv'
  <2>0. task[t] \in Calls /\ task[t].phase = "waiting"
    BY <1>3, ActiveCall DEF TypeOK, Enter, At
  <2>p. PICK pk \in Pubkeys, d \in Duties : task[t].pk = pk /\ task[t].duty = d
    BY <2>0 DEF Calls
  <2>1. UNCHANGED dbVars /\ UNCHANGED registry /\ Authorized' = Authorized
    BY <2>p, <1>3 DEF TypeOK, Enter, Authorized
  <2>3. /\ task'[t].phase = "locked" /\ task'[t].pk = pk /\ task'[t].route = task[t].route
        /\ task'[t].policy = EntryPolicy(t)
        /\ \A u \in Tasks : u # t => task'[u] = task[u]
    BY <2>p, <1>3, <2>0 DEF TypeOK, Enter, Calls
  <2>4. task[t].route = "typed" => "grpc" \in registry[pk] /\ EntryPolicy(t) = "Retain"
    BY <2>0, <2>p DEF SafetyInv, TypedRetains, At, EntryPolicy, ResolvePolicy
  <2>5. lock[pk] = None
    BY <1>3, <2>p DEF Enter
  <2>6. lock'[pk] = t /\ \A k \in Pubkeys : k # pk => lock'[k] = lock[k]
    BY <1>3, <2>p DEF Enter, TypeOK
  <2>7. UniqueRows' /\ \A k \in Pubkeys, e \in Duties : Covered(k, e) => Covered(k, e)'
    BY <1>0, <2>1, UnchangedDbKeeps
  <2>8. "waiting" \notin Critical
    BY DEF Critical
  <2> QED BY <2>p, <2>0, <2>1, <2>3, <2>4, <2>5, <2>6, <2>7, <2>8, CallKeepsSafety
<1>4. ASSUME NEW t \in Tasks, Reserve(t)
      PROVE  SafetyInv'
  <2>0. task[t] \in Calls /\ task[t].phase = "locked" /\ "locked" \in Critical
    BY <1>4, ActiveCall DEF TypeOK, Reserve, At, Critical
  <2>p. PICK pk \in Pubkeys, d \in Duties : task[t].pk = pk /\ task[t].duty = d
    BY <2>0 DEF Calls
  <2>1. /\ UNCHANGED <<lock, registry>> /\ Authorized' = Authorized
        /\ Accepted(pk, d)
    BY <2>p, <1>4 DEF TypeOK, Reserve, sysVars, Authorized
  <2>3. /\ task'[t].phase = "reserved" /\ task'[t].pk = pk /\ task'[t].duty = d
        /\ task'[t].route = task[t].route /\ task'[t].policy = task[t].policy
        /\ task'[t].inserted = (Verdict(pk, d) = "Stage")
        /\ \A u \in Tasks : u # t => task'[u] = task[u]
    BY <2>p, <1>4, <2>0 DEF TypeOK, Reserve, Calls
  <2>4. task[t].route = "typed" => "grpc" \in registry[pk] /\ task[t].policy = "Retain"
    BY <2>0, <2>p DEF SafetyInv, TypedRetains, At
  <2>5. lock[pk] = t
    BY <2>0, <2>p DEF SafetyInv, LockHeld
  <2>6. /\ UniqueRows' /\ Covered(pk, d)'
        /\ \A k \in Pubkeys, e \in Duties : Covered(k, e) => Covered(k, e)'
    <3>1. CASE Verdict(pk, d) = "Stage"
      <4>1. Insert(pk, d)
        BY <2>p, <1>4, <3>1 DEF TypeOK, Reserve
      <4> QED BY <2>p, <1>0, <2>1, <3>1, <4>1, InsertKeeps DEF Remembers
    <3>2. CASE Verdict(pk, d) # "Stage"
      <4>1. UNCHANGED dbVars
        BY <2>p, <1>4, <3>2 DEF TypeOK, Reserve
      <4>2. Covered(pk, d)
        BY <2>p, <1>0, <2>1, <3>2, StageIffUncovered
      <4> QED BY <2>p, <1>0, <4>1, <4>2, UnchangedDbKeeps
    <3> QED BY <2>p, <3>1, <3>2
  <2>7. \A m \in Authorized : m[1] = pk => ~Slashable(d, m[2])
    <3> SUFFICES ASSUME NEW m \in Authorized, m[1] = pk PROVE ~Slashable(d, m[2])
      OBVIOUS
    <3>1. m[2] \in Duties /\ Covered(pk, m[2])
      BY <2>p DEF TypeOK, Authorized, Messages, SafetyInv, EverySignatureCovered
    <3> QED BY <2>p, <1>0, <2>1, <3>1, AcceptedIsSafe
  <2>8. task'[t].inserted => <<pk, d>> \notin Authorized
    <3> SUFFICES ASSUME Verdict(pk, d) = "Stage", <<pk, d>> \in Authorized PROVE FALSE
      BY <2>p, <2>3
    <3>1. Covered(pk, d)
      BY <2>p DEF SafetyInv, EverySignatureCovered
    <3> QED BY <2>p, <1>0, <2>1, <3>1, StageIffUncovered
  <2> QED BY <2>p, <2>0, <2>1, <2>3, <2>4, <2>5, <2>6, <2>7, <2>8, CallKeepsSafety
<1>5. ASSUME NEW t \in Tasks,
             \/ ReserveRefused(t) \/ RemoteOk(t) \/ ReconcileFails(t)
             \/ SignInProcess(t)
             \/ Reconcile(t)
             \/ RemoteUnclear(t)
      PROVE  SafetyInv'
  <2>0. task[t] \in Calls /\ task[t].phase \in Critical
    BY <1>5, ActiveCall DEF ReserveRefused, RemoteOk, ReconcileFails, SignInProcess, Reconcile,
          RemoteUnclear, At, Critical
  <2>p. PICK pk \in Pubkeys, d \in Duties : task[t].pk = pk /\ task[t].duty = d
    BY <2>0 DEF Calls
  <2>2. Return(t) /\ UNCHANGED registry
    <3>1. RemoteUnclear(t) => task[t].policy = "Retain"
      BY <2>p DEF RemoteUnclear, At, SafetyInv, TypedRetains
    <3> QED BY <2>p, <1>5, <3>1 DEF ReserveRefused, RemoteOk, ReconcileFails, SignInProcess, Reconcile,
          RemoteUnclear
  <2>3. task'[t].phase = "idle" /\ \A u \in Tasks : u # t => task'[u] = task[u]
    BY <2>p, <2>2 DEF TypeOK, Return, Idle
  <2>4. \A k \in Pubkeys : k # pk => lock'[k] = lock[k]
    BY <2>p, <2>2 DEF TypeOK, Return
  <2>5. \/ Authorized' = Authorized
        \/ Authorized' = Authorized \cup {<<pk, d>>} /\ task[t].phase = "ready"
    BY <2>p, <1>5 DEF ReserveRefused, RemoteOk, ReconcileFails, SignInProcess, Reconcile,
          RemoteUnclear, Authorized, At
  <2>6. /\ UniqueRows'
        /\ \A k \in Pubkeys, e \in Duties : Covered(k, e) =>
               \/ Covered(k, e)'
               \/ k = pk /\ e = d /\ task[t].phase = "reconciling" /\ <<pk, d>> \notin Authorized
    <3>1. CASE UNCHANGED dbVars
      BY <2>p, <1>0, <3>1, UnchangedDbKeeps
    <3>2. CASE Reconcile(t) /\ task[t].inserted
      <4>1. task[t].phase = "reconciling" /\ <<pk, d>> \notin Authorized /\ DeleteReserved(pk, d)
        BY <2>p, <3>2 DEF Reconcile, At, SafetyInv, DeletableRowUnused
      <4> QED BY <2>p, <1>0, <4>1, DeleteKeepsOthers
    <3> QED BY <2>p, <1>5, <3>1, <3>2 DEF ReserveRefused, RemoteOk, ReconcileFails, SignInProcess,
          Reconcile, RemoteUnclear
  <2>7. "idle" \notin Critical
    BY DEF Critical
  <2> QED BY <2>p, <2>0, <2>2, <2>3, <2>4, <2>5, <2>6, <2>7, CallKeepsSafety
<1>6. ASSUME NEW t \in Tasks,
             Recheck(t) \/ NoSignature(t) \/ InProcessFailure(t) \/ Contact(t)
      PROVE  SafetyInv'
  <2>0. task[t] \in Calls /\ task[t].phase \in {"reserved", "ready"}
    BY <1>6, ActiveCall DEF TypeOK, Recheck, NoSignature, InProcessFailure, Contact, At
  <2>p. PICK pk \in Pubkeys, d \in Duties : task[t].pk = pk /\ task[t].duty = d
    BY <2>0 DEF Calls
  <2>2. UNCHANGED dbVars /\ UNCHANGED <<lock, registry>>
    BY <2>p, <1>6 DEF TypeOK, Recheck, NoSignature, InProcessFailure, Contact, sysVars
  <2>3. /\ task'[t].pk = pk /\ task'[t].duty = d
        /\ task'[t].route = task[t].route /\ task'[t].inserted = task[t].inserted
        /\ \A u \in Tasks : u # t => task'[u] = task[u]
    <3>1. CASE Recheck(t)
      BY <2>0, <2>p, <3>1 DEF Recheck, Calls, TypeOK
    <3>2. ASSUME NEW phase, Goto(t, phase)
          PROVE  /\ task'[t].pk = pk /\ task'[t].duty = d
                 /\ task'[t].route = task[t].route /\ task'[t].inserted = task[t].inserted
                 /\ \A u \in Tasks : u # t => task'[u] = task[u]
      BY <2>0, <2>p, <3>2 DEF Goto, Calls, TypeOK
    <3> QED BY <1>6, <3>1, <3>2 DEF NoSignature, InProcessFailure, Contact
  <2>4. task[t].route = "typed" => "grpc" \in registry[pk] /\ task[t].policy = "Retain"
    BY <2>0, <2>p DEF SafetyInv, TypedRetains, At
  <2>5. task[t].policy = "Retain" => task'[t].policy = "Retain"
    <3>1. CASE Recheck(t)
      <4>1. task'[t].policy = FailClosedMax(task[t].policy, EntryPolicy(t))
        BY <2>0, <3>1 DEF Recheck, Calls, TypeOK
      <4> QED BY <4>1 DEF FailClosedMax
    <3>2. ASSUME NEW phase, Goto(t, phase)
          PROVE  task'[t].policy = task[t].policy
      BY <2>0, <3>2 DEF Goto, Calls, TypeOK
    <3> QED BY <1>6, <3>1, <3>2 DEF NoSignature, InProcessFailure, Contact
  <2>6. /\ task'[t].phase \in {"ready", "reconciling", "contacted"}
        /\ task'[t].phase = "contacted" => task[t].route = "typed"
        /\ \/ Authorized' = Authorized
           \/ /\ Authorized' = Authorized \cup {<<pk, d>>}
              /\ task[t].phase = "ready" /\ task'[t].phase = "contacted"
    <3>0. \A phase : Goto(t, phase) => task'[t].phase = phase
      BY <2>0 DEF Goto, Calls, TypeOK
    <3>1. CASE Recheck(t)
      <4>1. task'[t].phase = "ready"
        BY <2>0, <3>1 DEF Recheck, Calls, TypeOK
      <4>2. Authorized' = Authorized
        BY <3>1 DEF Recheck, sysVars, Authorized
      <4> QED BY <4>1, <4>2
    <3>2. CASE NoSignature(t) \/ InProcessFailure(t)
      <4>1. task'[t].phase = "reconciling"
        BY <3>0, <3>2 DEF NoSignature, InProcessFailure
      <4>2. Authorized' = Authorized
        BY <3>2 DEF NoSignature, InProcessFailure, sysVars, Authorized
      <4> QED BY <4>1, <4>2
    <3>3. CASE Contact(t)
      <4>1. task'[t].phase = "contacted" /\ task[t].route = "typed" /\ task[t].phase = "ready"
        BY <3>0, <3>3 DEF Contact, At
      <4>2. Authorized' = Authorized \cup {<<pk, d>>}
        BY <2>p, <3>3 DEF Contact, Authorized
      <4> QED BY <4>1, <4>2
    <3> QED BY <1>6, <3>1, <3>2, <3>3
  <2>7. lock[pk] = t /\ task[t].phase \in Critical /\ {"ready", "reconciling", "contacted"} \subseteq Critical
    BY <2>0, <2>p DEF SafetyInv, LockHeld, Critical
  <2>8. /\ UniqueRows'
        /\ \A k \in Pubkeys, e \in Duties : Covered(k, e) => Covered(k, e)'
    BY <2>p, <1>0, <2>2, UnchangedDbKeeps
  <2>9. /\ Covered(pk, d)
        /\ \A m \in Authorized : m[1] = pk => ~Slashable(d, m[2])
        /\ task[t].inserted => <<pk, d>> \notin Authorized
    BY <2>0, <2>p DEF SafetyInv, ReservationHolds, DeletableRowUnused
  <2>10. Covered(pk, d)' /\ \A m \in Authorized' : m[1] = pk => ~Slashable(d, m[2])
    BY <2>p, <2>6, <2>8, <2>9, NotSlashableWithItself
  <2> QED BY <2>p, <2>0, <2>2, <2>3, <2>4, <2>5, <2>6, <2>7, <2>8, <2>9, <2>10, CallKeepsSafety
        
<1>7. CASE RemoteSigns
  <2>1. Authorized' = Authorized /\ UNCHANGED <<task, lock, registry>> /\ UNCHANGED dbVars
    BY <1>7 DEF RemoteSigns, Authorized
  <2> QED BY <1>0, <2>1, UnchangedDbKeeps, SurroundingsKeepSafety
<1>8. ASSUME NEW pk \in Pubkeys, NEW b \in Importable, AddBackend(pk, b) \/ RemoveBackend(pk, b)
      PROVE  SafetyInv'
  <2>1. Authorized' = Authorized /\ UNCHANGED <<task, lock>> /\ UNCHANGED dbVars
    BY <1>8 DEF TypeOK, AddBackend, RemoveBackend, Authorized
  <2>2. b # "grpc"
    BY SigningAssumption
  <2>3. \A k \in Pubkeys : "grpc" \in registry[k] => "grpc" \in registry'[k]
    BY <1>8, <2>2 DEF TypeOK, AddBackend, RemoveBackend
  <2> QED BY <1>0, <2>1, <2>3, UnchangedDbKeeps, SurroundingsKeepSafety
<1>9. ASSUME NEW pk \in Pubkeys, Toggle(pk) \/ Quiesce(pk) \/ Drain(pk)
      PROVE  SafetyInv'
  <2>1. Authorized' = Authorized /\ UNCHANGED <<task, lock, registry>> /\ UNCHANGED dbVars
    BY <1>9 DEF Toggle, Quiesce, Drain, Authorized
  <2> QED BY <1>0, <2>1, UnchangedDbKeeps, SurroundingsKeepSafety
<1>10. ASSUME NEW pk \in Pubkeys, NEW f \in Files, ImportFile(pk, f)
       PROVE  SafetyInv'
  <2>1. Authorized' = Authorized /\ UNCHANGED <<task, lock, registry>> /\ Import(pk, f)
    BY <1>10 DEF ImportFile, Authorized
  <2>2. UniqueRows' /\ Remembers
    BY <1>0, <2>1, ImportKeeps
  <2> QED BY <2>1, <2>2, SurroundingsKeepSafety
<1>11. CASE Maintain
  <2>1. Authorized' = Authorized /\ UNCHANGED <<task, lock, registry>>
    BY <1>11 DEF Maintain, sysVars, Authorized
  <2>2. UniqueRows' /\ Remembers
    <3>1. ASSUME NEW pk \in Pubkeys, NEW s \in BlockFloors, SetBlockWatermark(pk, s)
          PROVE  UniqueRows' /\ Remembers
      BY <1>0, <3>1, SetWatermarkKeeps, SigningAssumption
    <3>2. ASSUME NEW pk \in Pubkeys, NEW f \in AttestationFloors,
                 SetAttestationWatermark(pk, f[1], f[2])
          PROVE  UniqueRows' /\ Remembers
      <4>1. f[1] \in Epochs /\ f[2] \in Epochs
        BY SigningAssumption
      <4> QED BY <1>0, <3>2, <4>1, SetWatermarkKeeps
    <3>3. CASE Prune
      BY <1>0, <3>3, PruneKeeps
    <3> QED BY <1>11, <3>1, <3>2, <3>3 DEF Maintain
  <2> QED BY <2>1, <2>2, SurroundingsKeepSafety
<1>12. CASE Crash
  <2>1. Authorized' = Authorized /\ UNCHANGED dbVars /\ \A t \in Tasks : task'[t].phase = "idle"
    BY <1>12 DEF TypeOK, Crash, Boot, Authorized, Idle
  <2>2. \A m \in Authorized : m[1] \in Pubkeys /\ m[2] \in Duties
    BY DEF TypeOK, Authorized, Messages
  <2>3. UniqueRows' /\ \A k \in Pubkeys, e \in Duties : Covered(k, e) => Covered(k, e)'
    BY <1>0, <2>1, UnchangedDbKeeps
  <2>4. LockHeld' /\ TypedRetains' /\ ReservationHolds' /\ DeletableRowUnused'
    BY <2>1 DEF LockHeld, TypedRetains, ReservationHolds, DeletableRowUnused, At, Critical
  <2>5. EverySignatureCovered' /\ NoSlashableSignatures'
    BY <2>1, <2>2, <2>3 DEF SafetyInv, EverySignatureCovered, NoSlashableSignatures
  <2> QED BY <2>3, <2>4, <2>5 DEF SafetyInv
<1>13. CASE UNCHANGED vars
  <2>1. Authorized' = Authorized /\ UNCHANGED <<task, lock, registry>> /\ UNCHANGED dbVars
    BY <1>13 DEF vars, sysVars, Authorized
  <2> QED BY <1>0, <2>1, UnchangedDbKeeps, SurroundingsKeepSafety
<1> QED
  BY <1>1, <1>2, <1>3, <1>4, <1>5, <1>6, <1>7, <1>8, <1>9, <1>10, <1>11, <1>12, <1>13,
     SigningAssumption
  DEF Next, Call, Step, Surroundings

(* The inductive invariant holds in every reachable state. *)
THEOREM SafetyInvariant == Spec => [](TypeOK /\ SafetyInv)
<1>1. Init => TypeOK /\ SafetyInv
  <2> SUFFICES ASSUME Init PROVE SafetyInv
    BY TypeInit
  <2>1. UniqueRows
    BY DEF Init, DbInit, UniqueRows
  <2>2. Authorized = {} /\ \A t \in Tasks : task[t].phase = "idle"
    BY DEF Init, Authorized, Idle
  <2>3. LockHeld /\ TypedRetains /\ ReservationHolds /\ DeletableRowUnused
    BY <2>2 DEF LockHeld, TypedRetains, ReservationHolds, DeletableRowUnused, At, Critical
  <2> QED BY <2>1, <2>2, <2>3 DEF SafetyInv, EverySignatureCovered, NoSlashableSignatures
<1>2. TypeOK /\ SafetyInv /\ [Next]_vars => (TypeOK /\ SafetyInv)'
  BY TypeStep, SafetyStep
<1> QED BY <1>1, <1>2, PTL DEF Spec

(* No reachable state holds two slashable signatures of one validator,     *)
(* those a remote signer may still produce included.                       *)
THEOREM NeverSlashable == Spec => []NoSlashableSignatures
<1>1. TypeOK /\ SafetyInv => NoSlashableSignatures
  BY DEF SafetyInv
<1> QED BY <1>1, SafetyInvariant, PTL

(* Reserve before sign: every signature that exists or may still appear is *)
(* covered by a row or a watermark of the database.                        *)
THEOREM AlwaysCovered == Spec => []EverySignatureCovered
<1>1. TypeOK /\ SafetyInv => EverySignatureCovered
  BY DEF SafetyInv
<1> QED BY <1>1, SafetyInvariant, PTL

-----------------------------------------------------------------------------
(* Action properties.                                                      *)

(* A step that leaves the watermarks alone lowers none. *)
LEMMA UnchangedFloorsHold ==
    ASSUME DbTypeOK, UNCHANGED watermarks
    PROVE  FloorsHold
BY NotLoweredReflexive DEF FloorsHold

(* No step lowers a watermark. *)
LEMMA FloorsStep ==
    ASSUME TypeOK, SafetyInv, [Next]_vars
    PROVE  FloorsHold
<1>0. DbTypeOK /\ UniqueRows
  BY DEF TypeOK, SafetyInv
<1>1. ASSUME NEW t \in Tasks, Call(t)
      PROVE  FloorsHold
  <2>1. UNCHANGED watermarks
    BY <1>1 DEF Call, Step, Request, DropCaller, Enter, EnterBlocked, Reserve, ReserveRefused,
          Recheck, SignInProcess, NoSignature, InProcessFailure, Contact, RemoteOk,
          RemoteUnclear, Reconcile, ReconcileFails, Insert, DeleteReserved, dbVars
  <2> QED BY <1>0, <2>1, UnchangedFloorsHold
<1>2. ASSUME NEW pk \in Pubkeys, NEW f \in Files, ImportFile(pk, f)
      PROVE  FloorsHold
  BY <1>0, <1>2, ImportKeeps DEF ImportFile
<1>3. CASE Maintain
  <2>1. ASSUME NEW pk \in Pubkeys, NEW s \in BlockFloors, SetBlockWatermark(pk, s)
        PROVE  FloorsHold
    BY <1>0, <2>1, SetWatermarkKeeps, SigningAssumption
  <2>2. ASSUME NEW pk \in Pubkeys, NEW f \in AttestationFloors,
               SetAttestationWatermark(pk, f[1], f[2])
        PROVE  FloorsHold
    <3>1. f[1] \in Epochs /\ f[2] \in Epochs
      BY SigningAssumption
    <3> QED BY <1>0, <2>2, <3>1, SetWatermarkKeeps
  <2>3. CASE Prune
    BY <1>0, <2>3, PruneKeeps
  <2> QED BY <1>3, <2>1, <2>2, <2>3 DEF Maintain
<1>4. CASE \/ RemoteSigns \/ Crash \/ UNCHANGED vars
           \/ \E pk \in Pubkeys, b \in Importable : AddBackend(pk, b) \/ RemoveBackend(pk, b)
           \/ \E pk \in Watched : Toggle(pk)
           \/ \E pk \in Quiescable : Quiesce(pk) \/ Drain(pk)
  <2>1. UNCHANGED watermarks
    BY <1>4 DEF RemoteSigns, Crash, AddBackend, RemoveBackend, Toggle, Quiesce, Drain, vars, dbVars
  <2> QED BY <1>0, <2>1, UnchangedFloorsHold
<1> QED BY <1>1, <1>2, <1>3, <1>4 DEF Next, Surroundings

(* Setters, prune and import only ever raise a validator's watermarks. *)
THEOREM WatermarksMonotonic == Spec => WatermarksNeverLowered
<1>1. TypeOK /\ SafetyInv /\ [Next]_vars =>
        [\A pk \in Pubkeys :
          /\ NotLowered(watermarks[pk].block, watermarks'[pk].block)
          /\ NotLowered(watermarks[pk].source, watermarks'[pk].source)
          /\ NotLowered(watermarks[pk].target, watermarks'[pk].target)]_vars
  BY FloorsStep DEF FloorsHold
<1> QED BY <1>1, SafetyInvariant, PTL DEF Spec, WatermarksNeverLowered

-----------------------------------------------------------------------------
(* Imported rows stay below the watermarks. *)
LEMMA ImportsStep ==
    ASSUME TypeOK, SafetyInv, ImportsBelowWatermarks, [Next]_vars
    PROVE  ImportsBelowWatermarks'
<1>0. FloorsHold /\ TypeOK'
  BY FloorsStep, TypeStep
<1>1. \A pk \in Pubkeys :
        /\ watermarks[pk].block \in Nat \cup {None} /\ watermarks'[pk].block \in Nat \cup {None}
        /\ watermarks[pk].source \in Nat \cup {None} /\ watermarks'[pk].source \in Nat \cup {None}
        /\ watermarks[pk].target \in Nat \cup {None} /\ watermarks'[pk].target \in Nat \cup {None}
  BY <1>0, NumbersAssumption DEF TypeOK, DbTypeOK, Watermarks
<1>2. /\ \A r \in AttRows : r.source \in Nat /\ r.target \in Nat
      /\ \A r \in BlkRows : r.slot \in Nat
  BY NumbersAssumption DEF AttRows, BlkRows
<1>3. ASSUME NEW pk \in Pubkeys, NEW r \in AttRows, <<pk, r>> \in foreign.atts
      PROVE  /\ AtOrBelow(r.source, watermarks'[pk].source)
             /\ AtOrBelow(r.target, watermarks'[pk].target)
  BY <1>0, <1>1, <1>2, <1>3, RaisedFloorCovers DEF ImportsBelowWatermarks, FloorsHold
<1>4. ASSUME NEW pk \in Pubkeys, NEW r \in BlkRows, <<pk, r>> \in foreign.blocks
      PROVE  AtOrBelow(r.slot, watermarks'[pk].block)
  BY <1>0, <1>1, <1>2, <1>4, RaisedFloorCovers DEF ImportsBelowWatermarks, FloorsHold
<1>5. CASE foreign' = foreign
  BY <1>3, <1>4, <1>5 DEF ImportsBelowWatermarks
<1>6. ASSUME NEW pk \in Pubkeys, NEW f \in Files, ImportFile(pk, f)
      PROVE  ImportsBelowWatermarks'
  <2>1. /\ foreign'.atts = foreign.atts \cup ({pk} \X f.atts)
        /\ foreign'.blocks = foreign.blocks \cup ({pk} \X f.blocks)
    BY <1>6 DEF ImportFile
  <2>2. /\ \A r \in f.atts : /\ AtOrBelow(r.source, watermarks'[pk].source)
                            /\ AtOrBelow(r.target, watermarks'[pk].target)
        /\ \A r \in f.blocks : AtOrBelow(r.slot, watermarks'[pk].block)
    BY <1>6, ImportRaises DEF ImportFile, TypeOK
  <2> QED BY <1>3, <1>4, <2>1, <2>2 DEF ImportsBelowWatermarks
<1>7. foreign' = foreign \/ \E pk \in Pubkeys, f \in Files : ImportFile(pk, f)
  BY DEF Next, Call, Step, Surroundings, Request, DropCaller, Enter, EnterBlocked, Reserve,
     ReserveRefused, Recheck, SignInProcess, NoSignature, InProcessFailure, Contact, RemoteOk,
     RemoteUnclear, Reconcile, ReconcileFails, RemoteSigns, AddBackend, RemoveBackend, Toggle,
     Quiesce, Drain, Maintain, Crash, vars, sysVars
<1> QED BY <1>5, <1>6, <1>7

(* A step of one call leaves the other calls alone. *)
LEMMA OtherCallsUnchanged ==
    ASSUME TypeOK, NEW u \in Tasks, Call(u), NEW t \in Tasks, t # u
    PROVE  task'[t] = task[t]
BY DEF TypeOK, Call, Step, Request, DropCaller, Enter, EnterBlocked, Reserve, ReserveRefused,
   Recheck, SignInProcess, NoSignature, InProcessFailure, Contact, RemoteOk, RemoteUnclear,
   Reconcile, ReconcileFails, Return, Goto

(* Only a reservation takes a call from "locked" to "reserved". *)
LEMMA OnlyReserveReserves ==
    ASSUME TypeOK, Next, NEW t \in Tasks, task[t].phase = "locked", task'[t].phase = "reserved"
    PROVE  Reserve(t)
<1>1. ASSUME NEW u \in Tasks, Call(u)
      PROVE  Reserve(t)
  <2>1. u = t
    BY <1>1, OtherCallsUnchanged
  <2>2. Reserve(t) \/ ReserveRefused(t)
    BY <1>1, <2>1 DEF Call, Step, Request, DropCaller, Enter, EnterBlocked, Recheck,
          SignInProcess, NoSignature, InProcessFailure, Contact, RemoteOk, RemoteUnclear,
          Reconcile, ReconcileFails, At
  <2>3. ReserveRefused(t) => task'[t].phase = "idle"
    BY DEF ReserveRefused, Return, TypeOK, Idle
  <2> QED BY <2>2, <2>3
<1>2. Surroundings => task' = task \/ task' = [u \in Tasks |-> Idle]
  BY DEF Surroundings, RemoteSigns, AddBackend, RemoveBackend, Toggle, Quiesce, Drain, ImportFile,
     Maintain, Crash, Boot
<1>3. ~Surroundings
  BY <1>2 DEF Idle
<1> QED BY <1>1, <1>3 DEF Next

(* Once a file is imported, no reservation that conflicts with one of its  *)
(* rows is accepted, whether import stored the row or dropped it.          *)
THEOREM ImportsRespected == Spec => ImportedHistoryRespected
<1> DEFINE Respected == \A t \in Tasks : At(t, "locked") /\ task'[t].phase = "reserved" =>
                          ~ConflictsWithImport(task[t].pk, task[t].duty)
<1>1. Init => ImportsBelowWatermarks
  BY DEF Init, ImportsBelowWatermarks
<1>2. TypeOK /\ SafetyInv /\ ImportsBelowWatermarks /\ [Next]_vars => ImportsBelowWatermarks'
  BY ImportsStep
<1>3. TypeOK /\ ImportsBelowWatermarks /\ [Next]_vars => [Respected]_vars
  <2> SUFFICES ASSUME TypeOK, ImportsBelowWatermarks, Next, NEW t \in Tasks,
                      At(t, "locked"), task'[t].phase = "reserved"
               PROVE  ~ConflictsWithImport(task[t].pk, task[t].duty)
    OBVIOUS
  <2>1. task[t] \in Calls /\ task[t].phase = "locked"
    BY ActiveCall DEF At
  <2>2. task[t].pk \in Pubkeys /\ task[t].duty \in Duties
    BY <2>1 DEF Calls
  <2>3. Accepted(task[t].pk, task[t].duty)
    BY <2>1, OnlyReserveReserves DEF Reserve
  <2>4. CASE task[t].duty.kind = "att"
    <3>1. /\ ~Below(task[t].duty.source, watermarks[task[t].pk].source)
          /\ ~AtOrBelow(task[t].duty.target, watermarks[task[t].pk].target)
      BY <2>2, <2>3, <2>4, AcceptedAttestationFacts DEF TypeOK
    <3>2. task[t].duty.source \in Nat /\ task[t].duty.target \in Nat
      BY <2>2, <2>4, DutyKinds, NumbersAssumption
    <3>3. ASSUME NEW r \in AttRows, <<task[t].pk, r>> \in foreign.atts
          PROVE  ~(task[t].duty.target = r.target) /\ ~Surrounding(task[t].duty, r)
                    /\ ~Surrounded(task[t].duty, r)
      <4>1. /\ AtOrBelow(r.source, watermarks[task[t].pk].source)
            /\ AtOrBelow(r.target, watermarks[task[t].pk].target)
        BY <2>2, <3>3 DEF ImportsBelowWatermarks
      <4>2. r.source \in Nat /\ r.target \in Nat
        BY NumbersAssumption DEF AttRows
      <4>3. watermarks[task[t].pk].source \in Nat /\ watermarks[task[t].pk].target \in Nat
        BY <2>2, <4>1, NumbersAssumption DEF AtOrBelow, TypeOK, DbTypeOK, Watermarks
      <4>4. r.source <= task[t].duty.source /\ r.target < task[t].duty.target
        BY <3>1, <3>2, <4>1, <4>2, <4>3 DEF AtOrBelow, Below
      <4> QED BY <3>2, <4>2, <4>4 DEF Surrounding, Surrounded
    <3> QED BY <2>4, <3>3 DEF ConflictsWithImport
  <2>5. CASE task[t].duty.kind = "block"
    <3>1. ~AtOrBelow(task[t].duty.slot, watermarks[task[t].pk].block)
      BY <2>2, <2>3, <2>5, AcceptedBlockFacts DEF TypeOK
    <3> QED BY <2>2, <2>5, <3>1 DEF ConflictsWithImport, ImportsBelowWatermarks
  <2> QED BY <2>2, <2>4, <2>5, DutyKinds
<1> QED BY <1>1, <1>2, <1>3, SafetyInvariant, PTL DEF Spec, ImportedHistoryRespected

-----------------------------------------------------------------------------
(* Quiesce.                                                                *)

(* A drained key stays closed: no call enters its critical section. *)
LEMMA DrainedStep ==
    ASSUME TypeOK, SafetyInv, DrainedIsClosed, [Next]_vars
    PROVE  DrainedIsClosed'
<1>0. LockHeld
  BY DEF SafetyInv
<1>1. ASSUME NEW u \in Tasks, Call(u)
      PROVE  DrainedIsClosed'
  <2>1. UNCHANGED <<quiesced, drained>>
    BY <1>1 DEF Call, Step, Request, DropCaller, Enter, EnterBlocked, Reserve, ReserveRefused,
          Recheck, SignInProcess, NoSignature, InProcessFailure, Contact, RemoteOk,
          RemoteUnclear, Reconcile, ReconcileFails, sysVars
  <2>2. \/ task'[u].phase \notin Critical
        \/ task[u].phase \in Critical /\ task'[u].pk = task[u].pk
        \/ task'[u].pk \notin quiesced
    <3>1. CASE Enter(u)
      <4>1. task[u] \in Calls
        BY <3>1, ActiveCall DEF Enter, At
      <4>2. task'[u].pk = task[u].pk
        BY <3>1, <4>1 DEF Enter, TypeOK, Calls
      <4> QED BY <3>1, <4>2 DEF Enter, Enabled
    <3>2. CASE (\E pk \in Pubkeys, d \in Duties : Request(u, pk, d)) \/ DropCaller(u) \/ EnterBlocked(u)
      BY <3>2 DEF Request, DropCaller, EnterBlocked, Idle, Critical, TypeOK
    <3>3. CASE ReserveRefused(u) \/ SignInProcess(u) \/ RemoteOk(u) \/ Reconcile(u) \/ ReconcileFails(u)
      BY <3>3 DEF ReserveRefused, SignInProcess, RemoteOk, Reconcile, ReconcileFails, Return, Idle,
            Critical, TypeOK
    <3>4. CASE Reserve(u) \/ Recheck(u)
      <4>1. task[u] \in Calls /\ task[u].phase \in Critical
        BY <3>4, ActiveCall DEF Reserve, Recheck, At, Critical
      <4>2. Reserve(u) => task'[u].pk = task[u].pk
        BY <4>1 DEF Reserve, TypeOK, Calls
      <4>3. Recheck(u) => task'[u].pk = task[u].pk
        BY <4>1 DEF Recheck, TypeOK, Calls
      <4> QED BY <3>4, <4>1, <4>2, <4>3
    <3>5. CASE NoSignature(u) \/ InProcessFailure(u) \/ Contact(u) \/ RemoteUnclear(u)
      <4>1. task[u] \in Calls /\ task[u].phase \in Critical
        BY <3>5, ActiveCall DEF NoSignature, InProcessFailure, Contact, RemoteUnclear, At, Critical
      <4>2. \A phase : Goto(u, phase) => task'[u].pk = task[u].pk
        BY <4>1 DEF Goto, TypeOK, Calls
      <4>3. Return(u) => task'[u].phase \notin Critical
        BY DEF Return, Idle, Critical, TypeOK
      <4> QED BY <3>5, <4>1, <4>2, <4>3 DEF NoSignature, InProcessFailure, Contact, RemoteUnclear
    <3> QED BY <1>1, <3>1, <3>2, <3>3, <3>4, <3>5 DEF Call, Step
  <2> QED BY <1>1, <2>1, <2>2, OtherCallsUnchanged DEF DrainedIsClosed
<1>2. ASSUME NEW pk \in Pubkeys, Drain(pk)
      PROVE  DrainedIsClosed'
  <2>1. \A t \in Tasks : task[t].phase \in Critical => task[t].pk # pk
    BY <1>0, <1>2, SigningAssumption DEF Drain, LockHeld
  <2> QED BY <1>2, <2>1 DEF Drain, DrainedIsClosed
<1>3. ASSUME NEW pk \in Pubkeys, NEW b \in Importable, AddBackend(pk, b)
      PROVE  DrainedIsClosed'
  BY <1>3 DEF AddBackend, DrainedIsClosed
<1>4. ASSUME NEW pk \in Pubkeys, Quiesce(pk)
      PROVE  DrainedIsClosed'
  BY <1>4 DEF Quiesce, DrainedIsClosed
<1>5. CASE Crash
  BY <1>5 DEF Crash, Boot, DrainedIsClosed
<1>6. CASE \/ RemoteSigns \/ Maintain \/ UNCHANGED vars
           \/ \E pk \in Pubkeys, b \in Importable : RemoveBackend(pk, b)
           \/ \E pk \in Watched : Toggle(pk)
           \/ \E pk \in Pubkeys, f \in Files : ImportFile(pk, f)
  <2>1. UNCHANGED <<task, quiesced, drained>>
    BY <1>6 DEF RemoteSigns, Maintain, RemoveBackend, Toggle, ImportFile, vars, sysVars
  <2> QED BY <2>1 DEF DrainedIsClosed
<1> QED BY <1>1, <1>2, <1>3, <1>4, <1>5, <1>6, SigningAssumption DEF Next, Surroundings

(* Between an Ok of quiesce and the next admission of the key, the process *)
(* reserves, requests and signs nothing for it.                            *)
THEOREM DrainedSilent == Spec => DrainedKeyIsSilent
<1> DEFINE Silent == \A pk \in drained \cap drained' :
          /\ \A d \in Duties : <<pk, d>> \in signed' \cup requests' => <<pk, d>> \in Authorized
          /\ \A t \in Tasks : ~(task'[t].phase = "reserved" /\ task'[t].pk = pk)
<1>1. Init => DrainedIsClosed
  BY DEF Init, DrainedIsClosed
<1>2. TypeOK /\ SafetyInv /\ DrainedIsClosed /\ [Next]_vars => DrainedIsClosed'
  BY DrainedStep
<1>3. TypeOK /\ DrainedIsClosed /\ DrainedIsClosed' /\ [Next]_vars => [Silent]_vars
  <2> SUFFICES ASSUME TypeOK, DrainedIsClosed, DrainedIsClosed', Next,
                      NEW pk \in drained, pk \in drained'
               PROVE  /\ \A d \in Duties : <<pk, d>> \in signed' \cup requests' =>
                                            <<pk, d>> \in Authorized
                      /\ \A t \in Tasks : ~(task'[t].phase = "reserved" /\ task'[t].pk = pk)
    OBVIOUS
  <2>1. \A t \in Tasks : ~(task'[t].phase = "reserved" /\ task'[t].pk = pk)
    BY DEF DrainedIsClosed, Critical
  <2>2. \/ UNCHANGED <<signed, requests>>
        \/ RemoteSigns
        \/ \E t \in Tasks : Contact(t) \/ SignInProcess(t)
    BY DEF Next, Call, Step, Surroundings, Request, DropCaller, Enter, EnterBlocked, Reserve,
       ReserveRefused, Recheck, NoSignature, InProcessFailure, RemoteOk, RemoteUnclear,
       Reconcile, ReconcileFails, AddBackend, RemoveBackend, Toggle, Quiesce, Drain, ImportFile,
       Maintain, Crash, sysVars
  <2>3. CASE UNCHANGED <<signed, requests>>
    BY <2>1, <2>3 DEF Authorized
  <2>4. CASE RemoteSigns
    BY <2>1, <2>4 DEF RemoteSigns, Authorized
  <2>5. ASSUME NEW t \in Tasks, Contact(t) \/ SignInProcess(t)
        PROVE  \A d \in Duties : <<pk, d>> \in signed' \cup requests' => <<pk, d>> \in Authorized
    <3>1. task[t].pk # pk
      BY <2>5 DEF Contact, SignInProcess, At, DrainedIsClosed, Critical
    <3> QED BY <2>5, <3>1 DEF Contact, SignInProcess, Authorized
  <2> QED BY <2>1, <2>2, <2>3, <2>4, <2>5
<1> QED BY <1>1, <1>2, <1>3, SafetyInvariant, PTL DEF Spec, DrainedKeyIsSilent

-----------------------------------------------------------------------------
(* The export.                                                             *)

(* No step makes two rows above the target floor surround each other:      *)
(* reservations are checked against every row, imported rows lie below the *)
(* floor their file raises, and everything else removes rows or raises     *)
(* floors.                                                                 *)
LEMMA AboveFloorStep ==
    ASSUME TypeOK, SafetyInv, AboveFloorSafe, [Next]_vars
    PROVE  AboveFloorSafe'
<1>0. DbTypeOK /\ DbTypeOK' /\ FloorsHold
  BY FloorsStep, TypeStep DEF TypeOK
<1>1. ASSUME NEW t \in Tasks, Reserve(t)
      PROVE  AboveFloorSafe'
  <2>1. task[t] \in Calls
    BY <1>1, ActiveCall DEF Reserve, At
  <2>2. task[t].pk \in Pubkeys /\ task[t].duty \in Duties
    BY <2>1 DEF Calls
  <2>3. CASE Insert(task[t].pk, task[t].duty)
    BY <1>0, <1>1, <2>2, <2>3, InsertAboveFloor DEF Reserve
  <2>4. CASE UNCHANGED dbVars
    BY <1>0, <2>4, FewerAboveFloor DEF dbVars
  <2> QED BY <1>1, <2>3, <2>4 DEF Reserve
<1>2. ASSUME NEW t \in Tasks, Reconcile(t)
      PROVE  AboveFloorSafe'
  <2>1. task[t] \in Calls
    BY <1>2, ActiveCall DEF Reconcile, At
  <2>2. task[t].pk \in Pubkeys /\ task[t].duty \in Duties
    BY <2>1 DEF Calls
  <2>3. \A k \in Pubkeys : attestations'[k] \subseteq attestations[k]
    BY <1>0, <1>2, <2>2 DEF Reconcile, DeleteReserved, dbVars, DbTypeOK
  <2> QED BY <1>0, <2>3, FewerAboveFloor
<1>3. ASSUME NEW pk \in Pubkeys, NEW f \in Files, ImportFile(pk, f)
      PROVE  AboveFloorSafe'
  <2>1. PICK atts \in SUBSET f.atts : attestations' = [attestations EXCEPT ![pk] = @ \cup atts]
    BY <1>3 DEF ImportFile, Import, KeptAtts
  <2>2. \A r \in f.atts : AtOrBelow(r.target, watermarks'[pk].target)
    BY <1>0, <1>3, ImportRaises DEF ImportFile
  <2>3. \A k \in Pubkeys : \A r \in attestations'[k] :
          r \in attestations[k] \/ AtOrBelow(r.target, watermarks'[k].target)
    BY <1>0, <2>1, <2>2 DEF DbTypeOK
  <2> QED BY <1>0, <2>3, FewerAboveFloor
<1>4. CASE Maintain
  <2>1. \A k \in Pubkeys : attestations'[k] \subseteq attestations[k]
    BY <1>4 DEF Maintain, SetBlockWatermark, SetAttestationWatermark, Prune
  <2> QED BY <1>0, <2>1, FewerAboveFloor
<1>5. CASE UNCHANGED dbVars
  BY <1>0, <1>5, FewerAboveFloor DEF dbVars
<1>6. \/ UNCHANGED dbVars \/ Maintain
      \/ \E t \in Tasks : Reserve(t) \/ Reconcile(t)
      \/ \E pk \in Pubkeys, f \in Files : ImportFile(pk, f)
  BY DEF Next, Call, Step, Surroundings, Request, DropCaller, Enter, EnterBlocked,
     ReserveRefused, Recheck, SignInProcess, NoSignature, InProcessFailure, Contact, RemoteOk,
     RemoteUnclear, ReconcileFails, RemoteSigns, AddBackend, RemoveBackend, Toggle,
     Quiesce, Drain, Crash, vars
<1> QED BY <1>1, <1>2, <1>3, <1>4, <1>5, <1>6

(* In every reachable state, an importer of the export refuses whatever    *)
(* this database refuses.                                                  *)
THEOREM ExportsRefuse == Spec => []ExportNotWeaker
<1>1. TypeOK => ExportNotWeaker
  BY ExportKeepsRefusals DEF TypeOK
<1> QED BY <1>1, TypeCorrect, PTL

(* In every reachable state, the exported attestations carry the floors    *)
(* and no two of them conflict.                                            *)
THEOREM ExportsClean == Spec => []ExportCarriesFloor
<1>1. Init => AboveFloorSafe
  BY DEF Init, DbInit, AboveFloorSafe
<1>2. TypeOK /\ SafetyInv /\ AboveFloorSafe /\ [Next]_vars => AboveFloorSafe'
  BY AboveFloorStep
<1>3. TypeOK /\ SafetyInv /\ AboveFloorSafe => ExportCarriesFloor
  BY ExportIsClean DEF TypeOK, SafetyInv
<1> QED BY <1>1, <1>2, <1>3, SafetyInvariant, PTL DEF Spec
===============================================================================
