--------------------------- MODULE SlashableSigning ---------------------------
(***************************************************************************)
(* The slashable signing path of crates/signer (core.rs, lib.rs, gate.rs), *)
(* composed with the slashing database, the key registry of                *)
(* crypto::CompositeSigner, the enablement gate and the quiesce registry.  *)
(*                                                                         *)
(* A task is one call of sign_attestation, sign_block or                   *)
(* sign_block_header.  It chooses a backend, waits for the validator's     *)
(* lock, re-checks the gate under it, commits a reservation, re-resolves   *)
(* its timeout policy, signs, and reconciles the reservation when it is    *)
(* certain that nothing was signed.  Other tasks, key imports and deletes, *)
(* watermark writers, prune, interchange import and process crashes run    *)
(* between any two of its steps.                                           *)
(*                                                                         *)
(* A remote signer is outside the process: once contacted it may sign at   *)
(* any later time, whatever the task has concluded and even after a crash. *)
(***************************************************************************)
EXTENDS SlashingDb

CONSTANTS
    Tasks,              \* concurrent signing calls
    Gate,               \* TRUE: SigningGate of rvc-signer; FALSE: SignerService of rvc
    BootRegistry,       \* backends a key may be loaded with at start
    Importable,         \* backends the key manager adds and removes at run time
    Watched,            \* keys whose doppelganger enablement may change
    Quiescable,         \* keys the key manager may quiesce
    BlockFloors,        \* arguments of set_block_watermark
    AttestationFloors,  \* pairs, arguments of set_attestation_watermark
    Files               \* interchange records that may be imported

Backends == {"local", "http", "grpc"}

(* gRPC signers are added at start and never removed; only local and HTTP  *)
(* registrations change while the process runs.                            *)
ASSUME SigningAssumption ==
    /\ None \notin Tasks
    /\ Gate \in BOOLEAN
    /\ BootRegistry \subseteq SUBSET Backends
    /\ Importable \subseteq {"local", "http"}
    /\ Watched \subseteq Pubkeys
    /\ Quiescable \subseteq Pubkeys
    /\ BlockFloors \subseteq Slots
    /\ AttestationFloors \subseteq Epochs \X Epochs
    /\ Files \subseteq [atts : SUBSET AttRows, blocks : SUBSET BlkRows]

VARIABLES
    task,               \* the control state of every call
    lock,               \* ValidatorLockMap: who holds the key's lock, or None
    registry,           \* CompositeSigner: the backends that have the key
    enabled,            \* keys whose doppelganger state allows signing
    quiesced,           \* QuiesceRegistry
    drained,            \* keys whose last quiesce returned Ok (history)
    requests,           \* sign requests handed to a remote signer
    signed,             \* signatures that exist anywhere
    foreign             \* file rows imported so far (history)

sysVars == <<lock, registry, enabled, quiesced, drained, requests, signed, foreign>>

vars == <<dbVars, task, sysVars>>

-----------------------------------------------------------------------------
(* What the state looks like.                                              *)

Critical == {"locked", "reserved", "ready", "contacted", "reconciling"}

Idle == [phase |-> "idle"]

Calls == [phase : {"waiting"} \cup Critical, pk : Pubkeys, duty : Duties,
          route : {"typed", "composite", "gate"}, policy : {"Retain", "Discard"},
          inserted : BOOLEAN]

Messages == Pubkeys \X Duties

TypeOK ==
    /\ DbTypeOK
    /\ task \in [Tasks -> {Idle} \cup Calls]
    /\ lock \in [Pubkeys -> Tasks \cup {None}]
    /\ registry \in [Pubkeys -> SUBSET Backends]
    /\ enabled \subseteq Pubkeys
    /\ quiesced \subseteq Pubkeys
    /\ drained \subseteq Pubkeys
    /\ requests \subseteq Messages
    /\ signed \subseteq Messages
    /\ foreign \in [atts : SUBSET (Pubkeys \X AttRows), blocks : SUBSET (Pubkeys \X BlkRows)]

(* A process starts with any allowed key set; doppelganger monitoring has  *)
(* not cleared a watched key unless the restart skip applies.              *)
Boot ==
    /\ task' = [t \in Tasks |-> Idle]
    /\ lock' = [pk \in Pubkeys |-> None]
    /\ registry' \in [Pubkeys -> BootRegistry]
    /\ \E on \in SUBSET Watched : enabled' = (Pubkeys \ Watched) \cup on
    /\ quiesced' = {}
    /\ drained' = {}

Init ==
    /\ DbInit
    /\ task = [t \in Tasks |-> Idle]
    /\ lock = [pk \in Pubkeys |-> None]
    /\ registry \in [Pubkeys -> BootRegistry]
    /\ enabled = Pubkeys \ Watched
    /\ quiesced = {}
    /\ drained = {}
    /\ requests = {}
    /\ signed = {}
    /\ foreign = [atts |-> {}, blocks |-> {}]

-----------------------------------------------------------------------------
(* Helpers of the signing path.                                            *)

(* QuiescingEnablement.is_signing_enabled *)
Enabled(pk) == pk \notin quiesced /\ pk \in enabled

\* Mutant: a key with both registrations counts as local.
ResolvePolicyLocalFirst(backends) == IF "local" \in backends THEN "Discard" ELSE "Retain"

(* backend_kind and timeout_policy_for_kind: only a local-only key is      *)
(* known to be in process; dual or missing registration retains.           *)
ResolvePolicy(backends) == IF backends = {"local"} THEN "Discard" ELSE "Retain"

(* fail_closed_max *)
FailClosedMax(a, b) == IF "Retain" \in {a, b} THEN "Retain" ELSE "Discard"

(* bls_backend_for_duty, before the lock is taken. *)
RouteOf(pk) == IF Gate THEN "gate"
               ELSE IF "grpc" \in registry[pk] THEN "typed" ELSE "composite"

(* Raw-root signing in this process: CompositeSigner.sign prefers gRPC     *)
(* (rejects), then HTTP (rejects), then local keys; the gate's backend     *)
(* only holds local keys.                                                  *)
InProcessKey(t) ==
    CASE task[t].route = "gate"      -> "local" \in registry[task[t].pk]
      [] task[t].route = "composite" -> registry[task[t].pk] = {"local"}
      [] OTHER                       -> FALSE

(* The gate's policy is Fixed; the service resolves its own under the lock.*)
EntryPolicy(t) == IF task[t].route = "gate" THEN "Discard"
                  ELSE ResolvePolicy(registry[task[t].pk])

At(t, phase) == task[t].phase = phase

Goto(t, phase) == task' = [task EXCEPT ![t] = [@ EXCEPT !.phase = phase]]

(* The call returns: its control state ends and it gives up the lock.      *)
Return(t) == /\ task' = [task EXCEPT ![t] = Idle]
             /\ lock' = [lock EXCEPT ![task[t].pk] = None]

-----------------------------------------------------------------------------
(* Steps of one call.                                                      *)

(* sign_attestation / sign_block / sign_block_header up to the lock.       *)
Request(t, pk, d) ==
    /\ At(t, "idle")
    /\ Enabled(pk)
    /\ task' = [task EXCEPT ![t] =
           [phase |-> "waiting", pk |-> pk, duty |-> d, route |-> RouteOf(pk),
            policy |-> "Retain", inserted |-> FALSE]]
    /\ UNCHANGED <<dbVars, sysVars>>

\* Mutant: the guard lives in the caller's future, so dropping the caller
\* frees the lock while the blocking body still runs.
DropCallerFreesLock(t) ==
    /\ \/ /\ At(t, "waiting")
          /\ task' = [task EXCEPT ![t] = Idle]
          /\ UNCHANGED lock
       \/ /\ task[t].phase \in Critical
          /\ lock' = [lock EXCEPT ![task[t].pk] = None]
          /\ UNCHANGED task
    /\ UNCHANGED <<dbVars, registry, enabled, quiesced, drained, requests, signed, foreign>>

(* The caller's future is dropped.  While it waits for the lock the wait   *)
(* ends; later the blocking body owns the lock and runs on.                *)
DropCaller(t) ==
    /\ At(t, "waiting")
    /\ task' = [task EXCEPT ![t] = Idle]
    /\ UNCHANGED <<dbVars, sysVars>>

\* Mutant: the gate is only checked before the wait for the lock.
EnterUnchecked(t) ==
    /\ At(t, "waiting")
    /\ lock[task[t].pk] = None
    /\ lock' = [lock EXCEPT ![task[t].pk] = t]
    /\ task' = [task EXCEPT ![t] = [@ EXCEPT !.phase = "locked", !.policy = EntryPolicy(t)]]
    /\ UNCHANGED <<dbVars, registry, enabled, quiesced, drained, requests, signed, foreign>>

(* sign_slashable_with_body, steps 1 to 3.                                 *)
Enter(t) ==
    /\ At(t, "waiting")
    /\ lock[task[t].pk] = None
    /\ Enabled(task[t].pk)
    /\ lock' = [lock EXCEPT ![task[t].pk] = t]
    /\ task' = [task EXCEPT ![t] = [@ EXCEPT !.phase = "locked", !.policy = EntryPolicy(t)]]
    /\ UNCHANGED <<dbVars, registry, enabled, quiesced, drained, requests, signed, foreign>>

\* Mutant: the early return leaks the lock.
EnterBlockedKeepsLock(t) ==
    /\ At(t, "waiting")
    /\ lock[task[t].pk] = None
    /\ ~Enabled(task[t].pk)
    /\ lock' = [lock EXCEPT ![task[t].pk] = t]
    /\ task' = [task EXCEPT ![t] = Idle]
    /\ UNCHANGED <<dbVars, registry, enabled, quiesced, drained, requests, signed, foreign>>

(* The lock is taken, the gate found closed, the lock given up.            *)
EnterBlocked(t) ==
    /\ At(t, "waiting")
    /\ lock[task[t].pk] = None
    /\ ~Enabled(task[t].pk)
    /\ task' = [task EXCEPT ![t] = Idle]
    /\ UNCHANGED <<dbVars, sysVars>>

(* reserve_block / reserve_attestation commits.                            *)
Reserve(t) ==
    LET pk == task[t].pk
        d  == task[t].duty
    IN  /\ At(t, "locked")
        /\ Accepted(pk, d)
        /\ task' = [task EXCEPT ![t] =
               [@ EXCEPT !.phase = "reserved", !.inserted = (Verdict(pk, d) = "Stage")]]
        /\ IF Verdict(pk, d) = "Stage" THEN Insert(pk, d) ELSE UNCHANGED dbVars
        /\ UNCHANGED sysVars

(* The rules refuse the duty, or the transaction fails and is rolled back. *)
ReserveRefused(t) ==
    /\ At(t, "locked")
    /\ Return(t)
    /\ UNCHANGED <<dbVars, registry, enabled, quiesced, drained, requests, signed, foreign>>

(* SEC-1: the policy is resolved again right before the backend is used.   *)
Recheck(t) ==
    /\ At(t, "reserved")
    /\ task' = [task EXCEPT ![t] =
           [@ EXCEPT !.phase = "ready", !.policy = FailClosedMax(task[t].policy, EntryPolicy(t))]]
    /\ UNCHANGED <<dbVars, sysVars>>

SignInProcess(t) ==
    /\ At(t, "ready")
    /\ InProcessKey(t)
    /\ signed' = signed \cup {<<task[t].pk, task[t].duty>>}
    /\ Return(t)
    /\ UNCHANGED <<dbVars, registry, enabled, quiesced, drained, requests, foreign>>

(* is_unambiguous_no_signature: key not found, raw root rejected, or a     *)
(* typed call rejected without a signer having taken it.                   *)
NoSignature(t) ==
    /\ At(t, "ready")
    /\ ~InProcessKey(t)
    /\ Goto(t, "reconciling")
    /\ UNCHANGED <<dbVars, sysVars>>

(* The gate's backend fails or times out without a signature; its policy   *)
(* is Discard.                                                             *)
InProcessFailure(t) ==
    /\ At(t, "ready")
    /\ task[t].route = "gate"
    /\ Goto(t, "reconciling")
    /\ UNCHANGED <<dbVars, sysVars>>

(* The typed gRPC call leaves the process.                                 *)
Contact(t) ==
    /\ At(t, "ready")
    /\ task[t].route = "typed"
    /\ Goto(t, "contacted")
    /\ requests' = requests \cup {<<task[t].pk, task[t].duty>>}
    /\ UNCHANGED <<dbVars, lock, registry, enabled, quiesced, drained, signed, foreign>>

(* The answer arrives in time and verifies.                                *)
RemoteOk(t) ==
    /\ At(t, "contacted")
    /\ <<task[t].pk, task[t].duty>> \in signed
    /\ Return(t)
    /\ UNCHANGED <<dbVars, registry, enabled, quiesced, drained, requests, signed, foreign>>

(* finish_reserve_timeout / finish_reserve_ambiguous: timeout, transport   *)
(* error or a bad signature say nothing about what the signer did.         *)
RemoteUnclear(t) ==
    /\ At(t, "contacted")
    /\ IF task[t].policy = "Retain"
       THEN Return(t)
       ELSE Goto(t, "reconciling") /\ UNCHANGED lock
    /\ UNCHANGED <<dbVars, registry, enabled, quiesced, drained, requests, signed, foreign>>

(* reconcile_unsigned, the outcomes Deleted and NotApplicable.             *)
Reconcile(t) ==
    /\ At(t, "reconciling")
    /\ IF task[t].inserted THEN DeleteReserved(task[t].pk, task[t].duty)
                           ELSE UNCHANGED dbVars
    /\ Return(t)
    /\ UNCHANGED <<registry, enabled, quiesced, drained, requests, signed, foreign>>

(* reconcile_unsigned, the outcome Failed: the row stays.                  *)
ReconcileFails(t) ==
    /\ At(t, "reconciling")
    /\ task[t].inserted
    /\ Return(t)
    /\ UNCHANGED <<dbVars, registry, enabled, quiesced, drained, requests, signed, foreign>>

-----------------------------------------------------------------------------
(* The surroundings.                                                       *)

(* The remote signer gets round to a request it was handed.                *)
RemoteSigns ==
    /\ \E m \in requests : signed' = signed \cup {m}
    /\ UNCHANGED <<dbVars, task, lock, registry, enabled, quiesced, drained, requests, foreign>>

(* Key manager import and delete; neither takes the signing lock.  A       *)
(* keystore import that admits a key the process did not have opens the    *)
(* quiesce gate again, unless a DELETE of the key is in flight or the      *)
(* denylist cannot be written; other imports leave the gate alone.         *)
AddBackend(pk, b) ==
    /\ registry' = [registry EXCEPT ![pk] = @ \cup {b}]
    /\ \E readmitted \in SUBSET {k \in {pk} : b = "local" /\ b \notin registry[k]} :
           quiesced' = quiesced \ readmitted /\ drained' = drained \ readmitted
    /\ UNCHANGED <<dbVars, task, lock, enabled, requests, signed, foreign>>

RemoveBackend(pk, b) ==
    /\ registry' = [registry EXCEPT ![pk] = @ \ {b}]
    /\ UNCHANGED <<dbVars, task, lock, enabled, quiesced, drained, requests, signed, foreign>>

(* Doppelganger monitoring clears the key, or detects a double.            *)
Toggle(pk) ==
    /\ enabled' = IF pk \in enabled THEN enabled \ {pk} ELSE enabled \cup {pk}
    /\ UNCHANGED <<dbVars, task, lock, registry, quiesced, drained, requests, signed, foreign>>

(* SigningQuiesceAdapter.quiesce: close the gate of a key that is present, *)
(* then drain the lock.  A drain that times out leaves the gate closed.    *)
Quiesce(pk) ==
    /\ "local" \in registry[pk]
    /\ quiesced' = quiesced \cup {pk}
    /\ UNCHANGED <<dbVars, task, lock, registry, enabled, drained, requests, signed, foreign>>

Drain(pk) ==
    /\ pk \in quiesced
    /\ lock[pk] = None
    /\ drained' = drained \cup {pk}
    /\ UNCHANGED <<dbVars, task, lock, registry, enabled, quiesced, requests, signed, foreign>>

ImportFile(pk, f) ==
    /\ Import(pk, f)
    /\ foreign' = [atts   |-> foreign.atts \cup ({pk} \X f.atts),
                   blocks |-> foreign.blocks \cup ({pk} \X f.blocks)]
    /\ UNCHANGED <<task, lock, registry, enabled, quiesced, drained, requests, signed>>

Maintain ==
    /\ \/ \E pk \in Pubkeys, s \in BlockFloors : SetBlockWatermark(pk, s)
       \/ \E pk \in Pubkeys, f \in AttestationFloors : SetAttestationWatermark(pk, f[1], f[2])
       \/ Prune
    /\ UNCHANGED <<task, sysVars>>

(* The process dies and starts again: rows, watermarks and whatever remote *)
(* signers hold survive, everything else is lost.                          *)
Crash ==
    /\ Boot
    /\ UNCHANGED <<dbVars, requests, signed, foreign>>

-----------------------------------------------------------------------------
Step(t) ==
    \/ Enter(t) \/ EnterBlocked(t)
    \/ Reserve(t) \/ ReserveRefused(t) \/ Recheck(t)
    \/ SignInProcess(t) \/ NoSignature(t) \/ InProcessFailure(t)
    \/ Contact(t) \/ RemoteOk(t) \/ RemoteUnclear(t)
    \/ Reconcile(t) \/ ReconcileFails(t)

Call(t) == \/ \E pk \in Pubkeys, d \in Duties : Request(t, pk, d)
           \/ DropCaller(t)
           \/ Step(t)

Surroundings ==
    \/ RemoteSigns
    \/ \E pk \in Pubkeys, b \in Importable : AddBackend(pk, b) \/ RemoveBackend(pk, b)
    \/ \E pk \in Watched : Toggle(pk)
    \/ \E pk \in Quiescable : Quiesce(pk) \/ Drain(pk)
    \/ \E pk \in Pubkeys, f \in Files : ImportFile(pk, f)
    \/ Maintain
    \/ Crash

Next == (\E t \in Tasks : Call(t)) \/ Surroundings

Spec == Init /\ [][Next]_vars

-----------------------------------------------------------------------------
(* Properties.                                                             *)

(* Two messages of one validator that the protocol punishes.               *)
Slashable(c, d) ==
    /\ c.kind = d.kind
    /\ IF c.kind = "block"
       THEN c # d /\ c.slot = d.slot
       ELSE \/ c # d /\ c.target = d.target
            \/ Surrounding(c, d) \/ Surrounding(d, c)

(* Everything that is signed or that a remote signer may still sign.       *)
Authorized == signed \cup requests

(* No interleaving of calls, registry changes, prunes, imports, timeouts,  *)
(* late remote answers and crashes yields two slashable signatures of one  *)
(* validator.                                                              *)
NoSlashableSignatures ==
    \A m, n \in Authorized : m[1] = n[1] => ~Slashable(m[2], n[2])

(* C1: whatever is or may yet be signed is on record, at every instant: a  *)
(* crash, an export or a second signer starting now sees it.               *)
EverySignatureCovered == \A m \in Authorized : Covered(m[1], m[2])

(* Watermarks only rise: no setter, prune or import lowers a floor.        *)
WatermarksNeverLowered ==
    [][\A pk \in Pubkeys :
          /\ NotLowered(watermarks[pk].block, watermarks'[pk].block)
          /\ NotLowered(watermarks[pk].source, watermarks'[pk].source)
          /\ NotLowered(watermarks[pk].target, watermarks'[pk].target)]_vars

(* A duty that conflicts with any row of an imported file, the rows that   *)
(* import dropped for their target or slot included, is never accepted     *)
(* after the import.                                                       *)
ConflictsWithImport(pk, d) ==
    IF d.kind = "att"
    THEN \E r \in AttRows : /\ <<pk, r>> \in foreign.atts
                            /\ \/ d.target = r.target /\ r.root # d
                               \/ Surrounding(d, r) \/ Surrounded(d, r)
    ELSE \E r \in BlkRows : <<pk, r>> \in foreign.blocks /\ d.slot = r.slot /\ r.root # d

ImportedHistoryRespected ==
    [][\A t \in Tasks : At(t, "locked") /\ task'[t].phase = "reserved" =>
          ~ConflictsWithImport(task[t].pk, task[t].duty)]_vars

(* After a quiesce returned Ok, and until the key is admitted again, the   *)
(* process neither records nor signs nor requests anything for the key: an *)
(* export taken now is final.                                              *)
DrainedKeyIsSilent ==
    [][\A pk \in drained \cap drained' :
          /\ \A d \in Duties : <<pk, d>> \in signed' \cup requests' => <<pk, d>> \in Authorized
          /\ \A t \in Tasks : ~(task'[t].phase = "reserved" /\ task'[t].pk = pk)]_vars

-----------------------------------------------------------------------------
(* The inductive invariant behind the safety properties.                   *)

LockHeld == \A t \in Tasks : task[t].phase \in Critical => lock[task[t].pk] = t

(* A key with a gRPC signer keeps it, so a call on the typed route never   *)
(* discards its row on an unclear outcome.                                 *)
TypedRetains ==
    \A t \in Tasks : ~At(t, "idle") =>
        /\ task[t].route = "typed" =>
               /\ "grpc" \in registry[task[t].pk]
               /\ task[t].policy = "Retain"
        /\ At(t, "contacted") => task[t].route = "typed"

(* From the commit of the reservation to the signature the duty is on      *)
(* record and clear of everything authorized before.                       *)
ReservationHolds ==
    \A t \in Tasks : task[t].phase \in {"reserved", "ready", "contacted"} =>
        /\ Covered(task[t].pk, task[t].duty)
        /\ \A m \in Authorized : m[1] = task[t].pk => ~Slashable(task[t].duty, m[2])

(* A row that may still be deleted belongs to no signature.                *)
DeletableRowUnused ==
    \A t \in Tasks : task[t].phase \in {"reserved", "ready", "reconciling"} /\ task[t].inserted =>
        <<task[t].pk, task[t].duty>> \notin Authorized

DrainedIsClosed ==
    \A pk \in drained :
        /\ pk \in quiesced
        /\ \A t \in Tasks : task[t].phase \in Critical => task[t].pk # pk

(* Every imported row lies below the watermarks.                           *)
ImportsBelowWatermarks ==
    \A pk \in Pubkeys :
        /\ \A r \in AttRows : <<pk, r>> \in foreign.atts =>
               /\ AtOrBelow(r.source, watermarks[pk].source)
               /\ AtOrBelow(r.target, watermarks[pk].target)
        /\ \A r \in BlkRows : <<pk, r>> \in foreign.blocks =>
               AtOrBelow(r.slot, watermarks[pk].block)

SafetyInv ==
    /\ UniqueRows
    /\ LockHeld
    /\ TypedRetains
    /\ ReservationHolds
    /\ DeletableRowUnused
    /\ EverySignatureCovered
    /\ NoSlashableSignatures

-----------------------------------------------------------------------------
(* Liveness.  The tokio mutex is FIFO, so a waiter is not overtaken for    *)
(* ever; the blocking body always runs on, and a remote call ends by its   *)
(* answer or its timeout.                                                  *)
Fairness ==
    \A t \in Tasks :
        /\ SF_vars(Enter(t) \/ EnterBlocked(t))
        /\ WF_vars(Step(t))

FairSpec == Spec /\ Fairness

(* Every signing call returns: no lock is left held, no call waits forever.*)
EveryCallReturns == \A t \in Tasks : ~At(t, "idle") ~> At(t, "idle")
===============================================================================
