# A TLA+ model of rvc

rvc is an Ethereum validator client written in Rust. Its job is to sign
attestations and blocks on time and, above all, never to sign two messages that
the protocol punishes (slashing): not in any interleaving of concurrent calls,
not across crashes, not when a remote signer answers late, and not when the same
key runs on a second host. This directory models the parts of rvc that carry that
promise, checks them with TLC on small instances, and proves nearly every safety
property that is checked with TLAPS for every instance. Around them it models the machinery that
decides which keys may sign at all (imports, deletes, restarts) and that brings
duties to the signer in time (beacon nodes, duty caches, the slot loop).

All paths below are relative to `src/`. `PROJECT.json` maps every definition of
the modules to the lines it models.

## The system: inventory

| Component | State it keeps | Operations | Talks to |
|---|---|---|---|
| slashing rules (`crates/slashing/src/rules.rs`, `history.rs`) | none | `check_block`, `check_attestation` | called inside database transactions |
| slashing database (`crates/slashing`: `stage.rs`, `db/`) | rows of attestations and blocks, watermarks, pinned genesis root (SQLite, durable) | reserve, compensating delete, watermark setters, prune, interchange import and export, migration | signing path, key manager, CLI |
| group commit (`crates/slashing/src/group_commit.rs`) | queue, leader flag, flush lock, open batch | enqueue, lead, drain, commit, dispatch, abandon | every `reserve_*` call |
| slashable signing (`crates/signer`: `core.rs`, `lib.rs`, `gate.rs`) | one control state per call | `sign_attestation`, `sign_block`, `sign_block_header`, `drain_pubkey` | lock map, database, signer backends, enablement |
| validator locks (`crates/signer/src/locks.rs`) | bounded map of mutexes | `get`, `lock` | signing path, drain |
| composite signer (`crates/crypto`) | local, HTTP and gRPC keys | add, remove, `sign` | signing path, key manager |
| remote signers (`crates/grpc-signer`, `crates/remote-signer-client`) | connection | typed sign calls | outside processes |
| quiesce (`crates/rvc/src/quiesce.rs`) | quiesced keys, `tracked_keys` mutex | insert, readmit, quiesce and drain | DELETE handler, enablement |
| doppelganger forward window (`crates/doppelganger`) | state per key: Unmonitored, Pending, Safe, Detected | `register`, `register_for_import`, `tick`, `observe_liveness`, `cancel` | enablement gate, liveness loop, slashing history |
| liveness loop (`crates/rvc/src/liveness_loop.rs`) | epochs completed, pending flag | one cycle per slot: query, tick, clean up markers | beacon nodes, machine, disk |
| index resolver (`crates/rvc/src/index_resolver.rs`) | key to validator index | resolve | beacon nodes, liveness loop |
| key life cycle (`crates/rvc/src/keymanager_adapters`, `key_admission.rs`, `deletion_denylist.rs`) | keystores, import markers, denylist, holds | import, delete, rollback, admit, refresh | signer, machine, validator store |
| enablement at boot (`crates/rvc/src/config/builder.rs`, `bootstrap/enablement.rs`) | none | classify and register loaded keys, start the loop | all of the above |
| validator store (`crates/validator-store`) | a row per validator, in memory and in the validators file; holds | durable add, remove, disable, hold, release | key life cycle, slashing monitor, boot |
| slashing monitor (`crates/rvc/src/slashing_monitor.rs`) | none | disable slashed validators | beacon nodes, validator store |
| envelope guard (`crates/signer/src/lib.rs`) | slots in flight or signed, in memory | reserve, release, keep | envelope signing |
| orchestrator (`crates/rvc/src/orchestrator`) | slot, anchor, slot context | propose, attest, aggregate, sync committee, refresh duties | duty tracker, block service, signer, bn-manager |
| duty tracker (`crates/duty-tracker`) | four duty caches | fetch, re-check, evict, prefetch | orchestrator, bn-manager |
| bn-manager (`crates/bn-manager`) | health tracker, sync tier and capabilities per node | select, failover, best of, broadcast, poll | every caller of beacon nodes |
| beacon, block-service, builder | settings | HTTP, block selection | orchestrator |
| signer-server, signer-registry | keys, clients, DVT shares | gRPC and HTTP signing service | signing gate |
| secret-provider, config, telemetry, metrics, observability, timing, wire types, Gloas types, binaries, test tooling | - | I/O, parsing, encoding, logging | - |

Interactions that make it hard:

- **Shared state without a shared lock.** The signing path holds a lock per
  validator; key import and delete change the backend registry without it; the
  liveness loop changes enablement without it; prune and import change the tables
  under the connection mutex only.
- **Work that outlives its caller.** A sign call continues in `spawn_blocking`
  after its caller is gone, and a remote signer may sign after the call, or the
  process, has ended.
- **Compensation.** A reservation is committed before signing and deleted again
  when it is certain that nothing was signed. Deleting one row too many loses
  protection.
- **Leadership hand-over** in group commit, where one thread commits for others.
- **Crashes** between marker, keystore and registration of an import, and between
  reservation and signature.
- **Unreliable observation**: liveness queries fail, omit validators and arrive
  late while keys are deleted and imported again.
- **Three owners of one key.** Import and DELETE share a mutex, the lifecycle calls
  another, the secret-provider refresh takes neither; only the order of their
  effects and re-checks keeps a deleted key out.
- **Stale selections.** A call to the beacon nodes works through a list it chose
  from health state that other calls change meanwhile; a duty answer is stored
  after the keys or the chain it was asked for have changed.
- **Two clocks.** Deadlines within a slot run on the monotonic clock, the choice of
  the slot on the wall clock, which may be stepped.

What makes each part correct: no two slashable signatures, and at every instant a
durable record of whatever is or may be signed (signing and database); floors that
never fall, imports that are respected and exports that are not weaker (database); an answer "ok" only for a
durable row, members judged against each other, nobody stranded (group commit); no
signing before a complete quiet window, no way round it for imported keys, and
every window decided (doppelganger); a deleted key that stays deleted and a slashed
one that stays off, no keystore that outlives a failed import without its guard
(key life cycle); a hung or failing node that costs neither the others their turn
nor a second block (bn-manager); each slot once, on one head, with fresh duties
(slot loop).

## Modules

| Module | Models | Notes |
|---|---|---|
| `SlashingRules` | `rules.rs`, the questions of `history.rs` | pure operators; the verdicts in the order the code tries them |
| `SlashingDb` | tables, watermarks and their transactions | variables `attestations`, `blocks`, `watermarks`; one operator per transaction |
| `SlashableSigning` | the signing path with its surroundings | the core; extends `SlashingDb` |
| `SlashingDbProofs` | lemmas about the rules, the transactions and the export | TLAPS; used by the next two |
| `SlashableSigningProofs` | theorems about signing and about what it exports | TLAPS |
| `AtomicReserve` | what `reserve_*` promises | abstract specification |
| `GroupCommit` | `group_commit.rs` | extends `SlashingDb`; shown to implement `AtomicReserve` |
| `GroupCommitProofs` | theorems about it, the refinement among them | TLAPS |
| `ForwardWindow` | doppelganger machine, liveness loop, markers, boot | theorems in `ForwardWindowProofs` |
| `Interchange` | export and what an importer makes of it | pure operators over the variables of `SlashingDb`; checked in the states of `SlashableSigning` |
| `ValidatorStore` | a validator's row, live and in the file | one action per durable operation, its result a parameter |
| `KeyLifecycle` | import, DELETE, admission, refresh, holds, slashing monitor, boot | extends `ValidatorStore`; theorems in `KeyLifecycleProofs` |
| `BnManager` | the beacon node manager | theorems in `BnManagerProofs` |
| `DutyTracker` | the duty caches | pure operators and the cache actions |
| `SlotLoop` | the orchestrator's slot loop | extends `DutyTracker`; theorems in `SlotLoopProofs` |
| `LockMap` | the bounded map of validator locks | justifies the one lock per validator of `SlashableSigning` |
| `EnvelopeSlot` | the single-flight guard of payload envelopes | |
| `SignerGuardProofs` | one theorem each about `LockMap` and `EnvelopeSlot` | TLAPS |
| `MC*` | constants for TLC | |

### SlashableSigning

A task is one sign call. Its phases follow the code:

| Phase | Code |
|---|---|
| `idle` -> `waiting` (`Request`) | `sign_attestation` .. : gate check, backend chosen, then the wait for the lock |
| `waiting` -> `locked` (`Enter`, `EnterBlocked`) | `sign_slashable_with_body` steps 1 to 3: lock, second gate check, timeout policy |
| `locked` -> `reserved` (`Reserve`, `ReserveRefused`) | `reserve_then_sign_duty`; the token remembers whether it inserted the row |
| `reserved` -> `ready` (`Recheck`) | the policy is resolved again (SEC-1), the stricter of both wins |
| `ready` -> end (`SignInProcess`), `contacted` (`Contact`), `reconciling` (`NoSignature`, `InProcessFailure`) | `Signer::sign` under the timeout |
| `contacted` -> end or `reconciling` (`RemoteOk`, `RemoteUnclear`) | the answer, a timeout or an unclear error; Retain keeps the row |
| `reconciling` -> end (`Reconcile`, `ReconcileFails`) | `reconcile_unsigned` |

`DropCaller` is the caller's future being dropped. The surroundings are actions of
their own: `AddBackend`, `RemoveBackend`, `Toggle` (doppelganger), `Quiesce`,
`Drain`, `ImportFile`, `Maintain` (watermark setters and prune), `RemoteSigns`
and `Crash`. A contacted remote signer may sign at any later time, also after a
crash; `requests` and `signed` survive it.

Abstractions. A duty stands for the message and for its signing root, which
commits to all fields. An interchange record is for one validator. A call rejected
by the gRPC client before it left the process is `NoSignature`. Local signing in
the composite never awaits, so it cannot time out; only the gate's backend can
(`InProcessFailure`). HTTP remote keys refuse raw roots. A failing COMMIT has
rolled back. `Reserve` is atomic, which `GroupCommit` justifies. Quiescing a key
the process does not have closes no gate, as in the code, and a key left quiesced
by a failed DELETE stays closed until it is admitted again or the process restarts.

### GroupCommit

`CheckGvr`, `Enqueue`, `Receive`, `Abandon` are a caller; `TakeFlushLock`,
`DrainBatch`, `Begin`, `Eval`, `EvalFails`, `Commit`, `Rollback`, `TxnFails`,
`Dispatch`, `Retire`, `ReleaseFlushLock` are the leader. `pos` walks through the
batch, so other callers enqueue and abandon between any two members. Other writers
of the database run whenever no transaction is open. The refinement mapping
decides an accepted member when its transaction ends and a rejected one when it is
rejected. Two callers with the *same* duty in one batch would share a row that only
one of them inserted; that the second never relies on a row the first deletes is
the business of the validator lock, hence of `SlashableSigning`.

### ForwardWindow

One key per instance. The clock is a slot counter; `LastEpoch` bounds it, and in
its last slot the loop may run any number of cycles, so that liveness is about the
loop and not about the bound. Until the epoch `Outage` the nodes may fail or omit
the key, from it on they answer completely. A cycle is `Wake`, one `Ask` and `Answer` (or
`QueryFails`) per epoch of the lookback, `Tick`, `Cleanup`; everything else may
happen between two of them. Beacon nodes are external; what they report of a completed epoch, OR-merged over all of them,
is true. Imports and deletes hold `tracked_keys` (`job`), in steps a crash can
separate. Left out: the wall-clock hold of the validator store (it only withholds
signing for longer), import failures and their rollback, secret-provider
admission and the denylist, all of which `KeyLifecycle` has, and boots that cannot
read the keystore directory.

### Interchange

`ExportedAtts` and `ExportedBlks` are `export_validator`: the floors and the rows
they contradict are folded into one synthetic record (`TargetBound` is the fixed
point the code's loop computes). Two importers are compared with the exporter: an
EIP-3076 client that keeps minima (external) and rvc's own import. `ExportNotWeaker`
says that whatever the database refuses, other than for being older than its oldest
row, both importers refuse too; `ExportCarriesFloor` that no exported record lies
below a floor and no two of them conflict. Both are invariants of the signing runs,
so they range over every database that signing, pruning, setting floors and
importing can produce.

### KeyLifecycle and ValidatorStore

One key. `imp`, `del` and `ref` are the control states of an import, of the DELETE
requests and of the refresh task; `tracked` and `stateLock` are the two mutexes.
Import: `ImportStage`, `ImportHold`, `ImportRename`, `ImportMark`,
`ImportAdmitHold`, `ImportPublish`, `ImportRegister`, `ImportClearDenylist`,
`ImportReadmit`, `OnImport`, and for a failure at each of them the rollback
`ImportUnpublish`, `ImportDiscard`, `ImportDeny`, `ImportFinishRollback` with its
tombstone; a duplicate found only inside admit has its own (`ImportLateDuplicate`,
`ImportLateUnmark`). DELETE: `DeleteSnapshot`, `DeleteDisable`, `DeleteDrain`, `DeleteCheck`,
`DeleteLock`, `DeleteUnlink`, `DeleteUnmark`, `DeleteDeny`, `DeleteForget`,
`DeleteTouch`, `DeleteEnd`. The refresh interleaves with both (`RefreshPublish` to
`RefreshRegister`). `FinishEnable` is the enable task at the end of a hold,
`MonitorDetect` to `MonitorNotify` the slashing monitor, `Crash` and `Boot` a
restart, which reads what is on disk and enables elapsed holds, or fails to
(`ReconcileFails`).

A step of the validator store that makes signing less safe writes the file first
and publishes afterwards, one that makes it safer the other way round; a failing
write consumes one of `MaxFaults` I/O errors and leaves the file as it was, or
replaced, or off the boot path. A hold is kept as what a reader learns from it:
Held before its deadline, Elapsed after it.

Left out: power loss (a crash ends the process, what was written stays), imports
that outlast their own hold, detection switched off, the rate limit and the key
derivation of an import, a quarantine of the validators file that itself fails.
`excepted` marks two histories `DeletedStaysDeleted` is not claimed for; both are
described under Observations.

### BnManager

A call selects its nodes once (`Select`), from roles, sync tiers, health order and
capability flags, consuming re-probe skips, and works through that list: `Attempt`
one node at a time within the split of what is left of the budget, `Best` all at
once, `Expire` at the deadline; `Broadcast` and `Poll` are one step. Scores are the
code's formula over a window of outcomes and a class of latency. What a node
answers is chosen freely (external); once mended it serves every request.

### SlotLoop and DutyTracker

`pc` follows `run`: `SkipReplay` or `BeginSlot` (invalidation by a key change,
cold proposer fetch, parent), the phases as concurrent branches that each `Fire` at
a deadline and lock the slot context to capture the head or use it (`LockContext`,
`CaptureHead`, `SnapshotAndSign`), `JoinPhases`, then the duty work of the rest of
the slot (`WorkAsk`, `WorkStore`) raced against the wait for the next one
(`NextSlot`). A request is two steps, so that keys, roots, clock and shutdown
change while it is in flight. A cache entry keeps the tags the code compares: key,
indices and dependent root. Left out: what the duties sign and publish, the builder
circuit breaker, proposer preparation, committee subscriptions, builder
registration and preferences. `SLTypeOK` bounds every cache but the proposer's by
four entries: the cold fetch of a slot stores before the window that evicts, so
with windows cut short again and again nothing bounds that one.

### LockMap and EnvelopeSlot

Both are small and proved outright (`SignerGuardProofs`), so no run instantiates them. In `LockMap` a
caller owns an Arc from `get` on, waits, holds, and drops it; a new entry sweeps
those nobody owns. In `EnvelopeSlot` a call reserves its slot, hands the root to a
backend that may sign at any later time, and releases the slot only on errors that
come before that.

## Runs

| Run | Instance | Shows |
|---|---|---|
| `attestations` | 2 calls, 1 key (local or gRPC), 4 votes: a double vote, surrounds both ways; 3 pairs of floors, 2 files | `NoSlashableSignatures`, `EverySignatureCovered`, `WatermarksNeverLowered`, `ImportedHistoryRespected`, `ExportNotWeaker`, `ExportCarriesFloor`, `TypeOK` |
| `blocks` | 2 calls through the gate, strict roots, 4 blocks with a double proposal, 2 floors, 2 files | `NoSlashableSignatures`, `ImportedHistoryRespected`, `ExportNotWeaker` for proposals |
| `keymanager` | 2 calls, a double vote, local, HTTP and gRPC registrations changing, quiesce, enablement | safety, `DrainedKeyIsSilent`, `EveryCallReturns` |
| `group_commit` | 2 callers, batch size 2, conflicting votes, 2 chains, failures, crashes | `OkIsDurable`, `NoSlashableRows`, `LiveWaiterServed`, `PinnedChainOnly`, `ImplementsAtomicReserve` |
| `group_liveness` | 3 callers, batch size 2 | `EveryReserveAnswered`, `GCTypeOK` |
| `window` | 1 key, windows of 2 epochs, 4 epochs, a double, planted history, an outage throughout, crashes | `SafeMeansQuiet`, `ImportIsVetted`, `FWTypeOK` |
| `window_liveness` | 2 slots per epoch, 5 epochs, an outage in the first two | `ObservedWindowDecided` |
| `key_lifecycle` | 1 key, an import at a time, 1 DELETE, the refresh, restarts, one I/O error | `DeletedStaysDeleted`, `KeystoreGuarded`, `SlashedStaysOff`, `DeletedIsExported`, `TrackedKeysReleased`, `KLTypeOK` |
| `beacon` | 2 nodes with every role, proposer and attester, the first of which may lag behind, windows of one outcome | `OneProducer`, `EveryCandidateAsked`, `NodeReturns`, `BMTypeOK` |
| `slot_loop` | 3 slots of 3 ticks, epochs of 2, Gloas from the second, clock steps of 1 and 4 ticks back and 12 ahead, 2 disturbances | `SlotsAdvance`, `OneHeadPerSlot`, `DutiesFresh`, `ShutdownStops`, `SLTypeOK` |
| `restart_detected`, `delete_export` | as `window`; as `key_lifecycle` with 2 DELETEs | findings, see below |

**Bounds.** Slashability is a relation between two messages of one validator, so
two calls, one key and duties that contain every kind of conflict reach every
conflicting pair; the lock, the rows and the watermarks of different validators
are independent. Four epochs hold a surround, a double vote and a floor between
them. Two callers fill a batch and conflict inside it; the hand-over of the
leadership needs a third. A window spans two epochs with `MonitoringEpochs` = 1
(the code uses 2), which still has an inner boundary, and four epochs let a key
complete a window, sign, restart and be imported again. The liveness run has five
epochs against a lookback of three, so that the loop really gives an epoch up
(`liveness_loop.rs:227`). It claims the decision of a window only where its index and
the answers are there by the epoch after the window (`InTime`); one epoch later is
too late, the claim is then false. The proofs lift the bounds
of every module for the properties they state.

The key life cycle allows one I/O error per behaviour (`MaxFaults`) and one attempt
to persist a slashed validator's row (`SlashedPersistAttempts`; the code makes
three), as well as one try to enable an elapsed hold at boot (`ReconcileAttempts`;
three in each of two calls). With two errors `KeystoreGuarded` then fails: the persist fails and leaves
the file Enabled, the marking of an import fails, and a crash falls between the
unlinking of the staged marker and that of the keystore. With the code's three
attempts two errors are not enough, and it holds (3,712,101 states, one DELETE). The
theorem `GuardedAfterOneError` has no bound but the one error. One DELETE meets
every step of an import and of a refresh; two are needed for `delete_export`. Two nodes are
enough for a failover and for a healthy node behind a hung one; block production
can afford the attempt floor for both of them, queries only for one, so both sides
of the split are reached. `MaxSpoiled` bounds the production rounds that a node
ends with an answer that is no failover error, the cut broadcasts and the answers in
a fork this build does not know; without it `NodeReturns` fails for the reason given
under Observations. The safety properties were checked once with such answers
unbounded and both nodes free to lag (3,733,680 states). Three slots cross
an epoch and a fork, and with the clock stepped ahead the boundary of a sync
period; `MaxEvents` = 2 lets any two disturbances meet (a key change and its
notification around a fetch, a clock step and a reorg, a failure and shutdown).

**Symmetry** of tasks and callers is used only in runs without liveness.

**Fairness.** Signing (`FairSpec`): tokio hands its mutex over first come first
served, so entering is strongly fair; steps of a running call are weakly fair,
because every wait in them ends by a timeout. Nothing is assumed of the remote
signer or of callers. Group commit: threads that can run do; `flush_lock` and the
queue lock are held for finite work only; callers need not enqueue. Forward
window: the clock ticks, the loop runs, an import or delete ends, and the mutex of
the marker cleanup is handed over fairly. `CycleEachEpoch` adds that a cycle of the
loop ends in every epoch: the loop sleeps for one slot, an epoch has 32, and a cycle
asks for at most `Lookback` epochs. Nothing is assumed of the index resolver: an
index or an answer that comes more than an epoch after the window is too late, the
lookback has given up an epoch, and the key stays Pending until a restart (see the
hazards). Key life cycle: import and
DELETE requests run to their end. Beacon: proposals, broadcasts and sync polls keep
coming, as slots do; nothing is assumed of the nodes until one is mended. Slot
loop: the task of the loop is scheduled; nothing is assumed of answers, heads or
the clock.

**Deadlock** is checked in every passing run but two: in `key_lifecycle` a
quarantined validators file stops every later start, and `slot_loop` ends with
shutdown or with its last slot.

Every property of a passing run has a mutant: an operator marked `Mutant:`, placed
before the definition it perturbs as a plausible bug would. With it in place TLC
finds the property violated (`PROJECT.json`, "mutants").

## Theorems

`SlashableSigningProofs` proves, for all sets of validators, duties, tasks, floors
and files that satisfy the assumptions:

| Theorem | Says |
|---|---|
| `TypeCorrect` | `Spec => []TypeOK` |
| `SafetyInvariant` | `Spec => [](TypeOK /\ SafetyInv)` |
| `NeverSlashable` | `Spec => []NoSlashableSignatures` |
| `AlwaysCovered` | `Spec => []EverySignatureCovered` |
| `WatermarksMonotonic` | `Spec => WatermarksNeverLowered` |
| `ImportsRespected` | `Spec => ImportedHistoryRespected` |
| `DrainedSilent` | `Spec => DrainedKeyIsSilent` |
| `ExportsRefuse` | `Spec => []ExportNotWeaker` |
| `ExportsClean` | `Spec => []ExportCarriesFloor` |

### Signing and export

Assumptions of `SlashableSigningProofs`: `NumbersAssumption` (epochs and slots are natural numbers and every
non-empty set of them has a maximum, which the u64 of the code justifies),
`DutiesAssumption`, `NoneAssumption`, and `SigningAssumption`, whose one
substantial part is that gRPC registrations do not change while the process runs
(`bootstrap/keys.rs` adds them, nothing removes them). TLC evaluates them on every
run.

The argument. That no two signatures conflict does not follow from the step that
signs: the rules compared the duty with the *rows*, some steps earlier. The
inductive invariant `SafetyInv` closes the gap:

- `UniqueRows`: at most one row per target and per slot;
- `LockHeld`: a call in its critical phases owns its validator's lock;
- `TypedRetains`: a call on the typed route has policy Retain, so an unclear
  outcome never deletes its row; this is where the assumption on gRPC is used;
- `ReservationHolds`: from its commit to its signature a reserved duty is covered
  and conflicts with nothing authorized before;
- `DeletableRowUnused`: a row a call may still delete belongs to no signature;
- with `NoSlashableSignatures` and `EverySignatureCovered` themselves.

"Covered" is a row, or a target and source at or below the floors. The lemmas show
that every database transaction keeps what is covered covered (`Remembers`): prune
because it raises the source floor first, import because the floors take the maxima
of the whole file, the compensating delete because of `DeletableRowUnused`. They
also show that an accepted duty conflicts with nothing covered. `ImportsRespected`
and `DrainedSilent` add one inductive conjunct each (`ImportsBelowWatermarks`,
`DrainedIsClosed`).

The export is about data as well as about steps. `attestation_synthetic_bounds`
raises a bound until no row contradicts it; `TargetBound` is the least such number,
and `TargetBoundCloses` shows that it exists and lies at or above the floor. From
that follow, for any table and floors, what a refused vote finds in the exported
records (`ExportRefusesAtt`, `ExportRefusesBlk`) and that these records agree with
each other (`ExportIsClean`). The second needs a fact about the history of the
table: rows above the target floor do not surround each other (`AboveFloorSafe`).
It is inductive, because a reservation was checked against all rows, an imported
row lies at or below the floors its file raises, and raising a floor only takes
rows out.

### Group commit

| Theorem | Says |
|---|---|
| `GCInvariant` | `GCSpec => []GCInv`, the inductive invariant |
| `GCTypeCorrect` | `GCSpec => []GCTypeOK` |
| `OkDurable` | `GCSpec => []OkIsDurable` |
| `RowsNeverSlashable` | `GCSpec => []NoSlashableRows` |
| `WaiterServed` | `GCSpec => []LiveWaiterServed` |
| `PinnedOnly` | `GCSpec => PinnedChainOnly` |
| `GroupCommitRefines` | `GCSpec => ImplementsAtomicReserve` |
| `LeaderPresent` | `GCSpec => []QueueHasLeader` |

For every batch size and every finite set of callers (`GroupAssumption`). The rows of
an open transaction are not in the tables yet, so `GCInv` says what a member was
judged against: each claim was accepted by the rules after the claims before it
(`ClaimsAccepted`), hence the tables with all of them would be safe
(`OpenRowsSafe`). `InOnePlace` keeps a caller out of queue and batch at the same
time, `DispatchInv` says that an unanswered member with an accepting outcome is
covered. For the refinement every step is a step of `AtomicReserve` or leaves its
mapped variables unchanged; COMMIT is the one that decides several callers at once.
`LeaderPresent` is the safety core of `EveryReserveAnswered`: a non-empty queue
has a leader, and so nobody is stranded by the hand-over; that the leader
gets on with it is the fairness TLC assumes.

### Forward window

| Theorem | Says |
|---|---|
| `FWInvariant` | `FWSpec => []FWInv`, the inductive invariant |
| `FWTypeCorrect` | `FWSpec => []FWTypeOK` |
| `ImportVetted` | `FWSpec => []ImportIsVetted` |
| `QuietWindows` | `FWSpec => SafeMeansQuiet` |

For any number of keys, any `MonitoringEpochs` of at least one, any length of epochs
and chain, and any behaviour of the nodes (`WindowAssumption`). `FWInv` relates the
loop to the machine: what it has in hand is about completed epochs (`LoopBehind`),
a Pending window has observed only complete epochs of its own in which the key was
not seen (`WindowsSound`), and a key that is loaded without having been vetted still has its marker on disk and is
not Safe (`UnvettedMarked`, `UnvettedNotSafe`), also while an import is under way
(`ImportMarked`), so no crash between two of its steps loses the window.

### Key life cycle

| Theorem | Says |
|---|---|
| `KLInvariant` | `Spec => []KLInv`, the inductive invariant |
| `KLTypeCorrect` | `Spec => []KLTypeOK` |
| `DeletedStays` | `Spec => []DeletedStaysDeleted` |
| `SlashedOff` | `Spec => []SlashedStaysOff` |
| `ExportedWhenAlone` | `Spec => []DeletedIsExported` if there is at most one DELETE |
| `GuardedAfterOneError` | `Spec => [](faults <= 1 => KeystoreGuarded)` |

For any number of I/O errors, persist attempts and DELETE requests
(`StoreAssumption`, `RequestAssumption`), except where the theorem
says otherwise: two DELETEs are the run `delete_export`. `KLInv` follows the denylist: a key
whose DELETE has ended is in the set and, unless `excepted`, in the file
(`DeletedIsDenied`, `DenylistDurable`); an import that clears the line has the key
present (`ClearingIsPresent`), and a DELETE that forgets it has denied it
(`ForgettingIsDenied`). `SlashedIsDisabled` says that the live row, or after a
restart the one in the file, of a key known to be slashed is off.

`GuardedAfterOneError` has an invariant of its own, `GuardInv`, that names the guard
left at each moment (`ExposedGuarded`): before the marking the staged marker, after
it the final one; a denylist line; after a crash the marker of the import that was
cut off, whose key boot has loaded; and after a marking that failed, the row. That
last case is the hard one. The marking has spent the error, so until then the file
had what the process has (`RowWritten`), and the row the keystore was renamed over
was off (`HoldArmed`), unless somebody was about to remove it, and whoever removes
it has denied the key (`RemovingDenied`). The import then unlinks the keystore
before its row, or meets a second error (`FailureCounted`). The theorem says nothing
of a behaviour from its second error on.

### Slot loop

| Theorem | Says |
|---|---|
| `SLInvariant` | `Spec => []SLInv`, the inductive invariant |
| `SLTypeCorrect` | `Spec => []SLTypeOK` |
| `SlotsOnlyAdvance` | `Spec => SlotsAdvance`: every slot that is entered is later than the one before |
| `OneHead` | `Spec => []OneHeadPerSlot` |
| `FreshInvariant` | `Spec => []FreshInv`, the invariant for fresh duties |
| `DutiesStayFresh` | `Spec => []DutiesFresh` |

For any length of slots, epochs and periods, any clock steps and any number of
disturbances (`SlotAssumption`, `PeriodAssumption`, `BranchAssumption`). `OneHead`
rests on the slot context: whoever has captured or used a head did so under its
lock and finds it fixed (`ContextHeld`, `HeadFixed`). That caches do not grow is a
statement about keys: one entry per key (`CacheKeyed`), and after the eviction of a
window only keys around the current epoch (`WindowEvicts`, `CacheBounded`).

`DutiesStayFresh` spans two slots, and `FreshInv` carries it from one to the other.
An undisturbed window ends exactly with its slot and the next slot starts in time,
so none is skipped (`OnTime`); during a window whatever it must not miss is still to
do or achieved, and an answer in flight is the answer of now (`WindowAchieves`); when
its work is done both epochs that the next slot can be in are assured
(`EpochsAssured`).

### Beacon node manager

| Theorem | Says |
|---|---|
| `BMInvariant` | `Spec => []BMInv`, the inductive invariant |
| `BMTypeCorrect` | `Spec => []BMTypeOK` |
| `SingleProducer` | `Spec => []OneProducer` |
| `CandidatesAsked` | `Spec => []EveryCandidateAsked` |

For any number of nodes, health windows and budgets (`NodeAssumption`,
`BudgetAssumption`). The list a call works through is a ranking of the nodes it
selected, each of them once (`ListsDistinct`; the lemma `Ranking` shows that
counting those ahead of a node puts them into a sequence), and what is left of the
budget pays the floor of every node still to be asked whenever the budget is enough
for all nodes (`Affordable`).

### Lock map and envelope guard

`SignerGuardProofs` proves `LockMapExcludes` (`LM!Spec => []LM!MutualExclusion`) for
every capacity and number of callers, from the invariant that whoever owns an Arc
owns the one in the map: the sweep spares entries with another owner, and an entry
is only made where there is none. `EnvelopeGuardHolds`
(`ES!Spec => []ES!OneEnvelopePerSlot`) follows from the invariant that a running
call owns its slot alone and that a slot whose root was handed over is never free.
Neither needs an assumption on its constants.

### What stays with TLC

Each inductive invariant was first checked by TLC on the instance of its component's
run: `GCInv` on 299,096 states, `FWInv` on 1,486,468, `KLInv` and `GuardInv` on 4,096,525
(with two errors), `SLInv` and `FreshInv` on 1,152,369, `BMInv` on 372,540.

Only model-checked: the liveness properties `EveryCallReturns`,
`EveryReserveAnswered`, `ObservedWindowDecided`, `TrackedKeysReleased`, `NodeReturns`
and `ShutdownStops`, since fairness is beyond the prover; and `KeystoreGuarded`
after a second I/O error, where it depends on how many attempts the slashing disable
makes (see Bounds).

## Findings

- **`restart_detected`.** `doppelganger/src/lib.rs:4-5` promises "restart-awareness
  ... to avoid false positives when a validator client restarts after recently
  signing attestations". An imported key becomes Safe before its marker is
  unlinked. If it signs and the process restarts while the marker is still there
  (a crash in between, or an unlink that failed, which is only logged), boot treats
  it as an unfinished import, opens a window that includes the current epoch, and
  takes the host's own attestation for a double: Detected, until the next restart.
- **`delete_export`.** `handlers.rs:329-331` says that a key admitted after a DELETE's
  membership snapshot is not deleted, and that the adapter refuses if the handler's
  check loses the race. The adapter asks whether *any* DELETE in flight has the key
  in its snapshot. With a second DELETE that does, the first removes the key and
  answers with an interchange that lacks it.

## Observations

Behaviours met while modelling that no run states as a property:

- The member of a group commit that leads goes on flushing while requests keep
  arriving (`group_commit.rs:418`), its own answer already in its channel.
- A process started without keys does not start the observation loop
  (`liveness_loop.rs:437`), so a key imported later stays Pending until a restart,
  although `docs/keymanager-api.openapi.yaml:496-499` has it safe "once the window
  has elapsed".
- `DeletionDenylist::remove` restores its set when the rewrite fails, but the
  rewrite may fail after its rename, when the line is already gone. The next DELETE
  finds the key in the set and writes nothing, and a restart admits the key again
  (`excepted`).
- The last denylist check of a refresh rolls back the signer, the map entry and the
  window of a re-import that came meanwhile, although `key_admission.rs:289-290`
  speaks of "only what this admission inserted". It is fail-closed, but leaves a key
  whose API state and signer disagree (`excepted`). Before that check a key deleted
  during the admission is signable for a moment.
- A key imported again while its window is Safe keeps Safe. An import that
  ends as a duplicate after its hold was written leaves a Held row without an enable
  task until a restart.
- The export can lose refusals that are not about slashing: `SlotBelowMinimum` and
  `TargetBelowMinimum`, where a floor lies below the oldest row.
- `query_first_prefer_some` keeps the last error only, so over three nodes 204, a
  hang and an HTTP error together return `Ok(None)`, although `manager.rs:886-888`
  says that a timeout wins over an earlier 204.
- A node flagged incapable that is probed again and answers 400 ends the production
  round, as the first of the list, before other nodes are asked.
- A node that runs into its attempt timeout may have produced a block, and the failover
  goes on to the next by design; `OneProducer` is about produced blocks that came back.
- `OrchestratorHandle::shutdown` says that the loop "will complete processing of the
  current slot" (`coordinator/mod.rs:177-178`). The code ends the waits of the phases at
  once, as `fork_transition.rs:476-477` also says; `EndWaits` follows the code.
- The warning at `store.rs:753` says that an elapsed hold that could not be enabled at
  boot will be retried. Only the keymanager API starts the task that retries; with the
  API off the result is dropped (`bootstrap/services.rs:136`) and the key stays off until
  the next restart.
- Under `with_op_timeout` one hung node discards what the others answered to a best-of
  query or a broadcast, and their health records.

## Plan

Done: the signing path and its database, group commit, the forward window; then the
key life cycle, export, the beacon node manager, the slot loop with the duty
tracker, the lock map and the envelope guard. What is left, in this order:

1. Proofs: `KeystoreGuarded` beyond one I/O error, for the three attempts of the code.
   Every safety property of a passing run is stated by a theorem, this one up to
   that error and `DeletedIsExported` for one DELETE.
2. Block service with builder fall-back and circuit breaker, between `SlotLoop` and
   `BnManager`.
3. Registration and removal of remote keys.
4. The duties' own data flow: aggregates and contributions from the head captured in
   `SlotLoop` to the broadcast of `BnManager`.

## Not modelled

Most of the repository's lines are types, encodings, transport, configuration and
tests: beacon API transport, SSZ, JSON and cryptography (abstracted as opaque values);
configuration, logging and metrics (no protocol state); generated Gloas types;
test tooling; DVT coordination in the signer server (`DvtSigner::sign_with_duty` is
called by tests only, and the raw-root route refuses to contact peers; a peer's
partial signature is staged, made and committed in one transaction); schema migration and backup (single-threaded, before the process
serves); database corruption; numbers at or above 2^63.
