----------------------------- MODULE GroupCommit -----------------------------
(***************************************************************************)
(* crates/slashing/src/group_commit.rs: concurrent reserve_* calls share   *)
(* one SQLite transaction.  A caller arms its waiter, queues its request   *)
(* and, if nobody leads, becomes the leader.  The leader drains the queue  *)
(* in batches; in one BEGIN IMMEDIATE .. COMMIT it checks every member     *)
(* against the tables and the rows of the members before it, then answers  *)
(* every member over its channel.  It resigns when it finds the queue      *)
(* empty under the queue's mutex.                                          *)
(*                                                                         *)
(* The connection mutex is held while a transaction is open (stage         *)
(* "eval"): other writers run in the other stages.  A crash loses the      *)
(* queue, the callers and the open transaction, never a committed row.     *)
(***************************************************************************)
EXTENDS SlashingDb, Sequences, FiniteSets

CONSTANTS
    Callers,            \* threads that call reserve_block / reserve_attestation
    Chains,             \* genesis validators roots a caller may pass
    BatchSize,          \* GroupCommitConfig.batch_size, sanitized to at least 1
    BlockFloors,        \* arguments of set_block_watermark
    AttestationFloors   \* pairs, arguments of set_attestation_watermark

ASSUME GroupAssumption ==
    /\ None \notin Callers \cup Chains
    /\ IsFiniteSet(Callers)
    /\ BatchSize \in Nat \ {0}
    /\ BlockFloors \subseteq Slots
    /\ AttestationFloors \subseteq Epochs \X Epochs

VARIABLES
    pin,                \* metadata.genesis_validators_root, or None
    gvrCache,           \* gvr_cache, or None
    call,               \* the calls, with the atomic flag and the outcome of each
    queue,              \* pending
    leaderActive,       \* leader_active
    lead,               \* how far each caller is in lead_flush
    batch,              \* the members the leader drained
    stage,              \* what the leader does with them
    pos,                \* members evaluated, later members answered
    claims,             \* members whose row is in the open transaction, in order
    failed              \* persist_err is set

leaderVars == <<leaderActive, lead, batch, stage, pos, claims, failed>>

gcVars == <<dbVars, pin, gvrCache, call, queue, leaderVars>>

NoCall == [phase |-> "idle"]

(* "none" is an outcome that was never set: a member skipped as cancelled. *)
Outcomes == {"none", "inserted", "resigned", "rejected", "failed", "disconnected"}

Accepting == {"inserted", "resigned"}

Requests == [phase : {"checked", "queued", "gone", "answered"},
             pk : Pubkeys, duty : Duties, chain : Chains,
             cancelled : BOOLEAN, outcome : Outcomes]

GCTypeOK ==
    /\ DbTypeOK
    /\ pin \in Chains \cup {None}
    /\ gvrCache \in {None, pin}
    /\ call \in [Callers -> {NoCall} \cup Requests]
    /\ queue \in Seq(Callers)
    /\ leaderActive \in BOOLEAN
    /\ lead \in [Callers -> {"no", "claimed", "flushing", "retiring"}]
    /\ batch \in Seq(Callers) /\ Len(batch) <= BatchSize
    /\ stage \in {"idle", "drained", "eval", "dispatch"}
    /\ pos \in 0 .. Len(batch)
    /\ claims \in Seq(Callers)
    /\ failed \in BOOLEAN

NoBatch == /\ batch' = <<>> /\ stage' = "idle" /\ pos' = 0
           /\ claims' = <<>> /\ failed' = FALSE

GCInit ==
    /\ DbInit
    /\ pin = None /\ gvrCache = None
    /\ call = [t \in Callers |-> NoCall]
    /\ queue = <<>>
    /\ leaderActive = FALSE
    /\ lead = [t \in Callers |-> "no"]
    /\ batch = <<>> /\ stage = "idle" /\ pos = 0 /\ claims = <<>> /\ failed = FALSE

-----------------------------------------------------------------------------
(* The caller.                                                             *)

(* check_gvr_before_lock with pinned_gvr: an absent pin is not cached.  A  *)
(* cold cache reads the metadata, for which the connection must be free.   *)
CheckGvr(t, pk, d, c) ==
    LET known == IF gvrCache # None THEN gvrCache ELSE pin
    IN  /\ call[t] = NoCall
        /\ gvrCache # None \/ stage # "eval"
        /\ gvrCache' = known
        /\ call' = IF known \in {None, c}
                   THEN [call EXCEPT ![t] =
                            [phase |-> "checked", pk |-> pk, duty |-> d, chain |-> c,
                             cancelled |-> TRUE, outcome |-> "none"]]
                   ELSE call
        /\ UNCHANGED <<dbVars, pin, queue, leaderVars>>

\* Mutant: the request is queued before its waiter is armed.
EnqueueUnarmed(t) ==
    /\ call[t].phase = "checked"
    /\ call' = [call EXCEPT ![t] = [@ EXCEPT !.phase = "queued"]]
    /\ queue' = Append(queue, t)
    /\ leaderActive' = TRUE
    /\ lead' = [lead EXCEPT ![t] = IF leaderActive THEN "no" ELSE "claimed"]
    /\ UNCHANGED <<dbVars, pin, gvrCache, batch, stage, pos, claims, failed>>

(* enqueue_and_wait: arm, then push_pending, which claims the leadership.  *)
Enqueue(t) ==
    /\ call[t].phase = "checked"
    /\ call' = [call EXCEPT ![t] = [@ EXCEPT !.phase = "queued", !.cancelled = FALSE]]
    /\ queue' = Append(queue, t)
    /\ leaderActive' = TRUE
    /\ lead' = [lead EXCEPT ![t] = IF leaderActive THEN "no" ELSE "claimed"]
    /\ UNCHANGED <<dbVars, pin, gvrCache, batch, stage, pos, claims, failed>>

(* The waiter is dropped before its answer (Drop for ReserveWait).         *)
Abandon(t) ==
    /\ call[t].phase = "queued"
    /\ lead[t] = "no"
    /\ call' = [call EXCEPT ![t] = [@ EXCEPT !.phase = "gone", !.cancelled = TRUE]]
    /\ UNCHANGED <<dbVars, pin, gvrCache, queue, leaderVars>>

(* recv returns; the leader gets to it only after lead_flush.              *)
Receive(t) ==
    /\ call[t].phase = "answered"
    /\ lead[t] = "no"
    /\ call' = [call EXCEPT ![t] = NoCall]
    /\ UNCHANGED <<dbVars, pin, gvrCache, queue, leaderVars>>

-----------------------------------------------------------------------------
(* lead_flush.                                                             *)

TakeFlushLock(t) ==
    /\ lead[t] = "claimed"
    /\ \A u \in Callers : lead[u] \notin {"flushing", "retiring"}
    /\ lead' = [lead EXCEPT ![t] = "flushing"]
    /\ UNCHANGED <<dbVars, pin, gvrCache, call, queue,
                   leaderActive, batch, stage, pos, claims, failed>>

\* Mutant: the batch takes one member too many.
DrainBatchOneMore(t) ==
    LET n == IF Len(queue) <= BatchSize THEN Len(queue) ELSE BatchSize + 1
    IN  /\ lead[t] = "flushing" /\ stage = "idle"
        /\ queue # <<>>
        /\ batch' = SubSeq(queue, 1, n)
        /\ queue' = SubSeq(queue, n + 1, Len(queue))
        /\ stage' = "drained"
        /\ UNCHANGED <<dbVars, pin, gvrCache, call, leaderActive, lead, pos, claims, failed>>

(* drain_batch: the wait to fill may end at any length.                    *)
DrainBatch(t) ==
    LET n == IF Len(queue) < BatchSize THEN Len(queue) ELSE BatchSize
    IN  /\ lead[t] = "flushing" /\ stage = "idle"
        /\ queue # <<>>
        /\ batch' = SubSeq(queue, 1, n)
        /\ queue' = SubSeq(queue, n + 1, Len(queue))
        /\ stage' = "drained"
        /\ UNCHANGED <<dbVars, pin, gvrCache, call, leaderActive, lead, pos, claims, failed>>

Begin(t) ==
    /\ lead[t] = "flushing" /\ stage = "drained"
    /\ stage' = "eval"
    /\ UNCHANGED <<dbVars, pin, gvrCache, call, queue,
                   leaderActive, lead, batch, pos, claims, failed>>

Message(t) == <<call[t].pk, call[t].duty>>

Claimed == {Message(claims[i]) : i \in DOMAIN claims}

(* One round of the loop in commit_batch: skip a cancelled member, check   *)
(* the rules on the rows seen, claim the member, check the chain, insert.  *)
EvalMember(t, seen, chain) ==
    LET m == batch[pos + 1]
        v == VerdictAfter(seen, call[m].pk, call[m].duty)
        accepted == v \in AcceptedAttestation \cup AcceptedBlock
        outcome == IF ~accepted \/ chain \notin {None, call[m].chain} THEN "rejected"
                   ELSE IF v = "Stage" THEN "inserted" ELSE "resigned"
    IN  /\ lead[t] = "flushing" /\ stage = "eval"
        /\ pos < Len(batch) /\ ~failed
        /\ pos' = pos + 1
        /\ IF call[m].cancelled THEN UNCHANGED <<call, claims>>
           ELSE /\ call' = [call EXCEPT ![m] =
                       [@ EXCEPT !.outcome = outcome, !.cancelled = accepted]]
                /\ claims' = IF outcome \in Accepting THEN Append(claims, m) ELSE claims
        /\ UNCHANGED <<dbVars, pin, gvrCache, queue, leaderActive, lead, batch, stage, failed>>

\* Mutant: the rules only see committed rows, not those of earlier members.
EvalCommittedOnly(t) == EvalMember(t, {}, pin)

\* Mutant: the pinned chain is not looked up again inside the transaction.
EvalTrustsEarlyCheck(t) == EvalMember(t, Claimed, None)

Eval(t) == EvalMember(t, Claimed, pin)

(* A query or an insert fails: no later member is looked at.               *)
EvalFails(t) ==
    /\ lead[t] = "flushing" /\ stage = "eval"
    /\ pos < Len(batch) /\ ~failed
    /\ ~call[batch[pos + 1]].cancelled
    /\ failed' = TRUE
    /\ UNCHANGED <<dbVars, pin, gvrCache, call, queue,
                   leaderActive, lead, batch, stage, pos, claims>>

Commit(t) ==
    /\ lead[t] = "flushing" /\ stage = "eval"
    /\ pos = Len(batch) /\ ~failed /\ claims # <<>>
    /\ InsertAll(Claimed)
    /\ stage' = "dispatch" /\ pos' = 0
    /\ UNCHANGED <<pin, gvrCache, call, queue, leaderActive, lead, batch, claims, failed>>

(* The members in S will be told that the commit failed.                   *)
Fail(S) == call' = [t \in Callers |->
               IF t \in S THEN [call[t] EXCEPT !.outcome = "failed"] ELSE call[t]]

Members == {batch[i] : i \in DOMAIN batch}

\* Mutant: members that passed the rules are told Ok although COMMIT failed.
RollbackKeepsOk(t) ==
    /\ lead[t] = "flushing" /\ stage = "eval"
    /\ failed \/ pos = Len(batch)
    /\ failed' = (failed \/ claims # <<>>)
    /\ stage' = "dispatch" /\ pos' = 0 /\ claims' = <<>>
    /\ UNCHANGED <<dbVars, pin, gvrCache, call, queue, leaderActive, lead, batch>>

(* COMMIT fails, an earlier statement failed, or nobody was accepted: the  *)
(* rows are rolled back.  A member already rejected keeps its rejection.   *)
Rollback(t) ==
    /\ lead[t] = "flushing" /\ stage = "eval"
    /\ failed \/ pos = Len(batch)
    /\ failed' = (failed \/ claims # <<>>)
    /\ Fail({m \in Members : call[m].outcome \in Accepting})
    /\ stage' = "dispatch" /\ pos' = 0 /\ claims' = <<>>
    /\ UNCHANGED <<dbVars, pin, gvrCache, queue, leaderActive, lead, batch>>

(* BEGIN fails, or the ROLLBACK of a batch with no accepted member or with *)
(* an error: all outcomes are lost and every member is told so.            *)
TxnFails(t) ==
    /\ lead[t] = "flushing"
    /\ \/ stage = "drained"
       \/ stage = "eval" /\ (failed \/ (pos = Len(batch) /\ claims = <<>>))
    /\ failed' = TRUE
    /\ Fail(Members)
    /\ stage' = "dispatch" /\ pos' = 0 /\ claims' = <<>>
    /\ UNCHANGED <<dbVars, pin, gvrCache, queue, leaderActive, lead, batch>>

(* dispatch_outcomes, one member: an outcome is sent; a member without one *)
(* has its sender dropped, so its waiter reads a disconnected channel.     *)
Dispatch(t) ==
    LET m == batch[pos + 1]
        answer == IF call[m].outcome # "none" THEN call[m].outcome
                  ELSE IF failed THEN "failed" ELSE "disconnected"
    IN  /\ lead[t] = "flushing" /\ stage = "dispatch"
        /\ call' = [call EXCEPT ![m] =
               IF @.phase = "gone" THEN NoCall
               ELSE [@ EXCEPT !.phase = "answered", !.outcome = answer]]
        /\ IF pos + 1 = Len(batch) THEN NoBatch
           ELSE pos' = pos + 1 /\ UNCHANGED <<batch, stage, claims, failed>>
        /\ UNCHANGED <<dbVars, pin, gvrCache, queue, leaderActive, lead>>

\* Mutant: the leader resigns on an emptiness it saw before it let go of the
\* queue's mutex.
RetireStale(t) ==
    /\ lead[t] = "flushing" /\ stage = "idle"
    /\ leaderActive' = FALSE
    /\ lead' = [lead EXCEPT ![t] = "retiring"]
    /\ UNCHANGED <<dbVars, pin, gvrCache, call, queue, batch, stage, pos, claims, failed>>

(* The queue is empty under its mutex: the leadership is given up, and     *)
(* after it flush_lock.                                                    *)
Retire(t) ==
    /\ lead[t] = "flushing" /\ stage = "idle"
    /\ queue = <<>>
    /\ leaderActive' = FALSE
    /\ lead' = [lead EXCEPT ![t] = "retiring"]
    /\ UNCHANGED <<dbVars, pin, gvrCache, call, queue, batch, stage, pos, claims, failed>>

ReleaseFlushLock(t) ==
    /\ lead[t] = "retiring"
    /\ lead' = [lead EXCEPT ![t] = "no"]
    /\ UNCHANGED <<dbVars, pin, gvrCache, call, queue,
                   leaderActive, batch, stage, pos, claims, failed>>

-----------------------------------------------------------------------------
(* The other users of the database.                                        *)

(* set_genesis_validators_root: the pin is written once.                   *)
SetGenesisValidatorsRoot(c) ==
    /\ stage # "eval"
    /\ pin = None
    /\ pin' = c
    /\ UNCHANGED <<dbVars, gvrCache, call, queue, leaderVars>>

OtherWriter ==
    /\ stage # "eval"
    /\ \/ \E pk \in Pubkeys, s \in BlockFloors : SetBlockWatermark(pk, s)
       \/ \E pk \in Pubkeys, f \in AttestationFloors : SetAttestationWatermark(pk, f[1], f[2])
       \/ Prune
    /\ UNCHANGED <<pin, gvrCache, call, queue, leaderVars>>

Crash ==
    /\ call' = [t \in Callers |-> NoCall]
    /\ queue' = <<>>
    /\ gvrCache' = None
    /\ leaderActive' = FALSE
    /\ lead' = [t \in Callers |-> "no"]
    /\ NoBatch
    /\ UNCHANGED <<dbVars, pin>>

-----------------------------------------------------------------------------
Flush(t) ==
    \/ TakeFlushLock(t) \/ DrainBatch(t) \/ Begin(t)
    \/ Eval(t) \/ EvalFails(t) \/ Commit(t) \/ Rollback(t) \/ TxnFails(t)
    \/ Dispatch(t) \/ Retire(t) \/ ReleaseFlushLock(t)

Caller(t) ==
    \/ \E pk \in Pubkeys, d \in Duties, c \in Chains : CheckGvr(t, pk, d, c)
    \/ Enqueue(t) \/ Abandon(t) \/ Receive(t)

GCNext ==
    \/ \E t \in Callers : Caller(t) \/ Flush(t)
    \/ \E c \in Chains : SetGenesisValidatorsRoot(c)
    \/ OtherWriter
    \/ Crash

GCSpec == GCInit /\ [][GCNext]_gcVars

-----------------------------------------------------------------------------
(* Properties.                                                             *)

(* Commit before sign: whoever is told Ok has its duty on durable record,  *)
(* however its batch was formed and whatever failed.                       *)
OkIsDurable ==
    \A t \in Callers : call[t].phase = "answered" /\ call[t].outcome \in Accepting =>
        Covered(call[t].pk, call[t].duty)

(* Members of one batch are checked against each other: no two committed   *)
(* rows of a validator are slashable together.                             *)
NoSlashableRows ==
    \A pk \in Pubkeys :
        /\ \A r, s \in attestations[pk] :
               (r.target = s.target => r = s) /\ ~Surrounding(r, s)
        /\ \A r, s \in blocks[pk] : r.slot = s.slot => r = s

(* A caller that is still waiting is never skipped as cancelled.           *)
LiveWaiterServed ==
    \A t \in Callers : call[t].phase = "answered" => call[t].outcome # "disconnected"

(* Once a chain is pinned, even between a caller's early check and the     *)
(* commit of its batch, no row of another chain is committed.              *)
PinnedChainOnly ==
    [][\A t \in Callers :
          Commit(t) /\ pin # None =>
              \A i \in DOMAIN claims : call[claims[i]].chain = pin]_gcVars

(* The contract SlashableSigning relies on.  A member's fate is decided    *)
(* when it is rejected or when its transaction ends, not when it is told.  *)
Decided(t) == IF call[t].outcome \in Accepting
              THEN ~(stage = "eval" /\ t \in Members)
              ELSE call[t].outcome # "none"

Answer(t) ==
    IF call[t].phase \in {"idle", "checked"} THEN [state |-> "none"]
    ELSE [pk |-> call[t].pk, duty |-> call[t].duty, chain |-> call[t].chain,
          state |-> IF ~Decided(t) THEN "pending"
                    ELSE IF call[t].outcome \in Accepting THEN call[t].outcome
                    ELSE "refused"]

Contract == INSTANCE AtomicReserve WITH ask <- [t \in Callers |-> Answer(t)]

(* Batching is invisible: every behaviour is one of atomic reservations.   *)
ImplementsAtomicReserve == Contract!AskSpec

(* Liveness: threads that can run do; locks and channels have no timeout.  *)
FairGCSpec == GCSpec /\ \A t \in Callers :
                  /\ WF_gcVars(Enqueue(t)) /\ WF_gcVars(Receive(t))
                  /\ WF_gcVars(Flush(t))

(* Every queued reservation is answered: no request is left in the queue   *)
(* without a leader when the leadership changes hands.                     *)
EveryReserveAnswered ==
    \A t \in Callers : call[t].phase = "queued" ~> call[t].phase # "queued"
=============================================================================
