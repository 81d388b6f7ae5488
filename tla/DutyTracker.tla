----------------------------- MODULE DutyTracker -----------------------------
(***************************************************************************)
(* The duty tracker: four caches of duties fetched from the beacon node.   *)
(* Attester and PTC duties are kept per epoch with the validator indices   *)
(* that were posted and the dependent root that was answered; proposer     *)
(* duties per epoch with the root alone, since the node answers for every  *)
(* validator; sync committee duties per period with the indices alone.     *)
(* The duties themselves are determined by these tags and left out.        *)
(***************************************************************************)
EXTENDS Integers, Sequences, FiniteSets

CONSTANTS
    None,
    EpochsPerPeriod,    \* EPOCHS_PER_SYNC_COMMITTEE_PERIOD
    PrefetchLookahead   \* PREFETCH_LOOKAHEAD

ASSUME PeriodAssumption ==
    EpochsPerPeriod \in Nat \ {0} /\ PrefetchLookahead \in 0 .. EpochsPerPeriod

VARIABLES
    cache,          \* kind -> set of [key, indices, root]
    prefetched,     \* periods whose sync duties were fetched ahead
    indices,        \* version of the index set: registry and pubkey map
    root            \* version of the node's dependent roots

trackerVars == <<cache, prefetched>>
chainVars == <<indices, root>>

Kinds == {"attester", "proposer", "ptc", "sync"}

Period(epoch) == epoch \div EpochsPerPeriod

Key(kind, epoch) == IF kind = "sync" THEN Period(epoch) ELSE epoch

\* What the node answers now, with the tags the cache keeps.
Answer(kind, epoch) ==
    [key |-> Key(kind, epoch),
     indices |-> IF kind = "proposer" THEN None ELSE indices,
     root |-> IF kind = "sync" THEN None ELSE root]

Entries(kind, epoch) == {e \in cache[kind] : e.key = Key(kind, epoch)}

\* Mutant: an entry counts whatever indices it was fetched for.
IsCachedAnyIndices(kind, epoch) == Entries(kind, epoch) # {}

\* is_epoch_cached and its siblings: present, and for the indices of now.
IsCached(kind, epoch) ==
    \E e \in Entries(kind, epoch) : e.indices = Answer(kind, epoch).indices

\* Mutant: the old entry of the key stays.
InsertBeside(kind, entry) == cache' = [cache EXCEPT ![kind] = @ \union {entry}]

\* An insert replaces the entry of that key.
Insert(kind, entry) ==
    cache' = [cache EXCEPT ![kind] = {e \in @ : e.key # entry.key} \union {entry}]

ClearCache == cache' = [kind \in Kinds |-> {}]

\* evict_old_caches: two epochs and one period are retained.
EvictOldCaches(epoch) ==
    cache' = [kind \in Kinds |->
        {e \in cache[kind] :
            e.key >= IF kind = "sync" THEN Period(epoch) - 1 ELSE epoch - 2}]

\* check_and_refetch_*: the answer replaces an entry with other tags, or none.
Recheck(kind, entry) ==
    IF entry \in cache[kind] THEN UNCHANGED cache ELSE Insert(kind, entry)

\* maybe_prefetch_next_sync_period: the first epoch of the next period, once
\* per period, in the last epochs of this one.
PrefetchDue(epoch) ==
    /\ epoch % EpochsPerPeriod >= EpochsPerPeriod - PrefetchLookahead
    /\ Period(epoch) + 1 \notin prefetched

NextPeriodEpoch(epoch) == (Period(epoch) + 1) * EpochsPerPeriod
=============================================================================
