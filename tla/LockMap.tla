------------------------------- MODULE LockMap -------------------------------
(***************************************************************************)
(* The validator lock map: a bounded map from validators to mutexes, from  *)
(* which entries nobody uses are swept when a new one would exceed the     *)
(* capacity.  The signing path takes its validator's lock from it in two   *)
(* steps: get clones the Arc under the map's mutex, lock_owned waits for   *)
(* the mutex with the map unlocked, and the sweep may run in between.      *)
(*                                                                         *)
(* Module SlashableSigning has one lock per validator; here it is shown    *)
(* that the map provides one, whatever its capacity.                       *)
(***************************************************************************)
EXTENDS Naturals, FiniteSets

CONSTANTS
    Callers,        \* sign calls and drains
    Pubkeys,
    Locks,          \* identities of mutexes
    Capacity

VARIABLES
    entry,          \* the map: pubkey -> lock, or None
    call            \* caller -> [phase, pk, lock]; a caller that is not idle owns an Arc

vars == <<entry, call>>

None == CHOOSE l : l \notin Locks     \* no mutex

Idle == [phase |-> "idle", pk |-> None, lock |-> None]

\* Arc::strong_count > 1: the map has one, somebody else another.
InUse(l) == \E c \in Callers : call[c].phase # "idle" /\ call[c].lock = l

Full == Cardinality({pk \in Pubkeys : entry[pk] # None}) >= Capacity

\* retain: at capacity every entry that is not in use goes.
Swept == [pk \in Pubkeys |-> IF Full /\ ~InUse(entry[pk]) THEN None ELSE entry[pk]]

Init ==
    /\ entry = [pk \in Pubkeys |-> None]
    /\ call = [c \in Callers |-> Idle]

GetExisting(c, pk) ==
    /\ call[c].phase = "idle"
    /\ entry[pk] # None
    /\ call' = [call EXCEPT ![c] = [phase |-> "waiting", pk |-> pk, lock |-> entry[pk]]]
    /\ UNCHANGED entry

\* A new mutex, after the sweep; with every entry in use the map grows.
GetNew(c, pk, l) ==
    /\ call[c].phase = "idle"
    /\ entry[pk] = None
    /\ ~InUse(l) /\ \A q \in Pubkeys : entry[q] # l
    /\ entry' = [Swept EXCEPT ![pk] = l]
    /\ call' = [call EXCEPT ![c] = [phase |-> "waiting", pk |-> pk, lock |-> l]]

\* lock_owned: the mutex is free.
Acquire(c) ==
    /\ call[c].phase = "waiting"
    /\ \A d \in Callers : call[d].phase = "holding" => call[d].lock # call[c].lock
    /\ call' = [call EXCEPT ![c] = [@ EXCEPT !.phase = "holding"]]
    /\ UNCHANGED entry

\* The guard, or a wait that timed out or was cancelled, is dropped with its Arc.
DropArc(c) ==
    /\ call[c].phase # "idle"
    /\ call' = [call EXCEPT ![c] = Idle]
    /\ UNCHANGED entry

Next ==
    \E c \in Callers :
        \/ \E pk \in Pubkeys : GetExisting(c, pk) \/ \E l \in Locks : GetNew(c, pk, l)
        \/ Acquire(c) \/ DropArc(c)

Spec == Init /\ [][Next]_vars

-----------------------------------------------------------------------------
\* Two callers never hold a lock of the same validator at the same time: no
\* eviction between get and lock_owned splits the lock in two.
MutualExclusion ==
    \A c, d \in Callers :
        /\ call[c].phase = "holding" /\ call[d].phase = "holding"
        /\ call[c].pk = call[d].pk
        => c = d

LMTypeOK ==
    /\ entry \in [Pubkeys -> Locks \union {None}]
    /\ call \in [Callers -> {Idle} \union [phase : {"waiting", "holding"}, pk : Pubkeys, lock : Locks]]

\* Whoever owns an Arc owns the one the map has for that validator, and a
\* mutex has one holder.
LMInv ==
    /\ LMTypeOK
    /\ \A c \in Callers : call[c].phase # "idle" => entry[call[c].pk] = call[c].lock
    /\ \A c, d \in Callers :
          call[c].phase = "holding" /\ call[d].phase = "holding" /\ call[c].lock = call[d].lock
          => c = d
==============================================================================
