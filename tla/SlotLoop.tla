------------------------------ MODULE SlotLoop ------------------------------
(***************************************************************************)
(* The duty orchestrator's slot loop.  One task takes the slots in turn:   *)
(* it clears the duty caches when keys changed, proposes, runs the duty    *)
(* phases of the slot concurrently, each waiting for its own deadline, and *)
(* refreshes the duty caches in what is left of the slot.  Around it the   *)
(* clock ticks and is stepped, keys come and go, heads are announced,      *)
(* dependent roots change and shutdown is requested.                       *)
(*                                                                         *)
(* Phase deadlines run on the monotonic clock from an anchor taken at the  *)
(* slot's start; the wait for the next slot is computed from the wall      *)
(* clock.  What the duties sign, the builder circuit breaker, proposer     *)
(* preparation, committee subscriptions and builder registration change no *)
(* state of the loop and are left out, except the head root that sync      *)
(* messages and contributions name.                                        *)
(***************************************************************************)
EXTENDS DutyTracker

CONSTANTS
    SlotTicks,      \* ticks in a slot
    SlotsPerEpoch,
    GloasEpoch,     \* first epoch of Gloas
    Deadlines,      \* fork -> [att, sync, contrib, agg, ptc], in ticks
    MaxSlot,        \* bound: the clock stops at the end of this slot
    Skews,          \* wall clock minus monotonic clock, values it is stepped to
    MaxEvents       \* bound on failed requests, overrun slots, clock steps, key
                    \* changes, notifications, reorgs and shutdown, taken together

ASSUME SlotAssumption == /\ SlotTicks \in Nat \ {0} /\ SlotsPerEpoch \in Nat \ {0}
                         /\ Skews \subseteq Int

VARIABLES
    mono,           \* monotonic clock, in ticks
    skew,           \* wall clock minus mono
    pc,             \* where the loop stands
    cur,            \* slot under way or last finished
    last,           \* last_processed_slot
    start,          \* the anchor: start of cur on the monotonic clock
    wake,           \* end of the wait for the next slot, on the monotonic clock
    ctx,            \* SlotContext: parent and head
    holder,         \* branch that holds the context's mutex
    branch,         \* duty branch -> "wait", "lock", "hold", "snap", "done"
    signed,         \* roots named by this slot's sync messages and contributions
    work,           \* items of the post-duty work still to do
    job,            \* answer of the item under way, before it is stored
    keyGen,         \* an unseen key change notification
    headSeen,       \* the latest head event is for the slot under way
    shutdown,
    events,         \* events counted against MaxEvents
    assured,        \* history: what the last full post-duty window established
    clean           \* history: nothing changed or failed since its start

clockVars == <<mono, skew>>
slotVars == <<cur, last, start, ctx, holder, branch, signed>>
windowVars == <<wake, work, job>>
signalVars == <<keyGen, headSeen, shutdown>>
history == <<assured, clean>>
vars == <<clockVars, pc, slotVars, windowVars, signalVars, events, history,
          trackerVars, chainVars>>

Branches == {"att", "sync", "contrib"}

ASSUME BranchAssumption == None \notin Branches

Wall == mono + skew
CurrentSlot == Wall \div SlotTicks
Epoch(slot) == slot \div SlotsPerEpoch
Fork(slot) == IF Epoch(slot) >= GloasEpoch THEN "gloas" ELSE "preGloas"
Due(b) == start + Deadlines[Fork(cur)][b]

NoContext == [parent |-> None, head |-> None]

\* Nothing of what the last window established survives.
Disturbed == assured' = {} /\ clean' = FALSE

\* Something the loop must cope with: a request fails or times out and the
\* caller goes on without its answer, or the world changes.
Event == events < MaxEvents /\ events' = events + 1 /\ Disturbed
NoEvent == UNCHANGED <<events, history>>

Init ==
    /\ mono = 0 /\ skew = 0
    /\ pc = "top"
    /\ cur = -1 /\ last = -1 /\ start = 0 /\ wake = 0
    /\ ctx = NoContext
    /\ holder = None
    /\ branch = [b \in Branches |-> "done"]
    /\ signed = {}
    /\ work = <<>> /\ job = None
    /\ keyGen = FALSE
    /\ headSeen = FALSE
    /\ shutdown = FALSE
    /\ events = 0
    /\ assured = {} /\ clean = FALSE
    /\ cache = [kind \in Kinds |-> {}]
    /\ prefetched = {}
    /\ indices = 0 /\ root = 0

-----------------------------------------------------------------------------
(* The top of the loop.                                                    *)

Stop ==
    /\ shutdown
    /\ pc' = "done"
    /\ UNCHANGED <<clockVars, slotVars, windowVars, signalVars, events, history,
                   trackerVars, chainVars>>

TopStops == pc = "top" /\ Stop

\* Mutant: off by one, only an earlier slot than the last one is a replay.
ReplaysSlotStrict == CurrentSlot < last

\* The clock is at or behind the last processed slot.
ReplaysSlot == CurrentSlot <= last

SleepUntilSlot(slot) == wake' = mono + (slot * SlotTicks - Wall)

\* A replay is skipped: wait for the slot after the last one.
SkipReplay ==
    /\ pc = "top" /\ ~ shutdown
    /\ Wall >= 0
    /\ ReplaysSlot
    /\ pc' = "replay"
    /\ SleepUntilSlot(last + 1)
    /\ UNCHANGED <<clockVars, slotVars, work, job, signalVars, events, history,
                   trackerVars, chainVars>>

\* A new slot: the anchor is taken and a key change clears every cache.
BeginSlot ==
    /\ pc = "top" /\ ~ shutdown
    /\ Wall >= 0
    /\ ~ ReplaysSlot
    /\ pc' = "cold"
    /\ cur' = CurrentSlot
    /\ start' = mono - (Wall % SlotTicks)
    /\ keyGen' = FALSE
    /\ IF keyGen THEN ClearCache ELSE UNCHANGED cache
    /\ UNCHANGED <<clockVars, last, ctx, holder, branch, signed, windowVars, headSeen,
                   shutdown, events, history, prefetched, chainVars>>

\* maybe_cold_fetch_proposer_duties: only without an entry for this epoch.
ColdFetch ==
    /\ pc = "cold"
    /\ \/ IsCached("proposer", Epoch(cur)) /\ UNCHANGED cache /\ NoEvent
       \/ ~ IsCached("proposer", Epoch(cur))
          /\ Insert("proposer", Answer("proposer", Epoch(cur))) /\ NoEvent
       \/ ~ IsCached("proposer", Epoch(cur)) /\ UNCHANGED cache /\ Event
    /\ pc' = "parent"
    /\ UNCHANGED <<clockVars, slotVars, windowVars, signalVars, prefetched, chainVars>>

\* capture_parent and the proposal: the walk back finds a root or, on an
\* error or the pre-proposal deadline, none.  The duty branches start.
CaptureParent ==
    /\ pc = "parent"
    /\ \/ shutdown /\ pc' = "done" /\ UNCHANGED <<slotVars, events, history>>
       \/ /\ ~ shutdown
          /\ pc' = "duties"
          /\ branch' = [b \in Branches |-> "wait"]
          /\ \/ ctx' = [ctx EXCEPT !.parent = "parent"] /\ NoEvent
             \/ ctx' = ctx /\ Event
          /\ UNCHANGED <<cur, last, start, holder, signed>>
    /\ UNCHANGED <<clockVars, windowVars, signalVars, trackerVars, chainVars>>

-----------------------------------------------------------------------------
(* The duty branches that use the slot context.  While the deadlines agree *)
(* sync messages ride on the attestation branch, and contributions take    *)
(* the head as it is.  Aggregates and payload attestations only wait.      *)

Together(b, other) == Deadlines[Fork(cur)][b] = Deadlines[Fork(cur)][other]

Rides(b) == b = "sync" /\ Together("sync", "att")

\* A branch's wait ends: its deadline or, for attestations, the head event of
\* their slot.
Fire(b) ==
    /\ pc = "duties" /\ ~ shutdown
    /\ branch[b] = "wait" /\ ~ Rides(b)
    /\ mono >= Due(b) \/ (b = "att" /\ headSeen)
    /\ branch' = [branch EXCEPT ![b] =
          IF b = "contrib" /\ Together("contrib", "agg") THEN "snap" ELSE "lock"]
    /\ UNCHANGED <<clockVars, pc, cur, last, start, ctx, holder, signed, windowVars,
                   signalVars, events, history, trackerVars, chainVars>>

\* Shutdown ends every branch that waits.
EndWaits ==
    /\ pc = "duties" /\ shutdown
    /\ \E b \in Branches : branch[b] = "wait"
    /\ branch' = [b \in Branches |-> IF branch[b] = "wait" THEN "done" ELSE branch[b]]
    /\ UNCHANGED <<clockVars, pc, cur, last, start, ctx, holder, signed, windowVars,
                   signalVars, events, history, trackerVars, chainVars>>

\* Mutant: every branch captures a head of its own.
NeedsHeadAlways == TRUE

\* capture_head_if_needed queries the node only without a head.
NeedsHead == ctx.head = None

AfterCapture(b) == IF b = "att" /\ ~ Rides("sync") THEN "done" ELSE "snap"

\* The mutex is taken; with a head already captured it is released at once.
LockContext(b) ==
    /\ pc = "duties"
    /\ branch[b] = "lock" /\ holder = None
    /\ IF NeedsHead
       THEN holder' = b /\ branch' = [branch EXCEPT ![b] = "hold"]
       ELSE branch' = [branch EXCEPT ![b] = AfterCapture(b)] /\ UNCHANGED holder
    /\ UNCHANGED <<clockVars, pc, cur, last, start, ctx, signed, windowVars, signalVars,
                   events, history, trackerVars, chainVars>>

\* capture_head: the root of the slot's block or, without one, the parent.
CaptureHead(b) ==
    /\ pc = "duties"
    /\ branch[b] = "hold"
    /\ \E r \in {"block", ctx.parent} : ctx' = [ctx EXCEPT !.head = r]
    /\ holder' = None
    /\ branch' = [branch EXCEPT ![b] = AfterCapture(b)]
    /\ UNCHANGED <<clockVars, pc, cur, last, start, signed, windowVars, signalVars, events,
                   history, trackerVars, chainVars>>

\* snapshot_ctx, then the sync duties of the branch, skipped without cached
\* duties or without a head.
SnapshotAndSign(b) ==
    /\ pc = "duties"
    /\ branch[b] = "snap" /\ holder = None
    /\ signed' = IF Entries("sync", Epoch(cur)) = {} \/ ctx.head = None THEN signed
                 ELSE signed \union {ctx.head}
    /\ branch' = [branch EXCEPT ![b] = "done"]
    /\ UNCHANGED <<clockVars, pc, cur, last, start, ctx, holder, windowVars, signalVars,
                   events, history, trackerVars, chainVars>>

-----------------------------------------------------------------------------
(* The post-duty window.                                                   *)

Item(act, kind, epoch) == [act |-> act, kind |-> kind, epoch |-> epoch]

IndexedKinds(epoch) ==
    IF epoch >= GloasEpoch THEN <<"attester", "proposer", "ptc">>
                           ELSE <<"attester", "proposer">>

\* fetch_epoch_duties.
FetchItems(epoch) ==
    LET kinds == IndexedKinds(epoch) \o <<"sync">>
    IN  <<Item("evict", None, epoch)>>
        \o [i \in DOMAIN kinds |-> Item("fetch", kinds[i], epoch)]
        \o <<Item("prefetch", "sync", epoch)>>

\* check_reorg_at_epoch_boundary.
RecheckItems(epoch) ==
    LET kinds == IndexedKinds(epoch)
    IN  [i \in DOMAIN kinds |-> Item("recheck", kinds[i], epoch)]

AtBoundary == cur % SlotsPerEpoch = 0

PostDutyWork ==
    LET e == Epoch(cur)
    IN  FetchItems(e) \o FetchItems(e + 1)
        \o IF AtBoundary THEN RecheckItems(e) \o RecheckItems(e + 1) ELSE <<>>

PhasesDone ==
    /\ pc = "duties"
    /\ \A b \in Branches : branch[b] = "done" \/ (Rides(b) /\ branch[b] = "wait")
    /\ \/ shutdown
       \/ mono >= Due("agg") /\ (Fork(cur) = "gloas" => mono >= Due("ptc"))

\* The branches are joined.  Shutdown of any of them ends the loop; with no
\* time left before the next slot the work is skipped.
JoinPhases ==
    /\ PhasesDone
    /\ IF shutdown THEN pc' = "done" /\ UNCHANGED <<slotVars, headSeen, windowVars, history>>
       ELSE /\ last' = cur
            /\ ctx' = NoContext /\ signed' = {} /\ headSeen' = FALSE
            /\ IF Wall >= (cur + 1) * SlotTicks
               THEN pc' = "top" /\ Disturbed /\ UNCHANGED windowVars
               ELSE /\ pc' = "post"
                    /\ SleepUntilSlot(cur + 1)
                    /\ work' = PostDutyWork
                    /\ clean' = TRUE
                    /\ UNCHANGED <<assured, job>>
    /\ UNCHANGED <<clockVars, cur, start, holder, branch, keyGen, shutdown, events,
                   trackerVars, chainVars>>

ItemDone == work' = Tail(work) /\ job' = None

\* Steps that ask the node nothing, and fetches a cached entry makes needless.
WorkLocally ==
    LET item == Head(work)
        needless == \/ item.act = "evict"
                    \/ item.act = "fetch" /\ IsCached(item.kind, item.epoch)
                    \/ item.act = "prefetch" /\ ~ PrefetchDue(item.epoch)
    IN  /\ pc = "post" /\ work # <<>> /\ job = None
        /\ needless
        /\ IF item.act = "evict" THEN EvictOldCaches(item.epoch) ELSE UNCHANGED cache
        /\ ItemDone
        /\ UNCHANGED <<clockVars, pc, slotVars, wake, signalVars, events, history,
                       prefetched, chainVars>>

Asked(item) == IF item.act = "prefetch" THEN NextPeriodEpoch(item.epoch) ELSE item.epoch

\* The indices are snapshot and the node answers.
WorkAsk ==
    LET item == Head(work)
    IN  /\ pc = "post" /\ work # <<>> /\ job = None
        /\ \/ item.act = "recheck"
           \/ item.act = "fetch" /\ ~ IsCached(item.kind, item.epoch)
           \/ item.act = "prefetch" /\ PrefetchDue(item.epoch)
        /\ job' = Answer(item.kind, Asked(item))
        /\ UNCHANGED <<clockVars, pc, slotVars, wake, work, signalVars, events, history,
                       trackerVars, chainVars>>

\* The answer is stored, or the request failed or timed out.
WorkStore ==
    LET item == Head(work)
    IN  /\ pc = "post" /\ job # None
        /\ \/ /\ IF item.act = "recheck" THEN Recheck(item.kind, job)
                                         ELSE Insert(item.kind, job)
              /\ prefetched' = IF item.act = "prefetch" THEN prefetched \union {job.key}
                                                        ELSE prefetched
              /\ NoEvent
           \/ Event /\ UNCHANGED trackerVars
        /\ ItemDone
        /\ UNCHANGED <<clockVars, pc, slotVars, wake, signalVars, chainVars>>

\* History only: the window's work is through.  The future stays pending.
WorkThrough ==
    /\ pc = "post" /\ work = <<>> /\ clean
    /\ clean' = FALSE
    /\ assured' = IF keyGen THEN assured
                  ELSE assured \union {"indices"} \union (IF AtBoundary THEN {"root"} ELSE {})
    /\ UNCHANGED <<clockVars, pc, slotVars, windowVars, signalVars, events, trackerVars,
                   chainVars>>

\* The wait for the next slot is over; work still pending is abandoned.
NextSlot ==
    /\ pc \in {"post", "replay"}
    /\ mono >= wake /\ ~ shutdown
    /\ pc' = "top"
    /\ wake' = 0 /\ work' = <<>> /\ job' = None
    /\ IF pc = "post" /\ (work # <<>> \/ clean) THEN Disturbed ELSE UNCHANGED history
    /\ UNCHANGED <<clockVars, slotVars, signalVars, events, trackerVars, chainVars>>

\* Mutant: shutdown is only looked at when the slot is over.
WindowStopsAtSlot == pc \in {"post", "replay"} /\ mono >= wake /\ Stop

\* Shutdown ends the wait and drops the work.
WindowStops == pc \in {"post", "replay"} /\ Stop

-----------------------------------------------------------------------------
(* The environment.  It rests once shutdown is requested: the loop has to  *)
(* end without any further help, from the clock or otherwise.              *)

\* Time passes.  A loop that is late for the next slot costs a fault.
Tick ==
    /\ ~ shutdown
    /\ mono + 1 < (MaxSlot + 1) * SlotTicks
    /\ mono' = mono + 1
    /\ IF /\ (Wall + 1) % SlotTicks = 0
          /\ pc \notin {"post", "replay"} \/ mono >= wake
       THEN Event ELSE NoEvent
    /\ UNCHANGED <<skew, pc, slotVars, windowVars, signalVars, trackerVars, chainVars>>

\* Between the start of a slot and the join of its phases the loop reads
\* neither the wall clock nor what follows: a change then is one at the join.
BetweenPhases == ~ shutdown /\ (pc \in {"top", "replay", "post"} \/ PhasesDone)

\* The wall clock is stepped.
StepClock ==
    /\ BetweenPhases
    /\ skew' \in Skews \ {skew}
    /\ Event
    /\ UNCHANGED <<mono, pc, slotVars, windowVars, signalVars, trackerVars, chainVars>>

\* Keymanager and resolver: the notification and the change of the index set
\* come in either order.
Notify ==
    /\ BetweenPhases
    /\ keyGen' = TRUE
    /\ Event
    /\ UNCHANGED <<clockVars, pc, slotVars, windowVars, headSeen, shutdown,
                   trackerVars, chainVars>>

ChangeIndices ==
    /\ BetweenPhases
    /\ indices' = indices + 1
    /\ Event
    /\ UNCHANGED <<clockVars, pc, slotVars, windowVars, signalVars, trackerVars, root>>

ChangeRoot ==
    /\ BetweenPhases
    /\ root' = root + 1
    /\ Event
    /\ UNCHANGED <<clockVars, pc, slotVars, windowVars, signalVars, trackerVars, indices>>

\* The event stream announces the head of the slot the chain is in.  An event
\* that came earlier is seen when the wait starts; only that wait looks.
PublishHead ==
    /\ pc = "duties" /\ branch["att"] = "wait" /\ ~ shutdown
    /\ headSeen' = (mono \div SlotTicks = cur)
    /\ UNCHANGED <<clockVars, pc, slotVars, windowVars, keyGen, shutdown,
                   events, history, trackerVars, chainVars>>

RequestShutdown ==
    /\ ~ shutdown
    /\ shutdown' = TRUE
    /\ Event
    /\ UNCHANGED <<clockVars, pc, slotVars, windowVars, keyGen, headSeen, trackerVars,
                   chainVars>>

Loop ==
    \/ TopStops \/ SkipReplay \/ BeginSlot \/ ColdFetch \/ CaptureParent
    \/ \E b \in Branches : Fire(b) \/ LockContext(b) \/ CaptureHead(b) \/ SnapshotAndSign(b)
    \/ EndWaits \/ JoinPhases
    \/ WorkLocally \/ WorkAsk \/ WorkStore \/ WorkThrough
    \/ NextSlot \/ WindowStops

Next ==
    \/ Loop
    \/ Tick \/ StepClock
    \/ Notify \/ ChangeIndices \/ ChangeRoot \/ PublishHead \/ RequestShutdown

\* The loop's task is polled whenever it can go on.
Fairness == WF_vars(Loop)

Spec == Init /\ [][Next]_vars /\ Fairness

-----------------------------------------------------------------------------
(* Properties.                                                             *)

\* The loop's state is well formed; each duty cache holds one entry per key
\* and, but for the proposer duties, which the cold fetch stores before the
\* window's eviction, at most four keys; the context's mutex is held by the
\* branch whose query is under way.
SLTypeOK ==
    /\ pc \in {"top", "replay", "cold", "parent", "duties", "post", "done"}
    /\ -1 <= last /\ last <= cur
    /\ ctx \in [parent : {None, "parent"}, head : {None, "parent", "block"}]
    /\ \A b \in Branches : holder = b <=> branch[b] = "hold"
    /\ \A kind \in Kinds :
          /\ kind # "proposer" => Cardinality(cache[kind]) <= 4
          /\ \A e, f \in cache[kind] : e.key = f.key => e = f

\* The loop enters a slot.
EntersSlot == pc # "cold" /\ pc' = "cold"

\* No slot is entered twice and the loop never goes back to an earlier one,
\* however the wall clock is stepped, inside a slot or over several: whenever
\* a slot is entered, it is later than the last slot entered.
SlotsAdvance == [][EntersSlot \/ cur' # cur => cur' > cur]_vars

\* All sync committee messages and contributions of a slot name one head,
\* although the branches race to capture it and the node's answer changes.
OneHeadPerSlot == Cardinality(signed) <= 1

\* After a post-duty window that ran through undisturbed, the attester,
\* proposer and sync duties of the slot are for the current indices; after
\* one at an epoch's first slot, also for the current dependent roots.
DutiesFresh ==
    pc = "duties" /\ assured # {} =>
        /\ \A kind \in {"attester", "proposer", "sync"} :
              \E e \in Entries(kind, Epoch(cur)) :
                  e.indices = Answer(kind, Epoch(cur)).indices
        /\ "root" \in assured =>
              \A kind \in {"attester", "proposer"} :
                  Answer(kind, Epoch(cur)) \in cache[kind]

\* A shutdown request ends the loop, wherever it waits.
ShutdownStops == shutdown ~> pc = "done"
=============================================================================
