--------------------------- MODULE SlotLoopProofs ---------------------------
(***************************************************************************)
(* Proofs about the slot loop, for any slot and epoch length, any duty     *)
(* deadlines and any steps of the wall clock: slots only advance, a slot's *)
(* sync duties name one head, the duty caches stay small, and a window     *)
(* that runs through undisturbed leaves fresh duties for the next slot.    *)
(***************************************************************************)
EXTENDS SlotLoop, FiniteSetTheorems, TLAPS

Pcs == {"top", "replay", "cold", "parent", "duties", "post", "done"}

(* Between slots the last processed slot is the current one, so a slot     *)
(* that does not replay it is a later one.                                 *)
SlotOrder ==
    /\ mono \in Int /\ skew \in Int /\ cur \in Int /\ last \in Int
    /\ pc \in Pcs
    /\ -1 <= last /\ last <= cur
    /\ pc \in {"top", "replay", "post"} => last = cur
    /\ pc \in {"cold", "parent", "duties", "post"} => 0 <= cur

Contexts == [parent : {None, "parent"}, head : {None, "parent", "block"}]

BranchStates == {"wait", "lock", "hold", "snap", "done"}

(* The mutex belongs to the branch whose query is under way, and only      *)
(* during the duty phases.                                                 *)
ContextHeld ==
    /\ ctx \in Contexts
    /\ holder \in Branches \cup {None}
    /\ branch \in [Branches -> BranchStates]
    /\ \A b \in Branches : holder = b <=> branch[b] = "hold"
    /\ pc # "duties" => \A b \in Branches : branch[b] # "hold"

(* What has been signed names the captured head; a query is only under way *)
(* while there is none, so that nothing was signed before its answer.      *)
HeadFixed ==
    /\ holder # None => ctx.head = None
    /\ signed \subseteq {ctx.head} \ {None}

(* Each cache has one entry per key.                                       *)
CacheKeyed ==
    /\ DOMAIN cache = Kinds
    /\ \A kind \in Kinds : \A e \in cache[kind] : e.key \in Int
    /\ \A kind \in Kinds : \A e, f \in cache[kind] : e.key = f.key => e = f

(* The first key that an eviction at an epoch keeps, and the last one that *)
(* the window of that epoch stores.                                        *)
LowKey(kind, epoch) == IF kind = "sync" THEN Period(epoch) - 1 ELSE epoch - 2
HighKey(kind, epoch) == LowKey(kind, epoch) + 3

(* The keys are those of one window, the last that evicted anything; only  *)
(* proposer duties are stored outside of a window.                         *)
CacheBounded ==
    \A kind \in Kinds \ {"proposer"} :
        \E w \in Int : /\ w <= Epoch(cur)
                       /\ \A e \in cache[kind] : e.key \in LowKey(kind, w) .. HighKey(kind, w)

Acts == {"evict", "fetch", "prefetch", "recheck"}

(* The items of a window are for its epoch or the next.                    *)
WindowItems(epoch) ==
    {i \in [act : Acts, kind : Kinds \cup {None}, epoch : {epoch, epoch + 1}] :
        /\ i.act # "evict" => i.kind \in Kinds
        /\ i.act = "prefetch" => i.kind = "sync"}

EvictedAt(epoch) ==
    \A kind \in Kinds : \A e \in cache[kind] : LowKey(kind, epoch) <= e.key

(* A window evicts before it asks.                                         *)
WindowEvicts ==
    /\ pc \notin {"post", "done"} => job = None
    /\ pc = "post" =>
        /\ work \in Seq(WindowItems(Epoch(cur)))
        /\ work = PostDutyWork \/ EvictedAt(Epoch(cur))
        /\ job # None =>
            /\ work # <<>>
            /\ Head(work).kind \in Kinds
            /\ EvictedAt(Epoch(cur))
            /\ job.key \in LowKey(Head(work).kind, Epoch(cur)) .. HighKey(Head(work).kind, Epoch(cur))

SLInv == SlotOrder /\ ContextHeld /\ HeadFixed /\ CacheKeyed /\ CacheBounded /\ WindowEvicts

-----------------------------------------------------------------------------
(* Arithmetic of epochs and periods.                                       *)

(* Integer division by a positive number.                                  *)
LEMMA DivBounds ==
    ASSUME NEW n \in Nat \ {0}, NEW x \in Int
    PROVE  /\ x \div n \in Int
           /\ n * (x \div n) <= x
           /\ x < n * ((x \div n) + 1)
  OBVIOUS

(* Integer division keeps the order.                                       *)
LEMMA DivMonotone ==
    ASSUME NEW n \in Nat \ {0}, NEW x \in Int, NEW y \in Int, x <= y
    PROVE  x \div n <= y \div n
<1> DEFINE p == x \div n
           q == y \div n
<1>1. p \in Int /\ q \in Int /\ n * p <= x /\ y < n * (q + 1)
  BY DivBounds
<1> HIDE DEF p, q
<1>2. n * p < n * (q + 1)
  BY <1>1
<1>3. p < q + 1
  BY <1>1, <1>2
<1>4. p <= q
  BY <1>1, <1>3
<1> QED BY <1>4 DEF p, q

(* Periods rise with the epochs, one at a time.                            *)
LEMMA PeriodFacts ==
    ASSUME NEW e \in Int
    PROVE  /\ Period(e) \in Int
           /\ Period(e) <= Period(e + 1) /\ Period(e + 1) <= Period(e) + 1
           /\ Period(NextPeriodEpoch(e)) = Period(e) + 1
           /\ \A d \in Int : d <= e => Period(d) <= Period(e)
<1>0. EpochsPerPeriod \in Nat \ {0}
  BY PeriodAssumption
<1>1. Period(e) \in Int /\ Period(e + 1) \in Int
  BY <1>0, DivBounds DEF Period
<1>2. Period(e) <= Period(e + 1)
  BY <1>0, DivMonotone DEF Period
<1>3. Period(e + 1) <= Period(e) + 1
  <2> DEFINE n == EpochsPerPeriod
             p == e \div n
             q == (e + 1) \div n
  <2>1. p \in Int /\ q \in Int /\ e < n * (p + 1) /\ n * q <= e + 1
    BY <1>0, DivBounds
  <2>2. n \in Nat \ {0}
    BY <1>0
  <2> HIDE DEF n, p, q
  <2>3. n * q <= n * (p + 1)
    BY <2>1, <2>2
  <2>4. q <= p + 1
    BY <2>1, <2>2, <2>3
  <2> QED BY <2>4 DEF n, p, q, Period
<1>4. Period(NextPeriodEpoch(e)) = Period(e) + 1
  <2> DEFINE n == EpochsPerPeriod
             k == Period(e) + 1
             q == (k * n) \div n
  <2>1. n \in Nat \ {0} /\ k \in Int /\ k * n \in Int
    BY <1>0, <1>1
  <2>2. q \in Int /\ n * q <= k * n /\ k * n < n * (q + 1)
    <3> HIDE DEF n, k
    <3> QED BY <2>1, DivBounds
  <2> HIDE DEF n, k, q
  <2>3. q <= k /\ k < q + 1
    BY <2>1, <2>2
  <2>4. q = k
    BY <2>1, <2>2, <2>3
  <2> QED BY <2>4 DEF n, k, q, Period, NextPeriodEpoch
<1>5. \A d \in Int : d <= e => Period(d) <= Period(e)
  BY <1>0, DivMonotone DEF Period
<1> QED BY <1>1, <1>2, <1>3, <1>4, <1>5

(* Epochs rise with the slots.                                             *)
LEMMA EpochFacts ==
    ASSUME NEW s \in Int
    PROVE  /\ Epoch(s) \in Int
           /\ \A t \in Int : t <= s => Epoch(t) <= Epoch(s)
  BY SlotAssumption, DivBounds, DivMonotone DEF Epoch

(* The keys of a window: later windows start later, and what a window asks *)
(* for lies within its keys.                                               *)
LEMMA KeyFacts ==
    ASSUME NEW e \in Int, NEW kind \in Kinds
    PROVE  /\ LowKey(kind, e) \in Int
           /\ \A w \in Int : w <= e => LowKey(kind, w) <= LowKey(kind, e)
           /\ \A a \in {e, e + 1} : Key(kind, a) \in LowKey(kind, e) .. HighKey(kind, e)
           /\ \A a \in {e, e + 1} :
                 Key("sync", NextPeriodEpoch(a)) \in LowKey("sync", e) .. HighKey("sync", e)
<1>1. /\ Period(e) \in Int /\ Period(e + 1) \in Int
      /\ Period(e) <= Period(e + 1) /\ Period(e + 1) <= Period(e) + 1
      /\ Period(NextPeriodEpoch(e)) = Period(e) + 1
      /\ Period(NextPeriodEpoch(e + 1)) = Period(e + 1) + 1
  BY PeriodFacts
<1>2. \A w \in Int : w <= e => Period(w) \in Int /\ Period(w) <= Period(e)
  BY PeriodFacts
<1>3. LowKey(kind, e) \in Int
  BY <1>1 DEF LowKey
<1>4. \A w \in Int : w <= e => LowKey(kind, w) <= LowKey(kind, e)
  BY <1>1, <1>2 DEF LowKey
<1>5. \A a \in {e, e + 1} : Key(kind, a) \in LowKey(kind, e) .. HighKey(kind, e)
  BY <1>1 DEF LowKey, HighKey, Key
<1>6. \A a \in {e, e + 1} :
         Key("sync", NextPeriodEpoch(a)) \in LowKey("sync", e) .. HighKey("sync", e)
  BY <1>1 DEF LowKey, HighKey, Key
<1> QED BY <1>3, <1>4, <1>5, <1>6

-----------------------------------------------------------------------------
(* Slots advance.                                                          *)

(* No step but the start of a slot moves the loop to another slot.         *)
LEMMA CurSteps == ASSUME [Next]_vars, ~BeginSlot PROVE UNCHANGED cur
  BY DEF Next, Loop, TopStops, Stop, SkipReplay, ColdFetch, CaptureParent, Fire, LockContext,
         CaptureHead, SnapshotAndSign, EndWaits, JoinPhases, WorkLocally, WorkAsk, WorkStore,
         WorkThrough, NextSlot, WindowStops, Tick, StepClock, Notify, ChangeIndices, ChangeRoot,
         PublishHead, RequestShutdown, vars, slotVars

(* Every step keeps the order of slots.                                    *)
LEMMA SlotOrderStep == ASSUME SlotOrder, [Next]_vars PROVE SlotOrder'
<1>1. CASE BeginSlot
  <2>1. Wall \in Int /\ 0 <= Wall /\ last < CurrentSlot
    BY <1>1, SlotAssumption, DivBounds DEF BeginSlot, ReplaysSlot, SlotOrder, Wall, CurrentSlot
  <2>2. CurrentSlot \in Int
    BY <2>1, SlotAssumption, DivBounds DEF CurrentSlot
  <2>3. 0 <= CurrentSlot
    BY <2>1, SlotAssumption DEF CurrentSlot
  <2> QED BY <1>1, <2>1, <2>2, <2>3 DEF BeginSlot, SlotOrder, clockVars, Pcs
<1>2. CASE SkipReplay
  BY <1>2 DEF SkipReplay, SlotOrder, clockVars, slotVars, Pcs
<1>3. CASE JoinPhases
  BY <1>3 DEF JoinPhases, PhasesDone, SlotOrder, clockVars, slotVars, Pcs
<1>4. CASE Tick
  BY <1>4 DEF Tick, SlotOrder, slotVars
<1>5. CASE StepClock
  BY <1>5, SlotAssumption DEF StepClock, SlotOrder, slotVars
<1>6. CASE TopStops \/ WindowStops \/ NextSlot
  BY <1>6 DEF TopStops, WindowStops, Stop, NextSlot, SlotOrder, clockVars, slotVars, Pcs
<1>7. CASE ColdFetch \/ CaptureParent
  BY <1>7 DEF ColdFetch, CaptureParent, SlotOrder, clockVars, slotVars, Pcs
<1>8. CASE \/ \E b \in Branches : Fire(b) \/ LockContext(b) \/ CaptureHead(b) \/ SnapshotAndSign(b)
           \/ EndWaits \/ WorkLocally \/ WorkAsk \/ WorkStore \/ WorkThrough
           \/ Notify \/ ChangeIndices \/ ChangeRoot \/ PublishHead \/ RequestShutdown
           \/ UNCHANGED vars
  <2>1. UNCHANGED <<mono, skew, cur, last, pc>>
    BY <1>8 DEF Fire, LockContext, CaptureHead, SnapshotAndSign, EndWaits, WorkLocally, WorkAsk,
         WorkStore, WorkThrough, Notify, ChangeIndices, ChangeRoot, PublishHead, RequestShutdown,
         vars, clockVars, slotVars
  <2> QED BY <2>1 DEF SlotOrder
<1> QED BY <1>1, <1>2, <1>3, <1>4, <1>5, <1>6, <1>7, <1>8 DEF Next, Loop

(* No step but the start of a slot enters one.                             *)
LEMMA SlotEntry == ASSUME [Next]_vars, EntersSlot PROVE BeginSlot
  BY DEF EntersSlot, Next, Loop, TopStops, Stop, SkipReplay, ColdFetch, CaptureParent, Fire,
         LockContext, CaptureHead, SnapshotAndSign, EndWaits, JoinPhases, WorkLocally, WorkAsk,
         WorkStore, WorkThrough, NextSlot, WindowStops, Tick, StepClock, Notify, ChangeIndices,
         ChangeRoot, PublishHead, RequestShutdown, vars

(* The slot that begins is later than the last one, not the same again:    *)
(* at the loop's top the last slot entered has been recorded as processed. *)
LEMMA CurAdvances ==
    ASSUME SlotOrder, [Next]_vars
    PROVE  EntersSlot \/ cur' # cur => cur' > cur
<1>1. CASE BeginSlot
  BY <1>1, SlotOrderStep DEF BeginSlot, ReplaysSlot, SlotOrder
<1> QED BY <1>1, CurSteps, SlotEntry

-----------------------------------------------------------------------------
(* The slot context.                                                       *)

(* Every step keeps the context with its holder.                           *)
LEMMA ContextStep == ASSUME ContextHeld, [Next]_vars PROVE ContextHeld'
<1>1. CASE CaptureParent
  BY <1>1 DEF CaptureParent, ContextHeld, Contexts, BranchStates, slotVars
<1>2. ASSUME NEW b \in Branches, Fire(b) PROVE ContextHeld'
  BY <1>2 DEF Fire, ContextHeld, BranchStates
<1>3. ASSUME NEW b \in Branches, LockContext(b) PROVE ContextHeld'
  BY <1>3, BranchAssumption DEF LockContext, ContextHeld, BranchStates, AfterCapture
<1>4. ASSUME NEW b \in Branches, CaptureHead(b) PROVE ContextHeld'
  <2>1. ctx' \in Contexts
    BY <1>4 DEF CaptureHead, ContextHeld, Contexts
  <2> QED BY <1>4, <2>1, BranchAssumption DEF CaptureHead, ContextHeld, BranchStates, AfterCapture
<1>5. ASSUME NEW b \in Branches, SnapshotAndSign(b) PROVE ContextHeld'
  BY <1>5 DEF SnapshotAndSign, ContextHeld, BranchStates
<1>6. CASE EndWaits
  BY <1>6 DEF EndWaits, ContextHeld, BranchStates
<1>7. CASE JoinPhases
  <2>1. \A b \in Branches : branch[b] # "hold"
    BY <1>7 DEF JoinPhases, PhasesDone
  <2>2. UNCHANGED <<holder, branch>>
    BY <1>7 DEF JoinPhases
  <2>3. ctx' \in Contexts
    BY <1>7 DEF JoinPhases, ContextHeld, NoContext, Contexts, slotVars
  <2> QED BY <2>1, <2>2, <2>3 DEF ContextHeld
<1>8. CASE \/ TopStops \/ SkipReplay \/ BeginSlot \/ ColdFetch \/ NextSlot \/ WindowStops
  <2>1. UNCHANGED <<ctx, holder, branch>> /\ pc # "duties"
    BY <1>8 DEF TopStops, Stop, SkipReplay, BeginSlot, ColdFetch, NextSlot, WindowStops, slotVars
  <2> QED BY <2>1 DEF ContextHeld
<1>9. CASE \/ WorkLocally \/ WorkAsk \/ WorkStore \/ WorkThrough
           \/ Tick \/ StepClock \/ Notify \/ ChangeIndices \/ ChangeRoot \/ PublishHead
           \/ RequestShutdown \/ UNCHANGED vars
  <2>1. UNCHANGED <<pc, ctx, holder, branch>>
    BY <1>9 DEF WorkLocally, WorkAsk, WorkStore, WorkThrough, Tick, StepClock, Notify,
         ChangeIndices, ChangeRoot, PublishHead, RequestShutdown, vars, slotVars
  <2> QED BY <2>1 DEF ContextHeld
<1> QED BY <1>1, <1>2, <1>3, <1>4, <1>5, <1>6, <1>7, <1>8, <1>9 DEF Next, Loop

(* The head is captured at most once in a slot that signs.                 *)
LEMMA HeadStep == ASSUME ContextHeld, HeadFixed, [Next]_vars PROVE HeadFixed'
<1>1. CASE CaptureParent
  <2>1. ctx'.head = ctx.head /\ UNCHANGED <<holder, signed>>
    BY <1>1 DEF CaptureParent, ContextHeld, Contexts, slotVars
  <2> QED BY <2>1 DEF HeadFixed
<1>2. ASSUME NEW b \in Branches, LockContext(b) PROVE HeadFixed'
  BY <1>2 DEF LockContext, HeadFixed, NeedsHead
<1>3. ASSUME NEW b \in Branches, CaptureHead(b) PROVE HeadFixed'
  <2>1. signed = {}
    BY <1>3, BranchAssumption DEF CaptureHead, ContextHeld, HeadFixed
  <2> QED BY <1>3, <2>1 DEF CaptureHead, HeadFixed
<1>4. ASSUME NEW b \in Branches, SnapshotAndSign(b) PROVE HeadFixed'
  BY <1>4 DEF SnapshotAndSign, HeadFixed
<1>5. CASE JoinPhases
  <2>1. CASE shutdown
    BY <1>5, <2>1 DEF JoinPhases, HeadFixed, slotVars
  <2>2. CASE ~shutdown
    BY <1>5, <2>2 DEF JoinPhases, HeadFixed, NoContext
  <2> QED BY <2>1, <2>2
<1>6. CASE \/ \E b \in Branches : Fire(b)
           \/ EndWaits \/ TopStops \/ SkipReplay \/ BeginSlot \/ ColdFetch \/ NextSlot \/ WindowStops
           \/ WorkLocally \/ WorkAsk \/ WorkStore \/ WorkThrough
           \/ Tick \/ StepClock \/ Notify \/ ChangeIndices \/ ChangeRoot \/ PublishHead
           \/ RequestShutdown \/ UNCHANGED vars
  <2>1. UNCHANGED <<ctx, holder, signed>>
    BY <1>6 DEF Fire, EndWaits, TopStops, Stop, SkipReplay, BeginSlot, ColdFetch, NextSlot,
         WindowStops, WorkLocally, WorkAsk, WorkStore, WorkThrough, Tick, StepClock, Notify,
         ChangeIndices, ChangeRoot, PublishHead, RequestShutdown, vars, slotVars
  <2> QED BY <2>1 DEF HeadFixed
<1> QED BY <1>1, <1>2, <1>3, <1>4, <1>5, <1>6 DEF Next, Loop

-----------------------------------------------------------------------------
(* The duty caches.                                                        *)

(* What a step does to the caches: nothing, clear or thin them out, or     *)
(* store one entry: the proposer duties at the start of a slot, and the    *)
(* answer of an item of the window.                                        *)
LEMMA CacheSteps ==
    ASSUME [Next]_vars
    PROVE  \/ UNCHANGED cache
           \/ BeginSlot /\ ClearCache
           \/ ColdFetch /\ Insert("proposer", Answer("proposer", Epoch(cur)))
           \/ WorkLocally /\ Head(work).act = "evict" /\ EvictOldCaches(Head(work).epoch)
           \/ WorkStore /\ Insert(Head(work).kind, job)
<1>1. CASE BeginSlot
  BY <1>1 DEF BeginSlot
<1>2. CASE ColdFetch
  BY <1>2 DEF ColdFetch
<1>3. CASE WorkLocally
  BY <1>3 DEF WorkLocally
<1>4. CASE WorkStore
  BY <1>4 DEF WorkStore, Recheck, trackerVars
<1>5. CASE \/ \E b \in Branches : Fire(b) \/ LockContext(b) \/ CaptureHead(b) \/ SnapshotAndSign(b)
           \/ EndWaits \/ TopStops \/ SkipReplay \/ CaptureParent \/ JoinPhases
           \/ NextSlot \/ WindowStops \/ WorkAsk \/ WorkThrough
           \/ Tick \/ StepClock \/ Notify \/ ChangeIndices \/ ChangeRoot \/ PublishHead
           \/ RequestShutdown \/ UNCHANGED vars
  <2>1. UNCHANGED cache
    BY <1>5 DEF Fire, LockContext, CaptureHead, SnapshotAndSign, EndWaits, TopStops, Stop,
         SkipReplay, CaptureParent, JoinPhases, NextSlot, WindowStops, WorkAsk, WorkThrough,
         Tick, StepClock, Notify, ChangeIndices, ChangeRoot, PublishHead, RequestShutdown,
         vars, trackerVars
  <2> QED BY <2>1
<1> QED BY <1>1, <1>2, <1>3, <1>4, <1>5 DEF Next, Loop

(* The operations on the caches keep one entry per key.                    *)
LEMMA InsertKeyed ==
    ASSUME CacheKeyed, NEW kind \in Kinds, NEW entry, entry.key \in Int, Insert(kind, entry)
    PROVE  /\ CacheKeyed'
           /\ \A k \in Kinds \ {kind} : cache'[k] = cache[k]
           /\ \A e \in cache'[kind] : e \in cache[kind] \/ e = entry
<1>1. PICK S : S = {e \in cache[kind] : e.key # entry.key} \cup {entry}
  OBVIOUS
<1>2. cache' = [cache EXCEPT ![kind] = S]
  BY <1>1 DEF Insert
<1>3. DOMAIN cache' = Kinds /\ cache'[kind] = S /\ \A k \in Kinds \ {kind} : cache'[k] = cache[k]
  BY <1>2 DEF CacheKeyed
<1>4. \A e \in S : e.key \in Int /\ (e \in cache[kind] \/ e = entry)
  BY <1>1 DEF CacheKeyed
<1>5. \A e, f \in S : e.key = f.key => e = f
  BY <1>1 DEF CacheKeyed
<1> QED BY <1>3, <1>4, <1>5 DEF CacheKeyed

(* Fewer entries: still one per key.                                       *)
LEMMA ThinKeyed ==
    ASSUME CacheKeyed, DOMAIN cache' = Kinds,
           \A kind \in Kinds : cache'[kind] \subseteq cache[kind]
    PROVE  CacheKeyed'
  BY DEF CacheKeyed

(* clear_cache leaves nothing.                                             *)
LEMMA ClearThins == ClearCache => /\ DOMAIN cache' = Kinds
                                  /\ \A kind \in Kinds : cache'[kind] = {}
  BY DEF ClearCache

(* evict_old_caches only removes, all that is below its bound.             *)
LEMMA EvictThins ==
    ASSUME NEW epoch, EvictOldCaches(epoch)
    PROVE  /\ DOMAIN cache' = Kinds
           /\ \A kind \in Kinds : /\ cache'[kind] \subseteq cache[kind]
                                  /\ \A e \in cache'[kind] : e.key >= LowKey(kind, epoch)
  BY DEF EvictOldCaches, LowKey

(* The key of what is stored.                                              *)
LEMMA StoredKeys ==
    ASSUME SlotOrder, WindowEvicts
    PROVE  /\ ColdFetch => Answer("proposer", Epoch(cur)).key \in Int
           /\ WorkStore =>
                LET kind == Head(work).kind IN
                /\ kind \in Kinds /\ EvictedAt(Epoch(cur)) /\ job.key \in Int
                /\ job.key \in LowKey(kind, Epoch(cur)) .. HighKey(kind, Epoch(cur))
<1>1. Epoch(cur) \in Int
  BY EpochFacts DEF SlotOrder
<1>2. Answer("proposer", Epoch(cur)).key \in Int
  BY <1>1 DEF Answer, Key
<1>3. ASSUME WorkStore
      PROVE  /\ Head(work).kind \in Kinds /\ EvictedAt(Epoch(cur)) /\ job.key \in Int
             /\ job.key \in LowKey(Head(work).kind, Epoch(cur)) .. HighKey(Head(work).kind, Epoch(cur))
  <2>1. pc = "post" /\ job # None
    BY <1>3 DEF WorkStore
  <2> QED BY <1>1, <2>1, KeyFacts DEF WindowEvicts, HighKey
<1> QED BY <1>2, <1>3

(* Every step keeps one entry per key.                                     *)
LEMMA KeyedStep == ASSUME SlotOrder, CacheKeyed, WindowEvicts, [Next]_vars PROVE CacheKeyed'
<1>1. CASE UNCHANGED cache
  BY <1>1 DEF CacheKeyed
<1>2. CASE ClearCache
  BY <1>2, ClearThins, ThinKeyed
<1>3. CASE ColdFetch /\ Insert("proposer", Answer("proposer", Epoch(cur)))
  <2>1. PICK entry : entry = Answer("proposer", Epoch(cur))
    OBVIOUS
  <2> QED BY <1>3, <2>1, StoredKeys, InsertKeyed DEF Kinds
<1>4. CASE EvictOldCaches(Head(work).epoch)
  BY <1>4, EvictThins, ThinKeyed
<1>5. CASE WorkStore /\ Insert(Head(work).kind, job)
  <2>1. PICK kind : kind = Head(work).kind
    OBVIOUS
  <2>2. PICK entry : entry = job
    OBVIOUS
  <2> QED BY <1>5, <2>1, <2>2, StoredKeys, InsertKeyed
<1> QED BY <1>1, <1>2, <1>3, <1>4, <1>5, CacheSteps

(* The keys of the caches stay those of one window.                        *)
LEMMA BoundedStep ==
    ASSUME SlotOrder, CacheKeyed, CacheBounded, WindowEvicts, [Next]_vars
    PROVE  CacheBounded'
<1>0. Epoch(cur) \in Int /\ Epoch(cur)' \in Int /\ Epoch(cur) <= Epoch(cur)'
  <2>1. cur \in Int /\ cur' \in Int /\ cur <= cur'
    BY SlotOrderStep, CurAdvances DEF SlotOrder
  <2> QED BY <2>1, EpochFacts DEF Epoch
<1>1. SUFFICES ASSUME NEW kind \in Kinds \ {"proposer"}
               PROVE  \E w \in Int :
                        /\ w <= Epoch(cur)'
                        /\ \A e \in cache'[kind] : e.key \in LowKey(kind, w) .. HighKey(kind, w)
  BY DEF CacheBounded, LowKey, HighKey, Period
<1>2. PICK w \in Int : /\ w <= Epoch(cur)
                       /\ \A e \in cache[kind] : e.key \in LowKey(kind, w) .. HighKey(kind, w)
  BY DEF CacheBounded
<1>3. CASE cache'[kind] \subseteq cache[kind]
  BY <1>0, <1>2, <1>3
<1>4. CASE WorkStore /\ Insert(Head(work).kind, job) /\ kind = Head(work).kind
  <2>1. /\ EvictedAt(Epoch(cur)) /\ job.key \in Int
        /\ job.key \in LowKey(kind, Epoch(cur)) .. HighKey(kind, Epoch(cur))
    BY <1>4, StoredKeys
  <2>2. \A e \in cache'[kind] : e \in cache[kind] \/ e = job
    <3>1. PICK entry : entry = job
      OBVIOUS
    <3> QED BY <1>4, <2>1, <3>1, InsertKeyed
  <2>3. LowKey(kind, w) <= LowKey(kind, Epoch(cur)) /\ LowKey(kind, w) \in Int
        /\ LowKey(kind, Epoch(cur)) \in Int
    BY <1>0, <1>2, KeyFacts
  <2>4. \A e \in cache[kind] : e.key \in LowKey(kind, Epoch(cur)) .. HighKey(kind, Epoch(cur))
    <3>1. \A e \in cache[kind] : LowKey(kind, Epoch(cur)) <= e.key
      BY <2>1 DEF EvictedAt
    <3> QED BY <1>2, <2>3, <3>1 DEF HighKey
  <2>5. \A e \in cache'[kind] : e.key \in LowKey(kind, Epoch(cur)) .. HighKey(kind, Epoch(cur))
    BY <2>1, <2>2, <2>4
  <2> QED BY <1>0, <2>5
<1>5. CASE WorkStore /\ Insert(Head(work).kind, job) /\ kind # Head(work).kind
  <2>1. PICK k, entry : k = Head(work).kind /\ entry = job
    OBVIOUS
  <2>2. cache'[kind] = cache[kind]
    BY <1>5, <2>1, StoredKeys, InsertKeyed
  <2> QED BY <1>3, <2>2
<1>6. CASE ColdFetch /\ Insert("proposer", Answer("proposer", Epoch(cur)))
  <2>1. PICK entry : entry = Answer("proposer", Epoch(cur))
    OBVIOUS
  <2>2. cache'[kind] = cache[kind]
    BY <1>6, <2>1, StoredKeys, InsertKeyed DEF Kinds
  <2> QED BY <1>3, <2>2
<1>7. CASE UNCHANGED cache \/ ClearCache \/ EvictOldCaches(Head(work).epoch)
  <2>1. cache'[kind] \subseteq cache[kind]
    BY <1>7, ClearThins, EvictThins
  <2> QED BY <1>3, <2>1
<1> QED BY <1>4, <1>5, <1>6, <1>7, CacheSteps

-----------------------------------------------------------------------------
(* The post-duty window.                                                   *)

(* Concatenation.                                                          *)
LEMMA Concat ==
    ASSUME NEW S, NEW s \in Seq(S), NEW t \in Seq(S)
    PROVE  /\ s \o t \in Seq(S) /\ Len(s \o t) = Len(s) + Len(t)
           /\ Len(s) > 0 => (s \o t)[1] = s[1]
  OBVIOUS

(* The items of a window, the first of which is an eviction.               *)
LEMMA FetchItemsTyped ==
    ASSUME NEW e \in Int, NEW a \in {e, e + 1}
    PROVE  /\ FetchItems(a) \in Seq(WindowItems(e)) /\ RecheckItems(a) \in Seq(WindowItems(e))
           /\ Len(FetchItems(a)) > 0 /\ FetchItems(a)[1] = Item("evict", None, a)
<1>0. "attester" \in Kinds /\ "proposer" \in Kinds /\ "ptc" \in Kinds /\ "sync" \in Kinds
  BY DEF Kinds
<1>1. IndexedKinds(a) \in Seq(Kinds)
  <2>1. <<"attester", "proposer", "ptc">> \in Seq(Kinds) /\ <<"attester", "proposer">> \in Seq(Kinds)
    BY <1>0
  <2> QED BY <2>1 DEF IndexedKinds
<1>2. \A act \in Acts \ {"evict", "prefetch"}, kind \in Kinds : Item(act, kind, a) \in WindowItems(e)
  BY DEF Item, WindowItems, Acts
<1>3. Item("evict", None, a) \in WindowItems(e) /\ Item("prefetch", "sync", a) \in WindowItems(e)
  BY DEF Item, WindowItems, Acts, Kinds
<1>4. ASSUME NEW act \in {"fetch", "recheck"}, NEW kinds \in Seq(Kinds)
      PROVE  [i \in DOMAIN kinds |-> Item(act, kinds[i], a)] \in Seq(WindowItems(e))
  BY <1>2, <1>4 DEF Acts
<1>5. RecheckItems(a) \in Seq(WindowItems(e))
  BY <1>1, <1>4 DEF RecheckItems
<1>6. PICK kinds \in Seq(Kinds) : kinds = IndexedKinds(a) \o <<"sync">>
  <2>1. <<"sync">> \in Seq(Kinds)
    BY <1>0
  <2>2. IndexedKinds(a) \o <<"sync">> \in Seq(Kinds)
    BY <1>1, <2>1, Concat
  <2> QED BY <2>2
<1>7. PICK fetches \in Seq(WindowItems(e)) :
          fetches = [i \in DOMAIN kinds |-> Item("fetch", kinds[i], a)]
  <2>1. [i \in DOMAIN kinds |-> Item("fetch", kinds[i], a)] \in Seq(WindowItems(e))
    BY <1>4
  <2> QED BY <2>1
<1>8. FetchItems(a) = <<Item("evict", None, a)>> \o fetches \o <<Item("prefetch", "sync", a)>>
  BY <1>6, <1>7 DEF FetchItems
<1>9. PICK x, y \in WindowItems(e) : x = Item("evict", None, a) /\ y = Item("prefetch", "sync", a)
  BY <1>3
<1>10. <<x>> \o fetches \o <<y>> \in Seq(WindowItems(e)) /\ Len(<<x>> \o fetches \o <<y>>) > 0
       /\ (<<x>> \o fetches \o <<y>>)[1] = x
  <2>1. PICK S : S = WindowItems(e)
    OBVIOUS
  <2>2. <<x>> \in Seq(S) /\ <<y>> \in Seq(S) /\ fetches \in Seq(S)
    BY <1>7, <1>9, <2>1
  <2>3. PICK u \in Seq(S) : u = <<x>> \o fetches
    BY <2>2, Concat
  <2>4. Len(u) = 1 + Len(fetches) /\ u[1] = x /\ Len(fetches) \in Nat
    BY <2>2, <2>3
  <2>5. u \o <<y>> \in Seq(S) /\ Len(u \o <<y>>) = Len(u) + 1 /\ (u \o <<y>>)[1] = u[1]
    BY <2>2, <2>3, <2>4
  <2> QED BY <2>1, <2>3, <2>4, <2>5
<1> QED BY <1>5, <1>8, <1>9, <1>10

(* A window starts with an eviction.                                       *)
LEMMA PostDutyWorkTyped ==
    ASSUME cur \in Int
    PROVE  /\ PostDutyWork \in Seq(WindowItems(Epoch(cur)))
           /\ Head(PostDutyWork) = Item("evict", None, Epoch(cur))
           /\ PostDutyWork # <<>>
<1>0. PICK e \in Int : e = Epoch(cur)
  BY EpochFacts
<1>1. PICK f, g, r, s \in Seq(WindowItems(e)) :
          f = FetchItems(e) /\ g = FetchItems(e + 1) /\ r = RecheckItems(e) /\ s = RecheckItems(e + 1)
  BY FetchItemsTyped
<1>2. Len(f) > 0 /\ f[1] = Item("evict", None, e)
  BY <1>1, FetchItemsTyped
<1>3. PICK t \in Seq(WindowItems(e)) : t = (IF AtBoundary THEN r \o s ELSE <<>>)
  <2>1. r \o s \in Seq(WindowItems(e)) /\ <<>> \in Seq(WindowItems(e))
    OBVIOUS
  <2> QED BY <2>1
<1>4. PostDutyWork = f \o g \o t
  BY <1>0, <1>1, <1>3 DEF PostDutyWork
<1>5. f \o g \o t \in Seq(WindowItems(e)) /\ Len(f \o g \o t) > 0 /\ (f \o g \o t)[1] = f[1]
  BY <1>2
<1>6. Head(f \o g \o t) = f[1] /\ f \o g \o t # <<>>
  BY <1>5
<1> QED BY <1>0, <1>2, <1>4, <1>5, <1>6

(* A window evicts before it asks, step by step.                           *)
LEMMA WindowStep ==
    ASSUME SlotOrder, CacheKeyed, WindowEvicts, [Next]_vars
    PROVE  WindowEvicts'
<1>0. cur \in Int /\ Epoch(cur) \in Int
  BY EpochFacts DEF SlotOrder
<1>1. ASSUME UNCHANGED cur
      PROVE  /\ Epoch(cur)' = Epoch(cur) /\ PostDutyWork' = PostDutyWork
             /\ WindowItems(Epoch(cur))' = WindowItems(Epoch(cur))
  BY <1>1 DEF Epoch, PostDutyWork, AtBoundary
<1>2. ASSUME UNCHANGED cur, pc' = "post", EvictedAt(Epoch(cur)),
             \A kind \in Kinds : \A e \in cache'[kind] :
                 e \in cache[kind] \/ LowKey(kind, Epoch(cur)) <= e.key
      PROVE  EvictedAt(Epoch(cur))'
  BY <1>1, <1>2 DEF EvictedAt, LowKey, Period
<1>3. CASE JoinPhases
  <2>1. pc = "duties" /\ job = None /\ UNCHANGED <<cur, job>>
    BY <1>3 DEF JoinPhases, PhasesDone, WindowEvicts, slotVars, windowVars
  <2>2. CASE pc' = "post"
    <3>1. work' = PostDutyWork
      BY <1>3, <2>2 DEF JoinPhases
    <3>2. work' = PostDutyWork' /\ work' \in Seq(WindowItems(Epoch(cur))')
      BY <1>0, <1>1, <2>1, <3>1, PostDutyWorkTyped
    <3> QED BY <2>1, <2>2, <3>2 DEF WindowEvicts
  <2>3. CASE pc' # "post"
    BY <2>1, <2>3 DEF WindowEvicts
  <2> QED BY <2>2, <2>3
<1>4. CASE WorkLocally
  <2>1. /\ pc = "post" /\ work # <<>> /\ job = None /\ UNCHANGED <<pc, cur>>
        /\ work' = Tail(work) /\ job' = None
    BY <1>4 DEF WorkLocally, ItemDone, slotVars
  <2>2. work \in Seq(WindowItems(Epoch(cur)))
    BY <2>1 DEF WindowEvicts
  <2>3. work' \in Seq(WindowItems(Epoch(cur))')
    <3>1. PICK S : S = WindowItems(Epoch(cur))
      OBVIOUS
    <3>2. Tail(work) \in Seq(S)
      BY <2>1, <2>2, <3>1
    <3> QED BY <1>1, <2>1, <3>1, <3>2
  <2>4. EvictedAt(Epoch(cur))'
    <3>1. CASE work = PostDutyWork
      <4>1. EvictOldCaches(Epoch(cur))
        BY <1>0, <1>4, <3>1, PostDutyWorkTyped DEF WorkLocally, Item
      <4>2. \A kind \in Kinds : \A e \in cache'[kind] : e.key >= LowKey(kind, Epoch(cur))
        BY <4>1, EvictThins
      <4>3. \A kind \in Kinds : \A e \in cache'[kind] : e.key \in Int
        BY <4>1, EvictThins DEF CacheKeyed
      <4>4. \A kind \in Kinds : LowKey(kind, Epoch(cur)) \in Int
        BY <1>0, KeyFacts
      <4>5. \A kind \in Kinds : \A e \in cache'[kind] : LowKey(kind, Epoch(cur)) <= e.key
        BY <4>2, <4>3, <4>4
      <4> QED BY <1>1, <2>1, <4>5 DEF EvictedAt, LowKey, Period
    <3>2. CASE EvictedAt(Epoch(cur))
      <4>1. \A kind \in Kinds : cache'[kind] \subseteq cache[kind]
        BY <1>4, EvictThins DEF WorkLocally
      <4> QED BY <1>2, <2>1, <3>2, <4>1
    <3> QED BY <2>1, <3>1, <3>2 DEF WindowEvicts
  <2> QED BY <2>1, <2>3, <2>4 DEF WindowEvicts
<1>5. CASE WorkAsk
  <2>1. /\ pc = "post" /\ work # <<>> /\ UNCHANGED <<pc, cur, work, cache>>
        /\ Head(work).act \in {"recheck", "fetch", "prefetch"}
        /\ job' = Answer(Head(work).kind, Asked(Head(work)))
    BY <1>5 DEF WorkAsk, slotVars, trackerVars
  <2>2. work \in Seq(WindowItems(Epoch(cur))) /\ Head(work) \in WindowItems(Epoch(cur))
    <3>1. PICK S : S = WindowItems(Epoch(cur))
      OBVIOUS
    <3>2. work \in Seq(S)
      BY <2>1, <3>1 DEF WindowEvicts
    <3>3. Head(work) \in S
      BY <2>1, <3>2
    <3> QED BY <3>1, <3>2, <3>3
  <2>3. PICK item : item = Head(work)
    OBVIOUS
  <2>4. /\ item.kind \in Kinds /\ item.epoch \in {Epoch(cur), Epoch(cur) + 1}
        /\ item.act = "prefetch" => item.kind = "sync"
    BY <2>1, <2>2, <2>3 DEF WindowItems
  <2>5. work # PostDutyWork
    BY <1>0, <2>1, PostDutyWorkTyped DEF Item
  <2>6. EvictedAt(Epoch(cur))
    BY <2>1, <2>5 DEF WindowEvicts
  <2>7. EvictedAt(Epoch(cur))'
    BY <1>2, <2>1, <2>6
  <2>8. job'.key = Key(item.kind, Asked(item))
    BY <2>1, <2>3 DEF Answer
  <2>9. Key(item.kind, Asked(item)) \in LowKey(item.kind, Epoch(cur)) .. HighKey(item.kind, Epoch(cur))
    <3>1. CASE item.act = "prefetch"
      BY <1>0, <2>4, <3>1, KeyFacts DEF Asked
    <3>2. CASE item.act # "prefetch"
      BY <1>0, <2>4, <3>2, KeyFacts DEF Asked
    <3> QED BY <3>1, <3>2
  <2>10. job'.key \in LowKey(Head(work').kind, Epoch(cur)') .. HighKey(Head(work').kind, Epoch(cur)')
    BY <1>1, <2>1, <2>3, <2>8, <2>9
  <2>11. work' \in Seq(WindowItems(Epoch(cur))') /\ work' # <<>> /\ Head(work').kind \in Kinds
    BY <1>1, <2>1, <2>2, <2>3, <2>4
  <2>12. pc' = "post"
    BY <2>1
  <2> QED BY <2>7, <2>10, <2>11, <2>12 DEF WindowEvicts, LowKey, HighKey, Period
<1>6. CASE WorkStore
  <2>1. /\ pc = "post" /\ job # None /\ UNCHANGED <<pc, cur>>
        /\ work' = Tail(work) /\ job' = None
    BY <1>6 DEF WorkStore, ItemDone, slotVars
  <2>2. work \in Seq(WindowItems(Epoch(cur))) /\ work # <<>> /\ EvictedAt(Epoch(cur))
    BY <2>1 DEF WindowEvicts
  <2>3. work' \in Seq(WindowItems(Epoch(cur))')
    <3>1. PICK S : S = WindowItems(Epoch(cur))
      OBVIOUS
    <3>2. Tail(work) \in Seq(S)
      BY <2>2, <3>1
    <3> QED BY <1>1, <2>1, <3>1, <3>2
  <2>4. EvictedAt(Epoch(cur))'
    <3>1. PICK kind, entry : kind = Head(work).kind /\ entry = job
      OBVIOUS
    <3>2. /\ kind \in Kinds /\ entry.key \in Int
          /\ entry.key \in LowKey(kind, Epoch(cur)) .. HighKey(kind, Epoch(cur))
      BY <1>6, <3>1, StoredKeys
    <3>3. CASE UNCHANGED cache
      BY <1>2, <2>1, <2>2, <3>3
    <3>4. CASE Insert(kind, entry)
      <4>1. /\ \A k \in Kinds \ {kind} : cache'[k] = cache[k]
            /\ \A e \in cache'[kind] : e \in cache[kind] \/ e = entry
        BY <3>2, <3>4, InsertKeyed
      <4>2. LowKey(kind, Epoch(cur)) <= entry.key
        BY <1>0, <3>2, KeyFacts
      <4>3. \A k \in Kinds : \A e \in cache'[k] : e \in cache[k] \/ LowKey(k, Epoch(cur)) <= e.key
        BY <4>1, <4>2
      <4> QED BY <1>2, <2>1, <2>2, <4>3
    <3> QED BY <1>6, <3>1, <3>3, <3>4 DEF WorkStore, Recheck, trackerVars
  <2> QED BY <2>1, <2>3, <2>4 DEF WindowEvicts
<1>7. CASE TopStops \/ WindowStops \/ (CaptureParent /\ pc' = "done")
  <2>1. pc' = "done"
    BY <1>7 DEF TopStops, WindowStops, Stop
  <2> QED BY <2>1 DEF WindowEvicts
<1>8. CASE NextSlot
  BY <1>8 DEF NextSlot, WindowEvicts
<1>9. CASE \/ SkipReplay \/ BeginSlot \/ ColdFetch \/ (CaptureParent /\ pc' # "done")
           \/ \E b \in Branches : Fire(b) \/ LockContext(b) \/ CaptureHead(b) \/ SnapshotAndSign(b)
           \/ EndWaits
  <2>1. pc \notin {"post", "done"} /\ pc' \notin {"post", "done"} /\ UNCHANGED job
    BY <1>9 DEF SkipReplay, BeginSlot, ColdFetch, CaptureParent, Fire, LockContext, CaptureHead,
         SnapshotAndSign, EndWaits, windowVars
  <2> QED BY <2>1 DEF WindowEvicts
<1>10. CASE \/ WorkThrough \/ Tick \/ StepClock \/ Notify \/ ChangeIndices \/ ChangeRoot \/ PublishHead
            \/ RequestShutdown \/ UNCHANGED vars
  <2>1. UNCHANGED <<pc, cur, work, job, cache>>
    BY <1>10 DEF WorkThrough, Tick, StepClock, Notify, ChangeIndices, ChangeRoot, PublishHead,
         RequestShutdown, vars, slotVars, windowVars, trackerVars
  <2>2. EvictedAt(Epoch(cur))' = EvictedAt(Epoch(cur))
    BY <1>1, <2>1 DEF EvictedAt, LowKey, Period
  <2> QED BY <1>1, <2>1, <2>2 DEF WindowEvicts, LowKey, HighKey, Period
<1> QED BY <1>3, <1>4, <1>5, <1>6, <1>7, <1>8, <1>9, <1>10 DEF Next, Loop

-----------------------------------------------------------------------------
(* The invariant holds at the start.                                       *)
LEMMA SLInvInit == Init => SLInv
<1> SUFFICES ASSUME Init PROVE SLInv
  OBVIOUS
<1>1. SlotOrder
  BY DEF Init, SlotOrder, Pcs
<1>2. ContextHeld
  BY BranchAssumption DEF Init, ContextHeld, Contexts, NoContext, BranchStates
<1>3. HeadFixed
  BY DEF Init, HeadFixed
<1>4. CacheKeyed
  BY DEF Init, CacheKeyed
<1>5. CacheBounded
  <2>1. Epoch(cur) \in Int /\ Epoch(cur) <= Epoch(cur)
    BY EpochFacts DEF Init
  <2>2. \A kind \in Kinds : cache[kind] = {}
    BY DEF Init
  <2> QED BY <2>1, <2>2 DEF CacheBounded
<1>6. WindowEvicts
  BY DEF Init, WindowEvicts
<1> QED BY <1>1, <1>2, <1>3, <1>4, <1>5, <1>6 DEF SLInv

(* Every step keeps the invariant.                                         *)
LEMMA SLInvStep == SLInv /\ [Next]_vars => SLInv'
<1> SUFFICES ASSUME SLInv, [Next]_vars PROVE SLInv'
  OBVIOUS
<1>1. SlotOrder /\ ContextHeld /\ HeadFixed /\ CacheKeyed /\ CacheBounded /\ WindowEvicts
  BY DEF SLInv
<1>2. SlotOrder' /\ ContextHeld' /\ HeadFixed'
  BY <1>1, SlotOrderStep, ContextStep, HeadStep
<1>3. CacheKeyed' /\ CacheBounded' /\ WindowEvicts'
  BY <1>1, KeyedStep, BoundedStep, WindowStep
<1> QED BY <1>2, <1>3 DEF SLInv

(* The inductive invariant holds of every behaviour of the loop.           *)
THEOREM SLInvariant == Spec => []SLInv
  BY SLInvInit, SLInvStep, PTL DEF Spec

(* A cache with one entry per key and four keys has four entries.          *)
LEMMA FewEntries ==
    ASSUME NEW S, NEW low \in Int,
           \A e \in S : e.key \in low .. (low + 3),
           \A e, f \in S : e.key = f.key => e = f
    PROVE  Cardinality(S) <= 4
<1>1. PICK f : f = [e \in S |-> e.key]
  OBVIOUS
<1>2. f \in Injection(S, low .. (low + 3))
  BY <1>1 DEF Injection, IsInjective
<1>3. IsFiniteSet(low .. (low + 3)) /\ Cardinality(low .. (low + 3)) = 4
  BY FS_Interval
<1> QED BY <1>2, <1>3, FS_Injection

(* The state is well formed; every cache that only windows fill holds at   *)
(* most four epochs or periods, for any schedule and however often a       *)
(* window is cut short: fetch_epoch_duties evicts before it fetches.       *)
THEOREM SLTypeCorrect == Spec => []SLTypeOK
<1>1. SLInv => SLTypeOK
  <2> SUFFICES ASSUME SLInv PROVE SLTypeOK
    OBVIOUS
  <2>1. SlotOrder /\ ContextHeld /\ CacheKeyed /\ CacheBounded
    BY DEF SLInv
  <2>2. ASSUME NEW kind \in Kinds, kind # "proposer" PROVE Cardinality(cache[kind]) <= 4
    <3>1. PICK w \in Int : \A e \in cache[kind] : e.key \in LowKey(kind, w) .. HighKey(kind, w)
      BY <2>1, <2>2 DEF CacheBounded
    <3>2. PICK low \in Int : low = LowKey(kind, w)
      BY KeyFacts
    <3>3. \A e \in cache[kind] : e.key \in low .. (low + 3)
      BY <3>1, <3>2 DEF HighKey
    <3>4. \A e, f \in cache[kind] : e.key = f.key => e = f
      BY <2>1 DEF CacheKeyed
    <3> QED BY <3>3, <3>4, FewEntries
  <2> QED BY <2>1, <2>2 DEF SlotOrder, Pcs, ContextHeld, Contexts, CacheKeyed, SLTypeOK
<1> QED BY <1>1, SLInvariant, PTL

(* No slot is entered twice and the loop never goes back, whatever the     *)
(* wall clock is stepped to: each slot entered is later than all before    *)
(* it, by the comparison with last_processed_slot at the loop's top.       *)
THEOREM SlotsOnlyAdvance == Spec => SlotsAdvance
<1>1. SLInv /\ [Next]_vars => [EntersSlot \/ cur' # cur => cur' > cur]_vars
  BY CurAdvances DEF SLInv
<1> QED BY <1>1, SLInvariant, PTL DEF Spec, SlotsAdvance

(* All sync messages and contributions of a slot name one head: the mutex  *)
(* of the slot context is held across the query of capture_head_if_needed. *)
THEOREM OneHead == Spec => []OneHeadPerSlot
<1>1. SLInv => OneHeadPerSlot
  <2> SUFFICES ASSUME SLInv PROVE Cardinality(signed) <= 1
    BY DEF OneHeadPerSlot
  <2>1. signed = {} \/ signed = {ctx.head}
    BY DEF SLInv, HeadFixed
  <2>2. Cardinality({}) = 0
    BY FS_EmptySet
  <2>3. Cardinality({ctx.head}) = 1
    BY FS_Singleton, Zenon
  <2>4. CASE signed = {}
    BY <2>2, <2>4
  <2>5. CASE signed = {ctx.head}
    BY <2>3, <2>5
  <2> QED BY <2>1, <2>4, <2>5
<1> QED BY <1>1, SLInvariant, PTL

-----------------------------------------------------------------------------
(* Fresh duties.                                                           *)

(* The entries of an epoch are for the indices of now, or also for the     *)
(* dependent roots of now.                                                 *)
EntriesCurrent(epoch) == \A kind \in {"attester", "proposer", "sync"} : IsCached(kind, epoch)

RootsCurrent(epoch) ==
    \A kind \in {"attester", "proposer"} : Answer(kind, epoch) \in cache[kind]

Assures(epoch) == EntriesCurrent(epoch) /\ ("root" \in assured => RootsCurrent(epoch))

(* Nothing disturbed what a window established or is about to.             *)
Quiet == assured # {} \/ clean

(* An undisturbed window ends with its slot and the slot after it begins   *)
(* in time: wall clock and anchors agree, so the loop skips no slot.       *)
OnTime ==
    /\ wake \in Int /\ clean \in BOOLEAN /\ keyGen \in BOOLEAN
    /\ pc = "post" /\ Quiet => /\ wake + skew = (cur + 1) * SlotTicks
                               /\ Wall < (cur + 2) * SlotTicks
    /\ pc = "top" /\ assured # {} => /\ (cur + 1) * SlotTicks <= Wall
                                     /\ Wall < (cur + 2) * SlotTicks
    /\ pc = "replay" => assured = {}
    /\ pc \notin {"post", "done"} => ~clean
    /\ keyGen => assured = {}

(* What the last full window established: during the next slot for its     *)
(* epoch and, unless that is a new one, for the roots of the epoch after;  *)
(* between the end of a window's work and the next slot for both epochs    *)
(* the slot can be in.                                                     *)
EpochsAssured ==
    /\ pc \in {"cold", "parent", "duties", "post"} /\ assured # {} =>
          /\ Assures(Epoch(cur))
          /\ "root" \in assured /\ ~AtBoundary => RootsCurrent(Epoch(cur) + 1)
    /\ (pc = "top" \/ (pc = "post" /\ ~clean)) /\ assured # {} =>
          Assures(Epoch(cur)) /\ Assures(Epoch(cur) + 1)

(* The items a window must not miss, and what they are for.                *)
Fetches(epoch) ==
    {Item("fetch", kind, a) : kind \in {"attester", "proposer", "sync"}, a \in {epoch, epoch + 1}}

Rechecks(epoch) ==
    {Item("recheck", kind, a) : kind \in {"attester", "proposer"}, a \in {epoch, epoch + 1}}

Needed == Fetches(Epoch(cur)) \cup (IF AtBoundary THEN Rechecks(Epoch(cur)) ELSE {})

Occurs(item, items) == \E i \in 1 .. Len(items) : items[i] = item

Achieved(item) ==
    /\ item.act = "fetch" => IsCached(item.kind, item.epoch)
    /\ item.act = "recheck" => Answer(item.kind, item.epoch) \in cache[item.kind]

(* An undisturbed window stores answers of now, and what it need no longer *)
(* do is achieved.                                                         *)
WindowAchieves ==
    /\ pc = "post" /\ Quiet /\ job # None => job = Answer(Head(work).kind, Asked(Head(work)))
    /\ pc = "post" /\ clean => \A item \in Needed : Occurs(item, work) \/ Achieved(item)

FreshInv == OnTime /\ EpochsAssured /\ WindowAchieves

(* A multiple leaves no remainder, and a number between two neighbouring   *)
(* multiples has the first as its quotient.                                *)
LEMMA Multiples ==
    ASSUME NEW n \in Nat \ {0}, NEW k \in Int
    PROVE  /\ k * n \in Int /\ (k * n) % n = 0
           /\ \A x \in Int : k * n <= x /\ x < (k + 1) * n => x \div n = k
<1>1. k * n \in Int
  OBVIOUS
<1>2. ASSUME NEW x \in Int, k * n <= x, x < (k + 1) * n PROVE x \div n = k
  <2>1. PICK q \in Int : q = x \div n /\ n * q <= x /\ x < n * (q + 1)
    BY DivBounds
  <2>2. n * q < n * (k + 1) /\ n * k < n * (q + 1)
    BY <1>2, <2>1
  <2>3. q < k + 1 /\ k < q + 1
    BY <2>1, <2>2
  <2> QED BY <2>1, <2>3
<1>3. (k * n) % n = 0
  <2>1. k * n <= k * n /\ k * n < (k + 1) * n
    OBVIOUS
  <2>2. (k * n) \div n = k
    BY <1>1, <1>2, <2>1
  <2>3. PICK x \in Int : x = k * n
    BY <1>1
  <2>4. x = n * (x \div n) + (x % n)
    OBVIOUS
  <2> QED BY <1>1, <2>2, <2>3, <2>4
<1> QED BY <1>1, <1>2, <1>3

(* The next slot is in this epoch or, as its first slot, in the next.      *)
LEMMA NextSlotEpoch ==
    ASSUME NEW s \in Int
    PROVE  /\ Epoch(s + 1) \in {Epoch(s), Epoch(s) + 1}
           /\ (s + 1) % SlotsPerEpoch # 0 => Epoch(s + 1) = Epoch(s)
<1> DEFINE n == SlotsPerEpoch
           p == s \div n
           q == (s + 1) \div n
<1>1. n \in Nat \ {0}
  BY SlotAssumption
<1>2. p \in Int /\ q \in Int /\ n * p <= s /\ s < n * (p + 1) /\ n * q <= s + 1 /\ s + 1 < n * (q + 1)
  BY <1>1, DivBounds
<1>3. s + 1 = n * q + ((s + 1) % n)
  BY <1>1
<1>4. p \in Int /\ Epoch(s) = p /\ Epoch(s + 1) = q
  BY <1>2 DEF Epoch
<1>5. (s + 1) % n \in Int
  BY <1>1
<1> HIDE DEF n, p, q
<1>6. n * q < n * (p + 2) /\ n * p < n * (q + 1)
  BY <1>1, <1>2
<1>7. q < p + 2 /\ p < q + 1
  BY <1>1, <1>2, <1>6
<1>8. q \in {p, p + 1}
  BY <1>2, <1>7
<1>9. ASSUME (s + 1) % n # 0 PROVE q = p
  <2>1. SUFFICES ASSUME q = p + 1 PROVE FALSE
    BY <1>8
  <2>2. n * q <= s + 1 /\ s + 1 <= n * q
    BY <1>1, <1>2, <2>1
  <2>3. s + 1 = n * q
    BY <1>1, <1>2, <2>2
  <2> QED BY <1>1, <1>2, <1>3, <1>5, <1>9, <2>3
<1> QED BY <1>4, <1>8, <1>9 DEF n

(* The undisturbed window is in time, step by step.                        *)
LEMMA OnTimeStep == ASSUME SlotOrder, OnTime, [Next]_vars PROVE OnTime'
<1>0. /\ cur \in Int /\ mono \in Int /\ skew \in Int /\ SlotTicks \in Nat \ {0}
      /\ cur' \in Int /\ mono' \in Int /\ skew' \in Int
      /\ (cur + 1) * SlotTicks \in Int
      /\ (cur + 2) * SlotTicks = (cur + 1) * SlotTicks + SlotTicks
      /\ (last + 1) * SlotTicks \in Int
  BY SlotAssumption, SlotOrderStep DEF SlotOrder
<1>1. wake' \in Int
  <2>1. CASE SkipReplay
    BY <1>0, <2>1 DEF SkipReplay, SleepUntilSlot, Wall
  <2>2. CASE JoinPhases
    BY <1>0, <2>2 DEF JoinPhases, SleepUntilSlot, Wall, OnTime, windowVars
  <2>3. CASE NextSlot
    BY <2>3 DEF NextSlot
  <2>4. CASE ~SkipReplay /\ ~JoinPhases /\ ~NextSlot
    <3>1. UNCHANGED wake
      BY <2>4 DEF Next, Loop, TopStops, Stop, BeginSlot, ColdFetch, CaptureParent, Fire,
         LockContext, CaptureHead, SnapshotAndSign, EndWaits, WorkLocally, WorkAsk, WorkStore,
         WorkThrough, WindowStops, Tick, StepClock, Notify, ChangeIndices, ChangeRoot,
         PublishHead, RequestShutdown, vars, windowVars
    <3> QED BY <3>1 DEF OnTime
  <2> QED BY <2>1, <2>2, <2>3, <2>4
<1>2. keyGen' \in BOOLEAN
  <2>1. keyGen' = keyGen \/ keyGen' = FALSE \/ keyGen' = TRUE
    BY DEF Next, Loop, TopStops, Stop, SkipReplay, JoinPhases, NextSlot, BeginSlot, ColdFetch,
         CaptureParent, Fire, LockContext, CaptureHead, SnapshotAndSign, EndWaits, WorkLocally,
         WorkAsk, WorkStore, WorkThrough, WindowStops, Tick, StepClock, Notify, ChangeIndices,
         ChangeRoot, PublishHead, RequestShutdown, vars, signalVars
  <2> QED BY <2>1 DEF OnTime
<1>3. CASE Disturbed
  BY <1>1, <1>2, <1>3 DEF OnTime, Quiet, Disturbed
<1>4. CASE UNCHANGED history /\ UNCHANGED keyGen /\ pc' = "done"
  BY <1>1, <1>4 DEF OnTime, history
<1>5. CASE UNCHANGED history /\ (UNCHANGED keyGen \/ keyGen' = FALSE)
           /\ pc \notin {"post", "done"} /\ pc' \in {"cold", "parent", "duties"}
  BY <1>1, <1>2, <1>5 DEF OnTime, history
<1>6. CASE SkipReplay
  <2>1. assured = {}
    <3>1. SUFFICES ASSUME assured # {} PROVE FALSE
      OBVIOUS
    <3>2. Wall \in Int /\ (cur + 1) * SlotTicks <= Wall /\ Wall < (cur + 2) * SlotTicks
      BY <1>0, <1>6, <3>1 DEF SkipReplay, OnTime, Wall
    <3>3. CurrentSlot = cur + 1
      <4>1. cur + 1 \in Int /\ cur + 2 = (cur + 1) + 1
        BY <1>0
      <4>2. PICK k \in Int : k = cur + 1 /\ cur + 2 = k + 1
        BY <4>1
      <4>3. PICK w \in Int : w = Wall /\ k * SlotTicks <= w /\ w < (k + 1) * SlotTicks
        BY <3>2, <4>2
      <4>4. w \div SlotTicks = k
        BY <1>0, <4>3, Multiples
      <4> QED BY <4>2, <4>3, <4>4 DEF CurrentSlot
    <3>4. last = cur /\ CurrentSlot <= last
      BY <1>6 DEF SkipReplay, SlotOrder, ReplaysSlot
    <3> QED BY <1>0, <3>3, <3>4
  <2>2. ~clean /\ UNCHANGED <<assured, clean, keyGen>> /\ pc' = "replay"
    BY <1>6 DEF SkipReplay, OnTime, history, signalVars
  <2> QED BY <1>1, <2>1, <2>2 DEF OnTime
<1>7. CASE JoinPhases /\ pc' = "post"
  <2>1. /\ wake' = mono + ((cur + 1) * SlotTicks - Wall) /\ ~(Wall >= (cur + 1) * SlotTicks)
        /\ UNCHANGED <<mono, skew, cur, assured, keyGen>> /\ clean' = TRUE /\ pc' = "post"
    BY <1>7 DEF JoinPhases, SleepUntilSlot, clockVars
  <2>2. wake' + skew' = (cur' + 1) * SlotTicks /\ mono' + skew' < (cur' + 2) * SlotTicks
    BY <1>0, <2>1 DEF Wall
  <2> QED BY <1>1, <2>1, <2>2 DEF OnTime, Wall
<1>8. CASE WorkThrough
  <2>1. /\ UNCHANGED <<mono, skew, cur, wake, keyGen, pc>> /\ clean' = FALSE
        /\ pc = "post" /\ clean
        /\ keyGen => assured' = assured
    BY <1>8 DEF WorkThrough, clockVars, slotVars, windowVars, signalVars
  <2> QED BY <2>1 DEF OnTime, Quiet, Wall
<1>9. CASE NextSlot /\ UNCHANGED history
  <2>1. /\ pc \in {"post", "replay"} /\ mono >= wake /\ pc' = "top"
        /\ UNCHANGED <<mono, skew, cur, keyGen, assured, clean>>
    BY <1>9 DEF NextSlot, clockVars, slotVars, signalVars, history
  <2>2. CASE Disturbed
    BY <1>3, <2>2
  <2>3. CASE pc = "replay"
    BY <1>1, <2>1, <2>3 DEF OnTime
  <2>4. CASE pc = "post" /\ ~clean
    <3>1. assured # {} => /\ wake + skew = (cur + 1) * SlotTicks /\ wake \in Int
                          /\ Wall < (cur + 2) * SlotTicks
      BY <2>4 DEF OnTime, Quiet
    <3>2. assured # {} => (cur + 1) * SlotTicks <= Wall
      BY <1>0, <2>1, <3>1 DEF Wall
    <3> QED BY <1>1, <1>2, <2>1, <2>4, <3>1, <3>2 DEF OnTime, Wall
  <2> QED BY <1>9, <2>1, <2>2, <2>3, <2>4 DEF NextSlot
<1>10. CASE Tick /\ UNCHANGED history
  <2>1. /\ mono' = mono + 1 /\ UNCHANGED <<skew, pc, cur, wake, keyGen, assured, clean>>
        /\ ~(/\ (Wall + 1) % SlotTicks = 0
             /\ pc \notin {"post", "replay"} \/ mono >= wake) \/ Disturbed
    BY <1>10 DEF Tick, slotVars, windowVars, signalVars, history, Event
  <2>2. CASE Disturbed
    BY <1>3, <2>2
  <2>3. CASE ~(/\ (Wall + 1) % SlotTicks = 0
               /\ pc \notin {"post", "replay"} \/ mono >= wake)
    <3>1. ((cur + 2) * SlotTicks) % SlotTicks = 0
      <4>1. PICK k \in Int : k = cur + 2
        BY <1>0
      <4>2. (k * SlotTicks) % SlotTicks = 0
        BY <1>0, Multiples
      <4> QED BY <4>1, <4>2
    <3>2. ASSUME pc = "post", Quiet PROVE Wall + 1 < (cur + 2) * SlotTicks
      <4>1. wake + skew = (cur + 1) * SlotTicks /\ Wall < (cur + 2) * SlotTicks /\ wake \in Int
        BY <3>2 DEF OnTime
      <4>2. SUFFICES ASSUME Wall + 1 = (cur + 2) * SlotTicks PROVE FALSE
        BY <1>0, <4>1 DEF Wall
      <4>3. mono >= wake
        BY <1>0, <4>1, <4>2 DEF Wall
      <4> QED BY <2>3, <3>1, <4>2, <4>3
    <3>3. ASSUME pc = "top", assured # {} PROVE Wall + 1 < (cur + 2) * SlotTicks
      <4>1. Wall < (cur + 2) * SlotTicks
        BY <3>3 DEF OnTime
      <4>2. SUFFICES ASSUME Wall + 1 = (cur + 2) * SlotTicks PROVE FALSE
        BY <1>0, <4>1 DEF Wall
      <4> QED BY <2>3, <3>1, <3>3, <4>2
    <3>4. Wall' = Wall + 1 /\ Wall \in Int
      BY <1>0, <2>1 DEF Wall
    <3>5. pc' = "post" /\ Quiet' => wake' + skew' = (cur' + 1) * SlotTicks /\ Wall' < (cur' + 2) * SlotTicks
      BY <2>1, <3>2, <3>4 DEF Quiet, OnTime
    <3>6. pc' = "top" /\ assured' # {} =>
            (cur' + 1) * SlotTicks <= Wall' /\ Wall' < (cur' + 2) * SlotTicks
      BY <1>0, <2>1, <3>3, <3>4 DEF OnTime
    <3> QED BY <1>1, <2>1, <3>5, <3>6 DEF OnTime
  <2> QED BY <2>1, <2>2, <2>3
<1>11. CASE UNCHANGED <<mono, skew, cur, wake, keyGen, pc, assured, clean>>
  BY <1>11 DEF OnTime, Quiet, Wall
<1>12. CASE Event
  BY <1>3, <1>12 DEF Event
<1>13. CASE TopStops \/ WindowStops
  BY <1>4, <1>13 DEF TopStops, WindowStops, Stop, signalVars
<1>14. CASE BeginSlot
  BY <1>5, <1>14 DEF BeginSlot
<1>15. CASE ColdFetch
  <2>1. Event \/ UNCHANGED history
    BY <1>15 DEF ColdFetch, NoEvent
  <2> QED BY <1>5, <1>12, <1>15, <2>1 DEF ColdFetch, signalVars
<1>16. CASE CaptureParent
  <2>1. Event \/ UNCHANGED history
    BY <1>16 DEF CaptureParent, NoEvent
  <2>2. pc = "parent" /\ pc' \in {"done", "duties"} /\ UNCHANGED keyGen
    BY <1>16 DEF CaptureParent, signalVars
  <2> QED BY <1>4, <1>5, <1>12, <2>1, <2>2
<1>17. CASE JoinPhases
  <2>1. (pc' = "done" /\ UNCHANGED history) \/ Disturbed \/ pc' = "post"
    BY <1>17 DEF JoinPhases
  <2> QED BY <1>3, <1>4, <1>7, <1>17, <2>1 DEF JoinPhases
<1>18. CASE NextSlot
  BY <1>3, <1>9, <1>18 DEF NextSlot
<1>19. CASE Tick
  BY <1>10, <1>12, <1>19 DEF Tick, NoEvent
<1>20. CASE WorkStore
  <2>1. Event \/ UNCHANGED history
    BY <1>20 DEF WorkStore, NoEvent
  <2> QED BY <1>11, <1>12, <1>20, <2>1 DEF WorkStore, clockVars, slotVars, signalVars, history
<1>21. CASE \/ \E b \in Branches : Fire(b) \/ LockContext(b) \/ CaptureHead(b) \/ SnapshotAndSign(b)
            \/ EndWaits \/ WorkLocally \/ WorkAsk \/ PublishHead \/ UNCHANGED vars
  <2>1. UNCHANGED <<mono, skew, cur, wake, keyGen, pc, assured, clean>>
    BY <1>21 DEF Fire, LockContext, CaptureHead, SnapshotAndSign, EndWaits, WorkLocally, WorkAsk,
         PublishHead, vars, clockVars, slotVars, windowVars, signalVars, history
  <2> QED BY <1>11, <2>1
<1>22. CASE StepClock \/ Notify \/ ChangeIndices \/ ChangeRoot \/ RequestShutdown
  BY <1>12, <1>22 DEF StepClock, Notify, ChangeIndices, ChangeRoot, RequestShutdown
<1> QED BY <1>6, <1>8, <1>13, <1>14, <1>15, <1>16, <1>17, <1>18, <1>19, <1>20, <1>21, <1>22
        DEF Next, Loop

(* A step keeps what the caches say about an epoch.                        *)
Keeps(epoch) ==
    /\ \A kind \in Kinds : IsCached(kind, epoch) => IsCached(kind, epoch)'
    /\ \A kind \in Kinds \ {"sync"} :
          Answer(kind, epoch) \in cache[kind] => Answer(kind, epoch)' \in cache'[kind]

(* What the node answers does not change by itself.                        *)
LEMMA SameAnswer ==
    ASSUME UNCHANGED chainVars, NEW kind, NEW epoch
    PROVE  Answer(kind, epoch)' = Answer(kind, epoch)
  BY DEF chainVars, Answer, Key, Period

(* A step that leaves the caches and the chain alone keeps everything.     *)
LEMMA UnchangedKeeps ==
    ASSUME UNCHANGED <<cache, chainVars>>, NEW epoch
    PROVE  Keeps(epoch)
<1>1. \A kind : Answer(kind, epoch)' = Answer(kind, epoch)
  BY SameAnswer
<1>2. \A kind \in Kinds : IsCached(kind, epoch)' = IsCached(kind, epoch)
  BY <1>1 DEF IsCached, Entries, Key, Period
<1> QED BY <1>1, <1>2 DEF Keeps

(* An answer of now replaces an entry of its key by one that is current.   *)
LEMMA StoreKeeps ==
    ASSUME CacheKeyed, UNCHANGED chainVars, NEW kind \in Kinds, NEW b, NEW epoch,
           Insert(kind, Answer(kind, b))
    PROVE  /\ Keeps(epoch)
           /\ IsCached(kind, b)' /\ Answer(kind, b)' \in cache'[kind]
<1>1. PICK entry : entry = Answer(kind, b)
  OBVIOUS
<1>2. /\ \A k \in Kinds \ {kind} : cache'[k] = cache[k]
      /\ cache'[kind] = {e \in cache[kind] : e.key # entry.key} \cup {entry}
  BY <1>1 DEF Insert, CacheKeyed
<1>3. \A k, a : /\ Answer(k, a)' = Answer(k, a) /\ Answer(k, a).key = Key(k, a)
                /\ Answer(k, a).indices = Answer(k, epoch).indices
                /\ k # "sync" => Key(k, a) = a
  BY SameAnswer DEF Answer, Key
<1>4. \A k \in Kinds : \A a :
        /\ IsCached(k, a) <=>
             \E e \in cache[k] : e.key = Key(k, a) /\ e.indices = Answer(k, a).indices
        /\ IsCached(k, a)' <=>
             \E e \in cache'[k] : e.key = Key(k, a) /\ e.indices = Answer(k, a).indices
  BY <1>3 DEF IsCached, Entries, Key, Period
<1>5. entry \in cache'[kind] /\ entry.key = Key(kind, b) /\ entry.indices = Answer(kind, epoch).indices
  BY <1>1, <1>2, <1>3
<1>6. IsCached(kind, b)' /\ Answer(kind, b)' \in cache'[kind]
  BY <1>1, <1>3, <1>4, <1>5
<1>7. ASSUME NEW k \in Kinds, IsCached(k, epoch) PROVE IsCached(k, epoch)'
  <2>1. PICK e \in cache[k] : e.key = Key(k, epoch) /\ e.indices = Answer(k, epoch).indices
    BY <1>4, <1>7
  <2>2. CASE e \in cache'[k]
    BY <1>4, <2>1, <2>2
  <2>3. CASE e \notin cache'[k]
    <3>1. k = kind /\ e.key = entry.key
      BY <1>2, <2>3
    <3> QED BY <1>4, <1>5, <2>1, <3>1
  <2> QED BY <2>2, <2>3
<1>8. ASSUME NEW k \in Kinds \ {"sync"}, Answer(k, epoch) \in cache[k]
      PROVE  Answer(k, epoch)' \in cache'[k]
  <2>1. PICK e \in cache[k] : e = Answer(k, epoch) /\ e.key = epoch
    BY <1>3, <1>8
  <2>2. CASE e \in cache'[k]
    BY <1>3, <2>1, <2>2
  <2>3. CASE e \notin cache'[k]
    <3>1. k = kind /\ epoch = entry.key
      BY <1>2, <2>1, <2>3
    <3>2. entry.key = b
      BY <1>3, <1>5, <3>1
    <3>3. b = epoch
      BY <3>1, <3>2
    <3> QED BY <1>6, <3>1, <3>3
  <2> QED BY <2>2, <2>3
<1> QED BY <1>6, <1>7, <1>8 DEF Keeps

(* An eviction of the window's epochs keeps both.                          *)
LEMMA EvictKeeps ==
    ASSUME CacheKeyed, UNCHANGED chainVars, NEW e \in Int, NEW b \in {e, e + 1},
           NEW a \in {e, e + 1}, EvictOldCaches(b)
    PROVE  Keeps(a)
<1>1. \A kind : Answer(kind, a)' = Answer(kind, a) /\ Answer(kind, a).key = Key(kind, a)
  BY SameAnswer DEF Answer
<1>2. \A kind \in Kinds : LowKey(kind, b) <= Key(kind, a) /\ Key(kind, a) \in Int /\ LowKey(kind, b) \in Int
  <2>1. /\ Period(e) \in Int /\ Period(e + 1) \in Int
        /\ Period(e) <= Period(e + 1) /\ Period(e + 1) <= Period(e) + 1
    BY PeriodFacts
  <2> QED BY <2>1 DEF LowKey, Key
<1>3. \A kind \in Kinds : \A x \in cache[kind] : x.key = Key(kind, a) => x \in cache'[kind]
  BY <1>2 DEF EvictOldCaches, LowKey
<1>4. \A kind \in Kinds : IsCached(kind, a) => IsCached(kind, a)'
  BY <1>1, <1>3 DEF IsCached, Entries, Key, Period
<1>5. \A kind \in Kinds : Answer(kind, a) \in cache[kind] => Answer(kind, a)' \in cache'[kind]
  BY <1>1, <1>3
<1> QED BY <1>4, <1>5 DEF Keeps

(* The item under way belongs to the window.                               *)
LEMMA HeadItem ==
    ASSUME WindowEvicts, pc = "post", work # <<>>
    PROVE  /\ Head(work) \in WindowItems(Epoch(cur))
           /\ work \in Seq(WindowItems(Epoch(cur)))
<1>1. PICK S : S = WindowItems(Epoch(cur))
  OBVIOUS
<1>2. work \in Seq(S)
  BY <1>1 DEF WindowEvicts
<1>3. Head(work) \in S
  BY <1>2
<1> QED BY <1>1, <1>2, <1>3

(* As long as nothing is disturbed, no step makes an entry of the current  *)
(* epoch or the next stale.                                                *)
LEMMA EntriesKept ==
    ASSUME SlotOrder, CacheKeyed, WindowEvicts, OnTime, WindowAchieves, Quiet,
           [Next]_vars, ~Disturbed
    PROVE  UNCHANGED chainVars /\ \A a \in {Epoch(cur), Epoch(cur) + 1} : Keeps(a)
<1>0. Epoch(cur) \in Int
  BY EpochFacts DEF SlotOrder
<1>1. UNCHANGED chainVars
  BY DEF Next, Loop, TopStops, Stop, SkipReplay, JoinPhases, NextSlot, BeginSlot, ColdFetch,
         CaptureParent, Fire, LockContext, CaptureHead, SnapshotAndSign, EndWaits, WorkLocally,
         WorkAsk, WorkStore, WorkThrough, WindowStops, Tick, StepClock, Notify, ChangeIndices,
         ChangeRoot, PublishHead, RequestShutdown, vars, Event
<1>2. CASE UNCHANGED cache
  BY <1>1, <1>2, UnchangedKeeps
<1>3. CASE BeginSlot /\ ClearCache
  <2>1. ~keyGen
    BY <1>3 DEF BeginSlot, OnTime, Quiet
  <2> QED BY <1>2, <1>3, <2>1 DEF BeginSlot
<1>4. CASE ColdFetch /\ Insert("proposer", Answer("proposer", Epoch(cur)))
  BY <1>1, <1>4, StoreKeeps DEF Kinds
<1>5. CASE WorkLocally /\ Head(work).act = "evict" /\ EvictOldCaches(Head(work).epoch)
  <2>1. Head(work) \in WindowItems(Epoch(cur))
    BY <1>5, HeadItem DEF WorkLocally
  <2>2. Head(work).epoch \in {Epoch(cur), Epoch(cur) + 1}
    BY <2>1 DEF WindowItems
  <2> QED BY <1>0, <1>1, <1>5, <2>2, EvictKeeps
<1>6. CASE WorkStore /\ Insert(Head(work).kind, job)
  <2>1. pc = "post" /\ job # None
    BY <1>6 DEF WorkStore
  <2>2. Head(work).kind \in Kinds /\ job = Answer(Head(work).kind, Asked(Head(work)))
    BY <2>1 DEF WindowEvicts, WindowAchieves
  <2>3. PICK kind \in Kinds : kind = Head(work).kind
    BY <2>2
  <2>5. PICK b : b = Asked(Head(work))
    OBVIOUS
  <2>4. Insert(kind, Answer(kind, b))
    BY <1>6, <2>2, <2>3, <2>5
  <2> QED BY <1>1, <2>4, StoreKeeps
<1> QED BY <1>2, <1>3, <1>4, <1>5, <1>6, CacheSteps

(* Items of a concatenation.                                               *)
LEMMA OccursConcat ==
    ASSUME NEW S, NEW s \in Seq(S), NEW t \in Seq(S), NEW x, Occurs(x, s) \/ Occurs(x, t)
    PROVE  Occurs(x, s \o t)
<1>1. ASSUME NEW i \in 1 .. Len(s), s[i] = x PROVE Occurs(x, s \o t)
  <2>1. i \in 1 .. Len(s \o t) /\ (s \o t)[i] = x
    BY <1>1
  <2> QED BY <2>1 DEF Occurs
<1>2. ASSUME NEW i \in 1 .. Len(t), t[i] = x PROVE Occurs(x, s \o t)
  <2>1. Len(s) + i \in 1 .. Len(s \o t) /\ (s \o t)[Len(s) + i] = x
    BY <1>2
  <2> QED BY <2>1 DEF Occurs
<1> QED BY <1>1, <1>2 DEF Occurs

(* An item is done or still to do.                                         *)
LEMMA OccursTail ==
    ASSUME NEW S, NEW s \in Seq(S), s # <<>>, NEW x, Occurs(x, s)
    PROVE  x = Head(s) \/ Occurs(x, Tail(s))
<1>1. PICK i \in 1 .. Len(s) : s[i] = x
  BY DEF Occurs
<1>2. CASE i = 1
  BY <1>1, <1>2
<1>3. CASE i # 1
  <2>1. i - 1 \in 1 .. Len(Tail(s)) /\ Tail(s)[i - 1] = x
    BY <1>1, <1>3
  <2> QED BY <2>1 DEF Occurs
<1> QED BY <1>2, <1>3

(* fetch_epoch_duties fetches and check_reorg_at_epoch_boundary rechecks   *)
(* the attester and proposer duties; the sync duties are fetched.          *)
LEMMA EpochItems ==
    ASSUME NEW e \in Int, NEW a \in {e, e + 1}
    PROVE  /\ \A kind \in {"attester", "proposer", "sync"} : Occurs(Item("fetch", kind, a), FetchItems(a))
           /\ \A kind \in {"attester", "proposer"} : Occurs(Item("recheck", kind, a), RecheckItems(a))
<1>1. PICK kinds \in Seq(Kinds) : /\ kinds = IndexedKinds(a) /\ Len(kinds) >= 2
                                  /\ kinds[1] = "attester" /\ kinds[2] = "proposer"
  <2>1. "attester" \in Kinds /\ "proposer" \in Kinds /\ "ptc" \in Kinds
    BY DEF Kinds
  <2>2. ASSUME NEW ks, ks = <<"attester", "proposer", "ptc">> \/ ks = <<"attester", "proposer">>
        PROVE  ks \in Seq(Kinds) /\ Len(ks) >= 2 /\ ks[1] = "attester" /\ ks[2] = "proposer"
    <3>1. CASE ks = <<"attester", "proposer", "ptc">>
      BY <2>1, <3>1
    <3>2. CASE ks = <<"attester", "proposer">>
      BY <2>1, <3>2
    <3> QED BY <2>2, <3>1, <3>2
  <2> QED BY <2>2 DEF IndexedKinds
<1>2. PICK all \in Seq(Kinds) : /\ all = kinds \o <<"sync">> /\ Len(all) = Len(kinds) + 1
                                /\ all[1] = "attester" /\ all[2] = "proposer" /\ all[Len(kinds) + 1] = "sync"
  <2>1. <<"sync">> \in Seq(Kinds) /\ Len(<<"sync">>) = 1 /\ <<"sync">>[1] = "sync"
    BY DEF Kinds
  <2>2. PICK all : all = kinds \o <<"sync">>
    OBVIOUS
  <2>3. all \in Seq(Kinds) /\ Len(all) = Len(kinds) + 1
    BY <2>1, <2>2
  <2>4. all[1] = kinds[1] /\ all[2] = kinds[2] /\ all[Len(kinds) + 1] = "sync"
    BY <1>1, <2>1, <2>2
  <2> QED BY <1>1, <2>2, <2>3, <2>4
<1>3. ASSUME NEW act, NEW ks \in Seq(Kinds), NEW i \in 1 .. Len(ks)
      PROVE  Occurs(Item(act, ks[i], a), [j \in DOMAIN ks |-> Item(act, ks[j], a)])
  <2>1. PICK items : items = [j \in DOMAIN ks |-> Item(act, ks[j], a)]
    OBVIOUS
  <2>2. Len(items) = Len(ks) /\ items[i] = Item(act, ks[i], a)
    BY <2>1
  <2> QED BY <2>1, <2>2 DEF Occurs
<1>4. \A kind \in {"attester", "proposer"} : Occurs(Item("recheck", kind, a), RecheckItems(a))
  <2>1. 1 \in 1 .. Len(kinds) /\ 2 \in 1 .. Len(kinds)
    BY <1>1
  <2>2. RecheckItems(a) = [j \in DOMAIN kinds |-> Item("recheck", kinds[j], a)]
    BY <1>1 DEF RecheckItems
  <2>3. \A i \in 1 .. Len(kinds) : Occurs(Item("recheck", kinds[i], a), RecheckItems(a))
    BY <1>3, <2>2
  <2>4. Occurs(Item("recheck", kinds[1], a), RecheckItems(a)) /\ Occurs(Item("recheck", kinds[2], a), RecheckItems(a))
    BY <2>1, <2>3
  <2> QED BY <1>1, <2>4
<1>5. PICK fetches : fetches = [j \in DOMAIN all |-> Item("fetch", all[j], a)]
  OBVIOUS
<1>6. \A kind \in {"attester", "proposer", "sync"} : Occurs(Item("fetch", kind, a), fetches)
  <2>1. 1 \in 1 .. Len(all) /\ 2 \in 1 .. Len(all) /\ Len(kinds) + 1 \in 1 .. Len(all)
    BY <1>1, <1>2
  <2> QED BY <1>2, <1>3, <1>5, <2>1
<1>7. FetchItems(a) = <<Item("evict", None, a)>> \o fetches \o <<Item("prefetch", "sync", a)>>
  BY <1>1, <1>2, <1>5 DEF FetchItems
<1>8. PICK S : S = [act : Acts, kind : Kinds \cup {None}, epoch : {a}]
  OBVIOUS
<1>9. fetches \in Seq(S) /\ <<Item("evict", None, a)>> \in Seq(S) /\ <<Item("prefetch", "sync", a)>> \in Seq(S)
  <2>1. Item("evict", None, a) \in S /\ Item("prefetch", "sync", a) \in S
    BY <1>8 DEF Item, Acts, Kinds
  <2>2. \A kind \in Kinds : Item("fetch", kind, a) \in S
    BY <1>8 DEF Item, Acts
  <2>3. fetches \in Seq(S)
    BY <1>5, <2>2
  <2> QED BY <2>1, <2>3
<1>10. PICK x, y : x = Item("evict", None, a) /\ y = Item("prefetch", "sync", a)
  OBVIOUS
<1>11. \A kind \in {"attester", "proposer", "sync"} : Occurs(Item("fetch", kind, a), FetchItems(a))
  <2>1. <<x>> \in Seq(S) /\ <<y>> \in Seq(S)
    BY <1>9, <1>10
  <2>2. <<x>> \o fetches \in Seq(S)
    BY <1>9, <2>1
  <2>3. \A z : Occurs(z, fetches) => Occurs(z, (<<x>> \o fetches) \o <<y>>)
    BY <1>9, <2>1, <2>2, OccursConcat
  <2> QED BY <1>6, <1>7, <1>10, <2>3
<1> QED BY <1>4, <1>11

(* A window starts with all it must not miss.                              *)
LEMMA NeededPosted == ASSUME cur \in Int, NEW item \in Needed PROVE Occurs(item, PostDutyWork)
<1>0. PICK e \in Int : e = Epoch(cur)
  BY EpochFacts
<1>1. PICK S : S = WindowItems(e)
  OBVIOUS
<1>2. PICK f, g, r, s \in Seq(S) :
          f = FetchItems(e) /\ g = FetchItems(e + 1) /\ r = RecheckItems(e) /\ s = RecheckItems(e + 1)
  BY <1>1, FetchItemsTyped
<1>3. PICK t \in Seq(S) : t = (IF AtBoundary THEN r \o s ELSE <<>>)
  <2>1. r \o s \in Seq(S) /\ <<>> \in Seq(S)
    OBVIOUS
  <2> QED BY <2>1
<1>4. PostDutyWork = f \o g \o t /\ f \o g \in Seq(S)
  BY <1>0, <1>2, <1>3 DEF PostDutyWork
<1>5. ASSUME item \in Fetches(e) PROVE Occurs(item, f) \/ Occurs(item, g)
  <2>1. PICK kind \in {"attester", "proposer", "sync"} : \E a \in {e, e + 1} : item = Item("fetch", kind, a)
    BY <1>5 DEF Fetches
  <2>2. PICK a \in {e, e + 1} : item = Item("fetch", kind, a)
    BY <2>1
  <2>3. Occurs(item, FetchItems(a))
    BY <2>2, EpochItems
  <2> QED BY <1>2, <2>3
<1>6. ASSUME AtBoundary, item \in Rechecks(e) PROVE Occurs(item, t)
  <2>1. Occurs(item, r) \/ Occurs(item, s)
    <3>1. PICK kind \in {"attester", "proposer"} : \E a \in {e, e + 1} : item = Item("recheck", kind, a)
      BY <1>6 DEF Rechecks
    <3>2. PICK a \in {e, e + 1} : item = Item("recheck", kind, a)
      BY <3>1
    <3>3. Occurs(item, RecheckItems(a))
      BY <3>2, EpochItems
    <3> QED BY <1>2, <3>3
  <2> QED BY <1>2, <1>3, <1>6, <2>1, OccursConcat
<1>7. Occurs(item, f \o g) \/ Occurs(item, t)
  BY <1>0, <1>2, <1>5, <1>6, OccursConcat DEF Needed
<1> QED BY <1>3, <1>4, <1>7, OccursConcat

(* What a step does to the history while nothing is disturbed.             *)
LEMMA HistorySteps ==
    ASSUME [Next]_vars, ~Disturbed, OnTime
    PROVE  \/ WorkThrough
           \/ JoinPhases /\ pc' = "post" /\ clean' = TRUE /\ UNCHANGED assured
           \/ UNCHANGED history
<1>1. CASE JoinPhases
  BY <1>1 DEF JoinPhases
<1>2. CASE ~JoinPhases /\ ~WorkThrough
  BY <1>2 DEF Next, Loop, TopStops, Stop, SkipReplay, NextSlot, BeginSlot, ColdFetch,
         CaptureParent, Fire, LockContext, CaptureHead, SnapshotAndSign, EndWaits, WorkLocally,
         WorkAsk, WorkStore, WindowStops, Tick, StepClock, Notify, ChangeIndices,
         ChangeRoot, PublishHead, RequestShutdown, vars, Event, NoEvent
<1> QED BY <1>1, <1>2

(* How the loop moves between the places the invariants speak of.          *)
LEMMA PcSteps ==
    ASSUME [Next]_vars, ~BeginSlot
    PROVE  /\ pc' \in {"cold", "parent", "duties"} => pc \in {"cold", "parent", "duties"}
           /\ pc' = "post" => pc = "post" \/ JoinPhases
           /\ pc' = "top" => \/ pc = "top"
                             \/ JoinPhases /\ Disturbed
                             \/ NextSlot
<1>1. CASE JoinPhases
  BY <1>1 DEF JoinPhases
<1>2. CASE NextSlot
  BY <1>2 DEF NextSlot
<1>3. CASE SkipReplay \/ ColdFetch \/ CaptureParent \/ TopStops \/ WindowStops
  BY <1>3 DEF SkipReplay, ColdFetch, CaptureParent, TopStops, WindowStops, Stop
<1>4. CASE \/ \E b \in Branches : Fire(b) \/ LockContext(b) \/ CaptureHead(b) \/ SnapshotAndSign(b)
           \/ EndWaits \/ WorkLocally \/ WorkAsk \/ WorkStore \/ WorkThrough
           \/ Tick \/ StepClock \/ Notify \/ ChangeIndices \/ ChangeRoot \/ PublishHead
           \/ RequestShutdown \/ UNCHANGED vars
  <2>1. UNCHANGED pc
    BY <1>4 DEF Fire, LockContext, CaptureHead, SnapshotAndSign, EndWaits, WorkLocally, WorkAsk,
         WorkStore, WorkThrough, Tick, StepClock, Notify, ChangeIndices, ChangeRoot, PublishHead,
         RequestShutdown, vars
  <2> QED BY <2>1
<1> QED BY <1>1, <1>2, <1>3, <1>4 DEF Next, Loop

(* Kept entries keep what is said of an epoch.                             *)
LEMMA KeepsAssured ==
    ASSUME NEW a, Keeps(a)
    PROVE  /\ EntriesCurrent(a) => EntriesCurrent(a)'
           /\ RootsCurrent(a) => RootsCurrent(a)'
           /\ Assures(a) /\ UNCHANGED assured => Assures(a)'
<1>1. EntriesCurrent(a) => EntriesCurrent(a)'
  BY DEF Keeps, EntriesCurrent, Kinds
<1>2. RootsCurrent(a) => RootsCurrent(a)'
  BY DEF Keeps, RootsCurrent, Kinds
<1> QED BY <1>1, <1>2 DEF Assures

(* Without a change of slot, the epoch is the same.                        *)
LEMMA SameEpoch ==
    ASSUME UNCHANGED cur
    PROVE  /\ Epoch(cur)' = Epoch(cur) /\ AtBoundary' = AtBoundary /\ Needed' = Needed
  BY DEF Epoch, AtBoundary, Needed, Fetches, Rechecks, Item

(* The assured epochs, step by step.                                       *)
LEMMA AssuredStep ==
    ASSUME SlotOrder, CacheKeyed, WindowEvicts, OnTime, EpochsAssured, WindowAchieves, [Next]_vars
    PROVE  EpochsAssured'
<1>1. CASE assured' = {}
  BY <1>1 DEF EpochsAssured
<1>2. SUFFICES ASSUME assured' # {} PROVE EpochsAssured'
  BY <1>1
<1>3. ~Disturbed
  BY <1>2 DEF Disturbed
<1>4. WorkThrough \/ UNCHANGED assured
  BY <1>3, HistorySteps DEF history
<1>5. Quiet
  BY <1>2, <1>4 DEF Quiet, WorkThrough
<1>6. PICK e \in Int : e = Epoch(cur)
  BY EpochFacts DEF SlotOrder
<1>7. UNCHANGED chainVars /\ Keeps(e) /\ Keeps(e + 1)
  BY <1>3, <1>5, <1>6, EntriesKept
<1>8. CASE BeginSlot
  <2>1. /\ pc = "top" /\ pc' = "cold" /\ cur' = CurrentSlot /\ UNCHANGED assured
    BY <1>8 DEF BeginSlot, history
  <2>2. Assures(e) /\ Assures(e + 1)
    BY <1>2, <1>6, <2>1 DEF EpochsAssured
  <2>3. Assures(e)' /\ Assures(e + 1)'
    BY <1>7, <2>1, <2>2, KeepsAssured
  <2>4. cur' = cur + 1
    <3>1. PICK k \in Int : k = cur + 1 /\ cur + 2 = k + 1
      BY DEF SlotOrder
    <3>2. Wall \in Int /\ k * SlotTicks <= Wall /\ Wall < (k + 1) * SlotTicks
      BY <1>2, <2>1, <3>1 DEF OnTime, SlotOrder, Wall
    <3>3. CurrentSlot = k
      BY <3>2, SlotAssumption, Multiples DEF CurrentSlot
    <3> QED BY <2>1, <3>1, <3>3
  <2>5. PICK n \in {e, e + 1} : n = Epoch(cur') /\ (cur' % SlotsPerEpoch # 0 => n = e)
    BY <1>6, <2>4, NextSlotEpoch DEF SlotOrder
  <2>6. Assures(n)'
    BY <2>3, <2>5
  <2>7. ASSUME "root" \in assured', cur' % SlotsPerEpoch # 0 PROVE RootsCurrent(n + 1)'
    BY <2>3, <2>5, <2>7 DEF Assures
  <2> QED BY <2>1, <2>5, <2>6, <2>7 DEF EpochsAssured, AtBoundary, Epoch
<1>9. CASE WorkThrough
  <2>1. /\ pc = "post" /\ work = <<>> /\ clean /\ clean' = FALSE /\ UNCHANGED <<pc, cur>>
        /\ assured' = IF keyGen THEN assured
                      ELSE assured \union {"indices"} \union (IF AtBoundary THEN {"root"} ELSE {})
    BY <1>9 DEF WorkThrough, slotVars
  <2>2. ~keyGen
    BY <1>2, <2>1 DEF OnTime
  <2>3. \A item \in Needed : Achieved(item)
    <3>1. \A item : ~Occurs(item, <<>>)
      BY DEF Occurs
    <3> QED BY <2>1, <3>1 DEF WindowAchieves
  <2>4. EntriesCurrent(e) /\ EntriesCurrent(e + 1)
    <3>1. ASSUME NEW kind \in {"attester", "proposer", "sync"}, NEW a \in {e, e + 1}
          PROVE  IsCached(kind, a)
      <4>1. Item("fetch", kind, a) \in Needed
        BY <1>6 DEF Needed, Fetches
      <4>2. Achieved(Item("fetch", kind, a))
        BY <2>3, <4>1
      <4> QED BY <4>2 DEF Achieved, Item
    <3> QED BY <3>1 DEF EntriesCurrent
  <2>5. ASSUME "root" \in assured' PROVE RootsCurrent(e) /\ RootsCurrent(e + 1)
    <3>1. CASE AtBoundary
      <4>1. ASSUME NEW kind \in {"attester", "proposer"}, NEW a \in {e, e + 1}
            PROVE  Answer(kind, a) \in cache[kind]
        <5>1. Item("recheck", kind, a) \in Needed
          BY <1>6, <3>1 DEF Needed, Rechecks
        <5>2. Achieved(Item("recheck", kind, a))
          BY <2>3, <5>1
        <5> QED BY <5>2 DEF Achieved, Item
      <4> QED BY <4>1 DEF RootsCurrent
    <3>2. CASE ~AtBoundary
      <4>1. "root" \in assured
        BY <2>1, <2>5, <3>2
      <4> QED BY <1>6, <2>1, <3>2, <4>1 DEF EpochsAssured, Assures
    <3> QED BY <3>1, <3>2
  <2>6. EntriesCurrent(e)' /\ EntriesCurrent(e + 1)'
    BY <1>7, <2>4, KeepsAssured
  <2>7. "root" \in assured' => RootsCurrent(e)' /\ RootsCurrent(e + 1)'
    BY <1>7, <2>5, KeepsAssured
  <2>8. Epoch(cur') = e
    BY <1>6, <2>1
  <2> QED BY <2>1, <2>6, <2>7, <2>8 DEF EpochsAssured, Assures, Epoch
<1>10. CASE ~BeginSlot /\ ~WorkThrough
  <2>1. UNCHANGED <<cur, assured>>
    BY <1>4, <1>10, CurSteps
  <2>2. Epoch(cur') = e /\ AtBoundary' = AtBoundary
    BY <1>6, <2>1, SameEpoch
  <2>3. /\ Assures(e) => Assures(e)'
        /\ Assures(e + 1) => Assures(e + 1)'
        /\ RootsCurrent(e + 1) => RootsCurrent(e + 1)'
    BY <1>7, <2>1, KeepsAssured
  <2>4. ASSUME pc' \in {"cold", "parent", "duties", "post"}
        PROVE  /\ Assures(e)'
               /\ "root" \in assured' /\ ~AtBoundary' => RootsCurrent(e + 1)'
    <3>1. pc \in {"cold", "parent", "duties", "post"}
      BY <1>10, <2>4, PcSteps DEF JoinPhases, PhasesDone
    <3> QED BY <1>2, <1>6, <2>1, <2>2, <2>3, <3>1 DEF EpochsAssured
  <2>5. ASSUME pc' = "top" \/ (pc' = "post" /\ ~clean')
        PROVE  Assures(e)' /\ Assures(e + 1)'
    <3>1. pc = "top" \/ (pc = "post" /\ ~clean)
      <4>1. CASE pc' = "top"
        <5>1. pc = "top" \/ NextSlot
          BY <1>3, <1>10, <4>1, PcSteps
        <5>2. NextSlot => pc \in {"post", "replay"} /\ ~(pc = "post" /\ clean)
          BY <1>3 DEF NextSlot
        <5> QED BY <1>2, <2>1, <5>1, <5>2 DEF OnTime
      <4>2. CASE pc' = "post" /\ ~clean'
        <5>1. pc = "post" \/ JoinPhases
          BY <1>10, <4>2, PcSteps
        <5>2. (JoinPhases /\ clean' = TRUE) \/ UNCHANGED clean
          BY <1>3, <1>10, HistorySteps DEF history
        <5>3. JoinPhases => clean' = TRUE
          BY <4>2 DEF JoinPhases
        <5> QED BY <4>2, <5>1, <5>2, <5>3
      <4> QED BY <2>5, <4>1, <4>2
    <3> QED BY <1>2, <1>6, <2>1, <2>3, <3>1 DEF EpochsAssured
  <2> QED BY <2>2, <2>4, <2>5 DEF EpochsAssured, Epoch
<1> QED BY <1>8, <1>9, <1>10

(* Kept entries keep what an item achieved.                                *)
LEMMA KeepsAchieved ==
    ASSUME NEW item, item \in Needed, Achieved(item), \A a \in {Epoch(cur), Epoch(cur) + 1} : Keeps(a)
    PROVE  Achieved(item)'
<1>1. PICK e : e = Epoch(cur)
  OBVIOUS
<1>2. CASE item \in Fetches(e)
  <2>1. PICK kind \in {"attester", "proposer", "sync"} : \E a \in {e, e + 1} : item = Item("fetch", kind, a)
    BY <1>2 DEF Fetches
  <2>2. PICK a \in {e, e + 1} : item = Item("fetch", kind, a)
    BY <2>1
  <2>3. item.act = "fetch" /\ item.kind = kind /\ item.epoch = a /\ kind \in Kinds
    BY <2>2 DEF Item, Kinds
  <2>4. IsCached(kind, a)'
    BY <1>1, <2>3 DEF Achieved, Keeps
  <2> QED BY <2>3, <2>4 DEF Achieved
<1>3. CASE item \in Rechecks(e)
  <2>1. PICK kind \in {"attester", "proposer"} : \E a \in {e, e + 1} : item = Item("recheck", kind, a)
    BY <1>3 DEF Rechecks
  <2>2. PICK a \in {e, e + 1} : item = Item("recheck", kind, a)
    BY <2>1
  <2>3. item.act = "recheck" /\ item.kind = kind /\ item.epoch = a /\ kind \in Kinds \ {"sync"}
    BY <2>2 DEF Item, Kinds
  <2>4. Answer(kind, a)' \in cache'[kind]
    BY <1>1, <2>3 DEF Achieved, Keeps
  <2> QED BY <2>3, <2>4 DEF Achieved
<1> QED BY <1>1, <1>2, <1>3 DEF Needed

(* The window stores answers of now and misses nothing, step by step.      *)
LEMMA AchievesStep ==
    ASSUME SlotOrder, CacheKeyed, WindowEvicts, OnTime, WindowAchieves, [Next]_vars
    PROVE  WindowAchieves'
<1>1. CASE ~(pc' = "post" /\ Quiet')
  BY <1>1 DEF WindowAchieves, Quiet
<1>2. SUFFICES ASSUME pc' = "post", Quiet' PROVE WindowAchieves'
  BY <1>1
<1>3. ~Disturbed
  BY <1>2 DEF Disturbed, Quiet
<1>4. CASE JoinPhases
  <2>1. pc = "duties" /\ job = None /\ job' = None /\ work' = PostDutyWork /\ UNCHANGED cur
    BY <1>2, <1>4 DEF JoinPhases, PhasesDone, WindowEvicts
  <2>2. cur \in Int /\ Needed' = Needed
    BY <2>1, SameEpoch DEF SlotOrder
  <2>3. \A item \in Needed : Occurs(item, work')
    BY <2>1, <2>2, NeededPosted
  <2> QED BY <2>1, <2>2, <2>3 DEF WindowAchieves, Occurs
<1>5. CASE ~JoinPhases
  <2>1. pc = "post" /\ ~BeginSlot
    BY <1>2, <1>5, PcSteps DEF BeginSlot
  <2>2. UNCHANGED cur
    BY <2>1, CurSteps
  <2>3. Quiet /\ (clean' => clean)
    BY <1>2, <1>3, <1>5, HistorySteps DEF Quiet, WorkThrough, history
  <2>4. UNCHANGED chainVars /\ \A a \in {Epoch(cur), Epoch(cur) + 1} : Keeps(a)
    BY <1>3, <2>3, EntriesKept
  <2>5. Needed' = Needed
    BY <2>2, SameEpoch
  <2>6. \A item \in Needed : Achieved(item) => Achieved(item)'
    BY <2>4, KeepsAchieved
  <2>7. CASE WorkAsk
    <3>1. UNCHANGED <<work, clean>> /\ job' = Answer(Head(work).kind, Asked(Head(work)))
      BY <2>7 DEF WorkAsk, history
    <3>2. job' = Answer(Head(work).kind, Asked(Head(work)))'
      <4>1. PICK kind, b : kind = Head(work).kind /\ b = Asked(Head(work))
        OBVIOUS
      <4>2. Answer(kind, b)' = Answer(kind, b)
        BY <2>4, SameAnswer
      <4>3. Head(work)'.kind = kind /\ Asked(Head(work))' = b
        BY <3>1, <4>1 DEF Asked, NextPeriodEpoch, Period
      <4>4. job' = Answer(kind, b)
        BY <3>1, <4>1
      <4> QED BY <4>2, <4>3, <4>4 DEF Answer, Key, Period
    <3>3. \A item : Occurs(item, work)' = Occurs(item, work)
      BY <3>1 DEF Occurs
    <3> QED BY <2>1, <2>3, <2>5, <2>6, <3>2, <3>3 DEF WindowAchieves
  <2>8. CASE WorkLocally \/ WorkStore
    <3>1. work # <<>> /\ work' = Tail(work) /\ job' = None
      BY <2>1, <2>8 DEF WorkLocally, WorkStore, ItemDone, WindowEvicts
    <3>2. Head(work) \in WindowItems(Epoch(cur)) /\ work \in Seq(WindowItems(Epoch(cur)))
      BY <2>1, <3>1, HeadItem
    <3>3. PICK h : h = Head(work)
      OBVIOUS
    <3>4. h.act \in {"fetch", "recheck"} => Achieved(h)'
      <4>1. CASE WorkLocally
        <5>1. h.act # "recheck" /\ (h.act = "fetch" => IsCached(h.kind, h.epoch))
          BY <3>3, <4>1 DEF WorkLocally
        <5>2. h.act = "fetch" => h.kind \in Kinds /\ h.epoch \in {Epoch(cur), Epoch(cur) + 1}
          BY <3>2, <3>3 DEF WindowItems
        <5>3. h.act = "fetch" => IsCached(h.kind, h.epoch)'
          BY <2>4, <5>1, <5>2 DEF Keeps
        <5> QED BY <5>1, <5>3 DEF Achieved
      <4>2. CASE WorkStore
        <5>1. job # None /\ ~Event
          BY <1>3, <4>2 DEF WorkStore, Event
        <5>2. h.kind \in Kinds /\ job = Answer(h.kind, Asked(h))
          BY <2>1, <2>3, <3>3, <5>1 DEF WindowEvicts, WindowAchieves
        <5>3. IF h.act = "recheck" THEN Recheck(h.kind, job) ELSE Insert(h.kind, job)
          BY <3>3, <4>2, <5>1 DEF WorkStore
        <5>4. SUFFICES ASSUME h.act \in {"fetch", "recheck"} PROVE Achieved(h)'
          OBVIOUS
        <5>5. PICK kind \in Kinds : kind = h.kind
          BY <5>2
        <5>6. PICK b : b = h.epoch
          OBVIOUS
        <5>7. Asked(h) = b /\ job = Answer(kind, b)
          BY <5>2, <5>4, <5>5, <5>6 DEF Asked
        <5>8. CASE Insert(kind, Answer(kind, b))
          <6>1. IsCached(kind, b)' /\ Answer(kind, b)' \in cache'[kind]
            BY <2>4, <5>8, StoreKeeps
          <6> QED BY <5>5, <5>6, <6>1 DEF Achieved
        <5>9. CASE h.act = "recheck" /\ job \in cache[kind] /\ UNCHANGED cache
          <6>1. Answer(kind, b)' \in cache'[kind]
            BY <2>4, <5>7, <5>9, SameAnswer
          <6> QED BY <5>5, <5>6, <5>9, <6>1 DEF Achieved
        <5> QED BY <5>3, <5>5, <5>7, <5>8, <5>9 DEF Recheck
      <4> QED BY <2>8, <4>1, <4>2
    <3>5. ASSUME clean', NEW item \in Needed PROVE Occurs(item, work') \/ Achieved(item)'
      <4>1. CASE Achieved(item)
        BY <2>6, <3>5, <4>1
      <4>2. CASE Occurs(item, work)
        <5>1. PICK S : S = WindowItems(Epoch(cur))
          OBVIOUS
        <5>2. item = h \/ Occurs(item, Tail(work))
          BY <3>1, <3>2, <3>3, <4>2, <5>1, OccursTail
        <5>3. item.act \in {"fetch", "recheck"}
          <6>1. \A kind, a : Item("fetch", kind, a).act = "fetch" /\ Item("recheck", kind, a).act = "recheck"
            BY DEF Item
          <6> QED BY <6>1 DEF Needed, Fetches, Rechecks
        <5> QED BY <3>1, <3>4, <5>2, <5>3
      <4> QED BY <2>1, <2>3, <3>5, <4>1, <4>2 DEF WindowAchieves
    <3> QED BY <2>5, <3>1, <3>5 DEF WindowAchieves, Occurs
  <2>9. CASE ~WorkAsk /\ ~WorkLocally /\ ~WorkStore
    <3>1. UNCHANGED <<work, job>>
      BY <1>2, <1>5, <2>9, <2>1 DEF Next, Loop, TopStops, Stop, SkipReplay, NextSlot, BeginSlot, ColdFetch,
         CaptureParent, Fire, LockContext, CaptureHead, SnapshotAndSign, EndWaits,
         WorkThrough, WindowStops, Tick, StepClock, Notify, ChangeIndices,
         ChangeRoot, PublishHead, RequestShutdown, vars, windowVars
    <3>2. job' # None => job' = Answer(Head(work).kind, Asked(Head(work)))'
      <4>1. SUFFICES ASSUME job' # None PROVE job' = Answer(Head(work).kind, Asked(Head(work)))'
        OBVIOUS
      <4>2. PICK kind, b : kind = Head(work).kind /\ b = Asked(Head(work))
        OBVIOUS
      <4>3. Answer(kind, b)' = Answer(kind, b)
        BY <2>4, SameAnswer
      <4>4. Head(work)'.kind = kind /\ Asked(Head(work))' = b
        BY <3>1, <4>2 DEF Asked, NextPeriodEpoch, Period
      <4>5. job' = Answer(kind, b)
        BY <2>1, <2>3, <3>1, <4>1, <4>2 DEF WindowAchieves
      <4> QED BY <4>3, <4>4, <4>5 DEF Answer, Key, Period
    <3>3. \A item : Occurs(item, work)' = Occurs(item, work)
      BY <3>1 DEF Occurs
    <3> QED BY <2>1, <2>3, <2>5, <2>6, <3>2, <3>3 DEF WindowAchieves
  <2> QED BY <2>7, <2>8, <2>9
<1> QED BY <1>4, <1>5

(* What the last full window established holds of every behaviour.         *)
THEOREM FreshInvariant == Spec => []FreshInv
<1>1. Init => FreshInv
  <2> SUFFICES ASSUME Init PROVE FreshInv
    OBVIOUS
  <2>1. pc = "top" /\ assured = {} /\ clean = FALSE /\ keyGen = FALSE /\ wake = 0
    BY DEF Init
  <2>2. wake \in Int /\ clean \in BOOLEAN /\ keyGen \in BOOLEAN
    <3>1. wake \in Int
      BY <2>1
    <3> QED BY <2>1, <3>1, Zenon
  <2>3. ~clean /\ ~keyGen
    BY <2>1, Zenon
  <2>4. OnTime
    BY <2>1, <2>2, <2>3 DEF OnTime
  <2>5. EpochsAssured /\ WindowAchieves
    BY <2>1 DEF EpochsAssured, WindowAchieves
  <2> QED BY <2>4, <2>5 DEF FreshInv
<1>2. SLInv /\ FreshInv /\ [Next]_vars => FreshInv'
  <2> SUFFICES ASSUME SLInv, FreshInv, [Next]_vars PROVE FreshInv'
    OBVIOUS
  <2>1. /\ SlotOrder /\ CacheKeyed /\ WindowEvicts
        /\ OnTime /\ EpochsAssured /\ WindowAchieves
    BY DEF SLInv, FreshInv
  <2> QED BY <2>1, OnTimeStep, AssuredStep, AchievesStep DEF FreshInv
<1> QED BY <1>1, <1>2, SLInvariant, PTL DEF Spec

(* After a post-duty window that ran through undisturbed, the duties of    *)
(* the next slot are for the current indices, and after one at an epoch's  *)
(* first slot also for the current dependent roots.                        *)
THEOREM DutiesStayFresh == Spec => []DutiesFresh
<1>1. FreshInv => DutiesFresh
  BY DEF FreshInv, EpochsAssured, Assures, EntriesCurrent, RootsCurrent, IsCached, DutiesFresh
<1> QED BY <1>1, FreshInvariant, PTL
=============================================================================
