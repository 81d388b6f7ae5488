------------------------------ MODULE BnManager ------------------------------
(***************************************************************************)
(* The beacon node manager: per-node health trackers and sync tiers shared *)
(* by every caller, and the strategies that read and write them while      *)
(* other calls are under way.  A call selects its nodes once, from the     *)
(* trackers of that moment, and then works through the stale list:         *)
(*                                                                         *)
(*   v4     produce_block_v4          failover, one node at a time         *)
(*   v3     produce_block_v3          best of, all nodes at once           *)
(*   query  duties, attestation data  query first, next node on any error  *)
(*          and, where a 204 is no answer, payload attestation data        *)
(*                                                                         *)
(* Two callers run at a time: the proposer, whose operation the fork       *)
(* decides, and the attester.  Broadcasts read no shared state before they *)
(* record, so each is one step.  Time within a call is counted in ticks of *)
(* ATTEMPT_TIMEOUT_FLOOR's granularity; nodes answer as they like until    *)
(* they are mended, and from then on serve every request.                  *)
(***************************************************************************)
EXTENDS Integers, Sequences, FiniteSets, SequencesExt

CONSTANTS
    NodeCount,      \* configured beacon nodes, in configuration order
    Roles,          \* roles[i]: the set of roles of each node
    Window,         \* outcomes a health tracker keeps
    Latencies,      \* latency classes a success may have: "low", "high"
    Tiers,          \* Tiers[i]: the sync tiers the monitor may report of a node,
                    \* of 0 (Synced) .. 3
    Budget,         \* operation -> its timeout, in ticks
    Floor,          \* ATTEMPT_TIMEOUT_FLOOR, in ticks
    MaxSpoiled      \* bound on refused production rounds, rounds with an answer
                    \* of an unknown fork and cut broadcasts

ASSUME NodeAssumption == /\ NodeCount \in Nat \ {0} /\ Floor \in Nat \ {0}
                         /\ Window \in Nat \ {0} /\ Latencies \subseteq {"low", "high"}
                         /\ Tiers \in [1 .. NodeCount -> SUBSET (0 .. 3)] /\ MaxSpoiled \in Nat

Nodes == 1 .. NodeCount
Callers == {"proposer", "attester"}
Operations == {"v4", "v3", "query", "prepare"}

ASSUME BudgetAssumption == Budget \in [Operations -> Nat]

Capabilities == Operations \union {"fork"}

VARIABLES
    tracker,        \* node -> [outcomes, latency, skips]
    tier,           \* node -> sync tier of the last poll
    call,           \* caller -> the call under way
    gloas,          \* the fork that moves production from v3 to v4 is in force
    mended,         \* nodes that serve every request from now on
    spoiled         \* what MaxSpoiled bounds, so far

vars == <<tracker, tier, call, gloas, mended, spoiled>>

Capable == -1       \* no entry in incapable and reprobe_skips

-----------------------------------------------------------------------------
(* The health tracker.                                                     *)

ReprobeSkip == 1    \* CAPABILITY_REPROBE_SKIP

NewTracker == [outcomes |-> <<>>, latency |-> "none",
               skips |-> [c \in Capabilities |-> Capable]]

Failures(t) == Cardinality({i \in DOMAIN t.outcomes : ~ t.outcomes[i]})

\* Composite score in percent: 0.4 latency (neutral without data) and 0.6
\* error rate.
Score(t) ==
    LET n == Len(t.outcomes)
        latency == CASE t.latency = "none" -> 20 [] t.latency = "low" -> 40
                     [] t.latency = "high" -> 0
    IN  latency + (IF n = 0 THEN 60 ELSE (60 * (n - Failures(t))) \div n)

UnhealthyThreshold == 20

Healthy(t) == Score(t) > UnhealthyThreshold

\* Mutant: the oldest outcome is not dropped.
PushOutcomeUnbounded(t, ok) == [t EXCEPT !.outcomes = Append(@, ok)]

PushOutcome(t, ok) ==
    LET kept == IF Len(t.outcomes) >= Window THEN Tail(t.outcomes) ELSE t.outcomes
    IN  [t EXCEPT !.outcomes = Append(kept, ok)]

MarkCapable(t, c) == [t EXCEPT !.skips[c] = Capable]

MarkIncapable(t, c) == [t EXCEPT !.skips[c] = ReprobeSkip]

\* Mutant: a selection consumes no skip.
ConsumeSkipNever(t, c) == t

ConsumeSkip(t, c) == [t EXCEPT !.skips[c] = IF @ > 0 THEN @ - 1 ELSE @]

\* A v4 selection needs the endpoint and a recognised fork.
Needs(op) == IF op = "v4" THEN {"v4", "fork"} ELSE {op}

CapableOf(t, op) == \A c \in Needs(op) : t.skips[c] = Capable

\* skip_capability: excluded by this selection if any budget is left, and
\* every budget that decides it is consumed.
Skipped(t, op) == \E c \in Needs(op) : t.skips[c] > 0

SkipCapability(t, op) ==
    IF op = "v4" THEN ConsumeSkip(ConsumeSkip(t, "v4"), "fork") ELSE ConsumeSkip(t, op)

-----------------------------------------------------------------------------
(* Answers and what the tracker makes of them.  "block" stands for any     *)
(* success; "fork" is a 2xx of an unknown fork, which any operation that   *)
(* reads the version header can meet; "refused" a 4xx the node understood  *)
(* or a 2xx that does not parse; "gap" 404, 405 or 501; "down" any other   *)
(* error (for v4, a connection error or 5xx); "hang" no answer within the  *)
(* attempt; "none" HTTP 204, which is no health outcome.                   *)

AnyAnswer ==
    [op \in Operations |-> {"block", "down", "hang"}
                           \union (IF op # "prepare" THEN {"fork"} ELSE {})
                           \union (IF op = "v4" THEN {"refused", "gap"} ELSE {})
                           \union (IF op = "query" THEN {"none"} ELSE {})]

Answers(i, op) == IF i \in mended THEN {"block"} ELSE AnyAnswer[op]

\* Mutant: an answer of an unknown fork is taken for no answer.
FailoverUnlessRefused(answer) == answer \in {"fork", "gap", "down", "hang"}

IsProductionFailoverError(answer) == answer \in {"gap", "down", "hang"}

Incapable(op, answer) == answer = "fork" \/ (answer = "gap" /\ op = "v4")

Outcome(t, op, answer, latency) ==
    CASE answer = "none" -> t
      [] answer = "block" ->
            LET ok == MarkCapable([PushOutcome(t, TRUE) EXCEPT !.latency = latency], op)
            IN  IF op = "v4" THEN MarkCapable(ok, "fork") ELSE ok
      [] Incapable(op, answer) ->
            LET bad == MarkIncapable(PushOutcome(t, FALSE), op)
            IN  IF answer = "fork" THEN MarkIncapable(bad, "fork") ELSE bad
      [] OTHER -> PushOutcome(t, FALSE)

-----------------------------------------------------------------------------
(* Selection.                                                              *)

RoleOf(op) == IF op \in {"v3", "v4"} THEN "proposal" ELSE "attestation"

\* Role match, then All-role nodes; nobody else (broadcast stops here).
RoleMatching(role) ==
    LET matched == {i \in Nodes : Roles[i] \intersect {"all", role} # {}}
    IN  IF matched # {} THEN matched ELSE {i \in Nodes : "all" \in Roles[i]}

\* The query path falls back to every node.
RoleIndices(role) == IF RoleMatching(role) # {} THEN RoleMatching(role) ELSE Nodes

MinTier(op) == IF op \in {"v3", "v4"} THEN 0 ELSE 1

\* The requested tier, relaxed one tier at a time until a node meets it: then
\* the nodes of the best tier there is.
TierFiltered(op) ==
    {i \in RoleIndices(RoleOf(op)) :
        \/ tier[i] <= MinTier(op)
        \/ \A j \in RoleIndices(RoleOf(op)) : tier[i] <= tier[j]}

Ahead(a, b) == \/ Score(tracker[a]) > Score(tracker[b])
               \/ Score(tracker[a]) = Score(tracker[b]) /\ a < b

SortByHealth(S) ==
    [k \in 1 .. Cardinality(S) |->
        CHOOSE i \in S : Cardinality({j \in S : Ahead(j, i)}) = k - 1]

HealthyOrAll(S) ==
    LET healthy == {i \in S : Healthy(tracker[i])} IN IF healthy # {} THEN healthy ELSE S

Flagged(S, op) == {i \in S : ~ CapableOf(tracker[i], op)}

\* synced_indices: the nodes in the order they are asked.  In a mixed fleet
\* flagged nodes sit out one selection and are then asked first.
SyncedIndices(eligible, op) ==
    LET flagged == Flagged(eligible, op)
        reprobe == {i \in flagged : ~ Skipped(tracker[i], op)}
    IN  IF flagged = eligible
        THEN SortByHealth(HealthyOrAll(eligible))
        ELSE SortByHealth(reprobe) \o SortByHealth(HealthyOrAll(eligible \ flagged))

\* The selection consumes a skip of every flagged node of a mixed fleet.
AfterSelection(eligible, op) ==
    LET flagged == Flagged(eligible, op)
    IN  [i \in Nodes |-> IF i \in flagged /\ flagged # eligible
                         THEN SkipCapability(tracker[i], op) ELSE tracker[i]]

-----------------------------------------------------------------------------
(* Sequential calls: v4 and query.                                         *)

Idle == [op |-> "idle", list |-> <<>>, left |-> 0, settled |-> FALSE]

Init ==
    /\ tracker = [i \in Nodes |-> NewTracker]
    /\ tier = [i \in Nodes |-> 3]
    /\ call = [c \in Callers |-> Idle]
    /\ gloas \in BOOLEAN
    /\ mended = {}
    /\ spoiled = 0

\* Mutant: an attempt may use all the time that is left.
AttemptTimeoutWhole(left, nodesLeft) == left

\* min(remaining, max(split, floor)); the last node gets the rest.
AttemptTimeout(left, nodesLeft) ==
    LET split == IF nodesLeft <= 1 \/ left \div nodesLeft = 0 THEN left
                                                             ELSE left \div nodesLeft
        raised == IF split > Floor THEN split ELSE Floor
    IN  IF left < raised THEN left ELSE raised

\* The fork decides how blocks are produced.
OpsOf(c) == IF c = "proposer" THEN {IF gloas THEN "v4" ELSE "v3"} ELSE {"query"}

Select(c, op) ==
    /\ call[c] = Idle
    /\ op \in OpsOf(c)
    /\ UNCHANGED <<tier, gloas, mended, spoiled>>
    /\ \E eligible \in {TierFiltered(op)} :
          /\ tracker' = AfterSelection(eligible, op)
          /\ call' = [call EXCEPT ![c] = [op |-> op, list |-> SyncedIndices(eligible, op),
                                         left |-> Budget[op], settled |-> FALSE]]

Sequential(c) == call[c].op \in {"v4", "query"}

\* The node may have produced a block.
Settles(op, answer) == op = "v4" /\ answer \in {"fork", "refused"}

\* What MaxSpoiled bounds, along with cut broadcasts.
Spoils(op, answer) == answer = "fork" \/ Settles(op, answer)

CountSpoiled(happens) ==
    /\ spoiled' = spoiled + (IF happens THEN 1 ELSE 0)
    /\ spoiled' <= MaxSpoiled

\* One attempt: the node is asked, answers within the attempt's bound or
\* not at all, the outcome is recorded, and the call ends or goes on.
Attempt(c) ==
    LET k == call[c]
        i == Head(k.list)
        bound == AttemptTimeout(k.left, Len(k.list))
    IN  /\ Sequential(c)
        /\ k.list # <<>>
        /\ k.left > 0
        /\ UNCHANGED <<tier, gloas, mended>>
        /\ \E answer \in Answers(i, k.op), latency \in Latencies, t \in 0 .. bound :
              LET ends == \/ answer = "block"
                          \/ k.op = "v4" /\ ~ IsProductionFailoverError(answer)
                          \/ Len(k.list) = 1
              IN  /\ answer = "hang" => t = bound
                  /\ CountSpoiled(Spoils(k.op, answer))
                  /\ tracker' = [tracker EXCEPT ![i] = Outcome(@, k.op, answer, latency)]
                  /\ call' = [call EXCEPT ![c] =
                        IF ends THEN Idle
                        ELSE [k EXCEPT !.list = Tail(@), !.left = @ - t,
                                       !.settled = @ \/ Settles(k.op, answer)]]

\* The deadline is exhausted: the next attempt is not started.
Expire(c) ==
    /\ Sequential(c)
    /\ call[c].list # <<>>
    /\ call[c].left = 0
    /\ call' = [call EXCEPT ![c] = Idle]
    /\ UNCHANGED <<tracker, tier, gloas, mended, spoiled>>

\* with_op_timeout around v4 fires while the last affordable attempt hangs:
\* that attempt's outcome is lost, the earlier ones are on record.
CancelV4(c) ==
    LET k == call[c]
    IN  /\ k.op = "v4"
        /\ k.list # <<>>
        /\ AttemptTimeout(k.left, Len(k.list)) = k.left
        /\ Head(k.list) \notin mended
        /\ call' = [call EXCEPT ![c] = Idle]
        /\ UNCHANGED <<tracker, tier, gloas, mended, spoiled>>

-----------------------------------------------------------------------------
(* Calls that ask several nodes at once and record once.  The operation    *)
(* timeout drops the whole record when any of them hangs.                  *)

Record(answers, op, latency) ==
    [i \in Nodes |-> IF i \in DOMAIN answers THEN Outcome(tracker[i], op, answers[i], latency)
                                             ELSE tracker[i]]

AnswersOf(S, op) == {f \in [S -> AnyAnswer[op]] : \A i \in S \intersect mended : f[i] = "block"}

\* query_best: every node of the list at once; without a block, the nodes
\* that were not asked are tried one after the other (list <- the untried).
Best(c) ==
    LET k == call[c]
        asked == ToSet(k.list)
        untried == SetToSeq(Nodes \ asked)
    IN  /\ k.op = "v3"
        /\ ~ k.settled
        /\ \E answers \in AnswersOf(asked, "v3"), latency \in Latencies :
              LET got == {answers[i] : i \in asked}
              IN  /\ IF "hang" \in got
                     THEN call' = [call EXCEPT ![c] = Idle] /\ UNCHANGED tracker
                     ELSE /\ tracker' = Record(answers, "v3", latency)
                          /\ call' = [call EXCEPT ![c] =
                                IF "block" \in got \/ untried = <<>> THEN Idle
                                ELSE [@ EXCEPT !.list = untried, !.settled = TRUE]]
                  /\ CountSpoiled("fork" \in got)
        /\ UNCHANGED <<tier, gloas, mended>>

\* fallback_unsynced: in order, up to the first block, recorded at the end.
FallbackUnsynced(c) ==
    LET k == call[c]
    IN  /\ k.op = "v3"
        /\ k.settled
        /\ \E answers \in AnswersOf(ToSet(k.list), "v3"), latency \in Latencies :
              LET reached == {i \in ToSet(k.list) :
                                \A j \in ToSet(k.list) : j < i => answers[j] # "block"}
                  got == {answers[i] : i \in reached}
              IN  /\ tracker' = IF "hang" \in got THEN tracker
                                ELSE Record([i \in reached |-> answers[i]], "v3", latency)
                  /\ CountSpoiled("fork" \in got)
        /\ call' = [call EXCEPT ![c] = Idle]
        /\ UNCHANGED <<tier, gloas, mended>>

\* broadcast: every role-matching node, whatever its tier and health.
Broadcast ==
    /\ UNCHANGED <<tier, call, gloas, mended>>
    /\ \E answers \in AnswersOf(RoleMatching("proposal"), "prepare"), latency \in Latencies :
          LET cut == \E i \in DOMAIN answers : answers[i] = "hang"
          IN  /\ CountSpoiled(cut)
              /\ tracker' = IF cut THEN tracker ELSE Record(answers, "prepare", latency)

-----------------------------------------------------------------------------
(* The sync monitor replaces every node's status at once; a node is        *)
(* mended.                                                                 *)

Poll ==
    /\ tier' \in {t \in [Nodes -> 0 .. 3] : \A i \in Nodes : t[i] \in Tiers[i]}
    /\ \A i \in mended : tier'[i] = 0
    /\ UNCHANGED <<tracker, call, gloas, mended, spoiled>>

Mend(i) ==
    /\ i \notin mended
    /\ mended' = mended \union {i}
    /\ UNCHANGED <<tracker, tier, call, gloas, spoiled>>

Next ==
    \/ \E c \in Callers :
          \/ \E op \in Operations : Select(c, op)
          \/ Attempt(c) \/ Expire(c) \/ CancelV4(c)
          \/ Best(c) \/ FallbackUnsynced(c)
    \/ Broadcast
    \/ Poll
    \/ \E i \in Nodes : Mend(i)

ProducesV4 == Select("proposer", "v4") \/ Attempt("proposer") \/ Expire("proposer")

\* Proposals and preparations keep coming, a call under way is polled, the
\* sync monitor keeps polling.
Fairness == WF_vars(ProducesV4) /\ WF_vars(Broadcast) /\ WF_vars(Poll)

Spec == Init /\ [][Next]_vars /\ Fairness

-----------------------------------------------------------------------------
(* Properties.                                                             *)

\* Trackers keep at most Window outcomes, a flag has at most one skip left,
\* and a call's list names each node at most once.
BMTypeOK ==
    /\ \A i \in Nodes :
          /\ tracker[i].outcomes \in UNION {[1 .. n -> BOOLEAN] : n \in 0 .. Window}
          /\ tracker[i].latency \in Latencies \union {"none"}
          /\ tracker[i].skips \in [Capabilities -> Capable .. ReprobeSkip]
    /\ tier \in [Nodes -> 0 .. 3]
    /\ \A c \in Callers :
          /\ call[c].op \in Operations \union {"idle"}
          /\ ToSet(call[c].list) \subseteq Nodes
          /\ Cardinality(ToSet(call[c].list)) = Len(call[c].list)
    /\ gloas \in BOOLEAN /\ mended \subseteq Nodes /\ spoiled \in 0 .. MaxSpoiled

\* produce_block_v4 never asks a second node after one has answered with a
\* 2xx (even one that cannot be parsed) or with a 4xx it understood.  After
\* an attempt that timed out it does, though the node may have produced.
OneProducer == \A c \in Callers : call[c].op = "v4" => ~ call[c].settled

\* Where the operation timeout affords the floor to every node, no node of
\* the list is left out because earlier ones hung: "a hung primary cannot
\* consume it alone".
EveryCandidateAsked ==
    \A c \in Callers :
        /\ Sequential(c)
        /\ call[c].list # <<>>
        /\ Budget[call[c].op] >= NodeCount * Floor
        => call[c].left > 0

\* A node that serves again is back in service for good: healthy, although
\* queries leave unhealthy nodes out, and capable of v4, although flagged
\* nodes are skipped and a capable peer keeps the rounds succeeding.  This
\* rests on MaxSpoiled: a peer that ended every production round with an
\* answer that is no failover error, or cut every broadcast, would keep the
\* mended node from ever being asked.
NodeReturns ==
    \A i \in Nodes :
        <>[](i \in mended /\ gloas => Healthy(tracker[i]) /\ CapableOf(tracker[i], "v4"))
=============================================================================
