--------------------------- MODULE BnManagerProofs ---------------------------
(***************************************************************************)
(* Proofs about the beacon node manager, for any number of nodes, roles,   *)
(* tiers and timeouts: a block is never asked for twice once a node has    *)
(* produced one, and no node is left out because others hang.              *)
(***************************************************************************)
EXTENDS BnManager, FiniteSetTheorems, TLAPS

Skips == [Capabilities -> Capable .. ReprobeSkip]

Trackers ==
    {t \in [outcomes : Seq(BOOLEAN), latency : Latencies \cup {"none"}, skips : Skips] :
        Len(t.outcomes) <= Window}

CallRecords == [op : Operations \cup {"idle"}, list : Seq(Nodes), left : Nat, settled : BOOLEAN]

(* Every entry of a sequence is another.                                   *)
Distinct(s) == \A i, j \in 1 .. Len(s) : s[i] = s[j] => i = j

Typed ==
    /\ tracker \in [Nodes -> Trackers]
    /\ tier \in [Nodes -> 0 .. 3]
    /\ call \in [Callers -> CallRecords]
    /\ gloas \in BOOLEAN /\ mended \subseteq Nodes /\ spoiled \in 0 .. MaxSpoiled

ListsDistinct == \A c \in Callers : Distinct(call[c].list)

(* A call that could pay the floor for every node can pay it for those it  *)
(* has not asked yet.                                                      *)
Affordable ==
    \A c \in Callers :
        Sequential(c) /\ Budget[call[c].op] >= NodeCount * Floor
            => call[c].left >= Len(call[c].list) * Floor

BMInv == Typed /\ ListsDistinct /\ OneProducer /\ Affordable

-----------------------------------------------------------------------------
(* The order of the nodes.                                                 *)

(* The nodes are finitely many.                                            *)
LEMMA NodesFinite == IsFiniteSet(Nodes) /\ Cardinality(Nodes) = NodeCount
  BY NodeAssumption, FS_Interval DEF Nodes

(* Counting those ahead of each node puts the nodes into a sequence.       *)
LEMMA Ranking ==
    ASSUME NEW S, IsFiniteSet(S), NEW R,
           \A a \in S : <<a, a>> \notin R,
           \A a, b \in S : a = b \/ <<a, b>> \in R \/ <<b, a>> \in R,
           \A a, b, c \in S : <<a, b>> \in R /\ <<b, c>> \in R => <<a, c>> \in R
    PROVE  \A k \in 1 .. Cardinality(S) :
               \E i \in S : Cardinality({j \in S : <<j, i>> \in R}) = k - 1
<1> DEFINE Before(i) == {j \in S : <<j, i>> \in R}
           rank == [i \in S |-> Cardinality(Before(i))]
           n == Cardinality(S)
<1>0. n \in Nat
  BY FS_CardinalityType
<1>1. \A i \in S : IsFiniteSet(Before(i)) /\ Cardinality(Before(i)) \in Nat
  BY FS_Subset, FS_CardinalityType
<1>2. ASSUME NEW i \in S, NEW j \in S, <<i, j>> \in R
      PROVE  Cardinality(Before(i)) < Cardinality(Before(j))
  <2>1. Before(i) \subseteq Before(j) /\ i \in Before(j) /\ i \notin Before(i)
    BY <1>2
  <2>2. IsFiniteSet(Before(j))
    BY <1>1
  <2> HIDE DEF Before
  <2> QED BY <1>1, <2>1, <2>2, FS_Subset
<1>3. ASSUME NEW i \in S PROVE Cardinality(Before(i)) \in 0 .. (n - 1)
  <2>1. Before(i) \subseteq S /\ i \notin Before(i)
    OBVIOUS
  <2> HIDE DEF Before
  <2>2. Cardinality(Before(i)) < n
    BY <1>0, <1>1, <2>1, FS_Subset
  <2> QED BY <1>0, <1>1, <2>2
<1> HIDE DEF Before
<1>4. rank \in Injection(S, 0 .. (n - 1))
  <2>1. rank \in [S -> 0 .. (n - 1)]
    BY <1>3
  <2>2. ASSUME NEW i \in S, NEW j \in S, rank[i] = rank[j] PROVE i = j
    <3>1. Cardinality(Before(i)) = Cardinality(Before(j))
      BY <2>2
    <3>2. Cardinality(Before(i)) \in Nat
      BY <1>1
    <3>3. <<i, j>> \notin R /\ <<j, i>> \notin R
      BY <1>2, <3>1, <3>2
    <3> QED BY <3>3
  <2> QED BY <2>1, <2>2 DEF Injection, IsInjective
<1>5. IsFiniteSet(0 .. (n - 1)) /\ Cardinality(0 .. (n - 1)) = n
  <2> HIDE DEF n
  <2> QED BY <1>0, FS_Interval
<1>6. rank \in Surjection(S, 0 .. (n - 1))
  <2> HIDE DEF rank
  <2> QED BY <1>4, <1>5, FS_Injection
<1>7. ASSUME NEW k \in 1 .. n PROVE \E i \in S : Cardinality(Before(i)) = k - 1
  <2>1. k - 1 \in 0 .. (n - 1)
    BY <1>0
  <2>2. PICK i \in S : rank[i] = k - 1
    BY <1>6, <2>1 DEF Surjection
  <2> QED BY <2>2
<1> QED BY <1>7 DEF Before

(* A score is an integer.                                                  *)
LEMMA ScoreInt == ASSUME NEW t \in Trackers PROVE Score(t) \in Int
<1>1. PICK n \in Nat : n = Len(t.outcomes)
  BY DEF Trackers
<1>2. Failures(t) \in Nat
  <2>1. IsFiniteSet(DOMAIN t.outcomes)
    <3>1. DOMAIN t.outcomes = 1 .. n
      BY <1>1 DEF Trackers
    <3> QED BY <1>1, <3>1, FS_Interval
  <2>2. PICK F : F = {i \in DOMAIN t.outcomes : ~ t.outcomes[i]}
    OBVIOUS
  <2>3. F \subseteq DOMAIN t.outcomes
    BY <2>2
  <2>4. IsFiniteSet(F)
    BY <2>1, <2>3, FS_Subset
  <2>5. Cardinality(F) \in Nat
    BY <2>4, FS_CardinalityType
  <2> QED BY <2>2, <2>5 DEF Failures
<1>3. PICK f \in Nat : f = Failures(t)
  BY <1>2
<1>4. PICK r \in Int : r = (IF n = 0 THEN 60 ELSE (60 * (n - f)) \div n)
  <2>1. CASE n = 0
    BY <2>1
  <2>2. CASE n # 0
    <3>1. 60 * (n - f) \in Int /\ n \in Nat \ {0}
      BY <2>2
    <3>2. (60 * (n - f)) \div n \in Int
      BY <3>1
    <3> QED BY <2>2, <3>2
  <2> QED BY <2>1, <2>2
<1>5. t.latency \in {"none", "low", "high"}
  BY NodeAssumption DEF Trackers
<1>6. PICK l \in Int : l = (CASE t.latency = "none" -> 20 [] t.latency = "low" -> 40
                              [] t.latency = "high" -> 0)
  BY <1>5
<1>7. Score(t) = l + r
  BY <1>1, <1>3, <1>4, <1>6 DEF Score
<1> QED BY <1>7

(* Nodes ahead of each other: the better score, then the earlier node.     *)
LEMMA AheadOrder ==
    ASSUME Typed
    PROVE  /\ \A a \in Nodes : ~Ahead(a, a)
           /\ \A a, b \in Nodes : a = b \/ Ahead(a, b) \/ Ahead(b, a)
           /\ \A a, b, c \in Nodes : Ahead(a, b) /\ Ahead(b, c) => Ahead(a, c)
<1>1. \A a \in Nodes : a \in Int /\ Score(tracker[a]) \in Int
  BY ScoreInt, NodeAssumption DEF Typed, Nodes
<1>2. PICK score : score = [a \in Nodes |-> Score(tracker[a])]
  OBVIOUS
<1>3. \A a \in Nodes : a \in Int /\ score[a] \in Int
  BY <1>1, <1>2
<1>4. \A a, b \in Nodes : Ahead(a, b) <=> score[a] > score[b] \/ (score[a] = score[b] /\ a < b)
  BY <1>2 DEF Ahead
<1> QED BY <1>3, <1>4

(* sort_by_health lists every node of a set once.                          *)
LEMMA SortedByHealth ==
    ASSUME Typed, NEW S \in SUBSET Nodes
    PROVE  SortByHealth(S) \in Seq(S) /\ Distinct(SortByHealth(S))
<1>1. PICK R : R = {p \in Nodes \X Nodes : Ahead(p[1], p[2])}
  OBVIOUS
<1>2. \A a, b \in S : <<a, b>> \in R <=> Ahead(a, b)
  BY <1>1
<1>3. IsFiniteSet(S)
  BY NodesFinite, FS_Subset
<1>4. PICK n \in Nat : n = Cardinality(S)
  BY <1>3, FS_CardinalityType
<1>5. \A k \in 1 .. n : \E i \in S : Cardinality({j \in S : <<j, i>> \in R}) = k - 1
  <2>1. \A a, b, c \in S : a \in Nodes /\ b \in Nodes /\ c \in Nodes
    OBVIOUS
  <2>2. /\ \A a \in S : <<a, a>> \notin R
        /\ \A a, b \in S : a = b \/ <<a, b>> \in R \/ <<b, a>> \in R
        /\ \A a, b, c \in S : <<a, b>> \in R /\ <<b, c>> \in R => <<a, c>> \in R
    BY <1>2, AheadOrder
  <2> QED BY <1>3, <1>4, <2>2, Ranking
<1>6. \A i \in S : {j \in S : <<j, i>> \in R} = {j \in S : Ahead(j, i)}
  BY <1>2
<1>7. \A k \in 1 .. n : \E i \in S : Cardinality({j \in S : Ahead(j, i)}) = k - 1
  BY <1>5, <1>6
<1> DEFINE Place(k) == CHOOSE i \in S : Cardinality({j \in S : Ahead(j, i)}) = k - 1
<1>8. ASSUME NEW k \in 1 .. n
      PROVE  Place(k) \in S /\ Cardinality({j \in S : Ahead(j, Place(k))}) = k - 1
  <2>1. \E i \in S : Cardinality({j \in S : Ahead(j, i)}) = k - 1
    BY <1>7
  <2> QED BY <2>1, Zenon
<1>9. SortByHealth(S) = [k \in 1 .. n |-> Place(k)]
  BY <1>4 DEF SortByHealth
<1> HIDE DEF Place
<1>10. PICK f : f = [k \in 1 .. n |-> Place(k)]
  OBVIOUS
<1>11. f \in Seq(S) /\ Len(f) = n
  <2>1. \A k \in 1 .. n : Place(k) \in S
    BY <1>8
  <2>2. f \in [1 .. n -> S]
    BY <1>10, <2>1
  <2> QED BY <2>2
<1>12. ASSUME NEW i \in 1 .. n, NEW j \in 1 .. n, f[i] = f[j] PROVE i = j
  <2>1. Place(i) = Place(j)
    BY <1>10, <1>12
  <2>2. i - 1 = j - 1
    BY <1>8, <2>1
  <2> QED BY <2>2
<1> QED BY <1>9, <1>10, <1>11, <1>12 DEF Distinct

(* A list without repetitions is no longer than the nodes are many.        *)
LEMMA DistinctLength ==
    ASSUME NEW s \in Seq(Nodes), Distinct(s)
    PROVE  Len(s) <= NodeCount /\ Cardinality(ToSet(s)) = Len(s) /\ ToSet(s) \subseteq Nodes
<1>1. PICK n \in Nat : n = Len(s)
  OBVIOUS
<1>2. IsFiniteSet(1 .. n) /\ Cardinality(1 .. n) = n
  BY FS_Interval
<1>3. s \in Injection(1 .. n, Nodes)
  BY <1>1 DEF Injection, IsInjective, Distinct
<1>4. n <= NodeCount
  BY <1>2, <1>3, NodesFinite, FS_Injection
<1>5. s \in Bijection(1 .. n, ToSet(s))
  BY <1>1, <1>3 DEF Bijection, Injection, Surjection, IsInjective, ToSet
<1>6. Cardinality(ToSet(s)) = n
  BY <1>5, FS_CountingElements DEF ExistsBijection
<1>7. ToSet(s) \subseteq Nodes
  BY DEF ToSet
<1> QED BY <1>1, <1>4, <1>6, <1>7

(* synced_indices names each node at most once.                            *)
LEMMA SelectionDistinct ==
    ASSUME Typed, NEW op, NEW eligible \in SUBSET Nodes
    PROVE  SyncedIndices(eligible, op) \in Seq(Nodes) /\ Distinct(SyncedIndices(eligible, op))
<1>2. PICK flagged \in SUBSET eligible : flagged = Flagged(eligible, op)
  BY DEF Flagged
<1>3. \A S \in SUBSET Nodes : HealthyOrAll(S) \subseteq S
  BY DEF HealthyOrAll
<1>4. PICK A \in SUBSET Nodes : A = HealthyOrAll(eligible)
  BY <1>3
<1>5. PICK B \in SUBSET flagged : B = {i \in flagged : ~ Skipped(tracker[i], op)}
  OBVIOUS
<1>6. PICK C \in SUBSET (eligible \ flagged) : C = HealthyOrAll(eligible \ flagged)
  BY <1>3
<1>7. SyncedIndices(eligible, op) =
                          IF flagged = eligible THEN SortByHealth(A)
                          ELSE SortByHealth(B) \o SortByHealth(C)
  BY <1>2, <1>4, <1>5, <1>6 DEF SyncedIndices
<1>8. SortByHealth(A) \in Seq(Nodes) /\ Distinct(SortByHealth(A))
  BY SortedByHealth
<1>9. PICK b \in Seq(B) : b = SortByHealth(B) /\ Distinct(b)
  BY SortedByHealth
<1>10. PICK c \in Seq(C) : c = SortByHealth(C) /\ Distinct(c)
  BY SortedByHealth
<1>11. b \o c \in Seq(Nodes) /\ Distinct(b \o c)
  <2>1. b \in Seq(Nodes) /\ c \in Seq(Nodes)
    OBVIOUS
  <2>2. b \o c \in Seq(Nodes) /\ Len(b \o c) = Len(b) + Len(c)
    BY <2>1
  <2>3. \A i \in 1 .. Len(b) : (b \o c)[i] = b[i] /\ b[i] \in flagged
    OBVIOUS
  <2>4. \A i \in 1 .. (Len(b) + Len(c)) :
           i > Len(b) => /\ (b \o c)[i] = c[i - Len(b)] /\ c[i - Len(b)] \notin flagged
                         /\ i - Len(b) \in 1 .. Len(c)
    OBVIOUS
  <2>5. ASSUME NEW i \in 1 .. (Len(b) + Len(c)), NEW j \in 1 .. (Len(b) + Len(c)),
               (b \o c)[i] = (b \o c)[j]
        PROVE  i = j
    BY <1>9, <1>10, <2>3, <2>4, <2>5 DEF Distinct
  <2> QED BY <2>2, <2>5 DEF Distinct
<1> QED BY <1>7, <1>8, <1>9, <1>10, <1>11

-----------------------------------------------------------------------------
(* The health tracker.                                                     *)

(* A window of outcomes stays one when the oldest makes room.              *)
LEMMA WindowPush ==
    ASSUME NEW S, NEW s \in Seq(S), Len(s) <= Window, NEW x \in S
    PROVE  LET kept == IF Len(s) >= Window THEN Tail(s) ELSE s
           IN  Append(kept, x) \in Seq(S) /\ Len(Append(kept, x)) <= Window
<1>0. Window \in Nat \ {0}
  BY NodeAssumption
<1>1. PICK kept : kept = (IF Len(s) >= Window THEN Tail(s) ELSE s)
  OBVIOUS
<1>2. kept \in Seq(S) /\ Len(kept) < Window
  <2>1. CASE Len(s) >= Window
    <3>1. s # <<>> /\ kept = Tail(s)
      BY <1>0, <1>1, <2>1
    <3> QED BY <1>0, <3>1
  <2>2. CASE ~(Len(s) >= Window)
    BY <1>0, <1>1, <2>2
  <2> QED BY <2>1, <2>2
<1>3. Append(kept, x) \in Seq(S) /\ Len(Append(kept, x)) = Len(kept) + 1
  BY <1>2
<1>4. Len(Append(kept, x)) <= Window
  BY <1>0, <1>2, <1>3
<1> QED BY <1>1, <1>3, <1>4

(* Every update of a tracker yields a tracker.                             *)
LEMMA TrackerUpdates ==
    ASSUME NEW t \in Trackers
    PROVE  /\ \A ok \in BOOLEAN : PushOutcome(t, ok) \in Trackers
           /\ \A l \in Latencies : [t EXCEPT !.latency = l] \in Trackers
           /\ \A c \in Capabilities : /\ MarkCapable(t, c) \in Trackers
                                      /\ MarkIncapable(t, c) \in Trackers
                                      /\ ConsumeSkip(t, c) \in Trackers
<1> DEFINE Fields == [outcomes : Seq(BOOLEAN), latency : Latencies \cup {"none"}, skips : Skips]
<1>0. /\ t \in Fields /\ t.outcomes \in Seq(BOOLEAN) /\ t.skips \in Skips
      /\ Len(t.outcomes) <= Window
  BY DEF Trackers
<1>1. ASSUME NEW ok \in BOOLEAN PROVE PushOutcome(t, ok) \in Trackers
  <2>1. PICK o : o = Append(IF Len(t.outcomes) >= Window THEN Tail(t.outcomes) ELSE t.outcomes, ok)
    OBVIOUS
  <2>2. o \in Seq(BOOLEAN) /\ Len(o) <= Window
    BY <1>0, <2>1, WindowPush
  <2>3. PushOutcome(t, ok) = [t EXCEPT !.outcomes = o]
    BY <2>1 DEF PushOutcome
  <2>4. [t EXCEPT !.outcomes = o] \in Fields /\ [t EXCEPT !.outcomes = o].outcomes = o
    BY <1>0, <2>2, Zenon
  <2> QED BY <2>2, <2>3, <2>4 DEF Trackers
<1>2. ASSUME NEW l \in Latencies PROVE [t EXCEPT !.latency = l] \in Trackers
  <2>1. l \in Latencies \cup {"none"}
    OBVIOUS
  <2>2. [t EXCEPT !.latency = l] \in Fields /\ [t EXCEPT !.latency = l].outcomes = t.outcomes
    BY <1>0, <2>1, Zenon
  <2> QED BY <1>0, <2>2 DEF Trackers
<1>3. ASSUME NEW s \in Skips PROVE [t EXCEPT !.skips = s] \in Trackers
  <2>1. [t EXCEPT !.skips = s] \in Fields /\ [t EXCEPT !.skips = s].outcomes = t.outcomes
    BY <1>0, Zenon
  <2> QED BY <1>0, <2>1 DEF Trackers
<1>4. ASSUME NEW c \in Capabilities, NEW v \in Capable .. ReprobeSkip
      PROVE  [t EXCEPT !.skips[c] = v] \in Trackers
  <2>1. PICK s \in Skips : s = [t.skips EXCEPT ![c] = v]
    BY <1>0 DEF Skips
  <2>2. [t EXCEPT !.skips[c] = v] = [t EXCEPT !.skips = s]
    BY <2>1
  <2> QED BY <1>3, <2>2
<1>5. ASSUME NEW c \in Capabilities
      PROVE  /\ MarkCapable(t, c) \in Trackers /\ MarkIncapable(t, c) \in Trackers
             /\ ConsumeSkip(t, c) \in Trackers
  <2>1. Capable \in Capable .. ReprobeSkip /\ ReprobeSkip \in Capable .. ReprobeSkip
    BY DEF Capable, ReprobeSkip
  <2>2. PICK v \in Capable .. ReprobeSkip :
            v = (IF t.skips[c] > 0 THEN t.skips[c] - 1 ELSE t.skips[c])
    BY <1>0 DEF Skips, Capable, ReprobeSkip
  <2>3. ConsumeSkip(t, c) = [t EXCEPT !.skips[c] = v]
    BY <2>2 DEF ConsumeSkip
  <2> QED BY <1>4, <2>1, <2>3 DEF MarkCapable, MarkIncapable
<1> QED BY <1>1, <1>2, <1>5

(* What every operation of a health tracker keeps.                         *)
LEMMA TrackerSteps ==
    ASSUME NEW t \in Trackers, NEW op \in Operations
    PROVE  /\ SkipCapability(t, op) \in Trackers
           /\ \A answer, l : l \in Latencies => Outcome(t, op, answer, l) \in Trackers
<1>0. op \in Capabilities /\ "v4" \in Capabilities /\ "fork" \in Capabilities
      /\ TRUE \in BOOLEAN /\ FALSE \in BOOLEAN
  BY DEF Capabilities, Operations
<1>1. SkipCapability(t, op) \in Trackers
  BY <1>0, TrackerUpdates DEF SkipCapability
<1>2. ASSUME NEW answer, NEW l \in Latencies PROVE Outcome(t, op, answer, l) \in Trackers
  <2>1. PICK good \in Trackers : good = PushOutcome(t, TRUE)
    BY <1>0, TrackerUpdates
  <2>2. PICK quick \in Trackers : quick = [good EXCEPT !.latency = l]
    BY TrackerUpdates
  <2>3. PICK ok \in Trackers : ok = MarkCapable(quick, op)
    BY <1>0, TrackerUpdates
  <2>4. MarkCapable(ok, "fork") \in Trackers
    BY <1>0, TrackerUpdates
  <2>5. PICK failed \in Trackers : failed = PushOutcome(t, FALSE)
    BY <1>0, TrackerUpdates
  <2>6. PICK bad \in Trackers : bad = MarkIncapable(failed, op)
    BY <1>0, TrackerUpdates
  <2>7. MarkIncapable(bad, "fork") \in Trackers
    BY <1>0, TrackerUpdates
  <2>8. Outcome(t, op, answer, l) \in {t, ok, MarkCapable(ok, "fork"), bad,
                                      MarkIncapable(bad, "fork"), failed}
    BY <2>1, <2>2, <2>3, <2>5, <2>6 DEF Outcome
  <2> QED BY <2>4, <2>7, <2>8
<1> QED BY <1>1, <1>2

-----------------------------------------------------------------------------
(* The time of an attempt: within what is left, and leaving the floor to   *)
(* every node that follows if there was one for each.                      *)
LEMMA AttemptLeaves ==
    ASSUME NEW left \in Nat, NEW n \in Nat \ {0}
    PROVE  /\ AttemptTimeout(left, n) \in 0 .. left
           /\ n > 1 /\ left >= n * Floor => left - AttemptTimeout(left, n) >= (n - 1) * Floor
<1>0. Floor \in Nat \ {0}
  BY NodeAssumption
<1>1. PICK q \in Nat : q = left \div n
  OBVIOUS
<1>2. n * q <= left
  BY <1>1
<1>3. PICK split \in Nat : split = (IF n <= 1 \/ left \div n = 0 THEN left ELSE left \div n)
  BY <1>1
<1>4. PICK raised \in Nat : raised = (IF split > Floor THEN split ELSE Floor)
  BY <1>0
<1>5. PICK bound : bound = (IF left < raised THEN left ELSE raised)
  OBVIOUS
<1>6. AttemptTimeout(left, n) = bound
  BY <1>3, <1>4, <1>5 DEF AttemptTimeout
<1>7. bound \in 0 .. left
  BY <1>4, <1>5
<1>8. ASSUME n > 1, left >= n * Floor PROVE left - bound >= (n - 1) * Floor
  <2>1. (n - 1) * Floor = n * Floor - Floor
    BY <1>0
  <2>2. q >= Floor
    <3>1. left < n * (q + 1)
      BY <1>1
    <3>2. n * Floor < n * (q + 1)
      BY <1>0, <1>8, <3>1
    <3>3. Floor < q + 1
      BY <1>0, <3>2
    <3> QED BY <1>0, <3>3
  <2>3. split = q
    BY <1>0, <1>1, <1>3, <1>8, <2>2
  <2>4. bound <= q
    BY <1>0, <1>4, <1>5, <2>2, <2>3
  <2>5. left - q >= (n - 1) * q
    <3>1. (n - 1) * q = n * q - q
      OBVIOUS
    <3> QED BY <1>2, <3>1
  <2>6. (n - 1) * q >= (n - 1) * Floor
    <3>1. n - 1 \in Nat
      OBVIOUS
    <3>2. PICK m \in Nat : m = n - 1
      BY <3>1
    <3>3. m * q >= m * Floor
      BY <1>0, <2>2
    <3> QED BY <3>2, <3>3
  <2>7. /\ bound \in Int /\ (n - 1) * q \in Int /\ (n - 1) * Floor \in Int
    BY <1>0, <1>7
  <2> QED BY <2>4, <2>5, <2>6, <2>7
<1> QED BY <1>6, <1>7, <1>8

-----------------------------------------------------------------------------
(* What a call may become.                                                 *)
Sound(r) ==
    /\ r \in CallRecords /\ Distinct(r.list)
    /\ r.op = "v4" => ~r.settled
    /\ r.op \in {"v4", "query"} /\ Budget[r.op] >= NodeCount * Floor => r.left >= Len(r.list) * Floor

(* An idle caller is sound.                                                *)
LEMMA IdleSound == Sound(Idle)
<1>1. Idle \in CallRecords
  <2>1. "idle" \in Operations \cup {"idle"} /\ <<>> \in Seq(Nodes) /\ 0 \in Nat /\ FALSE \in BOOLEAN
    OBVIOUS
  <2> QED BY <2>1, Zenon DEF Idle, CallRecords
<1>2. Idle.op = "idle" /\ Idle.list = <<>>
  BY DEF Idle
<1> QED BY <1>1, <1>2 DEF Sound, Distinct

(* The invariant says so of every caller.                                  *)
LEMMA CallsSound == ASSUME BMInv, NEW c \in Callers PROVE Sound(call[c])
  BY DEF BMInv, Typed, ListsDistinct, OneProducer, Affordable, Sequential, Sound

(* A step that records outcomes and moves one call, if any.                *)
LEMMA CallStep ==
    ASSUME BMInv, NEW c \in Callers, NEW r, Sound(r), call' = [call EXCEPT ![c] = r],
           tracker' \in [Nodes -> Trackers], spoiled' \in 0 .. MaxSpoiled,
           UNCHANGED <<tier, gloas, mended>>
    PROVE  BMInv'
<1>1. call \in [Callers -> CallRecords]
  BY DEF BMInv, Typed
<1>2. call' \in [Callers -> CallRecords] /\ \A d \in Callers : call'[d] = IF d = c THEN r ELSE call[d]
  BY <1>1 DEF Sound
<1>3. \A d \in Callers : Sound(call'[d])
  BY <1>2, CallsSound
<1>4. Typed'
  BY <1>2 DEF BMInv, Typed
<1>5. ListsDistinct' /\ OneProducer' /\ Affordable'
  BY <1>3 DEF ListsDistinct, OneProducer, Affordable, Sequential, Sound
<1> QED BY <1>4, <1>5 DEF BMInv

(* Several outcomes recorded at once.                                      *)
LEMMA RecordTyped ==
    ASSUME Typed, NEW answers, NEW op \in Operations, NEW l \in Latencies
    PROVE  Record(answers, op, l) \in [Nodes -> Trackers]
  BY TrackerSteps DEF Typed, Record

(* What is counted stays within its bound.                                 *)
LEMMA SpoiledTyped ==
    ASSUME BMInv, NEW happens, CountSpoiled(happens)
    PROVE  spoiled' \in 0 .. MaxSpoiled
<1>1. spoiled \in 0 .. MaxSpoiled /\ MaxSpoiled \in Nat
  BY NodeAssumption DEF BMInv, Typed
<1>2. spoiled' \in {spoiled, spoiled + 1} /\ spoiled' <= MaxSpoiled
  BY <1>1 DEF CountSpoiled
<1> QED BY <1>1, <1>2

(* Selecting the candidates keeps the invariant.                           *)
LEMMA SelectStep ==
    ASSUME BMInv, NEW c \in Callers, NEW op \in Operations, Select(c, op)
    PROVE  BMInv'
<1>0. Typed /\ spoiled \in 0 .. MaxSpoiled
  BY DEF BMInv, Typed
<1> DEFINE eligible == TierFiltered(op)
<1>8. eligible \in SUBSET Nodes
  BY DEF TierFiltered, RoleIndices, RoleMatching
<1> HIDE DEF eligible
<1>1. PICK list \in Seq(Nodes) : list = SyncedIndices(eligible, op) /\ Distinct(list)
  BY <1>0, <1>8, SelectionDistinct
<1>2. PICK left \in Nat : left = Budget[op]
  BY BudgetAssumption
<1>3. PICK r : r = [op |-> op, list |-> list, left |-> left, settled |-> FALSE]
  OBVIOUS
<1>4. call' = [call EXCEPT ![c] = r]
  BY <1>1, <1>2, <1>3 DEF Select, eligible
<1>5. Sound(r)
  <2>1. r \in CallRecords
    <3>1. op \in Operations \cup {"idle"} /\ FALSE \in BOOLEAN
      OBVIOUS
    <3> QED BY <1>3, <3>1, Zenon DEF CallRecords
  <2>2. r.op = op /\ r.list = list /\ r.left = left /\ ~r.settled
    BY <1>3
  <2>3. left >= NodeCount * Floor => left >= Len(list) * Floor
    <3>1. Len(list) \in Nat /\ Len(list) <= NodeCount
      BY <1>1, DistinctLength
    <3>2. Len(list) * Floor <= NodeCount * Floor
      BY <3>1, NodeAssumption
    <3> QED BY <3>1, <3>2, NodeAssumption
  <2> QED BY <1>1, <1>2, <2>1, <2>2, <2>3 DEF Sound
<1>6. tracker' \in [Nodes -> Trackers]
  <2>1. AfterSelection(eligible, op) \in [Nodes -> Trackers]
    BY <1>0, TrackerSteps DEF AfterSelection, Typed
  <2> QED BY <2>1 DEF Select, eligible
<1>7. UNCHANGED <<tier, gloas, mended, spoiled>>
  BY DEF Select
<1> QED BY <1>0, <1>4, <1>5, <1>6, <1>7, CallStep

(* An attempt at the next candidate keeps the invariant.                   *)
LEMMA AttemptStep == ASSUME BMInv, NEW c \in Callers, Attempt(c) PROVE BMInv'
<1> DEFINE k == call[c]
           n == Len(k.list)
           i == Head(k.list)
           bound == AttemptTimeout(k.left, n)
<1>1. /\ k \in CallRecords /\ Distinct(k.list) /\ k.op \in {"v4", "query"} /\ k.op \in Operations
      /\ k.list # <<>> /\ k.list \in Seq(Nodes) /\ k.left \in Nat
  BY CallsSound DEF Attempt, Sequential, Sound, CallRecords, Operations
<1>2. n \in Nat \ {0} /\ i \in Nodes
  BY <1>1
<1>4. bound \in 0 .. k.left
  BY <1>1, <1>2, AttemptLeaves
<1>5. PICK answer \in Answers(i, k.op), latency \in Latencies, t \in 0 .. bound :
         LET ends == \/ answer = "block"
                     \/ k.op = "v4" /\ ~ IsProductionFailoverError(answer)
                     \/ n = 1
         IN  /\ answer = "hang" => t = bound
             /\ CountSpoiled(Spoils(k.op, answer))
             /\ tracker' = [tracker EXCEPT ![i] = Outcome(@, k.op, answer, latency)]
             /\ call' = [call EXCEPT ![c] =
                   IF ends THEN Idle
                   ELSE [k EXCEPT !.list = Tail(@), !.left = @ - t,
                                  !.settled = @ \/ Settles(k.op, answer)]]
  BY Zenon DEF Attempt
<1>6. UNCHANGED <<tier, gloas, mended>>
  BY DEF Attempt
<1>7. spoiled' \in 0 .. MaxSpoiled
  BY <1>5, SpoiledTyped
<1>8. tracker' \in [Nodes -> Trackers]
  <2>1. tracker \in [Nodes -> Trackers]
    BY DEF BMInv, Typed
  <2>2. PICK o \in Trackers : o = Outcome(tracker[i], k.op, answer, latency)
    BY <1>1, <2>1, TrackerSteps
  <2>3. tracker' = [tracker EXCEPT ![i] = o]
    BY <1>5, <2>2
  <2> QED BY <2>1, <2>3
<1> DEFINE ends == answer = "block" \/ (k.op = "v4" /\ ~ IsProductionFailoverError(answer)) \/ n = 1
<1>9. CASE ends
  <2>1. call' = [call EXCEPT ![c] = Idle]
    BY <1>5, <1>9
  <2> QED BY <2>1, <1>6, <1>7, <1>8, IdleSound, CallStep
<1>10. CASE ~ends
  <2>1. ~Settles(k.op, answer)
    BY <1>10 DEF Settles, IsProductionFailoverError
  <2>2. PICK list : list = Tail(k.list)
    OBVIOUS
  <2>3. list \in Seq(Nodes) /\ Len(list) = n - 1 /\ Distinct(list)
    BY <1>1, <1>2, <2>2 DEF Distinct
  <2>4. PICK left \in Nat : left = k.left - t
    BY <1>1, <1>4, <1>5
  <2>5. PICK s \in BOOLEAN : s = (k.settled \/ Settles(k.op, answer))
    <3>1. (k.settled \/ Settles(k.op, answer)) \in BOOLEAN
      OBVIOUS
    <3> QED BY <3>1, Zenon
  <2>6. PICK r : r = [k EXCEPT !.list = list, !.left = left, !.settled = s]
    OBVIOUS
  <2>7. call' = [call EXCEPT ![c] = r]
    <3>1. PICK m : /\ call' = [call EXCEPT ![c] = m]
                   /\ m = IF ends THEN Idle
                          ELSE [k EXCEPT !.list = Tail(@), !.left = @ - t,
                                         !.settled = @ \/ Settles(k.op, answer)]
      BY <1>5
    <3>2. m = [k EXCEPT !.list = Tail(@), !.left = @ - t, !.settled = @ \/ Settles(k.op, answer)]
      BY <1>10, <3>1, Zenon
    <3>3. m = r
      BY <2>2, <2>4, <2>5, <2>6, <3>2
    <3> QED BY <3>1, <3>3
  <2>8. r \in CallRecords /\ r.op = k.op /\ r.list = list /\ r.left = left /\ r.settled = s
    BY <1>1, <2>3, <2>6, Zenon DEF CallRecords
  <2>9. k.op = "v4" => ~s
    BY <2>1, <2>5, CallsSound DEF Sound
  <2>10. ASSUME Budget[k.op] >= NodeCount * Floor PROVE left >= (n - 1) * Floor
    <3>1. k.left >= n * Floor
      BY <1>1, <1>2, <2>10, CallsSound DEF Sound
    <3>2. k.left - bound >= (n - 1) * Floor
      <4>0. n # 1
        BY <1>10, Zenon
      <4>2. PICK a \in Nat, b \in Nat \ {0} : a = k.left /\ b = n
        BY <1>1, <1>2
      <4>5. b # 1
        BY <4>0, <4>2
      <4>1. b > 1
        BY <4>5
      <4>6. a >= b * Floor
        BY <3>1, <4>2
      <4>3. a - AttemptTimeout(a, b) >= (b - 1) * Floor
        BY <4>1, <4>6, AttemptLeaves
      <4> QED BY <4>2, <4>3
    <3>3. (n - 1) * Floor \in Int
      BY NodeAssumption
    <3> QED BY <1>1, <1>4, <1>5, <2>4, <3>2, <3>3
  <2>11. Sound(r)
    BY <2>3, <2>8, <2>9, <2>10 DEF Sound
  <2> QED BY <1>6, <1>7, <1>8, <2>7, <2>11, CallStep
<1> QED BY <1>9, <1>10

(* The list of the nodes that were not asked names each of them once.      *)
LEMMA UntriedDistinct ==
    ASSUME NEW S \in SUBSET Nodes
    PROVE  SetToSeq(S) \in Seq(Nodes) /\ Distinct(SetToSeq(S))
<1>1. IsFiniteSet(S)
  BY NodesFinite, FS_Subset
<1>2. PICK n \in Nat : n = Cardinality(S) /\ ExistsBijection(1 .. n, S)
  BY <1>1, FS_CardinalityType, FS_CountingElements
<1>3. PICK g \in [1 .. n -> S] : IsInjective(g)
  BY <1>2 DEF ExistsBijection, Bijection, Injection
<1> DEFINE f == CHOOSE h \in [1 .. n -> S] : IsInjective(h)
<1>4. f \in [1 .. n -> S] /\ IsInjective(f)
  BY <1>3, Zenon
<1>5. SetToSeq(S) = f
  BY <1>2, Zenon DEF SetToSeq
<1> HIDE DEF f
<1>6. f \in Seq(Nodes) /\ Len(f) = n
  BY <1>4
<1>7. Distinct(f)
  BY <1>4, <1>6 DEF Distinct, IsInjective
<1> QED BY <1>5, <1>6, <1>7

(* A call that expires or is cancelled keeps the invariant.                *)
LEMMA EndStep ==
    ASSUME BMInv, NEW c \in Callers, Expire(c) \/ CancelV4(c)
    PROVE  BMInv'
<1>1. call' = [call EXCEPT ![c] = Idle] /\ UNCHANGED <<tracker, tier, gloas, mended, spoiled>>
  BY DEF Expire, CancelV4
<1>2. tracker' \in [Nodes -> Trackers] /\ spoiled' \in 0 .. MaxSpoiled
  BY <1>1 DEF BMInv, Typed
<1> QED BY <1>1, <1>2, IdleSound, CallStep

(* The fallback to nodes that are not synced keeps the invariant.          *)
LEMMA FallbackStep ==
    ASSUME BMInv, NEW c \in Callers, FallbackUnsynced(c)
    PROVE  BMInv'
<1>0. Typed /\ "v3" \in Operations
  BY DEF BMInv, Operations
<1>1. call' = [call EXCEPT ![c] = Idle] /\ UNCHANGED <<tier, gloas, mended>>
  BY DEF FallbackUnsynced
<1>2. \/ tracker' = tracker
      \/ \E answers : \E latency \in Latencies : tracker' = Record(answers, "v3", latency)
  BY Zenon DEF FallbackUnsynced
<1>3. tracker' \in [Nodes -> Trackers]
  BY <1>0, <1>2, RecordTyped DEF Typed
<1>4. spoiled' \in 0 .. MaxSpoiled
  <2>1. \E happens : CountSpoiled(happens)
    BY Zenon DEF FallbackUnsynced
  <2> QED BY <2>1, SpoiledTyped
<1> QED BY <1>1, <1>3, <1>4, IdleSound, CallStep

(* Asking every node of the list at once keeps the invariant.              *)
LEMMA BestStep ==
    ASSUME BMInv, NEW c \in Callers, Best(c)
    PROVE  BMInv'
<1>0. Typed /\ "v3" \in Operations
  BY DEF BMInv, Operations
<1>1. UNCHANGED <<tier, gloas, mended>> /\ call[c].op = "v3"
  BY DEF Best
<1>2. PICK untried : untried = SetToSeq(Nodes \ ToSet(call[c].list))
  OBVIOUS
<1>3. untried \in Seq(Nodes) /\ Distinct(untried)
  BY <1>2, UntriedDistinct
<1>4. PICK r : r = [call[c] EXCEPT !.list = untried, !.settled = TRUE]
  OBVIOUS
<1>5. call' = [call EXCEPT ![c] = Idle] \/ call' = [call EXCEPT ![c] = r]
  BY <1>2, <1>4 DEF Best
<1>6. \/ tracker' = tracker
      \/ \E answers : \E latency \in Latencies : tracker' = Record(answers, "v3", latency)
  BY Zenon DEF Best
<1>7. tracker' \in [Nodes -> Trackers]
  BY <1>0, <1>6, RecordTyped DEF Typed
<1>8. spoiled' \in 0 .. MaxSpoiled
  <2>1. \E happens : CountSpoiled(happens)
    BY Zenon DEF Best
  <2> QED BY <2>1, SpoiledTyped
<1>9. Sound(r)
  <2>1. call[c] \in CallRecords
    BY <1>0 DEF Typed
  <2>2. TRUE \in BOOLEAN
    OBVIOUS
  <2>3. r \in CallRecords /\ r.op = call[c].op /\ r.list = untried
    BY <1>3, <1>4, <2>1, <2>2, Zenon DEF CallRecords
  <2> QED BY <1>1, <1>3, <2>3 DEF Sound
<1> QED BY <1>1, <1>5, <1>7, <1>8, <1>9, IdleSound, CallStep

(* A step that leaves the calls alone.                                     *)
LEMMA SharedStep ==
    ASSUME BMInv, call' = call, Typed'
    PROVE  BMInv'
  BY DEF BMInv, ListsDistinct, OneProducer, Affordable, Sequential

(* A broadcast keeps the invariant.                                        *)
LEMMA BroadcastStep == ASSUME BMInv, Broadcast PROVE BMInv'
<1>0. Typed /\ "prepare" \in Operations
  BY DEF BMInv, Operations
<1>1. UNCHANGED <<tier, call, gloas, mended>>
  BY DEF Broadcast
<1>2. \/ tracker' = tracker
      \/ \E answers : \E latency \in Latencies : tracker' = Record(answers, "prepare", latency)
  BY Zenon DEF Broadcast
<1>3. tracker' \in [Nodes -> Trackers]
  <2>1. \A answers : \A latency \in Latencies : Record(answers, "prepare", latency) \in [Nodes -> Trackers]
    BY <1>0, RecordTyped
  <2>2. tracker \in [Nodes -> Trackers]
    BY <1>0 DEF Typed
  <2> QED BY <1>2, <2>1, <2>2, Zenon
<1>5. spoiled' \in 0 .. MaxSpoiled
  <2>1. \E happens : CountSpoiled(happens)
    BY Zenon DEF Broadcast
  <2> QED BY <2>1, SpoiledTyped
<1>6. Typed'
  BY <1>0, <1>1, <1>3, <1>5 DEF Typed
<1> QED BY <1>1, <1>6, SharedStep

(* The health monitor keeps the invariant.                                 *)
LEMMA MonitorStep ==
    ASSUME BMInv, Poll \/ \E i \in Nodes : Mend(i)
    PROVE  BMInv'
<1>1. call' = call /\ UNCHANGED <<tracker, gloas, spoiled>>
  BY DEF Poll, Mend
<1>2. tier' \in [Nodes -> 0 .. 3] /\ mended' \subseteq Nodes
  <2>1. tier \in [Nodes -> 0 .. 3] /\ mended \subseteq Nodes
    BY DEF BMInv, Typed
  <2> QED BY <2>1, NodeAssumption DEF Poll, Mend
<1>3. Typed'
  BY <1>1, <1>2 DEF BMInv, Typed
<1> QED BY <1>1, <1>3, SharedStep

-----------------------------------------------------------------------------
(* The invariant.                                                          *)

(* The invariant holds at the start.                                       *)
LEMMA BMInvInit == Init => BMInv
<1> SUFFICES ASSUME Init PROVE BMInv
  OBVIOUS
<1>1. NewTracker \in Trackers
  <2>1. PICK skips : skips = [c \in Capabilities |-> Capable]
    OBVIOUS
  <2>2. skips \in Skips
    BY <2>1 DEF Skips, Capable, ReprobeSkip
  <2>3. "none" \in Latencies \cup {"none"} /\ <<>> \in Seq(BOOLEAN)
    OBVIOUS
  <2>4. NewTracker \in [outcomes : Seq(BOOLEAN), latency : Latencies \cup {"none"}, skips : Skips]
    BY <2>1, <2>2, <2>3, Zenon DEF NewTracker
  <2>5. Len(NewTracker.outcomes) <= Window
    BY NodeAssumption DEF NewTracker
  <2> QED BY <2>4, <2>5 DEF Trackers
<1>2. Idle \in CallRecords
  BY IdleSound DEF Sound
<1>3. Typed
  BY <1>1, <1>2, NodeAssumption DEF Init, Typed
<1>4. \A c \in Callers : call[c] = Idle
  BY DEF Init
<1>5. \A c \in Callers : Sound(call[c])
  BY <1>4, IdleSound
<1> QED BY <1>3, <1>5 DEF BMInv, ListsDistinct, OneProducer, Affordable, Sequential, Sound

(* Every step keeps the invariant.                                         *)
LEMMA BMInvStep == BMInv /\ [Next]_vars => BMInv'
<1> SUFFICES ASSUME BMInv, [Next]_vars PROVE BMInv'
  OBVIOUS
<1>1. ASSUME NEW c \in Callers, NEW op \in Operations, Select(c, op) PROVE BMInv'
  BY <1>1, SelectStep
<1>2. ASSUME NEW c \in Callers, Attempt(c) PROVE BMInv'
  BY <1>2, AttemptStep
<1>3. ASSUME NEW c \in Callers, Expire(c) \/ CancelV4(c) PROVE BMInv'
  BY <1>3, EndStep
<1>4. ASSUME NEW c \in Callers, Best(c) PROVE BMInv'
  BY <1>4, BestStep
<1>5. ASSUME NEW c \in Callers, FallbackUnsynced(c) PROVE BMInv'
  BY <1>5, FallbackStep
<1>6. CASE Broadcast
  BY <1>6, BroadcastStep
<1>7. CASE Poll \/ \E i \in Nodes : Mend(i)
  BY <1>7, MonitorStep
<1>8. CASE UNCHANGED vars
  <2>1. Typed'
    BY <1>8 DEF BMInv, Typed, vars
  <2> QED BY <1>8, <2>1, SharedStep DEF vars
<1> QED BY <1>1, <1>2, <1>3, <1>4, <1>5, <1>6, <1>7, <1>8 DEF Next

(* The inductive invariant of the calls and the trackers they share.       *)
THEOREM BMInvariant == Spec => []BMInv
  BY BMInvInit, BMInvStep, PTL DEF Spec

(* Trackers keep at most Window outcomes, a flag has at most one skip      *)
(* left, and a call's list names each node at most once.                   *)
THEOREM BMTypeCorrect == Spec => []BMTypeOK
<1>1. ASSUME BMInv PROVE BMTypeOK
  <2>0. Typed /\ ListsDistinct
    BY <1>1 DEF BMInv
  <2>1. ASSUME NEW i \in Nodes
        PROVE  /\ tracker[i].outcomes \in UNION {[1 .. n -> BOOLEAN] : n \in 0 .. Window}
               /\ tracker[i].latency \in Latencies \union {"none"}
               /\ tracker[i].skips \in [Capabilities -> Capable .. ReprobeSkip]
    <3>1. PICK t \in Trackers : t = tracker[i]
      BY <2>0 DEF Typed
    <3>2. PICK o \in Seq(BOOLEAN) : o = t.outcomes /\ Len(o) <= Window
      BY DEF Trackers
    <3>3. PICK n \in 0 .. Window : n = Len(o)
      BY <3>2, NodeAssumption
    <3>4. o \in [1 .. n -> BOOLEAN]
      BY <3>3
    <3>5. o \in UNION {[1 .. m -> BOOLEAN] : m \in 0 .. Window}
      BY <3>4, Zenon
    <3>6. t.latency \in Latencies \union {"none"} /\ t.skips \in Skips
      BY DEF Trackers
    <3> QED BY <3>1, <3>2, <3>5, <3>6, Zenon DEF Skips
  <2>2. ASSUME NEW c \in Callers
        PROVE  /\ call[c].op \in Operations \union {"idle"}
               /\ ToSet(call[c].list) \subseteq Nodes
               /\ Cardinality(ToSet(call[c].list)) = Len(call[c].list)
    <3>1. PICK k \in CallRecords : k = call[c] /\ Distinct(k.list)
      BY <2>0 DEF Typed, ListsDistinct
    <3>2. k.op \in Operations \union {"idle"} /\ k.list \in Seq(Nodes)
      BY DEF CallRecords
    <3> QED BY <3>1, <3>2, DistinctLength
  <2> QED BY <2>0, <2>1, <2>2 DEF BMTypeOK, Typed
<1> QED BY <1>1, BMInvariant, PTL

(* produce_block_v4 asks no second node after one has answered with a 2xx  *)
(* or with a 4xx it understood.                                            *)
THEOREM SingleProducer == Spec => []OneProducer
  BY BMInvariant, PTL DEF BMInv

(* Where the timeout affords the floor to every node, nodes that hang      *)
(* leave time for those after them, however many there are.                *)
THEOREM CandidatesAsked == Spec => []EveryCandidateAsked
<1>1. ASSUME BMInv PROVE EveryCandidateAsked
  <2> SUFFICES ASSUME NEW c \in Callers, Sequential(c), call[c].list # <<>>,
                      Budget[call[c].op] >= NodeCount * Floor
               PROVE  call[c].left > 0
    BY DEF EveryCandidateAsked
  <2>1. call[c].left \in Nat /\ call[c].list \in Seq(Nodes)
    BY <1>1 DEF BMInv, Typed, CallRecords
  <2>2. call[c].left >= Len(call[c].list) * Floor
    BY <1>1 DEF BMInv, Affordable
  <2>3. PICK n \in Nat \ {0} : n = Len(call[c].list)
    BY <2>1
  <2>4. n * Floor > 0
    BY NodeAssumption
  <2> QED BY <2>1, <2>2, <2>3, <2>4, NodeAssumption
<1> QED BY <1>1, BMInvariant, PTL
=============================================================================
