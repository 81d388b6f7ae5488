-------------------------- MODULE GroupCommitProofs --------------------------
(***************************************************************************)
(* Proofs about GroupCommit, for every number of callers, validators,      *)
(* duties and chains and every batch size: what a caller is told is on     *)
(* durable record, batches never commit slashable rows, no waiting caller  *)
(* is skipped, and the batched commit implements AtomicReserve.            *)
(***************************************************************************)
EXTENDS GroupCommit, SlashingDbProofs, SequenceTheorems, FiniteSetTheorems, TLAPS

-----------------------------------------------------------------------------
(* The inductive invariant.                                                *)

(* The members of the batch that are not answered yet. *)
Unanswered == {i \in DOMAIN batch : stage = "dispatch" => pos < i}

(* A member that no leader has looked at: it has no outcome, and unless    *)
(* its waiter is gone the cancellation flag is down.                       *)
Fresh(t) == /\ call[t].phase \in {"queued", "gone"}
            /\ call[t].outcome = "none"
            /\ call[t].phase = "queued" => ~call[t].cancelled

(* A request is in one place: once in the queue or once in the batch.      *)
InOnePlace ==
    /\ \A i, j \in DOMAIN queue : queue[i] = queue[j] => i = j
    /\ \A i, j \in DOMAIN batch : batch[i] = batch[j] => i = j
    /\ \A i \in DOMAIN queue, j \in Unanswered : queue[i] # batch[j]

CheckedHasNoOutcome == \A t \in Callers : call[t].phase = "checked" => call[t].outcome = "none"

QueueIsFresh == \A i \in DOMAIN queue : Fresh(queue[i])

(* What the leader's variables say in each stage.                          *)
StageInv ==
    /\ stage = "idle" => batch = <<>>
    /\ stage \in {"idle", "drained"} => pos = 0 /\ claims = <<>> /\ ~failed
    /\ stage # "idle" => batch # <<>>
    /\ stage = "dispatch" => pos < Len(batch)
    /\ stage = "drained" => \A i \in DOMAIN batch : Fresh(batch[i])

(* The open transaction: members past pos are fresh; an evaluated member   *)
(* has an outcome unless its waiter is gone, and it is accepted exactly if *)
(* it is one of the claims.                                                *)
EvalInv == stage = "eval" =>
    /\ \A i \in DOMAIN batch : pos < i => Fresh(batch[i])
    /\ \A i \in DOMAIN batch : i <= pos =>
          /\ call[batch[i]].phase \in {"queued", "gone"}
          /\ call[batch[i]].outcome = "none" => call[batch[i]].phase = "gone"
          /\ call[batch[i]].outcome \notin {"failed", "disconnected"}
          /\ call[batch[i]].outcome \in Accepting =>
                \E k \in DOMAIN claims : claims[k] = batch[i]
    /\ \A k \in DOMAIN claims : \E i \in DOMAIN batch : i <= pos /\ claims[k] = batch[i]
    /\ \A k, l \in DOMAIN claims : claims[k] = claims[l] => k = l

(* The rows the k-th claim was checked against, besides the tables.        *)
SeenBy(k) == {Message(claims[j]) : j \in 1 .. k - 1}

VerdictOf(k) == VerdictAfter(SeenBy(k), call[claims[k]].pk, call[claims[k]].duty)

(* Each claim was accepted by the rules after the claims before it, on the *)
(* pinned chain, and its outcome says whether its row is new.              *)
ClaimsAccepted == stage = "eval" =>
    \A k \in DOMAIN claims :
        /\ VerdictOf(k) \in AcceptedAttestation \cup AcceptedBlock
        /\ call[claims[k]].outcome = IF VerdictOf(k) = "Stage" THEN "inserted" ELSE "resigned"
        /\ pin # None => call[claims[k]].chain = pin

(* No two rows slashable together.                                         *)
SafeAtts(R) == \A r, s \in R : (r.target = s.target => r = s) /\ ~Surrounding(r, s)

SafeBlks(R) == \A r, s \in R : r.slot = s.slot => r = s

(* The tables with the rows of the open transaction.                       *)
OpenRowsSafe == stage = "eval" =>
    \A pk \in Pubkeys : /\ SafeAtts(attestations[pk] \cup AttRowsOf(Claimed, pk))
                        /\ SafeBlks(blocks[pk] \cup BlkRowsOf(Claimed, pk))

(* A member about to be answered: an Ok is on record, and only a failed    *)
(* batch leaves a waiting member without an outcome.                       *)
DispatchInv == stage = "dispatch" =>
    \A i \in Unanswered :
        /\ call[batch[i]].phase \in {"queued", "gone"}
        /\ call[batch[i]].outcome # "disconnected"
        /\ call[batch[i]].outcome = "none" /\ call[batch[i]].phase = "queued" => failed
        /\ call[batch[i]].outcome \in Accepting =>
              Covered(call[batch[i]].pk, call[batch[i]].duty)

GCInv == /\ GCTypeOK
         /\ InOnePlace /\ CheckedHasNoOutcome /\ QueueIsFresh
         /\ StageInv /\ EvalInv /\ ClaimsAccepted /\ OpenRowsSafe /\ DispatchInv
         /\ OkIsDurable /\ NoSlashableRows /\ LiveWaiterServed

(* The leadership: whoever holds the flag is about to flush or flushing,   *)
(* and flush_lock has one holder.                                          *)
Leads(t) == lead[t] \in {"claimed", "flushing"}

LeaderInv ==
    /\ \A t \in Callers : call[t].phase \in {"idle", "checked", "gone"} => lead[t] = "no"
    /\ leaderActive <=> \E t \in Callers : Leads(t)
    /\ \A t, u \in Callers : Leads(t) /\ Leads(u) => t = u
    /\ queue # <<>> => leaderActive
    /\ stage # "idle" => \E t \in Callers : lead[t] = "flushing"
    /\ \A t, u \in Callers :
          lead[t] \in {"flushing", "retiring"} /\ lead[u] \in {"flushing", "retiring"} => t = u

-----------------------------------------------------------------------------
(* Sequences and calls.                                                    *)

(* Append adds one element at the end. *)
LEMMA AppendFacts ==
    ASSUME NEW S, NEW s \in Seq(S), NEW x \in S
    PROVE  /\ Append(s, x) \in Seq(S)
           /\ Len(Append(s, x)) = Len(s) + 1
           /\ DOMAIN Append(s, x) = 1 .. Len(s) + 1
           /\ DOMAIN s = 1 .. Len(s) /\ Len(s) \in Nat
           /\ \A i \in 1 .. Len(s) : Append(s, x)[i] = s[i]
           /\ Append(s, x)[Len(s) + 1] = x
BY AppendProperties

(* drain(..n) and what it leaves. *)
LEMMA DrainFacts ==
    ASSUME NEW S, NEW s \in Seq(S), NEW n \in 0 .. Len(s)
    PROVE  /\ SubSeq(s, 1, n) \in Seq(S) /\ Len(SubSeq(s, 1, n)) = n
           /\ DOMAIN SubSeq(s, 1, n) = 1 .. n
           /\ \A i \in 1 .. n : SubSeq(s, 1, n)[i] = s[i]
           /\ SubSeq(s, n + 1, Len(s)) \in Seq(S)
           /\ Len(SubSeq(s, n + 1, Len(s))) = Len(s) - n
           /\ DOMAIN SubSeq(s, n + 1, Len(s)) = 1 .. Len(s) - n
           /\ \A i \in 1 .. Len(s) - n : SubSeq(s, n + 1, Len(s))[i] = s[n + i]
<1>1. Len(s) \in Nat /\ n \in Nat /\ n <= Len(s)
  OBVIOUS
<1> QED BY <1>1

(* A call that is not idle carries a request. *)
LEMMA ActiveIsRequest ==
    ASSUME GCTypeOK, NEW t \in Callers, call[t].phase # "idle"
    PROVE  call[t] \in Requests
BY DEF GCTypeOK, NoCall

(* The members of the batch and the claims are callers. *)
LEMMA MembersAreCallers ==
    ASSUME GCTypeOK
    PROVE  /\ DOMAIN batch = 1 .. Len(batch) /\ Len(batch) \in Nat
           /\ \A i \in DOMAIN batch : batch[i] \in Callers
           /\ DOMAIN queue = 1 .. Len(queue) /\ Len(queue) \in Nat
           /\ \A i \in DOMAIN queue : queue[i] \in Callers
           /\ DOMAIN claims = 1 .. Len(claims) /\ Len(claims) \in Nat
           /\ \A i \in DOMAIN claims : claims[i] \in Callers
           /\ pos \in Nat /\ pos <= Len(batch)
BY DEF GCTypeOK

(* One BEGIN .. COMMIT with several rows keeps the tables well typed. *)
LEMMA InsertAllType ==
    ASSUME DbTypeOK, NEW ms, \A m \in ms : m[2] \in Duties, InsertAll(ms)
    PROVE  DbTypeOK'
<1>1. \A pk \in Pubkeys : AttRowsOf(ms, pk) \subseteq AttRows /\ BlkRowsOf(ms, pk) \subseteq BlkRows
  BY DutyKinds DEF AttRowsOf, BlkRowsOf
<1> QED BY <1>1 DEF DbTypeOK, InsertAll

-----------------------------------------------------------------------------
(* Type correctness.                                                       *)

(* The member the leader looks at next, and every claim, is a request.     *)
LEMMA MembersAreRequests ==
    ASSUME GCInv
    PROVE  /\ \A i \in DOMAIN batch : (stage = "dispatch" => pos < i) =>
                 /\ batch[i] \in Callers
                 /\ call[batch[i]].phase \in {"queued", "gone"}
                 /\ call[batch[i]] \in Requests
           /\ stage = "eval" => \A k \in DOMAIN claims :
                 claims[k] \in Callers /\ call[claims[k]] \in Requests
<1>1. ASSUME NEW i \in DOMAIN batch, stage = "dispatch" => pos < i
      PROVE  /\ batch[i] \in Callers
             /\ call[batch[i]].phase \in {"queued", "gone"}
             /\ call[batch[i]] \in Requests
  <2>1. batch[i] \in Callers
    BY MembersAreCallers DEF GCInv
  <2>2. pos \in Nat /\ i \in Nat
    BY MembersAreCallers DEF GCInv
  <2>3. stage \in {"idle", "drained", "eval", "dispatch"}
    BY DEF GCInv, GCTypeOK
  <2>4. call[batch[i]].phase \in {"queued", "gone"}
    <3>1. CASE stage = "idle"
      BY <3>1 DEF GCInv, StageInv
    <3>2. CASE stage = "drained"
      BY <3>2 DEF GCInv, StageInv, Fresh
    <3>3. CASE stage = "eval"
      BY <3>3, <2>2 DEF GCInv, EvalInv, Fresh
    <3>4. CASE stage = "dispatch"
      BY <1>1, <3>4 DEF GCInv, DispatchInv, Unanswered
    <3> QED BY <2>3, <3>1, <3>2, <3>3, <3>4
  <2> QED BY <2>1, <2>4, ActiveIsRequest DEF GCInv
<1>2. stage = "eval" => \A k \in DOMAIN claims : \E i \in DOMAIN batch : claims[k] = batch[i]
  BY DEF GCInv, EvalInv
<1> QED BY <1>1, <1>2

NextMember == batch[pos + 1]

NextVerdict == VerdictAfter(Claimed, call[NextMember].pk, call[NextMember].duty)

NextAccepted == NextVerdict \in AcceptedAttestation \cup AcceptedBlock

NextOutcome == IF ~NextAccepted \/ pin \notin {None, call[NextMember].chain} THEN "rejected"
               ELSE IF NextVerdict = "Stage" THEN "inserted" ELSE "resigned"

(* What evaluating the next member does, its verdict and outcome named. *)
LEMMA EvalEffect ==
    ASSUME NEW t \in Callers, Eval(t)
    PROVE  /\ lead[t] = "flushing" /\ stage = "eval" /\ pos < Len(batch) /\ ~failed
           /\ pos' = pos + 1
           /\ IF call[NextMember].cancelled THEN UNCHANGED <<call, claims>>
              ELSE /\ call' = [call EXCEPT ![NextMember] =
                        [@ EXCEPT !.outcome = NextOutcome, !.cancelled = NextAccepted]]
                   /\ claims' = IF NextOutcome \in Accepting THEN Append(claims, NextMember)
                                ELSE claims
           /\ UNCHANGED <<dbVars, pin, gvrCache, queue, leaderActive, lead, batch, stage, failed>>
BY DEF Eval, EvalMember, NextMember, NextVerdict, NextAccepted, NextOutcome

(* A failed commit leaves a request all but its outcome. *)
LEMMA FailUpdate ==
    ASSUME NEW r \in Requests,
           NEW n, n = [r EXCEPT !.outcome = "failed"]
    PROVE  /\ n \in Requests
           /\ n.phase = r.phase /\ n.pk = r.pk /\ n.duty = r.duty /\ n.chain = r.chain
           /\ n.outcome = "failed" /\ n.cancelled = r.cancelled
BY DEF Requests, Outcomes

(* What the leader leaves behind when the batch is over. *)
LEMMA NoBatchType ==
    ASSUME NoBatch, BatchSize \in Nat
    PROVE  /\ batch' \in Seq(Callers) /\ Len(batch') <= BatchSize
           /\ stage' = "idle" /\ pos' \in 0 .. Len(batch')
           /\ claims' \in Seq(Callers) /\ failed' \in BOOLEAN
<1>1. <<>> \in Seq(Callers) /\ Len(<<>>) = 0
  OBVIOUS
<1>2. batch' = <<>> /\ stage' = "idle" /\ pos' = 0 /\ claims' = <<>> /\ failed' = FALSE
  BY DEF NoBatch
<1>3. pos' \in 0 .. Len(batch') /\ Len(batch') <= BatchSize
  BY <1>1, <1>2
<1>4. failed' \in BOOLEAN
  BY <1>2
<1> QED BY <1>1, <1>2, <1>3, <1>4

(* Telling members that the commit failed changes their outcome only. *)
LEMMA FailEffect ==
    ASSUME GCTypeOK, NEW S \in SUBSET Callers, Fail(S),
           \A t \in S : call[t] \in Requests
    PROVE  /\ call' \in [Callers -> {NoCall} \cup Requests]
           /\ \A t \in Callers \ S : call'[t] = call[t]
           /\ \A t \in S : /\ call'[t].phase = call[t].phase
                           /\ call'[t].pk = call[t].pk /\ call'[t].duty = call[t].duty
                           /\ call'[t].chain = call[t].chain
                           /\ call'[t].cancelled = call[t].cancelled
                           /\ call'[t].outcome = "failed"
<1> DEFINE f(t) == [call[t] EXCEPT !.outcome = "failed"]
<1>1. call' = [t \in Callers |-> IF t \in S THEN f(t) ELSE call[t]]
  BY DEF Fail
<1>2. \A t \in S : /\ f(t) \in Requests
                  /\ f(t).phase = call[t].phase
                  /\ f(t).pk = call[t].pk /\ f(t).duty = call[t].duty
                  /\ f(t).chain = call[t].chain /\ f(t).cancelled = call[t].cancelled
                  /\ f(t).outcome = "failed"
  BY FailUpdate
<1> HIDE DEF f
<1>3. \A t \in Callers : call[t] \in {NoCall} \cup Requests
  BY DEF GCTypeOK
<1>4. \A t \in Callers : call'[t] = IF t \in S THEN f(t) ELSE call[t]
  BY <1>1
<1>5. call' \in [Callers -> {NoCall} \cup Requests]
  BY <1>1, <1>2, <1>3
<1> QED BY <1>2, <1>4, <1>5

(* The outcome of an evaluation. *)
LEMMA NextOutcomeType ==
    /\ NextOutcome \in {"inserted", "resigned", "rejected"} /\ NextOutcome \in Outcomes
    /\ NextAccepted \in BOOLEAN
BY DEF NextOutcome, Outcomes, NextAccepted

(* The leader's step on the next member changes its outcome only. *)
LEMMA EvalCall ==
    ASSUME GCInv, NEW t \in Callers, Eval(t)
    PROVE  /\ pos + 1 \in DOMAIN batch /\ NextMember \in Callers
           /\ call[NextMember] \in Requests
           /\ call' \in [Callers -> {NoCall} \cup Requests]
           /\ \A u \in Callers : u # NextMember => call'[u] = call[u]
           /\ call'[NextMember] \in Requests
           /\ call'[NextMember].phase = call[NextMember].phase
           /\ call'[NextMember].pk = call[NextMember].pk
           /\ call'[NextMember].duty = call[NextMember].duty
           /\ call'[NextMember].chain = call[NextMember].chain
           /\ ~call[NextMember].cancelled => call'[NextMember].outcome = NextOutcome
           /\ claims' \in Seq(Callers)
<1>1. stage = "eval" /\ pos < Len(batch)
  BY EvalEffect
<1>2. pos + 1 \in DOMAIN batch
  BY <1>1, MembersAreCallers DEF GCInv
<1>3. NextMember \in Callers /\ call[NextMember] \in Requests
  BY <1>1, <1>2, MembersAreRequests DEF NextMember
<1>4. call \in [Callers -> {NoCall} \cup Requests] /\ claims \in Seq(Callers)
  BY DEF GCInv, GCTypeOK
<1>5. CASE call[NextMember].cancelled
  <2>1. call' = call /\ claims' = claims
    BY <1>5, EvalEffect
  <2> QED BY <1>2, <1>3, <1>4, <1>5, <2>1
<1>6. CASE ~call[NextMember].cancelled
  <2>0. PICK n : n = [call[NextMember] EXCEPT !.outcome = NextOutcome, !.cancelled = NextAccepted]
    OBVIOUS
  <2>1. /\ call' = [call EXCEPT ![NextMember] = n]
        /\ claims' = IF NextOutcome \in Accepting THEN Append(claims, NextMember) ELSE claims
    BY <1>6, <2>0, EvalEffect
  <2>2. /\ n \in Requests /\ n.phase = call[NextMember].phase /\ n.pk = call[NextMember].pk
        /\ n.duty = call[NextMember].duty /\ n.chain = call[NextMember].chain
        /\ n.outcome = NextOutcome
    BY <1>3, <2>0, NextOutcomeType DEF Requests
  <2>3. /\ call'[NextMember] = n
        /\ \A u \in Callers : u # NextMember => call'[u] = call[u]
        /\ call' \in [Callers -> {NoCall} \cup Requests]
    BY <1>3, <1>4, <2>1, <2>2
  <2>4. claims' \in Seq(Callers)
    BY <1>3, <1>4, <2>1, AppendFacts
  <2> QED BY <1>2, <1>3, <2>2, <2>3, <2>4
<1> QED BY <1>5, <1>6

(* What a caller's step does to its call, and that it touches no other. *)
LEMMA CallerEffect ==
    ASSUME GCTypeOK, NEW t \in Callers, Caller(t)
    PROVE  /\ UNCHANGED <<dbVars, pin, batch, stage, pos, claims, failed>>
           /\ gvrCache' \in {None, pin}
           /\ call' \in [Callers -> {NoCall} \cup Requests]
           /\ \A u \in Callers : u # t => call'[u] = call[u]
           /\ \/ /\ call[t] = NoCall /\ UNCHANGED <<queue, leaderActive, lead>>
                 /\ \/ call'[t] = NoCall
                    \/ call'[t].phase = "checked" /\ call'[t].outcome = "none"
              \/ /\ call[t].phase = "checked" /\ queue' = Append(queue, t)
                 /\ call'[t].phase = "queued" /\ ~call'[t].cancelled
                 /\ call'[t].outcome = call[t].outcome /\ call'[t].pk = call[t].pk
                 /\ call'[t].duty = call[t].duty /\ call'[t].chain = call[t].chain
                 /\ leaderActive' = TRUE
                 /\ lead' = [lead EXCEPT ![t] = IF leaderActive THEN "no" ELSE "claimed"]
              \/ /\ call[t].phase = "queued" /\ lead[t] = "no"
                 /\ UNCHANGED <<queue, leaderActive, lead>>
                 /\ call'[t].phase = "gone" /\ call'[t].outcome = call[t].outcome
                 /\ call'[t].pk = call[t].pk /\ call'[t].duty = call[t].duty
                 /\ call'[t].chain = call[t].chain
              \/ /\ call[t].phase = "answered" /\ call'[t] = NoCall
                 /\ UNCHANGED <<queue, leaderActive, lead>>
<1>0. /\ call \in [Callers -> {NoCall} \cup Requests]
      /\ gvrCache \in {None, pin}
  BY DEF GCTypeOK
<1>1. ASSUME NEW pk \in Pubkeys, NEW d \in Duties, NEW c \in Chains, CheckGvr(t, pk, d, c)
      PROVE  /\ UNCHANGED <<dbVars, pin, batch, stage, pos, claims, failed, queue, leaderActive, lead>>
             /\ gvrCache' \in {None, pin}
             /\ call' \in [Callers -> {NoCall} \cup Requests]
             /\ \A u \in Callers : u # t => call'[u] = call[u]
             /\ call[t] = NoCall
             /\ \/ call'[t] = NoCall
                \/ call'[t].phase = "checked" /\ call'[t].outcome = "none"
  <2>1. PICK n : n = [phase |-> "checked", pk |-> pk, duty |-> d, chain |-> c,
                      cancelled |-> TRUE, outcome |-> "none"]
    OBVIOUS
  <2>2. n \in Requests /\ n.phase = "checked" /\ n.outcome = "none"
    BY <2>1 DEF Requests, Outcomes
  <2>3. call' = call \/ call' = [call EXCEPT ![t] = n]
    BY <1>1, <2>1 DEF CheckGvr
  <2>4. gvrCache' \in {None, pin}
    BY <1>0, <1>1 DEF CheckGvr
  <2>5. UNCHANGED <<dbVars, pin, batch, stage, pos, claims, failed, queue, leaderActive, lead>>
    BY <1>1 DEF CheckGvr, leaderVars
  <2>6. call[t] = NoCall
    BY <1>1 DEF CheckGvr
  <2> QED BY <1>0, <2>2, <2>3, <2>4, <2>5, <2>6
<1>2. ASSUME Enqueue(t)
      PROVE  /\ UNCHANGED <<dbVars, pin, gvrCache, batch, stage, pos, claims, failed>>
             /\ call[t].phase = "checked" /\ queue' = Append(queue, t)
             /\ leaderActive' = TRUE
             /\ lead' = [lead EXCEPT ![t] = IF leaderActive THEN "no" ELSE "claimed"]
             /\ call' \in [Callers -> {NoCall} \cup Requests]
             /\ \A u \in Callers : u # t => call'[u] = call[u]
             /\ call'[t].phase = "queued" /\ ~call'[t].cancelled
             /\ call'[t].outcome = call[t].outcome /\ call'[t].pk = call[t].pk
             /\ call'[t].duty = call[t].duty /\ call'[t].chain = call[t].chain
  <2>1. PICK n : n = [call[t] EXCEPT !.phase = "queued", !.cancelled = FALSE]
    OBVIOUS
  <2>2. call[t].phase = "checked" /\ call' = [call EXCEPT ![t] = n]
    BY <1>2, <2>1 DEF Enqueue
  <2>3. call[t] \in Requests
    BY <2>2, ActiveIsRequest
  <2>4. n \in Requests /\ n.phase = "queued" /\ n.pk = call[t].pk /\ n.duty = call[t].duty
        /\ n.chain = call[t].chain /\ n.outcome = call[t].outcome /\ n.cancelled = FALSE
    BY <2>1, <2>3 DEF Requests
  <2>5. /\ UNCHANGED <<dbVars, pin, gvrCache, batch, stage, pos, claims, failed>>
        /\ queue' = Append(queue, t) /\ leaderActive' = TRUE
        /\ lead' = [lead EXCEPT ![t] = IF leaderActive THEN "no" ELSE "claimed"]
    BY <1>2 DEF Enqueue
  <2> QED BY <1>0, <2>2, <2>4, <2>5
<1>3. ASSUME Abandon(t)
      PROVE  /\ UNCHANGED <<dbVars, pin, gvrCache, batch, stage, pos, claims, failed>>
             /\ UNCHANGED <<queue, leaderActive, lead>>
             /\ call[t].phase = "queued" /\ lead[t] = "no"
             /\ call' \in [Callers -> {NoCall} \cup Requests]
             /\ \A u \in Callers : u # t => call'[u] = call[u]
             /\ call'[t].phase = "gone" /\ call'[t].outcome = call[t].outcome
             /\ call'[t].pk = call[t].pk /\ call'[t].duty = call[t].duty
             /\ call'[t].chain = call[t].chain
  <2>1. PICK n : n = [call[t] EXCEPT !.phase = "gone", !.cancelled = TRUE]
    OBVIOUS
  <2>2. call[t].phase = "queued" /\ lead[t] = "no" /\ call' = [call EXCEPT ![t] = n]
    BY <1>3, <2>1 DEF Abandon
  <2>3. call[t] \in Requests
    BY <2>2, ActiveIsRequest
  <2>4. n \in Requests /\ n.phase = "gone" /\ n.pk = call[t].pk /\ n.duty = call[t].duty
        /\ n.chain = call[t].chain /\ n.outcome = call[t].outcome
    BY <2>1, <2>3 DEF Requests
  <2>5. UNCHANGED <<dbVars, pin, gvrCache, batch, stage, pos, claims, failed,
                    queue, leaderActive, lead>>
    BY <1>3 DEF Abandon, leaderVars
  <2> QED BY <1>0, <2>2, <2>4, <2>5
<1>4. ASSUME Receive(t)
      PROVE  /\ UNCHANGED <<dbVars, pin, gvrCache, batch, stage, pos, claims, failed>>
             /\ UNCHANGED <<queue, leaderActive, lead>>
             /\ call[t].phase = "answered" /\ call'[t] = NoCall
             /\ call' \in [Callers -> {NoCall} \cup Requests]
             /\ \A u \in Callers : u # t => call'[u] = call[u]
  BY <1>0, <1>4 DEF Receive, leaderVars
<1> QED BY <1>0, <1>1, <1>2, <1>3, <1>4 DEF Caller

DispatchAnswer == IF call[NextMember].outcome # "none" THEN call[NextMember].outcome
                  ELSE IF failed THEN "failed" ELSE "disconnected"

(* What the answer to one member does to its call. *)
LEMMA DispatchEffect ==
    ASSUME GCInv, NEW t \in Callers, Dispatch(t)
    PROVE  /\ stage = "dispatch" /\ pos + 1 \in DOMAIN batch /\ NextMember \in Callers
           /\ pos + 1 \in Unanswered
           /\ call' \in [Callers -> {NoCall} \cup Requests]
           /\ \A u \in Callers : u # NextMember => call'[u] = call[u]
           /\ call[NextMember].phase = "gone" => call'[NextMember] = NoCall
           /\ call[NextMember].phase # "gone" =>
                 /\ call'[NextMember].phase = "answered"
                 /\ call'[NextMember].outcome = DispatchAnswer
                 /\ call'[NextMember].pk = call[NextMember].pk
                 /\ call'[NextMember].duty = call[NextMember].duty
                 /\ call'[NextMember].chain = call[NextMember].chain
           /\ IF pos + 1 = Len(batch) THEN NoBatch
              ELSE pos' = pos + 1 /\ UNCHANGED <<batch, stage, claims, failed>>
           /\ UNCHANGED <<dbVars, pin, gvrCache, queue, leaderActive, lead>>
<1>1. /\ stage = "dispatch"
      /\ IF pos + 1 = Len(batch) THEN NoBatch
         ELSE pos' = pos + 1 /\ UNCHANGED <<batch, stage, claims, failed>>
      /\ UNCHANGED <<dbVars, pin, gvrCache, queue, leaderActive, lead>>
  BY DEF Dispatch
<1>2. pos < Len(batch)
  BY <1>1 DEF GCInv, StageInv
<1>3. pos + 1 \in DOMAIN batch /\ pos < pos + 1
  BY <1>2, MembersAreCallers DEF GCInv
<1>4. NextMember \in Callers /\ call[NextMember] \in Requests
  BY <1>3, MembersAreRequests DEF NextMember
<1>5. call \in [Callers -> {NoCall} \cup Requests]
  BY DEF GCInv, GCTypeOK
<1>6. PICK n : n = [call[NextMember] EXCEPT !.phase = "answered", !.outcome = DispatchAnswer]
  OBVIOUS
<1>7. call' = [call EXCEPT ![NextMember] = IF call[NextMember].phase = "gone" THEN NoCall ELSE n]
  BY <1>6 DEF Dispatch, NextMember, DispatchAnswer
<1>8. DispatchAnswer \in Outcomes
  BY <1>4 DEF DispatchAnswer, Outcomes, Requests
<1>9. /\ n \in Requests /\ n.phase = "answered" /\ n.outcome = DispatchAnswer
      /\ n.pk = call[NextMember].pk /\ n.duty = call[NextMember].duty
      /\ n.chain = call[NextMember].chain
  BY <1>4, <1>6, <1>8 DEF Requests
<1>10. /\ call' \in [Callers -> {NoCall} \cup Requests]
       /\ \A u \in Callers : u # NextMember => call'[u] = call[u]
       /\ call[NextMember].phase = "gone" => call'[NextMember] = NoCall
       /\ call[NextMember].phase # "gone" => call'[NextMember] = n
  BY <1>4, <1>5, <1>7, <1>9
<1> QED BY <1>1, <1>3, <1>4, <1>9, <1>10 DEF Unanswered

(* How many members a drain takes. *)
LEMMA DrainEffect ==
    ASSUME GCTypeOK, NEW t \in Callers, DrainBatch(t)
    PROVE  \E n \in 1 .. Len(queue) :
              /\ n <= BatchSize
              /\ batch' = SubSeq(queue, 1, n)
              /\ queue' = SubSeq(queue, n + 1, Len(queue))
              /\ lead[t] = "flushing" /\ stage = "idle" /\ stage' = "drained"
              /\ UNCHANGED <<dbVars, pin, gvrCache, call, leaderActive, lead, pos, claims, failed>>
<1> DEFINE n == IF Len(queue) < BatchSize THEN Len(queue) ELSE BatchSize
<1>1. Len(queue) \in Nat \ {0} /\ BatchSize \in Nat \ {0}
  <2>1. queue \in Seq(Callers) /\ queue # <<>>
    BY DEF GCTypeOK, DrainBatch
  <2> QED BY <2>1, GroupAssumption
<1>2. n \in 1 .. Len(queue) /\ n <= BatchSize
  BY <1>1
<1>3. /\ batch' = SubSeq(queue, 1, n)
      /\ queue' = SubSeq(queue, n + 1, Len(queue))
      /\ lead[t] = "flushing" /\ stage = "idle" /\ stage' = "drained"
      /\ UNCHANGED <<dbVars, pin, gvrCache, call, leaderActive, lead, pos, claims, failed>>
  BY DEF DrainBatch
<1> QED BY <1>2, <1>3

(* What happens in the database outside the reservations. *)
LEMMA OtherWriterEffect ==
    ASSUME GCTypeOK, OtherWriter
    PROVE  /\ DbTypeOK' /\ stage # "eval"
           /\ UniqueRows => Remembers
           /\ \A pk \in Pubkeys : attestations'[pk] \subseteq attestations[pk]
           /\ \A pk \in Pubkeys : blocks'[pk] \subseteq blocks[pk]
           /\ UNCHANGED <<pin, gvrCache, call, queue, leaderVars>>
<1>0. /\ DbTypeOK
      /\ stage # "eval"
      /\ UNCHANGED <<pin, gvrCache, call, queue, leaderVars>>
  BY DEF OtherWriter, GCTypeOK
<1>1. ASSUME NEW pk \in Pubkeys, NEW s \in BlockFloors, SetBlockWatermark(pk, s)
      PROVE  /\ DbTypeOK' /\ (UniqueRows => Remembers)
             /\ UNCHANGED <<attestations, blocks>>
  <2>1. \E u \in Slots : SetBlockWatermark(pk, u)
    BY <1>1, GroupAssumption
  <2>2. UNCHANGED <<attestations, blocks>>
    BY <1>1 DEF SetBlockWatermark
  <2> QED BY <1>0, <2>1, <2>2, SetWatermarkType, SetWatermarkKeeps
<1>2. ASSUME NEW pk \in Pubkeys, NEW f \in AttestationFloors,
             SetAttestationWatermark(pk, f[1], f[2])
      PROVE  /\ DbTypeOK' /\ (UniqueRows => Remembers)
             /\ UNCHANGED <<attestations, blocks>>
  <2>1. f[1] \in Epochs /\ f[2] \in Epochs
    BY GroupAssumption
  <2>2. \E u, v \in Epochs : SetAttestationWatermark(pk, u, v)
    BY <1>2, <2>1
  <2>3. UNCHANGED <<attestations, blocks>>
    BY <1>2 DEF SetAttestationWatermark
  <2> QED BY <1>0, <2>2, <2>3, SetWatermarkType, SetWatermarkKeeps
<1>3. ASSUME Prune
      PROVE  /\ DbTypeOK' /\ (UniqueRows => Remembers)
             /\ \A pk \in Pubkeys : attestations'[pk] \subseteq attestations[pk]
             /\ \A pk \in Pubkeys : blocks'[pk] \subseteq blocks[pk]
  <2>1. /\ \A pk \in Pubkeys : attestations'[pk] \subseteq attestations[pk]
        /\ \A pk \in Pubkeys : blocks'[pk] \subseteq blocks[pk]
    BY <1>3 DEF Prune
  <2> QED BY <1>0, <1>3, <2>1, PruneType, PruneKeeps
<1> QED BY <1>0, <1>1, <1>2, <1>3 DEF OtherWriter

(* Every step keeps the type invariant. *)
LEMMA GCTypeStep ==
    ASSUME GCInv, [GCNext]_gcVars
    PROVE  GCTypeOK'
<1>0. GCTypeOK
  BY DEF GCInv
<1>1. ASSUME NEW t \in Callers, Caller(t)
      PROVE  GCTypeOK'
  <2>1. /\ UNCHANGED <<dbVars, pin, batch, stage, pos, claims, failed>>
        /\ gvrCache' \in {None, pin}
        /\ call' \in [Callers -> {NoCall} \cup Requests]
        /\ \/ UNCHANGED <<queue, leaderActive, lead>>
           \/ /\ queue' = Append(queue, t) /\ leaderActive' = TRUE
              /\ lead' = [lead EXCEPT ![t] = IF leaderActive THEN "no" ELSE "claimed"]
    BY <1>0, <1>1, CallerEffect
  <2>2. queue' \in Seq(Callers)
    <3>1. queue \in Seq(Callers)
      BY <1>0 DEF GCTypeOK
    <3>2. queue' = queue \/ queue' = Append(queue, t)
      BY <2>1
    <3> QED BY <3>1, <3>2
  <2>3. leaderActive' \in BOOLEAN
    BY <1>0, <2>1 DEF GCTypeOK
  <2>4. lead' \in [Callers -> {"no", "claimed", "flushing", "retiring"}]
    BY <1>0, <2>1 DEF GCTypeOK
  <2> QED BY <1>0, <2>1, <2>2, <2>3, <2>4 DEF GCTypeOK, DbTypeOK, dbVars
<1>2. ASSUME NEW t \in Callers, TakeFlushLock(t) \/ Retire(t) \/ ReleaseFlushLock(t)
      PROVE  GCTypeOK'
  BY <1>0, <1>2 DEF TakeFlushLock, Retire, ReleaseFlushLock, GCTypeOK, DbTypeOK, dbVars
<1>3. ASSUME NEW t \in Callers, DrainBatch(t)
      PROVE  GCTypeOK'
  <2>1. PICK n \in 1 .. Len(queue) :
              /\ n <= BatchSize
              /\ batch' = SubSeq(queue, 1, n)
              /\ queue' = SubSeq(queue, n + 1, Len(queue))
              /\ stage = "idle" /\ stage' = "drained"
              /\ UNCHANGED <<dbVars, pin, gvrCache, call, leaderActive, lead, pos, claims, failed>>
    BY <1>0, <1>3, DrainEffect
  <2>2. queue \in Seq(Callers) /\ Len(queue) \in Nat /\ n \in 0 .. Len(queue) /\ n \in Nat
    BY <1>0 DEF GCTypeOK
  <2>3. batch' \in Seq(Callers) /\ Len(batch') = n /\ queue' \in Seq(Callers)
    BY <2>1, <2>2, DrainFacts
  <2>4. pos' = 0
    BY <2>1 DEF GCInv, StageInv
  <2> QED BY <1>0, <2>1, <2>2, <2>3, <2>4 DEF GCTypeOK, DbTypeOK, dbVars
<1>4. ASSUME NEW t \in Callers, Begin(t) \/ EvalFails(t)
      PROVE  GCTypeOK'
  BY <1>0, <1>4 DEF Begin, EvalFails, GCTypeOK, DbTypeOK, dbVars
<1>5. ASSUME NEW t \in Callers, Eval(t)
      PROVE  GCTypeOK'
  <2>1. /\ pos' = pos + 1 /\ pos < Len(batch)
        /\ UNCHANGED <<dbVars, pin, gvrCache, queue, leaderActive, lead, batch, stage, failed>>
    BY <1>5, EvalEffect
  <2>2. pos' \in 0 .. Len(batch')
    BY <1>0, <2>1, MembersAreCallers
  <2>3. call' \in [Callers -> {NoCall} \cup Requests] /\ claims' \in Seq(Callers)
    BY <1>5, EvalCall
  <2> QED BY <1>0, <2>1, <2>2, <2>3 DEF GCTypeOK, DbTypeOK, dbVars
<1>6. ASSUME NEW t \in Callers, Commit(t)
      PROVE  GCTypeOK'
  <2>1. /\ stage = "eval" /\ InsertAll(Claimed) /\ stage' = "dispatch" /\ pos' = 0
        /\ UNCHANGED <<pin, gvrCache, call, queue, leaderActive, lead, batch, claims, failed>>
    BY <1>6 DEF Commit
  <2>2. \A m \in Claimed : m[2] \in Duties
    BY <2>1, MembersAreRequests DEF Claimed, Message, Requests
  <2>3. DbTypeOK'
    BY <1>0, <2>1, <2>2, InsertAllType DEF GCTypeOK
  <2>4. pos' \in 0 .. Len(batch')
    BY <1>0, <2>1, MembersAreCallers
  <2> QED BY <1>0, <2>1, <2>3, <2>4 DEF GCTypeOK
<1>7. ASSUME NEW t \in Callers, Rollback(t) \/ TxnFails(t)
      PROVE  GCTypeOK'
  <2>0. stage # "dispatch"
    BY <1>7 DEF Rollback, TxnFails
  <2>1. PICK S \in SUBSET Members :
          /\ Fail(S) /\ stage' = "dispatch" /\ pos' = 0 /\ claims' = <<>>
          /\ UNCHANGED <<dbVars, pin, gvrCache, queue, leaderActive, lead, batch>>
    <3>1. CASE Rollback(t)
      BY <3>1 DEF Rollback
    <3>2. CASE TxnFails(t)
      BY <3>2 DEF TxnFails
    <3> QED BY <1>7, <3>1, <3>2
  <2>2. S \in SUBSET Callers /\ \A u \in S : call[u] \in Requests
    BY <2>0, MembersAreRequests DEF Members
  <2>3. call' \in [Callers -> {NoCall} \cup Requests]
    BY <1>0, <2>1, <2>2, FailEffect
  <2>4. pos' \in 0 .. Len(batch')
    BY <1>0, <2>1, MembersAreCallers
  <2>5. failed' \in BOOLEAN
    BY <1>7 DEF Rollback, TxnFails
  <2>6. claims' \in Seq(Callers)
    BY <2>1
  <2> QED BY <1>0, <2>1, <2>3, <2>4, <2>5, <2>6 DEF GCTypeOK, DbTypeOK, dbVars
<1>8. ASSUME NEW t \in Callers, Dispatch(t)
      PROVE  GCTypeOK'
  <2>1. /\ call' \in [Callers -> {NoCall} \cup Requests]
        /\ pos + 1 \in DOMAIN batch /\ stage = "dispatch"
        /\ IF pos + 1 = Len(batch) THEN NoBatch
           ELSE pos' = pos + 1 /\ UNCHANGED <<batch, stage, claims, failed>>
        /\ UNCHANGED <<dbVars, pin, gvrCache, queue, leaderActive, lead>>
    BY <1>8, DispatchEffect
  <2>2. CASE pos + 1 = Len(batch)
    BY <1>0, <2>1, <2>2, NoBatchType, GroupAssumption DEF GCTypeOK, DbTypeOK, dbVars
  <2>3. CASE pos + 1 # Len(batch)
    <3>1. pos' \in 0 .. Len(batch')
      BY <1>0, <2>1, <2>3, MembersAreCallers
    <3> QED BY <1>0, <2>1, <2>3, <3>1 DEF GCTypeOK, DbTypeOK, dbVars
  <2> QED BY <2>2, <2>3
<1>9. ASSUME NEW c \in Chains, SetGenesisValidatorsRoot(c)
      PROVE  GCTypeOK'
  BY <1>0, <1>9 DEF SetGenesisValidatorsRoot, GCTypeOK, DbTypeOK, dbVars, leaderVars
<1>10. CASE OtherWriter
  BY <1>0, <1>10, OtherWriterEffect DEF GCTypeOK, leaderVars
<1>11. CASE Crash
  <2>1. NoBatch /\ UNCHANGED <<dbVars, pin>>
    BY <1>11 DEF Crash
  <2>2. /\ call' \in [Callers -> {NoCall} \cup Requests] /\ gvrCache' = None
        /\ queue' \in Seq(Callers)
        /\ lead' \in [Callers -> {"no", "claimed", "flushing", "retiring"}]
    BY <1>11 DEF Crash
  <2>3. leaderActive' \in BOOLEAN
    BY <1>11 DEF Crash
  <2> QED BY <1>0, <2>1, <2>2, <2>3, NoBatchType, GroupAssumption DEF GCTypeOK, DbTypeOK, dbVars
<1>12. CASE UNCHANGED gcVars
  BY <1>0, <1>12 DEF gcVars, leaderVars, dbVars, GCTypeOK, DbTypeOK
<1> QED BY <1>1, <1>2, <1>3, <1>4, <1>5, <1>6, <1>7, <1>8, <1>9, <1>10, <1>11, <1>12
        DEF GCNext, Flush

-----------------------------------------------------------------------------
(* Steps outside the leader's transaction.                                 *)

(* The rows of the open transaction depend on who asked for what.          *)
LEMMA ClaimsKept ==
    ASSUME GCTypeOK, claims' = claims,
           \A k \in DOMAIN claims : /\ call'[claims[k]].pk = call[claims[k]].pk
                                    /\ call'[claims[k]].duty = call[claims[k]].duty
    PROVE  /\ Claimed' = Claimed
           /\ \A k \in DOMAIN claims : SeenBy(k)' = SeenBy(k)
<1>1. \A k \in DOMAIN claims : Message(claims[k])' = Message(claims[k])
  BY DEF Message
<1>2. \A k \in DOMAIN claims : \A j \in 1 .. k - 1 : j \in DOMAIN claims
  BY MembersAreCallers
<1>3. Claimed' = Claimed
  BY <1>1 DEF Claimed
<1>4. \A k \in DOMAIN claims : SeenBy(k)' = SeenBy(k)
  BY <1>1, <1>2 DEF SeenBy
<1> QED BY <1>3, <1>4

(* The tables unchanged, the rules answer as before. *)
LEMMA VerdictKept ==
    ASSUME NEW ms, NEW pk, NEW d, UNCHANGED dbVars
    PROVE  VerdictAfter(ms, pk, d)' = VerdictAfter(ms, pk, d)
BY DEF VerdictAfter, dbVars

(* A step that leaves the batch alone, changes no member beyond abandoning *)
(* it and invents no answer keeps the invariant, provided that it leaves   *)
(* the database alone while a transaction is open and forgets nothing.     *)
LEMMA OutsideStep ==
    ASSUME GCInv, GCTypeOK', UNCHANGED <<batch, stage, pos, claims, failed>>,
           stage = "eval" => UNCHANGED <<dbVars, pin>>,
           Remembers, NoSlashableRows', InOnePlace', QueueIsFresh', CheckedHasNoOutcome',
           \A i \in DOMAIN batch : (stage = "dispatch" => pos < i) =>
               LET m == batch[i]
               IN  \/ call'[m] = call[m]
                   \/ /\ call'[m].phase = "gone" /\ call'[m].outcome = call[m].outcome
                      /\ call'[m].pk = call[m].pk /\ call'[m].duty = call[m].duty
                      /\ call'[m].chain = call[m].chain,
           \A t \in Callers : call'[t].phase = "answered" => call'[t] = call[t]
    PROVE  GCInv'
<1>0. /\ GCTypeOK /\ stage' = stage /\ batch' = batch /\ pos' = pos /\ claims' = claims
      /\ failed' = failed
  BY DEF GCInv
<1> DEFINE Kept(m) == /\ call'[m].phase \in {call[m].phase, "gone"}
                      /\ call'[m].outcome = call[m].outcome
                      /\ call'[m].pk = call[m].pk /\ call'[m].duty = call[m].duty
                      /\ call'[m].chain = call[m].chain
                      /\ call'[m].phase # "gone" => call'[m] = call[m]
<1>1. \A i \in DOMAIN batch : (stage = "dispatch" => pos < i) => Kept(batch[i])
  OBVIOUS
<1>2. \A i \in DOMAIN batch :
        (stage = "dispatch" => pos < i) => (Fresh(batch[i]) => Fresh(batch[i])')
  BY <1>0, <1>1 DEF Fresh
<1>3. StageInv'
  BY <1>0, <1>2 DEF GCInv, StageInv
<1>4. stage = "eval" => \A k \in DOMAIN claims : Kept(claims[k])
  BY <1>1 DEF GCInv, EvalInv
<1> HIDE DEF Kept
<1>5. EvalInv'
  <2> SUFFICES ASSUME stage = "eval" PROVE EvalInv'
    BY <1>0 DEF EvalInv
  <2>1. \A i \in DOMAIN batch : Kept(batch[i])
    BY <1>1
  <2>2. \A i \in DOMAIN batch : pos < i => Fresh(batch[i])'
    BY <1>2 DEF GCInv, EvalInv
  <2>3. ASSUME NEW i \in DOMAIN batch, i <= pos
        PROVE  /\ call'[batch[i]].phase \in {"queued", "gone"}
               /\ call'[batch[i]].outcome = "none" => call'[batch[i]].phase = "gone"
               /\ call'[batch[i]].outcome \notin {"failed", "disconnected"}
               /\ call'[batch[i]].outcome \in Accepting =>
                     \E k \in DOMAIN claims : claims[k] = batch[i]
    BY <2>1, <2>3 DEF GCInv, EvalInv, Kept
  <2>4. /\ \A k \in DOMAIN claims : \E i \in DOMAIN batch : i <= pos /\ claims[k] = batch[i]
        /\ \A k, l \in DOMAIN claims : claims[k] = claims[l] => k = l
    BY DEF GCInv, EvalInv
  <2> QED BY <1>0, <2>2, <2>3, <2>4 DEF EvalInv
<1>6. ClaimsAccepted'
  <2> SUFFICES ASSUME stage = "eval", NEW k \in DOMAIN claims
               PROVE  /\ VerdictOf(k)' \in AcceptedAttestation \cup AcceptedBlock
                      /\ call'[claims[k]].outcome =
                            IF VerdictOf(k)' = "Stage" THEN "inserted" ELSE "resigned"
                      /\ pin' # None => call'[claims[k]].chain = pin'
    BY <1>0 DEF ClaimsAccepted
  <2>1. /\ call'[claims[k]].outcome = call[claims[k]].outcome
        /\ call'[claims[k]].pk = call[claims[k]].pk
        /\ call'[claims[k]].duty = call[claims[k]].duty
        /\ call'[claims[k]].chain = call[claims[k]].chain
    BY <1>4 DEF Kept
  <2>2. SeenBy(k)' = SeenBy(k)
    BY <1>0, <1>4, ClaimsKept DEF Kept
  <2>3. VerdictOf(k)' = VerdictOf(k)
    BY <1>0, <2>1, <2>2, VerdictKept DEF VerdictOf, VerdictAfter, dbVars
  <2> QED BY <2>1, <2>3 DEF GCInv, ClaimsAccepted
<1>7. OpenRowsSafe'
  <2> SUFFICES ASSUME stage = "eval" PROVE OpenRowsSafe'
    BY <1>0 DEF OpenRowsSafe
  <2>1. Claimed' = Claimed
    BY <1>0, <1>4, ClaimsKept DEF Kept
  <2> QED BY <2>1 DEF GCInv, OpenRowsSafe, dbVars, AttRowsOf, BlkRowsOf
<1>8. DispatchInv'
  <2> SUFFICES ASSUME stage = "dispatch", NEW i \in DOMAIN batch, pos < i
               PROVE  /\ call'[batch[i]].phase \in {"queued", "gone"}
                      /\ call'[batch[i]].outcome # "disconnected"
                      /\ call'[batch[i]].outcome = "none" /\ call'[batch[i]].phase = "queued" => failed
                      /\ call'[batch[i]].outcome \in Accepting =>
                            Covered(call[batch[i]].pk, call[batch[i]].duty)'
    BY <1>0 DEF DispatchInv, Unanswered
  <2>1. /\ call[batch[i]].phase \in {"queued", "gone"}
        /\ call[batch[i]].outcome # "disconnected"
        /\ call[batch[i]].outcome = "none" /\ call[batch[i]].phase = "queued" => failed
        /\ call[batch[i]].outcome \in Accepting => Covered(call[batch[i]].pk, call[batch[i]].duty)
    BY DEF GCInv, DispatchInv, Unanswered
  <2>2. PICK pk \in Pubkeys, d \in Duties : pk = call[batch[i]].pk /\ d = call[batch[i]].duty
    BY MembersAreRequests DEF Requests
  <2>3. call[batch[i]].outcome \in Accepting => Covered(pk, d)'
    BY <2>1, <2>2 DEF Remembers
  <2>4. /\ pk = call'[batch[i]].pk /\ d = call'[batch[i]].duty
        /\ call'[batch[i]].outcome = call[batch[i]].outcome
        /\ call'[batch[i]].phase \in {call[batch[i]].phase, "gone"}
        /\ batch'[i] = batch[i]
    BY <1>0, <1>1, <2>2 DEF Kept
  <2>5. call'[batch[i]].outcome \in Accepting => Covered(call[batch[i]].pk, call[batch[i]].duty)'
    BY <2>3, <2>4 DEF Covered
  <2> QED BY <2>1, <2>4, <2>5
<1>9. OkIsDurable'
  <2> SUFFICES ASSUME NEW t \in Callers, call'[t].phase = "answered", call'[t].outcome \in Accepting
               PROVE  Covered(call[t].pk, call[t].duty)'
    BY DEF OkIsDurable
  <2>1. call'[t] = call[t] /\ call[t].phase = "answered"
    OBVIOUS
  <2>2. PICK pk \in Pubkeys, d \in Duties : pk = call[t].pk /\ d = call[t].duty
    BY <1>0, <2>1, ActiveIsRequest DEF Requests
  <2>3. Covered(pk, d)
    BY <2>1, <2>2 DEF GCInv, OkIsDurable
  <2>4. Covered(pk, d)'
    BY <2>2, <2>3 DEF Remembers
  <2> QED BY <2>1, <2>2, <2>4 DEF Covered
<1>10. LiveWaiterServed'
  BY DEF GCInv, LiveWaiterServed
<1> QED BY <1>3, <1>5, <1>6, <1>7, <1>8, <1>9, <1>10 DEF GCInv

(* A step that leaves the tables alone forgets nothing. *)
LEMMA UnchangedRemembers ==
    ASSUME UNCHANGED dbVars
    PROVE  Remembers
BY DEF Remembers, Covered, dbVars

(* The steps of a caller: early check, enqueue, abandon, receive. *)
LEMMA CallerKeepsInv ==
    ASSUME GCInv, GCTypeOK', NEW t \in Callers, Caller(t)
    PROVE  GCInv'
<1>0. GCTypeOK /\ DOMAIN queue = 1 .. Len(queue) /\ Len(queue) \in Nat
  BY MembersAreCallers DEF GCInv
<1>1. /\ UNCHANGED <<dbVars, pin, batch, stage, pos, claims, failed>>
      /\ \A u \in Callers : u # t => call'[u] = call[u]
      /\ \/ /\ call[t] = NoCall /\ queue' = queue
            /\ \/ call'[t] = NoCall
               \/ call'[t].phase = "checked" /\ call'[t].outcome = "none"
         \/ /\ call[t].phase = "checked" /\ queue' = Append(queue, t)
            /\ call'[t].phase = "queued" /\ ~call'[t].cancelled
            /\ call'[t].outcome = call[t].outcome
         \/ /\ call[t].phase = "queued" /\ queue' = queue
            /\ call'[t].phase = "gone" /\ call'[t].outcome = call[t].outcome
            /\ call'[t].pk = call[t].pk /\ call'[t].duty = call[t].duty
            /\ call'[t].chain = call[t].chain
         \/ call[t].phase = "answered" /\ call'[t] = NoCall /\ queue' = queue
  BY <1>0, CallerEffect
<1>2. NoCall.phase = "idle"
  BY DEF NoCall
<1>3. \A i \in DOMAIN queue : queue[i] \in Callers /\ call[queue[i]].phase \in {"queued", "gone"}
  BY <1>0, MembersAreCallers DEF GCInv, QueueIsFresh, Fresh
<1>4. \A i \in DOMAIN batch : (stage = "dispatch" => pos < i) =>
        batch[i] \in Callers /\ call[batch[i]].phase \in {"queued", "gone"}
  BY MembersAreRequests
<1>5. CheckedHasNoOutcome'
  BY <1>1, <1>2 DEF GCInv, CheckedHasNoOutcome
<1>6. \A u \in Callers : call'[u].phase = "answered" => call'[u] = call[u]
  BY <1>1, <1>2
<1>7. \A i \in DOMAIN batch : (stage = "dispatch" => pos < i) =>
        LET m == batch[i]
        IN  \/ call'[m] = call[m]
            \/ /\ call'[m].phase = "gone" /\ call'[m].outcome = call[m].outcome
               /\ call'[m].pk = call[m].pk /\ call'[m].duty = call[m].duty
               /\ call'[m].chain = call[m].chain
  BY <1>1, <1>2, <1>4
<1>8. \A u \in Callers : Fresh(u) => Fresh(u)'
  BY <1>1, <1>2 DEF Fresh
<1>9. Unanswered' = Unanswered /\ Remembers /\ NoSlashableRows'
  BY <1>1, UnchangedRemembers DEF Unanswered, GCInv, NoSlashableRows, dbVars
<1>10. CASE queue' = queue
  <2>1. QueueIsFresh'
    BY <1>3, <1>8, <1>10 DEF GCInv, QueueIsFresh
  <2>2. InOnePlace'
    BY <1>1, <1>9, <1>10 DEF GCInv, InOnePlace
  <2> QED BY <1>1, <1>5, <1>6, <1>7, <1>9, <2>1, <2>2, OutsideStep
<1>11. CASE call[t].phase = "checked" /\ queue' = Append(queue, t) /\ Fresh(t)'
  <2>0. /\ DOMAIN queue' = 1 .. Len(queue) + 1
        /\ \A i \in DOMAIN queue : queue'[i] = queue[i]
        /\ queue'[Len(queue) + 1] = t
    BY <1>0, <1>11, AppendFacts DEF GCTypeOK
  <2>1. \A i \in DOMAIN queue' : i \in DOMAIN queue \/ i = Len(queue) + 1
    BY <1>0, <2>0
  <2>2. QueueIsFresh'
    BY <1>3, <1>8, <1>11, <2>0, <2>1 DEF GCInv, QueueIsFresh
  <2>3. /\ \A i \in DOMAIN queue : queue[i] # t
        /\ \A i \in Unanswered : batch[i] # t
    BY <1>3, <1>4, <1>11 DEF Unanswered
  <2>4. \A i, j \in DOMAIN queue' : queue'[i] = queue'[j] => i = j
    BY <2>0, <2>1, <2>3 DEF GCInv, InOnePlace
  <2>5. \A i \in DOMAIN queue', j \in Unanswered : queue'[i] # batch[j]
    BY <2>0, <2>1, <2>3 DEF GCInv, InOnePlace
  <2>6. InOnePlace'
    BY <1>1, <1>9, <2>4, <2>5 DEF GCInv, InOnePlace
  <2> QED BY <1>1, <1>5, <1>6, <1>7, <1>9, <2>2, <2>6, OutsideStep
<1> QED BY <1>1, <1>10, <1>11 DEF GCInv, CheckedHasNoOutcome, Fresh

(* The steps that touch neither calls nor batch: the flush lock, the       *)
(* leadership, the pin and the other writers.                              *)
LEMMA BystanderKeepsInv ==
    ASSUME GCInv, GCTypeOK',
           \/ \E t \in Callers : TakeFlushLock(t) \/ Retire(t) \/ ReleaseFlushLock(t)
           \/ \E c \in Chains : SetGenesisValidatorsRoot(c)
           \/ OtherWriter
           \/ UNCHANGED gcVars
    PROVE  GCInv'
<1>0. GCTypeOK /\ UniqueRows
  BY DEF GCInv, NoSlashableRows, UniqueRows
<1>1. /\ UNCHANGED <<call, queue, batch, stage, pos, claims, failed>>
      /\ OtherWriter \/ UNCHANGED dbVars
      /\ stage = "eval" => UNCHANGED <<dbVars, pin>>
  BY DEF TakeFlushLock, Retire, ReleaseFlushLock, SetGenesisValidatorsRoot, OtherWriter,
         gcVars, leaderVars, dbVars
<1>2. Remembers /\ NoSlashableRows'
  <2>1. CASE UNCHANGED dbVars
    BY <2>1, UnchangedRemembers DEF GCInv, NoSlashableRows, dbVars
  <2>2. CASE OtherWriter
    <3>1. /\ Remembers
          /\ \A pk \in Pubkeys : attestations'[pk] \subseteq attestations[pk]
          /\ \A pk \in Pubkeys : blocks'[pk] \subseteq blocks[pk]
      BY <1>0, <2>2, OtherWriterEffect
    <3> QED BY <3>1 DEF GCInv, NoSlashableRows
  <2> QED BY <1>1, <2>1, <2>2
<1>3. InOnePlace' /\ QueueIsFresh' /\ CheckedHasNoOutcome'
  BY <1>1 DEF GCInv, InOnePlace, QueueIsFresh, CheckedHasNoOutcome, Fresh, Unanswered
<1> QED BY <1>1, <1>2, <1>3, OutsideStep

-----------------------------------------------------------------------------
(* The leader's transaction.                                               *)

(* drain_batch moves the head of the queue into the batch. *)
LEMMA DrainKeepsInv ==
    ASSUME GCInv, GCTypeOK', NEW t \in Callers, DrainBatch(t)
    PROVE  GCInv'
<1>0. GCTypeOK /\ queue \in Seq(Callers)
  BY DEF GCInv, GCTypeOK
<1>1. PICK n \in 1 .. Len(queue) :
        /\ batch' = SubSeq(queue, 1, n)
        /\ queue' = SubSeq(queue, n + 1, Len(queue))
        /\ stage = "idle" /\ stage' = "drained"
        /\ UNCHANGED <<dbVars, pin, gvrCache, call, leaderActive, lead, pos, claims, failed>>
  BY <1>0, DrainEffect
<1>2. Len(queue) \in Nat /\ n \in Nat \ {0} /\ n \in 0 .. Len(queue) /\ DOMAIN queue = 1 .. Len(queue)
  BY <1>0
<1>3. /\ Len(batch') = n /\ DOMAIN batch' = 1 .. n
      /\ \A i \in 1 .. n : batch'[i] = queue[i]
      /\ DOMAIN queue' = 1 .. Len(queue) - n
      /\ \A i \in 1 .. Len(queue) - n : queue'[i] = queue[n + i]
  BY <1>0, <1>1, <1>2, DrainFacts
<1>4. /\ \A i \in 1 .. n : i \in DOMAIN queue
      /\ \A i \in 1 .. Len(queue) - n : n + i \in DOMAIN queue
  BY <1>2
<1>5. \A i \in DOMAIN queue : /\ call'[queue[i]].phase \in {"queued", "gone"}
                              /\ call'[queue[i]].outcome = "none"
                              /\ call'[queue[i]].phase = "queued" => ~call'[queue[i]].cancelled
  BY <1>1 DEF GCInv, QueueIsFresh, Fresh
<1>6. QueueIsFresh' /\ \A i \in DOMAIN batch' : Fresh(batch[i])'
  BY <1>3, <1>4, <1>5 DEF QueueIsFresh, Fresh
<1>7. InOnePlace'
  <2>1. \A i, j \in DOMAIN queue : queue[i] = queue[j] => i = j
    BY DEF GCInv, InOnePlace
  <2>2. \A i, j \in DOMAIN queue' : queue'[i] = queue'[j] => i = j
    BY <1>2, <1>3, <1>4, <2>1
  <2>3. \A i, j \in DOMAIN batch' : batch'[i] = batch'[j] => i = j
    BY <1>2, <1>3, <1>4, <2>1
  <2>4. ASSUME NEW i \in DOMAIN queue', NEW j \in DOMAIN batch', queue'[i] = batch'[j]
        PROVE  FALSE
    <3>1. queue[n + i] = queue[j] /\ n + i \in DOMAIN queue /\ j \in DOMAIN queue
      BY <1>3, <1>4, <2>4
    <3>2. n + i = j
      BY <2>1, <3>1
    <3> QED BY <1>2, <1>3, <3>2
  <2>5. Unanswered' \subseteq DOMAIN batch'
    BY DEF Unanswered
  <2> QED BY <2>2, <2>3, <2>4, <2>5 DEF InOnePlace
<1>8. StageInv'
  <2>1. pos = 0 /\ claims = <<>> /\ ~failed
    BY <1>1 DEF GCInv, StageInv
  <2>2. batch' # <<>>
    BY <1>2, <1>3
  <2> QED BY <1>1, <1>6, <2>1, <2>2 DEF StageInv
<1>9. EvalInv' /\ ClaimsAccepted' /\ OpenRowsSafe' /\ DispatchInv'
  BY <1>1 DEF EvalInv, ClaimsAccepted, OpenRowsSafe, DispatchInv
<1>10. CheckedHasNoOutcome' /\ LiveWaiterServed' /\ NoSlashableRows'
  BY <1>1 DEF GCInv, CheckedHasNoOutcome, LiveWaiterServed, NoSlashableRows, dbVars
<1>11. OkIsDurable'
  BY <1>1 DEF GCInv, OkIsDurable, Covered, dbVars
<1> QED BY <1>6, <1>7, <1>8, <1>9, <1>10, <1>11 DEF GCInv

(* BEGIN: nothing is evaluated, nothing claimed. *)
LEMMA BeginKeepsInv ==
    ASSUME GCInv, GCTypeOK', NEW t \in Callers, Begin(t)
    PROVE  GCInv'
<1>1. /\ stage = "drained" /\ stage' = "eval"
      /\ UNCHANGED <<dbVars, pin, gvrCache, call, queue, leaderActive, lead, batch, pos,
                     claims, failed>>
  BY DEF Begin
<1>2. /\ pos = 0 /\ claims = <<>> /\ ~failed /\ batch # <<>>
      /\ \A i \in DOMAIN batch : Fresh(batch[i])
  BY <1>1 DEF GCInv, StageInv
<1>3. DOMAIN claims = {} /\ DOMAIN batch \subseteq Nat \ {0}
  BY <1>2, MembersAreCallers DEF GCInv
<1>4. InOnePlace' /\ QueueIsFresh' /\ CheckedHasNoOutcome'
  BY <1>1 DEF GCInv, InOnePlace, QueueIsFresh, CheckedHasNoOutcome, Fresh, Unanswered
<1>5. StageInv'
  BY <1>1, <1>2 DEF StageInv
<1>6. EvalInv'
  BY <1>1, <1>2, <1>3 DEF EvalInv, Fresh
<1>7. ClaimsAccepted' /\ DispatchInv'
  BY <1>1, <1>3 DEF ClaimsAccepted, DispatchInv
<1>8. OpenRowsSafe'
  <2>1. Claimed' = {}
    BY <1>1, <1>3 DEF Claimed
  <2>2. \A pk \in Pubkeys : AttRowsOf(Claimed, pk)' = {} /\ BlkRowsOf(Claimed, pk)' = {}
    BY <2>1 DEF AttRowsOf, BlkRowsOf
  <2> QED BY <1>1, <2>2 DEF GCInv, NoSlashableRows, OpenRowsSafe, SafeAtts, SafeBlks, dbVars
<1>9. OkIsDurable' /\ NoSlashableRows' /\ LiveWaiterServed'
  BY <1>1 DEF GCInv, OkIsDurable, Covered, NoSlashableRows, LiveWaiterServed, dbVars
<1> QED BY <1>4, <1>5, <1>6, <1>7, <1>8, <1>9 DEF GCInv

(* A statement fails: the transaction is only marked. *)
LEMMA EvalFailsKeepsInv ==
    ASSUME GCInv, GCTypeOK', NEW t \in Callers, EvalFails(t)
    PROVE  GCInv'
<1>1. /\ stage = "eval"
      /\ UNCHANGED <<dbVars, pin, gvrCache, call, queue, leaderActive, lead, batch, stage, pos,
                     claims>>
  BY DEF EvalFails
<1>2. InOnePlace' /\ QueueIsFresh' /\ CheckedHasNoOutcome' /\ StageInv' /\ EvalInv'
  BY <1>1 DEF GCInv, InOnePlace, QueueIsFresh, CheckedHasNoOutcome, Fresh, Unanswered,
              StageInv, EvalInv
<1>3. Claimed' = Claimed /\ \A k \in DOMAIN claims : SeenBy(k)' = SeenBy(k)
  BY <1>1, ClaimsKept DEF GCInv
<1>4. \A k \in DOMAIN claims : VerdictOf(k)' = VerdictOf(k)
  BY <1>1, <1>3 DEF VerdictOf, VerdictAfter, dbVars
<1>5. ClaimsAccepted'
  BY <1>1, <1>4 DEF GCInv, ClaimsAccepted
<1>6. OpenRowsSafe'
  BY <1>1, <1>3 DEF GCInv, OpenRowsSafe, dbVars, AttRowsOf, BlkRowsOf
<1>7. DispatchInv'
  BY <1>1 DEF DispatchInv
<1>8. OkIsDurable' /\ NoSlashableRows' /\ LiveWaiterServed'
  BY <1>1 DEF GCInv, OkIsDurable, Covered, NoSlashableRows, LiveWaiterServed, dbVars
<1> QED BY <1>2, <1>5, <1>6, <1>7, <1>8 DEF GCInv

(* A crash loses everything but the tables. *)
LEMMA CrashKeepsInv ==
    ASSUME GCInv, GCTypeOK', Crash
    PROVE  GCInv'
<1>1. /\ call' = [t \in Callers |-> NoCall] /\ queue' = <<>>
      /\ batch' = <<>> /\ stage' = "idle" /\ pos' = 0 /\ claims' = <<>> /\ failed' = FALSE
      /\ UNCHANGED <<dbVars, pin>>
  BY DEF Crash, NoBatch
<1>2. NoCall.phase = "idle" /\ \A t \in Callers : call'[t].phase = "idle"
  BY <1>1 DEF NoCall
<1>3. DOMAIN queue' = {} /\ DOMAIN batch' = {}
  BY <1>1
<1>4. InOnePlace' /\ QueueIsFresh'
  BY <1>3 DEF InOnePlace, QueueIsFresh, Unanswered
<1>5. CheckedHasNoOutcome' /\ OkIsDurable' /\ LiveWaiterServed'
  BY <1>2 DEF CheckedHasNoOutcome, OkIsDurable, LiveWaiterServed
<1>6. StageInv' /\ EvalInv' /\ ClaimsAccepted' /\ OpenRowsSafe' /\ DispatchInv'
  BY <1>1 DEF StageInv, EvalInv, ClaimsAccepted, OpenRowsSafe, DispatchInv
<1>7. NoSlashableRows'
  BY <1>1 DEF GCInv, NoSlashableRows, dbVars
<1> QED BY <1>4, <1>5, <1>6, <1>7 DEF GCInv

(* An attestation that check_attestation accepts against rows that are     *)
(* safe together is safe with them.                                        *)
LEMMA AcceptedAttIsSafe ==
    ASSUME NEW R \in SUBSET AttRows, SafeAtts(R), NEW c \in Duties, c.kind = "att",
           NEW ws, NEW wt,
           CheckAttestation(R, ws, wt, AttRow(c), Strict) \in AcceptedAttestation \cup AcceptedBlock
    PROVE  SafeAtts(R \cup {AttRow(c)})
<1>1. /\ AttRow(c).source = c.source /\ AttRow(c).target = c.target /\ AttRow(c).root = c
      /\ c.source \in Nat /\ c.target \in Nat
  BY DutyKinds, NumbersAssumption DEF AttRow
<1>2. \A r \in R : SameRoot(r.root, AttRow(c).root, Strict) => r.root = c
  BY <1>1 DEF SameRoot
<1>3. /\ (\E r \in R : r.target = c.target) => \E r \in R : r.target = c.target /\ r.root = c
      /\ \A r \in R : ~Surrounding(AttRow(c), r) /\ ~Surrounded(AttRow(c), r)
  BY <1>1, <1>2 DEF CheckAttestation, AcceptedAttestation, AcceptedBlock
<1>4. \A r \in R : r.root = c => r = AttRow(c)
  <2> SUFFICES ASSUME NEW r \in R, r.root = c PROVE r = AttRow(c)
    OBVIOUS
  <2> QED BY DutiesAssumption DEF AttRows, AttRow
<1>5. \A r \in R : r.target = c.target => r = AttRow(c)
  BY <1>3, <1>4 DEF SafeAtts
<1>6. \A r \in R : ~Surrounding(AttRow(c), r) /\ ~Surrounding(r, AttRow(c))
  BY <1>3 DEF Surrounding, Surrounded
<1>7. ~Surrounding(AttRow(c), AttRow(c))
  BY <1>1 DEF Surrounding
<1> QED BY <1>1, <1>5, <1>6, <1>7 DEF SafeAtts

(* The same for a block. *)
LEMMA AcceptedBlkIsSafe ==
    ASSUME NEW R \in SUBSET BlkRows, SafeBlks(R), NEW c \in Duties, c.kind = "block",
           NEW wm,
           CheckBlock(R, wm, BlkRow(c), Strict) \in AcceptedAttestation \cup AcceptedBlock
    PROVE  SafeBlks(R \cup {BlkRow(c)})
<1>1. BlkRow(c).slot = c.slot /\ BlkRow(c).root = c
  BY DEF BlkRow
<1>2. \A r \in R : SameRoot(r.root, BlkRow(c).root, Strict) => r.root = c
  BY <1>1 DEF SameRoot
<1>3. (\E r \in R : r.slot = c.slot) => \E r \in R : r.slot = c.slot /\ r.root = c
  BY <1>1, <1>2 DEF CheckBlock, AcceptedAttestation, AcceptedBlock
<1>4. \A r \in R : r.root = c => r = BlkRow(c)
  <2> SUFFICES ASSUME NEW r \in R, r.root = c PROVE r = BlkRow(c)
    OBVIOUS
  <2> QED BY DutiesAssumption DEF BlkRows, BlkRow
<1>5. \A r \in R : r.slot = c.slot => r = BlkRow(c)
  BY <1>3, <1>4 DEF SafeBlks
<1> QED BY <1>1, <1>5 DEF SafeBlks

(* A message the rules accept after those of an open transaction joins it  *)
(* without making its rows slashable with each other or with the tables.   *)
LEMMA AcceptedJoins ==
    ASSUME DbTypeOK, NEW ms, \A m \in ms : m[2] \in Duties,
           NEW pk \in Pubkeys, NEW d \in Duties,
           VerdictAfter(ms, pk, d) \in AcceptedAttestation \cup AcceptedBlock,
           NEW k \in Pubkeys,
           SafeAtts(attestations[k] \cup AttRowsOf(ms, k)),
           SafeBlks(blocks[k] \cup BlkRowsOf(ms, k)),
           NEW ns, ns = ms \cup {<<pk, d>>}
    PROVE  /\ SafeAtts(attestations[k] \cup AttRowsOf(ns, k))
           /\ SafeBlks(blocks[k] \cup BlkRowsOf(ns, k))
<1> DEFINE A == attestations[k] \cup AttRowsOf(ms, k)
           B == blocks[k] \cup BlkRowsOf(ms, k)
<1>1. A \in SUBSET AttRows /\ B \in SUBSET BlkRows
  BY DutyKinds DEF DbTypeOK, AttRowsOf, BlkRowsOf
<1>2. /\ \A r : r \in AttRowsOf(ns, k) <=>
           r \in AttRowsOf(ms, k) \/ (k = pk /\ d.kind = "att" /\ r = AttRow(d))
      /\ \A r : r \in BlkRowsOf(ns, k) <=>
           r \in BlkRowsOf(ms, k) \/ (k = pk /\ d.kind = "block" /\ r = BlkRow(d))
  <2>1. <<pk, d>>[1] = pk /\ <<pk, d>>[2] = d
    OBVIOUS
  <2>2. \A r : r \in AttRowsOf(ns, k) <=>
           r \in AttRowsOf(ms, k) \/ (k = pk /\ d.kind = "att" /\ r = AttRow(d))
    BY <2>1 DEF AttRowsOf
  <2>3. \A r : r \in BlkRowsOf(ns, k) <=>
           r \in BlkRowsOf(ms, k) \/ (k = pk /\ d.kind = "block" /\ r = BlkRow(d))
    BY <2>1 DEF BlkRowsOf
  <2> QED BY <2>2, <2>3
<1>3. CASE k = pk /\ d.kind = "att"
  <2>1. CheckAttestation(A, watermarks[k].source, watermarks[k].target, AttRow(d), Strict)
          \in AcceptedAttestation \cup AcceptedBlock
    BY <1>3 DEF VerdictAfter
  <2>2. SafeAtts(A \cup {AttRow(d)})
    BY <1>1, <1>3, <2>1, AcceptedAttIsSafe
  <2>3. /\ attestations[k] \cup AttRowsOf(ns, k) = A \cup {AttRow(d)}
        /\ blocks[k] \cup BlkRowsOf(ns, k) = B
    BY <1>2, <1>3
  <2> QED BY <2>2, <2>3
<1>4. CASE k = pk /\ d.kind = "block"
  <2>1. CheckBlock(B, watermarks[k].block, BlkRow(d), Strict) \in AcceptedAttestation \cup AcceptedBlock
    BY <1>4 DEF VerdictAfter
  <2>2. SafeBlks(B \cup {BlkRow(d)})
    BY <1>1, <1>4, <2>1, AcceptedBlkIsSafe
  <2>3. /\ blocks[k] \cup BlkRowsOf(ns, k) = B \cup {BlkRow(d)}
        /\ attestations[k] \cup AttRowsOf(ns, k) = A
    BY <1>2, <1>4
  <2> QED BY <2>2, <2>3
<1>5. CASE k # pk
  <2>1. /\ attestations[k] \cup AttRowsOf(ns, k) = A
        /\ blocks[k] \cup BlkRowsOf(ns, k) = B
    BY <1>2, <1>5
  <2> QED BY <2>1
<1> QED BY <1>3, <1>4, <1>5, DutyKinds

(* One round of the loop in commit_batch keeps the invariant. *)
LEMMA EvalKeepsInv ==
    ASSUME GCInv, GCTypeOK', NEW t \in Callers, Eval(t)
    PROVE  GCInv'
<1> DEFINE m == NextMember
<1>1. /\ stage = "eval" /\ pos < Len(batch) /\ ~failed /\ pos' = pos + 1
      /\ UNCHANGED <<dbVars, pin, gvrCache, queue, leaderActive, lead, batch, stage, failed>>
  BY EvalEffect
<1>2. /\ pos + 1 \in DOMAIN batch /\ m \in Callers /\ call[m] \in Requests
      /\ \A u \in Callers : u # m => call'[u] = call[u]
      /\ call'[m].phase = call[m].phase /\ call'[m].pk = call[m].pk
      /\ call'[m].duty = call[m].duty /\ call'[m].chain = call[m].chain
      /\ ~call[m].cancelled => call'[m].outcome = NextOutcome
  BY EvalCall
<1>3. /\ DOMAIN batch = 1 .. Len(batch) /\ Len(batch) \in Nat /\ pos \in Nat
      /\ DOMAIN claims = 1 .. Len(claims) /\ Len(claims) \in Nat /\ claims \in Seq(Callers)
      /\ \A i \in DOMAIN batch : batch[i] \in Callers
      /\ \A i \in DOMAIN queue : queue[i] \in Callers
      /\ \A k \in DOMAIN claims : claims[k] \in Callers
  BY MembersAreCallers DEF GCInv, GCTypeOK
<1>4. Fresh(m) /\ m = batch[pos + 1]
  BY <1>1, <1>2, <1>3 DEF GCInv, EvalInv, NextMember
<1>5. /\ \A i \in DOMAIN batch : i # pos + 1 => batch[i] # m
      /\ \A k \in DOMAIN claims : claims[k] # m
      /\ \A i \in DOMAIN queue : queue[i] # m
  <2>1. \A i \in DOMAIN batch : i # pos + 1 => batch[i] # m
    BY <1>2, <1>4 DEF GCInv, InOnePlace
  <2>2. \A k \in DOMAIN claims : \E i \in DOMAIN batch : i <= pos /\ claims[k] = batch[i]
    BY <1>1 DEF GCInv, EvalInv
  <2>3. \A k \in DOMAIN claims : claims[k] # m
    BY <1>3, <2>1, <2>2
  <2>4. pos + 1 \in Unanswered
    BY <1>1, <1>2 DEF Unanswered
  <2> QED BY <1>4, <2>1, <2>3, <2>4 DEF GCInv, InOnePlace
<1>6. call[m].cancelled => call[m].phase = "gone" /\ call' = call /\ claims' = claims
  BY <1>4, EvalEffect DEF Fresh
<1>7. ~call[m].cancelled =>
        claims' = IF NextOutcome \in Accepting THEN Append(claims, m) ELSE claims
  BY EvalEffect
<1> HIDE DEF m
<1>8. InOnePlace' /\ QueueIsFresh' /\ CheckedHasNoOutcome' /\ StageInv'
  <2>1. InOnePlace'
    BY <1>1 DEF GCInv, InOnePlace, Unanswered
  <2>2. QueueIsFresh'
    BY <1>1, <1>2, <1>3, <1>5 DEF GCInv, QueueIsFresh, Fresh
  <2>3. CheckedHasNoOutcome'
    BY <1>2, <1>4 DEF GCInv, CheckedHasNoOutcome, Fresh
  <2>4. StageInv'
    BY <1>1 DEF GCInv, StageInv
  <2> QED BY <2>1, <2>2, <2>3, <2>4
<1>9. OkIsDurable' /\ NoSlashableRows' /\ LiveWaiterServed' /\ DispatchInv'
  <2>1. call'[m].phase # "answered"
    BY <1>2, <1>4 DEF Fresh
  <2>2. OkIsDurable' /\ LiveWaiterServed'
    BY <1>1, <1>2, <2>1 DEF GCInv, OkIsDurable, LiveWaiterServed, Covered, dbVars
  <2> QED BY <1>1, <2>2 DEF GCInv, NoSlashableRows, DispatchInv, dbVars
<1>10. CASE claims' = claims /\ (call[m].cancelled \/ NextOutcome \notin Accepting)
  <2>1. call'[m].outcome \notin Accepting
    BY <1>2, <1>4, <1>6, <1>10 DEF Fresh, Accepting
  <2>2. EvalInv'
    <3>1. \A i \in DOMAIN batch : pos' < i => Fresh(batch[i])'
      BY <1>1, <1>2, <1>3, <1>5 DEF GCInv, EvalInv, Fresh
    <3>2. ASSUME NEW i \in DOMAIN batch, i <= pos'
          PROVE  /\ call'[batch[i]].phase \in {"queued", "gone"}
                 /\ call'[batch[i]].outcome = "none" => call'[batch[i]].phase = "gone"
                 /\ call'[batch[i]].outcome \notin {"failed", "disconnected"}
                 /\ call'[batch[i]].outcome \in Accepting =>
                       \E k \in DOMAIN claims : claims[k] = batch[i]
      <4>1. CASE i = pos + 1
        BY <1>2, <1>4, <1>6, <2>1, <4>1, NextOutcomeType DEF Fresh
      <4>2. CASE i # pos + 1
        <5>1. i <= pos /\ call'[batch[i]] = call[batch[i]]
          BY <1>1, <1>2, <1>3, <1>5, <3>2, <4>2
        <5> QED BY <1>1, <5>1 DEF GCInv, EvalInv
      <4> QED BY <4>1, <4>2
    <3>3. /\ \A k \in DOMAIN claims : \E i \in DOMAIN batch : i <= pos' /\ claims[k] = batch[i]
          /\ \A k, l \in DOMAIN claims : claims[k] = claims[l] => k = l
      BY <1>1, <1>3 DEF GCInv, EvalInv
    <3> QED BY <1>1, <1>10, <3>1, <3>2, <3>3 DEF EvalInv
  <2>3. \A k \in DOMAIN claims : call'[claims[k]] = call[claims[k]]
    BY <1>2, <1>3, <1>5
  <2>4. Claimed' = Claimed /\ \A k \in DOMAIN claims : SeenBy(k)' = SeenBy(k)
    BY <1>10, <2>3, ClaimsKept DEF GCInv
  <2>5. \A k \in DOMAIN claims : VerdictOf(k)' = VerdictOf(k)
    BY <1>1, <1>10, <2>3, <2>4 DEF VerdictOf, VerdictAfter, dbVars
  <2>6. ClaimsAccepted'
    BY <1>1, <1>10, <2>3, <2>5 DEF GCInv, ClaimsAccepted
  <2>7. OpenRowsSafe'
    BY <1>1, <2>4 DEF GCInv, OpenRowsSafe, dbVars, AttRowsOf, BlkRowsOf
  <2> QED BY <1>8, <1>9, <2>2, <2>6, <2>7 DEF GCInv
<1>11. CASE ~call[m].cancelled /\ NextOutcome \in Accepting /\ claims' = Append(claims, m)
  <2>0. PICK n \in Nat : n = Len(claims) + 1
    BY <1>3
  <2>1. /\ DOMAIN claims' = 1 .. n
        /\ \A k \in DOMAIN claims : claims'[k] = claims[k]
        /\ claims'[n] = m
        /\ \A k \in DOMAIN claims' : k \in DOMAIN claims \/ k = n
        /\ n \in DOMAIN claims' /\ \A k \in DOMAIN claims : k \in DOMAIN claims'
    BY <1>2, <1>3, <1>11, <2>0, AppendFacts
  <2>2. \A k \in DOMAIN claims : call'[claims[k]] = call[claims[k]]
    BY <1>2, <1>3, <1>5
  <2>3. EvalInv'
    <3>1. \A i \in DOMAIN batch : pos' < i => Fresh(batch[i])'
      BY <1>1, <1>2, <1>3, <1>5 DEF GCInv, EvalInv, Fresh
    <3>2. ASSUME NEW i \in DOMAIN batch, i <= pos'
          PROVE  /\ call'[batch[i]].phase \in {"queued", "gone"}
                 /\ call'[batch[i]].outcome = "none" => call'[batch[i]].phase = "gone"
                 /\ call'[batch[i]].outcome \notin {"failed", "disconnected"}
                 /\ call'[batch[i]].outcome \in Accepting =>
                       \E k \in DOMAIN claims' : claims'[k] = batch[i]
      <4>1. CASE i = pos + 1
        BY <1>2, <1>4, <1>11, <2>1, <4>1, NextOutcomeType DEF Fresh
      <4>2. CASE i # pos + 1
        <5>1. i <= pos /\ call'[batch[i]] = call[batch[i]]
          BY <1>1, <1>2, <1>3, <1>5, <3>2, <4>2
        <5>2. call[batch[i]].outcome \in Accepting => \E k \in DOMAIN claims : claims[k] = batch[i]
          BY <1>1, <5>1 DEF GCInv, EvalInv
        <5> QED BY <1>1, <2>1, <5>1, <5>2 DEF GCInv, EvalInv
      <4> QED BY <4>1, <4>2
    <3>3. \A k \in DOMAIN claims' : \E i \in DOMAIN batch : i <= pos' /\ claims'[k] = batch[i]
      BY <1>1, <1>2, <1>3, <1>4, <2>1 DEF GCInv, EvalInv
    <3>4. \A k, l \in DOMAIN claims' : claims'[k] = claims'[l] => k = l
      BY <1>1, <1>5, <2>1 DEF GCInv, EvalInv
    <3> QED BY <1>1, <3>1, <3>2, <3>3, <3>4 DEF EvalInv
  <2>4. /\ \A k \in DOMAIN claims : Message(claims[k])' = Message(claims[k])
        /\ Message(claims[n])' = Message(m)
    BY <1>2, <2>1, <2>2 DEF Message
  <2>5. Claimed' = Claimed \cup {Message(m)}
    BY <2>1, <2>4 DEF Claimed
  <2>6. \A k \in DOMAIN claims : SeenBy(k)' = SeenBy(k)
    BY <1>3, <2>4 DEF SeenBy
  <2>7. SeenBy(n)' = Claimed
    <3>1. 1 .. n - 1 = DOMAIN claims
      BY <1>3, <2>0
    <3> QED BY <2>4, <3>1 DEF SeenBy, Claimed
  <2>8. VerdictOf(n)' = NextVerdict
    BY <1>1, <1>2, <2>1, <2>7 DEF VerdictOf, NextVerdict, VerdictAfter, dbVars, m
  <2>9. \A k \in DOMAIN claims : VerdictOf(k)' = VerdictOf(k)
    BY <1>1, <2>1, <2>2, <2>6 DEF VerdictOf, VerdictAfter, dbVars
  <2>10. /\ NextVerdict \in AcceptedAttestation \cup AcceptedBlock
         /\ NextOutcome = IF NextVerdict = "Stage" THEN "inserted" ELSE "resigned"
         /\ pin # None => call[m].chain = pin
    BY <1>11 DEF NextOutcome, NextAccepted, Accepting, m
  <2>11. ClaimsAccepted'
    BY <1>1, <1>2, <1>11, <2>1, <2>2, <2>8, <2>9, <2>10 DEF GCInv, ClaimsAccepted
  <2>12. OpenRowsSafe'
    <3>1. \A x \in Claimed : x[2] \in Duties
      BY <1>1, MembersAreRequests DEF Claimed, Message, Requests
    <3>2. PICK pk \in Pubkeys, d \in Duties : pk = call[m].pk /\ d = call[m].duty
      BY <1>2 DEF Requests
    <3>3. PICK ms : ms = Claimed
      OBVIOUS
    <3>4. PICK ns : ns = Claimed'
      OBVIOUS
    <3>5. ns = ms \cup {<<pk, d>>}
      BY <2>5, <3>2, <3>3, <3>4 DEF Message
    <3>6. VerdictAfter(ms, pk, d) \in AcceptedAttestation \cup AcceptedBlock
      BY <2>10, <3>2, <3>3 DEF NextVerdict, m
    <3>7. ASSUME NEW k \in Pubkeys
          PROVE  /\ SafeAtts(attestations[k] \cup AttRowsOf(ns, k))
                 /\ SafeBlks(blocks[k] \cup BlkRowsOf(ns, k))
      <4>1. /\ SafeAtts(attestations[k] \cup AttRowsOf(ms, k))
            /\ SafeBlks(blocks[k] \cup BlkRowsOf(ms, k))
        BY <1>1, <3>3 DEF GCInv, OpenRowsSafe
      <4>2. DbTypeOK
        BY DEF GCInv, GCTypeOK
      <4> QED BY <3>1, <3>3, <3>5, <3>6, <4>1, <4>2, AcceptedJoins
    <3> QED BY <1>1, <3>4, <3>7 DEF OpenRowsSafe, dbVars, AttRowsOf, BlkRowsOf
  <2> QED BY <1>8, <1>9, <2>3, <2>11, <2>12 DEF GCInv
<1> QED BY <1>6, <1>7, <1>10, <1>11

(* COMMIT adds rows and forgets nothing; the rows it adds are on record.   *)
LEMMA InsertAllCovers ==
    ASSUME DbTypeOK, NEW ms, InsertAll(ms)
    PROVE  /\ Remembers
           /\ \A pk \in Pubkeys, d \in Duties : <<pk, d>> \in ms => Covered(pk, d)'
<1>1. /\ \A pk \in Pubkeys : attestations'[pk] = attestations[pk] \cup AttRowsOf(ms, pk)
      /\ \A pk \in Pubkeys : blocks'[pk] = blocks[pk] \cup BlkRowsOf(ms, pk)
      /\ watermarks' = watermarks
  BY DEF InsertAll
<1>2. Remembers
  BY <1>1 DEF Remembers, Covered
<1>3. ASSUME NEW pk \in Pubkeys, NEW d \in Duties, <<pk, d>> \in ms
      PROVE  Covered(pk, d)'
  <2>1. <<pk, d>>[1] = pk /\ <<pk, d>>[2] = d
    OBVIOUS
  <2>2. CASE d.kind = "att"
    <3>1. AttRow(d) \in AttRowsOf(ms, pk)
      BY <1>3, <2>1, <2>2 DEF AttRowsOf
    <3> QED BY <1>1, <2>2, <3>1 DEF Covered
  <2>3. CASE d.kind = "block"
    <3>1. BlkRow(d) \in BlkRowsOf(ms, pk)
      BY <1>3, <2>1, <2>3 DEF BlkRowsOf
    <3> QED BY <1>1, <2>3, <3>1 DEF Covered
  <2> QED BY <2>2, <2>3, DutyKinds
<1> QED BY <1>2, <1>3

(* The transaction commits: what the members will be told is on record. *)
LEMMA CommitKeepsInv ==
    ASSUME GCInv, GCTypeOK', NEW t \in Callers, Commit(t)
    PROVE  GCInv'
<1>1. /\ stage = "eval" /\ pos = Len(batch) /\ InsertAll(Claimed)
      /\ stage' = "dispatch" /\ pos' = 0
      /\ UNCHANGED <<pin, gvrCache, call, queue, leaderActive, lead, batch, claims, failed>>
  BY DEF Commit
<1>2. /\ GCTypeOK /\ DbTypeOK /\ DOMAIN batch = 1 .. Len(batch) /\ Len(batch) \in Nat
      /\ batch # <<>> /\ batch \in Seq(Callers)
  BY <1>1, MembersAreCallers DEF GCInv, GCTypeOK, StageInv
<1>3. Unanswered' = DOMAIN batch /\ Unanswered = DOMAIN batch
  BY <1>1, <1>2 DEF Unanswered
<1>4. InOnePlace' /\ QueueIsFresh' /\ CheckedHasNoOutcome' /\ LiveWaiterServed'
  BY <1>1, <1>3 DEF GCInv, InOnePlace, QueueIsFresh, CheckedHasNoOutcome, Fresh, LiveWaiterServed
<1>5. StageInv'
  <2>1. Len(batch) # 0
    BY <1>2
  <2> QED BY <1>1, <1>2, <2>1 DEF StageInv
<1>6. EvalInv' /\ ClaimsAccepted' /\ OpenRowsSafe'
  BY <1>1 DEF EvalInv, ClaimsAccepted, OpenRowsSafe
<1>7. Remembers /\ \A pk \in Pubkeys, d \in Duties : <<pk, d>> \in Claimed => Covered(pk, d)'
  BY <1>1, <1>2, InsertAllCovers
<1>8. DispatchInv'
  <2> SUFFICES ASSUME NEW i \in DOMAIN batch
               PROVE  /\ call[batch[i]].phase \in {"queued", "gone"}
                      /\ call[batch[i]].outcome # "disconnected"
                      /\ call[batch[i]].outcome = "none" => call[batch[i]].phase # "queued"
                      /\ call[batch[i]].outcome \in Accepting =>
                            Covered(call[batch[i]].pk, call[batch[i]].duty)'
    BY <1>1, <1>3 DEF DispatchInv
  <2>1. /\ call[batch[i]].phase \in {"queued", "gone"}
        /\ call[batch[i]].outcome # "disconnected"
        /\ call[batch[i]].outcome = "none" => call[batch[i]].phase = "gone"
        /\ call[batch[i]].outcome \in Accepting => \E k \in DOMAIN claims : claims[k] = batch[i]
    BY <1>1, <1>2 DEF GCInv, EvalInv
  <2>2. PICK pk \in Pubkeys, d \in Duties : pk = call[batch[i]].pk /\ d = call[batch[i]].duty
    BY <1>1, MembersAreRequests DEF Requests
  <2>3. (\E k \in DOMAIN claims : claims[k] = batch[i]) => <<pk, d>> \in Claimed
    BY <2>2 DEF Claimed, Message
  <2>4. call[batch[i]].outcome \in Accepting => Covered(pk, d)'
    BY <1>7, <2>1, <2>3
  <2>5. call[batch[i]].outcome \in Accepting =>
           Covered(call[batch[i]].pk, call[batch[i]].duty)'
    BY <1>1, <2>2, <2>4 DEF Covered
  <2> QED BY <2>1, <2>5
<1>9. OkIsDurable'
  <2> SUFFICES ASSUME NEW u \in Callers, call[u].phase = "answered", call[u].outcome \in Accepting
               PROVE  Covered(call[u].pk, call[u].duty)'
    BY <1>1 DEF OkIsDurable
  <2>1. PICK pk \in Pubkeys, d \in Duties : pk = call[u].pk /\ d = call[u].duty
    BY <1>2, ActiveIsRequest DEF Requests
  <2>2. Covered(pk, d)
    BY <2>1 DEF GCInv, OkIsDurable
  <2>3. Covered(pk, d)'
    BY <1>7, <2>2 DEF Remembers
  <2> QED BY <1>1, <2>1, <2>3 DEF Covered
<1>10. NoSlashableRows'
  <2>1. /\ \A pk \in Pubkeys : attestations'[pk] = attestations[pk] \cup AttRowsOf(Claimed, pk)
        /\ \A pk \in Pubkeys : blocks'[pk] = blocks[pk] \cup BlkRowsOf(Claimed, pk)
    BY <1>1 DEF InsertAll
  <2>2. \A pk \in Pubkeys : SafeAtts(attestations'[pk]) /\ SafeBlks(blocks'[pk])
    BY <1>1, <2>1 DEF GCInv, OpenRowsSafe
  <2> QED BY <2>2 DEF NoSlashableRows, SafeAtts, SafeBlks
<1> QED BY <1>4, <1>5, <1>6, <1>8, <1>9, <1>10 DEF GCInv

(* The transaction is rolled back: nobody is told Ok. *)
LEMMA RollbackKeepsInv ==
    ASSUME GCInv, GCTypeOK', NEW t \in Callers, Rollback(t) \/ TxnFails(t)
    PROVE  GCInv'
<1>1. /\ stage \in {"drained", "eval"} /\ stage' = "dispatch" /\ pos' = 0 /\ claims' = <<>>
      /\ UNCHANGED <<dbVars, pin, gvrCache, queue, leaderActive, lead, batch>>
  BY DEF Rollback, TxnFails
<1>2. /\ GCTypeOK /\ DOMAIN batch = 1 .. Len(batch) /\ Len(batch) \in Nat
      /\ batch # <<>> /\ batch \in Seq(Callers)
      /\ \A i \in DOMAIN queue : queue[i] \in Callers
  BY <1>1, MembersAreCallers DEF GCInv, GCTypeOK, StageInv
<1>3. \A i \in DOMAIN batch :
        /\ batch[i] \in Callers /\ call[batch[i]] \in Requests
        /\ call[batch[i]].phase \in {"queued", "gone"}
  BY <1>1, MembersAreRequests
<1>4. Unanswered' = DOMAIN batch /\ Unanswered = DOMAIN batch
  BY <1>1, <1>2 DEF Unanswered
<1>5. PICK S \in SUBSET Members :
        /\ Fail(S)
        /\ \/ S = Members /\ failed'
           \/ /\ S = {m \in Members : call[m].outcome \in Accepting}
              /\ stage = "eval" /\ failed' = (failed \/ claims # <<>>)
              /\ failed \/ pos = Len(batch)
  <2>1. CASE Rollback(t)
    BY <2>1 DEF Rollback
  <2>2. CASE TxnFails(t)
    BY <2>2 DEF TxnFails
  <2> QED BY <2>1, <2>2
<1>6. Members \subseteq Callers /\ \A u \in Members : call[u] \in Requests
  BY <1>3 DEF Members
<1>7. /\ \A u \in Callers : u \notin S => call'[u] = call[u]
      /\ \A u \in S : /\ call'[u].phase = call[u].phase
                      /\ call'[u].pk = call[u].pk /\ call'[u].duty = call[u].duty
                      /\ call'[u].outcome = "failed"
  <2>1. S \in SUBSET Callers /\ \A u \in S : call[u] \in Requests
    BY <1>5, <1>6
  <2> QED BY <1>2, <1>5, <2>1, FailEffect
<1>8. \A i \in DOMAIN queue : queue[i] \notin Members
  BY <1>4 DEF GCInv, InOnePlace, Members
<1>9. \A u \in Members : call[u].phase \in {"queued", "gone"}
  BY <1>3 DEF Members
<1>10. InOnePlace' /\ QueueIsFresh' /\ CheckedHasNoOutcome' /\ LiveWaiterServed'
  <2>1. InOnePlace'
    BY <1>1, <1>4 DEF GCInv, InOnePlace
  <2>2. QueueIsFresh'
    BY <1>1, <1>2, <1>5, <1>7, <1>8 DEF GCInv, QueueIsFresh, Fresh
  <2>3. CheckedHasNoOutcome' /\ LiveWaiterServed'
    BY <1>5, <1>7, <1>9 DEF GCInv, CheckedHasNoOutcome, LiveWaiterServed
  <2> QED BY <2>1, <2>2, <2>3
<1>11. StageInv'
  <2>1. Len(batch) # 0
    BY <1>2
  <2> QED BY <1>1, <1>2, <2>1 DEF StageInv
<1>12. EvalInv' /\ ClaimsAccepted' /\ OpenRowsSafe'
  BY <1>1 DEF EvalInv, ClaimsAccepted, OpenRowsSafe
<1>13. DispatchInv'
  <2> SUFFICES ASSUME NEW i \in DOMAIN batch
               PROVE  /\ call'[batch[i]].phase \in {"queued", "gone"}
                      /\ call'[batch[i]].outcome # "disconnected"
                      /\ call'[batch[i]].outcome = "none" /\ call'[batch[i]].phase = "queued"
                            => failed'
                      /\ call'[batch[i]].outcome \notin Accepting
    BY <1>1, <1>4 DEF DispatchInv
  <2>1. batch[i] \in Members /\ batch[i] \in Callers
    BY <1>3 DEF Members
  <2>2. call'[batch[i]].phase \in {"queued", "gone"}
    BY <1>3, <1>5, <1>7, <2>1
  <2>3. CASE batch[i] \in S
    BY <1>7, <2>2, <2>3 DEF Accepting
  <2>4. CASE batch[i] \notin S
    <3>1. /\ call'[batch[i]] = call[batch[i]] /\ stage = "eval"
          /\ call[batch[i]].outcome \notin Accepting
          /\ failed' = (failed \/ claims # <<>>)
          /\ failed \/ pos = Len(batch)
      BY <1>5, <1>7, <2>1, <2>4
    <3>2. CASE i <= pos
      <4>1. /\ call[batch[i]].outcome # "disconnected"
            /\ call[batch[i]].outcome = "none" => call[batch[i]].phase = "gone"
        BY <3>1, <3>2 DEF GCInv, EvalInv
      <4> QED BY <2>2, <3>1, <4>1
    <3>3. CASE pos < i
      <4>1. call[batch[i]].outcome = "none"
        BY <3>1, <3>3 DEF GCInv, EvalInv, Fresh
      <4>2. failed'
        <5>1. pos # Len(batch)
          BY <1>2, <3>3, MembersAreCallers
        <5>2. failed
          BY <3>1, <5>1
        <5> QED BY <3>1, <5>2, Zenon
      <4> QED BY <2>2, <3>1, <4>1, <4>2
    <3>4. pos \in Nat /\ i \in Nat
      BY <1>2, MembersAreCallers
    <3> QED BY <3>2, <3>3, <3>4
  <2> QED BY <2>3, <2>4
<1>14. OkIsDurable' /\ NoSlashableRows'
  <2>1. \A u \in Callers : call'[u].phase = "answered" => call'[u] = call[u]
    BY <1>5, <1>7, <1>9
  <2>2. OkIsDurable'
    BY <1>1, <2>1 DEF GCInv, OkIsDurable, Covered, dbVars
  <2> QED BY <1>1, <2>2 DEF GCInv, NoSlashableRows, dbVars
<1> QED BY <1>10, <1>11, <1>12, <1>13, <1>14 DEF GCInv

(* One member is answered: an Ok was on record before it is told, and a    *)
(* member that still waits has an outcome or shares in the failure.        *)
LEMMA DispatchKeepsInv ==
    ASSUME GCInv, GCTypeOK', NEW t \in Callers, Dispatch(t)
    PROVE  GCInv'
<1>m. PICK m : m = NextMember
  OBVIOUS
<1>0. UNCHANGED <<attestations, blocks, watermarks>>
  BY DEF Dispatch, dbVars
<1>1. /\ stage = "dispatch" /\ pos + 1 \in DOMAIN batch /\ m \in Callers
      /\ pos + 1 \in Unanswered
      /\ \A u \in Callers : u # m => call'[u] = call[u]
      /\ call[m].phase = "gone" => call'[m] = NoCall
      /\ call[m].phase # "gone" =>
            /\ call'[m].phase = "answered" /\ call'[m].outcome = DispatchAnswer
            /\ call'[m].pk = call[m].pk /\ call'[m].duty = call[m].duty
      /\ UNCHANGED <<dbVars, pin, gvrCache, queue, leaderActive, lead>>
  BY <1>m, DispatchEffect
<1>2. /\ batch' = <<>> /\ stage' = "idle" /\ pos' = 0 /\ claims' = <<>> /\ failed' = FALSE
      \/ /\ pos + 1 # Len(batch) /\ pos' = pos + 1
         /\ UNCHANGED <<batch, stage, claims, failed>>
  BY DispatchEffect DEF NoBatch
<1>3. m = batch[pos + 1]
  BY <1>m DEF NextMember
<1>4. /\ DOMAIN batch = 1 .. Len(batch) /\ Len(batch) \in Nat /\ pos \in Nat
      /\ \A i \in DOMAIN batch : batch[i] \in Callers
      /\ \A i \in DOMAIN queue : queue[i] \in Callers
  BY MembersAreCallers DEF GCInv
<1>5. \A i \in DOMAIN queue : queue[i] # m
  BY <1>1, <1>3 DEF GCInv, InOnePlace
<1>6. NoCall.phase = "idle"
  BY DEF NoCall
<1>7. /\ call[m].phase \in {"queued", "gone"}
      /\ call[m].outcome # "disconnected"
      /\ call[m].outcome = "none" /\ call[m].phase = "queued" => failed
      /\ call[m].outcome \in Accepting => Covered(call[m].pk, call[m].duty)
  BY <1>1, <1>3 DEF GCInv, DispatchInv
<1>8. /\ call'[m].phase \in {"idle", "answered"}
      /\ call'[m].phase = "answered" => call[m].phase = "queued"
  BY <1>1, <1>6, <1>7
<1>9. QueueIsFresh' /\ CheckedHasNoOutcome'
  <2>1. QueueIsFresh'
    BY <1>1, <1>4, <1>5 DEF GCInv, QueueIsFresh, Fresh
  <2> QED BY <1>1, <1>8, <2>1 DEF GCInv, CheckedHasNoOutcome
<1>10. EvalInv' /\ ClaimsAccepted' /\ OpenRowsSafe'
  <2>1. stage' # "eval"
    BY <1>1, <1>2
  <2> QED BY <2>1 DEF EvalInv, ClaimsAccepted, OpenRowsSafe
<1>11. InOnePlace' /\ StageInv' /\ DispatchInv'
  <2>1. CASE batch' = <<>> /\ stage' = "idle" /\ pos' = 0 /\ claims' = <<>> /\ failed' = FALSE
    <3>1. DOMAIN batch' = {} /\ Unanswered' = {}
      BY <2>1 DEF Unanswered
    <3>2. InOnePlace'
      BY <1>1, <3>1 DEF GCInv, InOnePlace
    <3>3. StageInv'
      BY <2>1 DEF StageInv
    <3> QED BY <2>1, <3>2, <3>3 DEF DispatchInv
  <2>2. CASE /\ pos + 1 # Len(batch) /\ pos' = pos + 1
             /\ UNCHANGED <<batch, stage, claims, failed>>
    <3>1. \A i \in Unanswered' : i \in Unanswered /\ i \in DOMAIN batch /\ i # pos + 1
      <4>1. stage = "dispatch" /\ stage' = "dispatch" /\ pos' = pos + 1 /\ batch' = batch
        BY <1>1, <2>2
      <4> QED BY <1>4, <4>1 DEF Unanswered
    <3>2. InOnePlace'
      BY <1>1, <2>2, <3>1 DEF GCInv, InOnePlace
    <3>3. StageInv'
      <4>1. batch # <<>>
        BY <1>1 DEF GCInv, StageInv
      <4>2. pos + 1 < Len(batch)
        <5>1. pos + 1 \in 1 .. Len(batch) /\ pos + 1 # Len(batch)
          BY <1>1, <1>4, <2>2
        <5>2. pos \in Nat /\ Len(batch) \in Nat
          BY <1>4
        <5>3. \A p, n \in Nat : p + 1 \in 1 .. n /\ p + 1 # n => p + 1 < n
          OBVIOUS
        <5> QED BY <5>1, <5>2, <5>3
      <4>3. stage' = "dispatch" /\ batch' = batch /\ pos' = pos + 1
        BY <1>1, <2>2
      <4> QED BY <4>1, <4>2, <4>3 DEF StageInv
    <3>4. \A i \in Unanswered' : call'[batch[i]] = call[batch[i]]
      BY <1>1, <1>3, <1>4, <3>1 DEF GCInv, InOnePlace
    <3>5. DispatchInv'
      <4> SUFFICES ASSUME NEW i \in Unanswered'
                   PROVE  /\ call'[batch[i]].phase \in {"queued", "gone"}
                          /\ call'[batch[i]].outcome # "disconnected"
                          /\ call'[batch[i]].outcome = "none" /\ call'[batch[i]].phase = "queued"
                                => failed
                          /\ call'[batch[i]].outcome \in Accepting =>
                                Covered(call[batch[i]].pk, call[batch[i]].duty)'
        BY <2>2 DEF DispatchInv
      <4>1. i \in Unanswered /\ call'[batch[i]] = call[batch[i]] /\ batch'[i] = batch[i]
        BY <2>2, <3>1, <3>4
      <4>2. /\ call[batch[i]].phase \in {"queued", "gone"}
            /\ call[batch[i]].outcome # "disconnected"
            /\ call[batch[i]].outcome = "none" /\ call[batch[i]].phase = "queued" => failed
            /\ call[batch[i]].outcome \in Accepting =>
                  Covered(call[batch[i]].pk, call[batch[i]].duty)
        BY <1>1, <4>1 DEF GCInv, DispatchInv
      <4>3. Covered(call[batch[i]].pk, call[batch[i]].duty) =>
              Covered(call[batch[i]].pk, call[batch[i]].duty)'
        BY <1>0, <4>1 DEF Covered
      <4> QED BY <4>1, <4>2, <4>3
    <3> QED BY <3>2, <3>3, <3>5
  <2> QED BY <1>2, <2>1, <2>2
<1>12. ASSUME call'[m].phase = "answered"
       PROVE  /\ call'[m].outcome = DispatchAnswer
              /\ DispatchAnswer # "disconnected"
              /\ DispatchAnswer \in Accepting => call[m].outcome \in Accepting
  <2>1. call[m].phase = "queued" /\ call'[m].outcome = DispatchAnswer
    BY <1>1, <1>8, <1>12
  <2> QED BY <1>m, <1>7, <2>1 DEF DispatchAnswer, Accepting
<1>13. OkIsDurable'
  <2> SUFFICES ASSUME NEW u \in Callers, call'[u].phase = "answered", call'[u].outcome \in Accepting
               PROVE  Covered(call[u].pk, call[u].duty)'
    BY DEF OkIsDurable
  <2>1. CASE u = m
    <3>1. Covered(call[m].pk, call[m].duty)
      <4>1. call[m].outcome \in Accepting
        BY <1>12, <2>1
      <4> QED BY <1>7, <4>1
    <3>2. call'[m].pk = call[m].pk /\ call'[m].duty = call[m].duty
      BY <1>1, <1>8, <2>1
    <3> QED BY <1>0, <2>1, <3>1, <3>2 DEF Covered
  <2>2. CASE u # m
    <3>1. call'[u] = call[u]
      BY <1>1, <2>2
    <3> QED BY <1>0, <3>1 DEF GCInv, OkIsDurable, Covered
  <2> QED BY <2>1, <2>2
<1>14. LiveWaiterServed' /\ NoSlashableRows'
  <2>1. LiveWaiterServed'
    <3>1. ASSUME NEW u \in Callers, call'[u].phase = "answered"
          PROVE  call'[u].outcome # "disconnected"
      BY <1>1, <1>12, <3>1 DEF GCInv, LiveWaiterServed
    <3> QED BY <3>1 DEF LiveWaiterServed
  <2> QED BY <1>0, <2>1 DEF GCInv, NoSlashableRows
<1> QED BY <1>9, <1>10, <1>11, <1>13, <1>14 DEF GCInv

-----------------------------------------------------------------------------
(* The theorems.                                                           *)

(* An empty database and no call: the invariant holds at the start.        *)
LEMMA GCInitInv ==
    ASSUME GCInit
    PROVE  GCInv
<1>1. /\ call = [t \in Callers |-> NoCall] /\ queue = <<>> /\ leaderActive = FALSE
      /\ lead = [t \in Callers |-> "no"] /\ batch = <<>> /\ stage = "idle" /\ pos = 0
      /\ claims = <<>> /\ failed = FALSE /\ pin = None /\ gvrCache = None /\ DbInit
  BY DEF GCInit
<1>2. DbTypeOK /\ NoSlashableRows
  BY <1>1 DEF DbInit, DbTypeOK, Watermarks, NoWatermarks, NoSlashableRows
<1>3. GCTypeOK
  <2>1. <<>> \in Seq(Callers) /\ Len(<<>>) = 0 /\ BatchSize \in Nat
    BY GroupAssumption
  <2>2. batch \in Seq(Callers) /\ Len(batch) <= BatchSize /\ pos \in 0 .. Len(batch)
    BY <1>1, <2>1
  <2>3. leaderActive \in BOOLEAN /\ failed \in BOOLEAN
    BY <1>1
  <2> QED BY <1>1, <1>2, <2>1, <2>2, <2>3 DEF GCTypeOK
<1>4. DOMAIN queue = {} /\ DOMAIN batch = {} /\ Unanswered = {}
  BY <1>1 DEF Unanswered
<1>5. \A t \in Callers : call[t].phase = "idle"
  BY <1>1 DEF NoCall
<1>6. InOnePlace /\ QueueIsFresh
  BY <1>4 DEF InOnePlace, QueueIsFresh
<1>7. CheckedHasNoOutcome /\ OkIsDurable /\ LiveWaiterServed
  BY <1>5 DEF CheckedHasNoOutcome, OkIsDurable, LiveWaiterServed
<1>8. StageInv /\ EvalInv /\ ClaimsAccepted /\ OpenRowsSafe /\ DispatchInv
  BY <1>1 DEF StageInv, EvalInv, ClaimsAccepted, OpenRowsSafe, DispatchInv
<1> QED BY <1>2, <1>3, <1>6, <1>7, <1>8 DEF GCInv

(* Every step keeps the invariant. *)
LEMMA GCInvStep ==
    ASSUME GCInv, [GCNext]_gcVars
    PROVE  GCInv'
<1>1. GCTypeOK'
  BY GCTypeStep
<1>2. ASSUME NEW t \in Callers, Caller(t) PROVE GCInv'
  BY <1>1, <1>2, CallerKeepsInv
<1>3. ASSUME NEW t \in Callers, Flush(t) PROVE GCInv'
  BY <1>1, <1>3, BystanderKeepsInv, DrainKeepsInv, BeginKeepsInv, EvalKeepsInv,
     EvalFailsKeepsInv, CommitKeepsInv, RollbackKeepsInv, DispatchKeepsInv DEF Flush
<1>4. CASE (\E c \in Chains : SetGenesisValidatorsRoot(c)) \/ OtherWriter \/ UNCHANGED gcVars
  BY <1>1, <1>4, BystanderKeepsInv
<1>5. CASE Crash
  BY <1>1, <1>5, CrashKeepsInv
<1> QED BY <1>2, <1>3, <1>4, <1>5 DEF GCNext

(* The inductive invariant holds in every reachable state. *)
THEOREM GCInvariant == GCSpec => []GCInv
<1>1. GCInit => GCInv
  BY GCInitInv
<1>2. GCInv /\ [GCNext]_gcVars => GCInv'
  BY GCInvStep
<1> QED BY <1>1, <1>2, PTL DEF GCSpec

(* The variables of group_commit.rs stay within their types. *)
THEOREM GCTypeCorrect == GCSpec => []GCTypeOK
<1>1. GCInv => GCTypeOK
  BY DEF GCInv
<1> QED BY <1>1, GCInvariant, PTL

(* Commit before sign: whoever reserve_* answers with Ok has its duty on   *)
(* durable record, for every batch size and every failure of the batch.    *)
THEOREM OkDurable == GCSpec => []OkIsDurable
<1>1. GCInv => OkIsDurable
  BY DEF GCInv
<1> QED BY <1>1, GCInvariant, PTL

(* commit_batch checks members against each other: no reachable database   *)
(* holds two rows that are slashable together.                             *)
THEOREM RowsNeverSlashable == GCSpec => []NoSlashableRows
<1>1. GCInv => NoSlashableRows
  BY DEF GCInv
<1> QED BY <1>1, GCInvariant, PTL

(* The leader never takes a caller that still waits for a cancelled one.   *)
THEOREM WaiterServed == GCSpec => []LiveWaiterServed
<1>1. GCInv => LiveWaiterServed
  BY DEF GCInv
<1> QED BY <1>1, GCInvariant, PTL

(* No commit writes a row of another chain than the pinned one, even if    *)
(* the pin was set after the caller's early check.                         *)
THEOREM PinnedOnly == GCSpec => PinnedChainOnly
<1>1. ASSUME GCInv, NEW t \in Callers, Commit(t), pin # None
      PROVE  \A i \in DOMAIN claims : call[claims[i]].chain = pin
  BY <1>1 DEF GCInv, ClaimsAccepted, Commit
<1>2. GCInv /\ [GCNext]_gcVars =>
        [\A t \in Callers : Commit(t) /\ pin # None =>
            \A i \in DOMAIN claims : call[claims[i]].chain = pin]_gcVars
  BY <1>1
<1> QED BY <1>2, GCInvariant, PTL DEF GCSpec, PinnedChainOnly

-----------------------------------------------------------------------------
(* Refinement: batching is invisible to the callers.                       *)

Asked(t) == call[t].phase \notin {"idle", "checked"}

AnswerState(t) == IF ~Decided(t) THEN "pending"
                  ELSE IF call[t].outcome \in Accepting THEN call[t].outcome ELSE "refused"

ask == [t \in Callers |-> Answer(t)]

(* A caller's answer in the contract, by what it asked and how it stands.  *)
LEMMA AnswerIs ==
    ASSUME NEW t \in Callers
    PROVE  /\ ask[t] = Answer(t)
           /\ ~Asked(t) => Answer(t) = Contract!Nothing
           /\ Asked(t) => Answer(t) = [pk |-> call[t].pk, duty |-> call[t].duty,
                                       chain |-> call[t].chain, state |-> AnswerState(t)]
           /\ Asked(t) => Answer(t) # Contract!Nothing
<1>1. ask[t] = Answer(t)
  BY DEF ask
<1>2. ~Asked(t) => Answer(t) = Contract!Nothing
  BY DEF Asked, Answer, Contract!Nothing
<1>3. Asked(t) => Answer(t) = [pk |-> call[t].pk, duty |-> call[t].duty,
                               chain |-> call[t].chain, state |-> AnswerState(t)]
  BY DEF Asked, Answer, AnswerState
<1>4. Asked(t) => Answer(t) # Contract!Nothing
  <2>1. AnswerState(t) # "none"
    BY DEF AnswerState, Accepting
  <2> QED BY <1>3, <2>1 DEF Contract!Nothing
<1> QED BY <1>1, <1>2, <1>3, <1>4

(* An answer stays as it is if the request and its fate do. *)
LEMMA AnswerKept ==
    ASSUME NEW t \in Callers,
           \/ ~Asked(t) /\ ~Asked(t)'
           \/ /\ Asked(t) /\ Asked(t)' /\ AnswerState(t)' = AnswerState(t)
              /\ call'[t].pk = call[t].pk /\ call'[t].duty = call[t].duty
              /\ call'[t].chain = call[t].chain
    PROVE  Answer(t)' = Answer(t)
BY DEF Asked, Answer, AnswerState

(* The contract's initial state. *)
LEMMA InitRefines ==
    ASSUME GCInit
    PROVE  Contract!AskInit
<1>1. \A t \in Callers : Answer(t) = Contract!Nothing
  BY DEF GCInit, NoCall, Answer, Contract!Nothing
<1>2. [t \in Callers |-> Answer(t)] = [t \in Callers |-> Contract!Nothing]
  BY <1>1
<1> QED BY <1>2 DEF GCInit, DbInit, Contract!AskInit, Contract!DbInit, NoWatermarks,
                    Contract!NoWatermarks

(* A caller's fate hangs on its outcome and on whether its transaction is  *)
(* open.                                                                   *)
LEMMA FateKept ==
    ASSUME NEW t \in Callers, call'[t].outcome = call[t].outcome,
           \/ call[t].outcome \notin Accepting
           \/ UNCHANGED <<batch, stage>>
           \/ stage # "eval" /\ stage' # "eval"
    PROVE  AnswerState(t)' = AnswerState(t)
BY DEF AnswerState, Decided, Members

(* Nothing a caller or the database's reader can see has changed.          *)
LEMMA StutterRefines ==
    ASSUME UNCHANGED <<dbVars, pin>>, \A t \in Callers : Answer(t)' = Answer(t)
    PROVE  UNCHANGED Contract!askVars
BY DEF dbVars, Contract!askVars, Contract!dbVars

(* One caller leaves. *)
LEMMA LeaveRefines ==
    ASSUME UNCHANGED <<dbVars, pin>>, NEW t \in Callers, Asked(t), ~Asked(t)',
           \A u \in Callers : u # t => Answer(u)' = Answer(u)
    PROVE  Contract!Leave(t)
<1>1. Answer(t) # Contract!Nothing
  BY AnswerIs
<1>2. Answer(t)' = Contract!Nothing
  BY DEF Asked, Answer, Contract!Nothing
<1> QED BY <1>1, <1>2 DEF Contract!Leave, Contract!dbVars, dbVars

(* Some undecided callers are refused, the others notice nothing. *)
LEMMA RefuseRefines ==
    ASSUME UNCHANGED <<dbVars, pin>>, NEW S \in SUBSET Callers,
           \A t \in S : /\ Asked(t) /\ Asked(t)'
                        /\ AnswerState(t) = "pending" /\ AnswerState(t)' = "refused"
                        /\ call'[t].pk = call[t].pk /\ call'[t].duty = call[t].duty
                        /\ call'[t].chain = call[t].chain,
           \A t \in Callers \ S : Answer(t)' = Answer(t)
    PROVE  Contract!Refuse(S)
<1>1. ASSUME NEW t \in S
      PROVE  Answer(t).state = "pending" /\ Answer(t)' = [Answer(t) EXCEPT !.state = "refused"]
  <2>1. Answer(t) = [pk |-> call[t].pk, duty |-> call[t].duty,
                     chain |-> call[t].chain, state |-> "pending"]
    BY AnswerIs
  <2>2. Answer(t)' = [pk |-> call[t].pk, duty |-> call[t].duty,
                      chain |-> call[t].chain, state |-> "refused"]
    BY DEF Asked, Answer, AnswerState
  <2> QED BY <2>1, <2>2
<1>2. [t \in Callers |-> Answer(t)]' =
        [t \in Callers |-> IF t \in S THEN [Answer(t) EXCEPT !.state = "refused"] ELSE Answer(t)]
  BY <1>1
<1>3. \A t \in S : [u \in Callers |-> Answer(u)][t] = Answer(t)
  OBVIOUS
<1> QED BY <1>1, <1>2, <1>3 DEF Contract!Refuse, Contract!dbVars, dbVars

(* The caller: asking, giving up, leaving with the answer. *)
LEMMA CallerRefines ==
    ASSUME GCInv, NEW t \in Callers, Caller(t)
    PROVE  [Contract!AskNext]_(Contract!askVars)
<1>0. GCTypeOK /\ NoCall.phase = "idle"
  BY DEF GCInv, NoCall
<1>1. /\ UNCHANGED <<dbVars, pin, batch, stage, pos, claims, failed>>
      /\ \A u \in Callers : u # t => call'[u] = call[u]
      /\ call' \in [Callers -> {NoCall} \cup Requests]
  BY <1>0, CallerEffect
<1>2. ASSUME NEW u \in Callers, u # t
      PROVE  Answer(u)' = Answer(u)
  BY <1>1, <1>2 DEF Answer, Decided, Members
<1>3. \/ ~Asked(t) /\ ~Asked(t)'
      \/ /\ call[t].phase = "checked" /\ call'[t].phase = "queued"
         /\ call'[t].outcome = "none"
      \/ /\ call[t].phase = "queued" /\ call'[t].phase = "gone"
         /\ call'[t].outcome = call[t].outcome
         /\ call'[t].pk = call[t].pk /\ call'[t].duty = call[t].duty
         /\ call'[t].chain = call[t].chain
      \/ call[t].phase = "answered" /\ ~Asked(t)'
  BY <1>0, CallerEffect DEF Asked, GCInv, CheckedHasNoOutcome
<1>4. CASE ~Asked(t) /\ ~Asked(t)'
  BY <1>1, <1>2, <1>4, AnswerKept, StutterRefines
<1>5. CASE /\ call[t].phase = "checked" /\ call'[t].phase = "queued"
           /\ call'[t].outcome = "none"
  <2>1. call'[t] \in Requests
    BY <1>0, <1>1, <1>5
  <2>2. PICK pk \in Pubkeys, d \in Duties, c \in Chains :
          pk = call'[t].pk /\ d = call'[t].duty /\ c = call'[t].chain
    BY <2>1 DEF Requests
  <2>3. Answer(t) = Contract!Nothing
    BY <1>5 DEF Answer, Contract!Nothing
  <2>4. Answer(t)' = [state |-> "pending", pk |-> pk, duty |-> d, chain |-> c]
    BY <1>5, <2>2 DEF Answer, Decided, Accepting
  <2>5. Contract!Ask(t, pk, d, c)
    BY <1>1, <1>2, <2>3, <2>4 DEF Contract!Ask, Contract!dbVars, dbVars
  <2> QED BY <2>2, <2>5 DEF Contract!AskNext
<1>6. CASE /\ call[t].phase = "queued" /\ call'[t].phase = "gone"
           /\ call'[t].outcome = call[t].outcome
           /\ call'[t].pk = call[t].pk /\ call'[t].duty = call[t].duty
           /\ call'[t].chain = call[t].chain
  <2>1. Asked(t) /\ Asked(t)' /\ AnswerState(t)' = AnswerState(t)
    BY <1>1, <1>6, FateKept DEF Asked
  <2> QED BY <1>1, <1>2, <1>6, <2>1, AnswerKept, StutterRefines
<1>7. CASE call[t].phase = "answered" /\ ~Asked(t)'
  <2>1. Contract!Leave(t)
    BY <1>1, <1>2, <1>7, LeaveRefines DEF Asked
  <2> QED BY <2>1 DEF Contract!AskNext
<1> QED BY <1>3, <1>4, <1>5, <1>6, <1>7

(* The claims of a transaction are an order of callers. *)
LEMMA ClaimsAreOrdered ==
    ASSUME GCInv, stage = "eval", claims # <<>>
    PROVE  claims \in Contract!Orders
<1>1. PICK n \in Nat : n = Len(claims) /\ claims \in [1 .. n -> Callers] /\ DOMAIN claims = 1 .. n
  BY DEF GCInv, GCTypeOK
<1>2. \A i, j \in 1 .. n : claims[i] = claims[j] => i = j
  BY <1>1 DEF GCInv, EvalInv
<1>3. claims \in Injection(1 .. n, Callers)
  BY <1>1, <1>2 DEF Injection, IsInjective
<1>4. IsFiniteSet(Callers) /\ Cardinality(Callers) \in Nat
  BY GroupAssumption, FS_CardinalityType
<1>5. Cardinality(1 .. n) <= Cardinality(Callers)
  BY <1>3, <1>4, FS_Injection
<1>6. n # 0
  <2>1. claims \in Seq(Callers)
    BY DEF GCInv, GCTypeOK
  <2> QED BY <1>1, <2>1
<1>7. Cardinality(1 .. n) = n
  <2>1. n \in Int /\ 1 \in Int /\ ~(1 > n) /\ n - 1 + 1 = n
    BY <1>1, <1>6
  <2> QED BY <2>1, FS_Interval
<1>8. n \in 1 .. Cardinality(Callers)
  BY <1>4, <1>5, <1>6, <1>7
<1>9. claims \in {o \in [1 .. n -> Callers] : \A i, j \in 1 .. n : o[i] = o[j] => i = j}
  BY <1>1, <1>2
<1>10. Contract!Cardinality(Callers) = Cardinality(Callers)
  BY Zenon DEF Contract!Cardinality, Cardinality, Contract!IsFiniteSet, IsFiniteSet
<1> QED BY <1>8, <1>9, <1>10 DEF Contract!Orders

(* Steps the contract does not see: the flush lock, the queue, BEGIN and a *)
(* failing statement.                                                      *)
LEMMA QuietRefines ==
    ASSUME GCInv, NEW t \in Callers,
           \/ TakeFlushLock(t) \/ DrainBatch(t) \/ Begin(t) \/ EvalFails(t)
           \/ Retire(t) \/ ReleaseFlushLock(t)
    PROVE  UNCHANGED Contract!askVars
<1>1. /\ UNCHANGED <<dbVars, pin, call>>
      /\ \/ UNCHANGED <<batch, stage>>
         \/ stage # "eval" /\ stage' # "eval"
         \/ stage = "drained" /\ stage' = "eval" /\ batch' = batch
  BY DEF TakeFlushLock, DrainBatch, Begin, EvalFails, Retire, ReleaseFlushLock
<1>2. ASSUME NEW u \in Callers
      PROVE  Answer(u)' = Answer(u)
  <2>1. CASE UNCHANGED <<batch, stage>> \/ (stage # "eval" /\ stage' # "eval")
    <3>1. AnswerState(u)' = AnswerState(u)
      BY <1>1, <2>1, FateKept
    <3> QED BY <1>1, <3>1, AnswerKept DEF Asked
  <2>2. CASE stage = "drained" /\ stage' = "eval" /\ batch' = batch
    <3>1. u \in Members => call[u].outcome = "none"
      BY <2>2 DEF GCInv, StageInv, Fresh, Members
    <3>2. AnswerState(u)' = AnswerState(u)
      BY <1>1, <2>2, <3>1 DEF AnswerState, Decided, Members, Accepting
    <3> QED BY <1>1, <3>2, AnswerKept DEF Asked
  <2> QED BY <1>1, <2>1, <2>2
<1> QED BY <1>1, <1>2, StutterRefines

(* The pin, the other writers and a crash are the contract's own steps. *)
LEMMA EnvironmentRefines ==
    ASSUME GCInv,
           (\E c \in Chains : SetGenesisValidatorsRoot(c)) \/ OtherWriter \/ Crash
    PROVE  Contract!AskNext
<1>1. ASSUME NEW c \in Chains, SetGenesisValidatorsRoot(c)
      PROVE  Contract!AskNext
  <2>1. pin = None /\ pin' = c /\ UNCHANGED <<attestations, blocks, watermarks, call, batch, stage>>
    BY <1>1 DEF SetGenesisValidatorsRoot, dbVars, leaderVars
  <2>2. \A u \in Callers : Answer(u)' = Answer(u)
    BY <2>1 DEF Answer, Decided, Members
  <2>3. Contract!Pin(c)
    BY <2>1, <2>2 DEF Contract!Pin, Contract!dbVars
  <2> QED BY <2>3 DEF Contract!AskNext
<1>2. ASSUME OtherWriter
      PROVE  Contract!AskNext
  <2>1. UNCHANGED <<pin, call, batch, stage>>
    BY <1>2 DEF OtherWriter, leaderVars
  <2>2. \A u \in Callers : Answer(u)' = Answer(u)
    BY <2>1 DEF Answer, Decided, Members
  <2>3. UNCHANGED <<pin, [u \in Callers |-> Answer(u)]>>
    BY <2>1, <2>2
  <2>4. CASE \E pk \in Pubkeys, s \in BlockFloors : SetBlockWatermark(pk, s)
    <3>1. \E pk \in Pubkeys, s \in Slots : Contract!SetBlockWatermark(pk, s)
      BY <2>4, GroupAssumption DEF SetBlockWatermark, Contract!SetBlockWatermark, Below, Contract!Below
    <3> QED BY <2>3, <3>1 DEF Contract!OtherWriters, Contract!AskNext
  <2>5. CASE \E pk \in Pubkeys, f \in AttestationFloors :
               SetAttestationWatermark(pk, f[1], f[2])
    <3>1. \A f \in AttestationFloors : f[1] \in Epochs /\ f[2] \in Epochs
      BY GroupAssumption
    <3>2. \E pk \in Pubkeys, s, e \in Epochs : Contract!SetAttestationWatermark(pk, s, e)
      BY <2>5, <3>1 DEF SetAttestationWatermark, Contract!SetAttestationWatermark, Below, Contract!Below
    <3> QED BY <2>3, <3>2 DEF Contract!OtherWriters, Contract!AskNext
  <2>6. CASE Prune
    <3>1. Contract!Prune
      BY <2>6 DEF Prune, Contract!Prune, PrunedAtts, PrunedBlks, Contract!PrunedAtts,
                  Contract!PrunedBlks, Below, Contract!Below, Raise, Contract!Raise, MaxOf,
                  Contract!MaxOf, NoWatermarks, Contract!NoWatermarks
    <3> QED BY <2>3, <3>1 DEF Contract!OtherWriters, Contract!AskNext
  <2> QED BY <1>2, <2>4, <2>5, <2>6 DEF OtherWriter
<1>3. ASSUME Crash
      PROVE  Contract!AskNext
  <2>1. call' = [u \in Callers |-> NoCall] /\ UNCHANGED <<attestations, blocks, watermarks, pin>>
    BY <1>3 DEF Crash, dbVars
  <2>2. \A u \in Callers : Answer(u)' = Contract!Nothing
    BY <2>1 DEF Answer, NoCall, Contract!Nothing
  <2>3. Contract!Restart
    BY <2>1, <2>2 DEF Contract!Restart, Contract!dbVars
  <2> QED BY <2>3 DEF Contract!AskNext
<1> QED BY <1>1, <1>2, <1>3

(* The rules: a rejected member is refused at once, an accepted one stays  *)
(* undecided until its transaction ends.                                   *)
LEMMA EvalRefines ==
    ASSUME GCInv, NEW t \in Callers, Eval(t)
    PROVE  [Contract!AskNext]_(Contract!askVars)
<1>0. PICK m : m = NextMember
  OBVIOUS
<1>1. /\ stage = "eval" /\ UNCHANGED <<dbVars, pin, batch, stage>>
      /\ call[m].cancelled => call' = call
  BY <1>0, EvalEffect
<1>2. /\ pos + 1 \in DOMAIN batch /\ m \in Callers /\ m = batch[pos + 1]
      /\ \A u \in Callers : u # m => call'[u] = call[u]
      /\ call'[m].phase = call[m].phase /\ call'[m].pk = call[m].pk
      /\ call'[m].duty = call[m].duty /\ call'[m].chain = call[m].chain
      /\ ~call[m].cancelled => call'[m].outcome = NextOutcome
  BY <1>0, EvalCall DEF NextMember
<1>3. pos \in Nat /\ pos < pos + 1
  BY MembersAreCallers DEF GCInv
<1>4. call[m].phase \in {"queued", "gone"} /\ call[m].outcome = "none" /\ m \in Members
  BY <1>1, <1>2, <1>3 DEF GCInv, EvalInv, Fresh, Members
<1>5. Asked(m) /\ Asked(m)' /\ AnswerState(m) = "pending"
  BY <1>2, <1>4 DEF Asked, AnswerState, Decided, Accepting
<1>6. \A u \in Callers : u # m => Answer(u)' = Answer(u)
  BY <1>1, <1>2 DEF Answer, Decided, Members
<1>7. CASE call[m].cancelled \/ NextOutcome \in Accepting
  <2>1. call'[m].outcome = "none" \/ call'[m].outcome \in Accepting
    BY <1>1, <1>2, <1>4, <1>7
  <2>2. AnswerState(m)' = "pending"
    BY <1>1, <1>4, <2>1 DEF AnswerState, Decided, Members, Accepting
  <2>3. Answer(m)' = Answer(m)
    BY <1>2, <1>5, <2>2, AnswerKept
  <2> QED BY <1>1, <1>6, <2>3, StutterRefines
<1>8. CASE ~call[m].cancelled /\ NextOutcome \notin Accepting
  <2>1. call'[m].outcome = "rejected"
    BY <1>2, <1>8, NextOutcomeType DEF Accepting
  <2>2. AnswerState(m)' = "refused"
    BY <2>1 DEF AnswerState, Decided, Accepting
  <2>3. Contract!Refuse({m})
    BY <1>1, <1>2, <1>5, <1>6, <2>2, RefuseRefines
  <2>4. {m} \in SUBSET Callers
    BY <1>2
  <2> QED BY <2>3, <2>4 DEF Contract!AskNext
<1> QED BY <1>7, <1>8

(* The transaction fails: every undecided member of the batch is refused.  *)
LEMMA RollbackRefines ==
    ASSUME GCInv, NEW t \in Callers, Rollback(t) \/ TxnFails(t)
    PROVE  Contract!AskNext
<1>1. /\ stage \in {"drained", "eval"} /\ stage' = "dispatch"
      /\ UNCHANGED <<dbVars, pin, batch>>
  BY DEF Rollback, TxnFails
<1>2. PICK S \in SUBSET Members :
        /\ Fail(S)
        /\ S = Members \/ (stage = "eval" /\ S = {m \in Members : call[m].outcome \in Accepting})
  <2>1. CASE Rollback(t)
    BY <2>1 DEF Rollback
  <2>2. CASE TxnFails(t)
    BY <2>2 DEF TxnFails
  <2> QED BY <2>1, <2>2
<1>3. \A u \in Members : /\ u \in Callers /\ call[u] \in Requests
                         /\ call[u].phase \in {"queued", "gone"}
  BY <1>1, MembersAreRequests DEF Members
<1>4. /\ \A u \in Callers : u \notin S => call'[u] = call[u]
      /\ \A u \in S : /\ call'[u].phase = call[u].phase
                      /\ call'[u].pk = call[u].pk /\ call'[u].duty = call[u].duty
                      /\ call'[u].chain = call[u].chain
                      /\ call'[u].outcome = "failed"
  <2>1. S \in SUBSET Callers /\ (\A u \in S : call[u] \in Requests) /\ GCTypeOK
    BY <1>2, <1>3 DEF GCInv
  <2> QED BY <1>2, <2>1, FailEffect
<1>5. \A u \in S : AnswerState(u)' = "refused" /\ Asked(u) /\ Asked(u)'
  BY <1>2, <1>3, <1>4 DEF AnswerState, Decided, Accepting, Asked
<1>6. \A u \in Members : stage = "drained" => call[u].outcome = "none"
  BY DEF GCInv, StageInv, Fresh, Members
<1>7. \A u \in S : AnswerState(u) \in {"pending", "refused"}
  BY <1>1, <1>2, <1>6 DEF AnswerState, Decided, Accepting
<1>8. PICK R \in SUBSET Callers : R = {u \in S : AnswerState(u) = "pending"}
  BY <1>2, <1>3
<1>9. ASSUME NEW u \in Callers \ R
      PROVE  Answer(u)' = Answer(u)
  <2>1. CASE u \in S
    BY <1>4, <1>5, <1>7, <1>8, <2>1, AnswerKept
  <2>2. CASE u \notin S
    <3>1. call'[u] = call[u]
      BY <1>4, <2>2
    <3>2. u \notin Members \/ call[u].outcome \notin Accepting
      BY <1>2, <2>2
    <3>3. AnswerState(u)' = AnswerState(u)
      BY <1>1, <3>1, <3>2 DEF AnswerState, Decided, Members
    <3> QED BY <3>1, <3>3, AnswerKept DEF Asked
  <2> QED BY <2>1, <2>2
<1>10. Contract!Refuse(R)
  BY <1>1, <1>4, <1>5, <1>8, <1>9, RefuseRefines
<1> QED BY <1>8, <1>10 DEF Contract!AskNext

(* A member is told: the contract has decided before, unless the batch     *)
(* failed before the member was looked at.                                 *)
LEMMA DispatchRefines ==
    ASSUME GCInv, NEW t \in Callers, Dispatch(t)
    PROVE  [Contract!AskNext]_(Contract!askVars)
<1>0. PICK m : m = NextMember
  OBVIOUS
<1>1. /\ stage = "dispatch" /\ pos + 1 \in Unanswered /\ m \in Callers /\ m = batch[pos + 1]
      /\ \A u \in Callers : u # m => call'[u] = call[u]
      /\ call[m].phase = "gone" => call'[m] = NoCall
      /\ call[m].phase # "gone" =>
            /\ call'[m].phase = "answered" /\ call'[m].outcome = DispatchAnswer
            /\ call'[m].pk = call[m].pk /\ call'[m].duty = call[m].duty
            /\ call'[m].chain = call[m].chain
      /\ UNCHANGED <<dbVars, pin>>
  BY <1>0, DispatchEffect DEF NextMember
<1>2. stage' # "eval"
  BY <1>1, DispatchEffect DEF NoBatch
<1>3. /\ call[m].phase \in {"queued", "gone"}
      /\ call[m].outcome = "none" /\ call[m].phase = "queued" => failed
  BY <1>1 DEF GCInv, DispatchInv
<1>4. \A u \in Callers : u # m => Answer(u)' = Answer(u)
  BY <1>1, <1>2 DEF Answer, Decided
<1>5. CASE call[m].phase = "gone"
  <2>1. Asked(m) /\ ~Asked(m)'
    BY <1>1, <1>5 DEF Asked, NoCall
  <2>2. Contract!Leave(m)
    BY <1>1, <1>4, <2>1, LeaveRefines
  <2> QED BY <1>1, <2>2 DEF Contract!AskNext
<1>6. CASE call[m].phase = "queued" /\ call[m].outcome # "none"
  <2>1. call'[m].phase = "answered" /\ call'[m].outcome = call[m].outcome
    BY <1>0, <1>1, <1>6 DEF DispatchAnswer
  <2>2. Asked(m) /\ Asked(m)' /\ AnswerState(m)' = AnswerState(m)
    BY <1>1, <1>2, <1>6, <2>1, FateKept DEF Asked
  <2>3. Answer(m)' = Answer(m)
    BY <1>1, <1>6, <2>2, AnswerKept
  <2> QED BY <1>1, <1>4, <2>3, StutterRefines
<1>7. CASE call[m].phase = "queued" /\ call[m].outcome = "none"
  <2>1. call'[m].phase = "answered" /\ call'[m].outcome = "failed"
    BY <1>0, <1>1, <1>3, <1>7 DEF DispatchAnswer
  <2>2. /\ Asked(m) /\ Asked(m)'
        /\ AnswerState(m) = "pending" /\ AnswerState(m)' = "refused"
    BY <1>7, <2>1 DEF Asked, AnswerState, Decided, Accepting
  <2>3. Contract!Refuse({m})
    BY <1>1, <1>4, <1>7, <2>2, RefuseRefines
  <2>4. {m} \in SUBSET Callers
    BY <1>1
  <2> QED BY <2>3, <2>4 DEF Contract!AskNext
<1> QED BY <1>3, <1>5, <1>6, <1>7

(* The contract's rules are the rules.                                     *)
LEMMA SameRules ==
    ASSUME NEW ms, NEW pk, NEW d
    PROVE  /\ Contract!VerdictAfter(ms, pk, d) = VerdictAfter(ms, pk, d)
           /\ Contract!AcceptedAttestation = AcceptedAttestation
           /\ Contract!AcceptedBlock = AcceptedBlock
<1>1. Contract!VerdictAfter(ms, pk, d) = VerdictAfter(ms, pk, d)
  BY Zenon DEF VerdictAfter, CheckAttestation, CheckBlock, AttRowsOf, BlkRowsOf, AttRow, BlkRow,
         Below, AtOrBelow, SameRoot, Surrounding, Surrounded,
         Contract!VerdictAfter, Contract!CheckAttestation, Contract!CheckBlock,
         Contract!AttRowsOf, Contract!BlkRowsOf, Contract!AttRow, Contract!BlkRow,
         Contract!Below, Contract!AtOrBelow, Contract!SameRoot, Contract!Surrounding,
         Contract!Surrounded
<1> QED BY <1>1 DEF AcceptedAttestation, AcceptedBlock, Contract!AcceptedAttestation,
                    Contract!AcceptedBlock

(* COMMIT: the claims take effect together, one after the other.           *)
LEMMA CommitRefines ==
    ASSUME GCInv, NEW t \in Callers, Commit(t)
    PROVE  Contract!AskNext
<1>1. /\ stage = "eval" /\ stage' = "dispatch" /\ claims # <<>> /\ InsertAll(Claimed)
      /\ UNCHANGED <<pin, call, batch>>
  BY DEF Commit
<1>2. claims \in Contract!Orders
  BY <1>1, ClaimsAreOrdered
<1>3. /\ DOMAIN claims = 1 .. Len(claims) /\ Len(claims) \in Nat
      /\ \A k \in DOMAIN claims : claims[k] \in Callers /\ call[claims[k]] \in Requests
  BY <1>1, MembersAreRequests, MembersAreCallers DEF GCInv
<1>4. \A k, l \in DOMAIN claims : claims[k] = claims[l] => k = l
  BY <1>1 DEF GCInv, EvalInv
<1>5. ASSUME NEW k \in DOMAIN claims, NEW m \in Callers, m = claims[k]
      PROVE  /\ m \in Members
             /\ call[m].outcome = IF VerdictOf(k) = "Stage" THEN "inserted" ELSE "resigned"
             /\ Answer(m) = [pk |-> call[m].pk, duty |-> call[m].duty,
                             chain |-> call[m].chain, state |-> "pending"]
             /\ Answer(m)' = [pk |-> call[m].pk, duty |-> call[m].duty,
                              chain |-> call[m].chain, state |-> call[m].outcome]
  <2>2. PICK i \in DOMAIN batch : m = batch[i]
    BY <1>1, <1>5 DEF GCInv, EvalInv
  <2>3. m \in Members /\ call[m].phase \in {"queued", "gone"}
    BY <1>1, <2>2, MembersAreRequests DEF Members
  <2>4. call[m].outcome = IF VerdictOf(k) = "Stage" THEN "inserted" ELSE "resigned"
    BY <1>1, <1>5 DEF GCInv, ClaimsAccepted
  <2>5. call[m].outcome \in Accepting
    BY <2>4 DEF Accepting
  <2>6. Asked(m) /\ AnswerState(m) = "pending"
    BY <1>1, <2>3, <2>5 DEF Asked, AnswerState, Decided
  <2>7. Answer(m)' = [pk |-> call[m].pk, duty |-> call[m].duty, chain |-> call[m].chain,
                      state |-> call[m].outcome]
    BY <1>1, <2>3, <2>5 DEF Answer, Decided
  <2> QED BY <2>3, <2>4, <2>6, <2>7, AnswerIs
<1>6. ASSUME NEW u \in Callers, \A k \in DOMAIN claims : claims[k] # u
      PROVE  Answer(u)' = Answer(u)
  <2>1. u \in Members => call[u].outcome \notin Accepting
    <3>1. ASSUME NEW i \in DOMAIN batch, u = batch[i], call[u].outcome \in Accepting
          PROVE  FALSE
      <4>1. i <= pos
        BY <1>1, <3>1, MembersAreCallers DEF GCInv, Commit
      <4> QED BY <1>1, <1>6, <3>1, <4>1 DEF GCInv, EvalInv
    <3> QED BY <3>1 DEF Members
  <2>2. AnswerState(u)' = AnswerState(u)
    BY <1>1, <2>1 DEF AnswerState, Decided, Members
  <2> QED BY <1>1, <2>2, AnswerKept DEF Asked
<1>7. \A k \in DOMAIN claims :
        /\ [u \in Callers |-> Answer(u)][claims[k]].pk = call[claims[k]].pk
        /\ [u \in Callers |-> Answer(u)][claims[k]].duty = call[claims[k]].duty
        /\ [u \in Callers |-> Answer(u)][claims[k]].chain = call[claims[k]].chain
        /\ [u \in Callers |-> Answer(u)][claims[k]].state = "pending"
        /\ Contract!Message(claims[k]) = Message(claims[k])
  <2> TAKE k \in DOMAIN claims
  <2>1. PICK m \in Callers : m = claims[k]
    BY <1>3
  <2>2. [u \in Callers |-> Answer(u)][m] = Answer(m)
    OBVIOUS
  <2> QED BY <1>5, <2>1, <2>2 DEF Contract!Message, Message
<1>8. \A k \in DOMAIN claims : Contract!Before(claims, k) = SeenBy(k)
  <2>1. \A k \in DOMAIN claims : \A j \in 1 .. k - 1 : j \in DOMAIN claims
    BY <1>3
  <2>2. \A k \in DOMAIN claims : Contract!Message(claims[k]) = Message(claims[k])
    BY <1>7
  <2> TAKE k \in DOMAIN claims
  <2>3. \A j \in 1 .. k - 1 : Contract!Message(claims[j]) = Message(claims[j])
    BY <2>1, <2>2
  <2> QED BY <2>3 DEF Contract!Before, SeenBy
<1>9. \A k \in DOMAIN claims : Contract!VerdictAt(claims, k) = VerdictOf(k)
  <2> TAKE k \in DOMAIN claims
  <2>1. PICK pk, d : pk = call[claims[k]].pk /\ d = call[claims[k]].duty
    OBVIOUS
  <2>2. PICK ms : ms = SeenBy(k)
    OBVIOUS
  <2>3. Contract!VerdictAt(claims, k) = Contract!VerdictAfter(ms, pk, d)
    BY <1>7, <1>8, <2>1, <2>2 DEF Contract!VerdictAt
  <2>4. VerdictOf(k) = VerdictAfter(ms, pk, d)
    BY <2>1, <2>2 DEF VerdictOf
  <2> QED BY <2>3, <2>4, SameRules
<1>10. {Contract!Message(claims[k]) : k \in DOMAIN claims} = Claimed
  BY <1>7 DEF Claimed
<1>11. Contract!InsertAll(Claimed)
  BY <1>1 DEF InsertAll, Contract!InsertAll, AttRowsOf, BlkRowsOf, AttRow, BlkRow,
              Contract!AttRowsOf, Contract!BlkRowsOf, Contract!AttRow, Contract!BlkRow
<1>12. \A k \in DOMAIN claims :
         /\ [u \in Callers |-> Answer(u)][claims[k]].state = "pending"
         /\ pin # None => [u \in Callers |-> Answer(u)][claims[k]].chain = pin
         /\ Contract!VerdictAt(claims, k) \in
               Contract!AcceptedAttestation \cup Contract!AcceptedBlock
  BY <1>1, <1>7, <1>9, SameRules DEF GCInv, ClaimsAccepted
<1>13. ASSUME NEW u \in Callers
       PROVE  Answer(u)' =
                IF \E k \in DOMAIN claims : claims[k] = u
                THEN [Answer(u) EXCEPT !.state =
                        IF Contract!VerdictAt(claims, CHOOSE k \in DOMAIN claims : claims[k] = u)
                              = "Stage"
                        THEN "inserted" ELSE "resigned"]
                ELSE Answer(u)
  <2>1. ASSUME NEW k \in DOMAIN claims, claims[k] = u
        PROVE  (CHOOSE j \in DOMAIN claims : claims[j] = u) = k
    BY <1>4, <2>1
  <2>2. ASSUME NEW k \in DOMAIN claims, claims[k] = u
        PROVE  Answer(u)' = [Answer(u) EXCEPT !.state =
                                IF Contract!VerdictAt(claims, k) = "Stage"
                                THEN "inserted" ELSE "resigned"]
    <3>1. PICK s : s = IF Contract!VerdictAt(claims, k) = "Stage" THEN "inserted" ELSE "resigned"
      OBVIOUS
    <3>2. Answer(u)' = [pk |-> call[u].pk, duty |-> call[u].duty, chain |-> call[u].chain, state |-> s]
      BY <1>5, <1>9, <2>2, <3>1
    <3>3. Answer(u)' = [Answer(u) EXCEPT !.state = s]
      BY <1>5, <2>2, <3>2
    <3> QED BY <3>1, <3>3
  <2> QED BY <1>6, <2>1, <2>2
<1>14. Contract!Serve(claims)
  BY <1>1, <1>10, <1>11, <1>12, <1>13 DEF Contract!Serve
<1> QED BY <1>2, <1>14 DEF Contract!AskNext

(* Every step is a step of the contract or invisible to it. *)
LEMMA StepRefines ==
    ASSUME GCInv, [GCNext]_gcVars
    PROVE  [Contract!AskNext]_(Contract!askVars)
<1>1. ASSUME NEW t \in Callers, Caller(t)
      PROVE  [Contract!AskNext]_(Contract!askVars)
  BY <1>1, CallerRefines
<1>2. ASSUME NEW t \in Callers, Flush(t)
      PROVE  [Contract!AskNext]_(Contract!askVars)
  BY <1>2, QuietRefines, EvalRefines, CommitRefines, RollbackRefines, DispatchRefines DEF Flush
<1>3. CASE UNCHANGED gcVars
  <2>1. UNCHANGED <<attestations, blocks, watermarks, pin, call, batch, stage>>
    BY <1>3 DEF gcVars, leaderVars, dbVars
  <2>2. \A u \in Callers : Answer(u)' = Answer(u)
    BY <2>1 DEF Answer, Decided, Members
  <2> QED BY <2>1, <2>2 DEF Contract!askVars, Contract!dbVars
<1> QED BY <1>1, <1>2, <1>3, EnvironmentRefines DEF GCNext

(* Batching is invisible: every behaviour of the group commit is one of    *)
(* atomic reservations, whatever the number of callers and the batch size. *)
THEOREM GroupCommitRefines == GCSpec => ImplementsAtomicReserve
<1>1. GCInit => Contract!AskInit
  BY InitRefines
<1>2. GCInv /\ [GCNext]_gcVars => [Contract!AskNext]_(Contract!askVars)
  BY StepRefines
<1> QED BY <1>1, <1>2, GCInvariant, PTL DEF GCSpec, ImplementsAtomicReserve, Contract!AskSpec

-----------------------------------------------------------------------------
(* The leadership.                                                         *)

(* A step that changes neither the leadership nor the phase of a caller,   *)
(* fills no queue and opens no batch keeps the leadership in order.        *)
LEMMA SameLeader ==
    ASSUME LeaderInv, UNCHANGED <<leaderActive, lead>>,
           \A t \in Callers : call'[t].phase \in {"idle", "checked", "gone"} =>
               call[t].phase \in {"idle", "checked", "gone"} \/ lead[t] = "no",
           queue' # <<>> => queue # <<>>,
           stage' # "idle" => stage # "idle" \/ \E t \in Callers : lead[t] = "flushing"
    PROVE  LeaderInv'
<1>1. \A t \in Callers : call'[t].phase \in {"idle", "checked", "gone"} => lead'[t] = "no"
  BY DEF LeaderInv
<1>2. (queue' # <<>> => leaderActive) /\ (stage' # "idle" => \E t \in Callers : lead[t] = "flushing")
  BY DEF LeaderInv
<1> QED BY <1>1, <1>2 DEF LeaderInv, Leads

(* The flag leader_active and flush_lock hand the leadership on: a caller  *)
(* claims it only while nobody leads, and gives it up only with an empty   *)
(* queue and no batch.                                                     *)
LEMMA LeaderInvStep ==
    ASSUME GCInv, LeaderInv, [GCNext]_gcVars
    PROVE  LeaderInv'
<1>0. /\ GCTypeOK /\ NoCall.phase = "idle"
      /\ lead \in [Callers -> {"no", "claimed", "flushing", "retiring"}]
  BY DEF GCInv, GCTypeOK, NoCall
<1>1. ASSUME NEW t \in Callers, Caller(t)
      PROVE  LeaderInv'
  <2>1. /\ stage' = stage /\ \A u \in Callers : u # t => call'[u] = call[u]
        /\ \/ /\ call[t].phase = "idle" /\ UNCHANGED <<queue, leaderActive, lead>>
           \/ /\ call[t].phase = "checked" /\ call'[t].phase = "queued"
              /\ leaderActive' = TRUE
              /\ lead' = [lead EXCEPT ![t] = IF leaderActive THEN "no" ELSE "claimed"]
           \/ /\ call[t].phase = "queued" /\ lead[t] = "no"
              /\ UNCHANGED <<queue, leaderActive, lead>>
           \/ /\ call[t].phase = "answered" /\ lead[t] = "no"
              /\ UNCHANGED <<queue, leaderActive, lead>>
    BY <1>0, <1>1, CallerEffect DEF Caller, CheckGvr, Enqueue, Abandon, Receive, leaderVars
  <2>2. CASE UNCHANGED <<queue, leaderActive, lead>>
    <3>1. \A u \in Callers : call'[u].phase \in {"idle", "checked", "gone"} =>
            call[u].phase \in {"idle", "checked", "gone"} \/ lead[u] = "no"
      BY <2>1, <2>2
    <3> QED BY <2>1, <2>2, <3>1, SameLeader
  <2>3. CASE /\ call[t].phase = "checked" /\ call'[t].phase = "queued"
             /\ leaderActive' = TRUE
             /\ lead' = [lead EXCEPT ![t] = IF leaderActive THEN "no" ELSE "claimed"]
    <3>0. lead[t] = "no"
      BY <2>3 DEF LeaderInv
    <3>1. CASE leaderActive
      <4>1. lead' = lead
        BY <1>0, <2>3, <3>0, <3>1
      <4>2. PICK u \in Callers : Leads(u)
        BY <3>1 DEF LeaderInv
      <4>3. \A v \in Callers : Leads(v)' <=> Leads(v)
        BY <4>1 DEF Leads
      <4>4. \A v \in Callers : call'[v].phase \in {"idle", "checked", "gone"} => lead'[v] = "no"
        BY <2>1, <2>3, <4>1 DEF LeaderInv
      <4>5. leaderActive' <=> \E v \in Callers : Leads(v)'
        BY <2>3, <4>2, <4>3
      <4> QED BY <2>1, <2>3, <4>1, <4>3, <4>4, <4>5 DEF LeaderInv
    <3>2. CASE ~leaderActive
      <4>1. /\ lead'[t] = "claimed" /\ \A v \in Callers : v # t => lead'[v] = lead[v]
            /\ \A v \in Callers : ~Leads(v)
        BY <1>0, <2>3, <3>2 DEF LeaderInv
      <4>2. stage = "idle"
        BY <4>1 DEF LeaderInv, Leads
      <4>3. \A v \in Callers : Leads(v)' <=> v = t
        BY <4>1 DEF Leads
      <4>4. \A v \in Callers : call'[v].phase \in {"idle", "checked", "gone"} => lead'[v] = "no"
        BY <2>1, <2>3, <4>1 DEF LeaderInv
      <4>5. \A u, v \in Callers :
              lead'[u] \in {"flushing", "retiring"} /\ lead'[v] \in {"flushing", "retiring"} => u = v
        BY <4>1 DEF LeaderInv
      <4>6. leaderActive' <=> \E v \in Callers : Leads(v)'
        BY <2>3, <4>3
      <4> QED BY <2>1, <2>3, <4>2, <4>3, <4>4, <4>5, <4>6 DEF LeaderInv
    <3> QED BY <3>1, <3>2
  <2> QED BY <2>1, <2>2, <2>3
<1>2. ASSUME NEW t \in Callers, TakeFlushLock(t)
      PROVE  LeaderInv'
  <2>1. /\ lead[t] = "claimed" /\ lead'[t] = "flushing"
        /\ \A v \in Callers : v # t => lead'[v] = lead[v]
        /\ \A v \in Callers : lead[v] \notin {"flushing", "retiring"}
        /\ UNCHANGED <<call, queue, leaderActive, stage>>
    BY <1>0, <1>2 DEF TakeFlushLock
  <2>2. \A v \in Callers : Leads(v)' <=> Leads(v)
    BY <2>1 DEF Leads
  <2>3. \A v \in Callers : call'[v].phase \in {"idle", "checked", "gone"} => lead'[v] = "no"
    BY <2>1 DEF LeaderInv
  <2>4. (leaderActive' <=> \E v \in Callers : Leads(v)') /\ (stage = "idle")
    BY <2>1, <2>2 DEF LeaderInv
  <2>5. \A u, v \in Callers :
          lead'[u] \in {"flushing", "retiring"} /\ lead'[v] \in {"flushing", "retiring"} => u = v
    BY <2>1
  <2> QED BY <2>1, <2>2, <2>3, <2>4, <2>5 DEF LeaderInv
<1>3. ASSUME NEW t \in Callers, Retire(t)
      PROVE  LeaderInv'
  <2>1. /\ lead[t] = "flushing" /\ lead'[t] = "retiring" /\ stage = "idle" /\ queue = <<>>
        /\ \A v \in Callers : v # t => lead'[v] = lead[v]
        /\ leaderActive' = FALSE /\ UNCHANGED <<call, queue, stage>>
    BY <1>0, <1>3 DEF Retire
  <2>2. \A v \in Callers : ~Leads(v)'
    BY <2>1 DEF LeaderInv, Leads
  <2>3. \A v \in Callers : call'[v].phase \in {"idle", "checked", "gone"} => lead'[v] = "no"
    BY <2>1 DEF LeaderInv
  <2>4. \A u, v \in Callers :
          lead'[u] \in {"flushing", "retiring"} /\ lead'[v] \in {"flushing", "retiring"} => u = v
    BY <2>1 DEF LeaderInv
  <2>5. leaderActive' <=> \E v \in Callers : Leads(v)'
    BY <2>1, <2>2
  <2> QED BY <2>1, <2>2, <2>3, <2>4, <2>5 DEF LeaderInv
<1>4. ASSUME NEW t \in Callers, ReleaseFlushLock(t)
      PROVE  LeaderInv'
  <2>1. /\ lead[t] = "retiring" /\ lead'[t] = "no"
        /\ \A v \in Callers : v # t => lead'[v] = lead[v]
        /\ UNCHANGED <<call, queue, stage, leaderActive>>
    BY <1>0, <1>4 DEF ReleaseFlushLock
  <2>2. \A v \in Callers : Leads(v)' <=> Leads(v)
    BY <2>1 DEF Leads
  <2>3. \A v \in Callers : call'[v].phase \in {"idle", "checked", "gone"} => lead'[v] = "no"
    BY <2>1 DEF LeaderInv
  <2>4. /\ \A u, v \in Callers :
             lead'[u] \in {"flushing", "retiring"} /\ lead'[v] \in {"flushing", "retiring"} => u = v
        /\ stage # "idle" => \E v \in Callers : lead'[v] = "flushing"
    BY <2>1 DEF LeaderInv
  <2>5. leaderActive' <=> \E v \in Callers : Leads(v)'
    BY <2>1, <2>2 DEF LeaderInv
  <2> QED BY <2>1, <2>2, <2>3, <2>4, <2>5 DEF LeaderInv
<1>5. ASSUME NEW t \in Callers,
             \/ DrainBatch(t) \/ Begin(t) \/ EvalFails(t) \/ Commit(t)
             \/ Eval(t) \/ Rollback(t) \/ TxnFails(t)
      PROVE  LeaderInv'
  <2>1. /\ lead[t] = "flushing" /\ UNCHANGED <<leaderActive, lead>>
        /\ queue' # <<>> => queue # <<>>
    BY <1>5, EvalEffect DEF DrainBatch, Begin, EvalFails, Commit, Rollback, TxnFails
  <2>2. \A u \in Callers : call'[u].phase = call[u].phase
    <3>1. CASE DrainBatch(t) \/ Begin(t) \/ EvalFails(t) \/ Commit(t)
      BY <3>1 DEF DrainBatch, Begin, EvalFails, Commit
    <3>2. CASE Eval(t)
      BY <3>2, EvalCall
    <3>3. CASE Rollback(t) \/ TxnFails(t)
      <4>1. PICK S \in SUBSET Members : Fail(S)
        <5>1. CASE Rollback(t)
          BY <5>1 DEF Rollback
        <5>2. CASE TxnFails(t)
          BY <5>2 DEF TxnFails
        <5> QED BY <3>3, <5>1, <5>2
      <4>2. stage # "dispatch"
        BY <3>3 DEF Rollback, TxnFails
      <4>3. S \in SUBSET Callers /\ \A u \in S : call[u] \in Requests
        BY <4>2, MembersAreRequests DEF Members
      <4> QED BY <1>0, <4>1, <4>3, FailEffect
    <3> QED BY <1>5, <3>1, <3>2, <3>3
  <2> QED BY <2>1, <2>2, SameLeader
<1>6. ASSUME NEW t \in Callers, Dispatch(t)
      PROVE  LeaderInv'
  <2>1. /\ lead[t] = "flushing" /\ stage = "dispatch"
        /\ UNCHANGED <<queue, leaderActive, lead>>
    BY <1>6 DEF Dispatch
  <2>2. \A u \in Callers : call'[u].phase \in {"idle", "checked", "gone"} =>
          call[u].phase \in {"idle", "checked", "gone"}
    BY <1>6, DispatchEffect
  <2> QED BY <2>1, <2>2, SameLeader
<1>7. ASSUME \/ \E c \in Chains : SetGenesisValidatorsRoot(c)
             \/ OtherWriter \/ UNCHANGED gcVars
      PROVE  LeaderInv'
  <2>1. UNCHANGED <<call, queue, leaderActive, lead, stage>>
    BY <1>7 DEF SetGenesisValidatorsRoot, OtherWriter, gcVars, leaderVars
  <2> QED BY <2>1, SameLeader
<1>8. CASE Crash
  <2>1. /\ \A u \in Callers : lead'[u] = "no"
        /\ leaderActive' = FALSE /\ queue' = <<>> /\ stage' = "idle"
    BY <1>8 DEF Crash, NoBatch
  <2>2. \A u \in Callers : ~Leads(u)'
    BY <2>1 DEF Leads
  <2> QED BY <2>1, <2>2 DEF LeaderInv
<1> QED BY <1>1, <1>2, <1>3, <1>4, <1>5, <1>6, <1>7, <1>8 DEF GCNext, Flush

(* A request is never stranded: whenever one is queued or a batch is in    *)
(* flight, exactly one caller leads, so the queue is flushed again.        *)
QueueHasLeader ==
    /\ queue # <<>> \/ stage # "idle" => \E t \in Callers : Leads(t)
    /\ \A t, u \in Callers : Leads(t) /\ Leads(u) => t = u

(* push_pending and the resignation under the queue's mutex leave no       *)
(* request in the queue without a leader.                                  *)
THEOREM LeaderPresent == GCSpec => []QueueHasLeader
<1>1. GCInit => LeaderInv
  <2>1. ASSUME GCInit
        PROVE  /\ \A t \in Callers : lead[t] = "no"
               /\ leaderActive = FALSE /\ queue = <<>> /\ stage = "idle"
    BY <2>1 DEF GCInit
  <2> QED BY <2>1 DEF LeaderInv, Leads
<1>2. GCInv /\ LeaderInv /\ [GCNext]_gcVars => LeaderInv'
  BY LeaderInvStep
<1>3. LeaderInv => QueueHasLeader
  BY DEF LeaderInv, QueueHasLeader, Leads
<1> QED BY <1>1, <1>2, <1>3, GCInvariant, PTL DEF GCSpec
=============================================================================
