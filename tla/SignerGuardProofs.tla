-------------------------- MODULE SignerGuardProofs --------------------------
(***************************************************************************)
(* Proofs about the two guards of the signer service that live in memory:  *)
(* the validator lock map and the single-flight slots of the execution     *)
(* payload envelopes.                                                      *)
(***************************************************************************)
EXTENDS TLAPS

CONSTANTS Callers, Pubkeys, Locks, Capacity, Calls, Slots, Roots

VARIABLES entry, lockCall, slots, envelopeCall, handed, signed

LM == INSTANCE LockMap WITH call <- lockCall

ES == INSTANCE EnvelopeSlot WITH call <- envelopeCall

-----------------------------------------------------------------------------
(* The validator lock map.                                                 *)

\* "No mutex" is none of the mutexes.
LEMMA NoneIsNoLock == LM!None \notin Locks
  BY NoSetContainsEverything DEF LM!None

\* The empty map satisfies the invariant.
LEMMA LockInit == LM!Init => LM!LMInv
  BY DEF LM!Init, LM!LMInv, LM!LMTypeOK, LM!Idle

\* An entry in use survives the sweep.
LEMMA SweepKeepsUsed ==
  ASSUME LM!LMInv, NEW c \in Callers, lockCall[c].phase # "idle"
  PROVE  LM!Swept[lockCall[c].pk] = lockCall[c].lock
  BY DEF LM!LMInv, LM!LMTypeOK, LM!Swept, LM!InUse, LM!Idle

\* Every operation of the map and of its callers keeps the invariant.
LEMMA LockStep == LM!LMInv /\ [LM!Next]_(LM!vars) => LM!LMInv'
<1> SUFFICES ASSUME LM!LMInv, [LM!Next]_(LM!vars) PROVE LM!LMInv'
  OBVIOUS
<1>1. ASSUME NEW c \in Callers, NEW pk \in Pubkeys, LM!GetExisting(c, pk) PROVE LM!LMInv'
  BY <1>1 DEF LM!LMInv, LM!LMTypeOK, LM!GetExisting, LM!Idle
<1>2. ASSUME NEW c \in Callers, NEW pk \in Pubkeys, NEW l \in Locks, LM!GetNew(c, pk, l)
      PROVE  LM!LMInv'
  <2>1. LM!LMTypeOK'
    BY <1>2 DEF LM!LMInv, LM!LMTypeOK, LM!GetNew, LM!Swept, LM!Idle
  <2>2. ASSUME NEW d \in Callers, lockCall'[d].phase # "idle"
        PROVE  entry'[lockCall'[d].pk] = lockCall'[d].lock
    <3>1. CASE d = c
      BY <1>2, <3>1 DEF LM!LMInv, LM!LMTypeOK, LM!GetNew, LM!Swept
    <3>2. CASE d # c
      <4>1. lockCall'[d] = lockCall[d] /\ lockCall[d].phase # "idle"
        BY <1>2, <2>2, <3>2 DEF LM!LMInv, LM!LMTypeOK, LM!GetNew
      <4>2. entry[lockCall[d].pk] = lockCall[d].lock /\ lockCall[d].pk \in Pubkeys /\ lockCall[d].lock \in Locks
        BY <4>1 DEF LM!LMInv, LM!LMTypeOK, LM!Idle
      <4>3. lockCall[d].pk # pk
        BY <1>2, <4>2, NoneIsNoLock DEF LM!GetNew
      <4>4. LM!Swept[lockCall[d].pk] = lockCall[d].lock
        BY <4>1, SweepKeepsUsed
      <4> QED
        BY <1>2, <4>1, <4>2, <4>3, <4>4 DEF LM!GetNew, LM!Swept
    <3> QED
      BY <3>1, <3>2
  <2>3. ASSUME NEW d \in Callers, NEW f \in Callers, lockCall'[d].phase = "holding",
               lockCall'[f].phase = "holding", lockCall'[d].lock = lockCall'[f].lock
        PROVE  d = f
    BY <1>2, <2>3 DEF LM!LMInv, LM!LMTypeOK, LM!GetNew
  <2> QED
    BY <2>1, <2>2, <2>3 DEF LM!LMInv
<1>3. ASSUME NEW c \in Callers, LM!Acquire(c) PROVE LM!LMInv'
  BY <1>3 DEF LM!LMInv, LM!LMTypeOK, LM!Acquire, LM!Idle
<1>4. ASSUME NEW c \in Callers, LM!DropArc(c) PROVE LM!LMInv'
  BY <1>4 DEF LM!LMInv, LM!LMTypeOK, LM!DropArc, LM!Idle
<1>5. CASE UNCHANGED LM!vars
  BY <1>5 DEF LM!LMInv, LM!LMTypeOK, LM!vars
<1> QED
  BY <1>1, <1>2, <1>3, <1>4, <1>5 DEF LM!Next

\* The lock map gives every validator one lock, for any capacity and any
\* number of callers (get and lock of locks.rs).
THEOREM LockMapExcludes == LM!Spec => []LM!MutualExclusion
<1>1. LM!LMInv => LM!MutualExclusion
  BY DEF LM!LMInv, LM!LMTypeOK, LM!MutualExclusion
<1> QED
  BY LockInit, LockStep, <1>1, PTL DEF LM!Spec

-----------------------------------------------------------------------------
(* The slots of the envelopes.                                             *)

\* The empty map satisfies the invariant.
LEMMA EnvelopeInit == ES!Init => ES!ESInv
  BY DEF ES!Init, ES!ESInv, ES!ESTypeOK, ES!Idle

\* Every step of a call or of a backend keeps the invariant.
LEMMA EnvelopeStep == ES!ESInv /\ [ES!Next]_(ES!vars) => ES!ESInv'
<1> SUFFICES ASSUME ES!ESInv, [ES!Next]_(ES!vars) PROVE ES!ESInv'
  OBVIOUS
<1>1. ASSUME NEW c \in Calls, NEW s \in Slots, NEW r \in Roots, ES!Reserve(c, s, r) PROVE ES!ESInv'
  BY <1>1 DEF ES!ESInv, ES!ESTypeOK, ES!Reserve, ES!Idle, ES!Signing
<1>2. ASSUME NEW c \in Calls, ES!HandOver(c) PROVE ES!ESInv'
  BY <1>2 DEF ES!ESInv, ES!ESTypeOK, ES!HandOver, ES!Idle, ES!Signing
<1>3. ASSUME NEW c \in Calls, ES!Release(c) PROVE ES!ESInv'
  BY <1>3 DEF ES!ESInv, ES!ESTypeOK, ES!Release, ES!Idle, ES!Signing
<1>4. ASSUME NEW c \in Calls, ES!Keep(c) PROVE ES!ESInv'
  BY <1>4 DEF ES!ESInv, ES!ESTypeOK, ES!Keep, ES!Idle, ES!Signing
<1>5. CASE ES!BackendSigns
  BY <1>5 DEF ES!ESInv, ES!ESTypeOK, ES!BackendSigns
<1>6. CASE UNCHANGED ES!vars
  BY <1>6 DEF ES!ESInv, ES!ESTypeOK, ES!vars
<1> QED
  BY <1>1, <1>2, <1>3, <1>4, <1>5, <1>6 DEF ES!Next

\* The guard of sign_execution_payload_envelope_root keeps its promise for any
\* number of calls, slots and envelopes.
THEOREM EnvelopeGuardHolds == ES!Spec => []ES!OneEnvelopePerSlot
<1>1. ES!ESInv => ES!OneEnvelopePerSlot
  BY DEF ES!ESInv, ES!ESTypeOK, ES!OneEnvelopePerSlot
<1> QED
  BY EnvelopeInit, EnvelopeStep, <1>1, PTL DEF ES!Spec
=============================================================================
