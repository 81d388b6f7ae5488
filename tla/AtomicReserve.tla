---------------------------- MODULE AtomicReserve ----------------------------
(***************************************************************************)
(* What reserve_block and reserve_attestation promise their callers,       *)
(* whatever happens behind them: a reservation is refused with no effect,  *)
(* or it takes effect in one indivisible step in which the rules accept    *)
(* the duty against all rows written before, and its row is durable when   *)
(* the caller is answered.  Reservations of several callers may take       *)
(* effect in the same step, one after the other.                           *)
(*                                                                         *)
(* This is the interface SlashableSigning assumes in its action Reserve;   *)
(* GroupCommit is shown to implement it.                                   *)
(***************************************************************************)
EXTENDS SlashingDb, Sequences, FiniteSets

CONSTANTS
    Callers,            \* threads inside a reserve_* call
    Chains              \* genesis validators roots

VARIABLES
    pin,                \* metadata.genesis_validators_root, or None
    ask                 \* what each caller has asked for and been answered

askVars == <<dbVars, pin, ask>>

Nothing == [state |-> "none"]

Answers == {"inserted", "resigned", "refused"}

AskInit == DbInit /\ pin = None /\ ask = [t \in Callers |-> Nothing]

Message(t) == <<ask[t].pk, ask[t].duty>>

-----------------------------------------------------------------------------
Ask(t, pk, d, c) ==
    /\ ask[t] = Nothing
    /\ ask' = [ask EXCEPT ![t] = [state |-> "pending", pk |-> pk, duty |-> d, chain |-> c]]
    /\ UNCHANGED <<dbVars, pin>>

(* The callers in order, without repetition, whose rows one commit writes. *)
Orders == UNION {{o \in [1 .. n -> Callers] : \A i, j \in 1 .. n : o[i] = o[j] => i = j} :
                 n \in 1 .. Cardinality(Callers)}

(* What the i-th caller of an order sees is the tables and the rows of the *)
(* callers before it.                                                      *)
Before(order, i) == {Message(order[j]) : j \in 1 .. i - 1}

VerdictAt(order, i) == VerdictAfter(Before(order, i), ask[order[i]].pk, ask[order[i]].duty)

Serve(order) ==
    /\ \A i \in DOMAIN order :
        /\ ask[order[i]].state = "pending"
        /\ pin # None => ask[order[i]].chain = pin
        /\ VerdictAt(order, i) \in AcceptedAttestation \cup AcceptedBlock
    /\ InsertAll({Message(order[i]) : i \in DOMAIN order})
    /\ ask' = [t \in Callers |->
           IF \E i \in DOMAIN order : order[i] = t
           THEN [ask[t] EXCEPT !.state =
                    IF VerdictAt(order, CHOOSE i \in DOMAIN order : order[i] = t) = "Stage"
                    THEN "inserted" ELSE "resigned"]
           ELSE ask[t]]
    /\ UNCHANGED pin

Refuse(S) ==
    /\ \A t \in S : ask[t].state = "pending"
    /\ ask' = [t \in Callers |-> IF t \in S THEN [ask[t] EXCEPT !.state = "refused"] ELSE ask[t]]
    /\ UNCHANGED <<dbVars, pin>>

(* The caller takes its answer, or gives up waiting for it.                *)
Leave(t) ==
    /\ ask[t] # Nothing
    /\ ask' = [ask EXCEPT ![t] = Nothing]
    /\ UNCHANGED <<dbVars, pin>>

Pin(c) == pin = None /\ pin' = c /\ UNCHANGED <<dbVars, ask>>

OtherWriters ==
    /\ \/ \E pk \in Pubkeys, s \in Slots : SetBlockWatermark(pk, s)
       \/ \E pk \in Pubkeys, s, t \in Epochs : SetAttestationWatermark(pk, s, t)
       \/ Prune
    /\ UNCHANGED <<pin, ask>>

Restart == ask' = [t \in Callers |-> Nothing] /\ UNCHANGED <<dbVars, pin>>

AskNext ==
    \/ \E t \in Callers, pk \in Pubkeys, d \in Duties, c \in Chains : Ask(t, pk, d, c)
    \/ \E order \in Orders : Serve(order)
    \/ \E S \in SUBSET Callers : Refuse(S)
    \/ \E t \in Callers : Leave(t)
    \/ \E c \in Chains : Pin(c)
    \/ OtherWriters
    \/ Restart

AskSpec == AskInit /\ [][AskNext]_askVars
=============================================================================
