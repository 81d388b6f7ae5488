----------------------------- MODULE EnvelopeSlot -----------------------------
(***************************************************************************)
(* The single-flight guard of execution payload envelopes.  Envelopes are  *)
(* not slashable duties and leave no row in the slashing database; what    *)
(* keeps a process from signing two of them for one slot is a map of slots *)
(* in memory.  A call reserves its slot, signs without any validator lock, *)
(* and drops its guard when it ends or when its future is dropped.  The    *)
(* map starts empty with each process, so the promise is about one process *)
(* ("Per-slot uniqueness is VC-only").                                     *)
(***************************************************************************)
CONSTANTS
    Calls,
    Slots,          \* pairs of a validator and a slot
    Roots           \* envelope roots

VARIABLES
    slots,          \* envelope_slots: "Free" (no entry), "InFlight" or "Signed"
    call,           \* call -> [phase, slot, root]
    handed,         \* <<slot, root>> given to a backend, which may sign it from then on
    signed          \* <<slot, root>> that carry a signature

vars == <<slots, call, handed, signed>>

Idle == [phase |-> "idle"]
Signing == [phase : {"reserved", "handed"}, slot : Slots, root : Roots]

Init ==
    /\ slots = [s \in Slots |-> "Free"]
    /\ call = [c \in Calls |-> Idle]
    /\ handed = {} /\ signed = {}

\* reserve: an entry of any kind refuses the call, which stays idle.
Reserve(c, s, r) ==
    /\ call[c] = Idle
    /\ slots[s] = "Free"
    /\ slots' = [slots EXCEPT ![s] = "InFlight"]
    /\ call' = [call EXCEPT ![c] = [phase |-> "reserved", slot |-> s, root |-> r]]
    /\ UNCHANGED <<handed, signed>>

\* Signing is enabled and the key exists: Signer::sign or the typed RPC begins.
HandOver(c) ==
    /\ call[c].phase = "reserved"
    /\ call' = [call EXCEPT ![c] = [@ EXCEPT !.phase = "handed"]]
    /\ handed' = handed \union {<<call[c].slot, call[c].root>>}
    /\ UNCHANGED <<slots, signed>>

\* KeyNotFound, BlockedByDoppelganger, UnsupportedDuty: each is returned before
\* a backend has the root, and the guard gives the slot back.
Release(c) ==
    /\ call[c].phase = "reserved"
    /\ slots' = [slots EXCEPT ![call[c].slot] = IF @ = "InFlight" THEN "Free" ELSE @]
    /\ call' = [call EXCEPT ![c] = Idle]
    /\ UNCHANGED <<handed, signed>>

\* A signature, a timeout, any other error, or a dropped future: the guard
\* keeps the slot.
Keep(c) ==
    /\ call[c] # Idle
    /\ slots' = [slots EXCEPT ![call[c].slot] = "Signed"]
    /\ call' = [call EXCEPT ![c] = Idle]
    /\ UNCHANGED <<handed, signed>>

\* The backend signs, perhaps long after the call has ended.
BackendSigns ==
    /\ \E e \in handed : signed' = signed \union {e}
    /\ UNCHANGED <<slots, call, handed>>

Next ==
    \/ \E c \in Calls :
          \/ \E s \in Slots, r \in Roots : Reserve(c, s, r)
          \/ HandOver(c) \/ Release(c) \/ Keep(c)
    \/ BackendSigns

Spec == Init /\ [][Next]_vars

-----------------------------------------------------------------------------
\* A process never gets two envelopes of one slot signed, whatever calls run at
\* once, are dropped or time out, and however late a backend signs.
OneEnvelopePerSlot ==
    \A e, f \in signed : e[1] = f[1] => e = f

ESTypeOK ==
    /\ slots \in [Slots -> {"Free", "InFlight", "Signed"}]
    /\ call \in [Calls -> {Idle} \union Signing]
    /\ handed \subseteq Slots \X Roots
    /\ signed \subseteq handed

\* A running call owns its slot alone; a slot whose envelope was handed over is
\* taken, and by a call that has not handed over only if nothing was.
ESInv ==
    /\ ESTypeOK
    /\ \A c \in Calls : call[c] # Idle => slots[call[c].slot] = "InFlight"
    /\ \A c, d \in Calls :
          call[c] # Idle /\ call[d] # Idle /\ call[c].slot = call[d].slot => c = d
    /\ \A e \in handed : slots[e[1]] # "Free"
    /\ \A c \in Calls : call[c].phase = "reserved" => \A e \in handed : e[1] # call[c].slot
    /\ \A e, f \in handed : e[1] = f[1] => e = f
===============================================================================
