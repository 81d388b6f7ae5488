---------------------------- MODULE ForwardWindow ----------------------------
(***************************************************************************)
(* Doppelganger protection: the forward-window machine of                  *)
(* crates/doppelganger, the observation loop that feeds it                 *)
(* (rvc/src/liveness_loop.rs), registration at boot and at key import, and *)
(* the import sidecars that carry an unfinished window over a restart.     *)
(*                                                                         *)
(* A key may sign only in state Safe.  It gets there when every epoch of   *)
(* its window was reported by the beacon nodes without activity, or at     *)
(* boot, by the epoch 0 bypass or the restart skip.                        *)
(*                                                                         *)
(* Beacon nodes (external) may fail or leave validators out; what they do  *)
(* report of a completed epoch, OR-merged over all nodes, is the truth.    *)
(***************************************************************************)
EXTENDS Integers, FiniteSets

CONSTANTS
    None,
    Pubkeys,
    MonitoringEpochs,   \* DEFAULT_MONITORING_EPOCHS
    SlotsPerEpoch,
    LastEpoch,          \* bound: the clock stops in the last slot of this epoch
    BootKeys,           \* keystores on disk at the first start
    Planted,            \* target epochs an imported interchange file may bring
    Doubles,            \* validators that may run on another host as well
    Outage              \* liveness queries may fail or be partial before this epoch

ASSUME WindowAssumption ==
    /\ MonitoringEpochs \in Nat \ {0} /\ SlotsPerEpoch \in Nat \ {0} /\ LastEpoch \in Nat
    /\ BootKeys \subseteq Pubkeys /\ Doubles \subseteq Pubkeys
    /\ Planted \subseteq 0 .. LastEpoch
    /\ None \notin Nat \cup Pubkeys
    /\ Outage \in Nat

Epochs == 0 .. LastEpoch

LastSlot == (LastEpoch + 1) * SlotsPerEpoch - 1

\* Mutant: one epoch short.
LookbackShort == MonitoringEpochs + 1

Lookback == MonitoringEpochs + 2        \* LIVENESS_LOOKBACK_EPOCHS

VARIABLES
    slot,               \* MonotonicEpochClock.current_slot
    up,                 \* the process runs
    states,             \* ForwardWindowMachine.states
    loaded,             \* keys in the signer and in PubkeyMap
    indexed,            \* keys with a known validator index
    job,                \* keystore import or delete that holds tracked_keys, or None
    loop,               \* the observation loop
    keystores,          \* boot-visible keystore files
    sidecars,           \* import markers: *.import_meta.json and its .partial
    history,            \* last_signed_attestation, or None
    ownActivity,        \* <<key, epoch>> with an attestation of this host
    otherActivity,      \* <<key, epoch>> with an attestation of another host
    unvetted            \* imported keys no window was completed for (history)

diskVars == <<keystores, sidecars, history>>
truthVars == <<slot, ownActivity, otherActivity>>
fwVars == <<truthVars, diskVars, up, states, loaded, indexed, job, loop, unvetted>>

-----------------------------------------------------------------------------
Unmonitored == [status |-> "Unmonitored"]
Safe        == [status |-> "Safe"]
Detected    == [status |-> "Detected"]
Pending(e)  == [status |-> "Pending", start |-> e, end |-> e + MonitoringEpochs, observed |-> {}]

Status(pk) == states[pk].status

EpochOf(s) == s \div SlotsPerEpoch

Now == EpochOf(slot)

Window(s) == s.start .. s.end

Asleep == [at |-> "asleep", epoch |-> 0, slot |-> -1, next |-> 0,
           pending |-> TRUE, done |-> {}, asked |-> {}]

Off == [Asleep EXCEPT !.at = "off"]

FWTypeOK ==
    /\ slot \in 0 .. LastSlot
    /\ up \in BOOLEAN
    /\ \A pk \in Pubkeys :
        \/ states[pk] \in {Unmonitored, Safe, Detected}
        \/ /\ Status(pk) = "Pending"
           /\ states[pk].start \in Epochs
           /\ states[pk].end = states[pk].start + MonitoringEpochs
           /\ states[pk].observed \subseteq Window(states[pk])
           /\ \A e \in states[pk].observed : e < Now
    /\ loaded \subseteq Pubkeys /\ indexed \subseteq Pubkeys
    /\ keystores \subseteq Pubkeys /\ sidecars \subseteq Pubkeys /\ unvetted \subseteq Pubkeys
    /\ history \in [Pubkeys -> Epochs \cup {None}]
    /\ job \in {None} \cup [op : {"import", "delete"}, pk : Pubkeys,
                            step : {"staged", "published", "unlinked"}]
    /\ loop \in [at : {"off", "asleep", "observing", "asking", "cleanup"}, epoch : Epochs,
                 slot : -1 .. LastSlot, next : Epochs, pending : BOOLEAN,
                 done : SUBSET Epochs, asked : SUBSET Pubkeys]

-----------------------------------------------------------------------------
(* Registration.                                                           *)

(* should_skip_restart_monitoring *)
SkipsRestart(now, last) ==
    /\ last # None
    /\ last <= now
    /\ now > MonitoringEpochs
    /\ now - last <= MonitoringEpochs

(* register, of a key the machine does not know *)
Register(pk) == IF Now = 0 \/ SkipsRestart(Now, history[pk]) THEN Safe ELSE Pending(Now)

(* register_for_import: no bypass; a known key keeps its state *)
RegisterForImport(pk) == IF states[pk] = Unmonitored THEN Pending(Now) ELSE states[pk]

\* Mutant: boot registers every key alike.
BootStatesUnmarked == [pk \in Pubkeys |-> IF pk \in keystores THEN Register(pk) ELSE Unmonitored]

(* build_signing_enablement: a marked key is an unfinished import.         *)
BootStates == [pk \in Pubkeys |->
    IF pk \notin keystores THEN Unmonitored
    ELSE IF pk \in sidecars THEN Pending(Now)
    ELSE Register(pk)]

(* wire_signing_enablement: keys and their indices are loaded, and the     *)
(* loop starts if there is any key.                                        *)
Boot ==
    /\ ~up
    /\ up' = TRUE
    /\ loaded' = keystores
    /\ states' = BootStates
    /\ indexed' \in SUBSET keystores
    /\ loop' = IF keystores = {} THEN Off ELSE Asleep
    /\ UNCHANGED <<truthVars, diskVars, job, unvetted>>

Crash ==
    /\ up
    /\ up' = FALSE
    /\ states' = [pk \in Pubkeys |-> Unmonitored]
    /\ loaded' = {} /\ indexed' = {} /\ job' = None /\ loop' = Off
    /\ UNCHANGED <<truthVars, diskVars, unvetted>>

FWInit ==
    /\ slot = 0
    /\ up = FALSE
    /\ states = [pk \in Pubkeys |-> Unmonitored]
    /\ loaded = {} /\ indexed = {} /\ job = None /\ loop = Off
    /\ keystores = BootKeys /\ sidecars = {}
    /\ history = [pk \in Pubkeys |-> None]
    /\ ownActivity = {} /\ otherActivity = {}
    /\ unvetted = {}

-----------------------------------------------------------------------------
(* The world: time, the other host, index resolution, signing.             *)

AdvanceSlot ==
    /\ slot < LastSlot
    /\ slot' = slot + 1
    /\ UNCHANGED <<ownActivity, otherActivity, diskVars, up, states, loaded, indexed,
                   job, loop, unvetted>>

OtherSigns(pk) ==
    /\ otherActivity' = otherActivity \cup {<<pk, Now>>}
    /\ UNCHANGED <<slot, ownActivity, diskVars, up, states, loaded, indexed, job, loop, unvetted>>

(* IndexResolver: sooner or later, when a beacon node knows the key.       *)
ResolveIndex(pk) ==
    /\ pk \in loaded \ indexed
    /\ indexed' = indexed \cup {pk}
    /\ UNCHANGED <<truthVars, diskVars, up, states, loaded, job, loop, unvetted>>

(* An attestation of the current epoch; the slashing database wants its    *)
(* target above the last one.                                              *)
Attest(pk) ==
    /\ pk \in loaded /\ states[pk] = Safe
    /\ history[pk] # None => history[pk] < Now
    /\ history' = [history EXCEPT ![pk] = Now]
    /\ ownActivity' = ownActivity \cup {<<pk, Now>>}
    /\ UNCHANGED <<slot, otherActivity, keystores, sidecars, up, states, loaded, indexed,
                   job, loop, unvetted>>

-----------------------------------------------------------------------------
(* Key manager, under tracked_keys.  import_keystore_blocking stages the   *)
(* marker, makes the keystore visible to boot, then admits the key.        *)

(* POST keystores imports the slashing history first.                      *)
PlantHistory(pk, e) ==
    /\ up
    /\ history[pk] # None => history[pk] < e
    /\ history' = [history EXCEPT ![pk] = e]
    /\ UNCHANGED <<truthVars, keystores, sidecars, up, states, loaded, indexed, job, loop, unvetted>>

StageImport(pk) ==
    /\ up /\ job = None
    /\ pk \notin loaded
    /\ sidecars' = sidecars \cup {pk}
    /\ job' = [op |-> "import", pk |-> pk, step |-> "staged"]
    /\ unvetted' = unvetted \cup {pk}
    /\ UNCHANGED <<truthVars, keystores, history, up, states, loaded, indexed, loop>>

PublishKeystore ==
    /\ job # None /\ job.step = "staged"
    /\ keystores' = keystores \cup {job.pk}
    /\ job' = [job EXCEPT !.step = "published"]
    /\ UNCHANGED <<truthVars, sidecars, history, up, states, loaded, indexed, loop, unvetted>>

Admit ==
    /\ job # None /\ job.step = "published"
    /\ loaded' = loaded \cup {job.pk}
    /\ states' = [states EXCEPT ![job.pk] = RegisterForImport(job.pk)]
    /\ job' = None
    /\ UNCHANGED <<truthVars, diskVars, up, indexed, loop, unvetted>>

(* delete_keystore: the keystore goes first, then the marker; that its     *)
(* unlink fails is not noticed.                                            *)
UnlinkKeystore(pk) ==
    /\ up /\ job = None
    /\ pk \in loaded
    /\ keystores' = keystores \ {pk}
    /\ sidecars' \in {sidecars, sidecars \ {pk}}
    /\ job' = [op |-> "delete", pk |-> pk, step |-> "unlinked"]
    /\ UNCHANGED <<truthVars, history, up, states, loaded, indexed, loop, unvetted>>

(* Registry, map and machine forget the key; or the denylist write fails   *)
(* and the key stays.                                                      *)
FinishDelete ==
    /\ job # None /\ job.step = "unlinked"
    /\ job' = None
    /\ \/ /\ loaded' = loaded \ {job.pk}
          /\ states' = [states EXCEPT ![job.pk] = Unmonitored]
       \/ UNCHANGED <<loaded, states>>
    /\ UNCHANGED <<truthVars, diskVars, up, indexed, loop, unvetted>>

-----------------------------------------------------------------------------
(* The observation loop, one cycle per slot (LivenessObservationLoop.run). *)

\* Mutant: the epoch in progress is queried too.
WakeInclusive ==
    /\ loop.at = "asleep"
    /\ slot # loop.slot \/ slot = LastSlot
    /\ Now < LastEpoch
    /\ loop' = [loop EXCEPT !.at = "observing", !.epoch = Now + 1, !.slot = slot,
                            !.next = IF Now > Lookback THEN Now - Lookback ELSE 0]
    /\ UNCHANGED <<truthVars, diskVars, up, states, loaded, indexed, job, unvetted>>

Wake ==
    /\ loop.at = "asleep"
    /\ slot # loop.slot \/ slot = LastSlot
    /\ loop' = [loop EXCEPT !.at = "observing", !.epoch = Now, !.slot = slot,
                            !.next = IF Now > Lookback THEN Now - Lookback ELSE 0]
    /\ UNCHANGED <<truthVars, diskVars, up, states, loaded, indexed, job, unvetted>>

(* The next epoch is skipped (nothing Pending and seen complete before, or *)
(* no index to ask for) or its liveness is requested.                      *)
Ask ==
    /\ loop.at = "observing" /\ loop.next < loop.epoch
    /\ loop' = IF (~loop.pending /\ loop.next \in loop.done) \/ indexed = {}
               THEN [loop EXCEPT !.next = @ + 1]
               ELSE [loop EXCEPT !.at = "asking", !.asked = indexed]
    /\ UNCHANGED <<truthVars, diskVars, up, states, loaded, indexed, job, unvetted>>

Live(pk, e) == <<pk, e>> \in ownActivity \cup otherActivity

(* observe_liveness, for one validator *)
InWindow(s, e) == s.status = "Pending" /\ e \in Window(s)

\* Mutant: a validator missing from the answer counts as observed.
ObservedMissing(pk, e, answered) ==
    IF ~InWindow(states[pk], e) THEN states[pk]
    ELSE IF pk \in answered /\ Live(pk, e) THEN Detected
    ELSE [states[pk] EXCEPT !.observed = @ \cup {e}]

Observed(pk, e, answered) ==
    IF ~InWindow(states[pk], e) \/ pk \notin answered THEN states[pk]
    ELSE IF Live(pk, e) THEN Detected
    ELSE [states[pk] EXCEPT !.observed = @ \cup {e}]

Complete(e, answered) == \A pk \in Pubkeys : InWindow(states[pk], e) => pk \in answered

Answer(answered) ==
    /\ loop.at = "asking"
    /\ Now >= Outage => answered = loop.asked
    /\ states' = [pk \in Pubkeys |-> Observed(pk, loop.next, answered)]
    /\ loop' = [loop EXCEPT !.at = "observing", !.next = @ + 1, !.asked = {},
                   !.done = IF Complete(loop.next, answered) THEN @ \cup {loop.next} ELSE @]
    /\ UNCHANGED <<truthVars, diskVars, up, loaded, indexed, job, unvetted>>

QueryFails ==
    /\ loop.at = "asking" /\ Now < Outage
    /\ loop' = [loop EXCEPT !.at = "observing", !.next = @ + 1, !.asked = {}]
    /\ UNCHANGED <<truthVars, diskVars, up, states, loaded, indexed, job, unvetted>>

(* tick, for one validator, at the epoch and slot the cycle began with *)
AtBoundary(s) == \/ loop.epoch > s.end
                 \/ loop.epoch = s.end /\ loop.slot % SlotsPerEpoch >= SlotsPerEpoch - 1

Ticked(s) ==
    IF s.status = "Pending" /\ AtBoundary(s) /\ Window(s) \subseteq s.observed
    THEN Safe ELSE s

Tick ==
    LET after == [pk \in Pubkeys |-> Ticked(states[pk])]
    IN  /\ loop.at = "observing" /\ loop.next >= loop.epoch
        /\ states' = after
        /\ unvetted' = {pk \in unvetted : after[pk] = states[pk]}
        /\ loop' = [loop EXCEPT !.at = "cleanup",
                       !.pending = \E pk \in Pubkeys : after[pk].status = "Pending"]
        /\ UNCHANGED <<truthVars, diskVars, up, loaded, indexed, job>>

(* record_completed_imports, each marker under tracked_keys; an unlink may *)
(* fail.  Then the cycle forgets old epochs and sleeps.                    *)
Cleanup ==
    /\ loop.at = "cleanup" /\ job = None
    /\ \E gone \in SUBSET {pk \in sidecars \cap loaded : states[pk] = Safe} :
           sidecars' = sidecars \ gone
    /\ loop' = [loop EXCEPT !.at = "asleep", !.epoch = 0, !.next = 0,
                   !.done = {e \in @ : loop.epoch > Lookback + 4 => e >= loop.epoch - (Lookback + 4)}]
    /\ UNCHANGED <<truthVars, keystores, history, up, states, loaded, indexed, job, unvetted>>

-----------------------------------------------------------------------------
KeyManager ==
    \/ \E pk \in Pubkeys, e \in Planted : PlantHistory(pk, e)
    \/ \E pk \in Pubkeys : StageImport(pk) \/ UnlinkKeystore(pk)
    \/ PublishKeystore \/ Admit \/ FinishDelete

Cycle == Wake \/ Ask \/ (\E answered \in SUBSET loop.asked : Answer(answered)) \/ QueryFails
         \/ Tick \/ Cleanup

FWNext ==
    \/ AdvanceSlot
    \/ \E pk \in Doubles : OtherSigns(pk)
    \/ \E pk \in Pubkeys : ResolveIndex(pk) \/ Attest(pk)
    \/ KeyManager
    \/ Cycle
    \/ Boot \/ Crash

FWSpec == FWInit /\ [][FWNext]_fwVars

-----------------------------------------------------------------------------
(* Properties.                                                             *)

(* A window only ends well for a key nobody else used: whoever goes from   *)
(* Pending to Safe had no attestation in any epoch of its window, whatever *)
(* queries failed and whenever the answers came.                           *)
SafeMeansQuiet ==
    [][\A pk \in Pubkeys :
          Status(pk) = "Pending" /\ states'[pk] = Safe =>
              \A e \in Window(states[pk]) : ~Live(pk, e)]_fwVars

(* An imported key never signs before a window of its own was completed    *)
(* after the import, in spite of crashes, restarts and planted history:    *)
(* neither boot bypass applies to it.                                      *)
ImportIsVetted == \A pk \in loaded : states[pk] = Safe => pk \notin unvetted

(* A restart is not a double: a key that was cleared and not imported      *)
(* again since is only Detected if another host used it, however often     *)
(* this process restarts after it has signed.                              *)
RestartIsNoDouble ==
    \A pk \in Pubkeys \ unvetted :
        states[pk] = Detected => \E e \in Epochs : <<pk, e>> \in otherActivity

(* Liveness.  Once the beacon nodes answer, no epoch ends without a cycle  *)
(* begun in it: the loop sleeps one slot of the 32 between two cycles, and *)
(* a cycle is at most Lookback requests, each answered, and a wait for a   *)
(* key manager request.                                                    *)
CycleEachEpoch ==
    Now' # Now /\ Now >= Outage => loop.at = "off" \/ loop.slot >= Now * SlotsPerEpoch

(* The clock and the loop keep running, a key manager request ends, and    *)
(* the tracked_keys mutex is handed over fairly.  Nothing is assumed of    *)
(* the resolver.                                                           *)
FairFWSpec ==
    /\ FWInit
    /\ [][FWNext /\ CycleEachEpoch]_fwVars
    /\ WF_fwVars(AdvanceSlot /\ CycleEachEpoch)
    /\ WF_fwVars(Cycle) /\ SF_fwVars(Cleanup)
    /\ WF_fwVars(PublishKeystore \/ Admit \/ FinishDelete)

(* A window that closes before the bound on the clock.                     *)
Closes(pk) == Status(pk) = "Pending" /\ states[pk].end < LastEpoch

(* The key's index is known and the beacon nodes answer before an epoch of *)
(* its window that is still unobserved lies too far back.  For the first   *)
(* epoch of a window the limit is reached in the epoch after the window.   *)
InTime(pk) ==
    /\ pk \in indexed /\ Now >= Outage
    /\ \A e \in Window(states[pk]) \ states[pk].observed : Now - e <= MonitoringEpochs + 1

(* doppelganger_safe is decided, one way or the other, for a key whose     *)
(* index or answers came late, up to and including the epoch after its     *)
(* window, where the loop runs (liveness_loop.rs starts none in a process  *)
(* that boots without a key): no retry, import, delete or marker cleanup   *)
(* keeps the loop from observing an epoch before the lookback gives it up. *)
(* A key that is later than that stays Pending until the next restart.     *)
ObservedWindowDecided ==
    \A pk \in Pubkeys :
        (Closes(pk) /\ InTime(pk) /\ loop.at # "off") ~> (~Closes(pk) \/ loop.at = "off")
=============================================================================
