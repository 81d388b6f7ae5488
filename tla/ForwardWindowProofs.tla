------------------------ MODULE ForwardWindowProofs ------------------------
(***************************************************************************)
(* Proofs about the doppelganger window, for every number of keys, slots   *)
(* and epochs, every schedule of crashes, failed queries and key manager   *)
(* requests: its state is well formed, a window that ends well was quiet,  *)
(* and an imported key does not sign before its own window is over.        *)
(***************************************************************************)
EXTENDS ForwardWindow, TLAPS

PendingStates == [status : {"Pending"}, start : Epochs, end : Nat, observed : SUBSET Nat]

KeyStates == {Unmonitored, Safe, Detected} \cup PendingStates

Steps == {"staged", "published", "unlinked"}

Jobs == [op : {"import", "delete"}, pk : Pubkeys, step : Steps]

Loops == [at : {"off", "asleep", "observing", "asking", "cleanup"}, epoch : Epochs,
          slot : -1 .. LastSlot, next : Epochs, pending : BOOLEAN,
          done : SUBSET Epochs, asked : SUBSET Pubkeys]

(* The state is well formed, the function and record sets spelled out.     *)
Typed ==
    /\ slot \in 0 .. LastSlot
    /\ up \in BOOLEAN
    /\ states \in [Pubkeys -> KeyStates]
    /\ loaded \subseteq Pubkeys /\ indexed \subseteq Pubkeys
    /\ keystores \subseteq Pubkeys /\ sidecars \subseteq Pubkeys /\ unvetted \subseteq Pubkeys
    /\ history \in [Pubkeys -> Epochs \cup {None}]
    /\ job \in {None} \cup Jobs
    /\ loop \in Loops

(* The loop looks at epochs that were over when its cycle began.           *)
LoopBehind ==
    /\ loop.epoch <= Now
    /\ loop.at = "asking" => loop.next < loop.epoch

(* What one key's window has seen: complete epochs of its own, without any *)
(* attestation of the key.                                                 *)
Sound(pk, s) ==
    s.status = "Pending" =>
        /\ s.end = s.start + MonitoringEpochs
        /\ \A e \in s.observed : e \in Window(s) /\ e < Now /\ ~Live(pk, e)

WindowsSound == \A pk \in Pubkeys : Sound(pk, states[pk])

(* Nothing of a stopped process is left.                                   *)
DownIsEmpty ==
    ~up => job = None /\ loop.at = "off" /\ \A pk \in Pubkeys : states[pk] = Unmonitored

(* Only a loaded key is monitored or cleared.                              *)
UnloadedUnmonitored == \A pk \in Pubkeys \ loaded : states[pk] = Unmonitored

(* An imported key is marked on disk as long as boot can see its keystore, *)
(* and is not cleared.                                                     *)
UnvettedMarked == \A pk \in unvetted \cap keystores : pk \in sidecars
UnvettedNotSafe == \A pk \in unvetted : states[pk] # Safe
ImportMarked == job # None => (job.step = "staged" => job.pk \in sidecars)

FWInv ==
    /\ Typed /\ LoopBehind /\ WindowsSound /\ DownIsEmpty
    /\ UnloadedUnmonitored /\ UnvettedMarked /\ UnvettedNotSafe /\ ImportMarked

-----------------------------------------------------------------------------
(* Epochs of slots.                                                        *)

(* A slot of the modelled chain lies in one of its epochs, and the epoch   *)
(* of the next slot is not an earlier one (slot / slots_per_epoch).        *)
LEMMA EpochFacts ==
    ASSUME NEW n \in Nat
    PROVE  /\ EpochOf(n) \in Nat
           /\ EpochOf(n) <= EpochOf(n + 1)
           /\ n <= LastSlot => EpochOf(n) \in Epochs
<1>1. ASSUME NEW k \in Nat, NEW s \in Nat \ {0}
      PROVE  /\ k \div s \in Int
             /\ s * (k \div s) <= k
             /\ k < s * (k \div s) + s
  OBVIOUS
<1>2. SlotsPerEpoch \in Nat \ {0} /\ LastEpoch \in Nat
  BY WindowAssumption
<1>3. ASSUME NEW s \in Nat \ {0}, NEW q \in Int, NEW r \in Int, NEW k \in Nat,
             s * q <= k, k < s * r + s
      PROVE  q <= r
  <2>1. s * q < s * (r + 1)
    BY <1>3
  <2>2. SUFFICES ASSUME q >= r + 1 PROVE FALSE
    OBVIOUS
  <2>3. ASSUME NEW a \in Int, NEW b \in Int, a >= b PROVE s * a >= s * b
    BY <2>3, <1>3
  <2> QED BY <2>1, <2>2, <2>3
<1>4. EpochOf(n) \in Int /\ EpochOf(n + 1) \in Int
  BY <1>1, <1>2 DEF EpochOf
<1>5. EpochOf(n) >= 0
  BY <1>1, <1>2, <1>3, <1>4 DEF EpochOf
<1>6. EpochOf(n) <= EpochOf(n + 1)
  BY <1>1, <1>2, <1>3, <1>4 DEF EpochOf
<1>7. n <= LastSlot => EpochOf(n) <= LastEpoch
  BY <1>1, <1>2, <1>3, <1>4 DEF EpochOf, LastSlot
<1> QED BY <1>2, <1>4, <1>5, <1>6, <1>7 DEF Epochs

(* The constants of the clock, and the values records start from.          *)
LEMMA ClockFacts ==
    /\ LastSlot \in Nat /\ LastEpoch \in Nat /\ 0 \in Epochs /\ Lookback \in Nat
    /\ MonitoringEpochs \in Nat \ {0}
    /\ Off \in Loops /\ Asleep \in Loops
    /\ \A e \in Epochs : Pending(e) \in PendingStates
<1>1. SlotsPerEpoch \in Nat \ {0} /\ LastEpoch \in Nat /\ MonitoringEpochs \in Nat \ {0}
  BY WindowAssumption
<1>2. ASSUME NEW a \in Nat, NEW b \in Nat \ {0} PROVE (a + 1) * b - 1 \in Nat
  <2>1. (a + 1) * b \in Nat /\ (a + 1) * b >= b
    BY <1>2
  <2> QED BY <2>1
<1>3. LastSlot \in Nat /\ 0 \in Epochs /\ Lookback \in Nat
  BY <1>1, <1>2 DEF LastSlot, Epochs, Lookback
<1>4. Asleep \in Loops /\ Off \in Loops
  <2>1. -1 \in -1 .. LastSlot
    BY <1>3
  <2>2. TRUE \in BOOLEAN /\ {} \in SUBSET Epochs /\ {} \in SUBSET Pubkeys
    OBVIOUS
  <2>3. Asleep \in Loops
    BY <1>3, <2>1, <2>2, Zenon DEF Asleep, Loops
  <2>4. Off \in Loops
    BY <2>3, Zenon DEF Off, Loops
  <2> QED BY <2>3, <2>4
<1>5. ASSUME NEW e \in Epochs PROVE Pending(e) \in PendingStates
  BY <1>1 DEF Pending, PendingStates, Epochs
<1> QED BY <1>1, <1>3, <1>4, <1>5

(* The epoch under way is an epoch of the modelled chain.                  *)
LEMMA NowInEpochs == ASSUME slot \in 0 .. LastSlot PROVE Now \in Epochs /\ Now \in Nat
<1>1. slot \in Nat /\ slot <= LastSlot
  BY ClockFacts
<1> QED BY <1>1, EpochFacts DEF Now

(* A step does not set the clock back, and the epochs before the current   *)
(* one keep their attestations: activity is only ever added now.           *)
LEMMA PastIsFixed ==
    ASSUME Typed, [FWNext]_fwVars
    PROVE  /\ slot' \in 0 .. LastSlot
           /\ Now <= Now' /\ Now' \in Epochs
           /\ \A pk, e : e < Now => (Live(pk, e)' <=> Live(pk, e))
<1>0. slot \in 0 .. LastSlot /\ LastSlot \in Nat
  BY ClockFacts DEF Typed
<1>1. CASE AdvanceSlot
  <2>1. slot \in Nat /\ slot' = slot + 1 /\ slot' \in 0 .. LastSlot
    BY <1>0, <1>1 DEF AdvanceSlot
  <2>2. Now <= Now' /\ Now' \in Epochs
    BY <2>1, EpochFacts DEF Now
  <2>3. UNCHANGED <<ownActivity, otherActivity>>
    BY <1>1 DEF AdvanceSlot
  <2> QED BY <2>1, <2>2, <2>3 DEF Live
<1>2. CASE \E pk \in Doubles : OtherSigns(pk)
  <2>1. PICK k : otherActivity' = otherActivity \cup {<<k, Now>>} /\ UNCHANGED <<slot, ownActivity>>
    BY <1>2 DEF OtherSigns
  <2>2. Now' = Now /\ Now \in Epochs /\ Now \in Nat
    BY <1>0, <2>1, NowInEpochs DEF Now
  <2> QED BY <1>0, <2>1, <2>2 DEF Live
<1>3. CASE \E pk \in Pubkeys : Attest(pk)
  <2>1. PICK k : ownActivity' = ownActivity \cup {<<k, Now>>} /\ UNCHANGED <<slot, otherActivity>>
    BY <1>3 DEF Attest
  <2>2. Now' = Now /\ Now \in Epochs /\ Now \in Nat
    BY <1>0, <2>1, NowInEpochs DEF Now
  <2> QED BY <1>0, <2>1, <2>2 DEF Live
<1>4. CASE UNCHANGED truthVars
  <2>1. Now' = Now /\ Now \in Epochs /\ Now \in Nat
    BY <1>0, <1>4, NowInEpochs DEF Now, truthVars
  <2> QED BY <1>0, <1>4, <2>1 DEF Live, truthVars
<1>5. UNCHANGED truthVars \/ AdvanceSlot \/ (\E pk \in Doubles : OtherSigns(pk))
      \/ (\E pk \in Pubkeys : Attest(pk))
  BY DEF FWNext, KeyManager, Cycle, ResolveIndex, PlantHistory, StageImport, PublishKeystore,
         Admit, UnlinkKeystore, FinishDelete, Wake, Ask, Answer, QueryFails, Tick, Cleanup,
         Boot, Crash, fwVars
<1> QED BY <1>1, <1>2, <1>3, <1>4, <1>5

-----------------------------------------------------------------------------
(* The inductive invariant.                                                *)

(* The program starts in a state of the invariant.                         *)
LEMMA FWInvInit == FWInit => FWInv
<1> SUFFICES ASSUME FWInit PROVE FWInv
  OBVIOUS
<1>1. Typed
  <2>0. up \in BOOLEAN
    BY DEF FWInit
  <2>1. slot \in 0 .. LastSlot /\ states \in [Pubkeys -> KeyStates]
    BY ClockFacts DEF FWInit, KeyStates
  <2>2. /\ loaded \subseteq Pubkeys /\ indexed \subseteq Pubkeys
        /\ keystores \subseteq Pubkeys /\ sidecars \subseteq Pubkeys /\ unvetted \subseteq Pubkeys
        /\ history \in [Pubkeys -> Epochs \cup {None}]
        /\ job \in {None} \cup Jobs
    BY WindowAssumption DEF FWInit
  <2>3. loop \in Loops
    BY ClockFacts DEF FWInit
  <2> QED BY <2>0, <2>1, <2>2, <2>3 DEF Typed
<1>2. LoopBehind
  <2>1. loop.epoch = 0 /\ loop.at = "off"
    BY DEF FWInit, Off, Asleep
  <2> QED BY <1>1, <2>1, NowInEpochs DEF LoopBehind, Typed
<1>3. WindowsSound /\ DownIsEmpty /\ UnloadedUnmonitored
  BY DEF FWInit, WindowsSound, Sound, Unmonitored, DownIsEmpty, UnloadedUnmonitored, Off, Asleep
<1>4. UnvettedMarked /\ UnvettedNotSafe /\ ImportMarked
  BY DEF FWInit, UnvettedMarked, UnvettedNotSafe, ImportMarked
<1> QED BY <1>1, <1>2, <1>3, <1>4 DEF FWInv

(* What each step does to the windows: it leaves them, or starts them over *)
(* at boot and after a crash, or one of them at an import or a delete, or  *)
(* takes an answer or a tick of the loop.                                  *)
LEMMA WindowSteps ==
    ASSUME Typed, [FWNext]_fwVars
    PROVE  \/ UNCHANGED states
           \/ states' = [pk \in Pubkeys |-> Unmonitored]
           \/ Boot
           \/ \E k \in Pubkeys : states' = [states EXCEPT ![k] = RegisterForImport(k)]
           \/ \E k \in Pubkeys : states' = [states EXCEPT ![k] = Unmonitored]
           \/ \E answered : Answer(answered)
           \/ Tick
<1>1. CASE Admit
  <2>1. job \in Jobs /\ job.pk \in Pubkeys
    BY <1>1 DEF Typed, Admit, Jobs
  <2> QED BY <1>1, <2>1 DEF Admit
<1>2. CASE FinishDelete
  <2>1. job \in Jobs /\ job.pk \in Pubkeys
    BY <1>2 DEF Typed, FinishDelete, Jobs
  <2> QED BY <1>2, <2>1 DEF FinishDelete
<1>3. CASE Crash
  BY <1>3 DEF Crash
<1>4. UNCHANGED states \/ Admit \/ FinishDelete \/ Crash \/ Boot \/ Tick
      \/ \E answered : Answer(answered)
  BY DEF FWNext, KeyManager, Cycle, AdvanceSlot, OtherSigns, ResolveIndex, Attest,
         PlantHistory, StageImport, PublishKeystore, UnlinkKeystore, Wake, Ask, QueryFails,
         Cleanup, fwVars
<1> QED BY <1>1, <1>2, <1>3, <1>4

(* Every way the machine computes a key's next state yields a key state.   *)
LEMMA KeyStatesClosed ==
    ASSUME Typed, NEW pk \in Pubkeys
    PROVE  /\ Register(pk) \in KeyStates
           /\ RegisterForImport(pk) \in KeyStates
           /\ \A e \in Epochs : \A answered : Observed(pk, e, answered) \in KeyStates
           /\ Ticked(states[pk]) \in KeyStates
<1>1. Now \in Epochs /\ Pending(Now) \in PendingStates /\ states[pk] \in KeyStates
  BY NowInEpochs, ClockFacts DEF Typed
<1>2. Register(pk) \in KeyStates /\ RegisterForImport(pk) \in KeyStates
  BY <1>1 DEF Register, RegisterForImport, KeyStates
<1>3. ASSUME NEW e \in Epochs, NEW answered PROVE Observed(pk, e, answered) \in KeyStates
  <2>1. CASE Observed(pk, e, answered) = states[pk] \/ Observed(pk, e, answered) = Detected
    BY <1>1, <2>1 DEF KeyStates
  <2>2. CASE InWindow(states[pk], e) /\ Observed(pk, e, answered) = [states[pk] EXCEPT !.observed = @ \cup {e}]
    <3>1. states[pk] \in PendingStates
      BY <1>1, <2>2 DEF InWindow, KeyStates, Unmonitored, Safe, Detected
    <3>2. e \in Nat
      BY ClockFacts DEF Epochs
    <3>3. [states[pk] EXCEPT !.observed = @ \cup {e}] \in PendingStates
      BY <3>1, <3>2 DEF PendingStates
    <3> QED BY <2>2, <3>3 DEF KeyStates
  <2> QED BY <2>1, <2>2 DEF Observed
<1>4. Ticked(states[pk]) \in KeyStates
  BY <1>1 DEF Ticked, KeyStates
<1> QED BY <1>2, <1>3, <1>4

(* Steps leave the machine's states well formed.                           *)
LEMMA StatesTyped == ASSUME FWInv, [FWNext]_fwVars PROVE states' \in [Pubkeys -> KeyStates]
<1>0. Typed /\ states \in [Pubkeys -> KeyStates] /\ Unmonitored \in KeyStates
  BY DEF FWInv, Typed, KeyStates
<1>1. CASE Boot
  <2>1. \A pk \in Pubkeys : BootStates[pk] \in KeyStates
    BY <1>0, KeyStatesClosed, NowInEpochs, ClockFacts DEF BootStates, KeyStates, Typed
  <2> QED BY <1>1, <2>1 DEF Boot, BootStates
<1>2. CASE \E k \in Pubkeys : states' = [states EXCEPT ![k] = RegisterForImport(k)]
  BY <1>0, <1>2, KeyStatesClosed
<1>3. CASE \E k \in Pubkeys : states' = [states EXCEPT ![k] = Unmonitored]
  BY <1>0, <1>3
<1>4. CASE \E answered : Answer(answered)
  <2>1. loop.next \in Epochs
    BY <1>0 DEF Typed, Loops
  <2> QED BY <1>0, <1>4, <2>1, KeyStatesClosed DEF Answer
<1>5. CASE Tick
  BY <1>0, <1>5, KeyStatesClosed DEF Tick
<1>6. CASE UNCHANGED states \/ states' = [pk \in Pubkeys |-> Unmonitored]
  BY <1>0, <1>6
<1> QED BY <1>0, <1>1, <1>2, <1>3, <1>4, <1>5, <1>6, WindowSteps

(* The loop's steps leave its cursor, its memory of complete epochs and    *)
(* its request well formed, and its cursor behind the clock.               *)
LEMMA LoopTyped == ASSUME FWInv, [FWNext]_fwVars PROVE loop' \in Loops /\ LoopBehind'
<1>0. /\ loop \in Loops /\ Typed /\ LoopBehind
      /\ Now \in Epochs /\ Now \in Nat /\ Now <= Now' /\ Now' \in Epochs
      /\ LastEpoch \in Nat /\ 0 \in Epochs
  BY NowInEpochs, PastIsFixed, ClockFacts DEF FWInv, Typed
<1>01. /\ loop.at \in {"off", "asleep", "observing", "asking", "cleanup"}
       /\ loop.epoch \in Epochs /\ loop.epoch \in Nat /\ loop.slot \in -1 .. LastSlot
       /\ loop.next \in Epochs /\ loop.next \in Nat /\ loop.pending \in BOOLEAN
       /\ loop.done \in SUBSET Epochs /\ loop.asked \in SUBSET Pubkeys
  BY <1>0 DEF Loops, Epochs
<1>02. Now' \in Nat
  BY <1>0 DEF Epochs
<1>1. CASE Wake
  <2>1. PICK n : n = IF Now > Lookback THEN Now - Lookback ELSE 0
    OBVIOUS
  <2>2. n \in Epochs
    BY <1>0, <2>1, ClockFacts DEF Epochs
  <2>3. slot \in -1 .. LastSlot
    BY <1>0, ClockFacts DEF Typed
  <2>4. loop' = [loop EXCEPT !.at = "observing", !.epoch = Now, !.slot = slot, !.next = n]
    BY <1>1, <2>1 DEF Wake
  <2>5. loop' \in Loops
    BY <1>0, <2>2, <2>3, <2>4, Zenon DEF Loops
  <2>6. loop'.at = "observing" /\ loop'.epoch = Now
    BY <1>0, <2>4 DEF Loops
  <2> QED BY <1>0, <2>5, <2>6 DEF LoopBehind
<1>2. CASE Ask
  <2>1. loop.next < loop.epoch /\ loop.next + 1 \in Epochs
    BY <1>0, <1>01, <1>2 DEF Ask, Epochs
  <2>2. CASE loop' = [loop EXCEPT !.next = @ + 1]
    <3>1. PICK n : n = loop.next + 1
      OBVIOUS
    <3>2. loop' = [loop EXCEPT !.next = n]
      BY <1>0, <2>2, <3>1 DEF Loops
    <3>3. loop' \in Loops
      BY <1>0, <2>1, <3>1, <3>2, Zenon DEF Loops
    <3>4. loop'.at = "observing" /\ loop'.epoch = loop.epoch
      BY <1>0, <1>2, <3>2 DEF Loops, Ask
    <3> QED BY <1>0, <1>01, <1>02, <3>3, <3>4 DEF LoopBehind
  <2>3. CASE loop' = [loop EXCEPT !.at = "asking", !.asked = indexed]
    <3>1. loop' \in Loops
      BY <1>0, <2>3, Zenon DEF Loops, Typed
    <3>2. loop'.at = "asking" /\ loop'.epoch = loop.epoch /\ loop'.next = loop.next
      BY <1>0, <2>3 DEF Loops
    <3> QED BY <1>0, <1>01, <1>02, <2>1, <3>1, <3>2 DEF LoopBehind
  <2> QED BY <1>2, <2>2, <2>3 DEF Ask
<1>3. CASE \E answered \in SUBSET loop.asked : Answer(answered) \/ QueryFails
  <2>1. loop.next < loop.epoch /\ loop.next + 1 \in Epochs
    BY <1>0, <1>01, <1>3 DEF LoopBehind, Answer, QueryFails, Epochs
  <2>2. PICK n : n = loop.next + 1
    OBVIOUS
  <2>3. {} \in SUBSET Pubkeys
    OBVIOUS
  <2>4. CASE QueryFails
    <3>1. loop' = [loop EXCEPT !.at = "observing", !.next = n, !.asked = {}]
      BY <2>2, <2>4 DEF QueryFails
    <3>2. loop' \in Loops
      BY <1>0, <2>1, <2>2, <2>3, <3>1, Zenon DEF Loops
    <3>3. loop'.at = "observing" /\ loop'.epoch = loop.epoch
      BY <1>0, <3>1 DEF Loops
    <3> QED BY <1>0, <1>01, <1>02, <3>2, <3>3 DEF LoopBehind
  <2>5. CASE \E answered \in SUBSET loop.asked : Answer(answered)
    <3>1. PICK answered : Answer(answered)
      BY <2>5
    <3>2. PICK d : d = IF Complete(loop.next, answered) THEN loop.done \cup {loop.next} ELSE loop.done
      OBVIOUS
    <3>3. d \in SUBSET Epochs
      BY <1>01, <3>2
    <3>4. loop' = [loop EXCEPT !.at = "observing", !.next = n, !.asked = {}, !.done = d]
      BY <2>2, <3>1, <3>2, Zenon DEF Answer
    <3>5. loop' \in Loops
      BY <1>0, <2>1, <2>2, <2>3, <3>3, <3>4, Zenon DEF Loops
    <3>6. loop'.at = "observing" /\ loop'.epoch = loop.epoch
      BY <1>0, <3>4 DEF Loops
    <3> QED BY <1>0, <1>01, <1>02, <3>5, <3>6 DEF LoopBehind
  <2> QED BY <1>3, <2>4, <2>5
<1>4. CASE Tick
  <2>1. PICK b \in BOOLEAN : loop' = [loop EXCEPT !.at = "cleanup", !.pending = b]
    BY <1>4, Zenon DEF Tick
  <2>2. loop' \in Loops
    BY <1>0, <2>1, Zenon DEF Loops
  <2>3. loop'.at = "cleanup" /\ loop'.epoch = loop.epoch
    BY <1>0, <2>1 DEF Loops
  <2> QED BY <1>0, <1>01, <1>02, <2>2, <2>3 DEF LoopBehind
<1>5. CASE Cleanup
  <2>1. PICK d \in SUBSET Epochs :
           loop' = [loop EXCEPT !.at = "asleep", !.epoch = 0, !.next = 0, !.done = d]
    BY <1>0, <1>01, <1>5 DEF Cleanup, Loops
  <2>2. loop' \in Loops
    BY <1>0, <2>1, Zenon DEF Loops
  <2>3. loop'.at = "asleep" /\ loop'.epoch = 0
    BY <1>0, <2>1 DEF Loops
  <2> QED BY <1>0, <1>02, <2>2, <2>3 DEF LoopBehind
<1>6. CASE loop' \in {Off, Asleep}
  <2>1. loop'.epoch = 0 /\ loop'.at # "asking"
    BY <1>6 DEF Off, Asleep
  <2> QED BY <1>02, <1>6, <2>1, ClockFacts DEF LoopBehind
<1>7. CASE UNCHANGED loop
  BY <1>0, <1>01, <1>02, <1>7 DEF LoopBehind
<1>8. Wake \/ Ask \/ (\E answered \in SUBSET loop.asked : Answer(answered) \/ QueryFails)
      \/ Tick \/ Cleanup \/ loop' \in {Off, Asleep} \/ UNCHANGED loop
  BY DEF FWNext, KeyManager, Cycle, AdvanceSlot, OtherSigns, ResolveIndex, Attest,
         PlantHistory, StageImport, PublishKeystore, Admit, UnlinkKeystore, FinishDelete,
         Boot, Crash, fwVars
<1> QED BY <1>1, <1>2, <1>3, <1>4, <1>5, <1>6, <1>7, <1>8

(* Files, registry, job and history stay well formed.                      *)
LEMMA RestTyped ==
    ASSUME FWInv, [FWNext]_fwVars
    PROVE  /\ up' \in BOOLEAN
           /\ loaded' \subseteq Pubkeys /\ indexed' \subseteq Pubkeys
           /\ keystores' \subseteq Pubkeys /\ sidecars' \subseteq Pubkeys
           /\ unvetted' \subseteq Pubkeys
           /\ history' \in [Pubkeys -> Epochs \cup {None}]
           /\ job' \in {None} \cup Jobs
<1>0. Typed
  BY DEF FWInv
<1>1. up' \in BOOLEAN
  BY <1>0 DEF Typed, FWNext, KeyManager, Cycle, AdvanceSlot, OtherSigns, ResolveIndex, Attest,
         PlantHistory, StageImport, PublishKeystore, Admit, UnlinkKeystore, FinishDelete, Wake,
         Ask, Answer, QueryFails, Tick, Cleanup, Boot, Crash, fwVars
<1>2. job # None => job.pk \in Pubkeys /\ job \in Jobs
  BY <1>0 DEF Typed, Jobs
<1>3. loaded' \subseteq Pubkeys /\ indexed' \subseteq Pubkeys
  BY <1>0, <1>2 DEF Typed, FWNext, KeyManager, Cycle, AdvanceSlot, OtherSigns, ResolveIndex,
         Attest, PlantHistory, StageImport, PublishKeystore, Admit, UnlinkKeystore, FinishDelete,
         Wake, Ask, Answer, QueryFails, Tick, Cleanup, Boot, Crash, fwVars
<1>4. keystores' \subseteq Pubkeys /\ sidecars' \subseteq Pubkeys /\ unvetted' \subseteq Pubkeys
  BY <1>0, <1>2 DEF Typed, FWNext, KeyManager, Cycle, AdvanceSlot, OtherSigns, ResolveIndex,
         Attest, PlantHistory, StageImport, PublishKeystore, Admit, UnlinkKeystore, FinishDelete,
         Wake, Ask, Answer, QueryFails, Tick, Cleanup, Boot, Crash, fwVars, diskVars
<1>5. history' \in [Pubkeys -> Epochs \cup {None}]
  <2>1. CASE \E pk \in Pubkeys : Attest(pk)
    BY <1>0, <2>1, NowInEpochs DEF Typed, Attest
  <2>2. CASE \E pk \in Pubkeys, e \in Planted : PlantHistory(pk, e)
    BY <1>0, <2>2, WindowAssumption DEF Typed, PlantHistory, Epochs
  <2>3. UNCHANGED history \/ (\E pk \in Pubkeys : Attest(pk))
        \/ \E pk \in Pubkeys, e \in Planted : PlantHistory(pk, e)
    BY DEF FWNext, KeyManager, Cycle, AdvanceSlot, OtherSigns, ResolveIndex, StageImport,
           PublishKeystore, Admit, UnlinkKeystore, FinishDelete, Wake, Ask, Answer, QueryFails,
           Tick, Cleanup, Boot, Crash, fwVars, diskVars
  <2> QED BY <1>0, <2>1, <2>2, <2>3 DEF Typed
<1>6. job' \in {None} \cup Jobs
  <2>1. CASE \E pk \in Pubkeys : StageImport(pk) \/ UnlinkKeystore(pk)
    BY <2>1 DEF StageImport, UnlinkKeystore, Jobs, Steps
  <2>2. CASE PublishKeystore
    BY <1>2, <2>2 DEF PublishKeystore, Jobs, Steps
  <2>3. UNCHANGED job \/ job' = None \/ PublishKeystore
        \/ \E pk \in Pubkeys : StageImport(pk) \/ UnlinkKeystore(pk)
    BY DEF FWNext, KeyManager, Cycle, AdvanceSlot, OtherSigns, ResolveIndex, Attest,
           PlantHistory, Admit, FinishDelete, Wake, Ask, Answer, QueryFails,
           Tick, Cleanup, Boot, Crash, fwVars
  <2> QED BY <1>0, <2>1, <2>2, <2>3 DEF Typed
<1> QED BY <1>1, <1>3, <1>4, <1>5, <1>6

(* A window stays sound while time passes and other hosts sign: both only  *)
(* touch the epoch under way and later ones.                               *)
LEMMA SoundStable ==
    ASSUME FWInv, [FWNext]_fwVars, NEW pk \in Pubkeys, NEW s \in KeyStates, Sound(pk, s)
    PROVE  Sound(pk, s)'
<1>1. /\ Now \in Nat /\ Now' \in Nat /\ Now <= Now'
      /\ \A e : e < Now => (Live(pk, e)' <=> Live(pk, e))
  BY PastIsFixed, NowInEpochs, ClockFacts DEF FWInv, Typed, Epochs
<1>2. SUFFICES ASSUME s.status = "Pending"
               PROVE  /\ s.end = s.start + MonitoringEpochs
                      /\ \A e \in s.observed : e \in Window(s) /\ e < Now' /\ ~Live(pk, e)'
  BY DEF Sound, Window
<1>3. s \in PendingStates
  BY <1>2 DEF KeyStates, Unmonitored, Safe, Detected
<1>4. s.end = s.start + MonitoringEpochs
  BY <1>2 DEF Sound
<1>5. ASSUME NEW e \in s.observed PROVE e \in Window(s) /\ e < Now' /\ ~Live(pk, e)'
  <2>1. e \in Nat
    BY <1>3 DEF PendingStates
  <2>2. e \in Window(s) /\ e < Now /\ ~Live(pk, e)
    BY <1>2 DEF Sound
  <2>3. e < Now'
    BY <1>1, <2>1, <2>2
  <2> QED BY <1>1, <2>2, <2>3
<1> QED BY <1>4, <1>5

(* A window just begun has seen nothing.                                   *)
LEMMA FreshSound ==
    ASSUME NEW pk, NEW e \in Epochs
    PROVE  Sound(pk, Pending(e)) /\ Sound(pk, Safe) /\ Sound(pk, Unmonitored) /\ Sound(pk, Detected)
  BY DEF Sound, Pending, Safe, Unmonitored, Detected

(* An answer of the loop about a past epoch keeps a window sound.          *)
LEMMA ObservedSound ==
    ASSUME FWInv, NEW pk \in Pubkeys, NEW e \in Epochs, e < Now, NEW answered
    PROVE  Sound(pk, Observed(pk, e, answered))
<1>0. Sound(pk, states[pk]) /\ states[pk] \in KeyStates
  BY DEF FWInv, WindowsSound, Typed
<1>1. CASE Observed(pk, e, answered) = states[pk]
  BY <1>0, <1>1
<1>2. CASE Observed(pk, e, answered) = Detected
  BY <1>2 DEF Sound, Detected
<1>3. CASE /\ InWindow(states[pk], e) /\ ~Live(pk, e)
           /\ Observed(pk, e, answered) = [states[pk] EXCEPT !.observed = @ \cup {e}]
  <2>1. PICK n : n = [states[pk] EXCEPT !.observed = @ \cup {e}]
    OBVIOUS
  <2>2. states[pk] \in PendingStates
    BY <1>0, <1>3 DEF InWindow, KeyStates, Unmonitored, Safe, Detected
  <2>3. /\ n.status = "Pending" /\ n.start = states[pk].start /\ n.end = states[pk].end
        /\ n.observed = states[pk].observed \cup {e}
    BY <2>1, <2>2 DEF PendingStates
  <2>4. states[pk].status = "Pending" /\ e \in Window(states[pk])
    BY <1>3 DEF InWindow
  <2>5. Window(n) = Window(states[pk])
    BY <2>3 DEF Window
  <2>6. n.end = n.start + MonitoringEpochs
    BY <1>0, <2>3, <2>4 DEF Sound
  <2>7. ASSUME NEW f \in n.observed PROVE f \in Window(n) /\ f < Now /\ ~Live(pk, f)
    BY <1>0, <1>3, <2>3, <2>4, <2>5 DEF Sound
  <2>8. Sound(pk, n)
    BY <2>6, <2>7 DEF Sound
  <2> QED BY <1>3, <2>1, <2>8
<1> QED BY <1>1, <1>2, <1>3 DEF Observed

(* Every step leaves every window sound.                                   *)
LEMMA WindowsStep == ASSUME FWInv, [FWNext]_fwVars PROVE WindowsSound'
<1>0. /\ Typed /\ states \in [Pubkeys -> KeyStates] /\ states' \in [Pubkeys -> KeyStates]
      /\ \A pk \in Pubkeys : Sound(pk, states[pk])
  BY StatesTyped DEF FWInv, Typed, WindowsSound
<1>1. SUFFICES ASSUME NEW pk \in Pubkeys PROVE Sound(pk, states'[pk])
  <2>1. SUFFICES ASSUME NEW pk \in Pubkeys PROVE Sound(pk, states[pk])'
    BY DEF WindowsSound
  <2>2. PICK s \in KeyStates : s = states'[pk]
    BY <1>0
  <2>3. Sound(pk, s)'
    BY <1>1, <2>2, SoundStable
  <2> QED BY <2>2, <2>3 DEF Sound, Window
<1>2. Now \in Epochs
  BY <1>0, NowInEpochs DEF Typed
<1>3. CASE UNCHANGED states \/ states' = [k \in Pubkeys |-> Unmonitored]
  BY <1>0, <1>2, <1>3, FreshSound
<1>4. CASE Boot
  BY <1>2, <1>4, FreshSound DEF Boot, BootStates, Register
<1>5. CASE \E k \in Pubkeys : states' = [states EXCEPT ![k] = RegisterForImport(k)]
  BY <1>0, <1>2, <1>5, FreshSound DEF RegisterForImport
<1>6. CASE \E k \in Pubkeys : states' = [states EXCEPT ![k] = Unmonitored]
  BY <1>0, <1>2, <1>6, FreshSound
<1>7. CASE \E answered : Answer(answered)
  <2>1. loop.next \in Epochs /\ loop.next < Now
    BY <1>2, <1>7, ClockFacts DEF FWInv, LoopBehind, Answer, Typed, Loops, Epochs
  <2> QED BY <1>7, <2>1, ObservedSound DEF Answer
<1>8. CASE Tick
  BY <1>0, <1>2, <1>8, FreshSound DEF Tick, Ticked
<1> QED BY <1>0, <1>3, <1>4, <1>5, <1>6, <1>7, <1>8, WindowSteps

(* A stopped process has no state; it takes no step but Boot.              *)
LEMMA DownStep == ASSUME FWInv, [FWNext]_fwVars PROVE DownIsEmpty'
<1>0. /\ Typed /\ DownIsEmpty /\ UnloadedUnmonitored
  BY DEF FWInv
<1>1. CASE Boot
  BY <1>1 DEF Boot, DownIsEmpty
<1>2. CASE Crash
  BY <1>2 DEF Crash, DownIsEmpty, Off, Asleep
<1>3. CASE UNCHANGED <<up, job, loop, states>>
  BY <1>0, <1>3 DEF DownIsEmpty
<1>4. CASE up /\ UNCHANGED up
  BY <1>4 DEF DownIsEmpty
<1>5. CASE ~up /\ ~Boot
  <2>1. job = None /\ loop.at = "off"
    BY <1>0, <1>5 DEF DownIsEmpty
  <2> QED BY <1>0, <1>3, <1>5, <2>1
       DEF FWNext, KeyManager, Cycle, AdvanceSlot, OtherSigns, ResolveIndex, Attest,
           PlantHistory, StageImport, PublishKeystore, Admit, UnlinkKeystore, FinishDelete, Wake,
           Ask, Answer, QueryFails, Tick, Cleanup, Crash, fwVars
<1>6. CASE up /\ ~Crash
  BY <1>4, <1>6
       DEF FWNext, KeyManager, Cycle, AdvanceSlot, OtherSigns, ResolveIndex, Attest,
           PlantHistory, StageImport, PublishKeystore, Admit, UnlinkKeystore, FinishDelete, Wake,
           Ask, Answer, QueryFails, Tick, Cleanup, Boot, fwVars
<1> QED BY <1>1, <1>2, <1>5, <1>6

(* Only a loaded key has a state: a delete takes both away together.       *)
LEMMA UnloadedStep == ASSUME FWInv, [FWNext]_fwVars PROVE UnloadedUnmonitored'
<1>0. /\ Typed /\ UnloadedUnmonitored /\ states \in [Pubkeys -> KeyStates]
  BY DEF FWInv, Typed
<1>1. SUFFICES ASSUME NEW pk \in Pubkeys, pk \notin loaded' PROVE states'[pk] = Unmonitored
  BY DEF UnloadedUnmonitored
<1>2. CASE Boot
  BY <1>1, <1>2 DEF Boot, BootStates
<1>3. CASE Crash
  BY <1>3 DEF Crash
<1>4. CASE Admit
  BY <1>0, <1>1, <1>4 DEF Admit, UnloadedUnmonitored
<1>5. CASE FinishDelete
  BY <1>0, <1>1, <1>5 DEF FinishDelete, UnloadedUnmonitored
<1>6. CASE UNCHANGED loaded /\ (UNCHANGED states \/ Tick \/ \E answered : Answer(answered))
  <2>1. states[pk] = Unmonitored
    BY <1>0, <1>1, <1>6 DEF UnloadedUnmonitored
  <2>2. states[pk].status # "Pending"
    BY <2>1 DEF Unmonitored
  <2>3. CASE Tick
    BY <2>1, <2>2, <2>3 DEF Tick, Ticked
  <2>4. CASE \E answered : Answer(answered)
    BY <2>1, <2>2, <2>4 DEF Answer, Observed, InWindow
  <2> QED BY <1>6, <2>1, <2>3, <2>4
<1>7. \/ Boot \/ Crash \/ Admit \/ FinishDelete
      \/ UNCHANGED loaded /\ (UNCHANGED states \/ Tick \/ \E answered : Answer(answered))
  BY DEF FWNext, KeyManager, Cycle, AdvanceSlot, OtherSigns, ResolveIndex, Attest,
         PlantHistory, StageImport, PublishKeystore, UnlinkKeystore, Wake,
         Ask, Answer, QueryFails, Tick, Cleanup, fwVars
<1> QED BY <1>2, <1>3, <1>4, <1>5, <1>6, <1>7

(* The marker of an import that is not yet vetted outlives its keystore:   *)
(* it is written first, and only removed after the keystore or when the    *)
(* key is Safe.                                                            *)
LEMMA MarkedStep == ASSUME FWInv, [FWNext]_fwVars PROVE UnvettedMarked' /\ ImportMarked'
<1>0. UnvettedMarked /\ ImportMarked /\ UnvettedNotSafe /\ (job \in {None} \cup Jobs)
  BY DEF FWInv, Typed
<1>1. CASE \E pk \in Pubkeys : StageImport(pk)
  BY <1>0, <1>1 DEF StageImport, UnvettedMarked, ImportMarked
<1>2. CASE PublishKeystore
  <2>1. job \in Jobs /\ job'.step = "published"
    BY <1>0, <1>2 DEF PublishKeystore, Jobs
  <2> QED BY <1>0, <1>2, <2>1 DEF PublishKeystore, UnvettedMarked, ImportMarked
<1>3. CASE \E pk \in Pubkeys : UnlinkKeystore(pk)
  <2>1. PICK pk : UnlinkKeystore(pk)
    BY <1>3
  <2>2. job'.step = "unlinked"
    BY <2>1 DEF UnlinkKeystore
  <2> QED BY <1>0, <2>1, <2>2 DEF UnlinkKeystore, UnvettedMarked, ImportMarked
<1>4. CASE Cleanup
  <2>1. PICK gone : /\ gone \subseteq {pk \in sidecars \cap loaded : states[pk] = Safe}
                    /\ sidecars' = sidecars \ gone /\ UNCHANGED <<keystores, unvetted>>
                    /\ job = None /\ job' = None
    BY <1>4 DEF Cleanup
  <2>2. \A pk \in gone : pk \notin unvetted
    BY <1>0, <2>1 DEF UnvettedNotSafe
  <2> QED BY <1>0, <2>1, <2>2 DEF UnvettedMarked, ImportMarked
<1>5. CASE UNCHANGED <<keystores, sidecars>> /\ unvetted' \subseteq unvetted /\ (UNCHANGED job \/ job' = None)
  BY <1>0, <1>5 DEF UnvettedMarked, ImportMarked
<1>6. \/ \E pk \in Pubkeys : StageImport(pk) \/ UnlinkKeystore(pk)
      \/ PublishKeystore \/ Cleanup
      \/ UNCHANGED <<keystores, sidecars>> /\ unvetted' \subseteq unvetted /\ (UNCHANGED job \/ job' = None)
  BY DEF FWNext, KeyManager, Cycle, AdvanceSlot, OtherSigns, ResolveIndex, Attest,
         PlantHistory, Admit, FinishDelete, Wake,
         Ask, Answer, QueryFails, Tick, Boot, Crash, fwVars, diskVars
<1> QED BY <1>1, <1>2, <1>3, <1>4, <1>5, <1>6

(* An imported key becomes Safe by its own window only: boot finds its     *)
(* marker, and admission registers it afresh.                              *)
LEMMA NotSafeStep == ASSUME FWInv, [FWNext]_fwVars PROVE UnvettedNotSafe'
<1>0. /\ Typed /\ UnvettedMarked /\ UnvettedNotSafe /\ UnloadedUnmonitored
      /\ states \in [Pubkeys -> KeyStates] /\ unvetted \subseteq Pubkeys
  BY DEF FWInv, Typed
<1>1. SUFFICES ASSUME NEW pk \in unvetted' PROVE states'[pk] # Safe
  BY DEF UnvettedNotSafe
<1>2. CASE Boot
  <2>1. pk \in unvetted /\ pk \in Pubkeys
    BY <1>0, <1>1, <1>2 DEF Boot
  <2>2. states'[pk] = Unmonitored \/ states'[pk] = Pending(Now)
    BY <1>0, <1>2, <2>1 DEF Boot, BootStates, UnvettedMarked
  <2> QED BY <2>2 DEF Unmonitored, Pending, Safe
<1>3. CASE \E k \in Pubkeys : StageImport(k)
  <2>1. PICK k \in Pubkeys : StageImport(k)
    BY <1>3
  <2>2. states[k] # Safe
    BY <1>0, <2>1 DEF StageImport, UnloadedUnmonitored, Unmonitored, Safe
  <2> QED BY <1>0, <1>1, <2>1, <2>2 DEF StageImport, UnvettedNotSafe
<1>4. CASE Tick
  BY <1>0, <1>1, <1>4 DEF Tick, UnvettedNotSafe
<1>5. CASE UNCHANGED unvetted /\ ~Boot /\ ~Tick
  <2>1. pk \in Pubkeys /\ states[pk] # Safe
    BY <1>0, <1>1, <1>5 DEF UnvettedNotSafe
  <2>2. CASE UNCHANGED states
    BY <2>1, <2>2
  <2>3. CASE states' = [k \in Pubkeys |-> Unmonitored]
    BY <2>1, <2>3 DEF Unmonitored, Safe
  <2>4. CASE \E k \in Pubkeys : states' = [states EXCEPT ![k] = RegisterForImport(k)]
    BY <1>0, <2>1, <2>4 DEF RegisterForImport, Pending, Safe
  <2>5. CASE \E k \in Pubkeys : states' = [states EXCEPT ![k] = Unmonitored]
    BY <1>0, <2>1, <2>5 DEF Unmonitored, Safe
  <2>6. CASE \E answered : Answer(answered)
    <3>1. PICK answered : states'[pk] = Observed(pk, loop.next, answered)
      BY <2>1, <2>6 DEF Answer
    <3>2. CASE states'[pk] = states[pk] \/ states'[pk] = Detected
      BY <2>1, <3>2 DEF Detected, Safe
    <3>3. CASE /\ InWindow(states[pk], loop.next)
               /\ states'[pk] = [states[pk] EXCEPT !.observed = @ \cup {loop.next}]
      <4>1. states[pk] \in PendingStates
        BY <1>0, <2>1, <3>3 DEF InWindow, KeyStates, Unmonitored, Safe, Detected
      <4>2. states'[pk].status = "Pending"
        BY <3>3, <4>1 DEF PendingStates
      <4> QED BY <4>2 DEF Safe
    <3> QED BY <3>1, <3>2, <3>3 DEF Observed
  <2> QED BY <1>0, <1>5, <2>2, <2>3, <2>4, <2>5, <2>6, WindowSteps
<1>6. Boot \/ (\E k \in Pubkeys : StageImport(k)) \/ Tick \/ (UNCHANGED unvetted /\ ~Boot /\ ~Tick)
  BY DEF FWNext, KeyManager, Cycle, AdvanceSlot, OtherSigns, ResolveIndex, Attest,
         PlantHistory, PublishKeystore, UnlinkKeystore, Admit, FinishDelete, Wake,
         Ask, Answer, QueryFails, Cleanup, Crash, fwVars
<1> QED BY <1>2, <1>3, <1>4, <1>5, <1>6

(* Every step keeps the invariant.                                         *)
LEMMA FWInvStep == ASSUME FWInv, [FWNext]_fwVars PROVE FWInv'
<1>1. Typed'
  BY PastIsFixed, StatesTyped, LoopTyped, RestTyped DEF FWInv, Typed
<1> QED BY <1>1, LoopTyped, WindowsStep, DownStep, UnloadedStep, MarkedStep, NotSafeStep DEF FWInv

-----------------------------------------------------------------------------
(* Theorems.                                                               *)

(* The inductive invariant of the doppelganger machine, its loop and the   *)
(* key manager's imports and deletes.                                      *)
THEOREM FWInvariant == FWSpec => []FWInv
<1>1. FWInv /\ [FWNext]_fwVars => FWInv'
  BY FWInvStep
<1> QED BY <1>1, FWInvInit, PTL DEF FWSpec

(* ForwardWindowMachine and LivenessObservationLoop keep their state well  *)
(* formed: a window observes complete epochs of its own range only.        *)
THEOREM FWTypeCorrect == FWSpec => []FWTypeOK
<1>1. FWInv => FWTypeOK
  <2> SUFFICES ASSUME FWInv PROVE FWTypeOK
    OBVIOUS
  <2>0. Typed /\ WindowsSound
    BY DEF FWInv
  <2>1. ASSUME NEW pk \in Pubkeys
        PROVE  \/ states[pk] \in {Unmonitored, Safe, Detected}
               \/ /\ Status(pk) = "Pending"
                  /\ states[pk].start \in Epochs
                  /\ states[pk].end = states[pk].start + MonitoringEpochs
                  /\ states[pk].observed \subseteq Window(states[pk])
                  /\ \A e \in states[pk].observed : e < Now
    <3>1. CASE states[pk] \in PendingStates
      <4>1. Status(pk) = "Pending" /\ states[pk].start \in Epochs
        BY <3>1 DEF PendingStates, Status
      <4> QED BY <2>0, <4>1 DEF WindowsSound, Sound, Status
    <3> QED BY <2>0, <3>1 DEF Typed, KeyStates
  <2>2. job \in {None} \cup [op : {"import", "delete"}, pk : Pubkeys,
                             step : {"staged", "published", "unlinked"}]
    BY <2>0 DEF Typed, Jobs, Steps
  <2>3. loop \in [at : {"off", "asleep", "observing", "asking", "cleanup"}, epoch : Epochs,
                  slot : -1 .. LastSlot, next : Epochs, pending : BOOLEAN,
                  done : SUBSET Epochs, asked : SUBSET Pubkeys]
    BY <2>0 DEF Typed, Loops
  <2>4. up \in BOOLEAN
    BY <2>0 DEF Typed
  <2> QED BY <2>0, <2>1, <2>2, <2>3, <2>4, Zenon DEF Typed, FWTypeOK
<1> QED BY <1>1, FWInvariant, PTL

(* An imported key does not sign before a window of its own was completed: *)
(* no order of import, crash, boot, delete and marker cleanup clears it by *)
(* the epoch 0 bypass or the restart skip.                                 *)
THEOREM ImportVetted == FWSpec => []ImportIsVetted
<1>1. FWInv => ImportIsVetted
  BY DEF FWInv, UnvettedNotSafe, ImportIsVetted
<1> QED BY <1>1, FWInvariant, PTL

(* observe_liveness and tick clear a key only if no host attested with it  *)
(* in any epoch of its window.                                             *)
THEOREM QuietWindows == FWSpec => SafeMeansQuiet
<1>1. ASSUME FWInv, [FWNext]_fwVars, NEW pk \in Pubkeys,
             Status(pk) = "Pending", states'[pk] = Safe, NEW e \in Window(states[pk])
      PROVE  ~Live(pk, e)
  <2>0. Typed /\ states \in [Pubkeys -> KeyStates] /\ states[pk].status = "Pending"
    BY <1>1 DEF FWInv, Typed, Status
  <2>1. states[pk] # Safe
    BY <2>0 DEF Safe
  <2>2. ~Boot
    BY <1>1, <2>0 DEF FWInv, DownIsEmpty, Boot, Unmonitored
  <2>3. CASE Tick
    <3>1. Window(states[pk]) \subseteq states[pk].observed
      BY <1>1, <2>1, <2>3 DEF Tick, Ticked
    <3> QED BY <1>1, <2>0, <3>1 DEF FWInv, WindowsSound, Sound
  <2>4. ~(UNCHANGED states) /\ states' # [k \in Pubkeys |-> Unmonitored]
    BY <1>1, <2>1 DEF Unmonitored, Safe
  <2>5. ASSUME NEW k \in Pubkeys, states' = [states EXCEPT ![k] = RegisterForImport(k)] PROVE FALSE
    BY <1>1, <2>0, <2>1, <2>5 DEF RegisterForImport, Pending, Safe
  <2>6. ASSUME NEW k \in Pubkeys, states' = [states EXCEPT ![k] = Unmonitored] PROVE FALSE
    BY <1>1, <2>0, <2>1, <2>6 DEF Unmonitored, Safe
  <2>7. ASSUME NEW answered, Answer(answered) PROVE FALSE
    <3>1. states'[pk] = Observed(pk, loop.next, answered)
      BY <2>7 DEF Answer
    <3>2. states[pk] \in PendingStates
      BY <2>0 DEF KeyStates, Unmonitored, Safe, Detected
    <3>3. [states[pk] EXCEPT !.observed = @ \cup {loop.next}].status = "Pending"
      BY <3>2 DEF PendingStates
    <3> QED BY <1>1, <2>1, <3>1, <3>3 DEF Observed, Detected, Safe
  <2> QED BY <1>1, <2>0, <2>2, <2>3, <2>4, <2>5, <2>6, <2>7, WindowSteps
<1>2. FWInv /\ [FWNext]_fwVars =>
        [\A pk \in Pubkeys :
            Status(pk) = "Pending" /\ states'[pk] = Safe =>
                \A e \in Window(states[pk]) : ~Live(pk, e)]_fwVars
  BY <1>1
<1> QED BY <1>2, FWInvariant, PTL DEF FWSpec, SafeMeansQuiet
=============================================================================
