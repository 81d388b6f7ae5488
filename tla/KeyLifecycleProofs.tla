------------------------- MODULE KeyLifecycleProofs -------------------------
(***************************************************************************)
(* Proofs about the life of a key, for any number of concurrent DELETEs    *)
(* and of I/O errors: a deleted key stays deleted, and a slashed one off.  *)
(* An unvetted keystore stays guarded, for at most one I/O error.          *)
(***************************************************************************)
EXTENDS KeyLifecycle, TLAPS

(* An import between its first check and the release of tracked_keys.      *)
ImportWorking == imp.pc \notin {"idle", "returned", "listener"}

(* A DELETE between unlinking the keystore and forgetting the key.         *)
DeleteWorking(d) == del[d].pc \in {"unlinked", "unmarked", "denied"}

(* tracked_keys has one holder.                                            *)
TrackedHeld == /\ ImportWorking => tracked = "import"
               /\ \A d \in Deletes : DeleteWorking(d) => tracked = d

(* A process that is down holds nothing in memory.                         *)
DownIsBlank ==
    ~up => /\ row = "Absent" /\ mem = Blank /\ tracked = None
           /\ imp = NoImport /\ del = [d \in Deletes |-> NoDelete] /\ ref = NoRefresh
           /\ monitor = "idle"

(* The denylist in memory has a line in the file.                          *)
DenylistDurable == mem.denied /\ ~excepted => disk.denied

(* A deleted key is denylisted, on disk and in the process, until an       *)
(* import takes it back; only a refresh that has not re-checked the list   *)
(* can still have it loaded.                                               *)
DeletedIsDenied ==
    gone /\ ~excepted =>
        /\ disk.denied
        /\ up => mem.denied
        /\ mem.signer => ref.pc \in {"mapped", "rowed"}

(* The import that clears the list has made the key present before.        *)
ClearingIsPresent == imp.pc \in {"mapped", "admitted"} => ~gone

ForgettingIsDenied == \A d \in Deletes : del[d].pc = "denied" => mem.denied

(* A slashing disable is in the file, and the live row is not enabled.     *)
SlashedIsDisabled ==
    slashed => /\ file \in {"Disabled", "Gone"}
               /\ up => row = "Disabled"

(* What a DELETE takes away it has exported.                               *)
RemovesMembers ==
    \A d \in Deletes : /\ DeleteWorking(d) \/ del[d].present => del[d].member
                       /\ del[d].present => del[d].pc \in {"touch", "ending"}

KLInv ==
    /\ KLTypeOK /\ TrackedHeld /\ DownIsBlank
    /\ DenylistDurable /\ DeletedIsDenied /\ ClearingIsPresent /\ ForgettingIsDenied
    /\ SlashedIsDisabled

-----------------------------------------------------------------------------
(* The validator store.                                                    *)

(* Every operation of the store leaves a row, a document and a count of    *)
(* faults of the expected kinds.                                           *)
LEMMA StoreOpsTyped ==
    ASSUME StoreTypeOK
    PROVE  /\ \A new \in Rows, ok \in BOOLEAN : CommitLessSafe(new, ok) => StoreTypeOK'
           /\ \A new \in Rows, n \in Nat, q, ok \in BOOLEAN :
                 PersistDisabled(new, n, q, ok) => StoreTypeOK'
           /\ UNCHANGED storeVars => StoreTypeOK'
           /\ SaveConfig => StoreTypeOK'
           /\ Elapse => StoreTypeOK'
<1>0. MaxFaults \in Nat /\ row \in Rows /\ file \in Rows \cup {"Gone"} /\ faults \in 0 .. MaxFaults
  BY StoreAssumption DEF StoreTypeOK
<1>1. ASSUME NEW n \in Nat, Fault(n) \/ NoFault PROVE faults' \in 0 .. MaxFaults
  BY <1>0, <1>1 DEF Fault, NoFault
<1>2. ASSUME NEW new \in Rows, NEW ok \in BOOLEAN, CommitLessSafe(new, ok) PROVE StoreTypeOK'
  <2>1. row' \in Rows /\ file' \in Rows \cup {"Gone"}
    BY <1>0, <1>2 DEF CommitLessSafe
  <2>2. faults' \in 0 .. MaxFaults
    BY <1>1, <1>2 DEF CommitLessSafe
  <2> QED BY <2>1, <2>2 DEF StoreTypeOK
<1>3. ASSUME NEW new \in Rows, NEW n \in Nat, NEW q \in BOOLEAN, NEW ok \in BOOLEAN,
             PersistDisabled(new, n, q, ok)
      PROVE  StoreTypeOK'
  <2>1. row' \in Rows /\ file' \in Rows \cup {"Gone"}
    BY <1>0, <1>3 DEF PersistDisabled
  <2>2. faults' \in 0 .. MaxFaults
    BY <1>1, <1>3 DEF PersistDisabled
  <2> QED BY <2>1, <2>2 DEF StoreTypeOK
<1>4. UNCHANGED storeVars => StoreTypeOK'
  BY DEF StoreTypeOK, storeVars
<1>5. SaveConfig => StoreTypeOK'
  BY <1>0 DEF SaveConfig, StoreTypeOK
<1>6. Elapse => StoreTypeOK'
  <2>1. Elapse => row' \in Rows /\ file' \in Rows \cup {"Gone"}
    BY <1>0 DEF Elapse, AfterDeadline, Rows, HoldRows
  <2> QED BY <1>0, <2>1 DEF Elapse, StoreTypeOK, NoFault
<1> QED BY <1>2, <1>3, <1>4, <1>5, <1>6

(* The durable operations, by their results.                               *)
LEMMA DurableOpsTyped ==
    ASSUME StoreTypeOK, NEW result, NEW ok \in BOOLEAN,
           \/ AddValidatorDurable("Disabled", result) \/ AddValidatorDurable("Enabled", result)
           \/ RemoveValidatorDurable(result) \/ PersistSigningDisable(ok) \/ DisableSlashed(ok)
           \/ BeginDoppelgangerHold(result) \/ PersistKeystoreHold(result)
           \/ ReleaseDoppelgangerHold(result)
    PROVE  StoreTypeOK'
<1>0. /\ {"Absent", "Enabled", "Disabled", "Held"} \subseteq Rows /\ 1 \in Nat
      /\ SlashedPersistAttempts \in Nat
  BY StoreAssumption DEF Rows, HoldRows
<1>1. \A new \in {"Enabled", "Disabled", "Held"} : AddValidatorDurable(new, result) => StoreTypeOK'
  <2>1. \A new \in {"Enabled", "Disabled", "Held"} : AddValidatorDurable(new, result) =>
           UNCHANGED storeVars \/ \E b \in BOOLEAN : CommitLessSafe(new, b)
    BY Zenon DEF AddValidatorDurable
  <2> QED BY <1>0, <2>1, StoreOpsTyped
<1>2. RemoveValidatorDurable(result) => StoreTypeOK'
  <2>1. RemoveValidatorDurable(result) =>
           UNCHANGED storeVars \/ \E b \in BOOLEAN : CommitLessSafe("Absent", b)
    BY Zenon DEF RemoveValidatorDurable
  <2> QED BY <1>0, <2>1, StoreOpsTyped
<1>3. PersistSigningDisable(ok) \/ DisableSlashed(ok) => StoreTypeOK'
  <2>1. PersistSigningDisable(ok) =>
          \/ UNCHANGED storeVars
          \/ PersistDisabled("Disabled", 1, TRUE, ok) \/ PersistDisabled("Disabled", 1, FALSE, ok)
    BY DEF PersistSigningDisable, PersistDisabled
  <2>2. DisableSlashed(ok) =>
          \/ UNCHANGED storeVars
          \/ PersistDisabled("Disabled", SlashedPersistAttempts, TRUE, ok)
          \/ PersistDisabled("Disabled", SlashedPersistAttempts, FALSE, ok)
    BY DEF DisableSlashed, PersistDisabled
  <2> QED BY <1>0, <2>1, <2>2, StoreOpsTyped
<1>4. BeginDoppelgangerHold(result) => StoreTypeOK'
  <2>1. BeginDoppelgangerHold(result) =>
          \/ UNCHANGED storeVars
          \/ \E b \in BOOLEAN : CommitLessSafe("Held", b)
          \/ \E q, b \in BOOLEAN : PersistDisabled("Held", 1, q, b)
    BY Zenon DEF BeginDoppelgangerHold
  <2> QED BY <1>0, <2>1, StoreOpsTyped
<1>5. ReleaseDoppelgangerHold(result) => StoreTypeOK'
  <2>1. ReleaseDoppelgangerHold(result) =>
           UNCHANGED storeVars \/ \E b \in BOOLEAN : CommitLessSafe("Enabled", b)
    BY Zenon DEF ReleaseDoppelgangerHold
  <2> QED BY <1>0, <2>1, StoreOpsTyped
<1>6. PersistKeystoreHold(result) => StoreTypeOK'
  BY <1>1, <1>4 DEF PersistKeystoreHold
<1> QED BY <1>1, <1>2, <1>3, <1>4, <1>5, <1>6

(* A disabled row stays disabled, live and in the file, whatever the store *)
(* is asked to do, unless it is removed (disable_slashed wins over holds,  *)
(* inserts and releases).                                                  *)
LEMMA DisabledRowKept ==
    ASSUME row = "Disabled", file \in {"Disabled", "Gone"}, NEW result, NEW ok \in BOOLEAN,
           \/ AddValidatorDurable("Disabled", result) \/ AddValidatorDurable("Enabled", result)
           \/ RemoveValidatorDurable(result) \/ PersistSigningDisable(ok) \/ DisableSlashed(ok)
           \/ BeginDoppelgangerHold(result) \/ PersistKeystoreHold(result)
           \/ ReleaseDoppelgangerHold(result)
           \/ UNCHANGED storeVars \/ SaveConfig \/ Elapse
    PROVE  \/ row' = "Disabled" /\ file' \in {"Disabled", "Gone"}
           \/ row' = "Absent"
<1>1. CASE RemoveValidatorDurable(result)
  BY <1>1 DEF RemoveValidatorDurable, CommitLessSafe, storeVars
<1>2. CASE PersistSigningDisable(ok) \/ DisableSlashed(ok)
  <2>1. ~(row \in HoldRows)
    BY DEF HoldRows
  <2> QED BY <1>2, <2>1 DEF PersistSigningDisable, DisableSlashed, PersistDisabled, storeVars
<1>3. CASE SaveConfig \/ Elapse
  BY <1>3 DEF SaveConfig, Elapse, AfterDeadline
<1>4. CASE UNCHANGED storeVars
  BY <1>4 DEF storeVars
<1>5. CASE \/ AddValidatorDurable("Disabled", result) \/ AddValidatorDurable("Enabled", result)
           \/ BeginDoppelgangerHold(result) \/ PersistKeystoreHold(result)
           \/ ReleaseDoppelgangerHold(result)
  <2>1. UNCHANGED storeVars
    BY <1>5 DEF AddValidatorDurable, BeginDoppelgangerHold, PersistKeystoreHold,
                ReleaseDoppelgangerHold
  <2> QED BY <2>1 DEF storeVars
<1> QED BY <1>1, <1>2, <1>3, <1>4, <1>5

-----------------------------------------------------------------------------
(* What each step does to the store.                                       *)

Durable(result, ok) ==
    \/ AddValidatorDurable("Disabled", result) \/ AddValidatorDurable("Enabled", result)
    \/ RemoveValidatorDurable(result) \/ PersistSigningDisable(ok) \/ DisableSlashed(ok)
    \/ BeginDoppelgangerHold(result) \/ PersistKeystoreHold(result)
    \/ ReleaseDoppelgangerHold(result)
    \/ SaveConfig \/ Elapse

(* A step leaves row and document alone (and counts a fault or not), or is *)
(* one operation of the store, or a crash or a start.                      *)
LEMMA StoreSteps ==
    ASSUME [Next]_klVars
    PROVE  \/ UNCHANGED <<row, file>> /\ (NoFault \/ Fault(1))
           \/ \E result : \E ok \in BOOLEAN : Durable(result, ok)
           \/ Crash \/ Boot
<1>1. CASE Import
  BY <1>1 DEF Import, ImportStage, ImportDuplicate, ImportHold, ImportRename, ImportMark,
         ImportAdmitHold, ImportPublish, ImportRegister, ImportClearDenylist, ImportReadmit,
         OnImport, ImportDisconnect, ImportUnpublish, ImportDiscard, ImportDeny,
         ImportFinishRollback, ImportLateDuplicate, ImportLateUnmark, ImportListener,
         UnlinkMarker, UnlinkKeystore, DenylistInsert, DenylistRemove, PublishFailed, Tombstone,
         RemoveInsertedRow, Durable, storeVars, NoFault
<1>2. CASE \E d \in Deletes : Delete(d)
  BY <1>2 DEF Delete, DeleteSnapshot, DeleteDisable, DeleteDrain, DeleteCheck, DeleteLock,
         DeleteRefused, DeleteAbsent, DeleteUnlink, DeleteUnmark, DeleteDeny, DeleteForget,
         DeleteTouch, DeleteEnd, DenylistInsert, UnlinkKeystore, Durable, storeVars, NoFault
<1>3. CASE Refresh \/ Task \/ UNCHANGED klVars
  BY <1>3 DEF Refresh, ProviderAdds, RefreshStart, RefreshPublish, RefreshRow, RefreshRecheck,
         RefreshRevoke, RefreshRegister, RemoveInsertedRow, Task, FinishEnable, MonitorDetect,
         MonitorDisable, MonitorNotify, WindowPasses, RecordCompletedImports, StoreStep, klVars,
         Durable, storeVars, NoFault
<1> QED BY <1>1, <1>2, <1>3 DEF Next

-----------------------------------------------------------------------------
(* Type correctness.                                                       *)

Windows == {"Unmonitored", "Pending", "Safe"}

Mems == [signer : BOOLEAN, mapped : BOOLEAN, window : Windows, quiesced : BOOLEAN,
         denied : BOOLEAN, enabler : BOOLEAN, known : BOOLEAN]

Disks == [keystore : BOOLEAN, sidecars : SUBSET {"staged", "final"}, denied : BOOLEAN,
          secret : BOOLEAN]

Imports == [pc : ImportPcs, inserted : BOOLEAN, rollback : BOOLEAN, stuck : BOOLEAN]

DeleteRecords == [pc : DeletePcs, member : BOOLEAN, present : BOOLEAN]

Refreshes == [pc : {"idle", "checked", "mapped", "rowed", "revoking", "rechecked"},
              inserted : BOOLEAN]

(* The shape of the state, by variable.                                    *)
LEMMA TypedParts ==
    KLTypeOK <=> /\ StoreTypeOK /\ up \in BOOLEAN /\ mem \in Mems /\ disk \in Disks
                 /\ tracked \in {None, "import"} \cup Deletes /\ stateLock \in {None} \cup Deletes
                 /\ imp \in Imports /\ del \in [Deletes -> DeleteRecords] /\ ref \in Refreshes
                 /\ monitor \in {"idle", "detected", "notify"}
                 /\ gone \in BOOLEAN /\ slashed \in BOOLEAN /\ excepted \in BOOLEAN
                 /\ unvetted \in BOOLEAN
  BY Zenon DEF KLTypeOK, Mems, Windows, Disks, Imports, DeleteRecords, Refreshes

(* Updates of what the process knows of the key keep its shape.            *)
LEMMA MemUpdates ==
    ASSUME mem \in Mems
    PROVE  /\ Published(mem) \in Mems /\ Unpublished(mem) \in Mems /\ Blank \in Mems
           /\ RegisterForImport \in Windows
           /\ \A b \in BOOLEAN : /\ [mem EXCEPT !.denied = b] \in Mems
                                 /\ [mem EXCEPT !.quiesced = b] \in Mems
                                 /\ [mem EXCEPT !.enabler = b] \in Mems
                                 /\ [mem EXCEPT !.known = b] \in Mems
           /\ \A w \in Windows, b \in BOOLEAN :
                 /\ [mem EXCEPT !.window = w] \in Mems
                 /\ [mem EXCEPT !.window = w, !.enabler = b] \in Mems
                 /\ [mem EXCEPT !.enabler = b, !.window = w] \in Mems
           /\ [mem EXCEPT !.signer = FALSE, !.mapped = FALSE, !.known = FALSE] \in Mems
<1>0. TRUE \in BOOLEAN /\ FALSE \in BOOLEAN /\ "Unmonitored" \in Windows /\ "Pending" \in Windows
  BY DEF Windows
<1>1. Published(mem) \in Mems
  BY <1>0, Zenon DEF Mems, Published
<1>2. Unpublished(mem) \in Mems
  BY <1>0, Zenon DEF Mems, Unpublished
<1>3. Blank \in Mems
  BY <1>0, Zenon DEF Mems, Blank
<1>4. RegisterForImport \in Windows
  BY <1>0, Zenon DEF Mems, RegisterForImport
<1>5. ASSUME NEW b \in BOOLEAN PROVE [mem EXCEPT !.denied = b] \in Mems
  BY Zenon DEF Mems
<1>6. ASSUME NEW b \in BOOLEAN PROVE [mem EXCEPT !.quiesced = b] \in Mems
  BY Zenon DEF Mems
<1>7. ASSUME NEW b \in BOOLEAN PROVE [mem EXCEPT !.enabler = b] \in Mems
  BY Zenon DEF Mems
<1>8. ASSUME NEW b \in BOOLEAN PROVE [mem EXCEPT !.known = b] \in Mems
  BY Zenon DEF Mems
<1>9. ASSUME NEW w \in Windows PROVE [mem EXCEPT !.window = w] \in Mems
  BY Zenon DEF Mems
<1>10. ASSUME NEW w \in Windows, NEW b \in BOOLEAN
       PROVE  [mem EXCEPT !.window = w, !.enabler = b] \in Mems
  BY Zenon DEF Mems
<1>11. ASSUME NEW w \in Windows, NEW b \in BOOLEAN
       PROVE  [mem EXCEPT !.enabler = b, !.window = w] \in Mems
  BY Zenon DEF Mems
<1>12. [mem EXCEPT !.signer = FALSE, !.mapped = FALSE, !.known = FALSE] \in Mems
  BY <1>0, Zenon DEF Mems
<1> QED BY <1>1, <1>2, <1>3, <1>4, <1>5, <1>6, <1>7, <1>8, <1>9, <1>10, <1>11, <1>12

(* What the process knows of the key keeps its shape.                      *)
LEMMA MemTyped == ASSUME KLTypeOK, [Next]_klVars PROVE mem' \in Mems
<1>0. mem \in Mems /\ disk \in Disks
  BY TypedParts
<1>00. TRUE \in BOOLEAN /\ FALSE \in BOOLEAN /\ "Unmonitored" \in Windows /\ "Safe" \in Windows
       /\ "Pending" \in Windows /\ mem.window \in Windows
  BY <1>0 DEF Windows, Mems
<1>1. CASE UNCHANGED mem \/ mem' = Blank \/ mem' = Published(mem) \/ mem' = Unpublished(mem)
  BY <1>0, <1>1, MemUpdates
<1>2. CASE \/ mem' = [mem EXCEPT !.enabler = FALSE]
           \/ mem' = [mem EXCEPT !.denied = TRUE] \/ mem' = [mem EXCEPT !.denied = FALSE]
           \/ mem' = [mem EXCEPT !.known = TRUE]
           \/ mem' = [mem EXCEPT !.signer = FALSE, !.mapped = FALSE, !.known = FALSE]
           \/ mem' = [mem EXCEPT !.window = RegisterForImport]
           \/ mem' = [mem EXCEPT !.window = RegisterForImport, !.enabler = TRUE]
           \/ mem' = [mem EXCEPT !.window = "Safe"]
  BY <1>0, <1>00, <1>2, MemUpdates
<1>3. CASE ImportReadmit
  <2>1. (mem.quiesced /\ InFlightForKey # {}) \in BOOLEAN
    OBVIOUS
  <2>2. PICK b \in BOOLEAN : b = (mem.quiesced /\ InFlightForKey # {})
    BY <2>1, Zenon
  <2>3. mem' = [mem EXCEPT !.quiesced = b]
    BY <1>3, <2>2, Zenon DEF ImportReadmit
  <2> QED BY <1>0, <2>3, MemUpdates
<1>4. CASE \E d \in Deletes : DeleteDrain(d)
  <2>1. (mem.quiesced \/ mem.signer) \in BOOLEAN
    OBVIOUS
  <2>2. PICK b \in BOOLEAN : b = (mem.quiesced \/ mem.signer)
    BY <2>1, Zenon
  <2>3. mem' = [mem EXCEPT !.quiesced = b]
    BY <1>4, <2>2, Zenon DEF DeleteDrain
  <2> QED BY <1>0, <2>3, MemUpdates
<1>5. CASE \E d \in Deletes : DeleteTouch(d)
  <2>1. PICK w \in Windows : mem' = [mem EXCEPT !.enabler = FALSE, !.window = w]
    BY <1>00, <1>5, Zenon DEF DeleteTouch
  <2> QED BY <1>0, <1>00, <2>1, MemUpdates
<1>6. CASE FinishEnable
  <2>1. ASSUME NEW result PROVE (result = "failed") \in BOOLEAN
    OBVIOUS
  <2>2. \E b \in BOOLEAN : mem' = [mem EXCEPT !.enabler = b]
    BY <1>00, <1>6, <2>1, Zenon DEF FinishEnable
  <2> QED BY <1>0, <2>2, MemUpdates
<1>7. CASE Boot
  <2>1. Loaded \in BOOLEAN /\ disk.denied \in BOOLEAN /\ (row' \in HoldRows) \in BOOLEAN
    BY <1>0 DEF Loaded, Disks
  <2>2. BootWindow \subseteq Windows
    BY <1>00 DEF BootWindow
  <2>3. PICK l \in BOOLEAN, n \in BOOLEAN, h \in BOOLEAN :
            l = Loaded /\ n = disk.denied /\ h = (row' \in HoldRows)
    BY <2>1, Zenon
  <2>4. PICK w \in Windows :
            mem' = [Blank EXCEPT !.signer = l, !.mapped = l, !.window = w, !.denied = n,
                                 !.enabler = h, !.known = l]
    BY <1>7, <2>2, <2>3, Zenon DEF Boot
  <2>5. Blank \in Mems
    BY <1>0, MemUpdates
  <2> QED BY <2>3, <2>4, <2>5, Zenon DEF Mems
<1>8. CASE Import /\ ~ImportReadmit
  BY <1>1, <1>2, <1>8
     DEF Import, ImportStage, ImportDuplicate, ImportHold, ImportRename, ImportMark,
         ImportAdmitHold, ImportPublish, ImportRegister, ImportClearDenylist,
         OnImport, ImportDisconnect, ImportUnpublish, ImportDiscard, ImportDeny,
         ImportFinishRollback, ImportLateDuplicate, ImportLateUnmark, ImportListener,
         DenylistInsert, DenylistRemove
<1>9. CASE \E d \in Deletes : Delete(d) /\ ~DeleteDrain(d) /\ ~DeleteTouch(d)
  BY <1>1, <1>2, <1>9
     DEF Delete, DeleteSnapshot, DeleteDisable, DeleteCheck, DeleteLock, DeleteSkip,
         DeleteRefused, DeleteAbsent, DeleteUnlink, DeleteUnmark, DeleteDeny, DeleteForget,
         DeleteEnd, DenylistInsert
<1>10. CASE Refresh \/ (Task /\ ~FinishEnable) \/ Crash \/ UNCHANGED klVars
  BY <1>1, <1>2, <1>10
     DEF Refresh, ProviderAdds, RefreshStart, RefreshPublish, RefreshRow, RefreshRecheck,
         RefreshRevoke, RefreshRegister, Task, MonitorDetect, MonitorDisable, MonitorNotify,
         WindowPasses, RecordCompletedImports, StoreStep, Crash, klVars
<1> QED BY <1>3, <1>4, <1>5, <1>6, <1>7, <1>8, <1>9, <1>10 DEF Next

(* The files of the key keep their shape.                                  *)
LEMMA DiskTyped == ASSUME KLTypeOK, [Next]_klVars PROVE disk' \in Disks
<1>0. mem \in Mems /\ disk \in Disks
  BY TypedParts
<1>00. /\ TRUE \in BOOLEAN /\ FALSE \in BOOLEAN /\ disk.denied \in BOOLEAN
       /\ disk.sidecars \in SUBSET {"staged", "final"}
  BY <1>0 DEF Disks
<1>1. ASSUME NEW b \in BOOLEAN, NEW m \in SUBSET {"staged", "final"},
             \/ UNCHANGED disk
             \/ disk' = [disk EXCEPT !.denied = b] \/ disk' = [disk EXCEPT !.keystore = b]
             \/ disk' = [disk EXCEPT !.secret = b] \/ disk' = [disk EXCEPT !.sidecars = m]
      PROVE  disk' \in Disks
  <2>1. CASE disk' = [disk EXCEPT !.denied = b]
    BY <1>0, <2>1, Zenon DEF Disks
  <2>2. CASE disk' = [disk EXCEPT !.keystore = b]
    BY <1>0, <2>2, Zenon DEF Disks
  <2>3. CASE disk' = [disk EXCEPT !.secret = b]
    BY <1>0, <2>3, Zenon DEF Disks
  <2>4. CASE disk' = [disk EXCEPT !.sidecars = m]
    BY <1>0, <2>4, Zenon DEF Disks
  <2> QED BY <1>0, <1>1, <2>1, <2>2, <2>3, <2>4
<1>2. ASSUME NEW ok, DenylistInsert(ok) PROVE disk' \in Disks
  <2>1. (mem.denied => disk.denied) \in BOOLEAN
    OBVIOUS
  <2>2. \E b \in BOOLEAN : disk' = [disk EXCEPT !.denied = b]
    BY <1>00, <1>2, <2>1, Zenon DEF DenylistInsert
  <2> QED BY <1>00, <1>1, <2>2
<1>3. ASSUME NEW ok, DenylistRemove(ok) PROVE disk' \in Disks
  <2>1. (~mem.denied /\ disk.denied) \in BOOLEAN
    OBVIOUS
  <2>2. \E b \in BOOLEAN : disk' = [disk EXCEPT !.denied = b]
    BY <1>00, <1>3, <2>1, Zenon DEF DenylistRemove
  <2> QED BY <1>00, <1>1, <2>2
<1>4. ASSUME NEW ok, UnlinkKeystore(ok) PROVE disk' \in Disks
  BY <1>00, <1>1, <1>4 DEF UnlinkKeystore
<1>5. ASSUME NEW name, NEW ok, UnlinkMarker(name, ok) PROVE disk' \in Disks
  <2>1. PICK m : m = disk.sidecars \ {name}
    OBVIOUS
  <2>2. m \in SUBSET {"staged", "final"}
    BY <1>00, <2>1
  <2> QED BY <1>00, <1>1, <1>5, <2>1, <2>2 DEF UnlinkMarker
<1>6. CASE ImportStage
  <2>1. PICK m : m = disk.sidecars \cup {"staged"}
    OBVIOUS
  <2>2. m \in SUBSET {"staged", "final"}
    BY <1>00, <2>1
  <2> QED BY <1>00, <1>1, <1>6, <2>1, <2>2 DEF ImportStage
<1>7. CASE ImportMark
  <2>1. PICK m : m = (disk.sidecars \ {"staged"}) \cup {"final"}
    OBVIOUS
  <2>2. m \in SUBSET {"staged", "final"}
    BY <1>00, <2>1
  <2>3. Marked = [disk EXCEPT !.sidecars = m]
    BY <2>1 DEF Marked
  <2> QED BY <1>00, <1>1, <1>7, <2>2, <2>3 DEF ImportMark
<1>8. CASE ImportRename
  BY <1>00, <1>1, <1>8 DEF ImportRename
<1>9. CASE ProviderAdds
  BY <1>00, <1>1, <1>9 DEF ProviderAdds
<1>10. CASE RecordCompletedImports \/ \E d \in Deletes : DeleteUnmark(d)
  <2>1. {} \in SUBSET {"staged", "final"}
    OBVIOUS
  <2> QED BY <1>00, <1>1, <1>10, <2>1 DEF RecordCompletedImports, DeleteUnmark
<1>11. CASE \E d \in Deletes : Delete(d) /\ ~DeleteUnmark(d)
  BY <1>00, <1>1, <1>2, <1>4, <1>11
     DEF Delete, DeleteSnapshot, DeleteDisable, DeleteDrain, DeleteCheck, DeleteLock,
         DeleteRefused, DeleteAbsent, DeleteUnlink, DeleteDeny, DeleteForget, DeleteTouch, DeleteEnd
<1>12. CASE Import /\ ~ImportStage /\ ~ImportMark /\ ~ImportRename
  BY <1>00, <1>1, <1>2, <1>3, <1>4, <1>5, <1>12
     DEF Import, ImportDuplicate, ImportHold, ImportAdmitHold, ImportPublish, ImportRegister,
         ImportClearDenylist, ImportReadmit, OnImport, ImportDisconnect, ImportUnpublish,
         ImportDiscard, ImportDeny, ImportFinishRollback, ImportLateDuplicate, ImportLateUnmark,
         ImportListener
<1>13. CASE \/ Refresh /\ ~ProviderAdds
            \/ Task /\ ~RecordCompletedImports
            \/ Crash \/ Boot \/ UNCHANGED klVars
  <2>1. UNCHANGED disk
    BY <1>13 DEF Refresh, RefreshStart, RefreshPublish, RefreshRow, RefreshRecheck, RefreshRevoke,
         RefreshRegister, Task, FinishEnable, MonitorDetect, MonitorDisable, MonitorNotify,
         WindowPasses, StoreStep, Crash, Boot, klVars
  <2> QED BY <1>0, <2>1
<1> QED BY <1>6, <1>7, <1>8, <1>9, <1>10, <1>11, <1>12, <1>13 DEF Next, Refresh, Task

(* The import request keeps its shape.                                     *)
LEMMA ImportTyped == ASSUME KLTypeOK, [Next]_klVars PROVE imp' \in Imports
<1>0. imp \in Imports
  BY TypedParts
<1>00. TRUE \in BOOLEAN /\ FALSE \in BOOLEAN
  OBVIOUS
<1>1. NoImport \in Imports
  BY Zenon DEF NoImport, Imports, ImportPcs
<1>2. ASSUME NEW pc \in ImportPcs, ImportGoto(pc) PROVE imp' \in Imports
  BY <1>0, <1>2, Zenon DEF ImportGoto, Imports
<1>3. ASSUME NEW pc \in ImportPcs, NEW ok, Unlinked(ok, pc) PROVE imp' \in Imports
  <2>1. (imp.stuck \/ ~ok) \in BOOLEAN
    OBVIOUS
  <2>2. PICK b \in BOOLEAN : b = (imp.stuck \/ ~ok)
    BY <2>1, Zenon
  <2>3. imp' = [imp EXCEPT !.pc = pc, !.stuck = b]
    BY <1>3, <2>2, Zenon DEF Unlinked
  <2> QED BY <1>0, <2>3, Zenon DEF Imports
<1>4. CASE ImportHold
  <2>1. ASSUME NEW result PROVE (result = "inserted") \in BOOLEAN
    OBVIOUS
  <2>2. PICK pc \in {"discard", "held"}, b \in BOOLEAN : imp' = [imp EXCEPT !.pc = pc, !.inserted = b]
    BY <1>4, <2>1, Zenon DEF ImportHold
  <2>3. pc \in ImportPcs
    BY DEF ImportPcs
  <2> QED BY <1>0, <2>2, <2>3, Zenon DEF Imports
<1>5. CASE ImportUnpublish
  <2>1. "discard" \in ImportPcs
    BY DEF ImportPcs
  <2> QED BY <1>0, <1>00, <1>5, <2>1, Zenon DEF Imports, ImportUnpublish
<1>6. CASE ImportLateUnmark
  <2>1. "finish" \in ImportPcs
    BY DEF ImportPcs
  <2>2. CASE imp' = [imp EXCEPT !.pc = "finish", !.stuck = TRUE]
    BY <1>0, <1>00, <2>1, <2>2, Zenon DEF Imports
  <2> QED BY <1>1, <1>6, <2>2 DEF ImportLateUnmark, ImportLateEnd, ImportReturn
<1>7. {"staged", "discard", "renamed", "rollback", "published", "armed", "mapped", "admitted",
       "cleared", "returned", "unlink", "unmark", "deny", "finish", "duplicate", "listener"}
      \subseteq ImportPcs
  BY DEF ImportPcs
<1>8. CASE \/ ImportStage \/ ImportDuplicate \/ ImportRename \/ ImportMark \/ ImportAdmitHold
           \/ ImportPublish \/ ImportRegister \/ ImportClearDenylist \/ ImportReadmit \/ OnImport
           \/ ImportDisconnect
  BY <1>1, <1>2, <1>7, <1>8
     DEF ImportStage, ImportDuplicate, ImportRename, ImportMark, ImportAdmitHold, ImportPublish,
         ImportRegister, ImportClearDenylist, ImportReadmit, OnImport, ImportDisconnect,
         ImportReturn, PublishFailed
<1>9. CASE ImportDiscard \/ ImportDeny \/ ImportFinishRollback \/ ImportLateDuplicate \/ ImportListener
  BY <1>0, <1>1, <1>2, <1>3, <1>7, <1>9
     DEF ImportDiscard, ImportDeny, ImportFinishRollback, ImportLateDuplicate, ImportListener,
         ImportReturn, Tombstone
<1>10. CASE Crash
  BY <1>1, <1>10 DEF Crash
<1>11. CASE (\E d \in Deletes : Delete(d)) \/ Refresh \/ Task \/ Boot \/ UNCHANGED klVars
  <2>1. UNCHANGED imp
    BY <1>11 DEF Delete, DeleteSnapshot, DeleteDisable, DeleteDrain, DeleteCheck, DeleteLock,
         DeleteRefused, DeleteAbsent, DeleteUnlink, DeleteUnmark, DeleteDeny, DeleteForget,
         DeleteTouch, DeleteEnd, DeleteKeeps, Refresh, ProviderAdds, RefreshStart,
         RefreshPublish, RefreshRow, RefreshRecheck, RefreshRevoke, RefreshRegister,
         RefreshKeeps, Task, FinishEnable, MonitorDetect, MonitorDisable, MonitorNotify,
         WindowPasses, RecordCompletedImports, StoreStep, Boot, klVars, actorVars
  <2> QED BY <1>0, <2>1
<1> QED BY <1>4, <1>5, <1>6, <1>8, <1>9, <1>10, <1>11 DEF Next, Import

(* The DELETE requests keep their shape.                                   *)
LEMMA DeleteTyped == ASSUME KLTypeOK, [Next]_klVars PROVE del' \in [Deletes -> DeleteRecords]
<1>0. del \in [Deletes -> DeleteRecords] /\ mem \in Mems /\ mem.signer \in BOOLEAN
  BY TypedParts DEF Mems
<1>1. NoDelete \in DeleteRecords
  BY Zenon DEF NoDelete, DeleteRecords, DeletePcs
<1>2. ASSUME NEW d \in Deletes, NEW pc \in DeletePcs, DeleteGoto(d, pc)
      PROVE  del' \in [Deletes -> DeleteRecords]
  <2>1. [del[d] EXCEPT !.pc = pc] \in DeleteRecords
    BY <1>0, Zenon DEF DeleteRecords
  <2>2. del' = [del EXCEPT ![d] = [del[d] EXCEPT !.pc = pc]]
    BY <1>2 DEF DeleteGoto
  <2> QED BY <1>0, <2>1, <2>2, Zenon
<1>3. ASSUME NEW d \in Deletes, DeleteSnapshot(d) PROVE del' \in [Deletes -> DeleteRecords]
  <2>0. "snapped" \in DeletePcs
    BY DEF DeletePcs
  <2>1. [del[d] EXCEPT !.pc = "snapped", !.member = mem.signer] \in DeleteRecords
    BY <1>0, <2>0, Zenon DEF DeleteRecords
  <2>2. del' = [del EXCEPT ![d] = [del[d] EXCEPT !.pc = "snapped", !.member = mem.signer]]
    BY <1>3 DEF DeleteSnapshot
  <2> QED BY <1>0, <2>1, <2>2, Zenon
<1>4. ASSUME NEW d \in Deletes, NEW b \in BOOLEAN,
             del' = [del EXCEPT ![d] = [@ EXCEPT !.pc = "touch", !.present = b]]
      PROVE  del' \in [Deletes -> DeleteRecords]
  <2>0. "touch" \in DeletePcs
    BY DEF DeletePcs
  <2>1. [del[d] EXCEPT !.pc = "touch", !.present = b] \in DeleteRecords
    BY <1>0, <2>0, Zenon DEF DeleteRecords
  <2>2. del' = [del EXCEPT ![d] = [del[d] EXCEPT !.pc = "touch", !.present = b]]
    BY <1>4
  <2> QED BY <1>0, <2>1, <2>2, Zenon
<1>5. ASSUME NEW d \in Deletes, DeleteEnd(d) PROVE del' \in [Deletes -> DeleteRecords]
  BY <1>0, <1>1, <1>5, Zenon DEF DeleteEnd
<1>6. {"disabled", "ending", "drained", "checked", "locked", "unlinked", "unmarked", "denied"}
      \subseteq DeletePcs /\ TRUE \in BOOLEAN /\ FALSE \in BOOLEAN
  BY DEF DeletePcs
<1>7. ASSUME NEW d \in Deletes, Delete(d) PROVE del' \in [Deletes -> DeleteRecords]
  BY <1>2, <1>3, <1>4, <1>5, <1>6, <1>7
     DEF Delete, DeleteDisable, DeleteDrain, DeleteCheck, DeleteLock, DeleteRefused,
         DeleteAbsent, DeleteUnlink, DeleteUnmark, DeleteDeny, DeleteForget, DeleteTouch, DeleteSkip
<1>8. CASE Crash
  BY <1>1, <1>8 DEF Crash
<1>9. CASE Import \/ Refresh \/ Task \/ Boot \/ UNCHANGED klVars
  <2>1. UNCHANGED del
    BY <1>9 DEF Import, ImportStage, ImportDuplicate, ImportHold, ImportRename, ImportMark,
         ImportAdmitHold, ImportPublish, ImportRegister, ImportClearDenylist, ImportReadmit,
         OnImport, ImportDisconnect, ImportUnpublish, ImportDiscard, ImportDeny,
         ImportFinishRollback, ImportLateDuplicate, ImportLateUnmark, ImportListener, ImportKeeps,
         Refresh, ProviderAdds, RefreshStart,
         RefreshPublish, RefreshRow, RefreshRecheck, RefreshRevoke, RefreshRegister,
         RefreshKeeps, Task, FinishEnable, MonitorDetect, MonitorDisable, MonitorNotify,
         WindowPasses, RecordCompletedImports, StoreStep, Boot, klVars, actorVars
  <2> QED BY <1>0, <2>1
<1> QED BY <1>7, <1>8, <1>9 DEF Next

(* The refresh, the monitor and the two locks keep their shape.            *)
LEMMA ActorsTyped ==
    ASSUME KLTypeOK, [Next]_klVars
    PROVE  /\ ref' \in Refreshes /\ monitor' \in {"idle", "detected", "notify"}
           /\ tracked' \in {None, "import"} \cup Deletes /\ stateLock' \in {None} \cup Deletes
           /\ up' \in BOOLEAN
<1>0. /\ ref \in Refreshes /\ monitor \in {"idle", "detected", "notify"} /\ up \in BOOLEAN
      /\ tracked \in {None, "import"} \cup Deletes /\ stateLock \in {None} \cup Deletes
  BY TypedParts
<1>1. NoRefresh \in Refreshes
  BY Zenon DEF NoRefresh, Refreshes
<1>2. ref' \in Refreshes
  <2>1. ASSUME NEW pc \in {"idle", "checked", "mapped", "rowed", "revoking", "rechecked"},
               ref' = [ref EXCEPT !.pc = pc]
        PROVE  ref' \in Refreshes
    BY <1>0, <2>1, Zenon DEF Refreshes
  <2>2. CASE RefreshRow
    <3>1. ASSUME NEW result PROVE (result = "inserted") \in BOOLEAN
      OBVIOUS
    <3>2. ref' = NoRefresh \/ \E b \in BOOLEAN : ref' = [pc |-> "rowed", inserted |-> b]
      BY <2>2, <3>1, Zenon DEF RefreshRow
    <3>3. ASSUME NEW b \in BOOLEAN PROVE [pc |-> "rowed", inserted |-> b] \in Refreshes
      BY Zenon DEF Refreshes
    <3> QED BY <1>1, <3>2, <3>3
  <2>3. CASE Refresh /\ ~RefreshRow
    BY <1>0, <1>1, <2>1, <2>3 DEF Refresh, ProviderAdds, RefreshStart, RefreshPublish,
         RefreshRecheck, RefreshRevoke, RefreshRegister, RefreshGoto
  <2>4. CASE Crash
    BY <1>1, <2>4 DEF Crash
  <2>5. CASE Import \/ (\E d \in Deletes : Delete(d)) \/ Task \/ Boot \/ UNCHANGED klVars
    <3>1. UNCHANGED ref
      BY <2>5 DEF Import, ImportStage, ImportDuplicate, ImportHold, ImportRename, ImportMark,
         ImportAdmitHold, ImportPublish, ImportRegister, ImportClearDenylist, ImportReadmit,
         OnImport, ImportDisconnect, ImportUnpublish, ImportDiscard, ImportDeny,
         ImportFinishRollback, ImportLateDuplicate, ImportLateUnmark, ImportListener, ImportKeeps,
         Delete, DeleteSnapshot, DeleteDisable, DeleteDrain, DeleteCheck, DeleteLock,
         DeleteRefused, DeleteAbsent, DeleteUnlink, DeleteUnmark, DeleteDeny, DeleteForget,
         DeleteTouch, DeleteEnd, DeleteKeeps, Task, FinishEnable, MonitorDetect, MonitorDisable,
         MonitorNotify, WindowPasses, RecordCompletedImports, StoreStep, Boot, klVars, actorVars
    <3> QED BY <1>0, <3>1
  <2> QED BY <2>2, <2>3, <2>4, <2>5 DEF Next, Refresh
<1>3. /\ monitor' \in {"idle", "detected", "notify"}
      /\ tracked' \in {None, "import"} \cup Deletes /\ stateLock' \in {None} \cup Deletes
  <2>1. CASE Import
    BY <1>0, <2>1 DEF Import, ImportStage, ImportDuplicate, ImportHold, ImportRename, ImportMark,
         ImportAdmitHold, ImportPublish, ImportRegister, ImportClearDenylist, ImportReadmit,
         OnImport, ImportDisconnect, ImportUnpublish, ImportDiscard, ImportDeny,
         ImportFinishRollback, ImportLateDuplicate, ImportLateUnmark, ImportListener, ImportKeeps,
         ImportLateEnd, ImportReturn, Tombstone
  <2>2. CASE \E d \in Deletes : Delete(d)
    BY <1>0, <2>2 DEF Delete, DeleteSnapshot, DeleteDisable, DeleteDrain, DeleteCheck, DeleteLock,
         DeleteRefused, DeleteAbsent, DeleteUnlink, DeleteUnmark, DeleteDeny, DeleteForget,
         DeleteTouch, DeleteEnd, DeleteKeeps, DeleteSkip
  <2>3. CASE Refresh \/ Task \/ Crash \/ Boot \/ UNCHANGED klVars
    BY <1>0, <2>3 DEF Refresh, ProviderAdds, RefreshStart,
         RefreshPublish, RefreshRow, RefreshRecheck, RefreshRevoke, RefreshRegister,
         RefreshKeeps, Task, FinishEnable, MonitorDetect, MonitorDisable,
         MonitorNotify, WindowPasses, RecordCompletedImports, StoreStep, Crash, Boot, klVars, actorVars
  <2> QED BY <2>1, <2>2, <2>3 DEF Next
<1>4. up' \in BOOLEAN
  <2>1. up' = up \/ up' = TRUE \/ up' = FALSE
    BY DEF Next, Import, ImportStage, ImportDuplicate, ImportHold, ImportRename, ImportMark,
         ImportAdmitHold, ImportPublish, ImportRegister, ImportClearDenylist, ImportReadmit,
         OnImport, ImportDisconnect, ImportUnpublish, ImportDiscard, ImportDeny,
         ImportFinishRollback, ImportLateDuplicate, ImportLateUnmark, ImportListener, ImportKeeps,
         Delete, DeleteSnapshot, DeleteDisable, DeleteDrain, DeleteCheck, DeleteLock,
         DeleteRefused, DeleteAbsent, DeleteUnlink, DeleteUnmark, DeleteDeny, DeleteForget,
         DeleteTouch, DeleteEnd, DeleteKeeps, Refresh, ProviderAdds, RefreshStart,
         RefreshPublish, RefreshRow, RefreshRecheck, RefreshRevoke, RefreshRegister,
         RefreshKeeps, Task, FinishEnable, MonitorDetect, MonitorDisable,
         MonitorNotify, WindowPasses, RecordCompletedImports, StoreStep, Crash, Boot, klVars, actorVars
  <2> QED BY <1>0, <2>1
<1> QED BY <1>2, <1>3, <1>4

(* The history variables are Booleans.                                     *)
LEMMA HistoryTyped ==
    ASSUME KLTypeOK, [Next]_klVars
    PROVE  gone' \in BOOLEAN /\ slashed' \in BOOLEAN /\ excepted' \in BOOLEAN /\ unvetted' \in BOOLEAN
<1>0. gone \in BOOLEAN /\ slashed \in BOOLEAN /\ excepted \in BOOLEAN /\ unvetted \in BOOLEAN
  BY TypedParts
<1>1. CASE Import
  BY <1>0, <1>1 DEF Import, ImportStage, ImportDuplicate, ImportHold, ImportRename, ImportMark,
         ImportAdmitHold, ImportPublish, ImportRegister, ImportClearDenylist, ImportReadmit,
         OnImport, ImportDisconnect, ImportUnpublish, ImportDiscard, ImportDeny,
         ImportFinishRollback, ImportLateDuplicate, ImportLateUnmark, ImportListener,
         DenylistRemove, ForgetRow, historyVars
<1>2. CASE \E d \in Deletes : Delete(d)
  BY <1>0, <1>2 DEF Delete, DeleteSnapshot, DeleteDisable, DeleteDrain, DeleteCheck, DeleteLock,
         DeleteRefused, DeleteAbsent, DeleteUnlink, DeleteUnmark, DeleteDeny, DeleteForget,
         DeleteTouch, DeleteEnd, ForgetRow, historyVars
<1>3. CASE Refresh \/ Task \/ Crash \/ Boot \/ UNCHANGED klVars
  BY <1>0, <1>3 DEF Refresh, ProviderAdds, RefreshStart,
         RefreshPublish, RefreshRow, RefreshRecheck, RefreshRevoke, RefreshRegister,
         Task, FinishEnable, MonitorDetect, MonitorDisable, MonitorNotify, WindowPasses,
         RecordCompletedImports, StoreStep, Crash, Boot, klVars, ForgetRow, historyVars
<1> QED BY <1>1, <1>2, <1>3 DEF Next

(* Every step keeps the state well formed.                                 *)
LEMMA KLTypeStep == ASSUME KLTypeOK, [Next]_klVars PROVE KLTypeOK'
<1>1. StoreTypeOK'
  <2>0. StoreTypeOK /\ MaxFaults \in Nat
    BY TypedParts, StoreAssumption
  <2>1. CASE UNCHANGED <<row, file>> /\ (NoFault \/ Fault(1))
    BY <2>0, <2>1 DEF StoreTypeOK, NoFault, Fault
  <2>2. ASSUME NEW result, NEW ok \in BOOLEAN, Durable(result, ok) PROVE StoreTypeOK'
    BY <2>0, <2>2, DurableOpsTyped, StoreOpsTyped DEF Durable
  <2>3. CASE Crash
    BY <2>0, <2>3 DEF Crash, StoreTypeOK, Rows
  <2>4. CASE Boot
    <3>1. row' \in Rows /\ file' \in Rows \cup {"Gone"}
      BY <2>0, <2>4 DEF Boot, BootRow, ReconcileFails, StoreTypeOK, Rows, HoldRows
    <3>2. faults' \in 0 .. MaxFaults
      BY <2>0, <2>4, StoreAssumption DEF Boot, ReconcileFails, Fault, NoFault, StoreTypeOK
    <3> QED BY <3>1, <3>2 DEF StoreTypeOK
  <2> QED BY <2>1, <2>2, <2>3, <2>4, StoreSteps
<1>2. /\ StoreTypeOK' /\ up' \in BOOLEAN /\ mem' \in Mems /\ disk' \in Disks
      /\ tracked' \in {None, "import"} \cup Deletes /\ stateLock' \in {None} \cup Deletes
      /\ imp' \in Imports /\ del' \in [Deletes -> DeleteRecords] /\ ref' \in Refreshes
      /\ monitor' \in {"idle", "detected", "notify"}
      /\ gone' \in BOOLEAN /\ slashed' \in BOOLEAN /\ excepted' \in BOOLEAN
      /\ unvetted' \in BOOLEAN
  BY <1>1, MemTyped, DiskTyped, ImportTyped, DeleteTyped, ActorsTyped, HistoryTyped
<1> QED BY <1>2, Zenon DEF KLTypeOK, Mems, Windows, Disks, Imports, DeleteRecords, Refreshes

-----------------------------------------------------------------------------
(* Who holds tracked_keys, and what is left of a process that died.        *)

(* Where the requests stand after a step of theirs.                        *)
LEMMA Gotos ==
    ASSUME KLTypeOK
    PROVE  /\ \A pc : ImportGoto(pc) => imp'.pc = pc
           /\ \A pc, ok : Unlinked(ok, pc) => imp'.pc = pc
           /\ imp' = NoImport => imp'.pc = "idle"
           /\ \A d \in Deletes : \A pc : DeleteGoto(d, pc) =>
                 /\ del'[d].pc = pc /\ del'[d].member = del[d].member
                 /\ del'[d].present = del[d].present
                 /\ \A e \in Deletes \ {d} : del'[e] = del[e]
<1>0. imp \in Imports /\ del \in [Deletes -> DeleteRecords]
  BY TypedParts
<1>1. ASSUME NEW pc, ImportGoto(pc) PROVE imp'.pc = pc
  BY <1>0, <1>1 DEF Imports, ImportGoto
<1>2. ASSUME NEW pc, NEW ok, Unlinked(ok, pc) PROVE imp'.pc = pc
  BY <1>0, <1>2 DEF Imports, Unlinked
<1>3. imp' = NoImport => imp'.pc = "idle"
  BY DEF NoImport
<1>4. ASSUME NEW d \in Deletes, NEW pc, DeleteGoto(d, pc)
      PROVE  /\ del'[d].pc = pc /\ del'[d].member = del[d].member
             /\ del'[d].present = del[d].present
             /\ \A e \in Deletes \ {d} : del'[e] = del[e]
  <2>1. PICK r : r = [del[d] EXCEPT !.pc = pc]
    OBVIOUS
  <2>2. del' = [del EXCEPT ![d] = r]
    BY <1>4, <2>1 DEF DeleteGoto
  <2>3. r.pc = pc /\ r.member = del[d].member /\ r.present = del[d].present
    BY <1>0, <2>1 DEF DeleteRecords
  <2> QED BY <1>0, <2>2, <2>3
<1> QED BY <1>1, <1>2, <1>3, <1>4

(* Steps of an import leave its lock as it needs it, and take or release   *)
(* only a lock that no DELETE holds.                                       *)
LEMMA ImportLocks ==
    ASSUME KLTypeOK, TrackedHeld, Import
    PROVE  /\ ImportWorking' => tracked' = "import"
           /\ tracked' # tracked => tracked \in {None, "import"}
           /\ UNCHANGED del
<1>0. UNCHANGED del
  BY DEF Import, ImportStage, ImportDuplicate, ImportHold, ImportRename, ImportMark,
         ImportAdmitHold, ImportPublish, ImportRegister, ImportClearDenylist, ImportReadmit,
         OnImport, ImportDisconnect, ImportUnpublish, ImportDiscard, ImportDeny,
         ImportFinishRollback, ImportLateDuplicate, ImportLateUnmark, ImportListener, ImportKeeps
<1>1. CASE ImportStage
  BY <1>0, <1>1 DEF ImportStage
<1>2. CASE OnImport \/ ImportDisconnect
  BY <1>0, <1>2, Gotos DEF OnImport, ImportDisconnect, ImportWorking
<1>3. CASE ImportListener
  BY <1>0, <1>3, Gotos DEF ImportListener, ImportWorking
<1>4. CASE Import /\ ~ImportStage /\ ~OnImport /\ ~ImportDisconnect /\ ~ImportListener
  <2>1. ImportWorking
    BY <1>4 DEF Import, ImportDuplicate, ImportHold, ImportRename, ImportMark,
         ImportAdmitHold, ImportPublish, ImportRegister, ImportClearDenylist, ImportReadmit,
         ImportUnpublish, ImportDiscard, ImportDeny,
         ImportFinishRollback, ImportLateDuplicate, ImportLateUnmark, ImportWorking, ImportAt
  <2>2. tracked = "import"
    BY <2>1 DEF TrackedHeld
  <2>3. tracked' = tracked \/ ~ImportWorking'
    BY <1>4, Gotos DEF Import, ImportDuplicate, ImportHold, ImportRename, ImportMark,
         ImportAdmitHold, ImportPublish, ImportRegister, ImportClearDenylist, ImportReadmit,
         ImportUnpublish, ImportDiscard, ImportDeny,
         ImportFinishRollback, ImportLateDuplicate, ImportLateUnmark, ImportWorking, ImportReturn,
         ImportLateEnd, Tombstone
  <2> QED BY <1>0, <2>2, <2>3
<1> QED BY <1>1, <1>2, <1>3, <1>4

(* Steps of a DELETE, likewise.                                            *)
LEMMA DeleteLocks ==
    ASSUME KLTypeOK, TrackedHeld, NEW d \in Deletes, Delete(d)
    PROVE  /\ DeleteWorking(d)' => tracked' = d
           /\ tracked' # tracked => tracked \in {None, d}
           /\ \A e \in Deletes \ {d} : del'[e] = del[e]
           /\ UNCHANGED imp
<1>0. UNCHANGED imp
  BY DEF Delete, DeleteSnapshot, DeleteDisable, DeleteDrain, DeleteCheck, DeleteLock,
         DeleteRefused, DeleteAbsent, DeleteUnlink, DeleteUnmark, DeleteDeny, DeleteForget,
         DeleteTouch, DeleteEnd, DeleteKeeps
<1>00. del \in [Deletes -> DeleteRecords]
  BY TypedParts
<1>1. CASE DeleteSnapshot(d)
  <2>1. PICK r : r = [del[d] EXCEPT !.pc = "snapped", !.member = mem.signer]
    OBVIOUS
  <2>2. del' = [del EXCEPT ![d] = r] /\ UNCHANGED tracked
    BY <1>1, <2>1 DEF DeleteSnapshot
  <2>3. r.pc = "snapped"
    BY <1>00, <2>1 DEF DeleteRecords
  <2> QED BY <1>0, <1>00, <2>2, <2>3 DEF DeleteWorking
<1>2. CASE DeleteEnd(d)
  <2>1. NoDelete.pc = "idle"
    BY DEF NoDelete
  <2>2. del' = [del EXCEPT ![d] = NoDelete] /\ UNCHANGED tracked
    BY <1>2 DEF DeleteEnd
  <2> QED BY <1>0, <1>00, <2>1, <2>2 DEF DeleteWorking
<1>3. ASSUME NEW b, del' = [del EXCEPT ![d] = [@ EXCEPT !.pc = "touch", !.present = b]]
      PROVE  ~DeleteWorking(d)' /\ \A e \in Deletes \ {d} : del'[e] = del[e]
  <2>1. PICK r : r = [del[d] EXCEPT !.pc = "touch", !.present = b]
    OBVIOUS
  <2>2. del' = [del EXCEPT ![d] = r]
    BY <1>3, <2>1
  <2>3. r.pc = "touch"
    BY <1>00, <2>1 DEF DeleteRecords
  <2> QED BY <1>00, <2>2, <2>3 DEF DeleteWorking
<1>4. CASE DeleteForget(d)
  <2>1. tracked = d
    BY <1>4 DEF DeleteForget, DeleteAt, TrackedHeld, DeleteWorking
  <2> QED BY <1>0, <1>3, <1>4, <2>1 DEF DeleteForget
<1>5. CASE DeleteAbsent(d)
  <2>1. CASE DeleteGoto(d, "ending")
    BY <1>0, <1>5, <2>1, Gotos DEF DeleteAbsent, DeleteWorking
  <2> QED BY <1>0, <1>3, <1>5, <2>1 DEF DeleteAbsent, DeleteSkip
<1>6. CASE DeleteUnlink(d)
  <2>1. \/ DeleteGoto(d, "unlinked") /\ tracked' = d
        \/ DeleteGoto(d, "ending") /\ UNCHANGED tracked
    BY <1>6 DEF DeleteUnlink, DeleteSkip
  <2>2. tracked = None
    BY <1>6 DEF DeleteUnlink
  <2> QED BY <1>0, <2>1, <2>2, Gotos DEF DeleteWorking
<1>7. CASE DeleteUnmark(d) \/ DeleteDeny(d)
  <2>1. tracked = d
    BY <1>7 DEF DeleteUnmark, DeleteDeny, DeleteAt, TrackedHeld, DeleteWorking
  <2>2. \/ \E pc : DeleteGoto(d, pc) /\ UNCHANGED tracked
        \/ DeleteGoto(d, "ending") /\ tracked' = None
    BY <1>7 DEF DeleteUnmark, DeleteDeny, DeleteSkip
  <2> QED BY <1>0, <2>1, <2>2, Gotos DEF DeleteWorking
<1>8. CASE DeleteDisable(d) \/ DeleteDrain(d) \/ DeleteCheck(d) \/ DeleteLock(d) \/ DeleteRefused(d)
           \/ DeleteTouch(d)
  <2>1. PICK pc : DeleteGoto(d, pc) /\ pc \notin {"unlinked", "unmarked", "denied"} /\ UNCHANGED tracked
    BY <1>8 DEF DeleteDisable, DeleteDrain, DeleteCheck, DeleteLock, DeleteRefused, DeleteTouch,
                DeleteSkip
  <2> QED BY <1>0, <2>1, Gotos DEF DeleteWorking
<1> QED BY <1>1, <1>2, <1>4, <1>5, <1>6, <1>7, <1>8 DEF Delete

(* tracked_keys keeps one holder.                                          *)
LEMMA TrackedStep == ASSUME KLInv, [Next]_klVars PROVE TrackedHeld'
<1>0. KLTypeOK /\ TrackedHeld
  BY DEF KLInv
<1>1. CASE Import
  BY <1>0, <1>1, ImportLocks, RequestAssumption DEF TrackedHeld, DeleteWorking
<1>2. ASSUME NEW d \in Deletes, Delete(d) PROVE TrackedHeld'
  BY <1>0, <1>2, DeleteLocks, RequestAssumption DEF TrackedHeld, DeleteWorking, ImportWorking
<1>3. CASE Crash
  BY <1>3 DEF Crash, TrackedHeld, ImportWorking, DeleteWorking, NoImport, NoDelete
<1>4. CASE Refresh \/ Task \/ Boot \/ UNCHANGED klVars
  <2>1. UNCHANGED <<tracked, imp, del>>
    BY <1>4 DEF Refresh, ProviderAdds, RefreshStart,
         RefreshPublish, RefreshRow, RefreshRecheck, RefreshRevoke, RefreshRegister,
         RefreshKeeps, Task, FinishEnable, MonitorDetect, MonitorDisable, MonitorNotify,
         WindowPasses, RecordCompletedImports, StoreStep, Boot, klVars, actorVars
  <2> QED BY <1>0, <2>1 DEF TrackedHeld, ImportWorking, DeleteWorking
<1> QED BY <1>1, <1>2, <1>3, <1>4 DEF Next

(* A process that is down takes no step but Boot; others change files only.*)
LEMMA DownStep == ASSUME KLInv, [Next]_klVars PROVE DownIsBlank'
<1>0. KLTypeOK /\ DownIsBlank
  BY DEF KLInv
<1>1. CASE Boot
  BY <1>1 DEF Boot, DownIsBlank
<1>2. CASE Crash
  BY <1>2 DEF Crash, DownIsBlank
<1>3. CASE up /\ ~Crash /\ ~Boot
  <2>1. UNCHANGED up
    BY <1>3 DEF Next, Import, ImportStage, ImportDuplicate, ImportHold, ImportRename, ImportMark,
         ImportAdmitHold, ImportPublish, ImportRegister, ImportClearDenylist, ImportReadmit,
         OnImport, ImportDisconnect, ImportUnpublish, ImportDiscard, ImportDeny,
         ImportFinishRollback, ImportLateDuplicate, ImportLateUnmark, ImportListener, ImportKeeps,
         Delete, DeleteSnapshot, DeleteDisable, DeleteDrain, DeleteCheck, DeleteLock,
         DeleteRefused, DeleteAbsent, DeleteUnlink, DeleteUnmark, DeleteDeny, DeleteForget,
         DeleteTouch, DeleteEnd, DeleteKeeps, Refresh, ProviderAdds, RefreshStart,
         RefreshPublish, RefreshRow, RefreshRecheck, RefreshRevoke, RefreshRegister,
         RefreshKeeps, Task, FinishEnable, MonitorDetect, MonitorDisable,
         MonitorNotify, WindowPasses, RecordCompletedImports, StoreStep, klVars, actorVars
  <2> QED BY <1>3, <2>1 DEF DownIsBlank
<1>4. CASE ~up /\ ~Boot
  <2>1. /\ row = "Absent" /\ mem = Blank /\ imp.pc = "idle" /\ ref.pc = "idle" /\ monitor = "idle"
        /\ \A d \in Deletes : del[d].pc = "idle"
        /\ ~mem.enabler /\ mem.window = "Unmonitored"
    BY <1>0, <1>4 DEF DownIsBlank, NoImport, NoRefresh, NoDelete, Blank
  <2>2. ~Import /\ ~Crash /\ \A d \in Deletes : ~Delete(d)
    BY <1>4, <2>1 DEF Import, ImportStage, ImportDuplicate, ImportHold, ImportRename, ImportMark,
         ImportAdmitHold, ImportPublish, ImportRegister, ImportClearDenylist, ImportReadmit,
         OnImport, ImportDisconnect, ImportUnpublish, ImportDiscard, ImportDeny,
         ImportFinishRollback, ImportLateDuplicate, ImportLateUnmark, ImportListener, ImportAt,
         Delete, DeleteSnapshot, DeleteDisable, DeleteDrain, DeleteCheck, DeleteLock,
         DeleteRefused, DeleteAbsent, DeleteUnlink, DeleteUnmark, DeleteDeny, DeleteForget,
         DeleteTouch, DeleteEnd, DeleteAt, Crash
  <2>3. UNCHANGED <<up, row, mem, tracked, imp, del, ref, monitor>>
    BY <1>4, <2>1, <2>2 DEF Next, Refresh, ProviderAdds, RefreshStart,
         RefreshPublish, RefreshRow, RefreshRecheck, RefreshRevoke, RefreshRegister,
         RefreshKeeps, Task, FinishEnable, MonitorDetect, MonitorDisable,
         MonitorNotify, WindowPasses, RecordCompletedImports, StoreStep, Elapse, AfterDeadline,
         klVars, storeVars, actorVars
  <2> QED BY <1>0, <2>3 DEF DownIsBlank
<1> QED BY <1>1, <1>2, <1>3, <1>4

-----------------------------------------------------------------------------
(* The denylist.                                                           *)

(* What the updates of memory and disk do to the entries a DELETE and a    *)
(* start look at.                                                          *)
LEMMA KeyFields ==
    ASSUME KLTypeOK
    PROVE  /\ Published(mem).denied = mem.denied
           /\ Unpublished(mem).denied = mem.denied /\ ~Unpublished(mem).signer
           /\ \A b : /\ [mem EXCEPT !.denied = b].denied = b
                     /\ [mem EXCEPT !.denied = b].signer = mem.signer
                     /\ [disk EXCEPT !.denied = b].denied = b
           /\ \A b : LET m == [mem EXCEPT !.enabler = b] IN m.denied = mem.denied /\ m.signer = mem.signer
           /\ \A b : LET m == [mem EXCEPT !.quiesced = b] IN m.denied = mem.denied /\ m.signer = mem.signer
           /\ \A b : LET m == [mem EXCEPT !.known = b] IN m.denied = mem.denied /\ m.signer = mem.signer
           /\ \A w : LET m == [mem EXCEPT !.window = w] IN m.denied = mem.denied /\ m.signer = mem.signer
           /\ \A w, b : LET m == [mem EXCEPT !.window = w, !.enabler = b]
                        IN  m.denied = mem.denied /\ m.signer = mem.signer
           /\ \A w, b : LET m == [mem EXCEPT !.enabler = b, !.window = w]
                        IN  m.denied = mem.denied /\ m.signer = mem.signer
           /\ LET m == [mem EXCEPT !.signer = FALSE, !.mapped = FALSE, !.known = FALSE]
              IN  m.denied = mem.denied /\ ~m.signer
           /\ \A b : /\ [disk EXCEPT !.keystore = b].denied = disk.denied
                     /\ [disk EXCEPT !.secret = b].denied = disk.denied
                     /\ [disk EXCEPT !.sidecars = b].denied = disk.denied
<1>0. mem \in Mems /\ disk \in Disks
  BY TypedParts
<1>1. /\ Published(mem).denied = mem.denied
      /\ Unpublished(mem).denied = mem.denied /\ ~Unpublished(mem).signer
  BY <1>0 DEF Mems, Published, Unpublished
<1>2. ASSUME NEW b
      PROVE  /\ [mem EXCEPT !.denied = b].denied = b
             /\ [mem EXCEPT !.denied = b].signer = mem.signer
             /\ [disk EXCEPT !.denied = b].denied = b
             /\ [mem EXCEPT !.enabler = b].denied = mem.denied
             /\ [mem EXCEPT !.enabler = b].signer = mem.signer
             /\ [mem EXCEPT !.quiesced = b].denied = mem.denied
             /\ [mem EXCEPT !.quiesced = b].signer = mem.signer
             /\ [mem EXCEPT !.known = b].denied = mem.denied
             /\ [mem EXCEPT !.known = b].signer = mem.signer
             /\ [mem EXCEPT !.window = b].denied = mem.denied
             /\ [mem EXCEPT !.window = b].signer = mem.signer
             /\ [disk EXCEPT !.keystore = b].denied = disk.denied
             /\ [disk EXCEPT !.secret = b].denied = disk.denied
             /\ [disk EXCEPT !.sidecars = b].denied = disk.denied
  BY <1>0 DEF Mems, Disks
<1>3. ASSUME NEW w, NEW b
      PROVE  /\ [mem EXCEPT !.window = w, !.enabler = b].denied = mem.denied
             /\ [mem EXCEPT !.window = w, !.enabler = b].signer = mem.signer
             /\ [mem EXCEPT !.enabler = b, !.window = w].denied = mem.denied
             /\ [mem EXCEPT !.enabler = b, !.window = w].signer = mem.signer
  BY <1>0 DEF Mems
<1>4. /\ [mem EXCEPT !.signer = FALSE, !.mapped = FALSE, !.known = FALSE].denied = mem.denied
      /\ ~[mem EXCEPT !.signer = FALSE, !.mapped = FALSE, !.known = FALSE].signer
  BY <1>0 DEF Mems
<1> QED BY <1>1, <1>2, <1>3, <1>4

(* The steps that touch the denylist, or read it at a start.               *)
TouchesList == \/ ImportClearDenylist \/ ImportDeny \/ Crash \/ Boot
               \/ \E d \in Deletes : DeleteAbsent(d) \/ DeleteDeny(d)

(* Every other step leaves it alone; a key is loaded by an import or a     *)
(* refresh that publishes it, and by nothing else.                         *)
LEMMA QuietSteps ==
    ASSUME KLTypeOK, [Next]_klVars, ~TouchesList
    PROVE  /\ mem'.denied = mem.denied /\ disk'.denied = disk.denied
           /\ mem'.signer => mem.signer \/ ImportPublish \/ RefreshPublish
<1>0. ASSUME NEW b, mem' = [mem EXCEPT !.enabler = b]
      PROVE  mem'.denied = mem.denied /\ mem'.signer = mem.signer
  BY <1>0, KeyFields
<1>1. CASE \/ ImportStage \/ ImportDuplicate \/ ImportHold \/ ImportRename
           \/ ImportMark \/ ImportAdmitHold \/ ImportDiscard \/ ImportFinishRollback
           \/ ImportLateDuplicate \/ ImportLateUnmark \/ ImportDisconnect
  <2>1. UNCHANGED mem
    BY <1>1 DEF ImportStage, ImportDuplicate, ImportHold, ImportRename, ImportMark, ImportAdmitHold,
         ImportDiscard, ImportFinishRollback, ImportLateDuplicate, ImportLateUnmark, ImportDisconnect
  <2>2. \/ UNCHANGED disk \/ (\E b : disk' = [disk EXCEPT !.keystore = b])
        \/ \E m : disk' = [disk EXCEPT !.sidecars = m]
    BY <1>1 DEF ImportStage, ImportDuplicate, ImportHold, ImportRename, ImportMark, ImportAdmitHold,
         ImportDiscard, ImportFinishRollback, ImportLateDuplicate, ImportLateUnmark,
         ImportDisconnect, UnlinkMarker, UnlinkKeystore, Marked
  <2> QED BY <2>1, <2>2, KeyFields
<1>2. CASE ImportPublish
  BY <1>2, KeyFields DEF ImportPublish
<1>3. CASE ImportRegister
  BY <1>3, KeyFields DEF ImportRegister
<1>4. CASE ImportReadmit
  BY <1>4, KeyFields DEF ImportReadmit
<1>5. CASE OnImport
  BY <1>5, KeyFields DEF OnImport
<1>6. CASE ImportUnpublish
  BY <1>6, KeyFields DEF ImportUnpublish
<1>7. CASE ImportListener
  BY <1>7, KeyFields DEF ImportListener
<1>8. CASE Import
  BY <1>1, <1>2, <1>3, <1>4, <1>5, <1>6, <1>7, <1>8 DEF Import, TouchesList
<1>9. ASSUME NEW d \in Deletes, Delete(d)
      PROVE  /\ mem'.denied = mem.denied /\ disk'.denied = disk.denied
             /\ mem'.signer => mem.signer \/ ImportPublish \/ RefreshPublish
  <2>1. CASE DeleteSnapshot(d) \/ DeleteCheck(d) \/ DeleteLock(d) \/ DeleteEnd(d) \/ DeleteUnmark(d)
    BY <2>1, KeyFields DEF DeleteSnapshot, DeleteCheck, DeleteLock, DeleteEnd, DeleteUnmark
  <2>2. CASE DeleteDisable(d)
    <3>1. UNCHANGED disk /\ (UNCHANGED mem \/ \E b : mem' = [mem EXCEPT !.enabler = b])
      BY <2>2 DEF DeleteDisable
    <3> QED BY <1>0, <3>1
  <2>3. CASE DeleteDrain(d)
    BY <2>3, KeyFields DEF DeleteDrain
  <2>4. CASE DeleteRefused(d) \/ DeleteUnlink(d)
    <3>1. UNCHANGED mem \/ \E b : mem' = [mem EXCEPT !.enabler = b]
      BY <2>4 DEF DeleteRefused, DeleteUnlink, DeleteSkip
    <3>2. UNCHANGED disk \/ \E b : disk' = [disk EXCEPT !.keystore = b]
      BY <2>4 DEF DeleteRefused, DeleteUnlink, UnlinkKeystore
    <3>3. disk'.denied = disk.denied
      BY <3>2, KeyFields
    <3> QED BY <1>0, <3>1, <3>3
  <2>5. CASE DeleteForget(d)
    BY <2>5, KeyFields DEF DeleteForget
  <2>6. CASE DeleteTouch(d)
    <3>1. UNCHANGED disk /\ \E w : mem' = [mem EXCEPT !.enabler = FALSE, !.window = w]
      BY <2>6 DEF DeleteTouch
    <3> QED BY <3>1, KeyFields
  <2> QED BY <1>9, <2>1, <2>2, <2>3, <2>4, <2>5, <2>6 DEF Delete, TouchesList
<1>10. CASE Refresh
  <2>1. CASE ProviderAdds
    BY <2>1, KeyFields DEF ProviderAdds
  <2>2. CASE RefreshStart
    BY <2>2, KeyFields DEF RefreshStart
  <2>3. CASE RefreshPublish
    BY <2>3, KeyFields DEF RefreshPublish
  <2>4. CASE RefreshRow
    BY <2>4, KeyFields DEF RefreshRow
  <2>5. CASE RefreshRecheck
    BY <2>5, KeyFields DEF RefreshRecheck
  <2>6. CASE RefreshRevoke
    BY <2>6 DEF RefreshRevoke
  <2>7. CASE RefreshRegister
    BY <2>7, KeyFields DEF RefreshRegister
  <2> QED BY <1>10, <2>1, <2>2, <2>3, <2>4, <2>5, <2>6, <2>7 DEF Refresh
<1>11. CASE Task
  <2>1. CASE FinishEnable
    <3>1. UNCHANGED disk /\ \E b : mem' = [mem EXCEPT !.enabler = b]
      BY <2>1 DEF FinishEnable
    <3> QED BY <3>1, KeyFields
  <2>2. CASE MonitorNotify \/ WindowPasses
    <3>1. UNCHANGED disk
      BY <2>2 DEF MonitorNotify, WindowPasses
    <3>2. (\E b : mem' = [mem EXCEPT !.enabler = b]) \/ \E w : mem' = [mem EXCEPT !.window = w]
      BY <2>2 DEF MonitorNotify, WindowPasses
    <3>3. ASSUME NEW w, mem' = [mem EXCEPT !.window = w]
          PROVE  mem'.denied = mem.denied /\ mem'.signer = mem.signer
      BY <3>3, KeyFields
    <3> QED BY <1>0, <3>1, <3>2, <3>3
  <2>3. CASE RecordCompletedImports
    BY <2>3, KeyFields DEF RecordCompletedImports
  <2>4. CASE MonitorDetect \/ MonitorDisable \/ StoreStep
    BY <2>4 DEF MonitorDetect, MonitorDisable, StoreStep
  <2> QED BY <1>11, <2>1, <2>2, <2>3, <2>4 DEF Task
<1>12. CASE UNCHANGED klVars
  BY <1>12 DEF klVars
<1> QED BY <1>8, <1>9, <1>10, <1>11, <1>12 DEF Next, TouchesList

(* The denylist in memory is on disk, unless a rewrite failed half way.    *)
LEMMA DurableStep == ASSUME KLInv, [Next]_klVars PROVE DenylistDurable'
<1>0. KLTypeOK /\ DenylistDurable
  BY DEF KLInv
<1>1. ASSUME NEW ok, DenylistInsert(ok), UNCHANGED excepted PROVE DenylistDurable'
  BY <1>0, <1>1, KeyFields DEF DenylistInsert, DenylistDurable
<1>2. CASE ImportClearDenylist
  <2>1. CASE DenylistRemove(TRUE)
    <3>1. PICK b : b = FALSE /\ mem' = [mem EXCEPT !.denied = b]
      BY <2>1 DEF DenylistRemove
    <3>2. ~mem'.denied
      BY <3>1, KeyFields
    <3> QED BY <3>2 DEF DenylistDurable
  <2>2. CASE DenylistRemove(FALSE)
    BY <1>0, <2>2 DEF DenylistRemove, DenylistDurable
  <2> QED BY <1>2, <2>1, <2>2 DEF ImportClearDenylist
<1>3. CASE ImportDeny
  BY <1>0, <1>1, <1>3 DEF ImportDeny, historyVars, DenylistDurable
<1>4. ASSUME NEW d \in Deletes, DeleteAbsent(d) \/ DeleteDeny(d) PROVE DenylistDurable'
  <2>1. CASE DenylistInsert(TRUE)
    BY <1>1, <1>4, <2>1 DEF DeleteAbsent, DeleteDeny, historyVars
  <2>2. CASE ~mem.denied /\ DeleteSkip(d, mem)
    BY <2>2, KeyFields DEF DeleteSkip, DenylistDurable
  <2> QED BY <1>4, <2>1, <2>2 DEF DeleteAbsent, DeleteDeny
<1>5. CASE Crash
  BY <1>5 DEF Crash, Blank, DenylistDurable
<1>6. CASE Boot
  <2>1. mem'.denied = disk.denied /\ UNCHANGED disk
    BY <1>6 DEF Boot, Blank
  <2> QED BY <2>1 DEF DenylistDurable
<1>7. CASE ~TouchesList
  <2>1. excepted => excepted'
    BY <1>7 DEF TouchesList, Next, Import, ImportStage, ImportDuplicate, ImportHold, ImportRename,
         ImportMark, ImportAdmitHold, ImportPublish, ImportRegister, ImportReadmit,
         OnImport, ImportDisconnect, ImportUnpublish, ImportDiscard,
         ImportFinishRollback, ImportLateDuplicate, ImportLateUnmark, ImportListener,
         Delete, DeleteSnapshot, DeleteDisable, DeleteDrain, DeleteCheck, DeleteLock,
         DeleteRefused, DeleteUnlink, DeleteUnmark, DeleteForget,
         DeleteTouch, DeleteEnd, Refresh, ProviderAdds, RefreshStart,
         RefreshPublish, RefreshRow, RefreshRecheck, RefreshRevoke, RefreshRegister,
         Task, FinishEnable, MonitorDetect, MonitorDisable,
         MonitorNotify, WindowPasses, RecordCompletedImports, StoreStep, klVars, historyVars
  <2> QED BY <1>0, <1>7, <2>1, QuietSteps DEF DenylistDurable
<1> QED BY <1>2, <1>3, <1>4, <1>5, <1>6, <1>7 DEF TouchesList

(* gone is only set by the two steps that make a DELETE take effect, and   *)
(* excepted is never reset.                                                *)
LEMMA GoneSteps ==
    ASSUME [Next]_klVars
    PROVE  /\ \/ UNCHANGED gone \/ ImportPublish
              \/ \E d \in Deletes : DeleteAbsent(d) \/ DeleteForget(d)
           /\ excepted => excepted'
<1>1. CASE Import
  <2>1. UNCHANGED <<gone, excepted>> \/ ImportPublish \/ ImportClearDenylist
    BY <1>1 DEF Import, ImportStage, ImportDuplicate, ImportHold, ImportRename,
         ImportMark, ImportAdmitHold, ImportRegister, ImportReadmit,
         OnImport, ImportDisconnect, ImportUnpublish, ImportDiscard, ImportDeny,
         ImportFinishRollback, ImportLateDuplicate, ImportLateUnmark, ImportListener, historyVars
  <2>2. CASE ImportPublish
    BY <2>2 DEF ImportPublish
  <2>3. CASE ImportClearDenylist
    <3>1. UNCHANGED gone
      BY <2>3 DEF ImportClearDenylist
    <3>2. UNCHANGED excepted \/ excepted' = (excepted \/ disk.denied # disk'.denied)
      BY <2>3, Zenon DEF ImportClearDenylist, DenylistRemove
    <3>3. excepted => excepted'
      BY <3>2
    <3> QED BY <3>1, <3>3
  <2> QED BY <2>1, <2>2, <2>3
<1>2. ASSUME NEW d \in Deletes, Delete(d)
      PROVE  (UNCHANGED gone \/ DeleteAbsent(d) \/ DeleteForget(d)) /\ UNCHANGED excepted
  BY <1>2 DEF Delete, DeleteSnapshot, DeleteDisable, DeleteDrain, DeleteCheck, DeleteLock,
         DeleteRefused, DeleteUnlink, DeleteUnmark, DeleteDeny, DeleteTouch, DeleteEnd,
         DeleteAbsent, DeleteForget, historyVars
<1>3. CASE Refresh \/ Task \/ Crash \/ Boot \/ UNCHANGED klVars
  <2>1. CASE RefreshRecheck
    <3>1. UNCHANGED gone
      BY <2>1 DEF RefreshRecheck
    <3>2. UNCHANGED excepted \/ excepted' = (excepted \/ ~gone)
      BY <2>1, Zenon DEF RefreshRecheck
    <3>3. excepted => excepted'
      BY <3>2
    <3> QED BY <3>1, <3>3
  <2>2. UNCHANGED <<gone, excepted>> \/ RefreshRecheck
    BY <1>3 DEF Refresh, ProviderAdds, RefreshStart,
         RefreshPublish, RefreshRow, RefreshRevoke, RefreshRegister,
         Task, FinishEnable, MonitorDetect, MonitorDisable, MonitorNotify, WindowPasses,
         RecordCompletedImports, StoreStep, Crash, Boot, klVars, historyVars
  <2> QED BY <2>1, <2>2
<1> QED BY <1>1, <1>2, <1>3 DEF Next

(* An import that has published the key, and not yet cleared the list, has *)
(* ended the deletion; no DELETE takes effect while it holds tracked_keys. *)
LEMMA ClearingStep == ASSUME KLInv, [Next]_klVars PROVE ClearingIsPresent'
<1>0. KLTypeOK /\ TrackedHeld /\ ClearingIsPresent
  BY DEF KLInv
<1>1. CASE ImportPublish
  BY <1>1 DEF ImportPublish, ClearingIsPresent
<1>2. CASE ImportRegister
  BY <1>0, <1>2 DEF ImportRegister, ClearingIsPresent, ImportAt, historyVars
<1>3. CASE Import /\ ~ImportPublish /\ ~ImportRegister
  <2>1. CASE ImportHold \/ ImportUnpublish \/ ImportLateUnmark
    <3>1. imp \in Imports
      BY <1>0, TypedParts
    <3>2. CASE ImportHold
      <4>1. PICK pc \in {"discard", "held"} :
               \E b : imp' = [imp EXCEPT !.pc = pc, !.inserted = b]
        BY <3>2 DEF ImportHold
      <4> QED BY <3>1, <4>1 DEF Imports, ClearingIsPresent
    <3>3. CASE ImportUnpublish
      <4>1. imp'.pc = "discard"
        BY <3>1, <3>3 DEF ImportUnpublish, Imports
      <4> QED BY <4>1 DEF ClearingIsPresent
    <3>4. CASE ImportLateUnmark
      <4>1. CASE imp' = NoImport
        BY <1>0, <4>1, Gotos DEF ClearingIsPresent
      <4>2. CASE imp' = [imp EXCEPT !.pc = "finish", !.stuck = TRUE]
        BY <3>1, <4>2 DEF Imports, ClearingIsPresent
      <4> QED BY <3>4, <4>1, <4>2 DEF ImportLateUnmark, ImportLateEnd, ImportReturn
    <3> QED BY <2>1, <3>2, <3>3, <3>4
  <2>2. CASE ImportClearDenylist \/ ImportReadmit \/ OnImport \/ ImportDisconnect \/ ImportListener
             \/ ImportDeny \/ ImportFinishRollback
    <3>1. imp'.pc \in {"cleared", "returned", "idle", "finish", "listener"}
      BY <1>0, <2>2, Gotos DEF ImportClearDenylist, ImportReadmit, OnImport, ImportDisconnect,
           ImportListener, ImportDeny, ImportFinishRollback, ImportReturn, Tombstone
    <3> QED BY <3>1 DEF ClearingIsPresent
  <2>3. CASE ImportStage \/ ImportDuplicate \/ ImportRename \/ ImportMark \/ ImportAdmitHold
             \/ ImportDiscard \/ ImportLateDuplicate
    <3>1. imp'.pc \in {"staged", "discard", "idle", "renamed", "rollback", "published", "armed",
                       "unlink", "unmark", "deny", "duplicate"}
      BY <1>0, <2>3, Gotos DEF ImportStage, ImportDuplicate, ImportRename, ImportMark,
           ImportAdmitHold, ImportDiscard, ImportLateDuplicate, ImportReturn, PublishFailed
    <3> QED BY <3>1 DEF ClearingIsPresent
  <2> QED BY <1>3, <2>1, <2>2, <2>3 DEF Import
<1>4. ASSUME NEW d \in Deletes, Delete(d) PROVE ClearingIsPresent'
  <2>1. UNCHANGED imp
    BY <1>0, <1>4, DeleteLocks
  <2>2. CASE DeleteAbsent(d) \/ DeleteForget(d)
    <3>1. tracked # "import"
      BY <1>0, <2>2, RequestAssumption
         DEF DeleteAbsent, DeleteForget, DeleteAt, TrackedHeld, DeleteWorking
    <3> QED BY <1>0, <2>1, <3>1 DEF ClearingIsPresent, TrackedHeld, ImportWorking
  <2>3. UNCHANGED gone \/ DeleteAbsent(d) \/ DeleteForget(d)
    BY <1>4 DEF Delete, DeleteSnapshot, DeleteDisable, DeleteDrain, DeleteCheck, DeleteLock,
         DeleteRefused, DeleteUnlink, DeleteUnmark, DeleteDeny, DeleteTouch, DeleteEnd, historyVars
  <2> QED BY <1>0, <2>1, <2>2, <2>3 DEF ClearingIsPresent
<1>5. CASE Crash
  BY <1>5 DEF Crash, NoImport, ClearingIsPresent
<1>6. CASE Refresh \/ Task \/ Boot \/ UNCHANGED klVars
  <2>1. UNCHANGED <<imp, gone>>
    BY <1>6 DEF Refresh, ProviderAdds, RefreshStart,
         RefreshPublish, RefreshRow, RefreshRecheck, RefreshRevoke, RefreshRegister, RefreshKeeps,
         Task, FinishEnable, MonitorDetect, MonitorDisable, MonitorNotify, WindowPasses,
         RecordCompletedImports, StoreStep, Boot, klVars, historyVars, actorVars
  <2> QED BY <1>0, <2>1 DEF ClearingIsPresent
<1> QED BY <1>1, <1>2, <1>3, <1>4, <1>5, <1>6 DEF Next

(* The entry of memory's denylist survives every step but an import's      *)
(* clearing, a crash and a start.                                          *)
LEMMA DeniedKept ==
    ASSUME KLTypeOK, [Next]_klVars, ~ImportClearDenylist, ~Crash, ~Boot
    PROVE  /\ mem.denied => mem'.denied
           /\ disk.denied => disk'.denied
<1>1. CASE ~TouchesList
  BY <1>1, QuietSteps
<1>20. ASSUME NEW line \in {TRUE, disk.denied}, disk' = [disk EXCEPT !.denied = line]
       PROVE  disk.denied => disk'.denied
  <2>1. disk'.denied = line
    BY <1>20, KeyFields
  <2> QED BY <1>20, <2>1
<1>2. ASSUME NEW ok, DenylistInsert(ok)
      PROVE  (mem.denied => mem'.denied) /\ (disk.denied => disk'.denied)
  <2>1. CASE ok
    <3>1. PICK b, c : /\ b = TRUE /\ mem' = [mem EXCEPT !.denied = b]
                      /\ c = (mem.denied => disk.denied) /\ disk' = [disk EXCEPT !.denied = c]
      BY <1>2, <2>1 DEF DenylistInsert
    <3> QED BY <3>1, KeyFields
  <2>2. CASE ~ok
    BY <1>2, <1>20, <2>2 DEF DenylistInsert
  <2> QED BY <2>1, <2>2
<1>3. CASE ImportDeny
  BY <1>2, <1>3 DEF ImportDeny
<1>4. ASSUME NEW d \in Deletes, DeleteAbsent(d) \/ DeleteDeny(d)
      PROVE  (mem.denied => mem'.denied) /\ (disk.denied => disk'.denied)
  <2>1. CASE ~mem.denied /\ \E line \in {TRUE, disk.denied} : disk' = [disk EXCEPT !.denied = line]
    BY <1>20, <2>1
  <2> QED BY <1>2, <1>4, <2>1 DEF DeleteAbsent, DeleteDeny
<1> QED BY <1>1, <1>3, <1>4 DEF TouchesList

(* Inserting a key puts it on the list in memory.                          *)
LEMMA InsertDenies == ASSUME KLTypeOK, DenylistInsert(TRUE) PROVE mem'.denied /\ mem'.signer = mem.signer
<1>1. PICK b : b = TRUE /\ mem' = [mem EXCEPT !.denied = b]
  BY DEF DenylistInsert
<1> QED BY <1>1, KeyFields

(* A DELETE that has written its denylist entry keeps it until it forgets  *)
(* the key.                                                                *)
LEMMA ForgettingStep == ASSUME KLInv, [Next]_klVars PROVE ForgettingIsDenied'
<1>0. KLTypeOK /\ TrackedHeld /\ ForgettingIsDenied /\ DownIsBlank
  BY DEF KLInv
<1>1. SUFFICES ASSUME NEW d \in Deletes, del'[d].pc = "denied" PROVE mem'.denied
  BY DEF ForgettingIsDenied
<1>2. CASE DeleteDeny(d)
  <2>1. CASE DenylistInsert(TRUE)
    BY <1>0, <2>1, InsertDenies
  <2>2. CASE DeleteSkip(d, mem)
    BY <1>0, <1>1, <2>2, Gotos DEF DeleteSkip
  <2> QED BY <1>2, <2>1, <2>2 DEF DeleteDeny
<1>3. CASE ~DeleteDeny(d) /\ ~Crash
  <2>1. del[d].pc = "denied"
    <3>1. CASE \E e \in Deletes \ {d} : Delete(e)
      BY <1>0, <1>1, <3>1, DeleteLocks
    <3>2. CASE Delete(d)
      <4>1. del \in [Deletes -> DeleteRecords]
        BY <1>0, TypedParts
      <4>2. CASE DeleteSnapshot(d)
        <5>1. PICK r : r = [del[d] EXCEPT !.pc = "snapped", !.member = mem.signer]
          OBVIOUS
        <5>2. r.pc = "snapped" /\ del' = [del EXCEPT ![d] = r]
          BY <4>1, <4>2, <5>1 DEF DeleteSnapshot, DeleteRecords
        <5> QED BY <1>1, <4>1, <5>2
      <4>3. CASE DeleteEnd(d)
        BY <1>1, <4>1, <4>3 DEF DeleteEnd, NoDelete
      <4>4. CASE \E b : del' = [del EXCEPT ![d] = [@ EXCEPT !.pc = "touch", !.present = b]]
        <5>1. PICK b : del' = [del EXCEPT ![d] = [@ EXCEPT !.pc = "touch", !.present = b]]
          BY <4>4
        <5>2. PICK r : r = [del[d] EXCEPT !.pc = "touch", !.present = b]
          OBVIOUS
        <5>3. r.pc = "touch" /\ del' = [del EXCEPT ![d] = r]
          BY <4>1, <5>1, <5>2 DEF DeleteRecords
        <5> QED BY <1>1, <4>1, <5>3
      <4>5. CASE \E pc : pc # "denied" /\ DeleteGoto(d, pc)
        BY <1>0, <1>1, <4>5, Gotos
      <4> QED BY <1>3, <3>2, <4>2, <4>3, <4>4, <4>5
             DEF Delete, DeleteDisable, DeleteDrain, DeleteCheck, DeleteLock, DeleteRefused,
                 DeleteAbsent, DeleteUnlink, DeleteUnmark, DeleteForget, DeleteTouch, DeleteSkip
    <3>3. CASE Import
      BY <1>0, <1>1, <3>3, ImportLocks
    <3>4. CASE Refresh \/ Task \/ Boot \/ UNCHANGED klVars
      <4>1. UNCHANGED del
        BY <3>4 DEF Refresh, ProviderAdds, RefreshStart,
           RefreshPublish, RefreshRow, RefreshRecheck, RefreshRevoke, RefreshRegister, RefreshKeeps,
           Task, FinishEnable, MonitorDetect, MonitorDisable, MonitorNotify, WindowPasses,
           RecordCompletedImports, StoreStep, Boot, klVars, actorVars
      <4> QED BY <1>1, <4>1
    <3> QED BY <1>3, <3>1, <3>2, <3>3, <3>4 DEF Next
  <2>2. mem.denied /\ tracked = d
    BY <1>0, <2>1 DEF ForgettingIsDenied, TrackedHeld, DeleteWorking
  <2>3. ~ImportClearDenylist
    BY <1>0, <2>2, RequestAssumption DEF ImportClearDenylist, ImportAt, TrackedHeld, ImportWorking
  <2>4. ~Boot
    <3>1. SUFFICES ASSUME Boot PROVE FALSE
      OBVIOUS
    <3>2. del = [e \in Deletes |-> NoDelete]
      BY <1>0, <3>1 DEF Boot, DownIsBlank
    <3>3. del[d].pc = "idle"
      BY <3>2 DEF NoDelete
    <3> QED BY <2>1, <3>3
  <2> QED BY <1>0, <1>3, <2>2, <2>3, <2>4, DeniedKept
<1>4. CASE Crash
  BY <1>1, <1>4 DEF Crash, NoDelete
<1> QED BY <1>2, <1>3, <1>4

(* No step loads the key but an import or refresh that publishes it, and a *)
(* start; only a refresh moves the refresh task.                           *)
LEMMA SignerSteps ==
    ASSUME KLTypeOK, [Next]_klVars, ~Boot
    PROVE  /\ mem'.signer => mem.signer \/ ImportPublish \/ RefreshPublish
           /\ up' => up
           /\ UNCHANGED ref \/ Refresh \/ Crash
<1>0. ASSUME NEW b, mem' = [mem EXCEPT !.denied = b] PROVE mem'.signer = mem.signer
  BY <1>0, KeyFields
<1>1. ASSUME NEW ok, DenylistInsert(ok) PROVE mem'.signer = mem.signer
  <2>1. UNCHANGED mem \/ \E b : mem' = [mem EXCEPT !.denied = b]
    BY <1>1 DEF DenylistInsert
  <2> QED BY <1>0, <2>1
<1>2. ASSUME NEW ok, DenylistRemove(ok) PROVE mem'.signer = mem.signer
  <2>1. UNCHANGED mem \/ \E b : mem' = [mem EXCEPT !.denied = b]
    BY <1>2 DEF DenylistRemove
  <2> QED BY <1>0, <2>1
<1>3. ASSUME NEW d \in Deletes, DeleteAbsent(d) \/ DeleteDeny(d) PROVE mem'.signer = mem.signer
  <2>1. CASE DenylistInsert(TRUE)
    BY <1>1, <2>1
  <2>2. CASE DeleteSkip(d, mem)
    <3>1. PICK b : mem' = [mem EXCEPT !.enabler = b]
      BY <2>2 DEF DeleteSkip
    <3> QED BY <3>1, KeyFields
  <2> QED BY <1>3, <2>1, <2>2 DEF DeleteAbsent, DeleteDeny
<1>7. ASSUME mem'.signer PROVE mem.signer \/ ImportPublish \/ RefreshPublish
  <2>1. CASE ~TouchesList
    BY <1>7, <2>1, QuietSteps
  <2>2. CASE ImportClearDenylist
    BY <1>2, <1>7, <2>2 DEF ImportClearDenylist
  <2>3. CASE ImportDeny
    BY <1>1, <1>7, <2>3 DEF ImportDeny
  <2>4. CASE Crash
    BY <1>7, <2>4 DEF Crash, Blank
  <2>5. CASE \E d \in Deletes : DeleteAbsent(d) \/ DeleteDeny(d)
    BY <1>3, <1>7, <2>5
  <2> QED BY <2>1, <2>2, <2>3, <2>4, <2>5 DEF TouchesList
<1>8. ASSUME Import PROVE UNCHANGED <<up, ref>>
  BY <1>8 DEF Import, ImportStage, ImportDuplicate, ImportHold, ImportRename, ImportMark,
       ImportAdmitHold, ImportPublish, ImportRegister, ImportClearDenylist, ImportReadmit,
       OnImport, ImportDisconnect, ImportUnpublish, ImportDiscard, ImportDeny,
       ImportFinishRollback, ImportLateDuplicate, ImportLateUnmark, ImportListener, ImportKeeps
<1>9. ASSUME NEW d \in Deletes, Delete(d) PROVE UNCHANGED <<up, ref>>
  BY <1>9 DEF Delete, DeleteSnapshot, DeleteDisable, DeleteDrain, DeleteCheck, DeleteLock,
       DeleteRefused, DeleteAbsent, DeleteUnlink, DeleteUnmark, DeleteDeny, DeleteForget,
       DeleteTouch, DeleteEnd, DeleteKeeps
<1>10. ASSUME Refresh PROVE UNCHANGED up
  BY <1>10 DEF Refresh, ProviderAdds, RefreshStart, RefreshPublish, RefreshRow, RefreshRecheck,
       RefreshRevoke, RefreshRegister, RefreshKeeps
<1>11. ASSUME Task \/ UNCHANGED klVars PROVE UNCHANGED <<up, ref>>
  BY <1>11 DEF Task, FinishEnable, MonitorDetect, MonitorDisable, MonitorNotify, WindowPasses,
       RecordCompletedImports, StoreStep, klVars, actorVars
<1>12. ASSUME Crash PROVE up' => up
  BY <1>12 DEF Crash
<1>13. (up' => up) /\ (UNCHANGED ref \/ Refresh \/ Crash)
  BY <1>8, <1>9, <1>10, <1>11, <1>12 DEF Next
<1> QED BY <1>7, <1>13

(* A deleted key is denylisted until an import takes it back.              *)
LEMMA DeletedStep == ASSUME KLInv, [Next]_klVars PROVE DeletedIsDenied'
<1>0. KLTypeOK /\ DeletedIsDenied /\ ClearingIsPresent /\ ForgettingIsDenied /\ DownIsBlank
  BY DEF KLInv
<1>1. SUFFICES ASSUME gone', ~excepted'
               PROVE  /\ disk'.denied
                      /\ up' => mem'.denied
                      /\ mem'.signer => ref'.pc \in {"mapped", "rowed"}
  BY DEF DeletedIsDenied
<1>2. ~excepted
  BY <1>1, GoneSteps
<1>3. mem'.denied => disk'.denied
  BY <1>1, DurableStep DEF DenylistDurable
<1>4. ~ImportPublish
  BY <1>1 DEF ImportPublish
<1>5. CASE \E d \in Deletes : DeleteForget(d)
  <2>1. mem.denied /\ mem' = Unpublished(mem)
    BY <1>0, <1>5 DEF DeleteForget, DeleteAt, ForgettingIsDenied
  <2> QED BY <1>0, <1>3, <2>1, KeyFields
<1>6. ASSUME NEW d \in Deletes, DeleteAbsent(d), DenylistInsert(TRUE)
      PROVE  /\ disk'.denied
             /\ up' => mem'.denied
             /\ mem'.signer => ref'.pc \in {"mapped", "rowed"}
  <2>1. ~mem.signer
    BY <1>6 DEF DeleteAbsent
  <2> QED BY <1>0, <1>3, <1>6, <2>1, InsertDenies
<1>7. CASE gone
  <2>0. disk.denied /\ (up => mem.denied) /\ (mem.signer => ref.pc \in {"mapped", "rowed"})
    BY <1>0, <1>2, <1>7 DEF DeletedIsDenied
  <2>1. ~ImportClearDenylist
    BY <1>0, <1>7 DEF ImportClearDenylist, ImportAt, ClearingIsPresent
  <2>2. CASE Crash
    BY <2>0, <2>2 DEF Crash, Blank
  <2>3. CASE Boot
    <3>1. ~Loaded
      BY <2>0 DEF Loaded
    <3>2. UNCHANGED disk /\ mem'.denied = disk.denied /\ mem'.signer = Loaded
      BY <2>3 DEF Boot, Blank
    <3> QED BY <2>0, <3>1, <3>2
  <2>4. CASE ~Crash /\ ~Boot
    <3>1. disk'.denied /\ (up' => mem'.denied)
      BY <1>0, <2>0, <2>1, <2>4, DeniedKept, SignerSteps
    <3>2. ASSUME mem'.signer PROVE ref'.pc \in {"mapped", "rowed"}
      <4>0. ref \in Refreshes
        BY <1>0, TypedParts
      <4>1. CASE RefreshPublish
        BY <4>0, <4>1 DEF RefreshPublish, RefreshGoto, Refreshes
      <4>2. CASE mem.signer /\ UNCHANGED ref
        BY <2>0, <4>2
      <4>3. CASE mem.signer /\ Refresh
        <5>1. ref.pc \in {"mapped", "rowed"}
          BY <2>0, <4>3
        <5>2. mem.denied
          <6>1. up
            BY <1>0, <5>1 DEF DownIsBlank, NoRefresh
          <6> QED BY <2>0, <6>1
        <5>3. CASE RefreshRow
          <6>1. CASE mem' = [mem EXCEPT !.signer = FALSE, !.mapped = FALSE, !.known = FALSE]
            BY <1>0, <3>2, <6>1, KeyFields
          <6>2. CASE \E b : ref' = [pc |-> "rowed", inserted |-> b]
            BY <6>2
          <6> QED BY <5>3, <6>1, <6>2 DEF RefreshRow
        <5>4. CASE RefreshRecheck
          BY <1>0, <3>2, <5>2, <5>4, KeyFields DEF RefreshRecheck
        <5>5. CASE ProviderAdds
          BY <5>1, <5>5 DEF ProviderAdds
        <5> QED BY <4>1, <4>3, <5>1, <5>3, <5>4, <5>5
               DEF Refresh, RefreshStart, RefreshRevoke, RefreshRegister
      <4> QED BY <1>0, <1>4, <2>4, <3>2, <4>1, <4>2, <4>3, SignerSteps
    <3> QED BY <3>1, <3>2
  <2> QED BY <2>2, <2>3, <2>4
<1>8. ASSUME NEW d \in Deletes, DeleteAbsent(d), ~gone PROVE DenylistInsert(TRUE)
  BY <1>1, <1>8 DEF DeleteAbsent
<1> QED BY <1>1, <1>4, <1>5, <1>6, <1>7, <1>8, GoneSteps

-----------------------------------------------------------------------------
(* The slashing disable.                                                   *)

(* Only a step that also forgets the disable removes a disabled row.       *)
LEMMA RowRemoved ==
    ASSUME [Next]_klVars, ~Crash, ~Boot, row = "Disabled", row' = "Absent"
    PROVE  ForgetRow
<1>1. ASSUME NEW result, NEW ok,
             \/ AddValidatorDurable("Disabled", result) \/ AddValidatorDurable("Enabled", result)
             \/ PersistSigningDisable(ok) \/ DisableSlashed(ok)
             \/ BeginDoppelgangerHold(result) \/ PersistKeystoreHold(result)
             \/ ReleaseDoppelgangerHold(result)
             \/ Elapse \/ SaveConfig \/ UNCHANGED row
      PROVE  FALSE
  BY <1>1 DEF AddValidatorDurable, PersistSigningDisable, DisableSlashed, BeginDoppelgangerHold,
         PersistKeystoreHold, ReleaseDoppelgangerHold, PersistDisabled, Elapse, AfterDeadline,
         SaveConfig, storeVars
<1>2. CASE Import
  BY <1>1, <1>2 DEF Import, ImportStage, ImportDuplicate, ImportHold, ImportRename, ImportMark,
         ImportAdmitHold, ImportPublish, ImportRegister, ImportClearDenylist, ImportReadmit,
         OnImport, ImportDisconnect, ImportUnpublish, ImportDiscard, ImportDeny,
         ImportFinishRollback, ImportLateDuplicate, ImportLateUnmark, ImportListener, storeVars
<1>3. CASE \E d \in Deletes : Delete(d)
  BY <1>1, <1>3 DEF Delete, DeleteSnapshot, DeleteDisable, DeleteDrain, DeleteCheck, DeleteLock,
         DeleteRefused, DeleteAbsent, DeleteUnlink, DeleteUnmark, DeleteDeny, DeleteForget,
         DeleteTouch, DeleteEnd, storeVars
<1>4. CASE Refresh
  BY <1>1, <1>4 DEF Refresh, ProviderAdds, RefreshStart, RefreshPublish, RefreshRow,
         RefreshRecheck, RefreshRevoke, RefreshRegister, storeVars
<1>5. CASE Task \/ UNCHANGED klVars
  BY <1>1, <1>5 DEF Task, FinishEnable, MonitorDetect, MonitorDisable,
         MonitorNotify, WindowPasses, RecordCompletedImports, StoreStep, klVars, storeVars
<1> QED BY <1>2, <1>3, <1>4, <1>5 DEF Next

(* A slashing disable stays in force until its row is removed.             *)
LEMMA SlashedStep == ASSUME KLInv, [Next]_klVars PROVE SlashedIsDisabled'
<1>0. KLTypeOK /\ SlashedIsDisabled /\ DownIsBlank
  BY DEF KLInv
<1>1. SUFFICES ASSUME slashed' PROVE file' \in {"Disabled", "Gone"} /\ (up' => row' = "Disabled")
  BY DEF SlashedIsDisabled
<1>2. CASE Crash
  BY <1>0, <1>1, <1>2 DEF Crash, SlashedIsDisabled, historyVars
<1>3. CASE Boot
  <2>1. slashed /\ file = "Disabled"
    BY <1>0, <1>1, <1>3 DEF Boot, SlashedIsDisabled
  <2> QED BY <1>3, <2>1 DEF Boot, BootRow, ReconcileFails
<1>4. CASE MonitorDisable
  <2>1. PICK ok \in BOOLEAN : DisableSlashed(ok) /\ slashed' = (slashed \/ (ok /\ row # "Absent"))
    BY <1>4 DEF MonitorDisable
  <2>2. CASE slashed
    <3>1. up /\ row = "Disabled" /\ file \in {"Disabled", "Gone"}
      BY <1>0, <1>4, <2>2 DEF MonitorDisable, DownIsBlank, SlashedIsDisabled
    <3>2. row \notin HoldRows
      BY <3>1 DEF HoldRows
    <3> QED BY <2>1, <3>1, <3>2 DEF DisableSlashed, PersistDisabled
  <2>3. CASE ok /\ row # "Absent"
    BY <2>1, <2>3 DEF DisableSlashed, PersistDisabled
  <2> QED BY <1>1, <2>1, <2>2, <2>3
<1>5. CASE ~Crash /\ ~Boot /\ ~MonitorDisable
  <2>1. slashed' = slashed \/ ForgetRow
    BY <1>5 DEF Next, Import, ImportStage, ImportDuplicate, ImportHold, ImportRename, ImportMark,
         ImportAdmitHold, ImportPublish, ImportRegister, ImportClearDenylist, ImportReadmit,
         OnImport, ImportDisconnect, ImportUnpublish, ImportDiscard, ImportDeny,
         ImportFinishRollback, ImportLateDuplicate, ImportLateUnmark, ImportListener,
         Delete, DeleteSnapshot, DeleteDisable, DeleteDrain, DeleteCheck, DeleteLock,
         DeleteRefused, DeleteAbsent, DeleteUnlink, DeleteUnmark, DeleteDeny, DeleteForget,
         DeleteTouch, DeleteEnd, Refresh, ProviderAdds, RefreshStart, RefreshPublish, RefreshRow,
         RefreshRecheck, RefreshRevoke, RefreshRegister, Task, FinishEnable, MonitorDetect,
         MonitorNotify, WindowPasses, RecordCompletedImports, StoreStep, klVars, historyVars
  <2>2. slashed /\ (ForgetRow => row' # "Absent")
    BY <1>1, <2>1 DEF ForgetRow
  <2>3. file \in {"Disabled", "Gone"} /\ (up => row = "Disabled")
    BY <1>0, <2>2 DEF SlashedIsDisabled
  <2>4. CASE up
    <3>1. row = "Disabled"
      BY <2>3, <2>4
    <3>2. row' # "Absent"
      BY <1>5, <2>2, <3>1, RowRemoved
    <3>3. CASE UNCHANGED <<row, file>>
      BY <2>3, <3>1, <3>3
    <3>4. ASSUME NEW result, NEW ok \in BOOLEAN, Durable(result, ok)
          PROVE  row' = "Disabled" /\ file' \in {"Disabled", "Gone"}
      BY <2>3, <3>1, <3>2, <3>4, DisabledRowKept DEF Durable
    <3> QED BY <1>5, <3>3, <3>4, StoreSteps
  <2>5. CASE ~up
    <3>1. ~up'
      BY <1>0, <1>5, <2>5, SignerSteps
    <3>2. /\ row = "Absent" /\ imp.pc = "idle" /\ ref.pc = "idle" /\ monitor = "idle"
          /\ \A d \in Deletes : del[d].pc = "idle"
          /\ ~mem.enabler
      BY <1>0, <2>5 DEF DownIsBlank, NoImport, NoRefresh, NoDelete, Blank
    <3>3. ~Import /\ ~Crash /\ \A d \in Deletes : ~Delete(d)
      BY <2>5, <3>2 DEF Import, ImportStage, ImportDuplicate, ImportHold, ImportRename, ImportMark,
         ImportAdmitHold, ImportPublish, ImportRegister, ImportClearDenylist, ImportReadmit,
         OnImport, ImportDisconnect, ImportUnpublish, ImportDiscard, ImportDeny,
         ImportFinishRollback, ImportLateDuplicate, ImportLateUnmark, ImportListener, ImportAt,
         Delete, DeleteSnapshot, DeleteDisable, DeleteDrain, DeleteCheck, DeleteLock,
         DeleteRefused, DeleteAbsent, DeleteUnlink, DeleteUnmark, DeleteDeny, DeleteForget,
         DeleteTouch, DeleteEnd, DeleteAt, Crash
    <3>4. UNCHANGED file
      BY <1>5, <2>3, <2>5, <3>2, <3>3 DEF Next, Refresh, ProviderAdds, RefreshStart,
         RefreshPublish, RefreshRow, RefreshRecheck, RefreshRevoke, RefreshRegister,
         Task, FinishEnable, MonitorDetect, MonitorDisable, MonitorNotify, WindowPasses,
         RecordCompletedImports, StoreStep, Elapse, klVars, storeVars
    <3> QED BY <2>3, <3>1, <3>4
  <2> QED BY <2>4, <2>5
<1> QED BY <1>2, <1>3, <1>4, <1>5

-----------------------------------------------------------------------------
(* A fresh installation satisfies the invariant, and each step keeps it.   *)
LEMMA KLInvInit == Init => KLInv
<1> SUFFICES ASSUME Init PROVE KLInv
  OBVIOUS
<1>1. StoreTypeOK
  BY StoreAssumption DEF Init, StoreTypeOK, Rows
<1>2. mem \in Mems
  <2>1. mem = Blank /\ "Unmonitored" \in Windows
    BY DEF Init, Windows
  <2> QED BY <2>1, Zenon DEF Mems, Blank
<1>3. disk \in Disks
  <2>1. {} \in SUBSET {"staged", "final"}
    OBVIOUS
  <2>2. PICK k \in BOOLEAN :
            disk = [keystore |-> k, sidecars |-> {}, denied |-> FALSE, secret |-> FALSE]
    BY DEF Init
  <2>3. FALSE \in BOOLEAN
    OBVIOUS
  <2> QED BY <2>1, <2>2, <2>3, Zenon DEF Disks
<1>4. imp \in Imports
  <2>1. imp = NoImport /\ "idle" \in ImportPcs
    BY DEF Init, ImportPcs
  <2> QED BY <2>1, Zenon DEF Imports, NoImport
<1>5. del \in [Deletes -> DeleteRecords]
  <2>1. NoDelete \in DeleteRecords
    BY Zenon DEF NoDelete, DeleteRecords, DeletePcs
  <2> QED BY <2>1 DEF Init
<1>6. ref \in Refreshes
  BY Zenon DEF Init, NoRefresh, Refreshes
<1>7. KLTypeOK
  <2>1. /\ up \in BOOLEAN /\ tracked \in {None, "import"} \cup Deletes
        /\ stateLock \in {None} \cup Deletes /\ monitor \in {"idle", "detected", "notify"}
    BY DEF Init
  <2>2. gone \in BOOLEAN /\ slashed \in BOOLEAN /\ excepted \in BOOLEAN /\ unvetted \in BOOLEAN
    BY DEF Init
  <2> QED BY <1>1, <1>2, <1>3, <1>4, <1>5, <1>6, <2>1, <2>2, TypedParts
<1>8. imp.pc = "idle" /\ \A d \in Deletes : del[d].pc = "idle"
  BY DEF Init, NoImport, NoDelete
<1>9. TrackedHeld /\ ClearingIsPresent /\ ForgettingIsDenied
  BY <1>8 DEF TrackedHeld, ImportWorking, DeleteWorking, ClearingIsPresent, ForgettingIsDenied
<1>10. DownIsBlank
  BY DEF Init, DownIsBlank
<1>11. ~mem.denied /\ ~gone /\ ~slashed
  BY DEF Init, Blank
<1>12. DenylistDurable /\ DeletedIsDenied /\ SlashedIsDisabled
  BY <1>11 DEF DenylistDurable, DeletedIsDenied, SlashedIsDisabled
<1> QED BY <1>7, <1>9, <1>10, <1>12 DEF KLInv

(* Every step keeps the invariant.                                         *)
LEMMA KLInvStep == ASSUME KLInv, [Next]_klVars PROVE KLInv'
<1>1. KLTypeOK'
  BY KLTypeStep DEF KLInv
<1> QED BY <1>1, TrackedStep, DownStep, DurableStep, DeletedStep, ClearingStep, ForgettingStep,
           SlashedStep DEF KLInv

(* The inductive invariant holds of every behaviour, whatever the number   *)
(* of concurrent DELETEs, of I/O errors and of persist attempts.           *)
THEOREM KLInvariant == Spec => []KLInv
  BY KLInvInit, KLInvStep, PTL DEF Spec

(* Row, file, memory, locks and requests keep their types.                 *)
THEOREM KLTypeCorrect == Spec => []KLTypeOK
<1>1. KLInv => KLTypeOK
  BY DEF KLInv
<1> QED BY <1>1, KLInvariant, PTL

(* A key that delete_keystore removed is not loaded again, by refresh,     *)
(* boot or import rollback, before an import has taken it back.            *)
THEOREM DeletedStays == Spec => []DeletedStaysDeleted
<1>1. KLInv => DeletedStaysDeleted
  BY DEF KLInv, DeletedIsDenied, DeletedStaysDeleted
<1> QED BY <1>1, KLInvariant, PTL

(* A slashing disable that returned Ok outlives imports, enable tasks,     *)
(* holds and restarts, until the row is removed.                           *)
THEOREM SlashedOff == Spec => []SlashedStaysOff
<1>1. KLInv => SlashedStaysOff
  BY DEF KLInv, SlashedIsDisabled, SlashedStaysOff, DownIsBlank
<1> QED BY <1>1, KLInvariant, PTL

-----------------------------------------------------------------------------
(* A single DELETE removes a loaded key only if it found it at the start.  *)
LEMMA RemovesMembersStep ==
    ASSUME \A d, e \in Deletes : d = e, KLInv, RemovesMembers, [Next]_klVars
    PROVE  RemovesMembers'
<1>0. KLTypeOK /\ del \in [Deletes -> DeleteRecords]
  BY TypedParts DEF KLInv
<1>1. ASSUME NEW d \in Deletes, Delete(d) PROVE RemovesMembers'
  <2>0. \A e \in Deletes : e = d
    OBVIOUS
  <2>1. /\ DeleteWorking(d) \/ del[d].present => del[d].member
        /\ del[d].present => del[d].pc \in {"touch", "ending"}
    BY DEF RemovesMembers
  <2>2. SUFFICES /\ del'[d].pc \in {"unlinked", "unmarked", "denied"} \/ del'[d].present => del'[d].member
                 /\ del'[d].present => del'[d].pc \in {"touch", "ending"}
    BY <2>0 DEF RemovesMembers, DeleteWorking
  <2>3. CASE DeleteSnapshot(d)
    <3>1. PICK r : r = [del[d] EXCEPT !.pc = "snapped", !.member = mem.signer]
      OBVIOUS
    <3>2. del' = [del EXCEPT ![d] = r] /\ del[d].pc = "idle"
      BY <2>3, <3>1 DEF DeleteSnapshot, DeleteAt
    <3>3. r.pc = "snapped" /\ r.present = del[d].present
      BY <1>0, <3>1 DEF DeleteRecords
    <3> QED BY <1>0, <2>1, <3>2, <3>3
  <2>4. ASSUME NEW b, del' = [del EXCEPT ![d] = [@ EXCEPT !.pc = "touch", !.present = b]]
        PROVE  del'[d].pc = "touch" /\ del'[d].present = b /\ del'[d].member = del[d].member
    <3>1. PICK r : r = [del[d] EXCEPT !.pc = "touch", !.present = b]
      OBVIOUS
    <3>2. del' = [del EXCEPT ![d] = r]
      BY <2>4, <3>1
    <3>3. r.pc = "touch" /\ r.present = b /\ r.member = del[d].member
      BY <1>0, <3>1 DEF DeleteRecords
    <3> QED BY <1>0, <3>2, <3>3
  <2>5. ASSUME NEW pc, DeleteGoto(d, pc)
        PROVE  del'[d].pc = pc /\ del'[d].present = del[d].present /\ del'[d].member = del[d].member
    BY <1>0, <2>5, Gotos
  <2>6. CASE DeleteForget(d)
    <3>1. del[d].member
      BY <2>1, <2>6 DEF DeleteForget, DeleteAt, DeleteWorking
    <3>2. del'[d].pc = "touch" /\ del'[d].member = del[d].member
      BY <2>4, <2>6 DEF DeleteForget
    <3> QED BY <3>1, <3>2
  <2>7. CASE DeleteAbsent(d)
    <3>0. ~del[d].present
      BY <2>1, <2>7 DEF DeleteAbsent, DeleteAt
    <3>1. CASE DeleteGoto(d, "ending")
      BY <2>5, <3>0, <3>1
    <3>2. CASE del' = [del EXCEPT ![d] = [@ EXCEPT !.pc = "touch", !.present = FALSE]]
      BY <2>4, <3>2
    <3> QED BY <2>7, <3>1, <3>2 DEF DeleteAbsent, DeleteSkip
  <2>8. CASE DeleteUnlink(d)
    <3>0. ~del[d].present
      BY <2>1, <2>8 DEF DeleteUnlink, DeleteAt
    <3>1. del[d].member
      BY <2>0, <2>8 DEF DeleteUnlink, InFlightForKey, InFlight
    <3>2. PICK pc : DeleteGoto(d, pc)
      BY <2>8 DEF DeleteUnlink, DeleteSkip
    <3> QED BY <2>5, <3>0, <3>1, <3>2
  <2>9. CASE DeleteUnmark(d) \/ DeleteDeny(d)
    <3>0. DeleteWorking(d) /\ ~del[d].present
      BY <2>1, <2>9 DEF DeleteUnmark, DeleteDeny, DeleteAt, DeleteWorking
    <3>1. PICK pc : DeleteGoto(d, pc)
      BY <2>9 DEF DeleteUnmark, DeleteDeny, DeleteSkip
    <3> QED BY <2>1, <2>5, <3>0, <3>1
  <2>10. CASE DeleteDisable(d) \/ DeleteDrain(d) \/ DeleteCheck(d) \/ DeleteLock(d)
              \/ DeleteRefused(d)
    <3>0. ~del[d].present
      BY <2>1, <2>10 DEF DeleteDisable, DeleteDrain, DeleteCheck, DeleteLock, DeleteRefused, DeleteAt
    <3>1. PICK pc : DeleteGoto(d, pc) /\ pc \notin {"unlinked", "unmarked", "denied"}
      BY <2>10 DEF DeleteDisable, DeleteDrain, DeleteCheck, DeleteLock, DeleteRefused, DeleteSkip
    <3> QED BY <2>5, <3>0, <3>1
  <2>11. CASE DeleteTouch(d)
    <3>1. DeleteGoto(d, "ending")
      BY <2>11 DEF DeleteTouch
    <3> QED BY <2>1, <2>5, <3>1
  <2>12. CASE DeleteEnd(d)
    <3>1. NoDelete.pc = "idle" /\ ~NoDelete.present
      BY DEF NoDelete
    <3>2. del' = [del EXCEPT ![d] = NoDelete]
      BY <2>12 DEF DeleteEnd
    <3> QED BY <1>0, <3>1, <3>2
  <2> QED BY <1>1, <2>3, <2>6, <2>7, <2>8, <2>9, <2>10, <2>11, <2>12 DEF Delete
<1>2. CASE Crash
  BY <1>2 DEF Crash, RemovesMembers, DeleteWorking, NoDelete
<1>3. CASE Import
  <2>1. UNCHANGED del
    BY <1>0, <1>3, ImportLocks DEF KLInv
  <2> QED BY <2>1 DEF RemovesMembers, DeleteWorking
<1>4. CASE Refresh \/ Task \/ Boot \/ UNCHANGED klVars
  <2>1. UNCHANGED del
    BY <1>4 DEF Refresh, ProviderAdds, RefreshStart,
         RefreshPublish, RefreshRow, RefreshRecheck, RefreshRevoke, RefreshRegister,
         RefreshKeeps, Task, FinishEnable, MonitorDetect, MonitorDisable, MonitorNotify,
         WindowPasses, RecordCompletedImports, StoreStep, Boot, klVars, actorVars
  <2> QED BY <2>1 DEF RemovesMembers, DeleteWorking
<1> QED BY <1>1, <1>2, <1>3, <1>4 DEF Next

(* With one DELETE of the key at a time, the interchange of a DELETE that  *)
(* removed a loaded key has the key: the second membership check of        *)
(* delete_keystore is enough, whatever else runs and fails.  With two it   *)
(* is not.                                                                 *)
THEOREM ExportedWhenAlone ==
    ASSUME \A d, e \in Deletes : d = e
    PROVE  Spec => []DeletedIsExported
<1>1. Init => RemovesMembers
  BY DEF Init, RemovesMembers, DeleteWorking, NoDelete
<1>2. KLInv /\ RemovesMembers /\ [Next]_klVars => RemovesMembers'
  BY RemovesMembersStep
<1>3. RemovesMembers => DeletedIsExported
  BY DEF RemovesMembers, DeletedIsExported
<1> QED BY <1>1, <1>2, <1>3, KLInvariant, PTL DEF Spec

-----------------------------------------------------------------------------
(* The guard of an unvetted keystore.  One I/O error can undo one guard:   *)
(* the invariant says which other one is left.                             *)

Exposed == disk.keystore /\ unvetted

(* Requests and tasks that are about to remove the row.                    *)
Removing == ref.pc = "revoking" \/ \E d \in Deletes : del[d].pc = "touch"

(* A window that was observed ends the exposure; a late duplicate is not   *)
(* exposed.                                                                *)
SafeIsVetted == mem.window = "Safe" \/ imp.pc = "duplicate" => ~unvetted

(* A DELETE takes the markers of a keystore that is gone.                  *)
UnlinkedIsGone == \A d \in Deletes : DeleteWorking(d) => ~disk.keystore

(* A running import finds its markers where it put them.                   *)
MarkersPlaced ==
    /\ imp.pc \in {"staged", "held", "renamed"} => "staged" \in disk.sidecars
    /\ imp.pc \in {"published", "armed", "mapped", "admitted", "cleared"} => "final" \in disk.sidecars

(* An import only fails on an error, and only a second one keeps its       *)
(* keystore.                                                               *)
FailureCounted ==
    /\ imp.pc \in {"rollback", "discard", "unlink", "unmark"} => faults >= 1
    /\ imp.pc = "unmark" /\ faults <= 1 => ~disk.keystore

(* Before the first error the file has what the process has, but for the   *)
(* row that boot adds for a loaded key.                                    *)
RowWritten == up /\ faults = 0 => file = row \/ (file = "Absent" /\ row = "Enabled")

OffRows == {"Held", "Disabled"}

(* The row that a keystore is renamed over is off, or the key is denied.   *)
HoldArmed == faults = 0 /\ ~excepted /\ imp.pc \in {"held", "renamed"} => disk.denied \/ row \in OffRows

(* A key that was published stays so until the denylist entry is cleared.  *)
PublishedSigns == faults = 0 /\ ~excepted /\ imp.pc \in {"mapped", "admitted"} => mem.signer

(* Who removes the row of a key has denied the key, unless an import has   *)
(* taken it back since.                                                    *)
RemovingDenied ==
    faults = 0 /\ ~excepted /\ Removing =>
        mem.denied \/ (mem.signer /\ imp.pc \in {"idle", "cleared", "returned", "listener"})

(* The guards of an exposed keystore while the process runs: the import is *)
(* before its marking; the final marker; the denylist; the staged marker   *)
(* of an import that a crash cut off, whose key boot has loaded; or the    *)
(* row of an import whose marking failed.                                  *)
StagedLoaded == imp.pc = "idle" /\ mem.signer /\ mem.known /\ ref.pc = "idle" /\ disk.sidecars # {}

RowOff == /\ imp.pc \in {"rollback", "discard", "unlink"} /\ faults = 1
          /\ row \in OffRows /\ file = row /\ (Removing => mem.denied)

ExposedGuarded ==
    faults <= 1 /\ ~excepted /\ Exposed /\ up =>
        \/ imp.pc = "renamed" \/ "final" \in disk.sidecars \/ disk.denied
        \/ StagedLoaded \/ RowOff

GuardedSoFar == faults <= 1 => KeystoreGuarded

GuardInv ==
    /\ SafeIsVetted /\ UnlinkedIsGone /\ MarkersPlaced /\ FailureCounted /\ RowWritten
    /\ HoldArmed /\ PublishedSigns /\ RemovingDenied /\ ExposedGuarded /\ GuardedSoFar

(* What the updates of disk do to keystore and markers.                    *)
LEMMA DiskFields ==
    ASSUME KLTypeOK
    PROVE  \A b : /\ [disk EXCEPT !.denied = b].keystore = disk.keystore
                  /\ [disk EXCEPT !.denied = b].sidecars = disk.sidecars
                  /\ [disk EXCEPT !.secret = b].keystore = disk.keystore
                  /\ [disk EXCEPT !.secret = b].sidecars = disk.sidecars
                  /\ [disk EXCEPT !.keystore = b].keystore = b
                  /\ [disk EXCEPT !.keystore = b].sidecars = disk.sidecars
                  /\ [disk EXCEPT !.sidecars = b].keystore = disk.keystore
                  /\ [disk EXCEPT !.sidecars = b].sidecars = b
  BY TypedParts DEF Disks

(* What the updates of memory do to window and refresh list.               *)
LEMMA MemFields ==
    ASSUME KLTypeOK
    PROVE  /\ \A b : /\ [mem EXCEPT !.denied = b].window = mem.window
                     /\ [mem EXCEPT !.denied = b].known = mem.known
                     /\ [mem EXCEPT !.quiesced = b].window = mem.window
                     /\ [mem EXCEPT !.quiesced = b].known = mem.known
                     /\ [mem EXCEPT !.enabler = b].window = mem.window
                     /\ [mem EXCEPT !.enabler = b].known = mem.known
                     /\ [mem EXCEPT !.known = b].window = mem.window
                     /\ [mem EXCEPT !.known = b].known = b
                     /\ [mem EXCEPT !.window = b].window = b
                     /\ [mem EXCEPT !.window = b].known = mem.known
           /\ \A w, b : /\ [mem EXCEPT !.window = w, !.enabler = b].window = w
                        /\ [mem EXCEPT !.window = w, !.enabler = b].known = mem.known
                        /\ [mem EXCEPT !.enabler = b, !.window = w].window = w
                        /\ [mem EXCEPT !.enabler = b, !.window = w].known = mem.known
           /\ Published(mem).window = mem.window /\ Published(mem).known = mem.known
           /\ Published(mem).signer = TRUE
           /\ Unpublished(mem).window = "Unmonitored" /\ Unpublished(mem).known = mem.known
           /\ [mem EXCEPT !.signer = FALSE, !.mapped = FALSE, !.known = FALSE].window = mem.window
<1>0. mem \in Mems
  BY TypedParts
<1>1. ASSUME NEW b
      PROVE  /\ [mem EXCEPT !.denied = b].window = mem.window
             /\ [mem EXCEPT !.denied = b].known = mem.known
             /\ [mem EXCEPT !.quiesced = b].window = mem.window
             /\ [mem EXCEPT !.quiesced = b].known = mem.known
             /\ [mem EXCEPT !.enabler = b].window = mem.window
             /\ [mem EXCEPT !.enabler = b].known = mem.known
             /\ [mem EXCEPT !.known = b].window = mem.window
             /\ [mem EXCEPT !.known = b].known = b
             /\ [mem EXCEPT !.window = b].window = b
             /\ [mem EXCEPT !.window = b].known = mem.known
  BY <1>0 DEF Mems
<1>2. ASSUME NEW w, NEW b
      PROVE  /\ [mem EXCEPT !.window = w, !.enabler = b].window = w
             /\ [mem EXCEPT !.window = w, !.enabler = b].known = mem.known
             /\ [mem EXCEPT !.enabler = b, !.window = w].window = w
             /\ [mem EXCEPT !.enabler = b, !.window = w].known = mem.known
  BY <1>0 DEF Mems
<1>3. /\ Published(mem).window = mem.window /\ Published(mem).known = mem.known
      /\ Published(mem).signer = TRUE
      /\ Unpublished(mem).window = "Unmonitored" /\ Unpublished(mem).known = mem.known
      /\ [mem EXCEPT !.signer = FALSE, !.mapped = FALSE, !.known = FALSE].window = mem.window
  BY <1>0 DEF Mems, Published, Unpublished
<1> QED BY <1>1, <1>2, <1>3

(* The steps of an import, by where they begin and end.                    *)
LEMMA ImportPairs ==
    ASSUME KLTypeOK
    PROVE  /\ ImportStage => imp.pc = "idle" /\ imp'.pc \in {"staged", "discard"}
           /\ ImportDuplicate => imp.pc \in {"staged", "held"} /\ imp'.pc = "idle"
           /\ ImportHold => imp.pc = "staged" /\ imp'.pc \in {"held", "discard"}
           /\ ImportRename => imp.pc = "held" /\ imp'.pc \in {"renamed", "rollback", "discard"}
           /\ ImportMark => imp.pc = "renamed" /\ imp'.pc \in {"published", "rollback", "discard"}
           /\ ImportAdmitHold => imp.pc = "published" /\ imp'.pc \in {"armed", "rollback"}
           /\ ImportPublish => imp.pc = "armed" /\ imp'.pc = "mapped"
           /\ ImportRegister => imp.pc = "mapped" /\ imp'.pc = "admitted"
           /\ ImportClearDenylist => imp.pc = "admitted" /\ imp'.pc \in {"cleared", "idle"}
           /\ ImportReadmit => imp.pc = "cleared" /\ imp'.pc = "returned"
           /\ OnImport \/ ImportDisconnect => imp.pc = "returned" /\ imp'.pc = "idle"
           /\ ImportUnpublish => imp.pc = "rollback" /\ imp'.pc = "discard"
           /\ ImportDiscard => \/ imp.pc = "discard" /\ imp'.pc = "unlink"
                               \/ imp.pc = "unlink" /\ imp'.pc = "unmark"
                               \/ imp.pc = "unmark" /\ imp'.pc = "deny"
           /\ ImportDeny => imp.pc = "deny" /\ imp'.pc \in {"finish", "idle"}
           /\ ImportFinishRollback => imp.pc = "finish" /\ imp'.pc \in {"idle", "listener"}
           /\ ImportLateDuplicate => imp.pc = "published" /\ imp'.pc = "duplicate"
           /\ ImportLateUnmark => imp.pc = "duplicate" /\ imp'.pc \in {"finish", "idle"}
           /\ ImportListener => imp.pc = "listener" /\ imp'.pc = "idle"
<1>0. imp \in Imports
  BY TypedParts
<1>1. /\ ImportStage => imp.pc = "idle" /\ imp'.pc \in {"staged", "discard"}
      /\ ImportDuplicate => imp.pc \in {"staged", "held"} /\ imp'.pc = "idle"
      /\ ImportRename => imp.pc = "held" /\ imp'.pc \in {"renamed", "rollback", "discard"}
      /\ ImportMark => imp.pc = "renamed" /\ imp'.pc \in {"published", "rollback", "discard"}
      /\ ImportAdmitHold => imp.pc = "published" /\ imp'.pc \in {"armed", "rollback"}
      /\ ImportPublish => imp.pc = "armed" /\ imp'.pc = "mapped"
      /\ ImportRegister => imp.pc = "mapped" /\ imp'.pc = "admitted"
      /\ ImportClearDenylist => imp.pc = "admitted" /\ imp'.pc \in {"cleared", "idle"}
      /\ ImportReadmit => imp.pc = "cleared" /\ imp'.pc = "returned"
      /\ OnImport \/ ImportDisconnect => imp.pc = "returned" /\ imp'.pc = "idle"
  BY Gotos DEF ImportStage, ImportDuplicate, ImportRename, ImportMark, ImportAdmitHold,
       ImportPublish, ImportRegister, ImportClearDenylist, ImportReadmit, OnImport,
       ImportDisconnect, ImportAt, ImportReturn, PublishFailed
<1>2. /\ ImportDiscard => \/ imp.pc = "discard" /\ imp'.pc = "unlink"
                          \/ imp.pc = "unlink" /\ imp'.pc = "unmark"
                          \/ imp.pc = "unmark" /\ imp'.pc = "deny"
      /\ ImportDeny => imp.pc = "deny" /\ imp'.pc \in {"finish", "idle"}
      /\ ImportFinishRollback => imp.pc = "finish" /\ imp'.pc \in {"idle", "listener"}
      /\ ImportLateDuplicate => imp.pc = "published" /\ imp'.pc = "duplicate"
      /\ ImportListener => imp.pc = "listener" /\ imp'.pc = "idle"
  BY Gotos DEF ImportDiscard, ImportDeny, ImportFinishRollback, ImportLateDuplicate,
       ImportListener, ImportAt, ImportReturn, Tombstone
<1>3. ImportHold => imp.pc = "staged" /\ imp'.pc \in {"held", "discard"}
  <2>1. SUFFICES ASSUME ImportHold PROVE imp.pc = "staged" /\ imp'.pc \in {"held", "discard"}
    OBVIOUS
  <2>2. PICK pc \in {"discard", "held"} : \E b : imp' = [imp EXCEPT !.pc = pc, !.inserted = b]
    BY <2>1 DEF ImportHold
  <2> QED BY <1>0, <2>1, <2>2 DEF ImportHold, ImportAt, Imports
<1>4. ImportUnpublish => imp.pc = "rollback" /\ imp'.pc = "discard"
  BY <1>0 DEF ImportUnpublish, ImportAt, Imports
<1>5. ImportLateUnmark => imp.pc = "duplicate" /\ imp'.pc \in {"finish", "idle"}
  <2>1. imp' = [imp EXCEPT !.pc = "finish", !.stuck = TRUE] => imp'.pc = "finish"
    BY <1>0 DEF Imports
  <2> QED BY <2>1, Gotos DEF ImportLateUnmark, ImportLateEnd, ImportAt, ImportReturn
<1> QED BY <1>1, <1>2, <1>3, <1>4, <1>5

(* No one else moves the import, but a crash.                              *)
LEMMA ImportAlone == ASSUME [Next]_klVars PROVE Import \/ UNCHANGED imp \/ (Crash /\ imp'.pc = "idle")
<1>1. ASSUME NEW d \in Deletes, Delete(d) PROVE UNCHANGED imp
  BY <1>1 DEF Delete, DeleteSnapshot, DeleteDisable, DeleteDrain, DeleteCheck, DeleteLock,
         DeleteRefused, DeleteAbsent, DeleteUnlink, DeleteUnmark, DeleteDeny, DeleteForget,
         DeleteTouch, DeleteEnd, DeleteKeeps
<1>2. CASE Refresh \/ Task \/ Boot \/ UNCHANGED klVars
  BY <1>2 DEF Refresh, ProviderAdds, RefreshStart, RefreshPublish, RefreshRow, RefreshRecheck,
         RefreshRevoke, RefreshRegister, RefreshKeeps, Task, FinishEnable, MonitorDetect,
         MonitorDisable, MonitorNotify, WindowPasses, RecordCompletedImports, StoreStep, Boot,
         klVars, actorVars
<1>3. Crash => imp'.pc = "idle"
  BY DEF Crash, NoImport
<1> QED BY <1>1, <1>2, <1>3 DEF Next

(* The steps that change a marker, and how.                                *)
LEMMA MarkerSteps ==
    ASSUME KLTypeOK, [Next]_klVars
    PROVE  \/ disk'.sidecars = disk.sidecars
           \/ ImportStage /\ disk'.sidecars = disk.sidecars \cup {"staged"}
           \/ /\ ImportDuplicate \/ (ImportDiscard /\ imp.pc = "discard")
              /\ disk'.sidecars = disk.sidecars \ {"staged"}
           \/ ImportMark /\ disk'.sidecars = (disk.sidecars \ {"staged"}) \cup {"final"}
           \/ /\ ImportLateUnmark \/ (ImportDiscard /\ imp.pc = "unmark")
              /\ disk'.sidecars = disk.sidecars \ {"final"}
           \/ RecordCompletedImports \/ \E d \in Deletes : DeleteUnmark(d)
<1>1. ASSUME UNCHANGED disk \/ (\E b : disk' = [disk EXCEPT !.denied = b])
                \/ (\E b : disk' = [disk EXCEPT !.secret = b])
                \/ \E b : disk' = [disk EXCEPT !.keystore = b]
      PROVE  disk'.sidecars = disk.sidecars
  <2>1. ASSUME NEW b, disk' = [disk EXCEPT !.denied = b] PROVE disk'.sidecars = disk.sidecars
    BY <2>1, DiskFields
  <2>2. ASSUME NEW b, disk' = [disk EXCEPT !.secret = b] PROVE disk'.sidecars = disk.sidecars
    BY <2>2, DiskFields
  <2>3. ASSUME NEW b, disk' = [disk EXCEPT !.keystore = b] PROVE disk'.sidecars = disk.sidecars
    BY <2>3, DiskFields
  <2> QED BY <1>1, <2>1, <2>2, <2>3
<1>2. ASSUME NEW name, NEW ok, UnlinkMarker(name, ok)
      PROVE  disk'.sidecars \in {disk.sidecars, disk.sidecars \ {name}}
  BY <1>2, DiskFields DEF UnlinkMarker
<1>3. CASE ImportStage
  BY <1>3, DiskFields DEF ImportStage
<1>4. CASE ImportDuplicate \/ ImportDiscard \/ ImportLateUnmark
  <2>1. CASE ImportDuplicate
    BY <1>2, <2>1 DEF ImportDuplicate
  <2>2. CASE ImportLateUnmark
    BY <1>2, <2>2, DiskFields DEF ImportLateUnmark
  <2>3. CASE ImportDiscard
    BY <1>1, <1>2, <2>3 DEF ImportDiscard, ImportAt, UnlinkKeystore
  <2> QED BY <1>4, <2>1, <2>2, <2>3
<1>5. CASE ImportMark
  BY <1>5, DiskFields DEF ImportMark, Marked
<1>6. CASE Import /\ ~ImportStage /\ ~ImportDuplicate /\ ~ImportDiscard /\ ~ImportLateUnmark /\ ~ImportMark
  <2>1. UNCHANGED disk \/ (\E b : disk' = [disk EXCEPT !.denied = b])
                \/ \E b : disk' = [disk EXCEPT !.keystore = b]
    BY <1>6 DEF Import, ImportHold, ImportRename, ImportAdmitHold, ImportPublish, ImportRegister,
         ImportClearDenylist, ImportReadmit, OnImport, ImportDisconnect, ImportUnpublish,
         ImportDeny, ImportFinishRollback, ImportLateDuplicate, ImportListener, DenylistInsert,
         DenylistRemove, UnlinkKeystore
  <2> QED BY <1>1, <2>1
<1>7. ASSUME NEW d \in Deletes, Delete(d), ~DeleteUnmark(d) PROVE disk'.sidecars = disk.sidecars
  <2>1. UNCHANGED disk \/ (\E b : disk' = [disk EXCEPT !.denied = b])
                \/ \E b : disk' = [disk EXCEPT !.keystore = b]
    BY <1>7 DEF Delete, DeleteSnapshot, DeleteDisable, DeleteDrain, DeleteCheck, DeleteLock,
         DeleteRefused, DeleteAbsent, DeleteUnlink, DeleteDeny, DeleteForget,
         DeleteTouch, DeleteEnd, DenylistInsert, UnlinkKeystore
  <2> QED BY <1>1, <2>1
<1>8. CASE Refresh \/ (Task /\ ~RecordCompletedImports) \/ Crash \/ Boot \/ UNCHANGED klVars
  <2>1. UNCHANGED disk \/ \E b : disk' = [disk EXCEPT !.secret = b]
    BY <1>8 DEF Refresh, ProviderAdds, RefreshStart, RefreshPublish, RefreshRow, RefreshRecheck,
         RefreshRevoke, RefreshRegister, Task, FinishEnable, MonitorDetect, MonitorDisable,
         MonitorNotify, WindowPasses, StoreStep, Crash, Boot, klVars
  <2> QED BY <1>1, <2>1
<1> QED BY <1>3, <1>4, <1>5, <1>6, <1>7, <1>8 DEF Next

(* The keystore appears on the boot path by a rename only.                 *)
LEMMA KeystoreSteps ==
    ASSUME KLTypeOK, [Next]_klVars
    PROVE  disk'.keystore => disk.keystore \/ (ImportRename /\ imp'.pc = "renamed")
<1>0. disk \in Disks
  BY TypedParts
<1>1. ASSUME UNCHANGED disk \/ (\E b : disk' = [disk EXCEPT !.denied = b])
                \/ (\E b : disk' = [disk EXCEPT !.secret = b])
                \/ \E m : disk' = [disk EXCEPT !.sidecars = m]
      PROVE  disk'.keystore = disk.keystore
  <2>1. ASSUME NEW b, disk' = [disk EXCEPT !.denied = b] PROVE disk'.keystore = disk.keystore
    BY <2>1, DiskFields
  <2>2. ASSUME NEW b, disk' = [disk EXCEPT !.secret = b] PROVE disk'.keystore = disk.keystore
    BY <2>2, DiskFields
  <2>3. ASSUME NEW b, disk' = [disk EXCEPT !.sidecars = b] PROVE disk'.keystore = disk.keystore
    BY <2>3, DiskFields
  <2> QED BY <1>1, <2>1, <2>2, <2>3
<1>2. ASSUME NEW ok, UnlinkKeystore(ok) PROVE disk'.keystore => disk.keystore
  <2>1. UNCHANGED disk \/ \E b : b = FALSE /\ disk' = [disk EXCEPT !.keystore = b]
    BY <1>2 DEF UnlinkKeystore
  <2> QED BY <2>1, DiskFields
<1>3. CASE ImportRename
  <2>1. ImportGoto("renamed") => imp'.pc = "renamed"
    BY Gotos
  <2> QED BY <1>3, <2>1 DEF ImportRename
<1>4. CASE Import /\ ~ImportRename
  <2>1. \/ UNCHANGED disk \/ (\E b : disk' = [disk EXCEPT !.denied = b])
        \/ (\E m : disk' = [disk EXCEPT !.sidecars = m]) \/ \E ok : UnlinkKeystore(ok)
    BY <1>4 DEF Import, ImportStage, ImportDuplicate, ImportHold, ImportMark,
         ImportAdmitHold, ImportPublish, ImportRegister, ImportClearDenylist, ImportReadmit,
         OnImport, ImportDisconnect, ImportUnpublish, ImportDiscard, ImportDeny,
         ImportFinishRollback, ImportLateDuplicate, ImportLateUnmark, ImportListener,
         DenylistInsert, DenylistRemove, UnlinkMarker, Marked
  <2> QED BY <1>1, <1>2, <2>1
<1>5. CASE \E d \in Deletes : Delete(d)
  <2>1. \/ UNCHANGED disk \/ (\E b : disk' = [disk EXCEPT !.denied = b])
        \/ (\E m : disk' = [disk EXCEPT !.sidecars = m]) \/ \E ok : UnlinkKeystore(ok)
    BY <1>5 DEF Delete, DeleteSnapshot, DeleteDisable, DeleteDrain, DeleteCheck, DeleteLock,
         DeleteRefused, DeleteAbsent, DeleteUnlink, DeleteUnmark, DeleteDeny, DeleteForget,
         DeleteTouch, DeleteEnd, DenylistInsert
  <2> QED BY <1>1, <1>2, <2>1
<1>6. CASE Refresh \/ Task \/ Crash \/ Boot \/ UNCHANGED klVars
  <2>1. \/ UNCHANGED disk \/ (\E b : disk' = [disk EXCEPT !.secret = b])
        \/ \E m : disk' = [disk EXCEPT !.sidecars = m]
    BY <1>6 DEF Refresh, ProviderAdds, RefreshStart, RefreshPublish, RefreshRow, RefreshRecheck,
         RefreshRevoke, RefreshRegister, Task, FinishEnable, MonitorDetect, MonitorDisable,
         MonitorNotify, WindowPasses, RecordCompletedImports, StoreStep, Crash, Boot, klVars
  <2> QED BY <1>1, <2>1
<1> QED BY <1>3, <1>4, <1>5, <1>6 DEF Next

(* The history of its window begins with the rename.                       *)
LEMMA UnvettedSteps ==
    ASSUME KLTypeOK, [Next]_klVars
    PROVE  /\ unvetted' => unvetted \/ (ImportRename /\ imp'.pc = "renamed" /\ mem.window # "Safe")
           /\ ImportLateDuplicate \/ WindowPasses => ~unvetted'
           /\ Boot /\ unvetted' => disk.sidecars # {}
<1>1. ASSUME ImportRename
      PROVE  unvetted' => unvetted \/ (imp'.pc = "renamed" /\ mem.window # "Safe")
  <2>1. UNCHANGED unvetted \/ (ImportGoto("renamed") /\ unvetted' = (mem.window # "Safe"))
    BY <1>1 DEF ImportRename
  <2>2. unvetted' = (mem.window # "Safe") => (unvetted' => mem.window # "Safe")
    BY Zenon
  <2> QED BY <1>1, <2>1, <2>2, Gotos
<1>2. ASSUME Import, ~ImportRename PROVE unvetted' => unvetted
  BY <1>2 DEF Import, ImportStage, ImportDuplicate, ImportHold, ImportMark,
         ImportAdmitHold, ImportPublish, ImportRegister, ImportClearDenylist, ImportReadmit,
         OnImport, ImportDisconnect, ImportUnpublish, ImportDiscard, ImportDeny,
         ImportFinishRollback, ImportLateDuplicate, ImportLateUnmark, ImportListener, historyVars
<1>3. ASSUME NEW d \in Deletes, Delete(d) PROVE unvetted' => unvetted
  BY <1>3 DEF Delete, DeleteSnapshot, DeleteDisable, DeleteDrain, DeleteCheck, DeleteLock,
         DeleteRefused, DeleteAbsent, DeleteUnlink, DeleteUnmark, DeleteDeny, DeleteForget,
         DeleteTouch, DeleteEnd, historyVars
<1>4. ASSUME Refresh \/ Task \/ Crash \/ UNCHANGED klVars PROVE unvetted' => unvetted
  BY <1>4 DEF Refresh, ProviderAdds, RefreshStart, RefreshPublish, RefreshRow, RefreshRecheck,
         RefreshRevoke, RefreshRegister, Task, FinishEnable, MonitorDetect, MonitorDisable,
         MonitorNotify, WindowPasses, RecordCompletedImports, StoreStep, Crash, klVars, historyVars
<1>5. Boot => unvetted' = (unvetted /\ disk.sidecars # {})
  BY DEF Boot
<1>6. Boot /\ unvetted' => unvetted /\ disk.sidecars # {}
  BY <1>5, Zenon
<1>7. ImportLateDuplicate \/ WindowPasses => ~unvetted'
  BY DEF ImportLateDuplicate, WindowPasses
<1> QED BY <1>1, <1>2, <1>3, <1>4, <1>6, <1>7 DEF Next

(* The steps that change what the process knows of the key, by what they   *)
(* do to signer, window and the refresh's list.                            *)
Keeping == mem'.signer = mem.signer /\ mem'.known = mem.known /\ mem'.denied = mem.denied

LEMMA MemSteps ==
    ASSUME KLTypeOK, [Next]_klVars
    PROVE  \/ Keeping /\ mem'.window \in {mem.window, "Unmonitored", "Pending"}
           \/ TouchesList
           \/ (ImportPublish \/ RefreshPublish) /\ mem' = Published(mem)
           \/ /\ ImportUnpublish \/ RefreshRecheck \/ \E d \in Deletes : DeleteForget(d)
              /\ mem' = Unpublished(mem)
           \/ RefreshStart
           \/ RefreshRow /\ AddValidatorDurable("Enabled", "failed") /\ mem'.window = mem.window
           \/ WindowPasses
<1>0. RegisterForImport \in {mem.window, "Pending"}
  BY DEF RegisterForImport
<1>1. ASSUME NEW b, mem' = [mem EXCEPT !.enabler = b] \/ mem' = [mem EXCEPT !.quiesced = b]
      PROVE  Keeping /\ mem'.window = mem.window
  <2>1. CASE mem' = [mem EXCEPT !.enabler = b]
    BY <2>1, KeyFields, MemFields DEF Keeping
  <2>2. CASE mem' = [mem EXCEPT !.quiesced = b]
    BY <2>2, KeyFields, MemFields DEF Keeping
  <2> QED BY <1>1, <2>1, <2>2
<1>2. ASSUME NEW w, NEW b, \/ mem' = [mem EXCEPT !.window = w, !.enabler = b]
                           \/ mem' = [mem EXCEPT !.enabler = b, !.window = w]
                           \/ mem' = [mem EXCEPT !.window = w]
      PROVE  Keeping /\ mem'.window = w
  <2>1. CASE mem' = [mem EXCEPT !.window = w, !.enabler = b]
    BY <2>1, KeyFields, MemFields DEF Keeping
  <2>2. CASE mem' = [mem EXCEPT !.enabler = b, !.window = w]
    BY <2>2, KeyFields, MemFields DEF Keeping
  <2>3. CASE mem' = [mem EXCEPT !.window = w]
    BY <2>3, KeyFields, MemFields DEF Keeping
  <2> QED BY <1>2, <2>1, <2>2, <2>3
<1>3. UNCHANGED mem => Keeping /\ mem'.window = mem.window
  BY DEF Keeping
<1>4. CASE Import
  <2>1. CASE ImportPublish
    BY <2>1 DEF ImportPublish
  <2>2. CASE ImportUnpublish
    BY <2>2 DEF ImportUnpublish
  <2>3. CASE ImportRegister
    BY <1>0, <1>2, <2>3 DEF ImportRegister
  <2>4. CASE OnImport
    <3>1. UNCHANGED mem \/ mem' = [mem EXCEPT !.window = RegisterForImport, !.enabler = TRUE]
      BY <2>4 DEF OnImport
    <3> QED BY <1>0, <1>2, <1>3, <3>1
  <2>5. CASE ImportReadmit
    BY <1>1, <2>5 DEF ImportReadmit
  <2>6. CASE ImportListener
    BY <1>1, <2>6 DEF ImportListener
  <2>7. CASE \/ ImportStage \/ ImportDuplicate \/ ImportHold \/ ImportRename \/ ImportMark
             \/ ImportAdmitHold \/ ImportDisconnect \/ ImportDiscard \/ ImportFinishRollback
             \/ ImportLateDuplicate \/ ImportLateUnmark
    BY <1>3, <2>7 DEF ImportStage, ImportDuplicate, ImportHold, ImportRename, ImportMark,
         ImportAdmitHold, ImportDisconnect, ImportDiscard, ImportFinishRollback,
         ImportLateDuplicate, ImportLateUnmark
  <2> QED BY <1>4, <2>1, <2>2, <2>3, <2>4, <2>5, <2>6, <2>7 DEF Import, TouchesList
<1>5. ASSUME NEW d \in Deletes, Delete(d), ~DeleteForget(d), ~DeleteAbsent(d), ~DeleteDeny(d)
      PROVE  Keeping /\ mem'.window \in {mem.window, "Unmonitored"}
  <2>1. CASE DeleteTouch(d)
    <3>1. PICK w \in {mem.window, "Unmonitored"} : mem' = [mem EXCEPT !.enabler = FALSE, !.window = w]
      BY <2>1 DEF DeleteTouch
    <3> QED BY <1>2, <3>1
  <2>2. CASE ~DeleteTouch(d)
    <3>1. \/ UNCHANGED mem
          \/ \E b : mem' = [mem EXCEPT !.enabler = b] \/ mem' = [mem EXCEPT !.quiesced = b]
      BY <1>5, <2>2 DEF Delete, DeleteSnapshot, DeleteDisable, DeleteDrain, DeleteCheck,
           DeleteLock, DeleteRefused, DeleteUnlink, DeleteUnmark, DeleteEnd, DeleteSkip
    <3> QED BY <1>1, <1>3, <3>1
  <2> QED BY <2>1, <2>2
<1>6. CASE \E d \in Deletes : DeleteForget(d)
  BY <1>6 DEF DeleteForget
<1>7. CASE Refresh
  <2>1. CASE RefreshRow
    <3>1. UNCHANGED mem \/ /\ AddValidatorDurable("Enabled", "failed")
                           /\ mem' = [mem EXCEPT !.signer = FALSE, !.mapped = FALSE, !.known = FALSE]
      BY <2>1 DEF RefreshRow
    <3> QED BY <1>3, <2>1, <3>1, MemFields
  <2>2. CASE RefreshRecheck
    BY <1>3, <2>2 DEF RefreshRecheck
  <2>3. CASE RefreshRegister
    BY <1>0, <1>2, <2>3 DEF RefreshRegister
  <2>4. CASE ProviderAdds \/ RefreshRevoke
    BY <1>3, <2>4 DEF ProviderAdds, RefreshRevoke
  <2>5. CASE RefreshPublish
    BY <2>5 DEF RefreshPublish
  <2> QED BY <1>7, <2>1, <2>2, <2>3, <2>4, <2>5 DEF Refresh
<1>8. CASE Task \/ UNCHANGED klVars
  <2>1. UNCHANGED mem \/ (\E b : mem' = [mem EXCEPT !.enabler = b]) \/ WindowPasses
    BY <1>8 DEF Task, FinishEnable, MonitorDetect, MonitorDisable, MonitorNotify,
         RecordCompletedImports, StoreStep, klVars
  <2> QED BY <1>1, <1>3, <2>1
<1> QED BY <1>4, <1>5, <1>6, <1>7, <1>8 DEF Next, TouchesList

(* Changes of the denylist leave the rest alone.                           *)
LEMMA ListSteps ==
    ASSUME KLTypeOK, TouchesList, ~Crash, ~Boot
    PROVE  /\ mem'.signer = mem.signer /\ mem'.known = mem.known /\ mem'.window = mem.window
           /\ disk'.keystore = disk.keystore /\ disk'.sidecars = disk.sidecars
<1>1. \/ UNCHANGED mem \/ (\E b : mem' = [mem EXCEPT !.denied = b])
      \/ \E b : mem' = [mem EXCEPT !.enabler = b]
  BY DEF TouchesList, ImportClearDenylist, ImportDeny, DeleteAbsent, DeleteDeny, DeleteSkip,
         DenylistInsert, DenylistRemove
<1>2. UNCHANGED disk \/ \E b : disk' = [disk EXCEPT !.denied = b]
  BY DEF TouchesList, ImportClearDenylist, ImportDeny, DeleteAbsent, DeleteDeny,
         DenylistInsert, DenylistRemove
<1>3. ASSUME NEW b, mem' = [mem EXCEPT !.denied = b]
      PROVE  mem'.signer = mem.signer /\ mem'.known = mem.known /\ mem'.window = mem.window
  BY <1>3, KeyFields, MemFields
<1>4. ASSUME NEW b, mem' = [mem EXCEPT !.enabler = b]
      PROVE  mem'.signer = mem.signer /\ mem'.known = mem.known /\ mem'.window = mem.window
  BY <1>4, KeyFields, MemFields
<1>5. ASSUME NEW b, disk' = [disk EXCEPT !.denied = b]
      PROVE  disk'.keystore = disk.keystore /\ disk'.sidecars = disk.sidecars
  BY <1>5, DiskFields
<1> QED BY <1>1, <1>2, <1>3, <1>4, <1>5

(* Errors are counted: an operation of the store that meets none leaves    *)
(* file and memory with the same row.                                      *)
LEMMA StoreWrites ==
    ASSUME KLTypeOK, NEW result, NEW ok \in BOOLEAN, Durable(result, ok)
    PROVE  /\ faults' \in Nat /\ faults' >= faults
           /\ faults' = faults => file' = row' \/ UNCHANGED <<row, file>> \/ Elapse
<1>0. faults \in Nat /\ SlashedPersistAttempts \in Nat \ {0}
  BY StoreAssumption DEF KLTypeOK, StoreTypeOK
<1>1. ASSUME NEW n \in Nat \ {0}, Fault(n) PROVE faults' \in Nat /\ faults' > faults
  BY <1>0, <1>1 DEF Fault
<1>2. ASSUME NEW new, NEW b, CommitLessSafe(new, b)
      PROVE  (faults' = faults /\ file' = row') \/ (faults' \in Nat /\ faults' > faults)
  <2>1. Fault(1) => faults' \in Nat /\ faults' > faults
    BY <1>1
  <2>2. Fault(2) => faults' \in Nat /\ faults' > faults
    BY <1>1
  <2> QED BY <1>2, <2>1, <2>2 DEF CommitLessSafe, NoFault
<1>3. ASSUME NEW new, NEW n \in Nat \ {0}, NEW q, NEW b, PersistDisabled(new, n, q, b)
      PROVE  (faults' = faults /\ file' = row') \/ (faults' \in Nat /\ faults' > faults)
  BY <1>1, <1>3 DEF PersistDisabled, NoFault
<1>4. CASE UNCHANGED storeVars
  BY <1>0, <1>4 DEF storeVars
<1>5. CASE SaveConfig \/ Elapse
  BY <1>0, <1>5 DEF SaveConfig, Elapse, NoFault
<1>6. CASE \/ UNCHANGED storeVars \/ (\E new, b : CommitLessSafe(new, b))
           \/ \E new, q, b : \E n \in Nat \ {0} : PersistDisabled(new, n, q, b)
  BY <1>0, <1>2, <1>3, <1>4, <1>6
<1>7. ASSUME NEW new, AddValidatorDurable(new, result)
      PROVE  UNCHANGED storeVars \/ \E b : CommitLessSafe(new, b)
  BY <1>7, Zenon DEF AddValidatorDurable
<1>8. RemoveValidatorDurable(result) => UNCHANGED storeVars \/ \E b : CommitLessSafe("Absent", b)
  BY Zenon DEF RemoveValidatorDurable
<1>9. ReleaseDoppelgangerHold(result) => UNCHANGED storeVars \/ \E b : CommitLessSafe("Enabled", b)
  BY Zenon DEF ReleaseDoppelgangerHold
<1>10. BeginDoppelgangerHold(result) =>
          \/ UNCHANGED storeVars \/ (\E b : CommitLessSafe("Held", b))
          \/ \E q, b : PersistDisabled("Held", 1, q, b)
  BY Zenon DEF BeginDoppelgangerHold
<1>11. PersistSigningDisable(ok) =>
          \/ UNCHANGED storeVars \/ PersistDisabled("Disabled", 1, row \in HoldRows, ok)
  BY Zenon DEF PersistSigningDisable
<1>12. DisableSlashed(ok) =>
          \/ UNCHANGED storeVars
          \/ PersistDisabled("Disabled", SlashedPersistAttempts, row \in HoldRows, ok)
  BY Zenon DEF DisableSlashed
<1>13. 1 \in Nat \ {0}
  OBVIOUS
<1>14. CASE BeginDoppelgangerHold(result) \/ PersistSigningDisable(ok) \/ DisableSlashed(ok)
  BY <1>0, <1>2, <1>3, <1>4, <1>10, <1>11, <1>12, <1>13, <1>14
<1>15. CASE \/ AddValidatorDurable("Disabled", result) \/ AddValidatorDurable("Enabled", result)
            \/ AddValidatorDurable("Held", result)
            \/ RemoveValidatorDurable(result) \/ ReleaseDoppelgangerHold(result)
  BY <1>0, <1>2, <1>4, <1>7, <1>8, <1>9, <1>15
<1> QED BY <1>5, <1>14, <1>15 DEF Durable, PersistKeystoreHold

(* The count of errors only grows.                                         *)
LEMMA FaultsGrow ==
    ASSUME KLTypeOK, [Next]_klVars PROVE faults \in Nat /\ faults' \in Nat /\ faults <= faults'
<1>0. faults \in Nat
  BY DEF KLTypeOK, StoreTypeOK
<1>1. CASE UNCHANGED <<row, file>> /\ (NoFault \/ Fault(1))
  BY <1>0, <1>1 DEF NoFault, Fault
<1>2. CASE \E result : \E ok \in BOOLEAN : Durable(result, ok)
  BY <1>0, <1>2, StoreWrites
<1>3. CASE Crash \/ Boot
  <2>1. faults' = faults \/ Fault(ReconcileAttempts) \/ Fault(ReconcileAttempts + 1)
    BY <1>3 DEF Crash, Boot, ReconcileFails, NoFault
  <2> QED BY <1>0, <2>1, StoreAssumption DEF Fault
<1> QED BY <1>1, <1>2, <1>3, StoreSteps

(* A row that is off stays off until its hold elapses, which waits for a   *)
(* running import, or someone removes it.                                  *)
LEMMA OffRowKept ==
    ASSUME KLTypeOK, [Next]_klVars, ~Crash, ~Boot, row \in OffRows
    PROVE  \/ row' \in OffRows \/ Removing \/ imp.pc = "finish"
           \/ imp.pc \in {"idle", "staged", "returned", "listener"}
<1>1. ASSUME NEW result, NEW ok,
             \/ AddValidatorDurable("Disabled", result) \/ AddValidatorDurable("Enabled", result)
             \/ PersistSigningDisable(ok) \/ DisableSlashed(ok)
             \/ BeginDoppelgangerHold(result) \/ PersistKeystoreHold(result)
             \/ ReleaseDoppelgangerHold(result) \/ SaveConfig \/ UNCHANGED row
      PROVE  row' \in OffRows
  BY <1>1 DEF AddValidatorDurable, PersistSigningDisable, DisableSlashed, BeginDoppelgangerHold,
         PersistKeystoreHold, ReleaseDoppelgangerHold, PersistDisabled, CommitLessSafe,
         SaveConfig, storeVars, OffRows
<1>2. CASE Import
  BY <1>1, <1>2 DEF Import, ImportStage, ImportDuplicate, ImportHold, ImportRename, ImportMark,
         ImportAdmitHold, ImportPublish, ImportRegister, ImportClearDenylist, ImportReadmit,
         OnImport, ImportDisconnect, ImportUnpublish, ImportDiscard, ImportDeny,
         ImportFinishRollback, ImportLateDuplicate, ImportLateUnmark, ImportListener, ImportAt,
         storeVars
<1>3. CASE \E d \in Deletes : Delete(d)
  BY <1>1, <1>3 DEF Delete, DeleteSnapshot, DeleteDisable, DeleteDrain, DeleteCheck, DeleteLock,
         DeleteRefused, DeleteAbsent, DeleteUnlink, DeleteUnmark, DeleteDeny, DeleteForget,
         DeleteTouch, DeleteEnd, DeleteAt, Removing, storeVars
<1>4. CASE Refresh
  BY <1>1, <1>4 DEF Refresh, ProviderAdds, RefreshStart, RefreshPublish, RefreshRow,
         RefreshRecheck, RefreshRevoke, RefreshRegister, Removing, storeVars
<1>5. CASE Task \/ UNCHANGED klVars
  BY <1>1, <1>5 DEF Task, FinishEnable, MonitorDetect, MonitorDisable,
         MonitorNotify, WindowPasses, RecordCompletedImports, StoreStep, klVars, storeVars
<1> QED BY <1>2, <1>3, <1>4, <1>5 DEF Next

(* Whoever sets out to remove the row finds the key on the denylist.       *)
LEMMA RemovingSteps ==
    ASSUME KLInv, [Next]_klVars, Removing' PROVE Removing \/ mem'.denied
<1>0. KLTypeOK /\ TrackedHeld /\ ForgettingIsDenied /\ del \in [Deletes -> DeleteRecords] /\ ref \in Refreshes
  BY TypedParts DEF KLInv
<1>1. ASSUME mem' = Unpublished(mem), mem.denied PROVE mem'.denied
  BY <1>0, <1>1, KeyFields
<1>2. ASSUME NEW d \in Deletes, Delete(d) PROVE Removing \/ mem'.denied
  <2>1. CASE DeleteForget(d)
    <3>1. mem.denied
      BY <1>0, <2>1 DEF DeleteForget, DeleteAt, ForgettingIsDenied
    <3> QED BY <1>1, <2>1, <3>1 DEF DeleteForget
  <2>2. CASE DeleteAbsent(d) /\ DenylistInsert(TRUE)
    BY <1>0, <2>2, InsertDenies
  <2>3. CASE DeleteSnapshot(d) \/ DeleteEnd(d)
    <3>1. del'[d].pc \in {"snapped", "idle"}
      <4>1. CASE DeleteSnapshot(d)
        <5>1. PICK r : r = [del[d] EXCEPT !.pc = "snapped", !.member = mem.signer]
          OBVIOUS
        <5>2. r.pc = "snapped" /\ del' = [del EXCEPT ![d] = r]
          BY <1>0, <4>1, <5>1 DEF DeleteSnapshot, DeleteRecords
        <5> QED BY <1>0, <5>2
      <4>2. CASE DeleteEnd(d)
        BY <1>0, <4>2 DEF DeleteEnd, NoDelete
      <4> QED BY <2>3, <4>1, <4>2
    <3>2. UNCHANGED ref
      BY <2>3 DEF DeleteSnapshot, DeleteEnd, DeleteKeeps
    <3>3. \A e \in Deletes \ {d} : del'[e] = del[e]
      BY <1>0, <1>2, DeleteLocks
    <3> QED BY <3>1, <3>2, <3>3 DEF Removing
  <2>4. CASE \E pc : pc # "touch" /\ DeleteGoto(d, pc)
    <3>1. UNCHANGED ref
      BY <1>2 DEF Delete, DeleteSnapshot, DeleteDisable, DeleteDrain, DeleteCheck, DeleteLock,
         DeleteRefused, DeleteAbsent, DeleteUnlink, DeleteUnmark, DeleteDeny, DeleteForget,
         DeleteTouch, DeleteEnd, DeleteKeeps
    <3> QED BY <1>0, <2>4, <3>1, Gotos DEF Removing
  <2> QED BY <1>2, <2>1, <2>2, <2>3, <2>4 DEF Delete, DeleteDisable, DeleteDrain, DeleteCheck,
         DeleteLock, DeleteRefused, DeleteAbsent, DeleteUnlink, DeleteUnmark, DeleteDeny,
         DeleteTouch, DeleteSkip
<1>3. CASE RefreshRecheck
  <2>1. UNCHANGED del
    BY <1>3 DEF RefreshRecheck, RefreshKeeps
  <2>2. CASE mem.denied /\ mem' = Unpublished(mem)
    BY <1>1, <2>2
  <2>3. CASE RefreshGoto("rechecked")
    <3>1. ref'.pc = "rechecked"
      BY <1>0, <2>3 DEF RefreshGoto, Refreshes
    <3> QED BY <2>1, <3>1 DEF Removing
  <2> QED BY <1>3, <2>2, <2>3 DEF RefreshRecheck
<1>4. CASE Refresh /\ ~RefreshRecheck
  <2>1. UNCHANGED del
    BY <1>4 DEF Refresh, ProviderAdds, RefreshStart, RefreshPublish, RefreshRow,
         RefreshRevoke, RefreshRegister, RefreshKeeps
  <2>2. ref'.pc # "revoking" \/ UNCHANGED ref
    BY <1>0, <1>4 DEF Refresh, ProviderAdds, RefreshStart, RefreshPublish, RefreshRow,
         RefreshRevoke, RefreshRegister, RefreshGoto, NoRefresh, Refreshes
  <2> QED BY <2>1, <2>2 DEF Removing
<1>5. CASE Crash
  BY <1>5 DEF Crash, Removing, NoRefresh, NoDelete
<1>6. CASE Import \/ Task \/ Boot \/ UNCHANGED klVars
  <2>1. UNCHANGED <<del, ref>>
    BY <1>6 DEF Import, ImportStage, ImportDuplicate, ImportHold, ImportRename, ImportMark,
         ImportAdmitHold, ImportPublish, ImportRegister, ImportClearDenylist, ImportReadmit,
         OnImport, ImportDisconnect, ImportUnpublish, ImportDiscard, ImportDeny,
         ImportFinishRollback, ImportLateDuplicate, ImportLateUnmark, ImportListener, ImportKeeps,
         Task, FinishEnable, MonitorDetect, MonitorDisable, MonitorNotify, WindowPasses,
         RecordCompletedImports, StoreStep, Boot, klVars, actorVars
  <2> QED BY <2>1 DEF Removing
<1> QED BY <1>2, <1>3, <1>4, <1>5, <1>6 DEF Next

(* What a start finds.                                                     *)
LEMMA BootFacts ==
    ASSUME KLInv, Boot
    PROVE  /\ mem'.window = "Safe" => disk.sidecars = {}
           /\ disk.keystore /\ ~disk.denied => mem'.signer /\ mem'.known
           /\ imp'.pc = "idle" /\ ref'.pc = "idle" /\ UNCHANGED disk /\ ~Removing'
<1>0. ~up /\ DownIsBlank
  BY DEF Boot, KLInv
<1>1. PICK w \in BootWindow :
         mem' = [Blank EXCEPT !.signer = Loaded, !.mapped = Loaded, !.window = w,
                              !.denied = disk.denied, !.enabler = (row' \in HoldRows),
                              !.known = Loaded]
  BY DEF Boot
<1>2. mem'.window = w /\ mem'.signer = Loaded /\ mem'.known = Loaded
  BY <1>1 DEF Blank
<1>3. w = "Safe" => disk.sidecars = {}
  BY <1>1 DEF BootWindow, Unfinished
<1>4. disk.keystore /\ ~disk.denied => Loaded
  BY DEF Loaded
<1>5. imp' = NoImport /\ ref' = NoRefresh /\ del' = [d \in Deletes |-> NoDelete]
  BY <1>0 DEF Boot, actorVars, DownIsBlank
<1>6. imp'.pc = "idle" /\ ref'.pc = "idle" /\ ~Removing'
  BY <1>5 DEF NoImport, NoRefresh, NoDelete, Removing
<1> QED BY <1>2, <1>3, <1>4, <1>6 DEF Boot

(* An import that fails has met an error, one that goes on has its marker. *)
LEMMA ImportOutcomes ==
    ASSUME KLTypeOK
    PROVE  /\ ImportStage /\ imp'.pc = "staged" => "staged" \in disk'.sidecars
           /\ ImportMark /\ imp'.pc = "published" => "final" \in disk'.sidecars
           /\ /\ ImportStage \/ ImportHold \/ ImportRename \/ ImportMark \/ ImportAdmitHold
              /\ imp'.pc \in {"rollback", "discard"}
              => faults' >= faults + 1
           /\ ImportHold /\ imp'.pc = "held" => row' \in OffRows
           /\ ImportDiscard /\ imp.pc = "unlink" => faults' >= faults + 1 \/ ~disk'.keystore
<1>0. faults \in Nat /\ imp \in Imports
  BY TypedParts DEF KLTypeOK, StoreTypeOK
<1>1. Fault(1) \/ Fault(2) => faults' >= faults + 1
  BY <1>0 DEF Fault
<1>2. ImportStage => \/ imp'.pc = "staged" /\ "staged" \in disk'.sidecars
                     \/ imp'.pc = "discard" /\ Fault(1)
  <2>1. disk' = [disk EXCEPT !.sidecars = @ \cup {"staged"}] => "staged" \in disk'.sidecars
    BY DiskFields
  <2> QED BY <2>1, Gotos DEF ImportStage
<1>3. ImportMark => \/ imp'.pc = "published" /\ "final" \in disk'.sidecars
                    \/ imp'.pc \in {"rollback", "discard"} /\ Fault(1)
  <2>1. disk' = Marked => "final" \in disk'.sidecars
    BY DiskFields DEF Marked
  <2> QED BY <2>1, Gotos DEF ImportMark, PublishFailed
<1>4. ImportRename => imp'.pc = "renamed" \/ Fault(1)
  BY Gotos DEF ImportRename, PublishFailed
<1>5. PersistKeystoreHold("failed") => Fault(1) \/ Fault(2)
  BY DEF PersistKeystoreHold, AddValidatorDurable, BeginDoppelgangerHold, CommitLessSafe,
         PersistDisabled
<1>6. ASSUME NEW result \in {"inserted", "armed", "refused"}, PersistKeystoreHold(result)
      PROVE  row' \in OffRows
  BY <1>6 DEF PersistKeystoreHold, AddValidatorDurable, BeginDoppelgangerHold, CommitLessSafe,
         PersistDisabled, storeVars, OffRows
<1>7. ASSUME ImportHold PROVE \/ imp'.pc = "discard" /\ (Fault(1) \/ Fault(2))
                              \/ imp'.pc = "held" /\ row' \in OffRows
  <2>1. PICK result \in {"inserted", "armed", "refused", "failed"} :
           /\ PersistKeystoreHold(result)
           /\ imp' = [imp EXCEPT !.pc = IF result = "failed" THEN "discard" ELSE "held",
                                 !.inserted = (result = "inserted")]
    BY <1>7 DEF ImportHold
  <2>2. imp'.pc = IF result = "failed" THEN "discard" ELSE "held"
    BY <1>0, <2>1 DEF Imports
  <2> QED BY <1>5, <1>6, <2>1, <2>2
<1>8. ImportAdmitHold => imp'.pc = "armed" \/ Fault(1) \/ Fault(2)
  BY <1>5, Gotos DEF ImportAdmitHold
<1>9. ASSUME ImportDiscard, imp.pc = "unlink" PROVE Fault(1) \/ ~disk'.keystore
  <2>1. PICK ok \in BOOLEAN : UnlinkKeystore(ok)
    BY <1>9 DEF ImportDiscard, ImportAt
  <2>2. disk' = [disk EXCEPT !.keystore = FALSE] => ~disk'.keystore
    BY DiskFields
  <2> QED BY <2>1, <2>2 DEF UnlinkKeystore
<1> QED BY <1>1, <1>2, <1>3, <1>4, <1>7, <1>8, <1>9

(* The observed window.                                                    *)
LEMMA VettedStep == ASSUME KLInv, GuardInv, [Next]_klVars PROVE SafeIsVetted'
<1>0. KLTypeOK /\ SafeIsVetted
  BY DEF KLInv, GuardInv
<1>1. SUFFICES ASSUME mem'.window = "Safe" \/ imp'.pc = "duplicate", unvetted' PROVE FALSE
  BY DEF SafeIsVetted
<1>2. CASE ImportRename /\ imp'.pc = "renamed" /\ mem.window # "Safe"
  BY <1>1, <1>2 DEF ImportRename
<1>3. CASE unvetted
  <2>1. mem.window # "Safe" /\ imp.pc # "duplicate" /\ ~ImportLateDuplicate /\ ~WindowPasses
    BY <1>0, <1>1, <1>3, UnvettedSteps DEF SafeIsVetted
  <2>2. imp'.pc # "duplicate"
    BY <1>0, <2>1, ImportPairs, ImportAlone DEF Import
  <2>3. mem'.window = "Safe"
    BY <1>1, <2>2
  <2>4. CASE Boot
    BY <1>0, <1>1, <2>3, <2>4, BootFacts, UnvettedSteps
  <2>5. CASE Crash
    BY <2>3, <2>5 DEF Crash, Blank
  <2>6. CASE TouchesList /\ ~Crash /\ ~Boot
    BY <1>0, <2>1, <2>3, <2>6, ListSteps
  <2>7. CASE RefreshStart
    BY <1>0, <2>1, <2>3, <2>7, MemFields DEF RefreshStart
  <2> QED BY <1>0, <2>1, <2>3, <2>4, <2>5, <2>6, <2>7, MemSteps, MemFields
<1> QED BY <1>0, <1>1, <1>2, <1>3, UnvettedSteps

(* A DELETE begins to remove the rest once the keystore is unlinked.       *)
LEMMA UnlinkedStep == ASSUME KLInv, GuardInv, [Next]_klVars PROVE UnlinkedIsGone'
<1>0. KLTypeOK /\ TrackedHeld /\ UnlinkedIsGone /\ del \in [Deletes -> DeleteRecords]
  BY TypedParts DEF KLInv, GuardInv
<1>1. SUFFICES ASSUME NEW d \in Deletes, DeleteWorking(d)', disk'.keystore PROVE FALSE
  BY DEF UnlinkedIsGone
<1>2. CASE ImportRename
  <2>1. UNCHANGED del /\ tracked = "import"
    BY <1>0, <1>2, ImportPairs DEF ImportRename, ImportKeeps, TrackedHeld, ImportWorking
  <2> QED BY <1>0, <1>1, <2>1, RequestAssumption DEF TrackedHeld, DeleteWorking
<1>3. CASE disk.keystore
  <2>1. ~DeleteWorking(d)
    BY <1>0, <1>3 DEF UnlinkedIsGone
  <2>2. Delete(d)
    <3>1. del'[d] # del[d]
      BY <1>1, <2>1 DEF DeleteWorking
    <3>2. ASSUME NEW e \in Deletes, Delete(e) PROVE e = d
      BY <1>0, <3>1, <3>2, DeleteLocks
    <3>3. ~Crash
      BY <1>1 DEF Crash, DeleteWorking, NoDelete
    <3>4. ~Import
      BY <1>0, <3>1, ImportLocks
    <3>5. Refresh \/ Task \/ Boot \/ UNCHANGED klVars => UNCHANGED del
      BY DEF Refresh, ProviderAdds, RefreshStart, RefreshPublish, RefreshRow, RefreshRecheck,
           RefreshRevoke, RefreshRegister, RefreshKeeps, Task, FinishEnable, MonitorDetect,
           MonitorDisable, MonitorNotify, WindowPasses, RecordCompletedImports, StoreStep, Boot,
           klVars, actorVars
    <3> QED BY <3>1, <3>2, <3>3, <3>4, <3>5 DEF Next
  <2>3. CASE DeleteUnlink(d)
    <3>1. CASE UnlinkKeystore(TRUE)
      <4>1. disk' = [disk EXCEPT !.keystore = FALSE]
        BY <3>1 DEF UnlinkKeystore
      <4>2. ~disk'.keystore
        BY <1>0, <4>1, DiskFields
      <4> QED BY <1>1, <4>2
    <3>2. CASE DeleteSkip(d, mem)
      BY <1>0, <1>1, <3>2, Gotos DEF DeleteSkip, DeleteWorking
    <3> QED BY <2>3, <3>1, <3>2 DEF DeleteUnlink
  <2>4. CASE DeleteSnapshot(d)
    <3>1. PICK r : r = [del[d] EXCEPT !.pc = "snapped", !.member = mem.signer]
      OBVIOUS
    <3>2. r.pc = "snapped" /\ del' = [del EXCEPT ![d] = r]
      BY <1>0, <2>4, <3>1 DEF DeleteSnapshot, DeleteRecords
    <3> QED BY <1>0, <1>1, <3>2 DEF DeleteWorking
  <2>5. CASE DeleteEnd(d)
    BY <1>0, <1>1, <2>5 DEF DeleteEnd, NoDelete, DeleteWorking
  <2>6. CASE DeleteAbsent(d)
    <3>1. CASE DeleteSkip(d, mem)
      BY <1>0, <1>1, <3>1, Gotos DEF DeleteSkip, DeleteWorking
    <3>2. CASE del' = [del EXCEPT ![d] = [@ EXCEPT !.pc = "touch", !.present = FALSE]]
      <4>1. PICK r : r = [del[d] EXCEPT !.pc = "touch", !.present = FALSE]
        OBVIOUS
      <4>2. r.pc = "touch" /\ del' = [del EXCEPT ![d] = r]
        BY <1>0, <3>2, <4>1 DEF DeleteRecords
      <4> QED BY <1>0, <1>1, <4>2 DEF DeleteWorking
    <3> QED BY <2>6, <3>1, <3>2 DEF DeleteAbsent
  <2>7. CASE DeleteDisable(d) \/ DeleteDrain(d) \/ DeleteCheck(d) \/ DeleteLock(d)
             \/ DeleteRefused(d) \/ DeleteTouch(d)
    <3>1. PICK pc : DeleteGoto(d, pc) /\ pc \notin {"unlinked", "unmarked", "denied"}
      BY <2>7 DEF DeleteDisable, DeleteDrain, DeleteCheck, DeleteLock, DeleteRefused, DeleteTouch,
                  DeleteSkip
    <3> QED BY <1>0, <1>1, <3>1, Gotos DEF DeleteWorking
  <2>8. ~DeleteUnmark(d) /\ ~DeleteDeny(d) /\ ~DeleteForget(d)
    BY <2>1 DEF DeleteUnmark, DeleteDeny, DeleteForget, DeleteAt, DeleteWorking
  <2> QED BY <2>2, <2>3, <2>4, <2>5, <2>6, <2>7, <2>8 DEF Delete
<1> QED BY <1>0, <1>1, <1>2, <1>3, KeystoreSteps

(* Nobody but the import takes the markers of a running import.            *)
LEMMA MarkersStep == ASSUME KLInv, GuardInv, [Next]_klVars PROVE MarkersPlaced'
<1>0. KLTypeOK /\ TrackedHeld /\ MarkersPlaced
  BY DEF KLInv, GuardInv
<1>1. CASE Import
  <2>1. ~RecordCompletedImports /\ \A d \in Deletes : ~DeleteUnmark(d)
    <3>1. imp'.pc # imp.pc
      BY <1>0, <1>1, ImportPairs DEF Import
    <3> QED BY <3>1 DEF RecordCompletedImports, DeleteUnmark, DeleteKeeps, actorVars
  <2> QED BY <1>0, <1>1, <2>1, ImportPairs, ImportOutcomes, MarkerSteps DEF Import, MarkersPlaced
<1>2. CASE UNCHANGED imp
  <2>1. SUFFICES ASSUME imp.pc \in {"staged", "held", "renamed", "published", "armed", "mapped",
                                    "admitted", "cleared"}
                 PROVE  disk'.sidecars = disk.sidecars
    BY <1>0, <1>2, <2>1 DEF MarkersPlaced
  <2>2. tracked = "import"
    BY <1>0, <2>1 DEF TrackedHeld, ImportWorking
  <2>3. ~RecordCompletedImports /\ \A d \in Deletes : ~DeleteUnmark(d)
    BY <1>0, <2>2, RequestAssumption
       DEF RecordCompletedImports, DeleteUnmark, DeleteAt, TrackedHeld, DeleteWorking
  <2>4. ~Import
    BY <1>0, <1>2, ImportPairs DEF Import
  <2> QED BY <1>0, <2>3, <2>4, MarkerSteps DEF Import
<1>3. CASE imp'.pc = "idle"
  BY <1>3 DEF MarkersPlaced
<1> QED BY <1>1, <1>2, <1>3, ImportAlone

(* Errors of an import are counted.                                        *)
LEMMA FailureStep == ASSUME KLInv, GuardInv, [Next]_klVars PROVE FailureCounted'
<1>0. KLTypeOK /\ FailureCounted
  BY DEF KLInv, GuardInv
<1>1. faults \in Nat /\ faults' \in Nat /\ faults <= faults'
  BY <1>0, FaultsGrow
<1>2. CASE Import
  <2>1. imp'.pc \in {"rollback", "discard", "unlink", "unmark"} => faults' >= 1
    BY <1>0, <1>1, <1>2, ImportPairs, ImportOutcomes DEF Import, FailureCounted
  <2>2. imp'.pc = "unmark" => ImportDiscard /\ imp.pc = "unlink"
    BY <1>0, <1>2, ImportPairs DEF Import
  <2> QED BY <1>0, <1>1, <2>1, <2>2, ImportOutcomes DEF FailureCounted
<1>3. CASE UNCHANGED imp
  <2>1. imp.pc = "unmark" /\ disk'.keystore => disk.keystore
    BY <1>0, <1>3, KeystoreSteps
  <2> QED BY <1>0, <1>1, <1>3, <2>1 DEF FailureCounted
<1>4. CASE imp'.pc = "idle"
  BY <1>4 DEF FailureCounted
<1> QED BY <1>2, <1>3, <1>4, ImportAlone

(* Without errors file and memory agree.                                   *)
LEMMA WrittenStep == ASSUME KLInv, GuardInv, [Next]_klVars PROVE RowWritten'
<1>0. KLTypeOK /\ RowWritten
  BY DEF KLInv, GuardInv
<1>1. faults \in Nat /\ faults' \in Nat /\ faults <= faults'
  BY <1>0, FaultsGrow
<1>2. SUFFICES ASSUME up', faults' = 0 PROVE file' = row' \/ (file' = "Absent" /\ row' = "Enabled")
  BY DEF RowWritten
<1>3. CASE Boot
  <2>1. ~ReconcileFails
    BY <1>1, <1>2, StoreAssumption DEF ReconcileFails, Fault
  <2> QED BY <1>3, <2>1 DEF Boot, BootRow
<1>4. CASE Crash
  BY <1>2, <1>4 DEF Crash
<1>5. CASE ~Boot
  <2>1. up /\ faults = 0
    BY <1>0, <1>1, <1>2, <1>5, SignerSteps
  <2>2. file = row \/ (file = "Absent" /\ row = "Enabled")
    BY <1>0, <2>1 DEF RowWritten
  <2>3. CASE UNCHANGED <<row, file>>
    BY <2>2, <2>3
  <2>4. CASE \E result : \E ok \in BOOLEAN : Durable(result, ok)
    <3>1. file' = row' \/ UNCHANGED <<row, file>> \/ Elapse
      BY <1>0, <1>2, <2>1, <2>4, StoreWrites
    <3>2. CASE Elapse
      BY <2>2, <3>2 DEF Elapse, AfterDeadline
    <3> QED BY <2>3, <3>1, <3>2
  <2> QED BY <1>4, <1>5, <2>3, <2>4, StoreSteps
<1> QED BY <1>3, <1>5

(* A start finds no import, and a crash leaves none.                       *)
LEMMA RestartsIdle == ASSUME KLInv PROVE /\ Crash => imp'.pc = "idle"
                                         /\ Boot => imp.pc = "idle"
<1>1. Crash => imp' = NoImport
  BY DEF Crash
<1>2. Boot => imp = NoImport
  BY DEF Boot, KLInv, DownIsBlank
<1> QED BY <1>1, <1>2 DEF NoImport

(* The row of a running import stays off while it is needed.               *)
LEMMA HoldStep == ASSUME KLInv, GuardInv, [Next]_klVars PROVE HoldArmed'
<1>0. KLTypeOK /\ HoldArmed /\ RemovingDenied /\ DenylistDurable /\ DownIsBlank
  BY DEF KLInv, GuardInv
<1>1. SUFFICES ASSUME faults' = 0, ~excepted', imp'.pc \in {"held", "renamed"}
               PROVE  disk'.denied \/ row' \in OffRows
  BY DEF HoldArmed
<1>2. faults = 0 /\ ~excepted
  BY <1>0, <1>1, FaultsGrow, GoneSteps
<1>3. CASE ImportHold
  BY <1>0, <1>1, <1>3, ImportPairs, ImportOutcomes
<1>4. CASE ~ImportHold
  <2>1. imp.pc \in {"held", "renamed"}
    BY <1>0, <1>1, <1>4, ImportPairs, ImportAlone DEF Import
  <2>2. ~ImportClearDenylist /\ ~Crash /\ ~Boot
    <3>1. ~Crash /\ ~Boot
      BY <1>1, <2>1, RestartsIdle
    <3> QED BY <1>0, <2>1, <3>1, ImportPairs
  <2>3. CASE disk.denied
    BY <1>0, <2>2, <2>3, DeniedKept
  <2>4. CASE row \in OffRows /\ ~Removing
    BY <1>0, <2>1, <2>2, <2>4, OffRowKept
  <2>5. CASE Removing
    <3>1. disk.denied
      BY <1>0, <1>2, <2>1, <2>5 DEF RemovingDenied, DenylistDurable
    <3> QED BY <1>0, <2>2, <3>1, DeniedKept
  <2> QED BY <1>0, <1>2, <2>1, <2>3, <2>4, <2>5 DEF HoldArmed
<1> QED BY <1>3, <1>4

(* The ways a loaded key leaves the process.                               *)
LEMMA SignerLost ==
    ASSUME KLInv, [Next]_klVars, ~Boot, ~Crash, mem.signer, ~mem'.signer
    PROVE  \/ imp.pc = "rollback"
           \/ ref.pc = "mapped" /\ faults' > faults
           \/ mem.denied /\ mem'.denied /\ RefreshRecheck /\ (excepted' \/ gone)
           \/ mem.denied /\ mem'.denied /\ \E d \in Deletes : DeleteForget(d)
<1>0. KLTypeOK /\ ForgettingIsDenied /\ faults \in Nat
  BY FaultsGrow DEF KLInv
<1>1. CASE ImportUnpublish
  BY <1>0, <1>1, ImportPairs
<1>2. CASE RefreshRecheck /\ mem' = Unpublished(mem)
  <2>1. mem.denied
    <3>1. UNCHANGED mem => mem'.signer = mem.signer
      OBVIOUS
    <3> QED BY <1>2, <3>1 DEF RefreshRecheck
  <2>2. mem'.denied
    BY <1>0, <1>2, <2>1, KeyFields
  <2>3. excepted' = (excepted \/ ~gone)
    BY <1>2, <2>1 DEF RefreshRecheck
  <2>4. excepted' \/ gone
    BY <2>3, Zenon
  <2> QED BY <1>2, <2>1, <2>2, <2>4
<1>3. ASSUME NEW d \in Deletes, DeleteForget(d) PROVE mem.denied /\ mem'.denied
  BY <1>0, <1>3, KeyFields DEF DeleteForget, DeleteAt, ForgettingIsDenied
<1>4. CASE TouchesList
  BY <1>0, <1>4, ListSteps
<1>5. CASE RefreshStart
  <2>1. mem' = [mem EXCEPT !.known = TRUE]
    BY <1>5 DEF RefreshStart
  <2> QED BY <1>0, <2>1, KeyFields
<1>6. CASE WindowPasses
  <2>1. mem' = [mem EXCEPT !.window = "Safe"]
    BY <1>6 DEF WindowPasses
  <2> QED BY <1>0, <2>1, KeyFields
<1>7. CASE (ImportPublish \/ RefreshPublish) /\ mem' = Published(mem)
  BY <1>0, <1>7, MemFields
<1>8. CASE RefreshRow /\ AddValidatorDurable("Enabled", "failed")
  <2>1. Fault(1) \/ Fault(2)
    BY <1>8 DEF AddValidatorDurable, CommitLessSafe
  <2> QED BY <1>0, <1>8, <2>1 DEF Fault, RefreshRow
<1> QED BY <1>0, <1>1, <1>2, <1>3, <1>4, <1>5, <1>6, <1>7, <1>8, MemSteps DEF Keeping

(* A key that an import has published is loaded until the import ends.     *)
LEMMA PublishedStep == ASSUME KLInv, GuardInv, [Next]_klVars PROVE PublishedSigns'
<1>0. KLTypeOK /\ PublishedSigns /\ ClearingIsPresent /\ TrackedHeld /\ DownIsBlank
  BY DEF KLInv, GuardInv
<1>1. SUFFICES ASSUME faults' = 0, ~excepted', imp'.pc \in {"mapped", "admitted"}, ~mem'.signer
               PROVE  FALSE
  BY DEF PublishedSigns
<1>2. faults = 0 /\ ~excepted
  BY <1>0, <1>1, FaultsGrow, GoneSteps
<1>3. CASE ImportPublish
  BY <1>0, <1>1, <1>3, MemFields DEF ImportPublish
<1>4. CASE ~ImportPublish
  <2>1. imp.pc \in {"mapped", "admitted"}
    BY <1>0, <1>1, <1>4, ImportPairs, ImportAlone DEF Import
  <2>2. ~Crash /\ ~Boot
    BY <1>1, <2>1, RestartsIdle
  <2>3. mem.signer /\ ~gone /\ tracked = "import"
    BY <1>0, <1>2, <2>1 DEF PublishedSigns, ClearingIsPresent, TrackedHeld, ImportWorking
  <2>4. \A d \in Deletes : ~DeleteForget(d)
    BY <1>0, <2>3, RequestAssumption DEF DeleteForget, DeleteAt, TrackedHeld, DeleteWorking
  <2> QED BY <1>1, <1>2, <2>1, <2>2, <2>3, <2>4, SignerLost
<1> QED BY <1>3, <1>4

(* Who is about to remove the row has denied the key.                      *)
LEMMA RemovingStep == ASSUME KLInv, GuardInv, [Next]_klVars PROVE RemovingDenied'
<1>0. KLTypeOK /\ PublishedSigns /\ RemovingDenied
  BY DEF KLInv, GuardInv
<1>1. SUFFICES ASSUME faults' = 0, ~excepted', Removing', ~mem'.denied
               PROVE  mem'.signer /\ imp'.pc \in {"idle", "cleared", "returned", "listener"}
  BY DEF RemovingDenied
<1>2. faults = 0 /\ ~excepted
  BY <1>0, <1>1, FaultsGrow, GoneSteps
<1>3. Removing
  BY <1>1, RemovingSteps
<1>4. ~Crash /\ ~Boot
  BY <1>1, BootFacts DEF Crash, Removing, NoRefresh, NoDelete
<1>5. CASE mem.denied
  <2>1. ImportClearDenylist
    BY <1>0, <1>1, <1>4, <1>5, DeniedKept
  <2>2. TouchesList
    BY <2>1 DEF TouchesList
  <2>3. imp.pc = "admitted" /\ imp'.pc \in {"cleared", "idle"}
    BY <1>0, <2>1, ImportPairs
  <2> QED BY <1>0, <1>2, <1>4, <2>2, <2>3, ListSteps DEF PublishedSigns
<1>6. CASE ~mem.denied
  <2>1. mem.signer /\ imp.pc \in {"idle", "cleared", "returned", "listener"}
    BY <1>0, <1>2, <1>3, <1>6 DEF RemovingDenied
  <2>2. mem'.signer
    BY <1>1, <1>2, <1>4, <1>6, <2>1, SignerLost
  <2>3. ~ImportStage
    BY <2>1 DEF ImportStage
  <2>4. imp'.pc \in {"idle", "cleared", "returned", "listener"}
    BY <1>0, <2>1, <2>3, ImportPairs, ImportAlone DEF Import
  <2> QED BY <2>2, <2>4
<1> QED BY <1>5, <1>6

(* A final marker is not taken from an exposed keystore.                   *)
LEMMA MarkerKept ==
    ASSUME KLInv, GuardInv, [Next]_klVars, Exposed, faults <= 1
    PROVE  /\ "final" \in disk.sidecars => "final" \in disk'.sidecars
           /\ imp.pc = "idle" /\ disk.sidecars # {} => disk'.sidecars # {}
<1>0. /\ KLTypeOK /\ SafeIsVetted /\ FailureCounted /\ UnlinkedIsGone
      /\ disk.keystore /\ unvetted
  BY DEF KLInv, GuardInv, Exposed
<1>1. ~ImportLateUnmark
  BY <1>0, ImportPairs DEF SafeIsVetted
<1>2. ~(ImportDiscard /\ imp.pc = "unmark")
  BY <1>0 DEF FailureCounted
<1>3. ~RecordCompletedImports
  BY <1>0 DEF RecordCompletedImports, SafeIsVetted
<1>4. \A d \in Deletes : ~DeleteUnmark(d)
  BY <1>0 DEF DeleteUnmark, DeleteAt, UnlinkedIsGone, DeleteWorking
<1>5. ImportDuplicate \/ ImportDiscard => imp.pc # "idle"
  BY <1>0, ImportPairs
<1> QED BY <1>0, <1>1, <1>2, <1>3, <1>4, <1>5, MarkerSteps

(* The key that boot has loaded with a staged marker stays as it is.       *)
LEMMA LoadedStep ==
    ASSUME KLInv, GuardInv, [Next]_klVars, ~Crash, ~Boot, Exposed, faults <= 1, ~excepted,
           StagedLoaded
    PROVE  StagedLoaded' \/ disk'.denied
<1>0. KLTypeOK /\ DenylistDurable /\ ref \in Refreshes
  BY TypedParts DEF KLInv
<1>1. imp.pc = "idle" /\ mem.signer /\ mem.known /\ ref.pc = "idle" /\ disk.sidecars # {}
  BY DEF StagedLoaded
<1>2. disk'.sidecars # {}
  BY <1>1, MarkerKept
<1>3. imp'.pc = "idle"
  <2>1. ~ImportStage
    BY <1>1 DEF ImportStage
  <2> QED BY <1>0, <1>1, <2>1, ImportPairs, ImportAlone DEF Import
<1>4. ~RefreshStart /\ ~RefreshPublish /\ ~RefreshRow /\ ~RefreshRecheck /\ ~RefreshRevoke /\ ~RefreshRegister
  BY <1>1 DEF RefreshStart, RefreshPublish, RefreshRow, RefreshRecheck, RefreshRevoke, RefreshRegister
<1>5. ref'.pc = "idle"
  <2>1. ProviderAdds => UNCHANGED ref
    BY DEF ProviderAdds
  <2> QED BY <1>0, <1>1, <1>4, <2>1, SignerSteps DEF Refresh
<1>6. mem'.known
  <2>1. CASE TouchesList
    BY <1>0, <1>1, <2>1, ListSteps
  <2>2. CASE WindowPasses
    <3>1. mem' = [mem EXCEPT !.window = "Safe"]
      BY <2>2 DEF WindowPasses
    <3> QED BY <1>0, <1>1, <3>1, MemFields
  <2> QED BY <1>0, <1>1, <1>4, <2>1, <2>2, MemSteps, MemFields DEF Keeping
<1>7. mem'.signer \/ disk'.denied
  <2>1. SUFFICES ASSUME ~mem'.signer PROVE disk'.denied
    OBVIOUS
  <2>2. mem.denied
    BY <1>1, <1>4, <2>1, SignerLost
  <2>3. ~ImportClearDenylist
    BY <1>0, <1>1, ImportPairs
  <2> QED BY <1>0, <2>2, <2>3, DeniedKept DEF DenylistDurable
<1> QED BY <1>2, <1>3, <1>5, <1>6, <1>7 DEF StagedLoaded

(* The row of an import whose marking failed stays off until the keystore  *)
(* is gone.                                                                *)
LEMMA RowOffStep ==
    ASSUME KLInv, GuardInv, [Next]_klVars, ~Crash, ~Boot, ~excepted, RowOff, Exposed', faults' <= 1
    PROVE  RowOff' \/ disk'.denied
<1>0. KLTypeOK /\ DenylistDurable /\ faults \in Nat /\ faults' \in Nat /\ faults <= faults'
  BY FaultsGrow DEF KLInv
<1>1. /\ imp.pc \in {"rollback", "discard", "unlink"} /\ faults = 1
      /\ row \in OffRows /\ file = row /\ (Removing => mem.denied)
  BY DEF RowOff
<1>2. faults' = faults
  BY <1>0, <1>1
<1>3. CASE Removing
  <2>1. ~ImportClearDenylist
    BY <1>0, <1>1, ImportPairs
  <2> QED BY <1>0, <1>1, <1>3, <2>1, DeniedKept DEF DenylistDurable
<1>4. CASE ~Removing
  <2>1. row' \in OffRows
    BY <1>0, <1>1, <1>4, OffRowKept
  <2>2. file' = row'
    <3>1. ~Elapse
      BY <1>1, <2>1 DEF Elapse, AfterDeadline, OffRows
    <3> QED BY <1>0, <1>1, <1>2, <3>1, StoreSteps, StoreWrites
  <2>3. Removing' => mem'.denied
    BY <1>4, RemovingSteps
  <2>4. imp'.pc \in {"rollback", "discard", "unlink"}
    <3>1. imp.pc = "unlink" => ~ImportDiscard
      BY <1>0, <1>2, ImportOutcomes DEF Exposed
    <3> QED BY <1>0, <1>1, <3>1, ImportPairs, ImportAlone DEF Import
  <2> QED BY <1>1, <1>2, <2>1, <2>2, <2>3, <2>4 DEF RowOff
<1> QED BY <1>3, <1>4

(* publish_keystore: the marking that succeeds leaves the final marker,    *)
(* the one that fails finds the row off or the key denied.                 *)
LEMMA MarkStep ==
    ASSUME KLInv, GuardInv, ImportMark, [Next]_klVars, ~excepted, up, faults' <= 1
    PROVE  "final" \in disk'.sidecars \/ disk'.denied \/ RowOff'
<1>0. /\ KLTypeOK /\ HoldArmed /\ RowWritten /\ RemovingDenied
      /\ faults \in Nat /\ faults' \in Nat /\ faults <= faults'
  BY FaultsGrow DEF KLInv, GuardInv
<1>1. imp.pc = "renamed" /\ imp'.pc \in {"published", "rollback", "discard"}
  BY <1>0, ImportPairs
<1>2. CASE imp'.pc = "published"
  BY <1>0, <1>2, ImportOutcomes
<1>3. CASE imp'.pc \in {"rollback", "discard"}
  <2>1. faults = 0 /\ faults' = 1
    BY <1>0, <1>3, ImportOutcomes
  <2>2. UNCHANGED <<row, file, mem, del, ref>>
    BY DEF ImportMark, ImportKeeps
  <2>3. CASE disk.denied
    <3>1. ~ImportClearDenylist /\ ~Crash /\ ~Boot
      BY <1>0, <1>1, <1>3, ImportPairs, RestartsIdle
    <3> QED BY <1>0, <2>3, <3>1, DeniedKept
  <2>4. CASE row \in OffRows
    <3>1. file = row
      BY <1>0, <2>1, <2>4 DEF RowWritten, OffRows
    <3>2. Removing => mem.denied
      BY <1>0, <1>1, <2>1 DEF RemovingDenied
    <3>3. Removing' = Removing
      BY <2>2 DEF Removing
    <3> QED BY <1>3, <2>1, <2>2, <2>4, <3>1, <3>2, <3>3 DEF RowOff
  <2> QED BY <1>0, <1>1, <2>1, <2>3, <2>4 DEF HoldArmed
<1> QED BY <1>1, <1>2, <1>3

(* An exposed keystore has one of its guards, after every step.            *)
LEMMA ExposedStep == ASSUME KLInv, GuardInv, [Next]_klVars PROVE ExposedGuarded'
<1>0. /\ KLTypeOK /\ ExposedGuarded /\ MarkersPlaced
      /\ faults \in Nat /\ faults' \in Nat /\ faults <= faults'
  BY FaultsGrow DEF KLInv, GuardInv
<1>1. SUFFICES ASSUME faults' <= 1, ~excepted', Exposed', up'
               PROVE  \/ imp'.pc = "renamed" \/ "final" \in disk'.sidecars \/ disk'.denied
                      \/ StagedLoaded' \/ RowOff'
  BY DEF ExposedGuarded
<1>2. faults <= 1 /\ ~excepted
  BY <1>0, <1>1, GoneSteps
<1>3. CASE Boot
  <2>1. disk.sidecars # {}
    BY <1>0, <1>1, <1>3, UnvettedSteps DEF Exposed
  <2>2. /\ imp'.pc = "idle" /\ ref'.pc = "idle" /\ disk' = disk
        /\ disk.keystore /\ ~disk.denied => mem'.signer /\ mem'.known
    BY <1>3, BootFacts
  <2> QED BY <1>1, <2>1, <2>2 DEF Exposed, StagedLoaded
<1>4. CASE ImportRename /\ imp'.pc = "renamed"
  BY <1>4
<1>5. CASE ~Boot /\ ~(ImportRename /\ imp'.pc = "renamed")
  <2>1. up /\ ~Crash
    BY <1>0, <1>1, <1>5, SignerSteps DEF Crash
  <2>2. Exposed
    BY <1>0, <1>1, <1>5, KeystoreSteps, UnvettedSteps DEF Exposed
  <2>3. CASE imp.pc = "renamed" /\ ~ImportMark
    BY <1>0, <2>1, <2>3, ImportPairs, ImportAlone DEF Import
  <2>4. CASE ImportMark
    BY <1>1, <1>2, <2>1, <2>4, MarkStep
  <2>5. CASE "final" \in disk.sidecars
    BY <1>2, <2>2, <2>5, MarkerKept
  <2>6. CASE disk.denied
    <3>1. CASE ImportClearDenylist
      BY <1>0, <1>2, <2>2, <3>1, ImportPairs, MarkerKept DEF MarkersPlaced
    <3> QED BY <1>0, <1>5, <2>1, <2>6, <3>1, DeniedKept
  <2>7. CASE StagedLoaded
    BY <1>2, <1>5, <2>1, <2>2, <2>7, LoadedStep
  <2>8. CASE RowOff
    BY <1>1, <1>2, <1>5, <2>1, <2>8, RowOffStep
  <2> QED BY <1>0, <1>2, <2>1, <2>2, <2>3, <2>4, <2>5, <2>6, <2>7, <2>8 DEF ExposedGuarded
<1> QED BY <1>3, <1>4, <1>5

(* What a start would find, while the process runs and while it is down.   *)
LEMMA GuardedStep ==
    ASSUME KLInv, GuardInv, [Next]_klVars, ExposedGuarded', MarkersPlaced' PROVE GuardedSoFar'
<1>0. /\ KLTypeOK /\ DownIsBlank /\ GuardedSoFar
      /\ faults \in Nat /\ faults' \in Nat /\ faults <= faults'
  BY FaultsGrow DEF KLInv, GuardInv
<1>1. CASE up'
  <2>1. RowOff' => file' \in OffRows
    BY DEF RowOff
  <2> QED BY <1>1, <2>1 DEF ExposedGuarded, MarkersPlaced, GuardedSoFar, KeystoreGuarded, Exposed,
         StagedLoaded, OffRows
<1>2. CASE Crash
  <2>1. UNCHANGED <<disk, file, unvetted, excepted, faults>>
    BY <1>2 DEF Crash, historyVars
  <2> QED BY <1>0, <2>1 DEF GuardedSoFar, KeystoreGuarded
<1>3. CASE ~up' /\ ~Crash
  <2>1. ~up
    <3>1. up => UNCHANGED up \/ Crash
      BY DEF Next, Import, ImportStage, ImportDuplicate, ImportHold, ImportRename, ImportMark,
         ImportAdmitHold, ImportPublish, ImportRegister, ImportClearDenylist, ImportReadmit,
         OnImport, ImportDisconnect, ImportUnpublish, ImportDiscard, ImportDeny,
         ImportFinishRollback, ImportLateDuplicate, ImportLateUnmark, ImportListener, ImportKeeps,
         Delete, DeleteSnapshot, DeleteDisable, DeleteDrain, DeleteCheck, DeleteLock,
         DeleteRefused, DeleteAbsent, DeleteUnlink, DeleteUnmark, DeleteDeny, DeleteForget,
         DeleteTouch, DeleteEnd, DeleteKeeps, Refresh, ProviderAdds, RefreshStart,
         RefreshPublish, RefreshRow, RefreshRecheck, RefreshRevoke, RefreshRegister,
         RefreshKeeps, Task, FinishEnable, MonitorDetect, MonitorDisable,
         MonitorNotify, WindowPasses, RecordCompletedImports, StoreStep, Boot, klVars, actorVars
    <3> QED BY <1>3, <3>1
  <2>2. /\ row = "Absent" /\ imp.pc = "idle" /\ ref.pc = "idle" /\ monitor = "idle"
        /\ \A d \in Deletes : del[d].pc = "idle"
        /\ ~mem.enabler /\ mem.window = "Unmonitored"
    BY <1>0, <2>1 DEF DownIsBlank, NoImport, NoRefresh, NoDelete, Blank
  <2>3. ~Import /\ ~Boot /\ \A d \in Deletes : ~Delete(d)
    BY <1>3, <2>1, <2>2 DEF Import, ImportStage, ImportDuplicate, ImportHold, ImportRename, ImportMark,
         ImportAdmitHold, ImportPublish, ImportRegister, ImportClearDenylist, ImportReadmit,
         OnImport, ImportDisconnect, ImportUnpublish, ImportDiscard, ImportDeny,
         ImportFinishRollback, ImportLateDuplicate, ImportLateUnmark, ImportListener, ImportAt,
         Delete, DeleteSnapshot, DeleteDisable, DeleteDrain, DeleteCheck, DeleteLock,
         DeleteRefused, DeleteAbsent, DeleteUnlink, DeleteUnmark, DeleteDeny, DeleteForget,
         DeleteTouch, DeleteEnd, DeleteAt, Boot
  <2>4. /\ UNCHANGED <<unvetted, excepted>>
        /\ UNCHANGED disk \/ disk' = [disk EXCEPT !.secret = TRUE]
        /\ UNCHANGED file \/ Elapse
    BY <1>3, <2>1, <2>2, <2>3 DEF Next, Refresh, ProviderAdds, RefreshStart,
         RefreshPublish, RefreshRow, RefreshRecheck, RefreshRevoke, RefreshRegister,
         Task, FinishEnable, MonitorDetect, MonitorDisable, MonitorNotify, WindowPasses,
         RecordCompletedImports, StoreStep, klVars, storeVars, historyVars
  <2>5. disk'.keystore = disk.keystore /\ disk'.sidecars = disk.sidecars /\ disk'.denied = disk.denied
    BY <1>0, <2>4, DiskFields, KeyFields, TypedParts DEF Disks
  <2>6. file \notin {"Enabled", "Absent"} => file' \notin {"Enabled", "Absent"}
    BY <2>4 DEF Elapse, AfterDeadline
  <2> QED BY <1>0, <2>4, <2>5, <2>6 DEF GuardedSoFar, KeystoreGuarded
<1> QED BY <1>1, <1>2, <1>3

(* An installation has no import under way, and no history.                *)
LEMMA GuardInvInit == Init => GuardInv
<1>1. SUFFICES ASSUME Init PROVE GuardInv
  OBVIOUS
<1>2. /\ imp = NoImport /\ ~unvetted /\ ~up /\ ref = NoRefresh
      /\ del = [d \in Deletes |-> NoDelete] /\ mem = Blank
  BY <1>1 DEF Init
<1>3. /\ imp.pc = "idle" /\ ref.pc = "idle" /\ \A d \in Deletes : del[d].pc = "idle"
  BY <1>2 DEF NoImport, NoRefresh, NoDelete
<1>4. SafeIsVetted /\ UnlinkedIsGone /\ MarkersPlaced /\ FailureCounted /\ RowWritten
  BY <1>2, <1>3 DEF SafeIsVetted, UnlinkedIsGone, DeleteWorking, MarkersPlaced, FailureCounted,
       RowWritten
<1>5. HoldArmed /\ PublishedSigns /\ RemovingDenied /\ ExposedGuarded /\ GuardedSoFar
  BY <1>2, <1>3 DEF HoldArmed, PublishedSigns, RemovingDenied, Removing, ExposedGuarded, Exposed,
       GuardedSoFar, KeystoreGuarded
<1> QED BY <1>4, <1>5 DEF GuardInv

(* Every step of the process, and its restarts, keep the guards.           *)
LEMMA GuardInvStep == ASSUME KLInv, GuardInv, [Next]_klVars PROVE GuardInv'
  BY VettedStep, UnlinkedStep, MarkersStep, FailureStep, WrittenStep, HoldStep, PublishedStep,
     RemovingStep, ExposedStep, GuardedStep DEF GuardInv

(* With at most one I/O error so far, a restart finds an unvetted keystore *)
(* guarded, wherever an import, DELETEs, a refresh and crashes have left   *)
(* it: publish_keystore and its rollback survive any single failure.       *)
THEOREM GuardedAfterOneError == Spec => [](faults <= 1 => KeystoreGuarded)
<1>1. Init => KLInv /\ GuardInv
  BY KLInvInit, GuardInvInit
<1>2. KLInv /\ GuardInv /\ [Next]_klVars => (KLInv /\ GuardInv)'
  BY KLInvStep, GuardInvStep
<1>3. KLInv /\ GuardInv => (faults <= 1 => KeystoreGuarded)
  BY DEF GuardInv, GuardedSoFar
<1> QED BY <1>1, <1>2, <1>3, PTL DEF Spec
=============================================================================
