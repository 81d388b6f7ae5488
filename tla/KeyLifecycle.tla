----------------------------- MODULE KeyLifecycle -----------------------------
(***************************************************************************)
(* The life of one local key in rvc: keystore import with its rollbacks    *)
(* (keymanager_adapters/keystore.rs), admission (key_admission.rs), the    *)
(* Keymanager API's DELETE and its hold and enable task                    *)
(* (keymanager-api/src/handlers.rs and lifecycle.rs), the secret-provider  *)
(* refresh, the slashing monitor and the boot sequence, over the validator *)
(* store and the deletion denylist.                                        *)
(*                                                                         *)
(* Three locks matter here.  tracked_keys serialises import and delete,    *)
(* state_lock the lifecycle calls; on_delete takes tracked_keys inside     *)
(* state_lock.  Refresh takes neither.  Sections under one lock that no    *)
(* other process can look into are one step; where a crash, a refresh or a *)
(* lifecycle call may come between two effects, they are two.              *)
(*                                                                         *)
(* Doppelganger protection is on, so an import carries a hold.  The        *)
(* forward window is reduced to its states; module ForwardWindow has it in *)
(* full.                                                                   *)
(***************************************************************************)
EXTENDS ValidatorStore, FiniteSets

CONSTANTS
    None,
    Deletes         \* concurrent DELETE requests that name the key

ASSUME RequestAssumption == /\ "import" \notin Deletes
                            /\ None \notin Deletes \cup {"import"}

VARIABLES
    up,             \* the process runs
    mem,            \* what the process knows of the key
    disk,           \* keystore file, import markers, denylist line, and
                    \* whether a secret provider serves the key
    tracked,        \* who holds tracked_keys, or None
    stateLock,      \* who holds state_lock across steps, or None
    imp,            \* the import request
    del,            \* the DELETE requests
    ref,            \* the refresh task
    monitor,        \* the slashing monitor
    gone,           \* a DELETE took effect and no import since (history)
    slashed,        \* a slashing disable returned Ok for this row (history)
    excepted,       \* a denylist rewrite failed after its rename, or a refresh
                    \* revoked a re-import (history)
    unvetted        \* the keystore's import window is not yet observed (history)

actorVars == <<tracked, stateLock, imp, del, ref, monitor>>
historyVars == <<gone, slashed, excepted, unvetted>>
klVars == <<storeVars, up, mem, disk, actorVars, historyVars>>

Blank == [signer   |-> FALSE,           \* CompositeSigner local key
          mapped   |-> FALSE,           \* PubkeyMap
          window   |-> "Unmonitored",   \* ForwardWindowMachine
          quiesced |-> FALSE,           \* QuiesceRegistry
          denied   |-> FALSE,           \* DeletionDenylist, in memory
          enabler  |-> FALSE,           \* a live enable task and its token
          known    |-> FALSE]           \* RefreshService.known_pubkeys

NoImport == [pc |-> "idle", inserted |-> FALSE, rollback |-> FALSE, stuck |-> FALSE]

NoDelete == [pc |-> "idle", member |-> FALSE, present |-> FALSE]

NoRefresh == [pc |-> "idle", inserted |-> FALSE]

ImportPcs == {"idle", "staged", "held", "renamed", "published", "armed", "mapped",
              "admitted", "cleared", "returned", "duplicate", "rollback", "discard",
              "unlink", "unmark", "deny", "finish", "listener"}

DeletePcs == {"idle", "snapped", "disabled", "drained", "checked", "locked", "unlinked",
              "unmarked", "denied", "touch", "ending"}

KLTypeOK ==
    /\ StoreTypeOK
    /\ up \in BOOLEAN
    /\ mem \in [signer : BOOLEAN, mapped : BOOLEAN, window : {"Unmonitored", "Pending", "Safe"},
                quiesced : BOOLEAN, denied : BOOLEAN, enabler : BOOLEAN, known : BOOLEAN]
    /\ disk \in [keystore : BOOLEAN, sidecars : SUBSET {"staged", "final"}, denied : BOOLEAN,
                 secret : BOOLEAN]
    /\ tracked \in {None, "import"} \cup Deletes
    /\ stateLock \in {None} \cup Deletes
    /\ imp \in [pc : ImportPcs, inserted : BOOLEAN, rollback : BOOLEAN, stuck : BOOLEAN]
    /\ del \in [Deletes -> [pc : DeletePcs, member : BOOLEAN, present : BOOLEAN]]
    /\ ref \in [pc : {"idle", "checked", "mapped", "rowed", "revoking", "rechecked"},
                inserted : BOOLEAN]
    /\ monitor \in {"idle", "detected", "notify"}
    /\ {gone, slashed, excepted, unvetted} \subseteq BOOLEAN

(* delete_inflight: counts of live requests, and of those that found the   *)
(* key when they began.                                                    *)
InFlight == {d \in Deletes : del[d].pc # "idle"}
InFlightForKey == {d \in InFlight : del[d].member}

(* register_for_import: a monitored key keeps its state.                   *)
RegisterForImport == IF mem.window = "Unmonitored" THEN "Pending" ELSE mem.window

Unpublished(m) == [m EXCEPT !.signer = FALSE, !.mapped = FALSE, !.window = "Unmonitored"]

(* A row that is gone takes its slashing disable with it.                  *)
ForgetRow == slashed' = (slashed /\ row' # "Absent")

-----------------------------------------------------------------------------
(* DeletionDenylist.insert: of a key the set has, nothing; of a new one a  *)
(* line is appended, and a failure takes the key out of the set again,     *)
(* whether or not the line reached the file.                               *)
DenylistInsert(ok) ==
    \/ /\ ok /\ NoFault
       /\ mem' = [mem EXCEPT !.denied = TRUE]
       /\ disk' = [disk EXCEPT !.denied = mem.denied => @]
    \/ /\ ~ok /\ ~mem.denied /\ Fault(1)
       /\ \E line \in {TRUE, disk.denied} : disk' = [disk EXCEPT !.denied = line]
       /\ UNCHANGED mem

(* DeletionDenylist.remove: the file is rewritten without the key; after a *)
(* failure before or after the rename the set has the key again.           *)
DenylistRemove(ok) ==
    \/ /\ ok /\ NoFault
       /\ mem' = [mem EXCEPT !.denied = FALSE]
       /\ disk' = [disk EXCEPT !.denied = ~mem.denied /\ @]
       /\ UNCHANGED excepted
    \/ /\ ~ok /\ mem.denied /\ Fault(1)
       /\ \E line \in {FALSE, disk.denied} : disk' = [disk EXCEPT !.denied = line]
       /\ excepted' = (excepted \/ disk.denied # disk'.denied)
       /\ UNCHANGED mem

(* Unlinking: the file is gone, or the call fails and it stays.            *)
UnlinkKeystore(ok) ==
    \/ ok /\ disk' = [disk EXCEPT !.keystore = FALSE] /\ NoFault
    \/ ~ok /\ disk.keystore /\ UNCHANGED disk /\ Fault(1)

UnlinkMarker(name, ok) ==
    \/ ok /\ disk' = [disk EXCEPT !.sidecars = @ \ {name}] /\ NoFault
    \/ ~ok /\ name \in disk.sidecars /\ UNCHANGED disk /\ Fault(1)

-----------------------------------------------------------------------------
(* import_keystore_blocking, under tracked_keys to the end.                *)

ImportAt(pc) == imp.pc = pc

ImportGoto(pc) == imp' = [imp EXCEPT !.pc = pc]

(* Return with nothing owed: tracked_keys is released.                     *)
ImportReturn == imp' = NoImport /\ tracked' = None

ImportKeeps == UNCHANGED <<up, stateLock, del, ref, monitor>>

(* Not a duplicate and no DELETE of the key in flight: keystore and marker *)
(* are written under names boot does not load.                             *)
ImportStage ==
    /\ up /\ ImportAt("idle") /\ tracked = None
    /\ ~mem.signer /\ InFlightForKey = {}
    /\ tracked' = "import"
    /\ \/ ImportGoto("staged") /\ disk' = [disk EXCEPT !.sidecars = @ \cup {"staged"}] /\ NoFault
       \/ ImportGoto("discard") /\ UNCHANGED disk /\ Fault(1)
    /\ UNCHANGED <<row, file, mem, historyVars>> /\ ImportKeeps

(* AlreadyPresent before the rename: only this import's partials go.       *)
ImportDuplicate ==
    /\ imp.pc \in {"staged", "held"} /\ mem.mapped
    /\ \E ok \in BOOLEAN : UnlinkMarker("staged", ok)
    /\ ImportReturn
    /\ UNCHANGED <<row, file, mem, historyVars>> /\ ImportKeeps

(* persist_keystore_hold, while the keystore is still a partial            *)
ImportHold ==
    /\ ImportAt("staged") /\ ~mem.mapped
    /\ \E result \in {"inserted", "armed", "refused", "failed"} :
        /\ PersistKeystoreHold(result)
        /\ imp' = [imp EXCEPT !.pc = IF result = "failed" THEN "discard" ELSE "held",
                              !.inserted = (result = "inserted")]
    /\ UNCHANGED <<mem, disk, tracked, historyVars>> /\ ImportKeeps

(* publish_keystore: a failure rolls the row back only if it is ours.      *)
PublishFailed == ImportGoto(IF imp.inserted THEN "rollback" ELSE "discard") /\ Fault(1)

ImportRename ==
    /\ ImportAt("held") /\ ~mem.mapped
    /\ \/ ImportGoto("renamed") /\ disk' = [disk EXCEPT !.keystore = TRUE] /\ NoFault
          /\ unvetted' = (mem.window # "Safe")
       \/ PublishFailed /\ UNCHANGED <<disk, unvetted>>
    /\ UNCHANGED <<row, file, mem, tracked, gone, slashed, excepted>> /\ ImportKeeps

Marked == [disk EXCEPT !.sidecars = (@ \ {"staged"}) \cup {"final"}]

ImportMark ==
    /\ ImportAt("renamed")
    /\ \/ ImportGoto("published") /\ disk' = Marked /\ NoFault
       \/ PublishFailed /\ disk' \in {disk, Marked}
    /\ UNCHANGED <<row, file, mem, tracked, historyVars>> /\ ImportKeeps

-----------------------------------------------------------------------------
(* admit of a keystore: hold row, signer, map, window, in this order.      *)

ImportAdmitHold ==
    /\ ImportAt("published") /\ ~mem.mapped
    /\ \E result \in {"inserted", "armed", "refused", "failed"} :
        /\ PersistKeystoreHold(result)
        /\ ImportGoto(IF result = "failed" THEN "rollback" ELSE "armed")
    /\ UNCHANGED <<mem, disk, tracked, historyVars>> /\ ImportKeeps

(* Signer and map are two inserts; whoever reads between them is in the    *)
(* position of one who read before both.                                   *)
Published(m) == [m EXCEPT !.signer = TRUE, !.mapped = TRUE]

ImportPublish ==
    /\ ImportAt("armed") /\ ImportGoto("mapped")
    /\ mem' = Published(mem)
    /\ gone' = FALSE
    /\ UNCHANGED <<storeVars, disk, tracked, slashed, excepted, unvetted>> /\ ImportKeeps

ImportRegister ==
    /\ ImportAt("mapped") /\ ImportGoto("admitted")
    /\ mem' = [mem EXCEPT !.window = RegisterForImport]
    /\ UNCHANGED <<storeVars, disk, tracked, historyVars>> /\ ImportKeeps

(* SEC-1b: the denylist entry goes last.  When it cannot be removed the    *)
(* import reports an error and the key stays loaded and quiesced.          *)
ImportClearDenylist ==
    /\ ImportAt("admitted")
    /\ \/ DenylistRemove(TRUE) /\ ImportGoto("cleared") /\ UNCHANGED tracked
       \/ DenylistRemove(FALSE) /\ ImportReturn
    /\ UNCHANGED <<row, file, gone, slashed, unvetted>> /\ ImportKeeps

(* readmit, then tracked_keys is released.                                 *)
ImportReadmit ==
    /\ ImportAt("cleared") /\ ImportGoto("returned")
    /\ mem' = [mem EXCEPT !.quiesced = @ /\ InFlightForKey # {}]
    /\ tracked' = None
    /\ UNCHANGED <<storeVars, disk, historyVars>> /\ ImportKeeps

(* DoppelgangerLifecycle.on_import, under state_lock                       *)
OnImport ==
    /\ ImportAt("returned") /\ stateLock = None
    /\ \E result \in {"armed", "refused", "failed"} :
        /\ BeginDoppelgangerHold(result)
        /\ mem' = IF result = "armed"
                  THEN [mem EXCEPT !.window = RegisterForImport, !.enabler = TRUE]
                  ELSE mem
    /\ imp' = NoImport
    /\ UNCHANGED <<disk, tracked, historyVars>> /\ ImportKeeps

(* The client disconnects and the handler is dropped.                      *)
ImportDisconnect ==
    /\ ImportAt("returned") /\ imp' = NoImport
    /\ UNCHANGED <<storeVars, mem, disk, tracked, historyVars>> /\ ImportKeeps

-----------------------------------------------------------------------------
(* Failed imports.  rollback_failed_keystore unpublishes first.            *)

ImportUnpublish ==
    /\ ImportAt("rollback")
    /\ mem' = Unpublished(mem)
    /\ imp' = [imp EXCEPT !.pc = "discard", !.rollback = TRUE]
    /\ UNCHANGED <<storeVars, disk, tracked, historyVars>> /\ ImportKeeps

(* discard_staged_keystore: the staged marker, the keystore, the final     *)
(* marker, each of which may stay; then the directory is synced, which may *)
(* fail too, and a key with a file left is denylisted.                     *)
Unlinked(ok, pc) == imp' = [imp EXCEPT !.pc = pc, !.stuck = @ \/ ~ok]

ImportDiscard ==
    /\ \E ok \in BOOLEAN :
        \/ ImportAt("discard") /\ UnlinkMarker("staged", ok) /\ Unlinked(ok, "unlink")
        \/ ImportAt("unlink") /\ UnlinkKeystore(ok) /\ Unlinked(ok, "unmark")
        \/ ImportAt("unmark") /\ UnlinkMarker("final", ok) /\ Unlinked(ok, "deny")
    /\ UNCHANGED <<row, file, mem, tracked, historyVars>> /\ ImportKeeps

ImportDeny ==
    /\ ImportAt("deny")
    /\ \E synced \in BOOLEAN :
        /\ IF imp.stuck THEN \E ok \in BOOLEAN : DenylistInsert(ok)
           ELSE UNCHANGED <<mem, disk>> /\ IF synced THEN NoFault ELSE Fault(1)
        /\ IF imp.rollback THEN Unlinked(synced, "finish") /\ UNCHANGED tracked ELSE ImportReturn
    /\ UNCHANGED <<row, file, historyVars>> /\ ImportKeeps

\* Mutant: the listener runs with tracked_keys still held.
TombstoneUnderLock ==
    IF row = "Absent"
    THEN /\ \E result \in {"inserted", "failed"} : AddValidatorDurable("Disabled", result)
         /\ ImportReturn
    ELSE /\ \E ok \in BOOLEAN : PersistSigningDisable(ok)
         /\ ImportGoto("listener") /\ UNCHANGED tracked

(* keep_disabled_tombstone; the listener is owed once a row was disabled.  *)
Tombstone ==
    IF row = "Absent"
    THEN /\ \E result \in {"inserted", "failed"} : AddValidatorDurable("Disabled", result)
         /\ ImportReturn
    ELSE /\ \E ok \in BOOLEAN : PersistSigningDisable(ok)
         /\ ImportGoto("listener") /\ tracked' = None

RemoveInsertedRow == \E result \in {"removed", "absent", "failed"} : RemoveValidatorDurable(result)

(* finish_keystore_rollback: the row goes only after the files.            *)
ImportFinishRollback ==
    /\ ImportAt("finish")
    /\ \/ /\ ~imp.stuck
          /\ IF imp.inserted THEN RemoveInsertedRow ELSE UNCHANGED storeVars
          /\ ImportReturn
       \/ /\ imp.stuck
          /\ IF imp.inserted \/ row \in HoldRows \cup {"Absent"}
             THEN Tombstone ELSE ImportReturn /\ UNCHANGED storeVars
    /\ ForgetRow /\ UNCHANGED <<mem, disk, gone, excepted, unvetted>> /\ ImportKeeps

(* AlreadyPresent inside admit: the renamed files are unlinked, keystore   *)
(* first; tombstone_late_duplicate if one stays.                           *)
ImportLateDuplicate ==
    /\ ImportAt("published") /\ mem.mapped
    /\ \E ok \in BOOLEAN : UnlinkKeystore(ok) /\ Unlinked(ok, "duplicate")
    /\ unvetted' = FALSE
    /\ UNCHANGED <<row, file, mem, tracked, gone, slashed, excepted>> /\ ImportKeeps

TombstoneOwed == imp.inserted \/ row = "Absent"

ImportLateEnd(discarded) ==
    IF discarded \/ ~TombstoneOwed THEN ImportReturn
    ELSE imp' = [imp EXCEPT !.pc = "finish", !.stuck = TRUE] /\ UNCHANGED tracked

(* The marker goes next; the sync of the directory counts as much as the   *)
(* unlinks do.                                                             *)
ImportLateUnmark ==
    /\ ImportAt("duplicate")
    /\ \/ \E ok \in BOOLEAN : UnlinkMarker("final", ok) /\ ImportLateEnd(ok /\ ~imp.stuck)
       \/ disk' = [disk EXCEPT !.sidecars = @ \ {"final"}] /\ Fault(1) /\ ImportLateEnd(FALSE)
    /\ UNCHANGED <<row, file, mem, historyVars>> /\ ImportKeeps

(* run_disable_listener: cancel_enable_on_disable, under state_lock.       *)
ImportListener ==
    /\ ImportAt("listener") /\ stateLock = None
    /\ mem' = [mem EXCEPT !.enabler = FALSE]
    /\ imp' = NoImport
    /\ tracked' = IF tracked = "import" THEN None ELSE tracked
    /\ UNCHANGED <<storeVars, disk, historyVars>> /\ ImportKeeps

Import == \/ ImportStage \/ ImportDuplicate \/ ImportHold \/ ImportRename \/ ImportMark
          \/ ImportAdmitHold \/ ImportPublish \/ ImportRegister
          \/ ImportClearDenylist \/ ImportReadmit \/ OnImport \/ ImportDisconnect
          \/ ImportUnpublish \/ ImportDiscard \/ ImportDeny \/ ImportFinishRollback
          \/ ImportLateDuplicate \/ ImportLateUnmark \/ ImportListener

-----------------------------------------------------------------------------
(* DELETE /eth/v1/keystores, one request that names the key.               *)

DeleteAt(d, pc) == del[d].pc = pc

DeleteGoto(d, pc) == del' = [del EXCEPT ![d].pc = pc]

DeleteKeeps == UNCHANGED <<up, imp, ref, monitor>>

(* membership_for_delete *)
DeleteSnapshot(d) ==
    /\ up /\ DeleteAt(d, "idle") /\ tracked = None
    /\ del' = [del EXCEPT ![d] = [@ EXCEPT !.pc = "snapped", !.member = mem.signer]]
    /\ UNCHANGED <<storeVars, mem, disk, tracked, stateLock, historyVars>> /\ DeleteKeeps

(* disable_for_delete of a member, under state_lock: the enable task is    *)
(* cancelled before the row is disabled.                                   *)
DeleteDisable(d) ==
    /\ DeleteAt(d, "snapped")
    /\ IF del[d].member
       THEN /\ stateLock = None
            /\ mem' = [mem EXCEPT !.enabler = FALSE]
            /\ \E ok \in BOOLEAN :
                PersistSigningDisable(ok) /\ DeleteGoto(d, IF ok THEN "disabled" ELSE "ending")
       ELSE DeleteGoto(d, "drained") /\ UNCHANGED <<mem, storeVars>>
    /\ UNCHANGED <<disk, tracked, stateLock, historyVars>> /\ DeleteKeeps

(* quiesce_for_delete, then the export: a drain that times out or a failed *)
(* export ends the request with the gate closed.                           *)
DeleteDrain(d) ==
    /\ DeleteAt(d, "disabled") /\ tracked = None
    /\ mem' = [mem EXCEPT !.quiesced = @ \/ mem.signer]
    /\ \E pc \in {"drained", "ending"} : DeleteGoto(d, pc)
    /\ UNCHANGED <<storeVars, disk, tracked, stateLock, historyVars>> /\ DeleteKeeps

(* A key that appeared after the snapshot is not in the export.            *)
DeleteCheck(d) ==
    /\ DeleteAt(d, "drained")
    /\ DeleteGoto(d, IF ~del[d].member /\ mem.signer THEN "ending" ELSE "checked")
    /\ UNCHANGED <<storeVars, mem, disk, tracked, stateLock, historyVars>> /\ DeleteKeeps

DeleteLock(d) ==
    /\ DeleteAt(d, "checked") /\ stateLock = None
    /\ stateLock' = d /\ DeleteGoto(d, "locked")
    /\ UNCHANGED <<storeVars, mem, disk, tracked, historyVars>> /\ DeleteKeeps

(* on_delete after a failed remove_op: only the enable task is cancelled.  *)
DeleteSkip(d, m) ==
    /\ mem' = [m EXCEPT !.enabler = FALSE]
    /\ DeleteGoto(d, "ending")
    /\ stateLock' = None

(* delete_keystore *)
DeleteRefused(d) ==
    /\ DeleteAt(d, "locked") /\ tracked = None
    /\ mem.signer /\ InFlightForKey = {}
    /\ DeleteSkip(d, mem)
    /\ UNCHANGED <<storeVars, disk, tracked, historyVars>> /\ DeleteKeeps

(* The key is not local: the denylist entry is forced.                     *)
DeleteAbsent(d) ==
    /\ DeleteAt(d, "locked") /\ tracked = None /\ ~mem.signer
    /\ \/ /\ DenylistInsert(TRUE)
          /\ del' = [del EXCEPT ![d] = [@ EXCEPT !.pc = "touch", !.present = FALSE]]
          /\ gone' = TRUE /\ UNCHANGED stateLock
       \/ /\ ~mem.denied /\ Fault(1)
          /\ \E line \in {TRUE, disk.denied} : disk' = [disk EXCEPT !.denied = line]
          /\ DeleteSkip(d, mem) /\ UNCHANGED gone
    /\ UNCHANGED <<row, file, tracked, slashed, excepted, unvetted>> /\ DeleteKeeps

\* Mutant: the membership taken before the export is not looked at again.
DeleteUnlinkUnchecked(d) ==
    /\ DeleteAt(d, "locked") /\ tracked = None
    /\ mem.signer
    /\ UnlinkKeystore(TRUE) /\ DeleteGoto(d, "unlinked") /\ tracked' = d
    /\ UNCHANGED <<row, file, mem, stateLock, historyVars>> /\ DeleteKeeps

(* The keystore file goes first, then the markers, then the denylist entry *)
(* is written, then the process forgets the key.                           *)
DeleteUnlink(d) ==
    /\ DeleteAt(d, "locked") /\ tracked = None
    /\ mem.signer /\ InFlightForKey # {}
    /\ \/ UnlinkKeystore(TRUE) /\ DeleteGoto(d, "unlinked") /\ tracked' = d
          /\ UNCHANGED <<mem, stateLock>>
       \/ UnlinkKeystore(FALSE) /\ DeleteSkip(d, mem) /\ UNCHANGED tracked
    /\ UNCHANGED <<row, file, historyVars>> /\ DeleteKeeps

DeleteUnmark(d) ==
    /\ DeleteAt(d, "unlinked")
    /\ \/ disk' = [disk EXCEPT !.sidecars = {}] /\ NoFault
       \/ disk.sidecars # {} /\ UNCHANGED disk /\ Fault(1)
    /\ DeleteGoto(d, "unmarked")
    /\ UNCHANGED <<row, file, mem, tracked, stateLock, historyVars>> /\ DeleteKeeps

DeleteDeny(d) ==
    /\ DeleteAt(d, "unmarked")
    /\ \/ DenylistInsert(TRUE) /\ DeleteGoto(d, "denied") /\ UNCHANGED <<tracked, stateLock>>
       \/ /\ ~mem.denied /\ Fault(1)
          /\ \E line \in {TRUE, disk.denied} : disk' = [disk EXCEPT !.denied = line]
          /\ DeleteSkip(d, mem) /\ tracked' = None
    /\ UNCHANGED <<row, file, historyVars>> /\ DeleteKeeps

DeleteForget(d) ==
    /\ DeleteAt(d, "denied")
    /\ mem' = Unpublished(mem)
    /\ del' = [del EXCEPT ![d] = [@ EXCEPT !.pc = "touch", !.present = TRUE]]
    /\ tracked' = None
    /\ gone' = TRUE
    /\ UNCHANGED <<storeVars, disk, stateLock, slashed, excepted, unvetted>> /\ DeleteKeeps

(* The rest of on_delete: token, row, window.  A row that could not be     *)
(* removed keeps its window.                                               *)
DeleteTouch(d) ==
    /\ DeleteAt(d, "touch")
    /\ \E result \in {"removed", "absent", "failed"} :
        /\ RemoveValidatorDurable(result)
        /\ mem' = [mem EXCEPT !.enabler = FALSE,
                              !.window = IF result = "failed" THEN @ ELSE "Unmonitored"]
    /\ stateLock' = None
    /\ DeleteGoto(d, "ending")
    /\ ForgetRow /\ UNCHANGED <<disk, tracked, gone, excepted, unvetted>> /\ DeleteKeeps

(* end_delete_export, by the guard's Drop on every exit                    *)
DeleteEnd(d) ==
    /\ DeleteAt(d, "ending") /\ tracked = None
    /\ del' = [del EXCEPT ![d] = NoDelete]
    /\ UNCHANGED <<storeVars, mem, disk, tracked, stateLock, historyVars>> /\ DeleteKeeps

Delete(d) == \/ DeleteSnapshot(d) \/ DeleteDisable(d) \/ DeleteDrain(d) \/ DeleteCheck(d)
             \/ DeleteLock(d) \/ DeleteRefused(d) \/ DeleteAbsent(d) \/ DeleteUnlink(d)
             \/ DeleteUnmark(d) \/ DeleteDeny(d) \/ DeleteForget(d) \/ DeleteTouch(d)
             \/ DeleteEnd(d)

-----------------------------------------------------------------------------
(* The refresh task: RefreshService.run and admit of a RawSecret.  It      *)
(* takes neither lock.  The checks before the first mutation are one step. *)

RefreshKeeps == UNCHANGED <<up, tracked, stateLock, imp, del, monitor>>

RefreshGoto(pc) == ref' = [ref EXCEPT !.pc = pc]

(* An operator adds the secret to the provider.                            *)
ProviderAdds ==
    /\ ~disk.secret
    /\ disk' = [disk EXCEPT !.secret = TRUE]
    /\ UNCHANGED <<storeVars, mem, ref, historyVars>> /\ RefreshKeeps

RefreshStart ==
    /\ up /\ disk.secret /\ ref.pc = "idle" /\ ~mem.known
    /\ mem' = [mem EXCEPT !.known = TRUE]
    /\ RefreshGoto(IF mem.denied \/ mem.mapped THEN "idle" ELSE "checked")
    /\ UNCHANGED <<storeVars, disk, historyVars>> /\ RefreshKeeps

RefreshPublish ==
    /\ ref.pc = "checked" /\ RefreshGoto("mapped")
    /\ mem' = Published(mem)
    /\ UNCHANGED <<storeVars, disk, historyVars>> /\ RefreshKeeps

(* A failed write rolls signer and map back; the next cycle retries.       *)
RefreshRow ==
    /\ ref.pc = "mapped"
    /\ \E result \in {"inserted", "exists", "failed"} :
        /\ AddValidatorDurable("Enabled", result)
        /\ IF result = "failed"
           THEN /\ mem' = [mem EXCEPT !.signer = FALSE, !.mapped = FALSE, !.known = FALSE]
                /\ ref' = NoRefresh
           ELSE /\ UNCHANGED mem
                /\ ref' = [pc |-> "rowed", inserted |-> result = "inserted"]
    /\ UNCHANGED <<disk, historyVars>> /\ RefreshKeeps

\* Mutant: the denylist is not looked at again.
RefreshRecheckNever ==
    /\ ref.pc = "rowed"
    /\ RefreshGoto("rechecked") /\ UNCHANGED mem
    /\ UNCHANGED <<storeVars, disk, historyVars>> /\ RefreshKeeps

(* The final denylist re-check; revoke_failed_import if DELETE won.  It    *)
(* also takes down what a re-import has published since.                   *)
RefreshRecheck ==
    /\ ref.pc = "rowed"
    /\ \/ ~mem.denied /\ RefreshGoto("rechecked") /\ UNCHANGED <<mem, excepted>>
       \/ /\ mem.denied
          /\ mem' = Unpublished(mem)
          /\ ref' = IF ref.inserted THEN [ref EXCEPT !.pc = "revoking"] ELSE NoRefresh
          /\ excepted' = (excepted \/ ~gone)
    /\ UNCHANGED <<storeVars, disk, gone, slashed, unvetted>> /\ RefreshKeeps

RefreshRevoke ==
    /\ ref.pc = "revoking"
    /\ RemoveInsertedRow
    /\ ref' = NoRefresh
    /\ ForgetRow /\ UNCHANGED <<mem, disk, gone, excepted, unvetted>> /\ RefreshKeeps

RefreshRegister ==
    /\ ref.pc = "rechecked"
    /\ mem' = [mem EXCEPT !.window = RegisterForImport]
    /\ ref' = NoRefresh
    /\ UNCHANGED <<storeVars, disk, historyVars>> /\ RefreshKeeps

Refresh == \/ ProviderAdds \/ RefreshStart \/ RefreshPublish \/ RefreshRow \/ RefreshRecheck
           \/ RefreshRevoke \/ RefreshRegister

-----------------------------------------------------------------------------
(* The other tasks of the process.                                         *)

(* finish_enable, after the task's sleep: a hold that is gone ends the     *)
(* task, a failed write is retried, an open hold is waited for again.      *)
FinishEnable ==
    /\ mem.enabler /\ stateLock = None
    /\ \/ row \notin HoldRows /\ UNCHANGED storeVars /\ mem' = [mem EXCEPT !.enabler = FALSE]
       \/ \E result \in {"released", "failed"} :
            /\ ReleaseDoppelgangerHold(result)
            /\ mem' = [mem EXCEPT !.enabler = (result = "failed")]
    /\ UNCHANGED <<up, disk, actorVars, historyVars>>

(* check_slashed_validators: an enabled key is looked up at the beacon     *)
(* node, its row is disabled after the answer and the listener called.     *)
MonitorDetect ==
    /\ up /\ monitor = "idle" /\ row = "Enabled" /\ ~slashed
    /\ monitor' = "detected"
    /\ UNCHANGED <<storeVars, up, mem, disk, tracked, stateLock, imp, del, ref, historyVars>>

MonitorDisable ==
    /\ monitor = "detected"
    /\ \E ok \in BOOLEAN : DisableSlashed(ok) /\ slashed' = (slashed \/ (ok /\ row # "Absent"))
    /\ monitor' = IF row = "Absent" THEN "idle" ELSE "notify"
    /\ UNCHANGED <<up, mem, disk, tracked, stateLock, imp, del, ref, gone, excepted, unvetted>>

MonitorNotify ==
    /\ monitor = "notify" /\ stateLock = None
    /\ mem' = [mem EXCEPT !.enabler = FALSE]
    /\ monitor' = "idle"
    /\ UNCHANGED <<storeVars, up, disk, tracked, stateLock, imp, del, ref, historyVars>>

(* The forward window of the key is observed to its end.                   *)
WindowPasses ==
    /\ mem.window = "Pending"
    /\ mem' = [mem EXCEPT !.window = "Safe"]
    /\ unvetted' = FALSE
    /\ UNCHANGED <<storeVars, up, disk, actorVars, gone, slashed, excepted>>

\* Mutant: the markers go before the window was observed.
RecordCompletedImportsEarly ==
    /\ up /\ tracked = None /\ mem.mapped /\ mem.window # "Unmonitored" /\ disk.sidecars # {}
    /\ disk' = [disk EXCEPT !.sidecars = {}]
    /\ UNCHANGED <<storeVars, up, mem, actorVars, historyVars>>

(* record_completed_imports, after a tick of the liveness loop             *)
RecordCompletedImports ==
    /\ up /\ tracked = None /\ mem.mapped /\ mem.window = "Safe" /\ disk.sidecars # {}
    /\ disk' = [disk EXCEPT !.sidecars = {}]
    /\ UNCHANGED <<storeVars, up, mem, actorVars, historyVars>>

(* The clock, and writes for other validators.  An import that has armed   *)
(* its hold ends before that hold does: files are renamed and unlinked in  *)
(* far less than the two epochs of the window.                             *)
StoreStep == /\ \/ Elapse /\ imp.pc \in {"idle", "staged", "returned", "listener"}
                \/ up /\ SaveConfig
             /\ UNCHANGED <<up, mem, disk, actorVars, historyVars>>

Task == \/ FinishEnable \/ MonitorDetect \/ MonitorDisable \/ MonitorNotify
        \/ WindowPasses \/ RecordCompletedImports \/ StoreStep

-----------------------------------------------------------------------------
(* The process dies; what is on disk stays.                                *)
Crash ==
    /\ up /\ up' = FALSE
    /\ row' = "Absent" /\ mem' = Blank
    /\ tracked' = None /\ stateLock' = None
    /\ imp' = NoImport /\ del' = [d \in Deletes |-> NoDelete] /\ ref' = NoRefresh
    /\ monitor' = "idle"
    /\ UNCHANGED <<file, faults, disk, historyVars>>

(* The keys boot loads: a keystore file or a provider's secret that the    *)
(* denylist does not name.                                                 *)
Loaded == ~disk.denied /\ (disk.keystore \/ disk.secret)

(* unfinished_imports: read before elapsed holds are released.             *)
Unfinished == disk.sidecars # {} \/ file = "Held"

(* build_validator_store, register_loaded_validators and                   *)
(* reconcile_doppelganger_holds_at_boot                                    *)
BootRow == CASE file = "Absent"  -> IF Loaded THEN "Enabled" ELSE "Absent"
             [] file = "Elapsed" -> "Enabled"
             [] OTHER            -> file

(* build_signing_enablement, scan_and_rearm_gate and rearm_persisted_hold: *)
(* a finished key may be Safe by its slashing history, an unfinished one   *)
(* never, and a hold is monitored whether or not its key is loaded.        *)
BootWindow == IF Loaded
              THEN IF Unfinished THEN {"Pending"} ELSE {"Pending", "Safe"}
              ELSE IF row' \in HoldRows THEN {"Pending"}
              ELSE IF "final" \in disk.sidecars THEN {"Unmonitored", "Pending"}
                   ELSE {"Unmonitored"}

\* Mutant: the start goes on without the validators file.
BootAnyFile ==
    /\ ~up /\ up' = TRUE
    /\ row' = BootRow
    /\ mem' = [Blank EXCEPT !.signer = Loaded, !.mapped = Loaded, !.denied = disk.denied]
    /\ UNCHANGED <<file, faults, disk, actorVars, historyVars>>

(* Every try to enable an elapsed hold fails: it stays, and its enable     *)
(* task is started with nothing left to wait for.                          *)
ReconcileFails ==
    /\ file = "Elapsed" /\ row' = "Elapsed"
    /\ \/ file' = file /\ Fault(ReconcileAttempts)
       \/ file' = "Gone" /\ Fault(ReconcileAttempts + 1)

(* A validators file that is missing or empty stops the start.             *)
Boot ==
    /\ ~up /\ file # "Gone" /\ up' = TRUE
    /\ \/ row' = BootRow /\ file' = (IF file = "Elapsed" THEN "Enabled" ELSE file) /\ NoFault
       \/ ReconcileFails
    /\ \E w \in BootWindow :
        mem' = [Blank EXCEPT !.signer = Loaded, !.mapped = Loaded, !.window = w,
                             !.denied = disk.denied, !.enabler = (row' \in HoldRows),
                             !.known = Loaded]
    /\ unvetted' = (unvetted /\ disk.sidecars # {})
    /\ UNCHANGED <<disk, actorVars, gone, slashed, excepted>>

-----------------------------------------------------------------------------
(* A fresh installation, or one whose keystore was put there before the    *)
(* first start.                                                            *)
Init ==
    /\ row = "Absent" /\ file = "Absent" /\ faults = 0
    /\ up = FALSE /\ mem = Blank
    /\ \E k \in BOOLEAN :
        disk = [keystore |-> k, sidecars |-> {}, denied |-> FALSE, secret |-> FALSE]
    /\ tracked = None /\ stateLock = None
    /\ imp = NoImport /\ del = [d \in Deletes |-> NoDelete] /\ ref = NoRefresh
    /\ monitor = "idle"
    /\ gone = FALSE /\ slashed = FALSE /\ excepted = FALSE /\ unvetted = FALSE

Next == \/ Import \/ (\E d \in Deletes : Delete(d)) \/ Refresh \/ Task \/ Crash \/ Boot

(* Requests run to their end; only their arrival is not promised.          *)
ImportProgress == Import /\ ~ImportAt("idle")
DeleteProgress(d) == Delete(d) /\ ~DeleteAt(d, "idle")

Fairness == WF_klVars(ImportProgress) /\ \A d \in Deletes : WF_klVars(DeleteProgress(d))

Spec == Init /\ [][Next]_klVars /\ Fairness

-----------------------------------------------------------------------------
(* A key a DELETE removed is not loaded again before an import has taken   *)
(* it back, in this process or after a restart, once a refresh that was    *)
(* admitting it at the time has ended: delete_keystore, the denylist       *)
(* re-checks of admit and the denylist filter at boot.  Two rare cases are *)
(* excepted: a denylist rewrite that failed after its rename, and a        *)
(* refresh that revoked a re-import.                                       *)
DeletedStaysDeleted == gone /\ ~excepted /\ ref.pc = "idle" => ~mem.signer

(* From the rename of a keystore to its boot path until its window was     *)
(* observed, the first restart, and each one while a marker is left, finds *)
(* a marker, a denylist line or a row that is not enabled, whatever failed *)
(* and wherever the import was cut off (publish_keystore,                  *)
(* rollback_failed_keystore, clear_completed_import_sidecars).  A late     *)
(* duplicate is a second copy of a key the provider already serves.        *)
KeystoreGuarded ==
    disk.keystore /\ unvetted /\ ~excepted =>
        disk.sidecars # {} \/ disk.denied \/ file \notin {"Enabled", "Absent"}

(* A slashing disable that returned Ok outlives re-imports, enable tasks,  *)
(* holds and restarts, until the row itself is removed (disable_slashed).  *)
SlashedStaysOff == slashed => row # "Enabled" /\ file \notin {"Enabled", "Elapsed", "Held"}

(* A DELETE that removed a loaded key has the key in its interchange:      *)
(* handlers.rs checks the membership taken before the export, and          *)
(* delete_keystore refuses "if this check loses the race".                 *)
DeletedIsExported == \A d \in Deletes : del[d].present => del[d].member

(* tracked_keys is always released again: no request waits for state_lock  *)
(* while it holds it (run_disable_listener is called after the unlock).    *)
TrackedKeysReleased == []<>(tracked = None)
===============================================================================
