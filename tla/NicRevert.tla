----------------------------- MODULE NicRevert -----------------------------
(***************************************************************************)
(* Automatic rollback of `nic reload` and `nic restart` (internal/revert   *)
(* and main.go's changeConfigurationLoaded), without a daemon. Processes:  *)
(*                                                                         *)
(*   changer c  applies change c between SaveAndStartWatcher and Arm       *)
(*   watcher c  the background process that reverts change c               *)
(*   confirmer  `nic confirm`                                              *)
(*   stop       `nic stop`, which knows nothing of a pending revert        *)
(*                                                                         *)
(* They share the files of /run/nic, one path each whoever wrote it:       *)
(*                                                                         *)
(*   pending    revert-state.json and revert-config.json (as the change    *)
(*              that wrote them; snap[c] is what they hold)                *)
(*   confirmed  the confirmation marker                                    *)
(*   armed      revert-armed                                               *)
(*   pidFile    revert-watcher.pid (as the change whose watcher it names)  *)
(*                                                                         *)
(* and revert.lock, a flock: it is held exactly by the processes at the    *)
(* steps between acquireLock and releaseLock, and dies with its holder.    *)
(*                                                                         *)
(* The network is the change whose configuration it runs, Pristine, or     *)
(* Mixed while commands run and after they were cut short; how reconcile   *)
(* gets from one to the other is NicReconcile's subject. The watcher's     *)
(* timeout may end at any time after it is armed.                          *)
(***************************************************************************)
EXTENDS Naturals

CONSTANTS
  Changes,          \* the reload/restart invocations, each with its own config
  NoFile,           \* the content of a file that does not exist
  Pristine, Mixed,  \* the network without nic; a network nobody asked for
  Deadly,           \* the steps at which a changer may be killed
  MaxFaults         \* bound: how many calls may fail and processes be killed

ChangerSteps == {"idle", "save", "spawn", "record", "apply", "applying", "arm",
                 "arming", "armFailed", "cancel", "discard", "done", "dead"}

WatcherSteps == {"off", "poll", "doubt", "armed", "orphaned", "expired",
                 "restoring", "leaving", "dead"}

Fates == {"none",        \* its commands have not begun
          "open",        \* applied or being applied, neither kept nor undone
          "kept",        \* confirmed
          "reverted",    \* undone from the snapshot
          "discarded",   \* failed; reconcile was trusted to have undone it
          "stuck",       \* the watcher failed to revert it
          "lost"}        \* torn down without a snapshot to return to

ASSUME DistinctAssumption ==
  NoFile \notin Changes /\ Pristine \notin Changes /\ Mixed \notin Changes
    /\ NoFile # Pristine /\ NoFile # Mixed /\ Pristine # Mixed
ASSUME DeadlyAssumption == Deadly \subseteq ChangerSteps \ {"idle", "done", "dead"}
ASSUME MaxFaultsAssumption == MaxFaults \in Nat

VARIABLES net, applied,                       \* the machine; applied-config.json
          pending, confirmed, armed, pidFile, \* files of the revert protocol
          snap,        \* what the snapshot of a change captured
          changer, watcher, confirmer,        \* where each process is
          fate,        \* what became of a change
          early,       \* history: changes confirmed before they were armed
          stopped,     \* `nic stop` ran, and no change since (bound: not twice in a row)
          faults       \* failures and deaths so far

machine   == <<net, applied>>
files     == <<pending, confirmed, armed, pidFile>>
processes == <<changer, watcher, confirmer>>
history   == <<early, stopped>>
vars      == <<machine, files, snap, processes, fate, history, faults>>

Networks  == Changes \cup {Pristine, Mixed}
Snapshots == [net : Networks, applied : Changes \cup {NoFile}]
NoSnap    == [net |-> NoFile, applied |-> NoFile]

Init == /\ net = Pristine /\ applied = NoFile
        /\ pending = NoFile /\ confirmed = "no" /\ armed = "no" /\ pidFile = NoFile
        /\ snap = [c \in Changes |-> NoSnap]
        /\ changer = [c \in Changes |-> "idle"]
        /\ watcher = [c \in Changes |-> "off"]
        /\ confirmer = "idle"
        /\ fate = [c \in Changes |-> "none"]
        /\ early = {} /\ stopped = "no" /\ faults = 0

-----------------------------------------------------------------------------
Fails == faults < MaxFaults /\ faults' = faults + 1
Works == faults' = faults

\* acquireLock succeeds: nobody is between acquireLock and releaseLock.
LockFree == /\ \A c \in Changes : /\ changer[c] \notin {"save", "spawn", "record", "discard"}
                                  /\ watcher[c] # "restoring"
            /\ confirmer = "idle"

ChangerAt(c, step)   == changer[c] = step
ChangerGoto(c, step) == changer' = [changer EXCEPT ![c] = step]
WatcherGoto(c, step) == watcher' = [watcher EXCEPT ![c] = step]
Settle(c, result)    == fate' = [fate EXCEPT ![c] = result]

\* cleanupPendingFiles.
Cleanup == pending' = NoFile /\ confirmed' = "no" /\ armed' = "no" /\ pidFile' = NoFile

\* stopWatcher: the watcher named by the pid file is signalled and waited for.
StopWatcher ==
  watcher' = [w \in Changes |-> IF w = pidFile /\ watcher[w] # "off"
                                THEN "dead" ELSE watcher[w]]

\* What makes a watcher give up: os.Stat of the state file and of the marker.
Settled == pending = NoFile \/ confirmed = "yes"

Alive(c) == changer[c] \notin {"done", "dead"}

\* The network that applied-config.json describes.
Predecessor == IF applied = NoFile THEN Pristine ELSE applied

-----------------------------------------------------------------------------
(* SaveAndStartWatcher, under the lock up to Record *)

\* Defect: a pending revert does not refuse a second change.
Begin_Overwrites(c) ==
  /\ ChangerAt(c, "idle") /\ LockFree
  /\ Cleanup /\ ChangerGoto(c, "save") /\ stopped' = "no"
  /\ UNCHANGED <<machine, snap, watcher, confirmer, fate, early, faults>>

\* The blocking lock, the test for a pending revert, and the clean start.
Begin(c) ==
  /\ ChangerAt(c, "idle") /\ LockFree
  /\ UNCHANGED <<machine, snap, confirmer, fate, early, faults>>
  /\ \/ /\ pending # NoFile
        /\ ChangerGoto(c, "done")
        /\ UNCHANGED <<files, watcher, stopped>>
     \/ /\ pending = NoFile
        /\ StopWatcher /\ Cleanup
        /\ ChangerGoto(c, "save") /\ stopped' = "no"

\* Defect: the error of SaveState is ignored.
Save_Ignored(c) ==
  /\ ChangerAt(c, "save")
  /\ pending' = c /\ ChangerGoto(c, "spawn")
  /\ \/ Works /\ snap' = [snap EXCEPT ![c] = [net |-> net, applied |-> applied]]
     \/ Fails /\ UNCHANGED snap
  /\ UNCHANGED <<machine, confirmed, armed, pidFile, watcher, confirmer, fate, history>>

Save(c) ==
  /\ ChangerAt(c, "save")
  /\ UNCHANGED <<machine, confirmed, armed, pidFile, watcher, confirmer, fate, history>>
  /\ \/ /\ Works /\ pending' = c
        /\ snap' = [snap EXCEPT ![c] = [net |-> net, applied |-> applied]]
        /\ ChangerGoto(c, "spawn")
     \/ Fails /\ ChangerGoto(c, "done") /\ UNCHANGED <<pending, snap>>

Spawn(c) ==
  /\ ChangerAt(c, "spawn")
  /\ UNCHANGED <<machine, confirmed, armed, pidFile, snap, confirmer, fate, history>>
  /\ \/ Works /\ WatcherGoto(c, "poll") /\ ChangerGoto(c, "record") /\ UNCHANGED pending
     \/ Fails /\ pending' = NoFile /\ ChangerGoto(c, "done") /\ UNCHANGED watcher

\* The pid record is written and the lock released; or the watcher is killed.
Record(c) ==
  /\ ChangerAt(c, "record")
  /\ UNCHANGED <<machine, confirmed, armed, snap, confirmer, fate, history>>
  /\ \/ Works /\ pidFile' = c /\ ChangerGoto(c, "apply") /\ UNCHANGED <<pending, watcher>>
     \/ /\ Fails /\ WatcherGoto(c, "dead") /\ pending' = NoFile
        /\ ChangerGoto(c, "done") /\ UNCHANGED pidFile

-----------------------------------------------------------------------------
(* reconcileConfig as seen from here, then Arm or Cancel *)

\* The first step either touches the network or fails before it does.
BeginApply(c) ==
  /\ ChangerAt(c, "apply")
  /\ UNCHANGED <<applied, files, snap, watcher, confirmer, history>>
  /\ fate' = [fate EXCEPT ![c] = IF @ = "none" THEN "open" ELSE @]
  /\ \/ Works /\ net' = Mixed /\ ChangerGoto(c, "applying")
     \/ Fails /\ UNCHANGED net /\ ChangerGoto(c, "cancel")

\* Defect: the applied configuration is not recorded.
Reconciled_Unrecorded(c) ==
  /\ ChangerAt(c, "applying")
  /\ UNCHANGED <<applied, files, snap, watcher, confirmer, fate, history>>
  /\ \/ Works /\ net' = c /\ ChangerGoto(c, "arm")
     \/ Fails /\ net' \in {Predecessor, Pristine, Mixed} /\ ChangerGoto(c, "cancel")

\* It applies the configuration; or rolls back to the predecessor; or returns
\* an error with the network pristine or in between, because restoring the
\* baseline, recording the intent or the rollback itself failed.
Reconciled(c) ==
  /\ ChangerAt(c, "applying")
  /\ UNCHANGED <<files, snap, watcher, confirmer, fate, history>>
  /\ \/ Works /\ net' = c /\ applied' = c /\ ChangerGoto(c, "arm")
     \/ /\ Fails /\ net' \in {Predecessor, Pristine, Mixed}
        /\ ChangerGoto(c, "cancel") /\ UNCHANGED applied

\* Arm: the test, and then the write that may fail.
Arm(c) ==
  /\ ChangerAt(c, "arm")
  /\ ChangerGoto(c, IF pending # NoFile THEN "arming" ELSE "armFailed")
  /\ UNCHANGED <<machine, files, snap, watcher, confirmer, fate, history, faults>>

WriteArmed(c) ==
  /\ ChangerAt(c, "arming")
  /\ UNCHANGED <<machine, pending, confirmed, pidFile, snap, watcher, confirmer, fate, history>>
  /\ \/ Works /\ armed' = "yes" /\ ChangerGoto(c, "done")
     \/ Fails /\ ChangerGoto(c, "armFailed") /\ UNCHANGED armed

\* restoreSavedSnapshot after Arm failed, without the lock: what is applied is
\* torn down down to the baseline, and what the files hold comes back, if they
\* still exist.
ArmFailed(c) ==
  /\ ChangerAt(c, "armFailed") /\ ChangerGoto(c, "cancel")
  /\ UNCHANGED <<files, snap, watcher, confirmer, history>>
  /\ \/ /\ pending # NoFile /\ Works
        /\ net' = snap[pending].net /\ applied' = snap[pending].applied
        /\ Settle(c, "reverted")
     \/ /\ pending # NoFile /\ Fails
        /\ net' = Mixed /\ applied' \in {applied, snap[pending].applied}
        /\ Settle(c, "lost")
     \/ /\ pending = NoFile /\ Works
        /\ net' = Pristine /\ applied' = NoFile
        /\ Settle(c, "lost")

\* Cancel gives up when the lock is taken; the watcher then finds its parent
\* gone.
Cancel(c) ==
  /\ ChangerAt(c, "cancel")
  /\ ChangerGoto(c, IF LockFree THEN "discard" ELSE "done")
  /\ UNCHANGED <<machine, files, snap, watcher, confirmer, fate, history, faults>>

\* Defect: the files go although the watcher could not be stopped.
Discard_Careless(c) ==
  /\ ChangerAt(c, "discard") /\ ChangerGoto(c, "done")
  /\ Cleanup /\ UNCHANGED <<machine, snap, confirmer, fate, history>>
  /\ \/ Works /\ StopWatcher
     \/ Fails /\ UNCHANGED watcher

Discard(c) ==
  /\ ChangerAt(c, "discard") /\ ChangerGoto(c, "done")
  /\ UNCHANGED <<machine, snap, confirmer, history>>
  /\ \/ /\ Works /\ StopWatcher /\ Cleanup
        /\ fate' = [fate EXCEPT ![c] = IF @ = "open" THEN "discarded" ELSE @]
     \/ Fails /\ UNCHANGED <<files, watcher, fate>>

Die(c) == /\ changer[c] \in Deadly
          /\ Fails /\ ChangerGoto(c, "dead")
          /\ UNCHANGED <<machine, files, snap, watcher, confirmer, fate, history>>

-----------------------------------------------------------------------------
(* WatchAndRevert *)

\* One turn of the unarmed loop reads the files and then looks for the parent.
Poll(c) ==
  /\ watcher[c] = "poll"
  /\ WatcherGoto(c, IF Settled THEN "leaving"
                    ELSE IF armed = "yes" THEN "armed" ELSE "doubt")
  /\ UNCHANGED <<machine, files, snap, changer, confirmer, fate, history, faults>>

\* Defect: a zombie parent counts as alive.
CheckParent_Trusting(c) ==
  /\ watcher[c] = "doubt"
  /\ WatcherGoto(c, "poll")
  /\ UNCHANGED <<machine, files, snap, changer, confirmer, fate, history, faults>>

CheckParent(c) ==
  /\ watcher[c] = "doubt"
  /\ WatcherGoto(c, IF Alive(c) THEN "poll" ELSE "orphaned")
  /\ UNCHANGED <<machine, files, snap, changer, confirmer, fate, history, faults>>

\* The armed loop ends when the revert is settled or the timeout is over.
Watch(c) ==
  /\ watcher[c] = "armed"
  /\ \/ Settled /\ WatcherGoto(c, "leaving")
     \/ WatcherGoto(c, "expired")
  /\ UNCHANGED <<machine, files, snap, changer, confirmer, fate, history, faults>>

\* Defect: the files are not looked at again under the lock.
WatcherLock_NoRecheck(c) ==
  /\ watcher[c] \in {"orphaned", "expired"} /\ LockFree
  /\ WatcherGoto(c, "restoring") /\ net' = Mixed
  /\ UNCHANGED <<applied, files, snap, changer, confirmer, fate, history, faults>>

\* revertPendingState up to the restoration.
WatcherLock(c) ==
  /\ watcher[c] \in {"orphaned", "expired"} /\ LockFree
  /\ UNCHANGED <<applied, snap, changer, confirmer, fate, history, faults>>
  /\ \/ Settled /\ Cleanup /\ WatcherGoto(c, "dead") /\ UNCHANGED net
     \/ ~Settled /\ net' = Mixed /\ WatcherGoto(c, "restoring") /\ UNCHANGED files

\* Defect: the state is replayed but the previous configuration is not saved.
Restored_StateOnly(c) ==
  /\ watcher[c] = "restoring" /\ pending # NoFile
  /\ net' = snap[pending].net /\ Cleanup /\ WatcherGoto(c, "dead")
  /\ Settle(c, "reverted")
  /\ UNCHANGED <<applied, snap, changer, confirmer, history, faults>>

\* The restore helper's success: the previous configuration is applied and
\* saved, the snapshot replayed, the files removed, the lock released.
Restored(c) ==
  /\ watcher[c] = "restoring" /\ pending # NoFile /\ Works
  /\ net' = snap[pending].net /\ applied' = snap[pending].applied
  /\ Cleanup /\ WatcherGoto(c, "dead") /\ Settle(c, "reverted")
  /\ UNCHANGED <<snap, changer, confirmer, history>>

\* Its failure leaves the files: only `nic confirm` clears them.
RestoreFailed(c) ==
  /\ watcher[c] = "restoring" /\ Fails
  /\ net' = Mixed /\ applied' \in {applied, snap[c].applied}
  /\ WatcherGoto(c, "dead") /\ Settle(c, "stuck")
  /\ UNCHANGED <<files, snap, changer, confirmer, history>>

\* Leaving cleans up without the lock.
Leave(c) ==
  /\ watcher[c] = "leaving"
  /\ Cleanup /\ WatcherGoto(c, "dead")
  /\ UNCHANGED <<machine, snap, changer, confirmer, fate, history, faults>>

-----------------------------------------------------------------------------
(* Confirm, and stop *)

\* The non-blocking lock and the marker. A revert that failed stays failed.
Confirm ==
  /\ LockFree /\ pending # NoFile
  /\ confirmed' = "yes" /\ confirmer' = "kill"
  /\ fate' = [fate EXCEPT ![pending] = IF @ \in {"none", "open"} THEN "kept" ELSE @]
  /\ early' = IF armed = "yes" THEN early ELSE early \cup {pending}
  /\ UNCHANGED <<machine, pending, armed, pidFile, snap, changer, watcher, stopped, faults>>

ConfirmKill ==
  /\ confirmer = "kill"
  /\ UNCHANGED <<machine, files, snap, changer, fate, history>>
  /\ \/ Works /\ StopWatcher /\ confirmer' = "clean"
     \/ Fails /\ confirmer' = "idle" /\ UNCHANGED watcher

ConfirmClean ==
  /\ confirmer = "clean"
  /\ Cleanup /\ confirmer' = "idle"
  /\ UNCHANGED <<machine, snap, changer, watcher, fate, history, faults>>

ConfirmDies ==
  /\ confirmer # "idle" /\ Fails /\ confirmer' = "idle"
  /\ UNCHANGED <<machine, files, snap, changer, watcher, fate, history>>

\* A successful `nic stop` between changes: the machine goes back to the
\* baseline and the applied configuration is forgotten, the files of a pending
\* revert are not looked at.
Stop ==
  /\ stopped = "no"
  /\ \A c \in Changes : ~Alive(c) \/ ChangerAt(c, "idle")
  /\ \A c \in Changes : watcher[c] # "restoring"
  /\ net' = Pristine /\ applied' = NoFile /\ stopped' = "yes"
  /\ UNCHANGED <<files, snap, processes, fate, early, faults>>

-----------------------------------------------------------------------------
ChangerStep(c) == \/ Save(c) \/ Spawn(c) \/ Record(c)
                  \/ BeginApply(c) \/ Reconciled(c)
                  \/ Arm(c) \/ WriteArmed(c) \/ ArmFailed(c)
                  \/ Cancel(c) \/ Discard(c)

WatcherStep(c) == \/ Poll(c) \/ CheckParent(c) \/ Watch(c)
                  \/ WatcherLock(c) \/ Restored(c) \/ RestoreFailed(c)
                  \/ Leave(c)

ConfirmStep == ConfirmKill \/ ConfirmClean

Next == \/ \E c \in Changes : \/ Begin(c) \/ ChangerStep(c) \/ Die(c)
                              \/ WatcherStep(c)
        \/ Confirm \/ ConfirmStep \/ ConfirmDies
        \/ Stop

Spec == Init /\ [][Next]_vars

\* Running processes are scheduled and timeouts end; nobody need ever confirm,
\* begin another change, stop or die. A watcher waiting for the lock competes
\* with finitely many other holders.
FairSpec == /\ Spec
            /\ \A c \in Changes : WF_vars(ChangerStep(c)) /\ WF_vars(WatcherStep(c))
            /\ \A c \in Changes : WF_vars(watcher[c] = "armed" /\ Watch(c))
            /\ WF_vars(ConfirmStep)

-----------------------------------------------------------------------------
(* Properties *)

\* The types, and: a state file holds a captured snapshot.
TypeOK == /\ net \in Networks /\ applied \in Changes \cup {NoFile}
          /\ pending \in Changes \cup {NoFile} /\ pidFile \in Changes \cup {NoFile}
          /\ confirmed \in {"no", "yes"} /\ armed \in {"no", "yes"}
          /\ snap \in [Changes -> Snapshots \cup {NoSnap}]
          /\ pending # NoFile => snap[pending] \in Snapshots
          /\ changer \in [Changes -> ChangerSteps]
          /\ watcher \in [Changes -> WatcherSteps]
          /\ confirmer \in {"idle", "kill", "clean"}
          /\ fate \in [Changes -> Fates]
          /\ early \in SUBSET Changes /\ stopped \in {"no", "yes"}
          /\ faults \in 0..MaxFaults

\* A confirmation of an armed change is final, whether the confirming process
\* could stop the watcher, failed to, or died in between: "once its lock is
\* held, confirmation either already removed the pending state or is too late"
\* (revert.go:300), and the marker left behind is obeyed (revert.go:193).
KeptHolds == [][\A c \in Changes : fate[c] = "kept" /\ early = {}
                                     => fate'[c] = "kept"]_vars

\* Commands of two processes never run on the machine together: a second
\* change is refused while a revert is pending (revert.go:69) and waits while
\* one is carried out. Only a confirmation that comes before the change was
\* armed opens the way to a second writer.
Writers == {c \in Changes : changer[c] \in {"applying", "armFailed"}}
Restorers == {c \in Changes : watcher[c] = "restoring"}
OneWriter == early = {} => /\ \A c, d \in Writers : c = d
                           /\ \A c, d \in Restorers : c = d
                           /\ Writers = {} \/ Restorers = {}

\* From the first command until it is confirmed or undone, a change has its
\* own snapshot on disk and a live watcher on duty (README.md:223), whatever
\* failed or died.
Guarded == early = {} =>
  \A c \in Changes : fate[c] = "open" =>
    pending = c /\ watcher[c] \notin {"off", "leaving", "dead"}

\* A revert returns to the network and the applied configuration of the moment
\* before the change (revert.go:84-96), never to another change's.
RevertRestores ==
  [][\A c \in Changes : fate[c] # "reverted" /\ fate'[c] = "reverted" /\ early = {}
       => net' = snap[c].net /\ applied' = snap[c].applied]_vars

\* Nobody has to be there: a change whose operator lost the connection, or
\* whose process died, is undone (or was discarded) in the end (README.md:223).
Unattended ==
  \A c \in Changes : (fate[c] = "open") ~> (fate[c] # "open" \/ early # {})

\* A change is on trial while its snapshot is the pending one and nobody has decided: neither a
\* confirmation nor a watcher that failed to restore it. What became of it shows when it is not on trial.
OnTrial == IF pending # NoFile /\ fate[pending] \notin {"kept", "stuck"} THEN pending ELSE NoFile
Verdict(c) == IF c = OnTrial \/ fate[c] \in {"none", "open"} THEN "none"
              ELSE IF fate[c] = "kept" THEN "kept"
              ELSE IF fate[c] = "reverted" THEN "undone"
              ELSE "failed"

\* The steps of all processes together keep the promise of NicTrial, as long as no change is confirmed
\* before it was armed (README.md:223; revert.go:53-127, 280-340).
Trial == INSTANCE NicTrial WITH
           Nothing <- NoFile,
           Off     <- [net |-> Pristine, applied |-> NoFile],
           machine <- [net |-> net, applied |-> applied],
           trial   <- OnTrial,
           origin  <- IF OnTrial = NoFile THEN NoFile ELSE snap[OnTrial],
           verdict <- [c \in Changes |-> Verdict(c)],
           void    <- early # {}
TrialSpec == Trial!Spec

(* What a message says, and the code does not do. *)

\* After "Changes confirmed." (main.go:1261) the changes stay.
ConfirmedStays == [][\A c \in Changes : fate[c] = "kept" => fate'[c] = "kept"]_vars
=============================================================================
