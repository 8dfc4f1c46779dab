-------------------------- MODULE NicRevertProofs --------------------------
(***************************************************************************)
(* Proofs about NicRevert for any set of changes, any number of failed     *)
(* calls and killed processes, and any steps at which a changer may be     *)
(* killed: type correctness; then, as long as no change is confirmed       *)
(* before it was armed, that commands of two processes never run together, *)
(* that an applied change is guarded by its own snapshot and watcher, that *)
(* a confirmation is final and that a revert returns to the change's own   *)
(* snapshot. All four follow from one inductive invariant: the pending     *)
(* file says who may do what.                                              *)
(***************************************************************************)
EXTENDS NicRevert, TLAPS

\* The steps of a changer between SaveState and its return.
Applying == {"spawn", "record", "apply", "applying", "arm", "arming",
             "armFailed", "cancel", "discard"}

\* The steps at which the watcher is started and named by the pid file.
Watched == Applying \ {"spawn", "record"}

Running(c) == watcher[c] \notin {"off", "dead"}

(* Without a pending change the directory is empty: no marker, no arm file,  *)
(* no pid record.                                                            *)
NothingPending ==
  pending = NoFile => confirmed = "no" /\ armed = "no" /\ pidFile = NoFile

(* What is on disk says what went before: an armed change has recorded its   *)
(* watcher, a marker is one of an armed change.                              *)
FilesInOrder ==
  /\ pending # NoFile => changer[pending] # "idle"
  /\ armed = "yes" => pidFile = pending
  /\ confirmed = "yes" => armed = "yes"

(* A change being started or applied owns the files, and its watcher has not *)
(* yet seen a reason to act.                                                 *)
ChangersInOrder ==
  \A c \in Changes :
    /\ changer[c] = "save" =>
         /\ pending = NoFile /\ confirmer = "idle"
         /\ \A d \in Changes : changer[d] = "save" => c = d
    /\ changer[c] \in Applying => pending = c /\ confirmed = "no" /\ armed = "no"
    /\ changer[c] \in {"spawn", "record"} => pidFile = NoFile
    /\ changer[c] = "spawn" => ~Running(c)
    /\ changer[c] = "record" => watcher[c] \in {"poll", "doubt"}
    /\ changer[c] \in Watched => pidFile = c /\ watcher[c] \in {"poll", "doubt"}

(* A watcher that runs is the one of the pending change: it restores only    *)
(* what is not confirmed, and leaves only what is.                           *)
WatchersInOrder ==
  \A c \in Changes :
    /\ Running(c) => pending = c
    /\ watcher[c] = "restoring" => confirmer = "idle" /\ confirmed = "no"
    /\ watcher[c] = "leaving" => confirmed = "yes"

(* `nic confirm` past its marker: the marker stands, or the leaving watcher  *)
(* has already cleaned up; before the files go, the watcher is gone.         *)
ConfirmerInOrder ==
  /\ confirmer # "idle" => pending = NoFile \/ confirmed = "yes"
  /\ confirmer = "clean" => \A c \in Changes : ~Running(c)

(* What became of a change, as the files tell it.                            *)
FatesInOrder ==
  \A c \in Changes :
    /\ fate[c] = "open" => /\ pending = c /\ confirmed = "no"
                           /\ Running(c)
                           /\ changer[c] # "record"
    /\ fate[c] = "kept" => /\ changer[c] \in {"done", "dead"}
                           /\ pending = c => confirmed = "yes"

Ordered == /\ NothingPending /\ FilesInOrder
           /\ ChangersInOrder /\ WatchersInOrder /\ ConfirmerInOrder
           /\ FatesInOrder

IInv == TypeOK /\ (early = {} => Ordered)

-----------------------------------------------------------------------------
(* Type correctness *)

USE DistinctAssumption, DeadlyAssumption, MaxFaultsAssumption
USE DEF machine, files, processes, history, Works, Fails, ChangerAt,
        ChangerGoto, WatcherGoto, Settle, Settled, Cleanup, ChangerSteps,
        WatcherSteps, Fates

(* At boot nothing of nic runs and /run/nic is empty: the types hold.         *)
LEMMA TypeInit == Init => TypeOK
BY DEF Init, TypeOK, Networks

(* A change being refused or started, its snapshot and watcher included,      *)
(* keeps the types: what Save writes is what it captured.                     *)
LEMMA StartTypes ==
  ASSUME TypeOK, NEW c \in Changes, Begin(c) \/ Save(c) \/ Spawn(c) \/ Record(c)
  PROVE  TypeOK'
<1>1. CASE Begin(c)
  BY <1>1 DEF TypeOK, Begin, StopWatcher
<1>2. CASE Save(c)
  BY <1>2 DEF TypeOK, Save, Snapshots, Networks
<1>3. CASE Spawn(c)
  BY <1>3 DEF TypeOK, Spawn
<1>4. CASE Record(c)
  BY <1>4 DEF TypeOK, Record
<1> QED
  BY <1>1, <1>2, <1>3, <1>4

(* A change that is applied, armed or given up keeps the types: what it       *)
(* restores comes from a captured snapshot.                                   *)
LEMMA ApplyTypes ==
  ASSUME TypeOK, NEW c \in Changes,
         \/ BeginApply(c) \/ Reconciled(c) \/ Arm(c) \/ WriteArmed(c)
         \/ ArmFailed(c) \/ Cancel(c) \/ Discard(c) \/ Die(c)
  PROVE  TypeOK'
<1> USE DEF TypeOK
<1>1. CASE BeginApply(c)
  BY <1>1 DEF BeginApply, Networks
<1>2. CASE Reconciled(c)
  BY <1>2 DEF Reconciled, Networks, Predecessor
<1>3. CASE Arm(c)
  BY <1>3 DEF Arm
<1>4. CASE WriteArmed(c)
  BY <1>4 DEF WriteArmed
<1>5. CASE ArmFailed(c)
  BY <1>5 DEF ArmFailed, Networks, Snapshots
<1>6. CASE Cancel(c)
  BY <1>6 DEF Cancel
<1>7. CASE Discard(c)
  BY <1>7 DEF Discard, StopWatcher
<1>8. CASE Die(c)
  BY <1>8 DEF Die
<1> QED
  BY <1>1, <1>2, <1>3, <1>4, <1>5, <1>6, <1>7, <1>8

(* The watcher keeps the types.                                               *)
LEMMA WatcherTypes ==
  ASSUME TypeOK, NEW c \in Changes, WatcherStep(c)
  PROVE  TypeOK'
<1> USE DEF TypeOK
<1>1. CASE Poll(c) \/ CheckParent(c) \/ Watch(c)
  BY <1>1 DEF Poll, CheckParent, Watch
<1>2. CASE WatcherLock(c) \/ Leave(c)
  BY <1>2 DEF WatcherLock, Leave, Networks
<1>3. CASE Restored(c)
  BY <1>3 DEF Restored, Networks, Snapshots
<1>4. CASE RestoreFailed(c)
  BY <1>4 DEF RestoreFailed, Networks, Snapshots, NoSnap
<1> QED
  BY <1>1, <1>2, <1>3, <1>4 DEF WatcherStep

(* `nic confirm` and `nic stop` keep the types.                               *)
LEMMA OperatorTypes ==
  ASSUME TypeOK, Confirm \/ ConfirmStep \/ ConfirmDies \/ Stop
  PROVE  TypeOK'
<1> USE DEF TypeOK
<1>1. CASE Confirm
  BY <1>1 DEF Confirm
<1>2. CASE ConfirmStep
  BY <1>2 DEF ConfirmStep, ConfirmKill, ConfirmClean, StopWatcher
<1>3. CASE ConfirmDies \/ Stop
  BY <1>3 DEF ConfirmDies, Stop, Networks
<1> QED
  BY <1>1, <1>2, <1>3

LEMMA TypeStep == TypeOK /\ [Next]_vars => TypeOK'
<1> SUFFICES ASSUME TypeOK, [Next]_vars PROVE TypeOK'
  OBVIOUS
<1>1. CASE UNCHANGED vars
  BY <1>1 DEF vars, TypeOK
<1>2. CASE Next
  BY <1>2, StartTypes, ApplyTypes, WatcherTypes, OperatorTypes
  DEF Next, ChangerStep
<1> QED
  BY <1>1, <1>2

(* The types hold always, and a state file holds a captured snapshot: what    *)
(* the helper loads (revert.go:330) is never the state of nobody.             *)
THEOREM TypeCorrect == Spec => []TypeOK
BY TypeInit, TypeStep, PTL DEF Spec

-----------------------------------------------------------------------------
(* The inductive invariant *)

USE DEF Applying, Watched, Running

LEMMA OrderedInit == Init => Ordered
BY DEF Init, Ordered, NothingPending, FilesInOrder, ChangersInOrder,
       WatchersInOrder, ConfirmerInOrder, FatesInOrder

(* Only a change that finds nothing pending is started; what it has started   *)
(* is its own.                                                                *)
LEMMA StartOrdered ==
  ASSUME TypeOK, Ordered, NEW c \in Changes,
         Begin(c) \/ Save(c) \/ Spawn(c) \/ Record(c)
  PROVE  Ordered'
<1> USE DEF TypeOK, Ordered, NothingPending, FilesInOrder, ChangersInOrder,
            WatchersInOrder, ConfirmerInOrder, FatesInOrder
<1>1. CASE Begin(c)
  BY <1>1 DEF Begin, LockFree, StopWatcher
<1>2. CASE Save(c)
  BY <1>2 DEF Save
<1>3. CASE Spawn(c)
  BY <1>3 DEF Spawn
<1>4. CASE Record(c)
  BY <1>4 DEF Record
<1> QED
  BY <1>1, <1>2, <1>3, <1>4

(* Applying, arming and giving up leave the files to the change and its       *)
(* watcher; what is discarded has no watcher any more.                        *)
LEMMA ApplyOrdered ==
  ASSUME TypeOK, Ordered, NEW c \in Changes,
         \/ BeginApply(c) \/ Reconciled(c) \/ Arm(c) \/ WriteArmed(c)
         \/ ArmFailed(c) \/ Cancel(c) \/ Discard(c) \/ Die(c)
  PROVE  Ordered'
<1> USE DEF TypeOK, Ordered, NothingPending, FilesInOrder, ChangersInOrder,
            WatchersInOrder, ConfirmerInOrder, FatesInOrder
<1>1. CASE BeginApply(c)
  BY <1>1 DEF BeginApply
<1>2. CASE Reconciled(c)
  BY <1>2 DEF Reconciled
<1>3. CASE Arm(c)
  BY <1>3 DEF Arm
<1>4. CASE WriteArmed(c)
  BY <1>4 DEF WriteArmed
<1>5. CASE ArmFailed(c)
  BY <1>5 DEF ArmFailed
<1>6. CASE Cancel(c)
  BY <1>6 DEF Cancel, LockFree
<1>7. CASE Discard(c)
  BY <1>7 DEF Discard, StopWatcher
<1>8. CASE Die(c)
  BY <1>8 DEF Die
<1> QED
  BY <1>1, <1>2, <1>3, <1>4, <1>5, <1>6, <1>7, <1>8

(* The watcher acts on its own change only: it restores what it has found     *)
(* pending under the lock, and cleans up what is confirmed.                   *)
LEMMA WatcherOrdered ==
  ASSUME TypeOK, Ordered, NEW c \in Changes, WatcherStep(c)
  PROVE  Ordered'
<1> USE DEF TypeOK, Ordered, NothingPending, FilesInOrder, ChangersInOrder,
            WatchersInOrder, ConfirmerInOrder, FatesInOrder
<1>1. CASE Poll(c)
  BY <1>1 DEF Poll
<1>2. CASE CheckParent(c)
  BY <1>2 DEF CheckParent, Alive
<1>3. CASE Watch(c)
  BY <1>3 DEF Watch
<1>4. CASE WatcherLock(c)
  BY <1>4 DEF WatcherLock, LockFree
<1>5. CASE Restored(c)
  BY <1>5 DEF Restored
<1>6. CASE RestoreFailed(c)
  BY <1>6 DEF RestoreFailed
<1>7. CASE Leave(c)
  BY <1>7 DEF Leave
<1> QED
  BY <1>1, <1>2, <1>3, <1>4, <1>5, <1>6, <1>7 DEF WatcherStep

(* A confirmation of an armed change takes it from its watcher, whether it    *)
(* comes to an end or not; `nic stop` touches neither.                        *)
LEMMA OperatorOrdered ==
  ASSUME TypeOK, Ordered, early' = {},
         Confirm \/ ConfirmStep \/ ConfirmDies \/ Stop
  PROVE  Ordered'
<1> USE DEF TypeOK, Ordered, NothingPending, FilesInOrder, ChangersInOrder,
            WatchersInOrder, ConfirmerInOrder, FatesInOrder
<1>1. CASE Confirm
  BY <1>1 DEF Confirm, LockFree
<1>2. CASE ConfirmKill
  BY <1>2 DEF ConfirmKill, StopWatcher
<1>3. CASE ConfirmClean
  BY <1>3 DEF ConfirmClean
<1>4. CASE ConfirmDies \/ Stop
  BY <1>4 DEF ConfirmDies, Stop
<1> QED
  BY <1>1, <1>2, <1>3, <1>4 DEF ConfirmStep

(* What a step does to the history: no confirmation is ever forgotten.        *)
LEMMA EarlyGrows ==
  ASSUME TypeOK, [Next]_vars
  PROVE  early \subseteq early'
<1>1. CASE UNCHANGED vars
  BY <1>1 DEF vars
<1>2. CASE \E c \in Changes : Begin(c) \/ ChangerStep(c) \/ Die(c)
  BY <1>2 DEF Begin, ChangerStep, Save, Spawn, Record, BeginApply, Reconciled,
     Arm, WriteArmed, ArmFailed, Cancel, Discard, Die
<1>3. CASE \E c \in Changes : WatcherStep(c)
  BY <1>3 DEF WatcherStep, Poll, CheckParent, Watch, WatcherLock, Restored,
     RestoreFailed, Leave
<1>4. CASE Confirm \/ ConfirmStep \/ ConfirmDies \/ Stop
  BY <1>4 DEF Confirm, ConfirmStep, ConfirmKill, ConfirmClean, ConfirmDies, Stop
<1> QED
  BY <1>1, <1>2, <1>3, <1>4 DEF Next

LEMMA OrderedStep ==
  ASSUME TypeOK, Ordered, early' = {}, [Next]_vars
  PROVE  Ordered'
<1>1. CASE UNCHANGED vars
  BY <1>1 DEF vars, Ordered, NothingPending, FilesInOrder, ChangersInOrder,
     WatchersInOrder, ConfirmerInOrder, FatesInOrder
<1>2. CASE Next
  BY <1>2, StartOrdered, ApplyOrdered, WatcherOrdered, OperatorOrdered
  DEF Next, ChangerStep
<1> QED
  BY <1>1, <1>2

LEMMA IInvInit == Init => IInv
BY TypeInit, OrderedInit DEF IInv

LEMMA IInvStep == IInv /\ [Next]_vars => IInv'
<1> SUFFICES ASSUME IInv, [Next]_vars PROVE IInv'
  OBVIOUS
<1>1. TypeOK'
  BY TypeStep DEF IInv
<1>2. early' = {} => Ordered'
  BY EarlyGrows, OrderedStep DEF IInv
<1> QED
  BY <1>1, <1>2 DEF IInv

(* The pending file says who may do what: the changer that works, the watcher *)
(* that runs and the fate of every change agree with it, always.              *)
THEOREM Orderly == Spec => []IInv
BY IInvInit, IInvStep, PTL DEF Spec

-----------------------------------------------------------------------------
(* The properties *)

(* Commands of two processes never run on the machine together: no second     *)
(* change is applied while one is pending, and the watcher restores only when *)
(* the change is no longer applied (revert.go:69, revert.go:193).             *)
THEOREM SingleWriter == Spec => []OneWriter
<1>1. IInv => OneWriter
  BY DEF IInv, Ordered, ChangersInOrder, WatchersInOrder, OneWriter, Writers,
     Restorers
<1> QED
  BY <1>1, Orderly, PTL

(* From its first command until it is confirmed or undone a change has its    *)
(* own snapshot on disk and a live watcher on duty (README.md:223).           *)
THEOREM AlwaysGuarded == Spec => []Guarded
<1>1. IInv => Guarded
  BY DEF IInv, Ordered, FatesInOrder, WatchersInOrder, Guarded
<1> QED
  BY <1>1, Orderly, PTL

(* What was confirmed once armed stays, whatever fails or is killed after     *)
(* (revert.go:300): nobody who could undo it gets past the marker.            *)
LEMMA KeptStep ==
  ASSUME IInv, [Next]_vars, early = {}, NEW k \in Changes, fate[k] = "kept"
  PROVE  fate'[k] = "kept"
<1> USE DEF IInv, TypeOK, Ordered, ChangersInOrder, WatchersInOrder, FatesInOrder
<1>1. CASE UNCHANGED vars
  BY <1>1 DEF vars
<1>2. CASE \E c \in Changes : Begin(c) \/ Save(c) \/ Spawn(c) \/ Record(c)
  BY <1>2 DEF Begin, Save, Spawn, Record
<1>3. CASE \E c \in Changes : BeginApply(c) \/ ArmFailed(c) \/ Discard(c)
  BY <1>3 DEF BeginApply, ArmFailed, Discard
<1>4. CASE \E c \in Changes : \/ Reconciled(c) \/ Arm(c) \/ WriteArmed(c)
                             \/ Cancel(c) \/ Die(c)
  BY <1>4 DEF Reconciled, Arm, WriteArmed, Cancel, Die
<1>5. CASE \E c \in Changes : WatcherStep(c)
  BY <1>5 DEF WatcherStep, Poll, CheckParent, Watch, WatcherLock, Restored,
     RestoreFailed, Leave
<1>6. CASE Confirm \/ ConfirmStep \/ ConfirmDies \/ Stop
  BY <1>6 DEF Confirm, ConfirmStep, ConfirmKill, ConfirmClean, ConfirmDies, Stop
<1> QED
  BY <1>1, <1>2, <1>3, <1>4, <1>5, <1>6 DEF Next, ChangerStep

THEOREM ConfirmedIsFinal == Spec => KeptHolds
<1>1. IInv /\ [Next]_vars =>
        [\A c \in Changes : fate[c] = "kept" /\ early = {} => fate'[c] = "kept"]_vars
  BY KeptStep
<1> QED
  BY <1>1, Orderly, PTL DEF Spec, KeptHolds

(* A revert returns to what the change's own snapshot captured: the file that *)
(* is read is never another change's (revert.go:84-96).                       *)
LEMMA RevertStep ==
  ASSUME IInv, [Next]_vars, early = {}, NEW k \in Changes,
         fate[k] # "reverted", fate'[k] = "reverted"
  PROVE  net' = snap[k].net /\ applied' = snap[k].applied
<1> USE DEF IInv, TypeOK, Ordered, ChangersInOrder, WatchersInOrder
<1>1. CASE UNCHANGED vars
  BY <1>1 DEF vars
<1>2. CASE \E c \in Changes : Begin(c) \/ Save(c) \/ Spawn(c) \/ Record(c)
  BY <1>2 DEF Begin, Save, Spawn, Record
<1>3. CASE \E c \in Changes : BeginApply(c) \/ ArmFailed(c) \/ Discard(c)
  BY <1>3 DEF BeginApply, ArmFailed, Discard
<1>4. CASE \E c \in Changes : \/ Reconciled(c) \/ Arm(c) \/ WriteArmed(c)
                             \/ Cancel(c) \/ Die(c)
  BY <1>4 DEF Reconciled, Arm, WriteArmed, Cancel, Die
<1>5. CASE \E c \in Changes : WatcherStep(c)
  BY <1>5 DEF WatcherStep, Poll, CheckParent, Watch, WatcherLock, Restored,
     RestoreFailed, Leave
<1>6. CASE Confirm \/ ConfirmStep \/ ConfirmDies \/ Stop
  BY <1>6 DEF Confirm, ConfirmStep, ConfirmKill, ConfirmClean, ConfirmDies, Stop
<1> QED
  BY <1>1, <1>2, <1>3, <1>4, <1>5, <1>6 DEF Next, ChangerStep

THEOREM RevertsToItsSnapshot == Spec => RevertRestores
<1>1. IInv /\ [Next]_vars =>
        [\A c \in Changes : fate[c] # "reverted" /\ fate'[c] = "reverted" /\ early = {}
           => net' = snap[c].net /\ applied' = snap[c].applied]_vars
  BY RevertStep
<1> QED
  BY <1>1, Orderly, PTL DEF Spec, RevertRestores

-----------------------------------------------------------------------------
(* The promise of NicTrial *)

\* The machine as change c found it, and as it leaves it.
AsFound(c) == net = snap[c].net /\ applied = snap[c].applied
AsAsked(c) == net = c /\ applied = c

\* What has become of a change at each step of its changer.
FatesOfChangers ==
  \A c \in Changes :
    /\ changer[c] \in {"idle", "save", "spawn", "record", "apply"} => fate[c] = "none"
    /\ changer[c] \in {"applying", "arm", "arming", "armFailed"} => fate[c] = "open"
    /\ changer[c] \in {"cancel", "discard"} => fate[c] \in {"open", "reverted", "lost"}

\* Who decides: a watcher that failed is gone, an armed change is open until somebody has decided.
FatesOfPending ==
  \A c \in Changes :
    /\ fate[c] = "stuck" => ~Running(c)
    /\ pending = c /\ armed = "yes" => fate[c] \in {"open", "kept", "stuck"}
    /\ pending = c /\ confirmed = "yes" => fate[c] \in {"kept", "stuck"}

\* The machine before the first command of a change, after an undo of its own changer, and once it is applied.
MachineInOrder ==
  \A c \in Changes :
    /\ changer[c] \in {"spawn", "record"} => AsFound(c)
    /\ changer[c] \in {"cancel", "discard"} /\ fate[c] = "reverted" => AsFound(c)
    /\ changer[c] \in {"arm", "arming"} => AsAsked(c)
    /\ pending = c /\ armed = "yes" /\ fate[c] = "open" /\ watcher[c] # "restoring"
         => AsAsked(c) \/ (net = Pristine /\ applied = NoFile)

TrialInOrder == FatesOfChangers /\ FatesOfPending /\ MachineInOrder

JInv == IInv /\ (early = {} => TrialInOrder)

\* No change has been begun.
LEMMA TrialInit == Init => TrialInOrder
BY DEF Init, TrialInOrder, FatesOfChangers, FatesOfPending, MachineInOrder, AsFound, Running

\* A change is begun and captured: nothing has become of it, and the machine is as it was found.
LEMMA StartTrial ==
  ASSUME TypeOK, Ordered, TrialInOrder, NEW c \in Changes,
         Begin(c) \/ Save(c) \/ Spawn(c) \/ Record(c)
  PROVE  TrialInOrder'
<1> USE DEF TypeOK, Ordered, NothingPending, FilesInOrder, ChangersInOrder, WatchersInOrder,
            TrialInOrder, FatesOfChangers, FatesOfPending, MachineInOrder, AsFound, AsAsked
<1>1. CASE Begin(c)
  BY <1>1 DEF Begin, LockFree, StopWatcher
<1>2. CASE Save(c)
  BY <1>2 DEF Save
<1>3. CASE Spawn(c)
  BY <1>3 DEF Spawn
<1>4. CASE Record(c)
  BY <1>4 DEF Record
<1> QED
  BY <1>1, <1>2, <1>3, <1>4

\* A change is applied and armed, or undone and given up by its own changer.
LEMMA ApplyTrial ==
  ASSUME TypeOK, Ordered, TrialInOrder, NEW c \in Changes,
         \/ BeginApply(c) \/ Reconciled(c) \/ Arm(c) \/ WriteArmed(c)
         \/ ArmFailed(c) \/ Cancel(c) \/ Discard(c) \/ Die(c)
  PROVE  TrialInOrder'
<1> USE DEF TypeOK, Ordered, NothingPending, FilesInOrder, ChangersInOrder, WatchersInOrder,
            TrialInOrder, FatesOfChangers, FatesOfPending, MachineInOrder, AsFound, AsAsked
<1>1. CASE BeginApply(c)
  BY <1>1 DEF BeginApply
<1>2. CASE Reconciled(c)
  BY <1>2 DEF Reconciled
<1>3. CASE Arm(c)
  BY <1>3 DEF Arm
<1>4. CASE WriteArmed(c)
  BY <1>4 DEF WriteArmed
<1>5. CASE ArmFailed(c)
  BY <1>5 DEF ArmFailed
<1>6. CASE Cancel(c)
  BY <1>6 DEF Cancel
<1>7. CASE Discard(c)
  BY <1>7 DEF Discard, StopWatcher
<1>8. CASE Die(c)
  BY <1>8 DEF Die
<1> QED
  BY <1>1, <1>2, <1>3, <1>4, <1>5, <1>6, <1>7, <1>8

\* The watcher restores or gives up.
LEMMA WatcherTrial ==
  ASSUME TypeOK, Ordered, TrialInOrder, NEW c \in Changes, WatcherStep(c)
  PROVE  TrialInOrder'
<1> USE DEF TypeOK, Ordered, NothingPending, FilesInOrder, ChangersInOrder, WatchersInOrder,
            FatesInOrder, TrialInOrder, FatesOfChangers, FatesOfPending, MachineInOrder, AsFound, AsAsked
<1>1. CASE Poll(c) \/ CheckParent(c) \/ Watch(c)
  BY <1>1 DEF Poll, CheckParent, Watch
<1>2. CASE WatcherLock(c)
  BY <1>2 DEF WatcherLock, LockFree
<1>3. CASE Restored(c)
  BY <1>3 DEF Restored
<1>4. CASE RestoreFailed(c)
  BY <1>4 DEF RestoreFailed
<1>5. CASE Leave(c)
  BY <1>5 DEF Leave
<1> QED
  BY <1>1, <1>2, <1>3, <1>4, <1>5 DEF WatcherStep

\* An operator confirms what is armed, or stops while no changer works.
LEMMA OperatorTrial ==
  ASSUME TypeOK, Ordered, TrialInOrder, early' = {},
         Confirm \/ ConfirmStep \/ ConfirmDies \/ Stop
  PROVE  TrialInOrder'
<1> USE DEF TypeOK, Ordered, NothingPending, FilesInOrder, ChangersInOrder, WatchersInOrder,
            ConfirmerInOrder, TrialInOrder, FatesOfChangers, FatesOfPending, MachineInOrder, AsFound, AsAsked
<1>1. CASE Confirm
  BY <1>1 DEF Confirm, LockFree
<1>2. CASE ConfirmKill
  BY <1>2 DEF ConfirmKill, StopWatcher
<1>3. CASE ConfirmClean
  BY <1>3 DEF ConfirmClean
<1>4. CASE ConfirmDies
  BY <1>4 DEF ConfirmDies
<1>5. CASE Stop
  BY <1>5 DEF Stop, Alive
<1> QED
  BY <1>1, <1>2, <1>3, <1>4, <1>5 DEF ConfirmStep

LEMMA TrialStep ==
  ASSUME TypeOK, Ordered, TrialInOrder, early' = {}, [Next]_vars
  PROVE  TrialInOrder'
<1>1. CASE UNCHANGED vars
  BY <1>1 DEF vars, TrialInOrder, FatesOfChangers, FatesOfPending, MachineInOrder, AsFound, AsAsked, Running
<1>2. CASE Next
  BY <1>2, StartTrial, ApplyTrial, WatcherTrial, OperatorTrial DEF Next, ChangerStep
<1> QED
  BY <1>1, <1>2

(* What became of a change, and the machine it leaves, agree with where its   *)
(* processes are.                                                             *)
THEOREM InOrderOfTrial == Spec => []JInv
<1>1. Init => JInv
  BY IInvInit, TrialInit DEF JInv
<1>2. JInv /\ [Next]_vars => JInv'
  <2> SUFFICES ASSUME JInv, [Next]_vars PROVE JInv'
    OBVIOUS
  <2>1. IInv'
    BY IInvStep DEF JInv
  <2>2. early' = {} => TrialInOrder'
    BY EarlyGrows, TrialStep DEF JInv, IInv
  <2> QED
    BY <2>1, <2>2 DEF JInv
<1> QED
  BY <1>1, <1>2, PTL DEF Spec

\* The refinement mapping.
machineT == [net |-> net, applied |-> applied]
originT  == IF OnTrial = NoFile THEN NoFile ELSE snap[OnTrial]
verdictT == [c \in Changes |-> Verdict(c)]

\* A step that leaves the change on trial and what became of the others leaves the promise's state.
LEMMA Undecided ==
  ASSUME TypeOK, NEW t \in Changes \cup {NoFile}, OnTrial = t, OnTrial' = t, snap' = snap,
         \A c \in Changes : c # t => fate'[c] = fate[c]
  PROVE  originT' = originT /\ verdictT' = verdictT
<1>1. \A c \in Changes : Verdict(c)' = Verdict(c)
  BY DEF Verdict
<1>2. verdictT' = verdictT
  <2> HIDE DEF Verdict
  <2> QED
    BY <1>1 DEF verdictT
<1> QED
  BY <1>2 DEF originT

\* Nothing of what NicTrial shows has changed.
LEMMA Unseen ==
  ASSUME TypeOK, OnTrial' = OnTrial, UNCHANGED <<machine, snap, fate>>, early = {}, early' = {}
  PROVE  UNCHANGED Trial!pvars
<1>1. OnTrial \in Changes \cup {NoFile}
  BY DEF TypeOK, OnTrial
<1>2. originT' = originT /\ verdictT' = verdictT
  BY <1>1, Undecided
<1> QED
  BY <1>2 DEF Trial!pvars, originT, verdictT

\* A step of a process that has the change on trial in hand.
LEMMA Working ==
  ASSUME TypeOK, NEW t \in Changes, OnTrial = t, OnTrial' = t, snap' = snap,
         \A c \in Changes : c # t => fate'[c] = fate[c]
  PROVE  Trial!Work
<1>1. originT' = originT /\ verdictT' = verdictT
  BY Undecided
<1> QED
  BY <1>1, DistinctAssumption DEF Trial!Work, originT, verdictT

\* The change on trial is decided, and the others are what they were.
LEMMA Decided ==
  ASSUME TypeOK, NEW t \in Changes, OnTrial = t, OnTrial' = NoFile,
         \A c \in Changes : c # t => fate'[c] = fate[c],
         NEW result, Verdict(t)' = result
  PROVE  Trial!Ends(result)
<1>1. \A c \in Changes : c # t => Verdict(c)' = Verdict(c)
  BY DistinctAssumption DEF Verdict
<1>2. verdictT' = [verdictT EXCEPT ![t] = result]
  <2> HIDE DEF Verdict
  <2> QED
    BY <1>1 DEF verdictT
<1>3. originT' = NoFile
  BY DEF originT
<1> QED
  BY <1>2, <1>3, DistinctAssumption DEF Trial!Ends, originT, verdictT

\* Beginning: the promise begins with the snapshot, and is withdrawn if the watcher cannot be started.
LEMMA StartImplements ==
  ASSUME JInv, early = {}, early' = {}, NEW c \in Changes,
         Begin(c) \/ Save(c) \/ Spawn(c) \/ Record(c)
  PROVE  [Trial!Next]_(Trial!pvars)
<1> USE DEF JInv, IInv, TypeOK, Ordered, NothingPending, ChangersInOrder, WatchersInOrder, TrialInOrder,
            FatesOfChangers, MachineInOrder, AsFound, OnTrial
<1>1. CASE Begin(c)
  BY <1>1, Unseen DEF Begin
<1>2. CASE Save(c)
  <2>1. CASE Fails
    BY <1>2, <2>1, Unseen DEF Save
  <2>2. CASE pending' = c /\ snap' = [snap EXCEPT ![c] = [net |-> net, applied |-> applied]]
    <3>1. /\ pending = NoFile /\ fate[c] = "none" /\ OnTrial = NoFile /\ OnTrial' = c
          /\ UNCHANGED <<net, applied, fate>>
      BY <1>2, <2>2 DEF Save
    <3>2. \A d \in Changes : Verdict(d)' = Verdict(d)
      BY <3>1 DEF Verdict
    <3>3. verdictT' = verdictT /\ verdictT[c] = "none"
      BY <3>1, <3>2 DEF verdictT, Verdict
    <3>4. originT' = machineT
      BY <2>2, <3>1 DEF originT, machineT
    <3>5. Trial!Try(c)
      BY <3>1, <3>3, <3>4 DEF Trial!Try, machineT, originT, verdictT
    <3> QED
      BY <3>5 DEF Trial!Next
  <2> QED
    BY <1>2, <2>1, <2>2 DEF Save
<1>3. CASE Spawn(c) \/ Record(c)
  <2>1. CASE pending' = pending
    BY <1>3, <2>1, Unseen DEF Spawn, Record
  <2>2. CASE pending' = NoFile
    <3>1. /\ OnTrial = c /\ OnTrial' = NoFile /\ fate[c] = "none"
          /\ UNCHANGED <<net, applied, fate>> /\ machineT = originT
      BY <1>3, <2>2 DEF Spawn, Record, machineT, originT, Snapshots
    <3>2. Trial!Ends("none")
      <4>1. Verdict(c)' = "none"
        BY <3>1 DEF Verdict
      <4> QED
        BY <3>1, <4>1, Decided
    <3>3. Trial!Withdraw
      BY <3>1, <3>2 DEF Trial!Withdraw, machineT, originT
    <3> QED
      BY <3>3 DEF Trial!Next
  <2> QED
    BY <1>3, <2>1, <2>2 DEF Spawn, Record
<1> QED
  BY <1>1, <1>2, <1>3

\* Applying, arming and undoing is the work of the change on trial; giving up decides it.
LEMMA ApplyImplements ==
  ASSUME JInv, early = {}, early' = {}, NEW c \in Changes,
         \/ BeginApply(c) \/ Reconciled(c) \/ Arm(c) \/ WriteArmed(c)
         \/ ArmFailed(c) \/ Cancel(c) \/ Discard(c) \/ Die(c)
  PROVE  [Trial!Next]_(Trial!pvars)
<1> USE DEF JInv, IInv, TypeOK, Ordered, ChangersInOrder, TrialInOrder, FatesOfChangers, MachineInOrder, OnTrial
<1>1. CASE BeginApply(c) \/ Reconciled(c) \/ ArmFailed(c)
  <2>1. /\ OnTrial = c /\ OnTrial' = c /\ snap' = snap
        /\ \A d \in Changes : d # c => fate'[d] = fate[d]
    BY <1>1 DEF BeginApply, Reconciled, ArmFailed
  <2>2. Trial!Work
    BY <2>1, Working
  <2> QED
    BY <2>2 DEF Trial!Next
<1>2. CASE Arm(c) \/ WriteArmed(c) \/ Cancel(c) \/ Die(c)
  BY <1>2, Unseen DEF Arm, WriteArmed, Cancel, Die
<1>3. CASE Discard(c)
  <2>1. CASE UNCHANGED <<files, fate>>
    BY <1>3, <2>1, Unseen DEF Discard
  <2>2. CASE Cleanup /\ fate' = [fate EXCEPT ![c] = IF @ = "open" THEN "discarded" ELSE @]
    <3>1. /\ OnTrial = c /\ OnTrial' = NoFile /\ UNCHANGED <<net, applied>>
          /\ \A d \in Changes : d # c => fate'[d] = fate[d]
      BY <1>3, <2>2 DEF Discard
    <3>2. CASE fate[c] = "reverted"
      <4>1. Verdict(c)' = "undone" /\ machineT' = originT
        BY <1>3, <2>2, <3>1, <3>2 DEF Discard, Verdict, machineT, originT, AsFound, Snapshots
      <4>2. Trial!Ends("undone")
        BY <3>1, <4>1, Decided
      <4>3. Trial!Undo
        BY <4>1, <4>2 DEF Trial!Undo, machineT, originT
      <4> QED
        BY <4>3 DEF Trial!Next
    <3>3. CASE fate[c] \in {"open", "lost"}
      <4>1. Verdict(c)' = "failed"
        BY <2>2, <3>1, <3>3 DEF Verdict
      <4>2. Trial!Fail
        BY <3>1, <4>1, Decided DEF Trial!Fail
      <4> QED
        BY <4>2 DEF Trial!Next
    <3> QED
      BY <1>3, <3>2, <3>3 DEF Discard
  <2> QED
    BY <1>3, <2>1, <2>2 DEF Discard
<1> QED
  BY <1>1, <1>2, <1>3

\* The watcher restores the machine that the change on trial found, or fails to.
LEMMA WatcherImplements ==
  ASSUME JInv, early = {}, early' = {}, NEW c \in Changes, WatcherStep(c)
  PROVE  [Trial!Next]_(Trial!pvars)
<1> USE DEF JInv, IInv, TypeOK, Ordered, WatchersInOrder, FatesInOrder, TrialInOrder, FatesOfPending, Running, OnTrial
<1>1. CASE Poll(c) \/ CheckParent(c) \/ Watch(c)
  BY <1>1, Unseen DEF Poll, CheckParent, Watch
<1>2. CASE WatcherLock(c)
  <2>1. CASE Settled
    BY <1>2, <2>1, Unseen DEF WatcherLock
  <2>2. CASE ~Settled
    <3>1. OnTrial = c /\ OnTrial' = c /\ UNCHANGED <<snap, fate>>
      BY <1>2, <2>2 DEF WatcherLock
    <3>2. Trial!Work
      BY <3>1, Working
    <3> QED
      BY <3>2 DEF Trial!Next
  <2> QED
    BY <2>1, <2>2
<1>3. CASE Restored(c)
  <2>1. /\ OnTrial = c /\ OnTrial' = NoFile /\ fate'[c] = "reverted"
        /\ \A d \in Changes : d # c => fate'[d] = fate[d]
    BY <1>3 DEF Restored
  <2>2. Verdict(c)' = "undone" /\ machineT' = originT
    BY <1>3, <2>1 DEF Restored, Verdict, machineT, originT, Snapshots
  <2>3. Trial!Ends("undone")
    BY <2>1, <2>2, Decided
  <2>4. Trial!Undo
    BY <2>2, <2>3 DEF Trial!Undo, machineT, originT
  <2> QED
    BY <2>4 DEF Trial!Next
<1>4. CASE RestoreFailed(c)
  <2>1. /\ OnTrial = c /\ OnTrial' = NoFile /\ fate'[c] = "stuck"
        /\ \A d \in Changes : d # c => fate'[d] = fate[d]
    BY <1>4 DEF RestoreFailed
  <2>2. Verdict(c)' = "failed"
    BY <2>1 DEF Verdict
  <2>3. Trial!Fail
    BY <2>1, <2>2, Decided DEF Trial!Fail
  <2> QED
    BY <2>3 DEF Trial!Next
<1>5. CASE Leave(c)
  BY <1>5, Unseen DEF Leave
<1> QED
  BY <1>1, <1>2, <1>3, <1>4, <1>5 DEF WatcherStep

\* A confirmation keeps the change that runs; a stop takes whatever runs off the machine.
LEMMA OperatorImplements ==
  ASSUME JInv, early = {}, early' = {}, Confirm \/ ConfirmStep \/ ConfirmDies \/ Stop
  PROVE  [Trial!Next]_(Trial!pvars)
<1> USE DEF JInv, IInv, TypeOK, Ordered, NothingPending, ConfirmerInOrder, TrialInOrder, FatesOfPending, MachineInOrder, OnTrial
<1>1. CASE Confirm
  <2>1. pending \in Changes /\ armed = "yes" /\ UNCHANGED <<net, applied, pending, snap>>
    BY <1>1 DEF Confirm
  <2>2. CASE fate[pending] \in {"kept", "stuck"}
    BY <1>1, <2>1, <2>2, Unseen DEF Confirm
  <2>3. CASE fate[pending] = "open"
    <3>1. PICK t \in Changes : t = pending
      BY <2>1
    <3>2. /\ OnTrial = t /\ OnTrial' = NoFile /\ fate'[t] = "kept"
          /\ \A d \in Changes : d # t => fate'[d] = fate[d]
      BY <1>1, <2>1, <2>3, <3>1 DEF Confirm
    <3>3. AsAsked(t) \/ (net = Pristine /\ applied = NoFile)
      BY <1>1, <2>1, <2>3, <3>1 DEF Confirm, LockFree
    <3>4. Verdict(t)' = "kept"
      BY <3>2 DEF Verdict
    <3>5. Trial!Ends("kept")
      BY <3>2, <3>4, Decided
    <3>6. Trial!Keep
      BY <2>1, <3>2, <3>3, <3>5 DEF Trial!Keep, Trial!InForce, AsAsked
    <3> QED
      BY <3>6 DEF Trial!Next
  <2> QED
    BY <2>1, <2>2, <2>3
<1>2. CASE ConfirmKill
  BY <1>2, Unseen DEF ConfirmKill
<1>3. CASE ConfirmClean
  BY <1>3, Unseen DEF ConfirmClean
<1>4. CASE ConfirmDies
  BY <1>4, Unseen DEF ConfirmDies
<1>5. CASE Stop
  <2>1. OnTrial' = OnTrial /\ UNCHANGED <<snap, fate>> /\ OnTrial \in Changes \cup {NoFile}
    BY <1>5 DEF Stop
  <2>2. originT' = originT /\ verdictT' = verdictT
    BY <2>1, Undecided
  <2>3. Trial!Halt
    BY <1>5, <2>1, <2>2 DEF Stop, Trial!Halt, originT, verdictT
  <2> QED
    BY <2>3 DEF Trial!Next
<1> QED
  BY <1>1, <1>2, <1>3, <1>4, <1>5 DEF ConfirmStep

\* Once a change was confirmed too early, nothing is promised any more.
LEMMA StepImplements == JInv /\ [Next]_vars => [Trial!Next]_(Trial!pvars)
<1> SUFFICES ASSUME JInv, [Next]_vars PROVE [Trial!Next]_(Trial!pvars)
  OBVIOUS
<1>1. CASE early' # {}
  BY <1>1 DEF Trial!Next
<1>2. CASE early' = {}
  <2>1. early = {}
    BY <1>2, EarlyGrows DEF JInv, IInv
  <2>2. CASE UNCHANGED vars
    <3>1. OnTrial' = OnTrial
      BY <2>2 DEF vars, OnTrial
    <3> QED
      BY <1>2, <2>1, <2>2, <3>1, Unseen DEF vars, JInv, IInv
  <2>3. CASE Next
    BY <1>2, <2>1, <2>3, StartImplements, ApplyImplements, WatcherImplements, OperatorImplements
    DEF Next, ChangerStep
  <2> QED
    BY <2>2, <2>3
<1> QED
  BY <1>1, <1>2

(* The processes together keep the promise of NicTrial: one change at a time  *)
(* is on trial, commands run for it only, it is kept only if it runs, and an  *)
(* undone one leaves the machine it found (README.md:223).                    *)
THEOREM ImplementsTrial == Spec => TrialSpec
<1>1. Init => Trial!Init
  BY DistinctAssumption DEF Init, Trial!Init, OnTrial, Verdict
<1>2. JInv /\ [Next]_vars => [Trial!Next]_(Trial!pvars)
  BY StepImplements
<1> QED
  BY <1>1, <1>2, InOrderOfTrial, PTL DEF Spec, TrialSpec, Trial!Spec
=============================================================================
