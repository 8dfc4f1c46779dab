------------------------ MODULE NicReconcileProofs ------------------------
(***************************************************************************)
(* Proofs about NicReconcile for any set of configurations, any number of  *)
(* failures and crashes, and any set of fallible calls: type correctness;  *)
(* then, provided that removing pending-config.json after a success does   *)
(* not fail ("clear"), that the baseline is pristine, that everything on   *)
(* the machine is on record, that configurations never mix and that the    *)
(* reports are the truth. All four follow from one inductive invariant.    *)
(***************************************************************************)
EXTENDS NicReconcile, TLAPS

(* A step of the reconciliation sees the files as it loaded or wrote them. *)
Reconciling ==
  /\ pc = "load" => base # NoFile /\ NoError
  /\ pc \in {"tearDownPending", "tearDownApplied", "restore"} =>
       base # NoFile /\ job.intent = pending /\ job.old = applied
  /\ pc \in {"baseline", "tearDownPending", "restoreInterrupted", "intent",
             "apply", "recordApplied", "clear"} => NoError
  /\ pc = "tearDownApplied" /\ NoError => pending \notin objects
  /\ pc = "restore" /\ NoError => objects = {}
  /\ pc \in {"restoreInterrupted", "intent"} =>
       base # NoFile /\ Effects = {} /\ job.old = applied
  /\ pc \in {"apply", "recordApplied"} => pending = job.cfg /\ job.old = applied
  /\ pc \in {"apply", "recordApplied", "clear"} =>
       base # NoFile /\ Effects \subseteq {job.cfg}
  /\ pc \in {"recordApplied", "clear"} => Complete(job.cfg)
  /\ pc = "clear" => applied = job.cfg

(* The rollback runs with the attempt as pending and the predecessor as      *)
(* applied: whatever it leaves is one or the other.                          *)
RollingBack ==
  /\ pc \in {"rollback", "rollbackRestore", "reapply",
             "recordPrevious", "rolledBack"} =>
       /\ base # NoFile /\ pending = job.cfg /\ job.old = applied
       /\ Effects \subseteq {job.cfg, job.old}
  /\ pc \in {"rollback", "rollbackRestore"} => Effects \subseteq {job.cfg}
  /\ pc = "rollback" => NoError
  /\ pc = "rollbackRestore" /\ NoError => objects = {}
  /\ pc = "reapply" => job.old # NoFile
  /\ pc = "reapply" /\ NoError => Effects \subseteq {job.old}
  /\ pc \in {"recordPrevious", "rolledBack"} /\ NoError =>
       tables = Only(job.old) /\ objects = Only(job.old)

StoppingInv ==
  /\ pc \in {"stopPending", "stopApplied", "stopRestore"} =>
       job.intent = pending /\ (applied # NoFile => job.old = applied)
  /\ pc = "stopPending" => NoError
  /\ pc = "stopApplied" /\ NoError => pending \notin objects
  /\ pc = "stopRestore" /\ NoError => objects = {}
  /\ pc \in {"removeApplied", "removePending", "removeBase"} => Effects = {}

(* The configuration that is applied, or reapplied, is one.                  *)
HasConfig ==
  /\ pc \in {"baseline", "load", "tearDownPending", "tearDownApplied",
             "restore", "restoreInterrupted", "intent", "apply",
             "recordApplied", "clear", "rollback", "rollbackRestore",
             "reapply", "recordPrevious", "rolledBack"} => job.cfg \in Configs
  /\ pc = "reapply" => job.old \in Configs

TypeInv == TypeOK /\ HasConfig

Safe == /\ BaselinePristine
        /\ EffectsRecorded
        /\ ReportsTruth
        /\ pc # "idle" => outcome = "none"
        /\ Reconciling
        /\ RollingBack
        /\ StoppingInv

IInv == TypeInv /\ Safe

-----------------------------------------------------------------------------
(* At boot nothing of nic runs and /run/nic is empty: the types hold.         *)
LEMMA TypeInit == Init => TypeOK
BY NoFileAssumption, MaxFaultsAssumption
DEF Init, TypeOK, ConfigOrNone, Steps, Jobs, NoJob, Outcomes

(* What teardownConfig does, without its cases: effects of c may go, nothing  *)
(* else changes, and without an error its objects are gone.                   *)
LEMMA TearDownFacts ==
  ASSUME TypeOK, NEW c \in ConfigOrNone, TearDown(c)
  PROVE  /\ objects' \subseteq objects /\ tables' \subseteq tables
         /\ job' \in Jobs /\ faults' \in 0..MaxFaults
         /\ job'.cfg = job.cfg /\ job'.intent = job.intent /\ job'.old = job.old
         /\ NoError' => NoError /\ c \notin objects'
<1>1. CASE /\ Works
           /\ objects' = objects \ {c}
           /\ \E kept \in SUBSET (tables \cap {c}) :
                tables' = (tables \ {c}) \cup kept
           /\ UNCHANGED job
  BY <1>1 DEF TypeOK, Works, Jobs, NoError
<1>2. CASE /\ c # NoFile
           /\ Fails("teardown")
           /\ \E kept \in SUBSET (objects \cap {c}) :
                objects' = (objects \ {c}) \cup kept
           /\ Join("teardown")
           /\ UNCHANGED tables
  <2>1. faults' \in 0..MaxFaults
    BY <1>2, MaxFaultsAssumption DEF TypeOK, Fails
  <2>2. /\ job' \in Jobs /\ ~NoError'
        /\ job'.cfg = job.cfg /\ job'.intent = job.intent /\ job'.old = job.old
    BY <1>2 DEF TypeOK, Join, Jobs, NoError, Calls
  <2> QED
    BY <1>2, <2>1, <2>2
<1> QED
  BY <1>1, <1>2 DEF TearDown

(* What state.RestoreState does, failing or not, over a pristine baseline:    *)
(* virtual links and clients stay, no address or route appears, and a restore *)
(* that succeeds leaves no table entry.                                       *)
LEMMA RestoreFacts ==
  ASSUME TypeOK, BaselinePristine, RestoreWorks \/ RestoreFails
  PROVE  /\ objects' = objects /\ tables' \subseteq tables
         /\ faults' \in 0..MaxFaults
         /\ RestoreWorks => tables' = {}
BY MaxFaultsAssumption
DEF TypeOK, BaselinePristine, RestoreWorks, RestoreFails, Works, Fails

(* One command of applyConfig(c) adds effects of c and removes nothing.       *)
LEMMA RunCommandFacts ==
  ASSUME TypeOK, NEW c \in Configs, RunCommand(c)
  PROVE  /\ tables \subseteq tables' /\ objects \subseteq objects'
         /\ tables' \subseteq tables \cup {c} /\ objects' \subseteq objects \cup {c}
         /\ tables' \in SUBSET Configs /\ objects' \in SUBSET Configs
         /\ faults' \in 0..MaxFaults
BY MaxFaultsAssumption DEF TypeOK, RunCommand, Works

-----------------------------------------------------------------------------
(* Type correctness *)

USE NoFileAssumption, MaxFaultsAssumption
USE DEF files, machine, Works, Fails, Goto, Return

(* Every step goes to a step of the code, and reports a known outcome.        *)
LEMMA ControlStep ==
  ASSUME pc \in Steps, outcome \in Outcomes, [Next]_vars
  PROVE  pc' \in Steps /\ outcome' \in Outcomes
<1> USE DEF Steps, Outcomes
<1>1. CASE \E c \in Configs : Start(c)
  BY <1>1 DEF Start
<1>2. CASE \E c \in ConfigOrNone : Stop(c)
  BY <1>2 DEF Stop
<1>3. CASE Reconcile
  BY <1>3 DEF Reconcile, EnsureBaseline, LoadSnapshots, TearDownPending,
     TearDownApplied, RestoreBaseline, RestoreInterrupted, RecordIntent, Apply,
     RecordApplied, ClearPending, BeginRollback
<1>4. CASE Rollback
  BY <1>4 DEF Rollback, RollbackTearDown, RollbackRestore, Reapply,
     RecordPrevious, RollbackDone
<1>5. CASE Stopping
  BY <1>5 DEF Stopping, StopTearDownPending, StopTearDownApplied, StopRestore,
     RemoveApplied, RemovePending, RemoveBase
<1>6. CASE Crash \/ UNCHANGED vars
  BY <1>6 DEF Crash, vars
<1> QED
  BY <1>1, <1>2, <1>3, <1>4, <1>5, <1>6 DEF Next

(* No step counts more failures than the bound.                               *)
LEMMA FaultsStep ==
  ASSUME faults \in 0..MaxFaults, [Next]_vars
  PROVE  faults' \in 0..MaxFaults
<1>1. CASE Works \/ (\E call \in Calls : Fails(call))
  BY <1>1
<1>2. CASE \E c \in Configs : Start(c)
  BY <1>2 DEF Start
<1>3. CASE \E c \in ConfigOrNone : Stop(c)
  BY <1>1, <1>3 DEF Stop, Calls
<1>4. CASE Reconcile
  BY <1>1, <1>4 DEF Reconcile, EnsureBaseline, LoadSnapshots, TearDownPending,
     TearDownApplied, RestoreBaseline, RestoreInterrupted, RecordIntent, Apply,
     RecordApplied, ClearPending, TearDown, RestoreWorks, RestoreFails,
     RunCommand, Calls
<1>5. CASE Rollback
  BY <1>1, <1>5 DEF Rollback, RollbackTearDown, RollbackRestore, Reapply,
     RecordPrevious, RollbackDone, TearDown, RestoreWorks, RestoreFails,
     RunCommand, Calls
<1>6. CASE Stopping
  BY <1>1, <1>6 DEF Stopping, StopTearDownPending, StopTearDownApplied,
     StopRestore, RemoveApplied, RemovePending, RemoveBase, TearDown,
     RestoreWorks, RestoreFails, Calls
<1>7. CASE Crash \/ UNCHANGED vars
  BY <1>1, <1>7 DEF Crash, vars, Calls
<1> QED
  BY <1>2, <1>3, <1>4, <1>5, <1>6, <1>7 DEF Next

(* The local variables of reconcileConfig and stopManagedConfig keep their    *)
(* types.                                                                     *)
LEMMA JobStep ==
  ASSUME TypeOK, [Next]_vars
  PROVE  job' \in Jobs
<1> USE DEF TypeOK, Jobs, ConfigOrNone
<1>1. CASE \E c \in Configs : Start(c)
  BY <1>1 DEF Start, NoJob
<1>2. CASE \E c \in ConfigOrNone : Stop(c)
  BY <1>2 DEF Stop, NoJob
<1>3. CASE EnsureBaseline
  BY <1>3 DEF EnsureBaseline
<1>4. CASE LoadSnapshots
  BY <1>4 DEF LoadSnapshots
<1>5. CASE \/ TearDownPending \/ TearDownApplied \/ RollbackTearDown
           \/ StopTearDownPending \/ StopTearDownApplied
  <2>1. ASSUME NEW c, TearDown(c) PROVE job' \in Jobs
    BY <2>1 DEF TearDown, Join, Calls
  <2> QED
    BY <1>5, <2>1 DEF TearDownPending, TearDownApplied, RollbackTearDown,
       StopTearDownPending, StopTearDownApplied
<1>6. CASE \/ RestoreBaseline \/ RestoreInterrupted \/ RecordIntent
           \/ RollbackDone \/ StopRestore
           \/ RemoveApplied \/ RemovePending \/ RemoveBase
  <2>1. job' = job
    BY <1>6 DEF RestoreBaseline, RestoreInterrupted, RecordIntent,
       RollbackDone, StopRestore, RemoveApplied, RemovePending, RemoveBase
  <2> QED
    BY <2>1
<1>7. ASSUME NEW cause \in {"apply", "clear"}, BeginRollback(cause)
      PROVE  job' \in Jobs
  BY <1>7 DEF BeginRollback
<1>8. CASE Apply \/ RecordApplied \/ ClearPending
  BY <1>7, <1>8 DEF Apply, RecordApplied, ClearPending
<1>9. ASSUME NEW call \in Calls, Join(call) PROVE job' \in Jobs
  BY <1>9 DEF Join
<1>10. CASE RollbackRestore \/ Reapply \/ RecordPrevious
  <2>1. {"restore", "apply", "save"} \subseteq Calls
    BY DEF Calls
  <2> QED
    BY <1>9, <1>10, <2>1 DEF RollbackRestore, Reapply, RecordPrevious
<1>11. CASE Crash \/ UNCHANGED vars
  BY <1>11 DEF Crash, NoJob, vars
<1> QED
  BY <1>1, <1>2, <1>3, <1>4, <1>5, <1>6, <1>8, <1>10, <1>11
  DEF Next, Reconcile, Rollback, Stopping

(* A reconcile always has a configuration to apply, and Reapply is reached    *)
(* only when there was a predecessor (hadOld, main.go:504).                   *)
LEMMA HasConfigStep ==
  ASSUME TypeInv, [Next]_vars
  PROVE  HasConfig'
<1> USE DEF TypeInv, HasConfig
<1>1. CASE \E c \in Configs : Start(c)
  BY <1>1 DEF Start, NoJob
<1>2. CASE \E c \in ConfigOrNone : Stop(c)
  BY <1>2 DEF Stop
<1>3. CASE EnsureBaseline \/ LoadSnapshots
  BY <1>3 DEF EnsureBaseline, LoadSnapshots, TypeOK, Jobs
<1>4. ASSUME NEW c, TearDown(c) PROVE job'.cfg = job.cfg
  BY <1>4 DEF TearDown, Join, TypeOK, Jobs
<1>5. CASE TearDownPending \/ TearDownApplied \/ RollbackTearDown
  BY <1>4, <1>5 DEF TearDownPending, TearDownApplied, RollbackTearDown
<1>6. CASE RestoreBaseline \/ RestoreInterrupted \/ RecordIntent
  BY <1>6 DEF RestoreBaseline, RestoreInterrupted, RecordIntent
<1>7. CASE Apply \/ RecordApplied \/ ClearPending
  BY <1>7 DEF Apply, RecordApplied, ClearPending, BeginRollback, TypeOK, Jobs
<1>8. CASE RollbackRestore
  <2>1. job'.cfg = job.cfg /\ job'.old = job.old /\ job.old \in ConfigOrNone
    BY <1>8 DEF RollbackRestore, Join, TypeOK, Jobs
  <2> QED
    BY <1>8, <2>1 DEF RollbackRestore, ConfigOrNone
<1>9. CASE Reapply \/ RecordPrevious
  BY <1>9 DEF Reapply, RecordPrevious, Join, TypeOK, Jobs
<1>10. CASE RollbackDone \/ Crash
  BY <1>10 DEF RollbackDone, Crash
<1>11. CASE Stopping
  BY <1>11 DEF Stopping, StopTearDownPending, StopTearDownApplied, StopRestore,
     RemoveApplied, RemovePending, RemoveBase
<1>12. CASE UNCHANGED vars
  BY <1>12 DEF vars
<1> QED
  BY <1>1, <1>2, <1>3, <1>5, <1>6, <1>7, <1>8, <1>9, <1>10, <1>11, <1>12
  DEF Next, Reconcile, Rollback

(* The three files and the machine hold configurations only.                  *)
LEMMA DataStep ==
  ASSUME TypeInv, [Next]_vars
  PROVE  /\ base' \in {NoFile} \cup SUBSET Configs
         /\ pending' \in ConfigOrNone /\ applied' \in ConfigOrNone
         /\ tables' \in SUBSET Configs /\ objects' \in SUBSET Configs
<1>2. /\ job.cfg \in ConfigOrNone /\ job.old \in ConfigOrNone
      /\ job.intent \in ConfigOrNone
  BY DEF TypeInv, TypeOK, Jobs
<1> USE DEF TypeInv, TypeOK
<1>3. CASE \/ \E c \in Configs : Start(c)
           \/ \E c \in ConfigOrNone : Stop(c)
           \/ LoadSnapshots \/ Crash \/ UNCHANGED vars
  BY <1>3 DEF Start, Stop, LoadSnapshots, Crash, vars
<1>4. CASE EnsureBaseline
  BY <1>4 DEF EnsureBaseline, Effects
<1>5. CASE \/ TearDownPending \/ TearDownApplied \/ RollbackTearDown
           \/ StopTearDownPending \/ StopTearDownApplied
  <2>1. ASSUME NEW c, TearDown(c)
        PROVE  tables' \in SUBSET Configs /\ objects' \in SUBSET Configs
    BY <2>1 DEF TearDown
  <2> QED
    BY <1>5, <2>1 DEF TearDownPending, TearDownApplied, RollbackTearDown,
       StopTearDownPending, StopTearDownApplied
<1>6. CASE RestoreBaseline \/ RestoreInterrupted \/ RollbackRestore \/ StopRestore
  <2>1. ASSUME RestoreWorks \/ RestoreFails
        PROVE  tables' \in SUBSET Configs /\ objects' \in SUBSET Configs
    BY <2>1 DEF RestoreWorks, RestoreFails
  <2>2. CASE RestoreBaseline
    BY <2>1, <2>2 DEF RestoreBaseline, ConfigOrNone
  <2>3. CASE RestoreInterrupted
    BY <2>1, <2>3 DEF RestoreInterrupted
  <2>4. CASE RollbackRestore
    BY <2>1, <2>4 DEF RollbackRestore
  <2>5. CASE StopRestore
    BY <2>1, <2>5 DEF StopRestore
  <2> QED
    BY <1>6, <2>2, <2>3, <2>4, <2>5
<1>7. CASE Apply \/ Reapply
  <2>1. ASSUME NEW c \in Configs, RunCommand(c)
        PROVE  tables' \in SUBSET Configs /\ objects' \in SUBSET Configs
    BY <2>1 DEF RunCommand
  <2> QED
    BY <1>7, <2>1 DEF Apply, Reapply, HasConfig
<1>8. CASE \/ RecordIntent \/ RecordApplied \/ ClearPending
           \/ RecordPrevious \/ RollbackDone
  BY <1>2, <1>8 DEF RecordIntent, RecordApplied, ClearPending, RecordPrevious,
     RollbackDone, ConfigOrNone
<1>9. CASE RemoveApplied \/ RemovePending \/ RemoveBase
  BY <1>9 DEF RemoveApplied, RemovePending, RemoveBase, ConfigOrNone
<1> QED
  BY <1>3, <1>4, <1>5, <1>6, <1>7, <1>8, <1>9
  DEF Next, Reconcile, Rollback, Stopping

(* The type invariant, with HasConfig, is inductive.                          *)
LEMMA TypeStep == TypeInv /\ [Next]_vars => TypeInv'
BY ControlStep, FaultsStep, JobStep, DataStep, HasConfigStep DEF TypeInv, TypeOK

(* Type correctness of reconcile, rollback and stop, whatever fails.          *)
THEOREM TypeCorrect == Spec => []TypeOK
<1>1. Init => TypeInv
  BY TypeInit DEF TypeInv, HasConfig, Init
<1>2. TypeInv => TypeOK
  BY DEF TypeInv
<1> QED
  BY <1>1, <1>2, TypeStep, PTL DEF Spec

-----------------------------------------------------------------------------
(* The inductive invariant *)

(* ensureBaseline captures a baseline only of a machine without effects: with *)
(* pending and applied absent, the invariant leaves nothing to capture.       *)
LEMMA EnsureBaselineStep ==
  ASSUME IInv, EnsureBaseline
  PROVE  Safe'
<1>0. pc = "baseline" /\ UNCHANGED <<pending, applied, machine>>
  BY DEF EnsureBaseline
<1>1. CASE base # NoFile /\ Works /\ Goto("load") /\ UNCHANGED <<base, job>>
  BY <1>0, <1>1 DEF IInv, Safe, TypeInv, TypeOK,
       ConfigOrNone, Jobs, BaselinePristine, EffectsRecorded, ReportsTruth,
       Reconciling, RollingBack, StoppingInv, Effects, Only, Complete, NoError
<1>3. CASE /\ \/ Return("refused")
              \/ Return("failed")
           /\ UNCHANGED <<base, job>>
  BY <1>0, <1>3 DEF IInv, Safe, TypeInv, TypeOK,
       ConfigOrNone, Jobs, BaselinePristine, EffectsRecorded, ReportsTruth,
       Reconciling, RollingBack, StoppingInv, Effects, Only, Complete, NoError
<1>2. CASE /\ base = NoFile /\ applied = NoFile /\ pending = NoFile
           /\ Works /\ Goto("load")
           /\ base' = Effects
           /\ job' = [job EXCEPT !.baseline = "captured"]
  <2>1. /\ UNCHANGED <<pending, applied, machine>> /\ pc = "baseline"
        /\ job'.errors = job.errors
    BY <1>2 DEF EnsureBaseline, IInv, TypeInv, TypeOK, Jobs
  <2>2. tables = {} /\ objects = {} /\ base' = {}
    BY <1>2 DEF IInv, Safe, EffectsRecorded, Effects
  <2> QED
    BY <1>2, <2>1, <2>2 DEF IInv, Safe, TypeInv, TypeOK,
       ConfigOrNone, Jobs, BaselinePristine, EffectsRecorded, ReportsTruth,
       Reconciling, RollingBack, StoppingInv, Effects, Only, Complete, NoError
<1> QED
  BY <1>1, <1>2, <1>3 DEF EnsureBaseline

(* What reconcileConfig loads is what is recorded, so what it goes on to tear *)
(* down covers every effect.                                                  *)
LEMMA LoadSnapshotsStep ==
  ASSUME IInv, LoadSnapshots
  PROVE  Safe'
<1>1. CASE /\ Works
           /\ job' = [job EXCEPT !.intent = pending, !.old = applied]
           /\ Goto(IF pending # NoFile \/ applied # NoFile THEN "tearDownPending"
                   ELSE IF job.baseline = "captured" THEN "intent"
                   ELSE "restoreInterrupted")
  <2>1. /\ pc = "load" /\ UNCHANGED <<files, machine, outcome>>
        /\ job'.intent = pending /\ job'.old = applied /\ job'.errors = job.errors
    BY <1>1 DEF LoadSnapshots, IInv, TypeInv, TypeOK, Jobs
  <2>2. pc' = "tearDownPending" \/ /\ pc' \in {"intent", "restoreInterrupted"}
                                   /\ pending = NoFile /\ applied = NoFile
    BY <1>1
  <2>3. pending = NoFile /\ applied = NoFile => Effects = {}
    BY DEF IInv, Safe, TypeInv, TypeOK,
       ConfigOrNone, Jobs, BaselinePristine, EffectsRecorded, ReportsTruth,
       Reconciling, RollingBack, StoppingInv, Effects, Only, Complete, NoError
  <2> QED
    BY <2>1, <2>2, <2>3 DEF IInv, Safe, TypeInv, TypeOK,
       ConfigOrNone, Jobs, BaselinePristine, EffectsRecorded, ReportsTruth,
       Reconciling, RollingBack, StoppingInv, Effects, Only, Complete, NoError
<1>2. CASE Fails("load") /\ Return("failed") /\ UNCHANGED job
  BY <1>2 DEF LoadSnapshots, IInv, Safe, TypeInv, TypeOK,
       ConfigOrNone, Jobs, BaselinePristine, EffectsRecorded, ReportsTruth,
       Reconciling, RollingBack, StoppingInv, Effects, Only, Complete, NoError
<1> QED
  BY <1>1, <1>2 DEF LoadSnapshots

(* Tearing down the interrupted configuration (main.go:510) preserves safety. *)
LEMMA TearDownPendingStep ==
  ASSUME IInv, TearDownPending
  PROVE  Safe'
BY TearDownFacts DEF TearDownPending, IInv, Safe, TypeInv, TypeOK,
   ConfigOrNone, Jobs, BaselinePristine, EffectsRecorded, ReportsTruth, Reconciling, RollingBack,
       StoppingInv, Effects, Only, Complete, NoError

(* Tearing down the applied configuration (main.go:513) preserves safety.     *)
LEMMA TearDownAppliedStep ==
  ASSUME IInv, TearDownApplied
  PROVE  Safe'
BY TearDownFacts DEF TearDownApplied, IInv, Safe, TypeInv, TypeOK,
   ConfigOrNone, Jobs, BaselinePristine, EffectsRecorded, ReportsTruth, Reconciling, RollingBack,
       StoppingInv, Effects, Only, Complete, NoError

(* pending is forgotten only after teardown and restore both succeeded, when  *)
(* nothing of it is left (main.go:516).                                       *)
LEMMA RestoreBaselineStep ==
  ASSUME IInv, RestoreBaseline
  PROVE  Safe'
BY RestoreFacts DEF RestoreBaseline, IInv, Safe, TypeInv, TypeOK,
   ConfigOrNone, Jobs, BaselinePristine, EffectsRecorded, ReportsTruth, Reconciling, RollingBack,
       StoppingInv, Effects, Only, Complete, NoError

(* Restoring the baseline when neither file exists (main.go:521).             *)
LEMMA RestoreInterruptedStep ==
  ASSUME IInv, RestoreInterrupted
  PROVE  Safe'
BY RestoreFacts DEF RestoreInterrupted, IInv, Safe, TypeInv, TypeOK,
   ConfigOrNone, Jobs, BaselinePristine, EffectsRecorded, ReportsTruth, Reconciling, RollingBack,
       StoppingInv, Effects, Only, Complete, NoError

(* The intent replaces pending on a machine without effects (main.go:529).    *)
LEMMA RecordIntentStep ==
  ASSUME IInv, RecordIntent
  PROVE  Safe'
BY DEF RecordIntent, IInv, Safe, TypeInv, TypeOK,
   ConfigOrNone, Jobs, BaselinePristine, EffectsRecorded, ReportsTruth, Reconciling, RollingBack,
       StoppingInv, Effects, Only, Complete, NoError

(* A command of applyConfig adds only effects of what pending records.        *)
LEMMA ApplyStep ==
  ASSUME IInv, Apply
  PROVE  Safe'
BY RunCommandFacts DEF Apply, BeginRollback, HasConfig, IInv, Safe, TypeInv, TypeOK,
   ConfigOrNone, Jobs, BaselinePristine, EffectsRecorded, ReportsTruth, Reconciling, RollingBack,
       StoppingInv, Effects, Only, Complete, NoError

(* applied takes over while pending still records the same configuration.     *)
LEMMA RecordAppliedStep ==
  ASSUME IInv, RecordApplied
  PROVE  Safe'
BY DEF RecordApplied, BeginRollback, IInv, Safe, TypeInv, TypeOK,
   ConfigOrNone, Jobs, BaselinePristine, EffectsRecorded, ReportsTruth, Reconciling, RollingBack,
       StoppingInv, Effects, Only, Complete, NoError

(* Clearing pending after success; its failure is assumed away (main.go:546). *)
LEMMA ClearPendingStep ==
  ASSUME IInv, ClearPending, "clear" \notin Faulty
  PROVE  Safe'
BY DEF ClearPending, IInv, Safe, TypeInv, TypeOK,
   ConfigOrNone, Jobs, BaselinePristine, EffectsRecorded, ReportsTruth, Reconciling, RollingBack,
       StoppingInv, Effects, Only, Complete, NoError

(* Tearing down the failed attempt preserves safety.                          *)
LEMMA RollbackTearDownStep ==
  ASSUME IInv, RollbackTearDown
  PROVE  Safe'
BY TearDownFacts DEF RollbackTearDown, IInv, Safe, TypeInv, TypeOK,
   ConfigOrNone, Jobs, BaselinePristine, EffectsRecorded, ReportsTruth, Reconciling, RollingBack,
       StoppingInv, Effects, Only, Complete, NoError

(* Restoring the baseline in a rollback, failed or not.                       *)
LEMMA RollbackRestoreStep ==
  ASSUME IInv, RollbackRestore
  PROVE  Safe'
BY RestoreFacts DEF RollbackRestore, Join, IInv, Safe, TypeInv, TypeOK,
   ConfigOrNone, Jobs, BaselinePristine, EffectsRecorded, ReportsTruth, Reconciling, RollingBack,
       StoppingInv, Effects, Only, Complete, NoError

(* Reapplying the predecessor adds effects that applied still records.        *)
LEMMA ReapplyStep ==
  ASSUME IInv, Reapply
  PROVE  Safe'
<1>1. pc = "reapply" /\ UNCHANGED files /\ job.old \in Configs
  BY DEF Reapply, IInv, TypeInv, HasConfig
<1>2. CASE RunCommand(job.old) /\ UNCHANGED <<pc, job, outcome>>
  BY <1>1, <1>2, RunCommandFacts DEF IInv, Safe, TypeInv, TypeOK,
       ConfigOrNone, Jobs, BaselinePristine, EffectsRecorded, ReportsTruth,
       Reconciling, RollingBack, StoppingInv, Effects, Only, Complete, NoError
<1>3. CASE /\ Complete(job.old) /\ Works /\ Goto("recordPrevious")
           /\ UNCHANGED <<machine, job>>
  BY <1>1, <1>3 DEF IInv, Safe, TypeInv, TypeOK,
       ConfigOrNone, Jobs, BaselinePristine, EffectsRecorded, ReportsTruth,
       Reconciling, RollingBack, StoppingInv, Effects, Only, Complete, NoError
<1>4. CASE /\ Fails("apply") /\ Join("apply") /\ Goto("rolledBack")
           /\ UNCHANGED machine
  <2>1. /\ job'.cfg = job.cfg /\ job'.old = job.old /\ ~NoError'
    BY <1>4 DEF Join, NoError, IInv, TypeInv, TypeOK, Jobs
  <2> QED
    BY <1>1, <1>4, <2>1 DEF IInv, Safe, TypeInv, TypeOK,
       ConfigOrNone, Jobs, BaselinePristine, EffectsRecorded, ReportsTruth,
       Reconciling, RollingBack, StoppingInv, Effects, Only, Complete, NoError
<1> QED
  BY <1>2, <1>3, <1>4 DEF Reapply

(* applied is rewritten, or removed without predecessor, to what runs.        *)
LEMMA RecordPreviousStep ==
  ASSUME IInv, RecordPrevious
  PROVE  Safe'
BY DEF RecordPrevious, Join, IInv, Safe, TypeInv, TypeOK,
   ConfigOrNone, Jobs, BaselinePristine, EffectsRecorded, ReportsTruth, Reconciling, RollingBack,
       StoppingInv, Effects, Only, Complete, NoError

(* A clean rollback clears pending when nothing of the attempt is left.       *)
LEMMA RollbackDoneStep ==
  ASSUME IInv, RollbackDone
  PROVE  Safe'
BY DEF RollbackDone, IInv, Safe, TypeInv, TypeOK,
   ConfigOrNone, Jobs, BaselinePristine, EffectsRecorded, ReportsTruth, Reconciling, RollingBack,
       StoppingInv, Effects, Only, Complete, NoError

(* stop tears down the interrupted configuration (main.go:665).               *)
LEMMA StopTearDownPendingStep ==
  ASSUME IInv, StopTearDownPending
  PROVE  Safe'
BY TearDownFacts DEF StopTearDownPending, IInv, Safe, TypeInv, TypeOK,
   ConfigOrNone, Jobs, BaselinePristine, EffectsRecorded, ReportsTruth, Reconciling, RollingBack,
       StoppingInv, Effects, Only, Complete, NoError

(* stop tears down the applied configuration (main.go:668).                   *)
LEMMA StopTearDownAppliedStep ==
  ASSUME IInv, StopTearDownApplied
  PROVE  Safe'
BY TearDownFacts DEF StopTearDownApplied, IInv, Safe, TypeInv, TypeOK,
   ConfigOrNone, Jobs, BaselinePristine, EffectsRecorded, ReportsTruth, Reconciling, RollingBack,
       StoppingInv, Effects, Only, Complete, NoError

(* stop goes on to the removals only from a pristine machine (main.go:677).   *)
LEMMA StopRestoreStep ==
  ASSUME IInv, StopRestore
  PROVE  Safe'
BY RestoreFacts DEF StopRestore, IInv, Safe, TypeInv, TypeOK,
   ConfigOrNone, Jobs, BaselinePristine, EffectsRecorded, ReportsTruth, Reconciling, RollingBack,
       StoppingInv, Effects, Only, Complete, NoError

(* Removing applied on a pristine machine loses nothing.                      *)
LEMMA RemoveAppliedStep ==
  ASSUME IInv, RemoveApplied
  PROVE  Safe'
BY DEF RemoveApplied, IInv, Safe, TypeInv, TypeOK,
   ConfigOrNone, Jobs, BaselinePristine, EffectsRecorded, ReportsTruth, Reconciling, RollingBack,
       StoppingInv, Effects, Only, Complete, NoError

(* Removing pending on a pristine machine loses nothing.                      *)
LEMMA RemovePendingStep ==
  ASSUME IInv, RemovePending
  PROVE  Safe'
BY DEF RemovePending, IInv, Safe, TypeInv, TypeOK,
   ConfigOrNone, Jobs, BaselinePristine, EffectsRecorded, ReportsTruth, Reconciling, RollingBack,
       StoppingInv, Effects, Only, Complete, NoError

(* Removing the baseline, last, on a pristine machine.                        *)
LEMMA RemoveBaseStep ==
  ASSUME IInv, RemoveBase
  PROVE  Safe'
BY DEF RemoveBase, IInv, Safe, TypeInv, TypeOK,
   ConfigOrNone, Jobs, BaselinePristine, EffectsRecorded, ReportsTruth, Reconciling, RollingBack,
       StoppingInv, Effects, Only, Complete, NoError

(* Process death keeps files and machine, and with them the record.           *)
LEMMA CrashStep ==
  ASSUME IInv, Crash
  PROVE  Safe'
BY DEF Crash, NoJob, IInv, Safe, TypeInv, TypeOK,
   ConfigOrNone, Jobs, BaselinePristine, EffectsRecorded, ReportsTruth, Reconciling, RollingBack,
       StoppingInv, Effects, Only, Complete, NoError

(* Starting a reconcile only resets its local variables.                      *)
LEMMA StartStep ==
  ASSUME IInv, NEW c \in Configs, Start(c)
  PROVE  Safe'
BY DEF Start, NoJob, IInv, Safe, TypeInv, TypeOK,
       ConfigOrNone, Jobs, BaselinePristine, EffectsRecorded, ReportsTruth,
       Reconciling, RollingBack, StoppingInv, Effects, Only, Complete, NoError

(* Starting a stop only loads its local variables.                            *)
LEMMA StopStep ==
  ASSUME IInv, NEW c \in ConfigOrNone, Stop(c)
  PROVE  Safe'
<1>1. UNCHANGED <<base, pending, applied, tables, objects>>
  BY DEF Stop
<1>2. BaselinePristine' /\ EffectsRecorded'
  BY <1>1 DEF IInv, Safe, BaselinePristine, EffectsRecorded, Effects
<1>3. CASE /\ pc' = "stopPending" /\ outcome' = "none" /\ job'.errors = {}
           /\ job'.intent = pending
           /\ job'.old = IF applied # NoFile THEN applied ELSE c
  BY <1>1, <1>2, <1>3 DEF Safe, ReportsTruth, Reconciling, RollingBack, StoppingInv, NoError
<1>4. CASE pc' = "idle" /\ outcome' = "failed"
  BY <1>1, <1>2, <1>4 DEF Safe, ReportsTruth, Reconciling, RollingBack, StoppingInv
<1> QED
  BY <1>3, <1>4 DEF Stop, NoJob, Return

(* The inductive invariant is preserved by every step, as long as the checked *)
(* removal of pending-config.json does not fail.                              *)
THEOREM SafeStep == "clear" \notin Faulty /\ IInv /\ [Next]_vars => IInv'
<1> SUFFICES ASSUME "clear" \notin Faulty, IInv, [Next]_vars
             PROVE  Safe'
  BY TypeStep DEF IInv
<1>1. CASE Reconcile
  BY <1>1, EnsureBaselineStep, LoadSnapshotsStep, TearDownPendingStep,
     TearDownAppliedStep, RestoreBaselineStep, RestoreInterruptedStep,
     RecordIntentStep, ApplyStep, RecordAppliedStep, ClearPendingStep
  DEF Reconcile
<1>2. CASE Rollback
  BY <1>2, RollbackTearDownStep, RollbackRestoreStep, ReapplyStep,
     RecordPreviousStep, RollbackDoneStep
  DEF Rollback
<1>3. CASE Stopping
  BY <1>3, StopTearDownPendingStep, StopTearDownAppliedStep, StopRestoreStep,
     RemoveAppliedStep, RemovePendingStep, RemoveBaseStep
  DEF Stopping
<1>4. CASE UNCHANGED vars
  BY <1>4 DEF vars, IInv, Safe, TypeInv, TypeOK,
       ConfigOrNone, Jobs, BaselinePristine, EffectsRecorded, ReportsTruth,
       Reconciling, RollingBack, StoppingInv, Effects, Only, Complete, NoError
<1> QED
  BY <1>1, <1>2, <1>3, <1>4, StartStep, StopStep, CrashStep DEF Next

(* The inductive invariant holds at boot.                                     *)
LEMMA SafeInit == Init => IInv
BY TypeInit DEF Init, NoJob, HasConfig, IInv, Safe, TypeInv, TypeOK,
       ConfigOrNone, Jobs, BaselinePristine, EffectsRecorded, ReportsTruth,
       Reconciling, RollingBack, StoppingInv, Effects, Only, Complete, NoError

(* Everything below is for a machine on which pending-config.json can be      *)
(* removed once the configuration that replaced it is recorded.               *)
THEOREM Invariance ==
  ASSUME "clear" \notin Faulty
  PROVE  Spec => []IInv
<1>1. IInv /\ [Next]_vars => IInv'
  BY SafeStep
<1> QED
  BY <1>1, SafeInit, PTL DEF Spec

(* The baseline that stop restores is the pre-nic network (ensureBaseline).   *)
THEOREM BaselineIsPristine ==
  ASSUME "clear" \notin Faulty
  PROVE  Spec => []BaselinePristine
<1>1. IInv => BaselinePristine
  BY DEF IInv, Safe
<1> QED
  BY <1>1, Invariance, PTL

(* What is on the machine is on record in pending or applied, beside a        *)
(* baseline (reconcileConfig, rollbackFailedApply, stopManagedConfig).        *)
THEOREM EffectsAreRecorded ==
  ASSUME "clear" \notin Faulty
  PROVE  Spec => []EffectsRecorded
<1>1. IInv => EffectsRecorded
  BY DEF IInv, Safe
<1> QED
  BY <1>1, Invariance, PTL

(* reconcileConfig applies on a machine free of any other configuration.      *)
THEOREM NothingAccumulates ==
  ASSUME "clear" \notin Faulty
  PROVE  Spec => []NoAccumulation
<1>1. IInv => NoAccumulation
  BY DEF IInv, Safe, Reconciling, NoAccumulation
<1> QED
  BY <1>1, Invariance, PTL

(* Success, a clean rollback and a completed stop leave what they report.     *)
THEOREM ReportsAreTrue ==
  ASSUME "clear" \notin Faulty
  PROVE  Spec => []ReportsTruth
<1>1. IInv => ReportsTruth
  BY DEF IInv, Safe
<1> QED
  BY <1>1, Invariance, PTL

-----------------------------------------------------------------------------
(* The files never contradict each other when removals work as well: the      *)
(* baseline is written first and removed last.                                *)

FilesAgree ==
  /\ base = NoFile => applied = NoFile /\ pending = NoFile
  /\ pc = "removePending" => applied = NoFile
  /\ pc = "removeBase" => applied = NoFile /\ pending = NoFile
  /\ outcome # "refused"

(* Without failing removals, applied and pending never outlive the baseline:  *)
(* stopManagedConfig removes it last (main.go:680-682).                       *)
LEMMA FilesAgreeStep ==
  ASSUME "unlink" \notin Faulty, IInv, FilesAgree, [Next]_vars
  PROVE  FilesAgree'
<1> USE DEF FilesAgree
<1>1. CASE \/ \E c \in Configs : Start(c)
           \/ \E c \in ConfigOrNone : Stop(c)
  BY <1>1 DEF Start, Stop
<1>2. CASE EnsureBaseline
  BY <1>2 DEF EnsureBaseline
<1>3. CASE LoadSnapshots
  BY <1>3 DEF LoadSnapshots
<1>4. CASE \/ TearDownPending \/ TearDownApplied \/ RollbackTearDown
           \/ StopTearDownPending \/ StopTearDownApplied
  BY <1>4 DEF TearDownPending, TearDownApplied, RollbackTearDown,
     StopTearDownPending, StopTearDownApplied
<1>5. CASE RestoreBaseline \/ RestoreInterrupted \/ RollbackRestore
  BY <1>5 DEF RestoreBaseline, RestoreInterrupted, RollbackRestore,
     RestoreWorks, RestoreFails
<1>6. CASE RecordIntent \/ RecordApplied \/ ClearPending
  BY <1>6 DEF RecordIntent, RecordApplied, ClearPending, BeginRollback,
     IInv, Safe, Reconciling
<1>7. CASE Apply \/ Reapply
  BY <1>7 DEF Apply, Reapply, BeginRollback
<1>8. CASE RecordPrevious \/ RollbackDone
  BY <1>8 DEF RecordPrevious, RollbackDone, IInv, Safe, RollingBack
<1>9. CASE StopRestore
  BY <1>9 DEF StopRestore
<1>10. CASE RemoveApplied \/ RemovePending \/ RemoveBase
  BY <1>10 DEF RemoveApplied, RemovePending, RemoveBase
<1>11. CASE Crash \/ UNCHANGED vars
  BY <1>11 DEF Crash, vars
<1> QED
  BY <1>1, <1>2, <1>3, <1>4, <1>5, <1>6, <1>7, <1>8, <1>9, <1>10, <1>11
  DEF Next, Reconcile, Rollback, Stopping

(* No crash and no failing step, removals aside, makes nic refuse to start.   *)
THEOREM StartIsNeverRefused ==
  ASSUME "clear" \notin Faulty, "unlink" \notin Faulty
  PROVE  Spec => []NeverRefused
<1>1. Init => FilesAgree
  BY DEF Init, FilesAgree
<1>2. IInv /\ FilesAgree /\ [Next]_vars => FilesAgree'
  BY FilesAgreeStep
<1>3. FilesAgree => NeverRefused
  BY DEF FilesAgree, NeverRefused
<1> QED
  BY <1>1, <1>2, <1>3, Invariance, PTL DEF Spec

-----------------------------------------------------------------------------
(* Refinement: NicReconcile implements NicManagedNetwork. *)

(* A step that keeps the machine and the baseline and reports nothing.        *)
LEMMA QuietStep ==
  ASSUME UNCHANGED <<base, machine>>, outcome' \in {"none", "failed", "refused"}
  PROVE  Promise!Begin
BY DEF Promise!Begin, Reported, Effects

(* A step of a running command that changes the machine.                      *)
LEMMA ChangingStep ==
  ASSUME TypeOK', UNCHANGED base, base # NoFile \/ UNCHANGED machine,
         outcome = "none", outcome' \in {"none", "failed"}
  PROVE  Promise!Change \/ Promise!Begin
<1>1. Reported = NoFile /\ Reported' = NoFile
  BY DEF Reported
<1>2. Effects' \in SUBSET Configs
  BY DEF TypeOK, Effects
<1>3. CASE base # NoFile
  BY <1>1, <1>2, <1>3 DEF Promise!Change
<1>4. CASE UNCHANGED machine
  BY <1>1, <1>4 DEF Promise!Begin, Effects
<1> QED
  BY <1>3, <1>4

(* Every step of reconcile, rollback and stop is a step of the abstract       *)
(* managed network, or leaves it as it is.                                    *)
LEMMA PromiseStep ==
  ASSUME IInv, IInv', [Next]_vars
  PROVE  [Promise!Next]_(Promise!pvars)
<1>0. TypeOK' /\ (pc # "idle" => outcome = "none")
  BY DEF IInv, TypeInv, Safe
<1>1. base = NoFile => Effects = {}
  BY DEF IInv, Safe, EffectsRecorded
<1>2. CASE \/ \E c \in Configs : Start(c)
           \/ LoadSnapshots \/ Crash \/ RecordIntent \/ RecordApplied
           \/ RecordPrevious \/ RemoveApplied \/ RemovePending
  <2>1. UNCHANGED <<base, machine>> /\ outcome' \in {"none", "failed", "refused"}
    BY <1>0, <1>2 DEF Start, LoadSnapshots, Crash, RecordIntent, RecordApplied,
       BeginRollback, RecordPrevious, RemoveApplied, RemovePending
  <2> QED
    BY <2>1, QuietStep DEF Promise!Next
<1>3. ASSUME NEW c \in ConfigOrNone, Stop(c) PROVE Promise!Begin
  BY <1>3, QuietStep DEF Stop
<1>4. CASE EnsureBaseline
  <2>1. CASE UNCHANGED base
    BY <1>0, <1>4, <2>1, QuietStep DEF EnsureBaseline, Promise!Next
  <2>2. CASE base = NoFile /\ base' = Effects /\ Goto("load")
    <3>1. Effects = {} /\ base' # NoFile /\ Effects' = Effects
      BY <1>1, <1>4, <2>2 DEF EnsureBaseline, Effects
    <3>2. Reported = NoFile /\ Reported' = NoFile
      BY <1>0, <1>4, <2>2 DEF EnsureBaseline, Reported
    <3> QED
      BY <2>2, <3>1, <3>2 DEF Promise!Keep, Promise!Next
  <2> QED
    BY <1>4, <2>1, <2>2 DEF EnsureBaseline
<1>5. CASE \/ TearDownPending \/ TearDownApplied \/ RollbackTearDown
           \/ StopTearDownPending \/ StopTearDownApplied
           \/ RestoreBaseline \/ RestoreInterrupted \/ RollbackRestore
           \/ Apply \/ Reapply \/ StopRestore
  <2>1. UNCHANGED base /\ pc # "idle" /\ outcome' \in {outcome, "failed"}
    BY <1>5 DEF TearDownPending, TearDownApplied, RollbackTearDown,
       StopTearDownPending, StopTearDownApplied, RestoreBaseline,
       RestoreInterrupted, RollbackRestore, Apply, Reapply, StopRestore,
       BeginRollback
  <2>2. base # NoFile \/ UNCHANGED machine
    <3>1. base = NoFile => tables = {} /\ objects = {}
      BY <1>1 DEF Effects
    <3>2. base = NoFile => tables' = {} /\ objects' = {}
      BY <1>1, <2>1 DEF IInv, Safe, EffectsRecorded, Effects
    <3> QED
      BY <3>1, <3>2
  <2> QED
    BY <1>0, <2>1, <2>2, ChangingStep DEF Promise!Next
<1>6. CASE ClearPending
  <2>1. CASE Works /\ Return("ok") /\ UNCHANGED job
    <3>1. Reported = NoFile /\ Reported' = {job.cfg} /\ job.cfg \in Configs
      BY <1>0, <1>6, <2>1 DEF ClearPending, Reported, IInv, TypeInv, HasConfig
    <3>2. Effects = {job.cfg} /\ Effects' = Effects /\ base' = base
      BY <1>6 DEF ClearPending, Effects, IInv, Safe, Reconciling, Complete
    <3> QED
      BY <3>1, <3>2 DEF Promise!Report, Promise!Next
  <2>2. CASE BeginRollback("clear")
    BY <1>0, <1>6, <2>2, QuietStep DEF ClearPending, BeginRollback, Promise!Next
  <2> QED
    BY <1>6, <2>1, <2>2 DEF ClearPending
<1>7. CASE RollbackDone
  <2>1. CASE ~NoError
    BY <1>7, <2>1, QuietStep DEF RollbackDone, Promise!Next
  <2>2. CASE NoError
    <3>1. Reported = NoFile /\ Reported' = Only(job.old) /\ job.old \in ConfigOrNone
      BY <1>0, <1>7, <2>2 DEF RollbackDone, Reported, IInv, TypeInv, TypeOK, Jobs
    <3>2. Effects = Only(job.old) /\ Effects' = Effects /\ base' = base
      BY <1>7, <2>2 DEF RollbackDone, Effects, IInv, Safe, RollingBack
    <3>3. Only(job.old) = {} \/ (job.old \in Configs /\ Only(job.old) = {job.old})
      BY <3>1 DEF Only, ConfigOrNone
    <3> QED
      BY <3>1, <3>2, <3>3 DEF Promise!Report, Promise!Next
  <2> QED
    BY <2>1, <2>2
<1>8. CASE RemoveBase
  <2>1. Reported = NoFile /\ Reported' = {}
    BY <1>0, <1>8 DEF RemoveBase, Reported
  <2>2. Effects = {} /\ Effects' = {}
    BY <1>8 DEF RemoveBase, Effects, IInv, Safe, StoppingInv
  <2>3. base' = NoFile \/ base' = base
    BY <1>8 DEF RemoveBase
  <2> QED
    BY <2>1, <2>2, <2>3 DEF Promise!Report, Promise!Drop, Promise!Next
<1>9. CASE UNCHANGED vars
  BY <1>9 DEF vars, Promise!pvars, Effects, Reported
<1> QED
  BY <1>2, <1>3, <1>4, <1>5, <1>6, <1>7, <1>8, <1>9
  DEF Next, Reconcile, Rollback, Stopping, Promise!Next

(* Reconcile, rollback and stop implement the abstract managed network.       *)
THEOREM Implements ==
  ASSUME "clear" \notin Faulty
  PROVE  Spec => PromiseSpec
<1>1. Init => Promise!Init
  BY DEF Init, Promise!Init, Effects, Reported
<1>2. IInv /\ IInv' /\ [Next]_vars => [Promise!Next]_(Promise!pvars)
  BY PromiseStep
<1> QED
  BY <1>1, <1>2, Invariance, PTL DEF Spec, PromiseSpec, Promise!Spec
=============================================================================
