--------------------------- MODULE NicReconcile ---------------------------
(***************************************************************************)
(* The reconciliation of main.go: how `nic start`, a daemon reload and     *)
(* `nic stop` change the machine's network step by step, beside the three  *)
(* files of /run/nic that make an interrupted run recoverable:             *)
(*                                                                         *)
(*   base     base-state.json, the snapshot of the pre-nic network         *)
(*   pending  pending-config.json, the configuration being applied         *)
(*   applied  applied-config.json, the configuration last applied          *)
(*                                                                         *)
(* One invocation runs at a time (job); it may die between any two steps   *)
(* and each fallible call may fail. The network is abstracted to the set   *)
(* of configurations that left something on it, in two layers:             *)
(*                                                                         *)
(*   tables   addresses, routes, rules, link settings and resolv.conf:     *)
(*            state.RestoreState flushes them and replays the snapshot     *)
(*   objects  virtual links, DHCP clients and Wi-Fi associations: only     *)
(*            teardownConfig of the configuration removes them             *)
(*                                                                         *)
(* A snapshot is the set of configurations whose effects it has captured.  *)
(***************************************************************************)
EXTENDS Naturals

CONSTANTS
  Configs,     \* the configurations an operator may start or reload
  NoFile,      \* the content of a file that does not exist
  Faulty,      \* the kinds of call that may fail in this instance
  MaxFaults    \* bound: how many failures and crashes may happen

Calls == {"load", "capture", "teardown", "restore", "apply",
          "save",
          "clear",    \* removal of pending after a success, the one checked
          "unlink",   \* removals whose error the code ignores
          "crash"}    \* the process dies

ASSUME NoFileAssumption == NoFile \notin Configs /\ NoFile # {}
ASSUME FaultyAssumption == Faulty \subseteq Calls
ASSUME MaxFaultsAssumption == MaxFaults \in Nat

VARIABLES base, pending, applied,   \* files
          tables, objects,          \* the machine
          pc, job,                  \* the running invocation
          outcome,                  \* what the last invocation reported
          faults                    \* failures so far

files   == <<base, pending, applied>>
machine == <<tables, objects>>
vars    == <<files, machine, pc, job, outcome, faults>>

ConfigOrNone == Configs \cup {NoFile}

\* The effects of nic that are on the machine, and what a configuration (or
\* its absence) contributes to them.
Effects == tables \cup objects
Only(c) == {c} \ {NoFile}

Steps == {"idle", "baseline", "load", "tearDownPending", "tearDownApplied",
          "restore", "restoreInterrupted", "intent", "apply", "recordApplied",
          "clear", "rollback", "rollbackRestore", "reapply", "recordPrevious",
          "rolledBack", "stopPending", "stopApplied", "stopRestore",
          "removeApplied", "removePending", "removeBase"}

Outcomes == {"none", "ok", "rolledBack", "failed", "refused", "stopped"}

\* The local variables of reconcileConfig and stopManagedConfig.
Jobs == [cfg      : ConfigOrNone,   \* the configuration asked for
         intent   : ConfigOrNone,   \* pending, as loaded
         old      : ConfigOrNone,   \* applied, as loaded (or stop's fallback)
         baseline : {"found", "captured"},      \* ensureBaseline's result
         cause    : {"none", "apply", "clear"}, \* what is being rolled back
         errors   : SUBSET Calls]   \* the kinds of error joined so far

NoJob == [cfg |-> NoFile, intent |-> NoFile, old |-> NoFile,
          baseline |-> "found", cause |-> "none", errors |-> {}]

Init == /\ base = NoFile /\ pending = NoFile /\ applied = NoFile
        /\ tables = {} /\ objects = {}
        /\ pc = "idle" /\ job = NoJob
        /\ outcome = "none" /\ faults = 0

-----------------------------------------------------------------------------
(* Failures, and the calls that reconcile, rollback and stop share. *)

Fails(call) == /\ call \in Faulty
               /\ faults < MaxFaults
               /\ faults' = faults + 1

Works == faults' = faults

Goto(step) == pc' = step /\ UNCHANGED outcome

Return(result) == pc' = "idle" /\ outcome' = result

Join(call) == job' = [job EXCEPT !.errors = job.errors \cup {call}]

NoError == job.errors = {}

\* teardownConfig(c). Wi-Fi, DHCP and virtual links of c go, and so do the
\* addresses and routes whose commands have an inverse; errors are joined and
\* the remaining commands still run.
TearDown(c) ==
  \/ /\ Works
     /\ objects' = objects \ {c}
     /\ \E kept \in SUBSET (tables \cap {c}) :
          tables' = (tables \ {c}) \cup kept
     /\ UNCHANGED job
  \/ /\ c # NoFile
     /\ Fails("teardown")
     /\ \E kept \in SUBSET (objects \cap {c}) :
          objects' = (objects \ {c}) \cup kept
     /\ Join("teardown")
     /\ UNCHANGED tables

\* state.RestoreState(base): everything in the tables is flushed and the
\* captured tables are replayed; a failing command leaves any part of the two.
\* It needs the snapshot: no step here reaches it without one.
RestoreWorks == /\ base # NoFile
                /\ Works
                /\ tables' = base
                /\ UNCHANGED objects

RestoreFails == /\ base # NoFile
                /\ Fails("restore")
                /\ tables' \in SUBSET (tables \cup base)
                /\ UNCHANGED objects

\* applyConfig(c) executes its commands one at a time.
RunCommand(c) == /\ Works
                 /\ \/ /\ c \notin tables
                       /\ tables' = tables \cup {c} /\ UNCHANGED objects
                    \/ /\ c \notin objects
                       /\ objects' = objects \cup {c} /\ UNCHANGED tables

Complete(c) == c \in tables /\ c \in objects

-----------------------------------------------------------------------------
(* reconcileConfig *)

Start(c) == /\ pc = "idle"
            /\ pc' = "baseline" /\ outcome' = "none"
            /\ job' = [NoJob EXCEPT !.cfg = c]
            /\ UNCHANGED <<files, machine, faults>>

\* ensureBaseline: keep the baseline there is; refuse to take one when files
\* say that the machine already carries effects; else capture the machine.
EnsureBaseline ==
  /\ pc = "baseline"
  /\ UNCHANGED <<pending, applied, machine>>
  /\ \/ /\ base # NoFile
        /\ Works /\ Goto("load")
        /\ UNCHANGED <<base, job>>
     \/ /\ base = NoFile
        /\ applied # NoFile \/ pending # NoFile
        /\ Works /\ Return("refused")
        /\ UNCHANGED <<base, job>>
     \/ /\ base = NoFile /\ applied = NoFile /\ pending = NoFile
        /\ Works /\ Goto("load")
        /\ base' = Effects
        /\ job' = [job EXCEPT !.baseline = "captured"]
     \/ /\ base = NoFile /\ applied = NoFile /\ pending = NoFile
        /\ Fails("capture") /\ Return("failed")
        /\ UNCHANGED <<base, job>>

\* Defect: the applied configuration is read from the baseline's path.
LoadSnapshots_WrongPath ==
  /\ pc = "load" /\ Works
  /\ job' = [job EXCEPT !.intent = pending, !.old = base]
  /\ Goto("tearDownPending")
  /\ UNCHANGED <<files, machine>>

LoadSnapshots ==
  /\ pc = "load"
  /\ UNCHANGED <<files, machine>>
  /\ \/ /\ Works
        /\ job' = [job EXCEPT !.intent = pending, !.old = applied]
        /\ Goto(IF pending # NoFile \/ applied # NoFile THEN "tearDownPending"
                ELSE IF job.baseline = "captured" THEN "intent" ELSE "restoreInterrupted")
     \/ /\ Fails("load") /\ Return("failed")
        /\ UNCHANGED job

\* Defect: the configuration of an interrupted run is not torn down.
TearDownPending_Skipped == /\ pc = "tearDownPending"
                           /\ Works /\ Goto("tearDownApplied")
                           /\ UNCHANGED <<files, machine, job>>

TearDownPending == /\ pc = "tearDownPending"
                   /\ TearDown(job.intent)
                   /\ Goto("tearDownApplied")
                   /\ UNCHANGED files

TearDownApplied == /\ pc = "tearDownApplied"
                   /\ TearDown(job.old)
                   /\ Goto("restore")
                   /\ UNCHANGED files

\* Defect: the errors of teardown and restore are only logged.
RestoreBaseline_IgnoresErrors ==
  /\ pc = "restore"
  /\ RestoreWorks \/ RestoreFails
  /\ pending' = NoFile /\ Goto("intent")
  /\ UNCHANGED <<base, applied, job>>

\* The restore runs whatever the teardowns returned; any error ends the run
\* with the files as they were. os.Remove(pending) may fail unnoticed.
RestoreBaseline ==
  /\ pc = "restore"
  /\ UNCHANGED <<base, applied, job>>
  /\ \/ RestoreWorks /\ NoError /\ Goto("intent") /\ pending' = NoFile
     \/ /\ Fails("unlink") /\ pending # NoFile
        /\ base # NoFile /\ tables' = base /\ UNCHANGED <<objects, pending>>
        /\ NoError /\ Goto("intent")
     \/ RestoreWorks /\ ~NoError /\ Return("failed") /\ UNCHANGED pending
     \/ RestoreFails /\ Return("failed") /\ UNCHANGED pending

\* A baseline without pending or applied: a run died before recording intent,
\* or a rollback without predecessor left the baseline behind.
RestoreInterrupted ==
  /\ pc = "restoreInterrupted"
  /\ UNCHANGED <<files, job>>
  /\ \/ RestoreWorks /\ Goto("intent")
     \/ RestoreFails /\ Return("failed")

\* Defect: the intent is not written before the first change.
RecordIntent_Skipped == /\ pc = "intent"
                        /\ Works /\ Goto("apply")
                        /\ UNCHANGED <<files, machine, job>>

RecordIntent ==
  /\ pc = "intent"
  /\ UNCHANGED <<base, applied, machine, job>>
  /\ \/ Works /\ pending' = job.cfg /\ Goto("apply")
     \/ Fails("save") /\ UNCHANGED pending /\ Return("failed")

BeginRollback(cause) == /\ Goto("rollback")
                        /\ job' = [job EXCEPT !.cause = cause]

Apply ==
  /\ pc = "apply"
  /\ UNCHANGED files
  /\ \/ RunCommand(job.cfg) /\ UNCHANGED <<pc, job, outcome>>
     \/ Complete(job.cfg) /\ Works /\ Goto("recordApplied")
        /\ UNCHANGED <<machine, job>>
     \/ Fails("apply") /\ BeginRollback("apply") /\ UNCHANGED machine

RecordApplied ==
  /\ pc = "recordApplied"
  /\ UNCHANGED <<base, pending, machine>>
  /\ \/ Works /\ applied' = job.cfg /\ Goto("clear") /\ UNCHANGED job
     \/ Fails("save") /\ UNCHANGED applied /\ BeginRollback("apply")

ClearPending ==
  /\ pc = "clear"
  /\ UNCHANGED <<base, applied, machine>>
  /\ \/ Works /\ pending' = NoFile /\ Return("ok") /\ UNCHANGED job
     \/ Fails("clear") /\ UNCHANGED pending /\ BeginRollback("clear")

-----------------------------------------------------------------------------
(* rollbackFailedApply: tear down the attempt, restore the baseline, reapply *)
(* the predecessor if there was one. Errors are joined; no step is skipped.  *)

RollbackTearDown == /\ pc = "rollback"
                    /\ TearDown(job.cfg)
                    /\ Goto("rollbackRestore")
                    /\ UNCHANGED files

RollbackRestore ==
  /\ pc = "rollbackRestore"
  /\ UNCHANGED files
  /\ Goto(IF job.old # NoFile THEN "reapply" ELSE "recordPrevious")
  /\ \/ RestoreWorks /\ UNCHANGED job
     \/ RestoreFails /\ Join("restore")

Reapply ==
  /\ pc = "reapply"
  /\ UNCHANGED files
  /\ \/ RunCommand(job.old) /\ UNCHANGED <<pc, job, outcome>>
     \/ Complete(job.old) /\ Works /\ Goto("recordPrevious")
        /\ UNCHANGED <<machine, job>>
     \/ Fails("apply") /\ Join("apply") /\ Goto("rolledBack") /\ UNCHANGED machine

\* SaveSnapshot(applied, previous), or removal of applied without predecessor
\* (whose error is ignored).
RecordPrevious ==
  /\ pc = "recordPrevious"
  /\ Goto("rolledBack")
  /\ UNCHANGED <<base, pending, machine>>
  /\ \/ Works /\ applied' = job.old /\ UNCHANGED job
     \/ job.old # NoFile /\ Fails("save") /\ Join("save") /\ UNCHANGED applied
     \/ job.old = NoFile /\ Fails("unlink") /\ UNCHANGED <<applied, job>>

\* Defect: the errors of the rollback are dropped.
RollbackDone_SwallowsErrors ==
  /\ pc = "rolledBack"
  /\ Works /\ Return("rolledBack")
  /\ pending' = IF job.cause = "apply" THEN NoFile ELSE pending
  /\ UNCHANGED <<base, applied, machine, job>>

RollbackDone ==
  /\ pc = "rolledBack"
  /\ UNCHANGED <<base, applied, machine, job>>
  /\ Return(IF NoError THEN "rolledBack" ELSE "failed")
  /\ LET discard == job.cause = "apply" /\ NoError
     IN \/ Works /\ pending' = IF discard THEN NoFile ELSE pending
        \/ discard /\ Fails("unlink") /\ UNCHANGED pending

-----------------------------------------------------------------------------
(* stopManagedConfig. Without applied-config.json `nic stop` tears down the  *)
(* configuration file named on its command line (fallback); the daemon       *)
(* passes none.                                                              *)

Stop(fallback) ==
  /\ pc = "idle"
  /\ UNCHANGED <<files, machine>>
  /\ \/ /\ Works
        /\ job' = [NoJob EXCEPT !.intent = pending,
                     !.old = IF applied # NoFile THEN applied ELSE fallback]
        /\ pc' = "stopPending" /\ outcome' = "none"
     \/ Fails("load") /\ Return("failed") /\ UNCHANGED job

StopTearDownPending == /\ pc = "stopPending"
                       /\ TearDown(job.intent)
                       /\ Goto("stopApplied")
                       /\ UNCHANGED files

StopTearDownApplied == /\ pc = "stopApplied"
                       /\ TearDown(job.old)
                       /\ Goto("stopRestore")
                       /\ UNCHANGED files

\* Defect: stop forgets the files although teardown or restore failed.
StopRestore_IgnoresErrors ==
  /\ pc = "stopRestore"
  /\ IF base = NoFile THEN Works /\ UNCHANGED machine
                      ELSE RestoreWorks \/ RestoreFails
  /\ Goto("removeApplied")
  /\ UNCHANGED <<files, job>>

StopRestore ==
  /\ pc = "stopRestore"
  /\ UNCHANGED <<files, job>>
  /\ \/ /\ RestoreWorks
        /\ IF NoError THEN Goto("removeApplied") ELSE Return("failed")
     \/ RestoreFails /\ Return("failed")
     \/ /\ base = NoFile /\ Works /\ UNCHANGED machine
        /\ IF NoError THEN Goto("removeApplied") ELSE Return("failed")

\* Defect: the first removal takes the baseline instead.
RemoveApplied_TakesBase == /\ pc = "removeApplied" /\ Goto("removePending")
                           /\ Works /\ base' = NoFile
                           /\ UNCHANGED <<pending, applied, machine, job>>

\* The three removals ignore their errors.
RemoveApplied == /\ pc = "removeApplied" /\ Goto("removePending")
                 /\ UNCHANGED <<base, pending, machine, job>>
                 /\ \/ Works /\ applied' = NoFile
                    \/ applied # NoFile /\ Fails("unlink") /\ UNCHANGED applied

RemovePending == /\ pc = "removePending" /\ Goto("removeBase")
                 /\ UNCHANGED <<base, applied, machine, job>>
                 /\ \/ Works /\ pending' = NoFile
                    \/ pending # NoFile /\ Fails("unlink") /\ UNCHANGED pending

RemoveBase == /\ pc = "removeBase" /\ Return("stopped")
              /\ UNCHANGED <<pending, applied, machine, job>>
              /\ \/ Works /\ base' = NoFile
                 \/ base # NoFile /\ Fails("unlink") /\ UNCHANGED base

\* The process dies (SIGKILL, power loss): the files and the machine stay.
Crash == /\ pc # "idle"
         /\ Fails("crash")
         /\ pc' = "idle" /\ job' = NoJob /\ outcome' = "none"
         /\ UNCHANGED <<files, machine>>

-----------------------------------------------------------------------------
Reconcile == \/ EnsureBaseline \/ LoadSnapshots
             \/ TearDownPending \/ TearDownApplied
             \/ RestoreBaseline \/ RestoreInterrupted
             \/ RecordIntent \/ Apply \/ RecordApplied \/ ClearPending

Rollback == \/ RollbackTearDown \/ RollbackRestore \/ Reapply
            \/ RecordPrevious \/ RollbackDone

Stopping == \/ StopTearDownPending \/ StopTearDownApplied \/ StopRestore
            \/ RemoveApplied \/ RemovePending \/ RemoveBase

Next == \/ \E c \in Configs : Start(c)
        \/ \E c \in ConfigOrNone : Stop(c)
        \/ Reconcile \/ Rollback \/ Stopping
        \/ Crash

Spec == Init /\ [][Next]_vars

-----------------------------------------------------------------------------
(* Properties *)

TypeOK == /\ base \in {NoFile} \cup SUBSET Configs
          /\ pending \in ConfigOrNone /\ applied \in ConfigOrNone
          /\ tables \in SUBSET Configs /\ objects \in SUBSET Configs
          /\ pc \in Steps /\ job \in Jobs /\ outcome \in Outcomes
          /\ faults \in 0..MaxFaults

\* The snapshot that `nic stop` returns to is the pre-nic network: whatever
\* died or failed before, ensureBaseline (main.go:463) never captured a
\* machine that still carried something of a configuration.
BaselinePristine == base # NoFile => base = {}

\* Whatever is on the machine can be found again: base-state.json exists, and
\* the configuration is in pending-config.json or applied-config.json, so a
\* run after process death tears it down ("Record intent before making
\* changes so a later invocation can tear down a configuration interrupted by
\* process death", main.go:527).
EffectsRecorded == Effects # {} => /\ base # NoFile
                                   /\ Effects \subseteq {pending, applied}

\* While the commands of a configuration run, nothing of any other one is on
\* the machine, whatever was interrupted before ("This makes reload remove
\* obsolete state instead of accumulating addresses, routes, DNS, and virtual
\* links", main.go:489).
NoAccumulation == pc = "apply" => Effects \subseteq {job.cfg}

\* A command's report is the truth: after success the machine runs exactly
\* the configuration asked for, in both layers and on record; after a failed
\* apply with a clean rollback it runs exactly the predecessor; after stop it
\* is pristine. Leftovers of earlier interrupted runs included.
ReportsTruth ==
  LET runs(c) == tables = Only(c) /\ objects = Only(c)
  IN /\ outcome = "ok"         => runs(job.cfg) /\ applied = job.cfg
     /\ outcome = "rolledBack" => runs(job.old) /\ applied = job.old
     /\ outcome = "stopped"    => runs(NoFile)

\* No crash makes nic refuse to start: stopManagedConfig removes the baseline
\* last (main.go:682), so applied or pending never outlives it and
\* ensureBaseline's refusal is never reached by crashes and failed steps alone.
NeverRefused == outcome # "refused"

\* What the last report says runs: a set of configurations, or nothing known.
Reported == CASE outcome = "ok"         -> {job.cfg}
              [] outcome = "rolledBack" -> Only(job.old)
              [] outcome = "stopped"    -> {}
              [] OTHER                  -> NoFile

Promise == INSTANCE NicManagedNetwork WITH
  Unsettled <- NoFile,
  kept      <- base # NoFile,
  effects   <- Effects,
  reported  <- Reported

\* The steps of reconcile, rollback and stop, with every crash and failure,
\* only do what NicManagedNetwork allows: the baseline is taken and dropped
\* on a pristine machine only, the network changes only between a command's
\* start and its report, and only while a baseline is kept (main.go:463-684).
PromiseSpec == Promise!Spec

-----------------------------------------------------------------------------
(* Liveness: an operator who keeps starting nic, and who stops it first when *)
(* told to, succeeds once calls stop failing (there are MaxFaults failures). *)
(* A running command goes on by itself; the fairness of Retry and Obey is    *)
(* the operator's patience, not the code's.                                  *)

Retry == outcome # "refused" /\ \E c \in Configs : Start(c)
Obey  == outcome = "refused" /\ Stop(NoFile)

LiveSpec == /\ Spec
            /\ WF_vars(Reconcile \/ Rollback \/ Stopping)
            /\ SF_vars(Retry) /\ SF_vars(Obey)

\* No sequence of crashes and failed steps leaves files behind with which no
\* start ever succeeds again: ensureBaseline's refusals (main.go:469-478)
\* always have a way out through `nic stop`.
RetrySucceeds == []<>(outcome = "ok")
=============================================================================
