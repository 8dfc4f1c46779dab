---------------------------- MODULE NicResolver ----------------------------
(***************************************************************************)
(* The resolver policy of one nic process (internal/dns) and the file      *)
(* /etc/resolv.conf, as applyConfig, teardownConfig, RestoreState and      *)
(* restoreSavedSnapshot use them while the renewal loops of DHCP sessions  *)
(* update their contributions.                                             *)
(*                                                                         *)
(* resolverMu makes every call of the package one step. A list of name     *)
(* servers is the set of its members; who else may write the file is       *)
(* left out, and so are the other lines of a configuration, but that they  *)
(* may fail.                                                               *)
(***************************************************************************)
EXTENDS Naturals

CONSTANTS
  Sources,      \* DHCP sessions: "dhcp4:eth0", ...
  StaticLists,  \* the configurations, as the name servers they list
  LeaseLists,   \* what a lease may offer
  None,
  Absent, Original, Torn,  \* contents of the file that are no list of nic's
  MaxFaults     \* bound: failing calls and deaths

ASSUME FaultsAssumption == MaxFaults \in Nat

NoLeases == [s \in Sources |-> {}]
Desired(st, ls) == IF st # {} THEN st ELSE UNION {ls[s] : s \in Sources}

\* Lists that may be written, and contents of the file.
Lists    == StaticLists \cup {Desired({}, ls) : ls \in [Sources -> LeaseLists]}
Contents == Lists \cup {Absent, Original, Torn}

\* What is recorded: configurations, the file, managed state.
Configs == StaticLists \cup {None}
Snaps   == [content : Contents, guarded : BOOLEAN]
Mids    == [dns : Snaps, prev : Configs]
Saves   == [static : StaticLists \cup {{}}, leases : [Sources -> LeaseLists], active : BOOLEAN]

ASSUME ListsAssumption ==
  /\ {} \in LeaseLists
  /\ Absent # Original
  /\ \A l \in Lists \cup LeaseLists : l \notin {None, Absent, Original, Torn}
ASSUME NoneAssumption == None \notin Snaps \cup Mids \cup Saves

VARIABLES
  static, leases, active,  \* managed
  file, guarded,           \* resolv.conf and its immutable flag
  chattr,                  \* whether the command exists
  orig,                    \* the file before nic
  held,                    \* held[s]: what the session's lease offers
  pc, job, conf, saved,    \* main: next step, its purpose and whether it met errors, locals
  base, mid,               \* DNS in base-state.json and in revert-state.json
  applied, pending,        \* the configuration files
  outcome, raced,          \* history: last result; a renewal was overtaken
  faults

managed == <<static, leases, active>>
disk    == <<file, guarded>>
main    == <<pc, job, conf, saved, outcome>>
records == <<base, mid, applied, pending>>
vars == <<managed, disk, chattr, orig, held, main, records, raced, faults>>

Init ==
  /\ static = {} /\ leases = NoLeases /\ active = FALSE
  /\ chattr \in BOOLEAN /\ file \in {Absent, Original}
  /\ guarded \in {FALSE, chattr /\ file = Original}
  /\ orig = [content |-> file, guarded |-> guarded]
  /\ held = [s \in Sources |-> None]
  /\ pc = "idle" /\ job = [kind |-> "none", err |-> FALSE] /\ conf = {} /\ saved = None
  /\ base = None /\ mid = None /\ applied = None /\ pending = None
  /\ outcome = "none" /\ raced = FALSE /\ faults = 0

-----------------------------------------------------------------------------
(* The file: each call succeeds or fails half way *)

Fault == faults < MaxFaults /\ faults' = faults + 1
NoFault == UNCHANGED faults

\* chattr -i fails for a file that is not there.
Unguardable == ~(chattr /\ file = Absent)

\* Defect: the file is taken for protected whatever the machine can do.
Written_Protected(list) ==
  /\ Unguardable /\ file' = list
  /\ \/ guarded' = TRUE /\ NoFault
     \/ chattr /\ guarded' = FALSE /\ Fault

\* unguard, write, and guard, whose failure is ignored.
Written(list) ==
  /\ Unguardable /\ file' = list
  /\ \/ guarded' = chattr /\ NoFault
     \/ chattr /\ guarded' = FALSE /\ Fault

WriteFailed ==
  \/ ~Unguardable /\ UNCHANGED disk /\ NoFault
  \/ Unguardable /\ Fault /\ \/ UNCHANGED disk
                             \/ guarded' = FALSE /\ file' \in {file, Torn}

\* writeManagedResolvConfLocked: before nic has ever had a name server to
\* write, it leaves the file alone.
Update(st, ls, act) ==
  LET list == Desired(st, ls)
  IN IF act \/ list # {} THEN Written(list) ELSE UNCHANGED disk /\ NoFault
UpdateFailed(st, ls, act) == (act \/ Desired(st, ls) # {}) /\ WriteFailed
Activated(st, ls, act) == active' = (act \/ Desired(st, ls) # {})

Forget == static' = {} /\ leases' = NoLeases /\ active' = FALSE

\* Defect: a snapshot is put back as writable as nic needs it.
Restored_Unguarded(snap) ==
  /\ Unguardable /\ NoFault /\ Forget
  /\ file' = snap.content /\ guarded' = FALSE

\* Restore; what was immutable must become so again.
Restored(snap) ==
  /\ Unguardable /\ NoFault /\ Forget
  /\ file' = snap.content /\ guarded' = snap.guarded

RestoreFailed(snap) ==
  \/ WriteFailed /\ UNCHANGED managed
  \/ /\ Unguardable /\ Fault /\ file' = snap.content /\ guarded' = FALSE
     /\ UNCHANGED managed \/ (snap.guarded /\ Forget)

-----------------------------------------------------------------------------
(* DHCP sessions *)

\* Defect: the file shows the lease at hand alone.
SetLease_Own(s, list) ==
  LET ls == [leases EXCEPT ![s] = list]
  IN /\ leases' = ls /\ Update(static, [NoLeases EXCEPT ![s] = list], active)
     /\ Activated(static, ls, active) /\ UNCHANGED static

\* SetLeaseNameservers: memory follows only if the file did.
SetLease(s, list) ==
  LET ls == [leases EXCEPT ![s] = list]
  IN leases' = ls /\ Update(static, ls, active) /\ Activated(static, ls, active) /\ UNCHANGED static

SetLeaseFailed(s, list) ==
  UpdateFailed(static, [leases EXCEPT ![s] = list], active) /\ UNCHANGED managed

\* A renewal loop applies a new lease, in the middle of whatever main does.
Renew(s) ==
  /\ held[s] # None
  /\ \E list \in LeaseLists \ {held[s]} :
       \/ SetLease(s, list) /\ held' = [held EXCEPT ![s] = list]
       \/ SetLeaseFailed(s, list) /\ UNCHANGED held
  /\ raced' = (raced \/ (saved # None))
  /\ UNCHANGED <<chattr, orig, main, records>>

-----------------------------------------------------------------------------
(* Main: reload, rollback, stop and revert *)

Do(kind, err) == job' = [kind |-> kind, err |-> err]
Snap == [content |-> file, guarded |-> guarded]
FirstStep == IF pending # None \/ applied # None THEN "teardown" ELSE "restore"
Ends(result) == pc' = "idle" /\ outcome' = result /\ saved' = None
Erred == IF job.err THEN "error" ELSE "ok"

\* SaveAndStartWatcher and ensureBaseline record what is there now.
Reload ==
  /\ pc = "idle" /\ mid = None
  /\ conf' \in StaticLists /\ Do("reload", FALSE)
  /\ mid' \in {None, [dns |-> Snap, prev |-> applied]}
  /\ \/ base = None /\ base' = Snap /\ pc' = "configure"
     \/ base # None /\ UNCHANGED base /\ pc' = FirstStep
  /\ raced' = FALSE /\ outcome' = "none"
  /\ UNCHANGED <<managed, disk, chattr, orig, held, saved, applied, pending, faults>>

\* A stop while a change is pending is NicRevert's subject.
Stop ==
  /\ pc = "idle" /\ base # None /\ mid = None
  /\ Do("stop", FALSE) /\ pc' = FirstStep /\ outcome' = "none"
  /\ UNCHANGED <<managed, disk, chattr, orig, held, conf, saved, records, raced, faults>>

Revert ==
  /\ pc = "idle" /\ mid # None
  /\ Do("revert", FALSE) /\ pc' = FirstStep /\ raced' = FALSE /\ outcome' = "none"
  /\ UNCHANGED <<managed, disk, chattr, orig, held, conf, saved, records, faults>>

Confirm ==
  /\ pc = "idle" /\ mid # None /\ mid' = None
  /\ UNCHANGED <<managed, disk, chattr, orig, held, main, base, applied, pending, raced, faults>>

\* StopAll ends one session after the other, and ignores what RemoveLease says.
EndSession(s) ==
  /\ pc = "teardown" /\ held[s] # None /\ held' = [held EXCEPT ![s] = None]
  /\ SetLease(s, {}) \/ SetLeaseFailed(s, {})
  /\ UNCHANGED <<chattr, orig, main, records, raced>>

TornDown ==
  /\ pc = "teardown" /\ (\A s \in Sources : held[s] = None) /\ pc' = "restore" /\ Forget
  /\ \/ Unguardable /\ guarded' = FALSE /\ NoFault /\ UNCHANGED job
     \/ ~Unguardable /\ Do(job.kind, TRUE) /\ NoFault /\ UNCHANGED guarded
     \/ Unguardable /\ chattr /\ Fault /\ Do(job.kind, TRUE) /\ UNCHANGED guarded
  /\ UNCHANGED <<file, chattr, orig, held, conf, saved, outcome, records, raced>>

\* What each caller of RestoreState(BaseStatePath) does with the result.
Continue(err) ==
  CASE job.kind = "reload" /\ err ->
         Ends("error") /\ Do("none", FALSE) /\ UNCHANGED <<conf, records>>
    [] job.kind = "reload" /\ ~err ->
         /\ pc' = "configure" /\ pending' = None
         /\ UNCHANGED <<job, conf, saved, outcome, base, mid, applied>>
    [] job.kind = "stop" ->
         /\ Ends(IF err THEN "error" ELSE "stopped") /\ Do("none", FALSE) /\ UNCHANGED <<conf, mid>>
         /\ IF err THEN UNCHANGED <<base, applied, pending>>
            ELSE base' = None /\ applied' = None /\ pending' = None
    [] job.kind = "rollback" /\ applied # None ->
         /\ pc' = "configure" /\ conf' = applied /\ Do("rollback", err)
         /\ UNCHANGED <<saved, outcome, records>>
    [] job.kind = "rollback" /\ applied = None ->
         /\ Ends(IF err THEN "error" ELSE "rolledback") /\ Do("none", FALSE)
         /\ pending' = (IF err THEN pending ELSE None) /\ UNCHANGED <<conf, base, mid, applied>>
    [] job.kind = "revert" /\ mid.prev # None ->
         /\ pc' = "configure" /\ conf' = mid.prev /\ Do("revert", err)
         /\ UNCHANGED <<saved, outcome, records>>
    [] job.kind = "revert" /\ mid.prev = None ->
         /\ pc' = "restoreMid" /\ applied' = None /\ Do("revert", err)
         /\ UNCHANGED <<conf, saved, outcome, base, mid, pending>>

RestoreBase ==
  /\ pc = "restore"
  /\ \/ Restored(base) /\ Continue(job.err)
     \/ RestoreFailed(base) /\ Continue(TRUE)
  /\ UNCHANGED <<chattr, orig, held, raced>>

\* ConfigureStaticNameservers, after the intent was recorded.
Configure ==
  /\ pc = "configure" /\ static' = conf /\ pc' = "starting"
  /\ pending' = IF job.kind = "reload" THEN conf ELSE pending
  /\ UNCHANGED <<leases, active, disk, chattr, orig, held, job, conf, saved, outcome,
                 base, mid, applied, raced, faults>>

\* applyConfig has failed.
Failed ==
  CASE job.kind = "reload" ->
         pc' = "teardown" /\ Do("rollback", FALSE) /\ UNCHANGED <<conf, saved, outcome, records>>
    [] job.kind = "rollback" ->
         Ends("error") /\ Do("none", FALSE) /\ UNCHANGED <<conf, records>>
    [] job.kind = "revert" ->
         pc' = "restoreMid" /\ Do("revert", TRUE) /\ UNCHANGED <<conf, saved, outcome, records>>

Acquire(s) ==
  /\ pc = "starting" /\ held[s] = None
  /\ \E list \in LeaseLists :
       \/ SetLease(s, list) /\ held' = [held EXCEPT ![s] = list] /\ UNCHANGED <<main, records>>
       \/ SetLeaseFailed(s, list) /\ UNCHANGED held /\ Failed
       \/ SetLeaseFailed(s, list) /\ UNCHANGED <<held, main, records>>  \* DHCPv6 is optional
  /\ UNCHANGED <<chattr, orig, raced>>

LineFails ==
  /\ pc = "starting" /\ Fault /\ Failed
  /\ UNCHANGED <<managed, disk, chattr, orig, held, raced>>

\* ApplyManagedNameservers; then main records the configuration as applied,
\* unless an optional line turns out to be needed or the record fails.
Apply ==
  /\ pc = "starting" /\ UNCHANGED <<static, leases, chattr, orig, held, raced>>
  /\ \/ Update(static, leases, active) /\ Activated(static, leases, active)
        /\ UNCHANGED <<conf, base, mid>>
        /\ CASE job.kind = "revert" ->
                  pc' = "capture" /\ UNCHANGED <<job, saved, outcome, applied, pending>>
             [] job.kind # "revert" ->
                  /\ Ends(IF job.kind = "reload" THEN "ok" ELSE IF job.err THEN "error" ELSE "rolledback")
                  /\ applied' = conf /\ pending' = (IF job.err THEN pending ELSE None)
                  /\ Do("none", FALSE)
     \/ UpdateFailed(static, leases, active) /\ UNCHANGED active /\ Failed
     \/ Update(static, leases, active) /\ Activated(static, leases, active) /\ Failed

\* CaptureManagedState
Capture ==
  /\ pc = "capture" /\ pc' = "restoreMid" /\ applied' = conf
  /\ saved' = [static |-> static, leases |-> leases, active |-> active]
  /\ UNCHANGED <<managed, disk, chattr, orig, held, job, conf, outcome, base, mid, pending,
                 raced, faults>>

Reverted(err) ==
  /\ Ends(IF err THEN "error" ELSE "ok") /\ Do("none", FALSE) /\ mid' = None
  /\ pending' = (IF err THEN pending ELSE None) /\ UNCHANGED <<conf, base, applied>>

RestoreMid ==
  LET Then(err) == IF saved = None THEN Reverted(err)
                   ELSE pc' = "restoreManaged" /\ Do("revert", err) /\ UNCHANGED <<conf, saved, outcome, records>>
  IN /\ pc = "restoreMid" /\ UNCHANGED <<chattr, orig, held, raced>>
     /\ \/ Restored(mid.dns) /\ Then(job.err)
        \/ RestoreFailed(mid.dns) /\ Then(TRUE)

\* RestoreManagedState: what renewals have done since the capture is lost.
RestoreManaged ==
  /\ pc = "restoreManaged" /\ UNCHANGED <<chattr, orig, held, raced>>
  /\ \/ /\ Update(saved.static, saved.leases, saved.active)
        /\ static' = saved.static /\ leases' = saved.leases /\ active' = saved.active
        /\ Reverted(job.err)
     \/ UpdateFailed(saved.static, saved.leases, saved.active) /\ UNCHANGED managed /\ Reverted(TRUE)

\* The process ends or is killed, and its sessions with it.
Exit ==
  /\ pc # "idle" => faults < MaxFaults
  /\ faults' = IF pc = "idle" THEN faults ELSE faults + 1
  /\ Forget /\ held' = [s \in Sources |-> None] /\ raced' = FALSE
  /\ Ends("none") /\ Do("none", FALSE)
  /\ mid' = IF job.kind = "revert" THEN None ELSE mid
  /\ UNCHANGED <<disk, chattr, orig, conf, base, applied, pending>>

Next ==
  \/ Reload \/ Stop \/ Revert \/ Confirm \/ TornDown \/ RestoreBase \/ Configure \/ LineFails
  \/ Apply \/ Capture \/ RestoreMid \/ RestoreManaged \/ Exit
  \/ \E s \in Sources : Renew(s) \/ EndSession(s) \/ Acquire(s)

Spec == Init /\ [][Next]_vars

-----------------------------------------------------------------------------
(* Properties *)

\* Types; only a file that is there, on a machine with chattr, can be immutable.
TypeOK ==
  /\ static \in StaticLists \cup {{}} /\ leases \in [Sources -> LeaseLists] /\ active \in BOOLEAN
  /\ file \in Contents /\ guarded \in BOOLEAN
  /\ guarded => chattr /\ file # Absent
  /\ held \in [Sources -> LeaseLists \cup {None}]
  /\ pc \in {"idle", "teardown", "restore", "configure", "starting", "capture", "restoreMid",
             "restoreManaged"}
  /\ job \in [kind : {"none", "reload", "stop", "rollback", "revert"}, err : BOOLEAN]
  /\ applied \in Configs /\ pending \in Configs
  /\ outcome \in {"none", "ok", "error", "stopped", "rolledback"} /\ faults \in 0..MaxFaults

\* "Static nameservers take precedence ... without static entries, DNS from
\* active DHCP sessions is merged" (README.md:127-129): once a change, rollback
\* or revert has succeeded, the file shows the configuration that is recorded as applied
\* and the leases that the sessions have now, renewals included. (A renewal that
\* falls between CaptureManagedState and RestoreManagedState, main.go:1572-1588,
\* is lost, and one that failed may leave a torn file.)
InForce ==
  LET want == Desired(applied, [s \in Sources |-> IF held[s] = None THEN {} ELSE held[s]])
  IN outcome \in {"ok", "rolledback"} /\ applied # None /\ ~raced /\ file # Torn
       => (want # {} \/ active => file = want)

\* "Restore puts back the resolver state captured before nic made changes"
\* (dns.go:303-304): whatever failed or died in between, the baseline is the file
\* that was there first; that file is back, with its protection, when nic has forgotten
\* the baseline, and after a first start that rolled back.
Pristine ==
  /\ base \in {None, orig}
  /\ base = None \/ (outcome = "rolledback" /\ applied = None) => Snap = orig
=============================================================================
