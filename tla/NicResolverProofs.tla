------------------------- MODULE NicResolverProofs -------------------------
(***************************************************************************)
(* Proofs about NicResolver for any number of sessions, any configurations *)
(* and leases, and any number of faults: types, that what was in           *)
(* resolv.conf before nic is never lost and comes back, and that the file  *)
(* shows the configuration and the leases in force. The inductive          *)
(* invariant says at each step of main what it may rely on: which records  *)
(* there are, which sessions run, and how far the policy in memory agrees  *)
(* with them.                                                              *)
(***************************************************************************)
EXTENDS NicResolver, TLAPS

Sound(snap) == snap.guarded => chattr /\ snap.content # Absent
MidOK == mid # None => Sound(mid.dns)

Places == {"idle", "teardown", "restore", "configure", "starting", "capture", "restoreMid",
           "restoreManaged"}
Works  == [kind : {"none", "reload", "stop", "rollback", "revert"}, err : BOOLEAN]
Results == {"none", "ok", "error", "stopped", "rolledback"}

(* A file that is not there is not immutable.                                *)
FileOK == /\ file \in Contents /\ guarded \in BOOLEAN /\ faults \in 0..MaxFaults
          /\ guarded => chattr /\ file # Absent

(* The types of main's variables and of the records.                         *)
MainOK ==
  /\ pc \in Places /\ job \in Works /\ outcome \in Results
  /\ conf \in StaticLists \cup {{}}
  /\ pc \in {"configure", "starting", "capture"} \/ job.kind = "reload" => conf \in StaticLists
  /\ base \in Snaps \cup {None} /\ mid \in Mids \cup {None} /\ saved \in Saves \cup {None}
  /\ applied \in Configs /\ pending \in Configs

ManagedOK == /\ static \in StaticLists \cup {{}} /\ leases \in [Sources -> LeaseLists]
             /\ active \in BOOLEAN
HeldOK == held \in [Sources -> LeaseLists \cup {None}]

(* TypeOK, the types of what is recorded, and that no record shows an        *)
(* immutable file where there was none.                                      *)
TypeInv == /\ FileOK /\ MainOK /\ ManagedOK /\ HeldOK /\ chattr \in BOOLEAN
           /\ orig \in Snaps /\ Sound(orig)
           /\ MidOK

(* What main has on record while it does a job.                              *)
Control ==
  /\ pc = "idle" <=> job.kind = "none"
  /\ pc # "idle" => base # None /\ outcome = "none"
  /\ pc \in {"configure", "starting"} => job.kind \in {"reload", "rollback", "revert"}
  /\ pc \in {"capture", "restoreMid", "restoreManaged"} => job.kind = "revert"
  /\ job.kind = "stop" => mid = None
  /\ job.kind = "revert" => mid # None
  /\ mid # None => base # None /\ (mid.prev # None => applied # None)
  /\ pc \in {"configure", "starting", "capture", "restoreManaged"} /\ job.kind = "revert"
       => mid.prev # None
  /\ saved # None => pc \in {"restoreMid", "restoreManaged"} /\ mid.prev # None
  /\ pc = "restoreManaged" => saved # None
  /\ pc = "restoreMid" /\ saved = None /\ ~job.err => applied = None
  /\ pc \in {"configure", "starting"} /\ job.kind = "rollback" => applied # None
  /\ pc = "starting" /\ job.kind = "reload" => pending # None
  /\ outcome = "rolledback" /\ applied = None => pending = None

AllOff == \A s \in Sources : held[s] = None

(* Sessions run only for a configuration on record, so that the next job     *)
(* ends them, and only theirs are the leases in memory.                      *)
Recorded ==
  /\ AllOff \/ (base # None /\ (applied # None \/ pending # None))
  /\ pc \in {"restore", "configure"} => AllOff
  /\ pc = "restoreMid" /\ mid.prev = None => AllOff
  /\ pc # "teardown" => \A s \in Sources : held[s] = None => leases[s] = {}
  /\ saved # None => \A s \in Sources : held[s] = None => saved.leases[s] = {}

OfHeld(ls) == \A s \in Sources : ls[s] = IF held[s] = None THEN {} ELSE held[s]

(* The policy in memory is the configuration's and the sessions', and the    *)
(* file follows it unless writing it failed half way.                        *)
Shown ==
  /\ pc \in {"starting", "capture"} => static = conf /\ OfHeld(leases)
  /\ saved # None => /\ applied # None /\ saved.static = applied
                     /\ ~raced => OfHeld(saved.leases)
  /\ outcome \in {"ok", "rolledback"} /\ applied # None /\ ~raced =>
       /\ static = applied /\ OfHeld(leases)
       /\ Desired(static, leases) # {} \/ active => file \in {Torn, Desired(static, leases)}

IInv == TypeInv /\ Control /\ Recorded /\ Shown /\ Pristine

-----------------------------------------------------------------------------
(* Lists and files *)

USE FaultsAssumption
USE DEF managed, disk, main, records

LEMMA DesiredType ==
  ASSUME NEW st \in StaticLists \cup {{}}, NEW ls \in [Sources -> LeaseLists]
  PROVE  Desired(st, ls) \in Lists
BY DEF Desired, Lists

LEMMA ListsAreLists ==
  ASSUME NEW l \in Lists
  PROVE  l \in Contents /\ l # None /\ l # Absent /\ l # Original /\ l # Torn
BY ListsAssumption DEF Contents

(* A write that fails leaves what was there, or torn and writable.            *)
LEMMA FailTypes ==
  ASSUME FileOK, chattr' = chattr, WriteFailed
  PROVE  FileOK'
<1>1. faults' \in 0..MaxFaults
  BY DEF WriteFailed, Fault, NoFault, FileOK
<1>2. (file' = file /\ guarded' = guarded) \/ (guarded' = FALSE /\ file' \in {file, Torn})
  BY DEF WriteFailed
<1>3. file' \in Contents
  BY <1>2 DEF FileOK, Contents
<1>4. guarded' \in BOOLEAN /\ (guarded' => chattr' /\ file' # Absent)
  <2>1. CASE file' = file /\ guarded' = guarded
    BY <2>1 DEF FileOK
  <2>2. CASE guarded' = FALSE
    BY <2>2, Zenon
  <2> QED
    BY <1>2, <2>1, <2>2
<1> QED
  BY <1>1, <1>3, <1>4 DEF FileOK

(* A write, whole or failed, leaves such a file.                              *)
LEMMA WriteTypes ==
  ASSUME FileOK, chattr \in BOOLEAN, chattr' = chattr, NEW st \in StaticLists \cup {{}},
         NEW ls \in [Sources -> LeaseLists], NEW act \in BOOLEAN,
         Update(st, ls, act) \/ UpdateFailed(st, ls, act)
  PROVE  FileOK'
<1>1. Desired(st, ls) \in Contents /\ Desired(st, ls) # Absent
  BY DesiredType, ListsAreLists
<1>2. CASE Update(st, ls, act)
  <2>1. CASE Written(Desired(st, ls))
    <3>1. faults' \in 0..MaxFaults
      BY <2>1 DEF Written, Fault, NoFault, FileOK
    <3>2. file' = Desired(st, ls) /\ (guarded' = chattr \/ (chattr /\ guarded' = FALSE))
      BY <2>1 DEF Written
    <3>3. guarded' \in BOOLEAN /\ (guarded' => chattr)
      <4>1. CASE guarded' = chattr
        BY <4>1, Zenon
      <4>2. CASE guarded' = FALSE
        BY <4>2, Zenon
      <4> QED
        BY <3>2, <4>1, <4>2
    <3> QED
      BY <1>1, <3>1, <3>2, <3>3 DEF FileOK
  <2>2. CASE UNCHANGED disk /\ NoFault
    BY <2>2 DEF FileOK, NoFault
  <2> QED
    BY <1>2, <2>1, <2>2 DEF Update
<1>3. CASE UpdateFailed(st, ls, act)
  <2>1. WriteFailed
    BY <1>3 DEF UpdateFailed
  <2> QED
    BY <2>1, FailTypes
<1> QED
  BY <1>2, <1>3

(* So does putting a snapshot back.                                           *)
LEMMA RestoreTypes ==
  ASSUME FileOK, chattr \in BOOLEAN, chattr' = chattr, NEW snap \in Snaps, Sound(snap),
         Restored(snap) \/ RestoreFailed(snap)
  PROVE  FileOK'
<1>1. snap.content \in Contents /\ snap.guarded \in BOOLEAN
  BY DEF Snaps
<1>2. CASE WriteFailed
  BY <1>2, FailTypes
<1>3. CASE ~WriteFailed
  <2>1. faults' \in 0..MaxFaults
    BY <1>3 DEF Restored, RestoreFailed, Fault, NoFault, FileOK
  <2>2. file' = snap.content /\ (guarded' = snap.guarded \/ guarded' = FALSE)
    BY <1>3 DEF Restored, RestoreFailed
  <2>3. guarded' \in BOOLEAN /\ (guarded' => chattr /\ file' # Absent)
    BY <1>1, <2>2, Zenon DEF Sound
  <2> QED
    BY <1>1, <2>1, <2>2, <2>3 DEF FileOK
<1> QED
  BY <1>2, <1>3

(* Putting a snapshot back forgets the policy or leaves it as it was.         *)
LEMMA RestoredManaged ==
  ASSUME NEW snap, Restored(snap) \/ RestoreFailed(snap)
  PROVE  Forget \/ UNCHANGED managed
BY DEF Restored, RestoreFailed

-----------------------------------------------------------------------------
(* Type correctness *)

LEMMA TypeInvOK == TypeInv => TypeOK
BY DEF TypeInv, TypeOK, FileOK, MainOK, ManagedOK, HeldOK, Places, Works, Results

LEMMA DoType ==
  ASSUME NEW kind \in {"none", "reload", "stop", "rollback", "revert"}, NEW err \in BOOLEAN,
         Do(kind, err)
  PROVE  job' \in Works /\ job'.kind = kind /\ job'.err = err
BY DEF Do, Works

(* Whatever a job does with the result of restoring the baseline.            *)
LEMMA ContinueTypes ==
  ASSUME MainOK, Control, pc = "restore", NEW err \in BOOLEAN, Continue(err)
  PROVE  MainOK' /\ mid' = mid
<1>1. job \in Works /\ job.kind \in {"reload", "stop", "rollback", "revert"}
  BY DEF MainOK, Control, Works
<1>2. mid # None => mid.prev \in Configs
  BY DEF MainOK, Mids
<1>3. CASE job.kind = "reload"
  <2>1. CASE err
    BY <1>1, <1>3, <2>1, DoType DEF Continue, Ends, MainOK, Places, Results
  <2>2. CASE ~err
    <3>1. pc' = "configure" /\ pending' = None /\ UNCHANGED <<job, conf, saved, outcome, base, mid, applied>>
      BY <1>3, <2>2 DEF Continue
    <3> QED
      BY <1>3, <3>1 DEF MainOK, Places, Configs
  <2> QED
    BY <2>1, <2>2
<1>4. CASE job.kind = "stop"
  BY <1>1, <1>4, DoType DEF Continue, Ends, MainOK, Places, Results, Configs
<1>5. CASE job.kind = "rollback"
  BY <1>1, <1>5, DoType DEF Continue, Ends, MainOK, Places, Results, Configs
<1>6. CASE job.kind = "revert"
  BY <1>1, <1>2, <1>6, DoType DEF Continue, Ends, MainOK, Places, Results, Configs, Control
<1> QED
  BY <1>1, <1>3, <1>4, <1>5, <1>6

(* applyConfig has failed in a job that applies a configuration.              *)
LEMMA FailedTypes ==
  ASSUME MainOK, Control, pc = "starting", Failed
  PROVE  MainOK' /\ mid' = mid
<1>1. job.kind \in {"reload", "rollback", "revert"}
  BY DEF Control
<1>2. CASE job.kind = "reload"
  BY <1>2, DoType DEF Failed, MainOK, Places
<1>3. CASE job.kind = "rollback"
  BY <1>3, DoType DEF Failed, Ends, MainOK, Places, Results
<1>4. CASE job.kind = "revert"
  BY <1>4, DoType DEF Failed, MainOK, Places
<1> QED
  BY <1>1, <1>2, <1>3, <1>4

LEMMA ForgetTypes ==
  ASSUME ManagedOK, Forget \/ UNCHANGED managed
  PROVE  ManagedOK'
BY ListsAssumption DEF ManagedOK, Forget, NoLeases

LEMMA LeaseTypes ==
  ASSUME FileOK, ManagedOK, chattr \in BOOLEAN, chattr' = chattr,
         NEW s \in Sources, NEW list \in LeaseLists, SetLease(s, list) \/ SetLeaseFailed(s, list)
  PROVE  FileOK' /\ ManagedOK'
<1> DEFINE ls == [leases EXCEPT ![s] = list]
<1>1. ls \in [Sources -> LeaseLists]
  BY DEF ManagedOK
<1>2. Update(static, ls, active) \/ UpdateFailed(static, ls, active)
  BY DEF SetLease, SetLeaseFailed
<1>3. FileOK'
  BY <1>1, <1>2, WriteTypes DEF ManagedOK
<1>4. CASE SetLease(s, list)
  <2>1. static' = static /\ leases' = ls
    BY <1>4 DEF SetLease
  <2>2. active' \in BOOLEAN
    BY <1>4, Zenon DEF SetLease, Activated
  <2> QED
    BY <1>1, <1>3, <2>1, <2>2 DEF ManagedOK
<1>5. CASE SetLeaseFailed(s, list)
  <2>1. UNCHANGED managed
    BY <1>5 DEF SetLeaseFailed
  <2> QED
    BY <1>3, <2>1, ForgetTypes
<1> QED
  BY <1>4, <1>5

LEMMA TypeInit == Init => TypeInv
<1> SUFFICES ASSUME Init PROVE TypeInv
  OBVIOUS
<1>1. file \in Contents /\ guarded \in BOOLEAN /\ (guarded => chattr /\ file # Absent)
  <2>1. CASE guarded = FALSE
    BY <2>1 DEF Init, Contents
  <2>2. CASE guarded = (chattr /\ file = Original)
    BY <2>2, ListsAssumption DEF Init, Contents
  <2> QED
    BY <2>1, <2>2 DEF Init
<1>2. FileOK
  BY <1>1 DEF Init, FileOK
<1>3. orig \in Snaps /\ Sound(orig)
  BY <1>1 DEF Init, Snaps, Sound
<1>4. MainOK /\ HeldOK /\ ManagedOK
  BY ListsAssumption DEF Init, MainOK, HeldOK, ManagedOK, NoLeases, Places, Works, Results, Configs
<1> QED
  BY <1>2, <1>3, <1>4 DEF Init, TypeInv, MidOK

(* What sessions do keeps the types.                                          *)
LEMMA SessionTypes ==
  ASSUME TypeInv, Control, NEW s \in Sources, Renew(s) \/ EndSession(s) \/ Acquire(s)
  PROVE  TypeInv'
<1>1. /\ FileOK /\ MainOK /\ ManagedOK /\ HeldOK /\ chattr \in BOOLEAN
      /\ orig \in Snaps /\ Sound(orig) /\ MidOK
  BY DEF TypeInv
<1>2. UNCHANGED <<chattr, orig>>
  BY DEF Renew, EndSession, Acquire
<1>3. \E list \in LeaseLists : SetLease(s, list) \/ SetLeaseFailed(s, list)
  BY ListsAssumption DEF Renew, EndSession, Acquire
<1>4. FileOK' /\ ManagedOK'
  BY <1>1, <1>2, <1>3, LeaseTypes
<1>5. HeldOK'
  BY <1>1 DEF HeldOK, Renew, EndSession, Acquire
<1>6. MainOK' /\ mid' = mid
  <2>1. CASE UNCHANGED <<main, records>>
    BY <1>1, <2>1 DEF MainOK
  <2>2. CASE pc = "starting" /\ Failed
    BY <1>1, <2>2, FailedTypes
  <2> QED
    BY <2>1, <2>2 DEF Renew, EndSession, Acquire
<1> QED
  BY <1>1, <1>2, <1>4, <1>5, <1>6 DEF TypeInv, Sound, MidOK

(* What main does keeps the types; the baseline is the file that was there.   *)
LEMMA MainTypes ==
  ASSUME TypeInv, Control, Pristine,
         \/ Reload \/ Stop \/ Revert \/ Confirm \/ TornDown \/ RestoreBase \/ Configure
         \/ LineFails \/ Apply \/ Capture \/ RestoreMid \/ RestoreManaged \/ Exit
  PROVE  TypeInv'
<1>1. /\ FileOK /\ MainOK /\ ManagedOK /\ HeldOK /\ chattr \in BOOLEAN
      /\ orig \in Snaps /\ Sound(orig) /\ MidOK
  BY DEF TypeInv
<1>2. UNCHANGED <<chattr, orig>>
  BY DEF Reload, Stop, Revert, Confirm, TornDown, RestoreBase, Configure, LineFails, Apply,
         Capture, RestoreMid, RestoreManaged, Exit
<1>3. /\ mid' = mid => MidOK'
      /\ UNCHANGED <<file, guarded, faults>> => FileOK'
      /\ UNCHANGED managed => ManagedOK'
      /\ held' = held => HeldOK'
  BY <1>1, <1>2 DEF MidOK, Sound, FileOK, ManagedOK, HeldOK
<1> SUFFICES FileOK' /\ MainOK' /\ ManagedOK' /\ HeldOK' /\ MidOK'
  BY <1>1, <1>2 DEF TypeInv, Sound
<1>4. job.err \in BOOLEAN /\ job.kind \in {"none", "reload", "stop", "rollback", "revert"}
  BY <1>1 DEF MainOK, Works
<1>5. CASE Reload
  <2>1. Snap \in Snaps /\ Sound(Snap)
    BY <1>1 DEF Snap, Snaps, FileOK, Sound
  <2>2. [dns |-> Snap, prev |-> applied] \in Mids
    BY <1>1, <2>1 DEF Mids, MainOK
  <2>3. mid' \in Mids \cup {None} /\ (mid' # None => mid'.dns = Snap)
    BY <1>5, <2>2 DEF Reload
  <2>4. MainOK'
    BY <1>1, <1>5, <2>1, <2>3, DoType DEF Reload, MainOK, Places, Results, FirstStep
  <2>5. MidOK'
    BY <1>2, <2>1, <2>3 DEF MidOK, Sound
  <2> QED
    BY <1>1, <1>5, <2>4, <2>5 DEF Reload, FileOK, ManagedOK, HeldOK
<1>6. CASE Stop \/ Revert
  <2>1. MainOK'
    BY <1>1, <1>6, DoType DEF Stop, Revert, MainOK, Places, Results, FirstStep
  <2>2. UNCHANGED <<file, guarded, faults, chattr, static, leases, active, held, mid>>
    BY <1>6 DEF Stop, Revert
  <2> QED
    BY <1>1, <2>1, <2>2, <1>3 DEF ManagedOK
<1>7. CASE Confirm
  BY <1>1, <1>3, <1>7 DEF Confirm, MainOK, MidOK
<1>8. CASE TornDown
  <2>1. UNCHANGED <<file, held, conf, saved, outcome, base, mid, applied, pending, chattr>>
    BY <1>8 DEF TornDown
  <2>2. faults' \in 0..MaxFaults /\ (guarded' = FALSE \/ guarded' = guarded)
    <3>1. faults' = faults \/ (faults < MaxFaults /\ faults' = faults + 1)
      BY <1>8 DEF TornDown, Fault, NoFault
    <3>2. guarded' = FALSE \/ guarded' = guarded
      BY <1>8 DEF TornDown
    <3> QED
      BY <1>1, <3>1, <3>2 DEF FileOK
  <2>3. job' \in Works /\ job'.kind = job.kind /\ pc' = "restore"
    BY <1>1, <1>4, <1>8, DoType DEF TornDown, MainOK
  <2>4. FileOK'
    <3>1. CASE guarded' = FALSE
      BY <1>1, <2>1, <2>2, <3>1 DEF FileOK
    <3>2. CASE guarded' = guarded
      BY <1>1, <2>1, <2>2, <3>2 DEF FileOK
    <3> QED
      BY <2>2, <3>1, <3>2
  <2>5. MainOK'
    BY <1>1, <2>1, <2>3 DEF MainOK, Places
  <2> QED
    BY <1>1, <1>3, <1>8, <2>1, <2>4, <2>5, ForgetTypes DEF TornDown
<1>9. CASE RestoreBase
  <2>1. base \in Snaps /\ Sound(base)
    BY <1>1, <1>9 DEF RestoreBase, Control, Pristine, MainOK
  <2>2. Restored(base) \/ RestoreFailed(base)
    BY <1>9 DEF RestoreBase
  <2>3. pc = "restore" /\ \E err \in BOOLEAN : Continue(err)
    BY <1>4, <1>9 DEF RestoreBase
  <2>4. FileOK' /\ ManagedOK'
    BY <1>1, <1>2, <2>1, <2>2, RestoreTypes, RestoredManaged, ForgetTypes
  <2>5. MainOK' /\ mid' = mid
    BY <1>1, <2>3, ContinueTypes
  <2> QED
    BY <1>3, <1>9, <2>4, <2>5 DEF RestoreBase
<1>10. CASE Configure
  <2>1. UNCHANGED <<file, guarded, faults, chattr, leases, active, held, mid>>
    BY <1>10 DEF Configure
  <2>2. MainOK' /\ static' \in StaticLists
    BY <1>1, <1>10 DEF Configure, MainOK, Places, Configs
  <2> QED
    BY <1>1, <2>1, <2>2, <1>3 DEF ManagedOK
<1>11. CASE LineFails
  <2>1. UNCHANGED <<file, guarded, chattr, static, leases, active, held>> /\ faults' \in 0..MaxFaults
    BY <1>1, <1>11 DEF LineFails, Fault, FileOK
  <2>2. MainOK' /\ mid' = mid
    BY <1>1, <1>11, FailedTypes DEF LineFails
  <2> QED
    BY <1>1, <1>3, <2>1, <2>2 DEF FileOK
<1>12. CASE Apply
  <2>1. Update(static, leases, active) \/ UpdateFailed(static, leases, active)
    BY <1>12 DEF Apply
  <2>2. FileOK'
    BY <1>1, <1>2, <2>1, WriteTypes DEF ManagedOK
  <2>3. ManagedOK'
    <3>1. active' = active \/ active' = (active \/ Desired(static, leases) # {})
      BY <1>12 DEF Apply, Activated
    <3>2. active' \in BOOLEAN
      BY <1>1, <3>1, Zenon DEF ManagedOK
    <3> QED
      BY <1>1, <1>12, <3>2 DEF Apply, ManagedOK
  <2>4. MainOK' /\ mid' = mid
    <3>1. CASE Failed
      BY <1>1, <1>12, <3>1, FailedTypes DEF Apply
    <3>2. CASE ~Failed /\ job.kind = "revert"
      <4>1. pc' = "capture" /\ UNCHANGED <<job, conf, saved, outcome, base, mid, applied, pending>>
        BY <1>12, <3>2 DEF Apply
      <4> QED
        BY <1>1, <1>12, <4>1 DEF Apply, MainOK, Places
    <3>3. CASE ~Failed /\ job.kind # "revert"
      <4>1. /\ pc' = "idle" /\ outcome' \in Results /\ saved' = None /\ Do("none", FALSE)
            /\ applied' = conf /\ pending' \in {pending, None} /\ UNCHANGED <<conf, base, mid>>
        BY <1>12, <3>3 DEF Apply, Ends, Results
      <4>2. job' \in Works /\ job'.kind = "none"
        BY <4>1, DoType
      <4> QED
        BY <1>1, <1>12, <4>1, <4>2 DEF Apply, MainOK, Places, Configs
    <3> QED
      BY <3>1, <3>2, <3>3
  <2> QED
    BY <1>3, <1>12, <2>2, <2>3, <2>4 DEF Apply
<1>13. CASE Capture
  <2>1. UNCHANGED <<file, guarded, faults, chattr, static, leases, active, held, mid>>
    BY <1>13 DEF Capture
  <2>2. saved' \in Saves
    BY <1>1, <1>13 DEF Capture, Saves, ManagedOK
  <2>3. MainOK'
    BY <1>1, <1>13, <2>2 DEF Capture, MainOK, Places, Configs
  <2> QED
    BY <1>1, <2>1, <2>3, <1>3 DEF ManagedOK
<1>14. ASSUME NEW err \in BOOLEAN, Reverted(err) PROVE MainOK' /\ MidOK'
  <2>1. job' \in Works /\ job'.kind = "none"
    BY <1>14, DoType DEF Reverted
  <2> QED
    BY <1>1, <1>14, <2>1 DEF Reverted, Ends, MainOK, Places, Results, Configs, MidOK
<1>15. CASE RestoreMid
  <2>1. mid \in Mids /\ mid.dns \in Snaps /\ Sound(mid.dns) /\ pc = "restoreMid"
    BY <1>1, <1>15 DEF RestoreMid, Control, MainOK, Mids, MidOK
  <2>2. Restored(mid.dns) \/ RestoreFailed(mid.dns)
    BY <1>15 DEF RestoreMid
  <2>3. FileOK' /\ ManagedOK'
    BY <1>1, <1>2, <2>1, <2>2, RestoreTypes, RestoredManaged, ForgetTypes
  <2>4. MainOK' /\ MidOK'
    <3>1. CASE \E err \in BOOLEAN : Reverted(err)
      BY <1>14, <3>1
    <3>2. CASE \E err \in BOOLEAN : /\ pc' = "restoreManaged" /\ Do("revert", err)
                                    /\ UNCHANGED <<conf, saved, outcome, base, mid, applied, pending>>
      <4>1. job' \in Works /\ job'.kind = "revert"
        BY <3>2, DoType
      <4> QED
        BY <1>1, <1>3, <2>1, <3>2, <4>1 DEF MainOK, Places
    <3> QED
      BY <1>4, <1>15, <3>1, <3>2 DEF RestoreMid
  <2> QED
    BY <1>1, <1>15, <2>3, <2>4 DEF RestoreMid, HeldOK
<1>16. CASE RestoreManaged
  <2>1. saved \in Saves
    BY <1>1, <1>16 DEF RestoreManaged, Control, MainOK
  <2>2. /\ saved.static \in StaticLists \cup {{}} /\ saved.leases \in [Sources -> LeaseLists]
        /\ saved.active \in BOOLEAN
    BY <2>1 DEF Saves
  <2>3. \/ Update(saved.static, saved.leases, saved.active)
        \/ UpdateFailed(saved.static, saved.leases, saved.active)
    BY <1>16 DEF RestoreManaged
  <2>4. FileOK'
    BY <1>1, <1>2, <2>2, <2>3, WriteTypes
  <2>5. ManagedOK'
    BY <1>1, <1>16, <2>2 DEF RestoreManaged, ManagedOK
  <2>6. \E err \in BOOLEAN : Reverted(err)
    BY <1>4, <1>16 DEF RestoreManaged
  <2> QED
    BY <1>1, <1>14, <1>16, <2>4, <2>5, <2>6 DEF RestoreManaged, HeldOK
<1>17. CASE Exit
  <2>1. FileOK'
    BY <1>1, <1>17 DEF Exit, FileOK
  <2>2. ManagedOK'
    BY <1>1, <1>17, ForgetTypes DEF Exit
  <2>3. job' \in Works /\ job'.kind = "none"
    BY <1>17, DoType DEF Exit
  <2>4. MainOK' /\ mid' \in {mid, None}
    BY <1>1, <1>17, <2>3 DEF Exit, Ends, MainOK, Places, Results
  <2> QED
    BY <1>3, <1>17, <2>1, <2>2, <2>4 DEF Exit, HeldOK, MidOK
<1> QED
  BY <1>5, <1>6, <1>7, <1>8, <1>9, <1>10, <1>11, <1>12, <1>13, <1>15, <1>16, <1>17

-----------------------------------------------------------------------------
(* What main has on record *)

LEMMA ConfigIsNotNone == \A l \in StaticLists : l # None
BY ListsAssumption DEF Lists

LEMMA ControlInit == Init => Control /\ Recorded /\ Shown /\ Pristine
BY DEF Init, Control, Recorded, Shown, Pristine, AllOff, OfHeld, NoLeases, Snap

(* Restoring the baseline leads each job to where it has what it needs.       *)
LEMMA ContinueControl ==
  ASSUME TypeInv, Control, pc = "restore", NEW err \in BOOLEAN, Continue(err)
  PROVE  Control'
<1>1. job \in Works /\ job.kind \in {"reload", "stop", "rollback", "revert"}
  BY DEF TypeInv, MainOK, Control, Works
<1>2. saved = None /\ base # None
  BY DEF Control
<1>3. CASE job.kind = "reload" /\ err
  BY <1>2, <1>3, DoType DEF Continue, Ends, Control
<1>4. CASE job.kind = "reload" /\ ~err
  BY <1>2, <1>4 DEF Continue, Control
<1>5. CASE job.kind = "stop"
  BY <1>2, <1>5, DoType DEF Continue, Ends, Control
<1>6. CASE job.kind = "rollback" /\ applied # None
  BY <1>2, <1>6, DoType DEF Continue, Control
<1>7. CASE job.kind = "rollback" /\ applied = None
  BY <1>2, <1>7, DoType DEF Continue, Ends, Control
<1>8. CASE job.kind = "revert" /\ mid.prev # None
  BY <1>2, <1>8, DoType DEF Continue, Control
<1>9. CASE job.kind = "revert" /\ mid.prev = None
  BY <1>2, <1>9, DoType DEF Continue, Control
<1> QED
  BY <1>1, <1>3, <1>4, <1>5, <1>6, <1>7, <1>8, <1>9

LEMMA FailedControl ==
  ASSUME TypeInv, Control, pc = "starting", Failed
  PROVE  Control'
<1>1. job.kind \in {"reload", "rollback", "revert"} /\ saved = None /\ base # None
  BY DEF Control
<1>2. CASE job.kind = "reload"
  BY <1>1, <1>2, DoType DEF Failed, Control
<1>3. CASE job.kind = "rollback"
  BY <1>1, <1>3, DoType DEF Failed, Ends, Control
<1>4. CASE job.kind = "revert"
  BY <1>1, <1>4, DoType DEF Failed, Control
<1> QED
  BY <1>1, <1>2, <1>3, <1>4

(* Then main goes on with the records it had, or ends.                        *)
LEMMA FailedFacts ==
  ASSUME Control, pc = "starting", Failed
  PROVE  /\ saved = None /\ saved' = None /\ UNCHANGED <<conf, base, mid, applied, pending>>
         /\ base # None /\ (applied # None \/ pending # None)
         /\ pc' \in {"teardown", "idle", "restoreMid"}
         /\ pc' = "restoreMid" => mid.prev # None
         /\ outcome' \in {"none", "error"}
<1>1. job.kind \in {"reload", "rollback", "revert"}
  BY DEF Control
<1> QED
  BY <1>1 DEF Failed, Ends, Control

(* Every step keeps what main has on record.                                  *)
LEMMA ControlStep ==
  ASSUME TypeInv, Control, Next
  PROVE  Control'
<1>1. job.err \in BOOLEAN /\ job.kind \in {"none", "reload", "stop", "rollback", "revert"}
  BY DEF TypeInv, MainOK, Works
<1>2. UNCHANGED <<main, records>> => Control'
  BY DEF Control
<1>3. CASE Reload
  <2>1. Snap \in Snaps /\ [dns |-> Snap, prev |-> applied] \in Mids
    BY DEF TypeInv, FileOK, MainOK, Snap, Snaps, Mids
  <2>2. Snap # None /\ [dns |-> Snap, prev |-> applied] # None
    BY <2>1, NoneAssumption
  <2>3. base' # None /\ (mid' # None => mid'.prev = applied)
    BY <1>3, <2>2 DEF Reload
  <2> QED
    BY <1>3, <2>3, DoType DEF Reload, Control, FirstStep
<1>4. CASE Stop
  BY <1>4, DoType DEF Stop, Control, FirstStep
<1>5. CASE Revert
  BY <1>5, DoType DEF Revert, Control, FirstStep
<1>6. CASE Confirm
  BY <1>6 DEF Confirm, Control
<1>7. CASE TornDown
  <2>1. job'.kind = job.kind /\ pc' = "restore" /\ pc = "teardown"
    BY <1>1, <1>7, DoType DEF TornDown
  <2> QED
    BY <1>7, <2>1 DEF TornDown, Control
<1>8. CASE RestoreBase
  <2>1. pc = "restore" /\ \E err \in BOOLEAN : Continue(err)
    BY <1>1, <1>8 DEF RestoreBase
  <2> QED
    BY <2>1, ContinueControl
<1>9. CASE Configure
  <2>1. conf # None
    BY <1>9, ConfigIsNotNone DEF Configure, TypeInv, MainOK
  <2> QED
    BY <1>9, <2>1 DEF Configure, Control
<1>10. CASE LineFails
  BY <1>10, FailedControl DEF LineFails
<1>11. CASE Apply
  <2>1. CASE Failed
    BY <1>11, <2>1, FailedControl DEF Apply
  <2>2. CASE ~Failed /\ job.kind = "revert"
    <3>1. pc' = "capture" /\ UNCHANGED <<job, conf, saved, outcome, base, mid, applied, pending>>
      BY <1>11, <2>2 DEF Apply
    <3> QED
      BY <1>11, <2>2, <3>1 DEF Apply, Control
  <2>3. CASE ~Failed /\ job.kind # "revert"
    <3>1. /\ pc' = "idle" /\ saved' = None /\ Do("none", FALSE)
          /\ applied' = conf /\ UNCHANGED <<conf, base, mid>>
      BY <1>11, <2>3 DEF Apply, Ends
    <3>2. conf # None
      BY <1>11, ConfigIsNotNone DEF Apply, TypeInv, MainOK
    <3> QED
      BY <1>11, <3>1, <3>2, DoType DEF Apply, Control
  <2> QED
    BY <2>1, <2>2, <2>3
<1>12. CASE Capture
  <2>1. saved' \in Saves
    BY <1>12 DEF Capture, Saves, TypeInv, ManagedOK
  <2>2. saved' # None /\ conf # None
    BY <1>12, <2>1, NoneAssumption, ConfigIsNotNone DEF Capture, TypeInv, MainOK
  <2> QED
    BY <1>12, <2>2 DEF Capture, Control
<1>13. ASSUME NEW err \in BOOLEAN, Reverted(err), saved = None /\ ~err => applied = None,
              pc \in {"restoreMid", "restoreManaged"}
       PROVE  Control'
  BY <1>13, DoType DEF Reverted, Ends, Control
<1>14. CASE RestoreMid
  <2>1. CASE saved = None
    <3>1. \E err \in BOOLEAN : Reverted(err) /\ (job.err => err)
      BY <1>1, <1>14, <2>1 DEF RestoreMid
    <3>2. ~job.err => applied = None
      BY <1>14, <2>1 DEF RestoreMid, Control
    <3> QED
      BY <1>13, <1>14, <3>1, <3>2 DEF RestoreMid
  <2>2. CASE saved # None
    <3>1. \E err \in BOOLEAN : /\ pc' = "restoreManaged" /\ Do("revert", err)
                               /\ UNCHANGED <<conf, saved, outcome, base, mid, applied, pending>>
      BY <1>1, <1>14, <2>2 DEF RestoreMid
    <3> QED
      BY <1>14, <2>2, <3>1, DoType DEF RestoreMid, Control
  <2> QED
    BY <2>1, <2>2
<1>15. CASE RestoreManaged
  <2>1. saved # None /\ pc = "restoreManaged"
    BY <1>15 DEF RestoreManaged, Control
  <2>2. \E err \in BOOLEAN : Reverted(err)
    BY <1>1, <1>15 DEF RestoreManaged
  <2> QED
    BY <1>13, <2>1, <2>2
<1>16. CASE Exit
  BY <1>16, DoType DEF Exit, Ends, Control
<1>17. ASSUME NEW s \in Sources, Renew(s) \/ EndSession(s) \/ Acquire(s) PROVE Control'
  <2>1. UNCHANGED <<main, records>> \/ (pc = "starting" /\ Failed)
    BY <1>17 DEF Renew, EndSession, Acquire
  <2> QED
    BY <1>2, <2>1, FailedControl
<1> QED
  BY <1>3, <1>4, <1>5, <1>6, <1>7, <1>8, <1>9, <1>10, <1>11, <1>12, <1>14, <1>15, <1>16, <1>17
     DEF Next

-----------------------------------------------------------------------------
(* Sessions and their leases *)

(* Restoring a snapshot leaves the leases in memory or forgets them.          *)
LEMMA RestoredLeases ==
  ASSUME NEW snap, Restored(snap) \/ RestoreFailed(snap), NEW s \in Sources, leases[s] = {}
  PROVE  leases'[s] = {}
BY RestoredManaged DEF Forget, NoLeases

(* A lease that is set, or not, is that of one session.                       *)
LEMMA SetLeaseFacts ==
  ASSUME TypeInv, NEW s \in Sources, NEW list, SetLease(s, list) \/ SetLeaseFailed(s, list)
  PROVE  /\ static' = static
         /\ \A t \in Sources \ {s} : leases'[t] = leases[t]
         /\ leases'[s] \in {list, leases[s]}
BY DEF TypeInv, ManagedOK, SetLease, SetLeaseFailed

LEMMA RecordedStep ==
  ASSUME TypeInv, Control, Recorded, Next
  PROVE  Recorded'
<1>1. \A s \in Sources : leases[s] = {} => (Forget \/ UNCHANGED managed => leases'[s] = {})
  BY DEF Forget, NoLeases
<1>2. job.kind \in {"none", "reload", "stop", "rollback", "revert"}
  BY DEF TypeInv, MainOK, Works
<1>3. CASE Reload \/ Stop \/ Revert
  <2>1. UNCHANGED <<held, leases, applied, pending, saved>> /\ (base # None => base' # None)
    BY <1>3 DEF Reload, Stop, Revert
  <2>2. saved = None /\ pc = "idle" /\ pc' \in {"configure", "teardown", "restore"}
    BY <1>3 DEF Reload, Stop, Revert, Control, FirstStep
  <2>3. pc' \in {"configure", "restore"} => AllOff
    BY <1>3 DEF Reload, Stop, Revert, FirstStep, Recorded
  <2> QED
    BY <2>1, <2>2, <2>3 DEF Recorded, AllOff
<1>4. CASE Confirm
  BY <1>4 DEF Confirm, Recorded, AllOff, Control
<1>5. CASE TornDown
  BY <1>5 DEF TornDown, Recorded, AllOff, Control, Forget, NoLeases
<1>6. CASE RestoreBase
  <2>1. AllOff /\ held' = held /\ saved = None /\ pc = "restore"
    BY <1>6 DEF RestoreBase, Recorded, Control
  <2>2. saved' = None
    <3>1. \E err \in BOOLEAN : Continue(err)
      BY <1>6 DEF RestoreBase, TypeInv, MainOK, Works
    <3> QED
      BY <1>2, <1>6, <2>1, <3>1 DEF Continue, Ends, RestoreBase, Control
  <2>3. \A s \in Sources : leases'[s] = {}
    BY <1>6, <2>1, RestoredLeases DEF RestoreBase, Recorded, AllOff
  <2> QED
    BY <2>1, <2>2, <2>3 DEF Recorded, AllOff
<1>7. CASE Configure
  BY <1>7 DEF Configure, Recorded, AllOff, Control
<1>8. CASE LineFails
  <2>1. UNCHANGED <<held, leases>> /\ pc = "starting" /\ Failed
    BY <1>8 DEF LineFails
  <2> QED
    BY <2>1, FailedFacts DEF Recorded, AllOff
<1>9. CASE Apply
  <2>1. UNCHANGED <<held, leases, base, mid>> /\ pc = "starting" /\ saved = None
    BY <1>9, FailedFacts DEF Apply, Control
  <2>2. CASE Failed
    BY <2>1, <2>2, FailedFacts DEF Recorded, AllOff
  <2>3. CASE ~Failed
    <3>1. /\ pc' \in {"capture", "idle"} /\ saved' = None
          /\ applied' = conf \/ UNCHANGED <<applied, pending>>
      BY <1>9, <2>1, <2>3 DEF Apply, Ends
    <3>2. conf # None /\ base # None
      BY <2>1, ConfigIsNotNone DEF TypeInv, MainOK, Control
    <3> QED
      BY <2>1, <3>1, <3>2 DEF Recorded, AllOff
  <2> QED
    BY <2>2, <2>3
<1>10. CASE Capture
  <2>1. mid.prev # None /\ conf # None /\ base # None
    BY <1>10, ConfigIsNotNone DEF Capture, Control, TypeInv, MainOK
  <2>2. saved'.leases = leases /\ applied' = conf /\ pc' = "restoreMid"
        /\ UNCHANGED <<held, leases, base, mid, pending>>
    BY <1>10 DEF Capture
  <2> QED
    BY <1>10, <2>1, <2>2 DEF Capture, Recorded, AllOff
<1>11. ASSUME NEW err, Reverted(err), UNCHANGED held, pc \in {"restoreMid", "restoreManaged"},
              \A s \in Sources : held[s] = None => leases'[s] = {}
       PROVE  Recorded'
  <2>1. base # None /\ base' = base /\ applied' = applied /\ saved' = None /\ pc' = "idle"
    BY <1>11 DEF Reverted, Ends, Control
  <2>2. AllOff \/ applied # None
    BY <1>11 DEF Recorded, Control
  <2> QED
    BY <1>11, <2>1, <2>2 DEF Recorded, AllOff
<1>12. CASE RestoreMid
  <2>1. held' = held /\ pc = "restoreMid"
    BY <1>12 DEF RestoreMid
  <2>2. \A s \in Sources : held[s] = None => leases'[s] = {}
    BY <1>12, <2>1, RestoredLeases DEF RestoreMid, Recorded
  <2>3. CASE \E err : Reverted(err)
    BY <1>11, <2>1, <2>2, <2>3
  <2>4. CASE pc' = "restoreManaged" /\ UNCHANGED <<conf, saved, outcome, base, mid, applied, pending>>
    BY <2>1, <2>2, <2>4 DEF Recorded, AllOff, Control
  <2> QED
    BY <1>12, <2>3, <2>4 DEF RestoreMid
<1>13. CASE RestoreManaged
  <2>1. held' = held /\ pc = "restoreManaged" /\ saved # None
    BY <1>13 DEF RestoreManaged, Control
  <2>2. leases' = saved.leases \/ leases' = leases
    BY <1>13 DEF RestoreManaged
  <2>3. \A s \in Sources : held[s] = None => leases'[s] = {}
    BY <2>1, <2>2 DEF Recorded
  <2>4. \E err : Reverted(err)
    BY <1>13 DEF RestoreManaged
  <2> QED
    BY <1>11, <2>1, <2>3, <2>4
<1>14. CASE Exit
  BY <1>14 DEF Exit, Ends, Forget, NoLeases, Recorded, AllOff
<1>15. ASSUME NEW s \in Sources, Renew(s) PROVE Recorded'
  <2>1. held[s] # None /\ UNCHANGED <<pc, saved, base, mid, applied, pending>>
    BY <1>15 DEF Renew
  <2>2. PICK list \in LeaseLists : /\ SetLease(s, list) \/ SetLeaseFailed(s, list)
                                   /\ held' \in {held, [held EXCEPT ![s] = list]}
    BY <1>15 DEF Renew
  <2>3. \A t \in Sources : held'[t] = None <=> held[t] = None
    BY <2>1, <2>2, ListsAssumption DEF TypeInv, HeldOK
  <2>4. \A t \in Sources \ {s} : leases'[t] = leases[t]
    BY <2>2, SetLeaseFacts
  <2> QED
    BY <2>1, <2>3, <2>4 DEF Recorded, AllOff
<1>16. ASSUME NEW s \in Sources, EndSession(s) PROVE Recorded'
  <2>1. /\ pc = "teardown" /\ saved = None /\ UNCHANGED <<pc, saved, base, applied, pending>>
        /\ held' = [held EXCEPT ![s] = None]
    BY <1>16 DEF EndSession, Control
  <2>2. AllOff => AllOff'
    BY <2>1 DEF AllOff, TypeInv, HeldOK
  <2> QED
    BY <2>1, <2>2 DEF Recorded
<1>17. ASSUME NEW s \in Sources, Acquire(s) PROVE Recorded'
  <2>1. pc = "starting" /\ held[s] = None /\ saved = None /\ base # None
    BY <1>17 DEF Acquire, Control
  <2>2. applied # None \/ pending # None
    BY <2>1 DEF Control
  <2>3. PICK list \in LeaseLists :
          \/ SetLease(s, list) /\ held' = [held EXCEPT ![s] = list] /\ UNCHANGED <<main, records>>
          \/ SetLeaseFailed(s, list) /\ UNCHANGED held /\ (Failed \/ UNCHANGED <<main, records>>)
    BY <1>17 DEF Acquire
  <2>4. CASE SetLease(s, list) /\ held' = [held EXCEPT ![s] = list] /\ UNCHANGED <<main, records>>
    <3>1. \A t \in Sources \ {s} : leases'[t] = leases[t] /\ held'[t] = held[t]
      BY <2>4, SetLeaseFacts DEF TypeInv, HeldOK
    <3>2. held'[s] # None
      BY <2>4, ListsAssumption DEF TypeInv, HeldOK
    <3> QED
      BY <2>1, <2>2, <2>4, <3>1, <3>2 DEF Recorded, AllOff
  <2>5. CASE SetLeaseFailed(s, list) /\ UNCHANGED held /\ (Failed \/ UNCHANGED <<main, records>>)
    <3>1. leases' = leases
      BY <2>5 DEF SetLeaseFailed
    <3>2. CASE Failed
      BY <2>1, <2>5, <3>1, <3>2, FailedFacts DEF Recorded, AllOff
    <3>3. CASE UNCHANGED <<main, records>>
      BY <2>1, <2>5, <3>1, <3>3 DEF Recorded, AllOff
    <3> QED
      BY <2>5, <3>2, <3>3
  <2> QED
    BY <2>3, <2>4, <2>5
<1> QED
  BY <1>3, <1>4, <1>5, <1>6, <1>7, <1>8, <1>9, <1>10, <1>12, <1>13, <1>14, <1>15, <1>16, <1>17
     DEF Next

-----------------------------------------------------------------------------
(* The file that was there first *)

LEMMA PristineStep ==
  ASSUME TypeInv, Control, Recorded, Pristine, Next
  PROVE  Pristine'
<1> DEFINE Due == base = None \/ (outcome = "rolledback" /\ applied = None)
<1>1. orig' = orig
  BY DEF Next, Reload, Stop, Revert, Confirm, TornDown, RestoreBase, Configure, LineFails, Apply,
         Capture, RestoreMid, RestoreManaged, Exit, Renew, EndSession, Acquire
<1>2. Due => Snap = orig /\ AllOff /\ pc = "idle"
  BY DEF Pristine, Recorded, Control
<1>3. ASSUME base # None, base' = base, outcome' # "rolledback" PROVE Pristine'
  BY <1>1, <1>3 DEF Pristine
<1>4. ASSUME UNCHANGED <<file, guarded>>, base' = base,
             (outcome' = outcome /\ applied' = applied) \/ outcome' # "rolledback"
      PROVE  Pristine'
  BY <1>1, <1>4 DEF Pristine, Snap
<1>5. CASE Reload
  <2>1. base' = orig /\ base' # None /\ outcome' = "none"
    BY <1>5, NoneAssumption DEF Reload, Pristine, TypeInv
  <2> QED
    BY <1>1, <2>1 DEF Pristine
<1>6. CASE Stop \/ Revert \/ Confirm \/ Exit
  BY <1>4, <1>6 DEF Stop, Revert, Confirm, Exit, Ends
<1>7. CASE TornDown \/ Configure \/ Capture
  BY <1>3, <1>7 DEF TornDown, Configure, Capture, Control
<1>8. CASE RestoreBase
  <2>1. /\ pc = "restore" /\ saved = None /\ base = orig /\ base # None /\ outcome = "none"
        /\ job.kind \in {"reload", "stop", "rollback", "revert"}
    BY <1>8 DEF RestoreBase, Control, Pristine, TypeInv, MainOK, Works
  <2>2. CASE Restored(base)
    <3>1. Snap' = orig
      BY <2>1, <2>2 DEF Restored, Snap, TypeInv, Snaps
    <3>2. base' \in {base, None}
      BY <1>8, <2>1 DEF RestoreBase, Continue
    <3> QED
      BY <1>1, <2>1, <3>1, <3>2 DEF Pristine
  <2>3. CASE Continue(TRUE)
    <3>1. base' = base /\ outcome' # "rolledback"
      BY <2>1, <2>3 DEF Continue, Ends
    <3> QED
      BY <1>3, <2>1, <3>1
  <2> QED
    BY <1>8, <2>2, <2>3 DEF RestoreBase
<1>9. CASE LineFails
  BY <1>3, <1>9, FailedFacts DEF LineFails
<1>10. CASE Apply
  <2>1. pc = "starting" /\ base # None /\ outcome = "none" /\ base' = base
    BY <1>10, FailedFacts DEF Apply, Control
  <2>2. CASE Failed
    BY <1>3, <2>1, <2>2, FailedFacts
  <2>3. CASE ~Failed
    <3>1. outcome' = outcome \/ applied' = conf
      BY <1>10, <2>3 DEF Apply
    <3>2. conf # None
      BY <2>1, ConfigIsNotNone DEF TypeInv, MainOK
    <3> QED
      BY <1>1, <2>1, <3>1, <3>2 DEF Pristine
  <2> QED
    BY <2>2, <2>3
<1>11. CASE RestoreMid \/ RestoreManaged
  <2>1. base # None /\ outcome = "none"
    BY <1>11 DEF RestoreMid, RestoreManaged, Control
  <2>2. base' = base /\ outcome' # "rolledback"
    BY <1>11, <2>1 DEF RestoreMid, RestoreManaged, Reverted, Ends
  <2> QED
    BY <1>3, <2>1, <2>2
<1>12. ASSUME NEW s \in Sources, Renew(s) PROVE Pristine'
  <2>1. ~Due /\ UNCHANGED <<base, outcome, applied>>
    BY <1>2, <1>12 DEF Renew, AllOff
  <2> QED
    BY <1>1, <2>1 DEF Pristine
<1>13. ASSUME NEW s \in Sources, EndSession(s) \/ Acquire(s) PROVE Pristine'
  <2>1. base # None /\ outcome = "none"
    BY <1>13 DEF EndSession, Acquire, Control
  <2>2. UNCHANGED <<main, records>> \/ (pc = "starting" /\ Failed)
    BY <1>13 DEF EndSession, Acquire
  <2> QED
    BY <1>3, <2>1, <2>2, FailedFacts
<1> QED
  BY <1>5, <1>6, <1>7, <1>8, <1>9, <1>10, <1>11, <1>12, <1>13 DEF Next

-----------------------------------------------------------------------------
(* What the file shows *)

Follows == Desired(static, leases) # {} \/ active => file \in {Torn, Desired(static, leases)}

(* After a write the file shows the policy that is in memory then.            *)
LEMMA UpdateShows ==
  ASSUME NEW st, NEW ls, NEW act, Update(st, ls, act), static' = st, leases' = ls,
         active' => act \/ Desired(st, ls) # {}
  PROVE  Follows'
<1>1. (Desired(static, leases))' = Desired(st, ls)
  BY DEF Desired
<1>2. CASE act \/ Desired(st, ls) # {}
  BY <1>1, <1>2 DEF Update, Written, Follows
<1>3. CASE ~(act \/ Desired(st, ls) # {})
  BY <1>1, <1>3 DEF Follows
<1> QED
  BY <1>2, <1>3

(* A session's lease that is set, or not, leaves the file following the       *)
(* policy, and the policy following the sessions.                             *)
LEMMA LeaseShows ==
  ASSUME TypeInv, NEW s \in Sources, NEW list \in LeaseLists,
         \/ SetLease(s, list) /\ held' = [held EXCEPT ![s] = list]
         \/ SetLeaseFailed(s, list) /\ UNCHANGED held
  PROVE  /\ static' = static
         /\ OfHeld(leases) => OfHeld(leases)'
         /\ Follows => Follows'
         /\ \A ls : OfHeld(ls) /\ held' = held => OfHeld(ls)'
<1>1. CASE SetLease(s, list) /\ held' = [held EXCEPT ![s] = list]
  <2>1. static' = static /\ leases' = [leases EXCEPT ![s] = list]
    BY <1>1 DEF SetLease
  <2>2. Follows'
    BY <1>1, <2>1, UpdateShows DEF SetLease, Activated
  <2>3. OfHeld(leases) => OfHeld(leases)'
    BY <1>1, <2>1, ListsAssumption DEF OfHeld, TypeInv, ManagedOK, HeldOK
  <2>4. \A ls : OfHeld(ls) /\ held' = held => OfHeld(ls)'
    BY DEF OfHeld
  <2> QED
    BY <2>1, <2>2, <2>3, <2>4
<1>2. CASE SetLeaseFailed(s, list) /\ UNCHANGED held
  <2>1. UNCHANGED <<static, leases, active, held>>
    BY <1>2 DEF SetLeaseFailed
  <2>2. file' \in {file, Torn}
    BY <1>2 DEF SetLeaseFailed, UpdateFailed, WriteFailed
  <2> QED
    BY <2>1, <2>2 DEF Follows, OfHeld, Desired
<1> QED
  BY <1>1, <1>2

LEMMA ShownStep ==
  ASSUME TypeInv, Control, Recorded, Shown, Next
  PROVE  Shown'
<1>1. ASSUME pc' \notin {"starting", "capture"}, saved' = None, outcome' \notin {"ok", "rolledback"}
      PROVE  Shown'
  BY <1>1 DEF Shown
<1>2. CASE Reload \/ Stop \/ Revert
  <2>1. saved = None /\ saved' = saved /\ outcome' = "none" /\ pc' \in {"configure", "teardown", "restore"}
    BY <1>2 DEF Reload, Stop, Revert, Control, FirstStep
  <2> QED
    BY <1>1, <2>1
<1>3. CASE Confirm
  <2>1. UNCHANGED <<static, leases, active, file, held, pc, conf, saved, applied, outcome, raced>>
    BY <1>3 DEF Confirm
  <2> QED
    BY <2>1 DEF Shown, OfHeld, Desired
<1>4. CASE TornDown
  BY <1>1, <1>4 DEF TornDown, Control
<1>5. CASE RestoreBase
  <2>1. /\ pc = "restore" /\ saved = None /\ outcome = "none"
        /\ job.kind \in {"reload", "stop", "rollback", "revert"}
    BY <1>5 DEF RestoreBase, Control, TypeInv, MainOK, Works
  <2>2. /\ pc' \notin {"starting", "capture"} /\ saved' = None /\ outcome' # "ok"
        /\ outcome' = "rolledback" => applied' = None
    BY <1>5, <2>1 DEF RestoreBase, Continue, Ends
  <2> QED
    BY <2>2 DEF Shown
<1>6. CASE Configure
  <2>1. saved = None /\ outcome = "none" /\ \A s \in Sources : held[s] = None /\ leases[s] = {}
    BY <1>6 DEF Configure, Control, Recorded, AllOff
  <2> QED
    BY <1>6, <2>1 DEF Configure, Shown, OfHeld
<1>7. ASSUME pc = "starting", Failed PROVE Shown'
  BY <1>1, <1>7, FailedFacts
<1>8. CASE LineFails
  BY <1>7, <1>8 DEF LineFails
<1>9. CASE Apply
  <2>1. /\ pc = "starting" /\ saved = None /\ outcome = "none" /\ static = conf /\ OfHeld(leases)
        /\ UNCHANGED <<static, leases, held, raced>>
    BY <1>9 DEF Apply, Control, Shown
  <2>2. CASE Failed
    BY <1>7, <2>1, <2>2
  <2>3. CASE ~Failed
    <3>1. Update(static, leases, active) /\ Activated(static, leases, active) /\ conf' = conf
      BY <1>9, <2>3 DEF Apply
    <3>2. Follows'
      BY <2>1, <3>1, UpdateShows DEF Activated
    <3>3. OfHeld(leases)'
      BY <2>1 DEF OfHeld
    <3>4. saved' = None /\ ((pc' = "capture" /\ outcome' = outcome) \/ (pc' = "idle" /\ applied' = conf))
      BY <1>9, <2>1, <2>3 DEF Apply, Ends
    <3> QED
      BY <2>1, <3>1, <3>2, <3>3, <3>4 DEF Shown, Follows
  <2> QED
    BY <2>2, <2>3
<1>10. CASE Capture
  <2>1. static = conf /\ OfHeld(leases) /\ outcome = "none" /\ conf # None
    BY <1>10, ConfigIsNotNone DEF Capture, Shown, Control, TypeInv, MainOK
  <2>2. /\ saved'.static = static /\ saved'.leases = leases /\ applied' = conf
        /\ pc' = "restoreMid" /\ UNCHANGED <<held, outcome>>
    BY <1>10 DEF Capture
  <2>3. OfHeld(saved.leases)'
    BY <2>1, <2>2 DEF OfHeld
  <2> QED
    BY <2>1, <2>2, <2>3 DEF Shown
<1>11. CASE RestoreMid
  <2>1. pc = "restoreMid" /\ outcome = "none" /\ UNCHANGED <<held, raced>>
    BY <1>11 DEF RestoreMid, Control
  <2>2. CASE saved = None
    <3>1. \E err \in BOOLEAN : Reverted(err) /\ (job.err => err)
      BY <1>11, <2>2 DEF RestoreMid, TypeInv, MainOK, Works
    <3>2. ~job.err => applied = None
      BY <2>1, <2>2 DEF Control
    <3>3. pc' = "idle" /\ saved' = None /\ applied' = applied
          /\ (outcome' = "error" \/ (outcome' = "ok" /\ applied = None))
      BY <3>1, <3>2 DEF Reverted, Ends
    <3> QED
      BY <3>3 DEF Shown
  <2>3. CASE saved # None
    <3>1. pc' = "restoreManaged" /\ UNCHANGED <<saved, outcome, applied>>
      BY <1>11, <2>3 DEF RestoreMid
    <3>2. ~raced => OfHeld(saved.leases)'
      BY <2>1, <2>3, <3>1 DEF Shown, OfHeld
    <3> QED
      BY <2>1, <2>3, <3>1, <3>2 DEF Shown
  <2> QED
    BY <2>2, <2>3
<1>12. CASE RestoreManaged
  <2>1. /\ saved # None /\ outcome = "none" /\ UNCHANGED <<held, raced>> /\ saved.static = applied
        /\ ~raced => OfHeld(saved.leases)
    BY <1>12 DEF RestoreManaged, Control, Shown
  <2>2. \A err : Reverted(err) => pc' = "idle" /\ saved' = None /\ applied' = applied
                                  /\ outcome' = IF err THEN "error" ELSE "ok"
    BY DEF Reverted, Ends
  <2>3. CASE Reverted(TRUE)
    BY <1>1, <2>2, <2>3
  <2>4. CASE ~Reverted(TRUE)
    <3>1. /\ Update(saved.static, saved.leases, saved.active) /\ Reverted(job.err)
          /\ static' = saved.static /\ leases' = saved.leases /\ active' = saved.active
      BY <1>12, <2>4 DEF RestoreManaged
    <3>2. Follows'
      BY <3>1, UpdateShows
    <3>3. ~raced => OfHeld(leases)'
      BY <2>1, <3>1 DEF OfHeld
    <3>4. pc' = "idle" /\ saved' = None /\ applied' = applied
      BY <2>2, <3>1
    <3> QED
      BY <2>1, <3>1, <3>2, <3>3, <3>4 DEF Shown, Follows
  <2> QED
    BY <2>3, <2>4
<1>13. CASE Exit
  BY <1>1, <1>13 DEF Exit, Ends
<1>14. ASSUME NEW s \in Sources, Renew(s) PROVE Shown'
  <2>1. /\ UNCHANGED <<pc, conf, saved, applied, outcome>>
        /\ raced' = (raced \/ (saved # None))
    BY <1>14 DEF Renew
  <2>2. PICK list \in LeaseLists : \/ SetLease(s, list) /\ held' = [held EXCEPT ![s] = list]
                                   \/ SetLeaseFailed(s, list) /\ UNCHANGED held
    BY <1>14 DEF Renew
  <2>3. /\ static' = static /\ (OfHeld(leases) => OfHeld(leases)') /\ (Follows => Follows')
    BY <2>2, LeaseShows
  <2>4. ~raced' => ~raced /\ saved = None
    BY <2>1
  <2> QED
    BY <2>1, <2>3, <2>4 DEF Shown, Follows
<1>15. ASSUME NEW s \in Sources, EndSession(s) PROVE Shown'
  <2>1. saved = None /\ outcome = "none" /\ pc = "teardown" /\ UNCHANGED <<pc, saved, outcome>>
    BY <1>15 DEF EndSession, Control
  <2> QED
    BY <1>1, <2>1
<1>16. ASSUME NEW s \in Sources, Acquire(s) PROVE Shown'
  <2>1. pc = "starting" /\ saved = None /\ outcome = "none" /\ static = conf /\ OfHeld(leases)
    BY <1>16 DEF Acquire, Control, Shown
  <2>2. CASE Failed
    BY <1>7, <2>1, <2>2
  <2>3. CASE ~Failed
    <3>1. PICK list \in LeaseLists : /\ \/ SetLease(s, list) /\ held' = [held EXCEPT ![s] = list]
                                        \/ SetLeaseFailed(s, list) /\ UNCHANGED held
                                     /\ UNCHANGED <<main, records>>
      BY <1>16, <2>3 DEF Acquire
    <3>2. static' = static /\ OfHeld(leases)'
      BY <2>1, <3>1, LeaseShows
    <3> QED
      BY <2>1, <3>1, <3>2 DEF Shown
  <2> QED
    BY <2>2, <2>3
<1> QED
  BY <1>2, <1>3, <1>4, <1>5, <1>6, <1>8, <1>9, <1>10, <1>11, <1>12, <1>13, <1>14, <1>15, <1>16
     DEF Next

-----------------------------------------------------------------------------
(* Theorems *)

LEMMA IInvStep == IInv /\ [Next]_vars => IInv'
<1> SUFFICES ASSUME IInv, [Next]_vars PROVE IInv'
  OBVIOUS
<1>1. CASE UNCHANGED vars
  BY <1>1 DEF vars, IInv, TypeInv, FileOK, MainOK, ManagedOK, HeldOK, Sound, MidOK, Control,
     Recorded, AllOff, Shown, OfHeld, Desired, Pristine, Snap
<1>2. CASE Next
  <2>1. TypeInv'
    BY <1>2, MainTypes, SessionTypes DEF IInv, Next
  <2> QED
    BY <1>2, <2>1, ControlStep, RecordedStep, ShownStep, PristineStep DEF IInv
<1> QED
  BY <1>1, <1>2

(* Main has on record what each step of a job needs, and sessions run only    *)
(* for a configuration on record.                                             *)
THEOREM Accounted == Spec => []IInv
<1>1. Init => IInv
  BY TypeInit, ControlInit DEF IInv
<1> QED
  BY <1>1, IInvStep, PTL DEF Spec

(* Every variable has its type, and only a file that is there, on a machine   *)
(* with chattr, is immutable (guard, dns.go).                                 *)
THEOREM TypeCorrect == Spec => []TypeOK
<1>1. IInv => TypeOK
  BY TypeInvOK DEF IInv
<1> QED
  BY <1>1, Accounted, PTL

(* Whatever failed or died in between, the baseline is the file that was      *)
(* there first, and it is back when nic has forgotten it (Restore, dns.go).   *)
THEOREM NeverLost == Spec => []Pristine
<1>1. IInv => Pristine
  BY DEF IInv
<1> QED
  BY <1>1, Accounted, PTL

(* After a change, rollback or revert that succeeded the file shows the       *)
(* applied configuration and the leases of the sessions, renewals included.   *)
THEOREM ShowsWhatIsApplied == Spec => []InForce
<1>1. IInv => InForce
  <2> SUFFICES ASSUME IInv, outcome \in {"ok", "rolledback"}, applied # None, ~raced, file # Torn
               PROVE  LET want == Desired(applied, [s \in Sources |-> IF held[s] = None THEN {} ELSE held[s]])
                      IN want # {} \/ active => file = want
    BY DEF InForce
  <2>1. /\ static = applied /\ OfHeld(leases) /\ leases \in [Sources -> LeaseLists]
        /\ Desired(static, leases) # {} \/ active => file = Desired(static, leases)
    BY DEF IInv, Shown, TypeInv, ManagedOK
  <2>2. leases = [s \in Sources |-> IF held[s] = None THEN {} ELSE held[s]]
    BY <2>1 DEF OfHeld
  <2> QED
    BY <2>1, <2>2
<1> QED
  BY <1>1, Accounted, PTL
=============================================================================
