------------------------------ MODULE NicApply ------------------------------
(***************************************************************************)
(* A configuration put on a machine and taken back, command by command:    *)
(* applyConfig, teardownConfig and RestoreState (main.go 288-684,          *)
(* 1540-1596; internal/state) with the other programs that nic starts and  *)
(* stops, wpa_supplicant, iwd and dhclient (internal/wifi,                 *)
(* internal/dhcp/external.go, internal/control 50-135).                    *)
(*                                                                         *)
(* NicReconcile treats a configuration as a set of effects that teardown   *)
(* and restoration remove. This module looks inside: whether the commands  *)
(* nic derives do remove them, on a kernel that couples links, addresses   *)
(* and routes (NicKernel), and with processes that end when they like.     *)
(***************************************************************************)
EXTENDS NicRollback

CONSTANTS
  Configs,     \* [aliases, pins, lines]; a line is [type, cmd] or [type, dev]
  Machines,    \* the machines before nic
  Wireless,    \* the link that DetectInterface finds
  Pids,
  MaxMishaps,  \* bound: failures, deaths of nic and of other programs
  MaxTime,     \* bound on the clock
  MaxStops     \* bound on the undisturbed stops that are counted

\* A machine as ip(8) shows it: what there is, is on a link that there is.
Machine(n) ==
  /\ n = [links |-> n.links, up |-> n.up, mac |-> n.mac, mtu |-> n.mtu, master |-> n.master,
          addrs |-> n.addrs, routes |-> n.routes, rules |-> n.rules]
  /\ n.links \subseteq Links /\ n.up \subseteq n.links
  /\ \A a \in n.addrs : a.dev \in n.links
  /\ \A r \in n.routes : r.dev \in n.links

\* What the parser lets through: names of links, aliases or pins where a link is expected.
WellFormed(cfg) ==
  /\ cfg.lines \in Seq(ToSet(cfg.lines))
  /\ \A a \in DOMAIN cfg.aliases : cfg.aliases[a] \in Links
  /\ \A line \in ToSet(cfg.lines) :
       /\ line.type \in {"ip", "wifi", "dhcp"}
       /\ line.type = "ip" /\ line.cmd.op = "newlink" => line.cmd.dev \in Links
       /\ \/ line.type = "ip" \/ (line.type = "wifi" /\ line.dev = None)
          \/ line.dev \in Links \cup DOMAIN cfg.aliases \cup DOMAIN cfg.pins

ASSUME MachinesAssumption ==
  \A n \in Machines : Machine(n) /\ IsFiniteSet(n.addrs) /\ IsFiniteSet(n.rules)
ASSUME ConfigsAssumption == \A cfg \in Configs : WellFormed(cfg)
ASSUME NamesAssumption == Wireless \in Links /\ None \notin Pids \cup [pid : Pids, born : Nat]
ASSUME BoundsAssumption == MaxMishaps \in Nat /\ MaxTime \in Nat /\ MaxStops \in Nat

VARIABLES
  net,       \* the machine
  now,
  backend,   \* which Wi-Fi program is installed
  procs,     \* processes: [pid, born, prog, dev]; those not nic's have prog "other"
  files,     \* files[<<prog, dev>>]: the pid file and the process record
  iwd,       \* the profile of the network (the user's may be that there is none); what nic keeps of the one
             \* before its own: kept, on disk, for each link, and held, in memory, until that is written
  base, pending, applied,   \* the files of main.go: snapshot and configurations
  snap,      \* the snapshot a reload may be reverted to
  job,       \* the operation under way
  status,    \* what the last operation reported
  mishaps,
  calm,      \* stops in a row that nothing disturbed
  orig,      \* history: machine and profile at the capture of base; "lost" when nic lost its only copy of the latter
  expected,  \* history: the machine that the last report promises
  unnamed,   \* history: a revert failed or was cut short, so there may be leftovers that no file names
  mixed      \* history: a program got the pid of a predecessor whose record could not be removed

vars == <<net, now, backend, procs, files, iwd, base, pending, applied, snap, job, status,
          mishaps, calm, orig, expected, unnamed, mixed>>
disk == <<base, pending, applied, snap>>
progs == <<procs, files, iwd>>
past == <<orig, expected, unnamed, mixed>>

Programs == {"wpa_supplicant", "dhclient"}
Slots == Programs \X Links
NoFiles == [pid |-> None, rec |-> None]
Idle == [kind |-> "idle", cfg |-> None, old |-> None, plan |-> <<>>, lines |-> <<>>, todo |-> <<>>,
         err |-> FALSE]

-----------------------------------------------------------------------------
(* Steps: NicRollback's commands, and what is done to a program for a link. *)
(* A line of the configuration is a sequence of steps.                      *)

Do(act, prog, dev, on) == [act |-> act, prog |-> prog, dev |-> dev, on |-> on]

\* Disconnect ends either backend. As the backend does not change, one of the two steps finds nothing to do,
\* so it does not matter that the code goes on to the second after a failure of the first.
Disconnect(dev, on) == <<Do("halt", "wpa_supplicant", dev, on), Do("leave", "iwd", dev, on)>>

Connect(dev) ==
  <<[act |-> "ip", cmd |-> SetLink(dev, "up", None), on |-> "abort"]>> \o Disconnect(dev, "abort")
  \o IF backend = "iwd" THEN <<Do("install", "iwd", dev, "abort"), Do("connect", "iwd", dev, "abort")>>
     ELSE <<Do("launch", "wpa_supplicant", dev, "abort"), Do("record", "wpa_supplicant", dev, "abort")>>
StartExternal(dev) ==
  <<Do("halt", "dhclient", dev, "abort"), Do("launch", "dhclient", dev, "abort"),
    Do("record", "dhclient", dev, "abort")>>

\* A wifi line without an interface means the first wireless one.
Iface(names, dev) == IF dev = None THEN Wireless ELSE NameOf(names, dev)

IsIP(line) == line.type = "ip"
LineSteps(names, line) ==
  CASE line.type = "ip"   -> <<[act |-> "ip", cmd |-> ResolveInTokens(names, line.cmd), on |-> "abort"]>>
    [] line.type = "wifi" -> Connect(Iface(names, line.dev))
    [] line.type = "dhcp" -> StartExternal(NameOf(names, line.dev))

ApplySteps(cfg) ==
  LET names == Names(net, cfg, DOMAIN cfg.pins)
  IN  [i \in DOMAIN cfg.lines |-> LineSteps(names, cfg.lines[i])]

ValidConfig(cfg) == \A i \in DOMAIN cfg.lines : IsIP(cfg.lines[i]) => Rollbackable(cfg.lines[i].cmd)

-----------------------------------------------------------------------------
(* Teardown *)

\* StopAll: every interface that has a file of an external client.
StopAllSteps ==
  LET StopOne(l) == <<Do("halt", "dhclient", l, "collect")>>
  IN  ForEach({l \in Links : files[<<"dhclient", l>>] # NoFiles}, StopOne)

ManagedInterfaces == {l \in Links : files[<<"wpa_supplicant", l>>] # NoFiles \/ iwd.kept[l] # None}
ToDisconnect(names, cfg) ==   \* a name that no link can have has no files either
  Links \cap UNION {LET line == cfg.lines[i]
         IN  IF line.type # "wifi" THEN {}
             ELSE IF line.dev = None /\ ManagedInterfaces # {} THEN ManagedInterfaces
             ELSE {Iface(names, line.dev)} : i \in DOMAIN cfg.lines}

ReverseSteps(names, cfg) ==
  LET Inverse1(line) == IF ~IsIP(line) THEN <<>>
                        ELSE LET back == ReverseIPCommand(ResolveInTokens(names, line.cmd))
                             IN  [i \in DOMAIN back |-> [act |-> "ip", cmd |-> back[i], on |-> "benign"]]
  IN  [i \in DOMAIN cfg.lines |-> Inverse1(Reverse(cfg.lines)[i])]

\* DHCP clients first, then Wi-Fi, then the commands in reverse order.
TeardownSteps(names, cfg) ==
  LET Leaves(l) == Disconnect(l, "collect")
  IN  StopAllSteps \o ForEach(ToDisconnect(names, cfg), Leaves) \o ReverseSteps(names, cfg)

-----------------------------------------------------------------------------
(* Operations, as plans of what is to be done in turn *)

Phase(do, arg) == [do |-> do, arg |-> arg]
Teardown(cfg) == IF cfg = None THEN <<>> ELSE <<Phase("teardown", cfg)>>
Restore(snapshot) == [i \in DOMAIN Stages |-> Phase(Stages[i], snapshot)]
Back == Teardown(pending) \o Teardown(applied)

Begin(kind, cfg, plan) ==
  job' = [Idle EXCEPT !.kind = kind, !.cfg = cfg, !.old = applied, !.plan = plan]

\* The machine is as the applied configuration left it.
Settled == status \in {"applied", "rolledback", "reverted"}

\* `nic start`, and `nic reload` when there is a configuration, which takes a snapshot first.
Start(cfg) ==
  /\ job = Idle /\ snap = None
  /\ ~unnamed   \* bound: only stops after a revert that failed
  /\ base = None => orig' = [net |-> net, profile |-> iwd.profile]
  /\ base # None => UNCHANGED orig
  /\ base' = IF base = None THEN Capture(net, now) ELSE base
  /\ snap' = IF applied = None THEN None
             ELSE [state |-> Capture(net, now), cfg |-> applied, net |-> IF Settled THEN net ELSE None]
  /\ Begin("start", cfg, Back \o (IF base = None THEN <<>> ELSE Restore(base))
                         \o <<Phase("intend", cfg), Phase("apply", cfg), Phase("commit", cfg)>>)
  /\ calm' = 0 /\ expected' = None
  /\ UNCHANGED <<net, now, backend, progs, pending, applied, status, mishaps, unnamed, mixed>>

Stop ==
  /\ job = Idle /\ snap = None
  /\ Begin("stop", None, Back \o (IF base = None THEN <<>> ELSE Restore(base)) \o <<Phase("stopped", None)>>)
  /\ expected' = None
  /\ UNCHANGED <<net, now, backend, progs, disk, status, mishaps, calm, orig, unnamed, mixed>>

Confirm ==
  /\ job = Idle /\ snap # None
  /\ snap' = None
  /\ UNCHANGED <<net, now, backend, progs, base, pending, applied, job, status, mishaps, calm, past>>

\* restoreSavedSnapshot, when nobody confirms.
Revert ==
  /\ job = Idle /\ snap # None
  /\ Begin("revert", snap.cfg,
           Back \o Restore(base) \o <<Phase("apply", snap.cfg), Phase("resume", snap.cfg)>>
           \o Restore(snap.state) \o <<Phase("reverted", None)>>)
  /\ expected' = None
  /\ UNCHANGED <<net, now, backend, progs, disk, status, mishaps, calm, orig, unnamed, mixed>>

-----------------------------------------------------------------------------
(* Phases *)

Turn(do) ==
  job # Idle /\ job.lines = <<>> /\ job.todo = <<>> /\ job.plan # <<>> /\ Head(job.plan).do = do
Arg == Head(job.plan).arg
Onward(lines) == job' = [job EXCEPT !.plan = Tail(@), !.lines = lines]
Finish(report) == job' = Idle /\ status' = report

\* applyConfig returns an error: a start is rolled back, others note it and go on.
Abort(j) ==
  IF j.kind = "start"
  THEN [j EXCEPT !.kind = "undo", !.lines = <<>>, !.todo = <<>>, !.err = FALSE,
                 !.plan = Teardown(j.cfg) \o Restore(base)
                          \o (IF j.old = None THEN <<>> ELSE <<Phase("apply", j.old)>>)
                          \o <<Phase("undone", None)>>]
  ELSE [j EXCEPT !.err = TRUE, !.lines = <<>>, !.todo = <<>>,
                 !.plan = IF @ # <<>> /\ Head(@).do = "resume" THEN Tail(@) ELSE @]

BeginTeardown ==
  /\ Turn("teardown")
  /\ \E pins \in LookedUp(net, Arg) :
       job' = [job EXCEPT !.plan = Tail(@), !.lines = TeardownSteps(Names(net, Arg, pins), Arg),
                          !.err = @ \/ ~Resolves(net, Arg)]
  /\ UNCHANGED <<net, now, backend, progs, disk, status, mishaps, calm, past>>

BeginStage ==
  /\ \E s \in Range(Stages) : Turn(s) /\ Onward(RestoreSteps(s, Arg, net, now))
  /\ UNCHANGED <<net, now, backend, progs, disk, status, mishaps, calm, past>>

\* Nothing is applied unless the machine is back at its baseline.
Intend ==
  /\ Turn("intend")
  /\ IF job.err
     THEN Finish("refused") /\ snap' = None /\ UNCHANGED pending
     ELSE Onward(<<>>) /\ pending' = Arg /\ UNCHANGED <<status, snap>>
  /\ UNCHANGED <<net, now, backend, progs, base, applied, mishaps, calm, past>>

BeginApply ==
  /\ Turn("apply")
  /\ LET j == [job EXCEPT !.plan = Tail(@)]
     IN  job' = IF ValidConfig(Arg) /\ Resolves(net, Arg)
                THEN [j EXCEPT !.lines = ApplySteps(Arg)] ELSE Abort(j)
  /\ UNCHANGED <<net, now, backend, progs, disk, status, mishaps, calm, past>>

Commit ==
  /\ Turn("commit")
  /\ Finish("applied") /\ applied' = Arg /\ pending' = None
  /\ UNCHANGED <<net, now, backend, progs, base, snap, mishaps, calm, past>>

Undone ==
  /\ Turn("undone")
  /\ Finish(IF job.err THEN "failed" ELSE "rolledback")
  /\ pending' = (IF job.err THEN pending ELSE None) /\ snap' = None
  /\ expected' = (IF job.err \/ job.old # None THEN None ELSE orig.net)
  /\ UNCHANGED <<net, now, backend, progs, base, applied, mishaps, calm, orig, unnamed, mixed>>

Stopped ==
  /\ Turn("stopped")
  /\ Finish(IF job.err THEN "stopfailed" ELSE "stopped")
  /\ IF job.err THEN UNCHANGED <<base, pending, applied, expected>>
     ELSE base' = None /\ pending' = None /\ applied' = None
          /\ expected' = (IF base = None THEN None ELSE orig.net)
  /\ calm' = IF calm < MaxStops THEN calm + 1 ELSE calm
  /\ UNCHANGED <<net, now, backend, progs, snap, mishaps, orig, unnamed, mixed>>

\* The previous configuration is the applied one again, whatever else fails.
Resume ==
  /\ Turn("resume")
  /\ Onward(<<>>) /\ applied' = Arg
  /\ UNCHANGED <<net, now, backend, progs, base, pending, snap, status, mishaps, calm, past>>

Reverted ==
  /\ Turn("reverted")
  /\ Finish(IF job.err THEN "revertfailed" ELSE "reverted")
  /\ pending' = (IF job.err THEN pending ELSE None) /\ snap' = None
  /\ expected' = (IF job.err THEN None ELSE snap.net)
  /\ unnamed' = (unnamed \/ job.err)
  /\ UNCHANGED <<net, now, backend, progs, base, applied, mishaps, calm, orig, mixed>>

-----------------------------------------------------------------------------
(* Steps. A failing one is noted, skipped, or ends the apply (main.go 384-391, 636, state.go 302-306) *)

NextLine ==
  /\ job.todo = <<>> /\ job.lines # <<>>
  /\ job' = [job EXCEPT !.todo = Head(job.lines), !.lines = Tail(@)]
  /\ UNCHANGED <<net, now, backend, progs, disk, status, mishaps, calm, past>>

Step == Head(job.todo)
Acts(act) == job.todo # <<>> /\ Step.act = act
Rest == [job EXCEPT !.todo = Tail(@)]

\* What counts as an error: isAlreadyExists when applying, isBenignTeardownError when tearing down.
Counts(on, error) ==
  CASE on = "ignore" -> FALSE
    [] on = "abort"  -> error # "exists"
    [] on = "benign" -> error # "missing"
    [] OTHER         -> TRUE
Failed(error) ==
  IF ~Counts(Step.on, error) THEN Rest
  ELSE IF Step.on = "abort" THEN Abort(Rest)
  ELSE [Rest EXCEPT !.err = TRUE]

RunIP ==
  /\ Acts("ip")
  /\ LET error == ErrorOf(net, Step.cmd)
     IN  IF error = "none" THEN net' = Effect(net, Step.cmd, now) /\ job' = Rest
         ELSE job' = Failed(error) /\ UNCHANGED net
  /\ UNCHANGED <<now, backend, progs, disk, status, mishaps, calm, past>>

-----------------------------------------------------------------------------
(* Programs *)

Slot == <<Step.prog, Step.dev>>
Unnamed == [pid |-> None, born |-> 0]   \* the record of a client whose process was not found
Tracked(f) == f.rec \notin {None, Unnamed}
At(pid) == {p \in procs : p.pid = pid}
IsRecorded(p, rec) == p.pid = rec.pid /\ p.born = rec.born

\* Defect: without a record there is nothing to end.
ToSignal_RecordOnly(slot) == LET f == files[slot] IN {p \in procs : Tracked(f) /\ IsRecorded(p, f.rec)}

\* Defect: a recorded pid is signalled whoever has it now.
ToSignal_AnyPid(slot) ==
  LET f == files[slot]
  IN  IF Tracked(f) THEN At(f.rec.pid) ELSE {p \in At(f.pid) : p.prog = slot[1]}

\* The process to end: the recorded one, by pid and start time, or one found by pid file and name.
ToSignal(slot) ==
  LET f == files[slot]
  IN  IF Tracked(f) THEN {p \in procs : IsRecorded(p, f.rec)} ELSE {p \in At(f.pid) : p.prog = slot[1]}

Refuses(slot) ==
  LET f == files[slot]
  IN  \/ Tracked(f) /\ f.pid # None /\ f.pid # f.rec.pid
      \/ ~Tracked(f) /\ f.pid # None /\ \E p \in At(f.pid) : p.prog # slot[1]
      \/ f.rec = Unnamed /\ f.pid = None
      \/ slot[1] = "dhclient" /\ Tracked(f) /\ \E p \in ToSignal(slot) : p.prog # slot[1]

\* The files are removed once the process has ended.
AfterHalt(slot) ==
  [job.todo EXCEPT ![1] = Do("forget", slot[1], slot[2], IF slot[1] = "dhclient" THEN "ignore" ELSE Step.on)]

\* stopWPASupplicant, stopExternal, up to the end of the process.
Halt ==
  /\ Acts("halt")
  /\ IF files[Slot] = NoFiles THEN job' = Rest /\ UNCHANGED procs
     ELSE IF Refuses(Slot) THEN job' = Failed("refused") /\ UNCHANGED procs
     ELSE procs' = procs \ ToSignal(Slot) /\ job' = [job EXCEPT !.todo = AfterHalt(Slot)]
  /\ UNCHANGED <<net, now, backend, files, iwd, disk, status, mishaps, calm, past>>

Forget ==
  /\ Acts("forget")
  /\ files' = [files EXCEPT ![Slot] = NoFiles] /\ job' = Rest
  /\ UNCHANGED <<net, now, backend, procs, iwd, disk, status, mishaps, calm, past>>

\* A start time that no record of that pid has.
Fresh(pid) ==
  LET used == {files[s].rec.born : s \in {t \in Slots : files[t].rec # None /\ files[t].rec.pid = pid}}
  IN  CHOOSE b \in 1..(Cardinality(used) + 1) : b \notin used

\* The program is in the background, and its pid file written, when the command returns.
Launch ==
  /\ Acts("launch")
  /\ \E pid \in {q \in Pids : At(q) = {}} :
       /\ procs' = procs \cup {[pid |-> pid, born |-> Fresh(pid), prog |-> Step.prog, dev |-> Step.dev]}
       /\ files' = [files EXCEPT ![Slot].pid = pid]
       /\ mixed' = (mixed \/ (Tracked(files[Slot]) /\ files[Slot].rec.pid = pid))
  /\ job' = Rest
  /\ UNCHANGED <<net, now, backend, iwd, disk, status, mishaps, calm, orig, expected, unnamed>>

\* wpa_supplicant must be found and recorded, an external client is noted without its process.
Unrecorded == IF Step.prog = "dhclient" THEN Abort(Rest)
              ELSE [job EXCEPT !.todo = <<Do("halt", Step.prog, Step.dev, "ignore"), Do("fail", None, None, "abort")>>]
Record ==
  /\ Acts("record")
  /\ LET found == At(files[Slot].pid)
         rec   == IF found = {} THEN Unnamed ELSE [pid |-> files[Slot].pid, born |-> (CHOOSE p \in found : TRUE).born]
     IN  IF found = {} /\ Step.prog = "wpa_supplicant" THEN job' = Unrecorded /\ UNCHANGED files
         ELSE job' = Rest /\ files' = [files EXCEPT ![Slot].rec = rec]
  /\ UNCHANGED <<net, now, backend, procs, iwd, disk, status, mishaps, calm, past>>

GiveUp ==
  /\ Acts("fail")
  /\ job' = Failed("refused")
  /\ UNCHANGED <<net, now, backend, progs, disk, status, mishaps, calm, past>>

PutBack(dev) == iwd' = [iwd EXCEPT !.profile = iwd.kept[dev], !.kept[dev] = None]

\* installIWDProfile: iwd's profile of the network becomes nic's; the one before is in memory only,
Install ==
  /\ Acts("install") /\ iwd.held = None
  /\ iwd' = [iwd EXCEPT !.profile = "nic", !.held = iwd.profile]
  /\ UNCHANGED <<net, now, backend, procs, files, disk, job, status, mishaps, calm, past>>

\* until its record is written.
Keep ==
  /\ Acts("install") /\ iwd.held # None
  /\ iwd' = [iwd EXCEPT !.kept[Step.dev] = iwd.held, !.held = None] /\ job' = Rest
  /\ UNCHANGED <<net, now, backend, procs, files, disk, status, mishaps, calm, past>>

\* Defect: put back what was never kept.
Leave_Unchecked ==
  /\ Acts("leave")
  /\ PutBack(Step.dev) /\ job' = Rest
  /\ UNCHANGED <<net, now, backend, procs, files, disk, status, mishaps, calm, past>>

Leave ==
  /\ Acts("leave")
  /\ IF iwd.kept[Step.dev] = None THEN UNCHANGED iwd ELSE PutBack(Step.dev)
  /\ job' = Rest
  /\ UNCHANGED <<net, now, backend, procs, files, disk, status, mishaps, calm, past>>

Station ==
  /\ Acts("connect")
  /\ job' = Rest
  /\ UNCHANGED <<net, now, backend, progs, disk, status, mishaps, calm, past>>

-----------------------------------------------------------------------------
(* What goes wrong *)

Mishap ==
  /\ mishaps < MaxMishaps /\ mishaps' = mishaps + 1
  /\ calm' = IF job.kind = "stop" THEN -1 ELSE 0   \* a disturbed stop does not count

MayFail ==
  /\ job.todo # <<>>
  /\ \/ Step.act \in {"ip", "launch"}
     \/ Step.act = "install" /\ iwd.held = None
     \/ Step.act \in {"halt", "forget"} /\ files[Slot] # NoFiles
     \/ Step.act \in {"leave", "connect"} /\ iwd.kept[Step.dev] # None

\* A step fails and leaves everything as it was.
StepFails ==
  /\ MayFail /\ Mishap
  /\ job' = Failed("fault")
  /\ UNCHANGED <<net, now, backend, progs, disk, status, past>>

RecordFails ==
  /\ Acts("record") /\ Mishap
  /\ job' = Unrecorded
  /\ UNCHANGED <<net, now, backend, progs, disk, status, past>>

\* The copy that nic held of the previous profile goes: lost, unless the profile is as it was.
Release(profile) ==
  /\ iwd' = [iwd EXCEPT !.profile = profile, !.held = None]
  /\ orig' = IF iwd.held \in {None, profile} THEN orig ELSE [orig EXCEPT !.profile = "lost"]

\* The record of the previous profile cannot be written. nic puts that profile back, and ignores whether it could.
KeepFails ==
  /\ Acts("install") /\ iwd.held # None /\ Mishap
  /\ \E profile \in {iwd.profile, iwd.held} : Release(profile)
  /\ job' = Failed("fault")
  /\ UNCHANGED <<net, now, backend, procs, files, disk, status, expected, unnamed, mixed>>

\* The program fails, and nic still puts the user's profile back.
IWDFails ==
  /\ Acts("connect") \/ Acts("leave")
  /\ iwd.kept[Step.dev] # None /\ Mishap
  /\ PutBack(Step.dev) /\ job' = Failed("fault")
  /\ UNCHANGED <<net, now, backend, procs, files, disk, status, past>>

\* nic dies. The watcher of a reload still restores its snapshot.
Die ==
  /\ job # Idle /\ Mishap
  /\ Finish("dead")
  /\ snap' = IF job.kind \in {"start", "undo"} THEN snap ELSE None
  /\ unnamed' = (unnamed \/ (/\ job.kind = "revert" /\ (job.err \/ applied # job.cfg)
                             /\ \A i \in DOMAIN job.plan : job.plan[i].do # "apply"))
  /\ Release(iwd.profile)
  /\ UNCHANGED <<net, now, backend, procs, files, base, pending, applied, expected, mixed>>

\* A program ends by itself and may or may not remove its pid file.
ProgramEnds ==
  /\ Mishap
  /\ \E p \in procs, tidy \in BOOLEAN :
       /\ p.prog # "other"
       /\ procs' = procs \ {p}
       /\ files' = [s \in Slots |-> IF tidy /\ s = <<p.prog, p.dev>> /\ files[s].pid = p.pid
                                     THEN [files[s] EXCEPT !.pid = None] ELSE files[s]]
  /\ UNCHANGED <<net, now, backend, iwd, disk, job, status, past>>

\* A process that is not nic's gets a pid that nic remembers (not at once: pids are given in turn).
StrangerComes ==
  /\ ~Acts("record") /\ \A p \in procs : p.prog # "other"   \* bound: one of them
  /\ \E s \in Slots :
       LET f == files[s]
           pid == IF f.pid # None THEN f.pid ELSE IF f.rec # None THEN f.rec.pid ELSE None
       IN  /\ pid # None /\ At(pid) = {}
           /\ procs' = procs \cup {[pid |-> pid, born |-> Fresh(pid), prog |-> "other", dev |-> None]}
  /\ UNCHANGED <<net, now, backend, files, iwd, disk, job, status, mishaps, calm, past>>

Tick ==
  /\ job = Idle /\ now < MaxTime
  /\ now' = now + 1 /\ net' = Expire(net, now + 1)
  /\ UNCHANGED <<backend, progs, disk, job, status, mishaps, calm, past>>

-----------------------------------------------------------------------------
(* Specification *)

Init ==
  /\ net \in Machines /\ now = 0
  /\ backend \in {"wpa_supplicant", "iwd"}
  /\ procs = {} /\ files = [s \in Slots |-> NoFiles]
  /\ iwd = [profile |-> "user", kept |-> [l \in Links |-> None], held |-> None]
  /\ base = None /\ pending = None /\ applied = None /\ snap = None
  /\ job = Idle /\ status = "fresh" /\ mishaps = 0 /\ calm = 0
  /\ orig = None /\ expected = None /\ unnamed = FALSE /\ mixed = FALSE

Phases == BeginTeardown \/ BeginStage \/ Intend \/ BeginApply \/ Commit \/ Undone \/ Stopped \/ Resume \/ Reverted
Steps == NextLine \/ RunIP \/ Halt \/ Forget \/ Launch \/ Record \/ GiveUp \/ Install \/ Keep \/ Leave \/ Station
Mishaps == StepFails \/ RecordFails \/ KeepFails \/ IWDFails \/ Die \/ ProgramEnds

Next ==
  \/ \E cfg \in Configs : Start(cfg)
  \/ Stop \/ Confirm \/ Revert
  \/ Phases \/ Steps \/ Mishaps
  \/ StrangerComes \/ Tick

Spec == Init /\ [][Next]_vars

-----------------------------------------------------------------------------
(* Properties *)

\* The variables have their types: the machine as ip(8) shows it, the files of nic.
TypeOK ==
  /\ Machine(net)
  /\ now \in 0..MaxTime /\ mishaps \in 0..MaxMishaps /\ calm \in -1..MaxStops
  /\ \A p \in procs : p.pid \in Pids /\ p.prog \in Programs \cup {"other"}
  /\ \A s \in Slots : files[s].pid \in Pids \cup {None}
  /\ iwd.profile \in {"user", "nic"} /\ iwd.kept \in [Links -> {None, "user", "nic"}]
  /\ iwd.held \in {None, "user", "nic"}
  /\ pending \in Configs \cup {None} /\ applied \in Configs \cup {None}
  /\ status \in {"fresh", "applied", "rolledback", "failed", "refused", "stopped", "stopfailed",
                  "reverted", "revertfailed", "dead"}

\* Whoever is told that the network was torn down, rolled back or reverted (main.go:681, 551, 1595) has
\* the machine of before: links, addresses with their lifetimes, routes, rules and masters, and, after
\* a stop or a rollback to nothing, no program of nic's and the user's own Wi-Fi profile. Exempt is
\* what follows a revert that failed or was cut short: it goes on after a failed teardown, and reapplies a
\* configuration without recording it first (main.go:1544-1579); and the profile of which nic lost the only
\* copy, in memory between Install and Keep (wifi.go:168-180).
Truthful ==
  expected # None /\ ~unnamed =>
    /\ net = Expire(expected, now)
    /\ status \in {"stopped", "rolledback"} =>
         /\ \A p \in procs : p.prog = "other"
         /\ orig.profile \in {iwd.profile, "lost"}

\* Lines that teardown can take back any number of times. It cannot a rule, a link that was there before,
\* and a MAC address set in one command with up, down or master (README, NicApply).
Repeatable(cfg) ==
  cfg = None \/ \A i \in DOMAIN cfg.lines :
    LET c == cfg.lines[i].cmd
    IN  IsIP(cfg.lines[i]) => /\ c.op # "rule"
                              /\ c.op = "newlink" => base = None \/ c.dev \notin base.links
                              /\ c.op = "set" /\ ReverseIPCommand(c) # <<>>
                                   => \A k \in DOMAIN c.arg : c.arg[k][1] # "address"

\* Whatever crashes, failures and dead programs went before, `nic stop` succeeds the second time nothing
\* disturbs it (a first one may fail on a pin whose MAC address nic changed, and puts that back), unless it
\* refuses to signal a process it does not know, a line is not Repeatable, or there are static routes to
\* restore, which RestoreState replays while the links are down (main.go:655-684; state.go:386-397).
StopConverges ==
  /\ calm >= 2
  /\ base # None => base.routes = {}
  /\ Repeatable(pending) /\ Repeatable(applied)
  /\ \A s \in Slots : ~Refuses(s)
  => status = "stopped"

\* Two clients never run on one interface (wifi.go:232-234 "lets a subsequent connect start a second
\* supplicant on the same interface"; control.go:106-108).
OneClient ==
  ~mixed => \A p, q \in procs : p.prog = q.prog /\ p.prog # "other" /\ p.dev = q.dev => p = q

\* nic never ends a process it did not start, even if it has a pid that nic recorded (control.go:90-92).
NoStranger == [][\A p \in procs : p.prog = "other" => p \in procs']_vars

\* Undisturbed, an automatic rollback restores the state it captured (README.md:223).
RollbackRestores == mishaps = 0 => status # "revertfailed"
=============================================================================
