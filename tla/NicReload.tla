----------------------------- MODULE NicReload -----------------------------
(***************************************************************************)
(* The daemon and those who talk to it through files in /run/nic and       *)
(* signals (internal/control, main.go 171-286 and 1159-1538): instances of *)
(* the daemon that start, serve and die, reload clients with a request     *)
(* each, and the revert watcher of the change that waits for confirmation. *)
(*                                                                         *)
(* The flocks reload.lock and revert.lock are held exactly by the          *)
(* processes at certain steps, and die with them. Every reload is          *)
(* made with a confirmation timeout. Applying, arming and cancelling one   *)
(* is a step here; NicReconcile and NicRevert look inside.                 *)
(***************************************************************************)
EXTENDS Naturals, Sequences, SequencesExt

CONSTANTS
  Clients,     \* reload commands; also the configurations they reviewed
  Daemons,     \* processes that run `nic --daemon start`; also what they start with
  None,
  SignalCap,   \* of the daemon's signal channel (4 in the code)
  MaxDeaths    \* bound: how many processes are killed

ASSUME CapAssumption == SignalCap \in Nat \ {0}
ASSUME DeathsAssumption == MaxDeaths \in Nat
ASSUME ActorsAssumption ==
  /\ Clients \cap Daemons = {} /\ None \notin Clients \cup Daemons
  /\ "torn" \notin Daemons \cup {None}

\* The contents of the files, and a request in hand with its result.
Requests  == [id : Clients, to : Daemons]
Jobs      == [id : Clients, to : Daemons, ok : BOOLEAN]
Responses == [id : Clients, ok : BOOLEAN]
Outcomes  == [ok : BOOLEAN]
Changes   == [of : Clients, old : Clients \cup Daemons \cup {None}]

\* None stands for a file that does not exist: it is no content.
ASSUME NoneAssumption == None \notin Requests \cup Jobs \cup Responses \cup Outcomes \cup Changes

VARIABLES
  client,    \* client[c]: where the reload command is, or how it ended
  target,    \* target[c]: the instance that client addressed
  daemon,    \* daemon[d]: where the daemon is
  serving,   \* the daemons whose startup is over
  signals,   \* signals[d]: sigChan
  job,       \* job[d]: the request in hand
  pid,       \* nic.pid: None, "torn" (created, not yet written) or a daemon
  request, response, revertResponse,   \* the files of these names
  snapshots, \* reload-*.json, by client
  net,       \* the configuration on the machine
  pending,   \* the change in revert-state.json, with what it replaced
  watcher,   \* where the watcher of that change is
  applied, withdrawn, confirmed,   \* history: of clients
  deaths

files   == <<request, response, revertResponse, snapshots>>
revert  == <<pending, watcher>>
history == <<applied, withdrawn, confirmed>>
vars == <<client, target, daemon, serving, signals, job, pid, files, net, revert,
          history, deaths>>

Unlocked == {"new", "applied", "failed", "refused", "timedout", "dead"}
Starting == {"create", "write", "discard"}
Handling == {"claim", "setup", "apply", "respond", "restore"}

Live(d) == daemon[d] \notin {"new", "dead"}

\* ClaimReload's flock, and revert.lock.
ReloadFree == (\A c \in Clients : client[c] \in Unlocked) /\ \A d \in Daemons : daemon[d] \notin Starting
RevertFree == watcher \notin {"locked", "asked"}

\* DaemonRecord: a torn or stale pid file means that no daemon is running.
Running == {d \in Daemons : pid = d /\ Live(d)}

Init ==
  /\ client = [c \in Clients |-> "new"] /\ target = [c \in Clients |-> None]
  /\ daemon = [d \in Daemons |-> "new"] /\ serving = {}
  /\ signals = [d \in Daemons |-> <<>>] /\ job = [d \in Daemons |-> None]
  /\ pid = None /\ request = None /\ response = None /\ revertResponse = None
  /\ snapshots = {} /\ net = None /\ pending = None /\ watcher = "none"
  /\ applied = {} /\ withdrawn = {} /\ confirmed = {} /\ deaths = 0

\* A full channel loses the signal.
Queued(d, sig) == IF Len(signals[d]) < SignalCap THEN Append(signals[d], sig) ELSE signals[d]
Send(d, sig)   == signals' = [signals EXCEPT ![d] = Queued(d, sig)]
ClientAt(c, p) == client' = [client EXCEPT ![c] = p]
DaemonAt(d, p) == daemon' = [daemon EXCEPT ![d] = p]
Rest(d)        == IF d \in serving THEN "serve" ELSE "startup"

-----------------------------------------------------------------------------
(* requestDaemonReloadLoaded *)

\* ClaimReload; the daemon's record is noted, the reviewed configuration saved.
Claim(c) ==
  /\ client[c] = "new"
  /\ IF ~ReloadFree \/ Running = {}
     THEN ClientAt(c, "refused") /\ UNCHANGED <<target, snapshots>>
     ELSE /\ \E d \in Running : target' = [target EXCEPT ![c] = d]
          /\ snapshots' = snapshots \cup {c} /\ ClientAt(c, "claimed")
  /\ UNCHANGED <<daemon, serving, signals, job, pid, request, response, revertResponse,
                 net, revert, history, deaths>>

WriteRequest(c) ==
  /\ client[c] = "claimed" /\ ClientAt(c, "written")
  /\ request' = [id |-> c, to |-> target[c]] /\ response' = None
  /\ UNCHANGED <<target, daemon, serving, signals, job, pid, revertResponse, snapshots,
                 net, revert, history, deaths>>

Signal(c) ==
  /\ client[c] = "written"
  /\ IF Live(target[c])
     THEN Send(target[c], "hup") /\ ClientAt(c, "wait") /\ UNCHANGED <<request, snapshots>>
     ELSE /\ request' = None /\ snapshots' = snapshots \ {c}
          /\ ClientAt(c, "refused") /\ UNCHANGED signals
  /\ UNCHANGED <<target, daemon, serving, job, pid, response, revertResponse, net, revert,
                 history, deaths>>

\* A client that is told of a failure, or of nothing, withdraws its request.
Withdraw(c) == request' = IF request # None /\ request.id = c THEN None ELSE request

\* Defect: whoever's response it is.
TakeResponse_AnyId(c) ==
  /\ client[c] = "wait" /\ response # None
  /\ ClientAt(c, IF response.ok THEN "applied" ELSE "failed") /\ response' = None
  /\ UNCHANGED <<target, daemon, serving, signals, job, pid, request, revertResponse, snapshots,
                 net, revert, history, deaths>>

TakeResponse(c) ==
  /\ client[c] = "wait" /\ response # None /\ response.id = c /\ response' = None
  /\ \/ response.ok /\ ClientAt(c, "applied") /\ UNCHANGED request
     \/ ~response.ok /\ ClientAt(c, "failed") /\ Withdraw(c)
  /\ UNCHANGED <<target, daemon, serving, signals, job, pid, revertResponse, snapshots,
                 net, revert, history, deaths>>

\* Defect: the request stays where a later signal finds it.
GiveUp_LeavesRequest(c) ==
  /\ client[c] = "wait" /\ ClientAt(c, "timedout")
  /\ withdrawn' = IF request # None /\ request.id = c /\ \A d \in Daemons : job[d] = None
                  THEN withdrawn \cup {c} ELSE withdrawn
  /\ UNCHANGED <<target, daemon, serving, signals, job, pid, files, net, revert, applied,
                 confirmed, deaths>>

\* Two minutes are over.
GiveUp(c) ==
  /\ client[c] = "wait" /\ ClientAt(c, "timedout") /\ Withdraw(c)
  /\ withdrawn' = IF request # None /\ request.id = c
                     /\ ~\E d \in Daemons : job[d] # None /\ job[d].id = c
                  THEN withdrawn \cup {c} ELSE withdrawn
  /\ UNCHANGED <<target, daemon, serving, signals, job, pid, response, revertResponse, snapshots,
                 net, revert, applied, confirmed, deaths>>

-----------------------------------------------------------------------------
(* cmdStart, ClaimDaemon and the end of a daemon *)

\* Defect: a start takes no reload lock.
Launch_NoLock(d) ==
  /\ daemon[d] = "new" /\ DaemonAt(d, "create")
  /\ UNCHANGED <<client, target, serving, signals, job, pid, files, net, revert, history, deaths>>

Launch(d) ==
  /\ daemon[d] = "new"
  /\ DaemonAt(d, IF ReloadFree THEN "create" ELSE "dead")
  /\ UNCHANGED <<client, target, serving, signals, job, pid, files, net, revert, history, deaths>>

\* O_EXCL; a record of a dead process, or none that can be read, is removed.
CreatePid(d) ==
  /\ daemon[d] = "create"
  /\ \/ pid = None /\ pid' = "torn" /\ DaemonAt(d, "write")
     \/ pid # None /\ Running # {} /\ DaemonAt(d, "dead") /\ UNCHANGED pid
     \/ pid # None /\ Running = {} /\ pid' = None /\ UNCHANGED daemon
  /\ UNCHANGED <<client, target, serving, signals, job, files, net, revert, history, deaths>>

WritePid(d) ==
  /\ daemon[d] = "write" /\ pid' = d /\ DaemonAt(d, "discard")
  /\ UNCHANGED <<client, target, serving, signals, job, files, net, revert, history, deaths>>

\* discardStaleReloadArtifacts, but what is addressed to this very process.
Discard(d) ==
  LET mine == request # None /\ request.to = d
  IN /\ daemon[d] = "discard" /\ DaemonAt(d, "startup")
     /\ request' = (IF mine THEN request ELSE None) /\ response' = None
     /\ snapshots' = (IF mine THEN snapshots \cap {request.id} ELSE {})
     /\ UNCHANGED <<client, target, serving, signals, job, pid, revertResponse, net, revert,
                    history, deaths>>

\* reconcileConfig has ended; a failure ends the daemon.
StartupEnds(d) ==
  /\ daemon[d] = "startup"
  /\ \/ /\ DaemonAt(d, "serve") /\ serving' = serving \cup {d} /\ net' = d
        /\ UNCHANGED pid
     \/ /\ DaemonAt(d, "dead") /\ UNCHANGED <<serving, net>>
        /\ pid' = IF pid = d THEN None ELSE pid
  /\ UNCHANGED <<client, target, signals, job, files, revert, history, deaths>>

\* stopManagedConfig, and the release of the pid file.
Exit(d) ==
  /\ daemon[d] = "ending" /\ DaemonAt(d, "dead")
  /\ net' = None /\ pid' = IF pid = d THEN None ELSE pid
  /\ UNCHANGED <<client, target, serving, signals, job, files, revert, history, deaths>>

-----------------------------------------------------------------------------
(* reconcileDaemonStartup and runDaemon: one signal at a time *)

Hear(d, sig) == /\ daemon[d] \in {"startup", "serve"}
                /\ signals[d] # <<>> /\ Head(signals[d]) = sig
                /\ signals' = [signals EXCEPT ![d] = Tail(@)]

HearHup(d) ==
  /\ Hear(d, "hup")
  /\ IF request = None THEN UNCHANGED <<daemon, job>>
     ELSE /\ job' = [job EXCEPT ![d] = [id |-> request.id, to |-> request.to, ok |-> FALSE]]
          /\ DaemonAt(d, "claim")
  /\ UNCHANGED <<client, target, serving, pid, files, net, revert, history, deaths>>

\* Defect: a reload that arrives during the startup is dropped without a word.
TakeRequest_Silent(d) ==
  /\ daemon[d] = "claim" /\ request' = None
  /\ snapshots' = snapshots \ {job[d].id}
  /\ IF d \notin serving THEN DaemonAt(d, "startup") /\ job' = [job EXCEPT ![d] = None]
     ELSE /\ DaemonAt(d, IF job[d].to = d /\ job[d].id \in snapshots THEN "setup" ELSE "respond")
          /\ UNCHANGED job
  /\ UNCHANGED <<client, target, serving, signals, pid, response, revertResponse, net, revert,
                 history, deaths>>

\* The request file, whichever it is by now, is removed, and then the snapshot.
TakeRequest(d) ==
  /\ daemon[d] = "claim" /\ request' = None
  /\ snapshots' = snapshots \ {job[d].id}
  /\ DaemonAt(d, IF d \in serving /\ job[d].to = d /\ job[d].id \in snapshots
                 THEN "setup" ELSE "respond")
  /\ UNCHANGED <<client, target, serving, signals, job, pid, response, revertResponse, net, revert,
                 history, deaths>>

\* SaveAndStartWatcher waits for the revert lock.
SetUp(d) ==
  /\ daemon[d] = "setup" /\ RevertFree
  /\ IF pending # None THEN DaemonAt(d, "respond") /\ UNCHANGED revert
     ELSE /\ DaemonAt(d, "apply") /\ watcher' = "unarmed"
          /\ pending' = [of |-> job[d].id, old |-> net]
  /\ UNCHANGED <<client, target, serving, signals, job, pid, files, net, history, deaths>>

\* reconcileConfig and Arm, or its rollback and Cancel.
Apply(d) ==
  /\ daemon[d] = "apply" /\ DaemonAt(d, "respond")
  /\ \/ /\ net' = job[d].id /\ watcher' = "armed"
        /\ job' = [job EXCEPT ![d].ok = TRUE]
        /\ applied' = applied \cup {<<job[d].id, d>>} /\ UNCHANGED pending
     \/ /\ pending' = None /\ watcher' = "none" /\ UNCHANGED <<net, job, applied>>
  /\ UNCHANGED <<client, target, serving, signals, pid, files, withdrawn, confirmed, deaths>>

\* Defect: the request is kept from one signal to the next.
Respond_KeepsJob(d) ==
  /\ daemon[d] = "respond" /\ DaemonAt(d, Rest(d))
  /\ response' = [id |-> job[d].id, ok |-> job[d].ok]
  /\ UNCHANGED <<client, target, serving, signals, job, pid, request, revertResponse, snapshots, net,
                 revert, history, deaths>>

Respond(d) ==
  /\ daemon[d] = "respond" /\ DaemonAt(d, Rest(d))
  /\ response' = [id |-> job[d].id, ok |-> job[d].ok]
  /\ job' = [job EXCEPT ![d] = None]
  /\ UNCHANGED <<client, target, serving, signals, pid, request, revertResponse, snapshots, net,
                 revert, history, deaths>>

\* Defect: the refusal of a starting daemon outlives the startup.
HearUsr1_Refuses(d) ==
  /\ Hear(d, "usr1") /\ revertResponse' = [ok |-> FALSE]
  /\ UNCHANGED <<client, target, daemon, serving, job, pid, request, response, snapshots, net, revert,
                 history, deaths>>

\* SIGUSR1; a starting daemon refuses.
HearUsr1(d) ==
  /\ Hear(d, "usr1")
  /\ IF d \in serving THEN DaemonAt(d, "restore") /\ UNCHANGED revertResponse
     ELSE revertResponse' = [ok |-> FALSE] /\ UNCHANGED daemon
  /\ UNCHANGED <<client, target, serving, job, pid, request, response, snapshots, net, revert,
                 history, deaths>>

\* restoreSavedSnapshot tears down first and reads the snapshot then.
Restore(d) ==
  /\ daemon[d] = "restore" /\ DaemonAt(d, Rest(d))
  /\ net' = (IF pending = None THEN None ELSE pending.old)
  /\ revertResponse' = [ok |-> pending # None]
  /\ UNCHANGED <<client, target, serving, signals, job, pid, request, response, snapshots, revert,
                 history, deaths>>

HearTerm(d) ==
  /\ Hear(d, "term") /\ DaemonAt(d, "ending")
  /\ UNCHANGED <<client, target, serving, job, pid, files, net, revert, history, deaths>>

-----------------------------------------------------------------------------
(* The watcher (revertPendingState, restoreSnapshot) and nic confirm *)

\* The timeout is over, or the daemon died before arming.
WatcherLocks ==
  /\ \/ watcher = "armed"
     \/ watcher = "unarmed" /\ \A d \in Daemons : daemon[d] # "apply"
  /\ watcher' = "locked"
  /\ UNCHANGED <<client, target, daemon, serving, signals, job, pid, files, net, pending,
                 history, deaths>>

WatcherAsks ==
  /\ watcher = "locked"
  /\ IF Running # {}
     THEN /\ \E d \in Running : Send(d, "usr1")
          /\ revertResponse' = None /\ watcher' = "asked" /\ UNCHANGED <<net, pending>>
     ELSE /\ net' = pending.old /\ pending' = None /\ watcher' = "none"
          /\ UNCHANGED <<signals, revertResponse>>
  /\ UNCHANGED <<client, target, daemon, serving, job, pid, request, response, snapshots,
                 history, deaths>>

WatcherAnswered ==
  /\ watcher = "asked" /\ revertResponse # None /\ revertResponse' = None
  /\ watcher' = "none" /\ pending' = IF revertResponse.ok THEN None ELSE pending
  /\ UNCHANGED <<client, target, daemon, serving, signals, job, pid, request, response, snapshots,
                 net, history, deaths>>

\* 90 seconds without an answer, from a daemon that is busy or gone; the
\* change stays pending.
WatcherGivesUp ==
  /\ watcher = "asked" /\ revertResponse = None
  /\ \A d \in Running : daemon[d] # "serve"
  /\ watcher' = "none"
  /\ UNCHANGED <<client, target, daemon, serving, signals, job, pid, files, net, pending,
                 history, deaths>>

\* Confirming before the change is armed is NicRevert's subject.
Confirm ==
  /\ pending # None /\ watcher \in {"armed", "none"}
  /\ confirmed' = confirmed \cup {pending.of}
  /\ pending' = None /\ watcher' = "none"
  /\ UNCHANGED <<client, target, daemon, serving, signals, job, pid, files, net, applied,
                 withdrawn, deaths>>

-----------------------------------------------------------------------------
(* Operators, and processes that are killed *)

\* nic stop, or a raw SIGHUP (bound: to a daemon that has none to handle).
Poke(d) ==
  /\ d \in Running /\ signals[d] = <<>>
  /\ \E sig \in {"hup", "term"} : Send(d, sig)
  /\ UNCHANGED <<client, target, daemon, serving, job, pid, files, net, revert, history, deaths>>

KillClient(c) ==
  /\ client[c] \notin Unlocked /\ ClientAt(c, "dead")
  /\ deaths < MaxDeaths /\ deaths' = deaths + 1
  /\ UNCHANGED <<target, daemon, serving, signals, job, pid, files, net, revert, history>>

KillDaemon(d) ==
  /\ Live(d) /\ DaemonAt(d, "dead")
  /\ deaths < MaxDeaths /\ deaths' = deaths + 1
  /\ job' = [job EXCEPT ![d] = None]
  /\ UNCHANGED <<client, target, serving, signals, pid, files, net, revert, history>>

ClientStep(c) == Claim(c) \/ WriteRequest(c) \/ Signal(c) \/ TakeResponse(c)

DaemonStep(d) ==
  \/ CreatePid(d) \/ WritePid(d) \/ Discard(d) \/ Exit(d)
  \/ HearHup(d) \/ TakeRequest(d) \/ SetUp(d) \/ Apply(d) \/ Respond(d)
  \/ HearUsr1(d) \/ Restore(d) \/ HearTerm(d)

WatcherStep == WatcherLocks \/ WatcherAsks \/ WatcherAnswered \/ WatcherGivesUp

Next ==
  \/ \E c \in Clients : ClientStep(c) \/ GiveUp(c) \/ KillClient(c)
  \/ \E d \in Daemons : DaemonStep(d) \/ Launch(d) \/ StartupEnds(d) \/ Poke(d) \/ KillDaemon(d)
  \/ WatcherStep \/ Confirm

Spec == Init /\ [][Next]_vars

\* Processes are scheduled and timeouts end; a startup ends (its exchanges and
\* commands are bounded). Nobody is obliged to start, stop, confirm or give up.
FairSpec ==
  /\ Spec /\ WF_vars(WatcherStep)
  /\ \A c \in Clients : WF_vars(ClientStep(c))
  /\ \A d \in Daemons : WF_vars(DaemonStep(d)) /\ WF_vars(StartupEnds(d))

-----------------------------------------------------------------------------
(* Properties *)

ClientTypes ==
  /\ client \in [Clients -> Unlocked \cup {"claimed", "written", "wait"}]
  /\ target \in [Clients -> Daemons \cup {None}]

DaemonTypes ==
  /\ daemon \in [Daemons -> {"new", "dead", "startup", "serve", "ending"} \cup Starting \cup Handling]
  /\ \A d \in Daemons : IF daemon[d] \in {"claim", "setup", "apply", "respond"}
                        THEN job[d] \in Jobs
                        ELSE job[d] = None
  /\ pid \in Daemons \cup {None, "torn"} /\ serving \subseteq Daemons

SignalTypes ==
  \A d \in Daemons : /\ Len(signals[d]) <= SignalCap
                     /\ ToSet(signals[d]) \subseteq {"hup", "usr1", "term"}

FileTypes ==
  /\ request \in Requests \cup {None} /\ snapshots \subseteq Clients
  /\ response \in Responses \cup {None}
  /\ revertResponse \in Outcomes \cup {None}

ChangeTypes ==
  /\ net \in Clients \cup Daemons \cup {None}
  /\ pending \in Changes \cup {None}
  /\ watcher \in {"none", "unarmed", "armed", "locked", "asked"}

HistoryTypes ==
  /\ applied \subseteq Clients \X Daemons /\ withdrawn \cup confirmed \subseteq Clients
  /\ deaths \in 0..MaxDeaths

\* Types; the daemon has a request in hand exactly while it serves one.
TypeOK == /\ ClientTypes /\ DaemonTypes /\ SignalTypes
          /\ FileTypes /\ ChangeTypes /\ HistoryTypes

\* "ClaimDaemon atomically claims the daemon PID file" (control.go:124): one
\* daemon at a time is past its claim, and the file names it. The claim itself
\* is not atomic (create, then write); the reload lock around it makes it so.
OneDaemon == \A d, e \in Daemons :
  daemon[d] \in {"discard", "startup", "serve", "ending"} \cup Handling
    => pid = d /\ (e # d => daemon[e] \notin {"write", "discard", "startup", "serve", "ending"} \cup Handling)

\* An answer is true: success means that the instance it addressed applied what
\* the client reviewed, an error that nobody did or ever will
\* (main.go:1517-1520).
ToldTheTruth == \A c \in Clients :
  /\ client[c] = "applied" => <<c, target[c]>> \in applied
  /\ client[c] = "failed" => \A d \in Daemons : <<c, d>> \notin applied

\* "If the daemon never claimed this request, make sure a later raw HUP cannot
\* apply it" (main.go:1204); nor does another instance than the one addressed.
NeverApplied == \A c \in Clients, d \in Daemons :
  <<c, d>> \in applied => c \notin withdrawn /\ d = target[c]

\* Without a client that gave up or died before, a delivered request is answered
\* as long as the daemon lives, even if it has to wait for a watcher that waits
\* for the daemon. (Otherwise the daemon may have read the earlier request and
\* then remove this one: main.go:1496.)
Answered == \A c \in Clients :
  client[c] = "wait" ~> (client[c] # "wait" \/ "timedout" \in Range(client) \/ ~Live(target[c])
                           \/ deaths > 0)

\* A change that nobody confirms does not stay: it is undone at the latest when
\* its watcher gives up, if no process is killed ("If you don't run nic confirm
\* within the timeout ... the previous state is automatically restored",
\* README.md:223).
Settles == \A c \in Clients :
  (pending # None /\ net = c /\ watcher = "armed") ~>
     (net # c \/ c \in confirmed \/ deaths > 0)
=============================================================================
