# nic: verification development

TLA+ models of nic, a network interface configurator (one Go binary: `nic
start|stop|reload|restart|confirm|...`, optionally a daemon), checked with TLC and,
for nearly all their safety properties, proved with TLAPS (two remain model-checked only, see Proofs). Line numbers refer to `src/`.

## The system

| component | state it keeps | operations | hard part |
|---|---|---|---|
| reconciliation (`main.go` 463-735) | `base-state.json`, `pending-config.json`, `applied-config.json` in `/run/nic`; the machine | `ensureBaseline`, `reconcileConfig`, `rollbackFailedApply`, `teardownConfig`, `stopManagedConfig` | process death and partial failure between any two steps |
| automatic rollback (`internal/revert`, `main.go` 1131-1157, 1540-1596) | `revert-state.json`, `revert-config.json`, `revert-armed`, `confirmed`, `revert-watcher.pid`, the flock `revert.lock` | `SaveAndStartWatcher`, `Arm`, `Cancel`, `Confirm`, `WatchAndRevert`, `restoreSavedSnapshot` | several processes, a timeout, a confirmation racing both |
| daemon and control (`internal/control`, `main.go` 1170-1214, 1414-1538) | `nic.pid`, `reload.lock`, reload request/response, revert response | `ClaimDaemon`, `ClaimReload`, `SignalDaemon`, `WaitResponse`, the signal loop | lost, late and stale requests and answers |
| applying and taking back (`main.go` 288-412, 573-649, 739-969, `internal/alias`) | none of its own; changes the machine command by command | `applyConfig`, `teardownConfig`, `reverseIPCommand`, `validateRollbackSafety`, `Resolve`, `ResolveInTokens` | inverses that meet a machine which is not quite as the command left it |
| state (`internal/state`) | none; snapshots of links, addresses, routes, rules, resolv.conf | `Capture`, `SaveState`, `RestoreState` | the kernel couples links, addresses and routes |
| DHCP (`internal/dhcp`) | one session per interface and family, leases in `/run/nic` | start, renew, rebind, expire, stop, `cleanupDiskLeases` | renewal goroutines racing stop; transitions that fail half way |
| DHCP exchanges (`v4_client.go`, `v6_client.go`) | one exchange, a lease | `runDHCPv4`, `runDHCPv6`, renew, rebind | lost, late, duplicated and foreign answers |
| DNS (`internal/dns`) | static and lease name servers, `resolv.conf`, its guard | `ConfigureStatic`, `Apply`, `SetLease`, `Remove`, `Capture`/`Restore` | policy and file must agree after failures |
| executor (`internal/executor`) | the command context | `UseCommandContext`, `Run*` | scopes left out of order |
| Wi-Fi (`internal/wifi`), external DHCP clients (`external.go`) | pid files and process records, the iwd profile it replaced | `Connect`, `Disconnect`, `startExternal`, `stopExternal` | processes that end or are replaced behind nic's back |
| configuration, diff, colours, status | none | parsing, printing | pure |

Interaction: every command and the daemon's signal loop end up in
`reconcileConfig` or `stopManagedConfig`, which call state, DHCP, DNS and Wi-Fi. The
rollback protocol wraps `reconcileConfig` between `SaveAndStartWatcher` and `Arm`; its
watcher is a separate process that talks to the others only through files, signals
and the flock. With a daemon, reloads and reverts are requests in files plus a signal.

What makes each component correct is stated in the section on its module; what is hard to
test about it is listed, line by line, under `hazards` in `PROJECT.json`.

## Modules

| module | models | kind |
|---|---|---|
| `NicManagedNetwork` | what nic promises about the machine | abstract specification |
| `NicReconcile` | `main.go` 463-684 | detailed specification; implements the former |
| `NicReconcileProofs` | theorems about `NicReconcile` | TLAPS |
| `NicTrial` | what `nic reload` promises of a change that has to be confirmed | abstract specification |
| `NicRevert` | `internal/revert`, `main.go` 1131-1157, 1540-1596 | concurrent protocol; implements the former |
| `NicRevertProofs` | theorems about `NicRevert` | TLAPS |
| `NicDhcp` | the DHCP sessions of one interface: `native.go`, `apply.go`, `dhcp.go`, the lease files | goroutines and main |
| `NicDhcpProofs` | theorems about `NicDhcp` | TLAPS |
| `NicReload` | `internal/control`, daemon start and signal loop (`main.go` 171-286, 1170-1214, 1424-1538), the watcher's talk with the daemon | processes, files, signals |
| `NicReloadProofs` | theorems about `NicReload` | TLAPS |
| `NicResolver` | `internal/dns` as the configuration steps and the renewal loops use it | shared state under a mutex |
| `NicResolverProofs` | theorems about `NicResolver` | TLAPS |
| `NicKernel` | what `ip` and the kernel do to links, addresses, routes, rules | external; operators |
| `NicRollback` | names, accepted commands and their inverses, snapshots and the commands that replay them | operators |
| `NicApply` | `main.go` 288-684, 1540-1596 command by command, `internal/wifi`, `external.go` | composes the two former with programs and files |
| `NicApplyProofs` | theorems about `NicApply` | TLAPS |
| `NicExchange` | `v4_client.go`, `v6_client.go` | clients, servers, a network |
| `NicExchangeProofs` | theorems about `NicExchange` | TLAPS |
| `MC...` | instances for TLC | |

The same code is seen at three distances. `NicReconcile` takes a configuration as a set
of effects and asks about crashes; `NicApply` runs the same functions one command at a time and asks
whether the commands do what the other takes for granted; `NicRevert` and `NicReload` take a
whole reconciliation as one step and ask about processes.

### NicReconcile

`base`, `pending` and `applied` are the three files, as their content: a configuration,
or for `base` the set of configurations whose effects the snapshot captured. The machine
is two sets of configurations: `tables` (what `RestoreState` flushes and
replays) and `objects` (what only `teardownConfig` removes). `pc` is the next step of the
invocation under way and `job` its local variables; one action is one call that may
fail or be the last before the process dies. `applyConfig` runs one command at a time
(`RunCommand`), so a crash or failure finds any part of a configuration on the machine.
The module models one invocation at a time; several at once are `NicRevert`'s subject.

`Faulty` says which kinds of call may fail, `MaxFaults` how many failures and deaths may
happen in a behaviour. The properties:

- `BaselinePristine`: the snapshot to return to was never taken of a machine with leftovers;
- `EffectsRecorded`: what is on the machine is named by pending or applied, beside a baseline;
- `NoAccumulation`: a configuration's commands never run on top of another's effects;
- `ReportsTruth`: success, clean rollback and stop leave exactly what they report;
- `NeverRefused`: crashes alone never lead to `ensureBaseline`'s refusal;
- `PromiseSpec`: the steps implement `NicManagedNetwork` (`kept` is the existence of the
  baseline, `effects` the union of the two layers, `reported` derived from the outcome);
- `RetrySucceeds`: starting again, and stopping when told to, always ends in a success.

Bounds: two configurations are the attempted and the previous one, the only two that
`reconcileConfig` knows of; three failures allow a crash during the recovery from a crash
during a rollback. In `reconcile_crash` every call may fail except the removal of files
in `/run/nic`. `reconcile_retry` lets removals fail too. Fairness there: the invocation's own
steps are weakly fair (it is a running process and bounded calls); `Retry` and `Obey` are
strongly fair, which is the operator's patience and not the code's, and is why the
property is worded as "an operator who retries succeeds".

### NicRevert

One changer and one watcher process per change, plus a confirmer and `nic stop`. The lock
is not a variable: a flock is held exactly by the processes between `acquireLock` and
`releaseLock`, and dies with them, so `LockFree` reads it off their positions. A
watcher's look at the files and its look at the parent are separate actions, as are the
test and the write in `Arm`, and marker, kill and cleanup in `Confirm`. `reconcileConfig`
is one span with the network `Mixed` in between and four outcomes. `fate` and the history
variables `early` and `stopped` serve the properties:

- `OneWriter`: two processes never change the network at once;
- `Guarded`: a change that is neither confirmed nor undone has its own snapshot on disk and
  a live watcher on duty;
- `KeptHolds`: a confirmed change is never undone;
- `RevertRestores`: a revert brings back what that change had captured;
- `Unattended`: without any operator, a change is confirmed, undone or discarded in the end;
- `TrialSpec`: the steps implement `NicTrial`. One change at a time is on trial, and commands run only
  then, but for those of `nic stop`; a change is kept only if the machine runs it or was stopped, undone
  only to the machine it found, and what became of it does not alter. A change is on trial (`OnTrial`)
  while its snapshot is the pending one and nobody has decided; `Verdict` says what became of
  it. A stop does not end a trial: that is the first of the known weaknesses below.

All but the type invariant hold only while no change was confirmed before it was armed
(`early = {}`, in `NicTrial` the absence of `void`); that case is the finding `revert_early`. Fairness: running processes are
scheduled and the timeout ends. A watcher competes for the lock with finitely many
holders, so weak fairness suffices.

Assumptions: no daemon is running; `nic start` and `--no-rollback` changes, which take no
lock at all, are not run meanwhile; watchers are killed only by `stopWatcher`;
`stop` is run between changes; `cleanupPendingFiles` is one step. The changer may be killed at
any of its steps (`Anywhere`).

Known weaknesses. The run `revert_early` shows that a confirmation which arrives during the apply
ends in a torn-down network. Three more have no run:

- `cmdStop` (main.go:694-723) leaves a pending revert alone, and its watcher applies the
  previous configuration again after the stop;
- `changeConfigurationLoaded` calls `Cancel` after every error of `reconcileConfig`
  (main.go:1145), also when nothing was restored, and so discards the snapshot that could restore
  it, although revert.go:150-151 says "restored its predecessor itself";
- the unarmed watcher looks for the arm file and then for its parent (revert.go:263-266), and
  a parent that arms and exits in between is taken for one that died, so its change is
  undone at once.

### NicDhcp

Two sessions, `v4` and `v6`, of one interface. `at[s]` is where a session's goroutine is:
waiting, in an exchange with a server, or in one of the steps of a lease transition
(`addr`, `route`, `dns`, `commit`, `save`, or `undo` after a failure). The main goroutine
is the list `todo` of the calls it has left, each with its jobs (`StopAll` stops both sessions
and sweeps the lease files, `Start` stops sessions and starts one), and `mode` says whether it runs a one-shot start, the daemon's startup, the daemon,
or a shutdown that arrived during startup. An exchange is its outcome: a lease out of
`Offers`, nothing, or a refusal. Time is the phase of a lease (`held`, `due`, `expired`).

- `ConfiguredAsLeased`: at rest, addresses, route and name servers are those of the lease held;
- `Findable`: what no session looks after is named by a lease file;
- `StoppedClean`: `StopAll` leaves no session, address or lease file, whatever was in flight;
- `Paced`: the renewal loop neither spins nor sleeps for ever;
- `LeaseRecovered`, `MainReturns`: a lost lease is asked for until there is one; joining
  a session ends.

Known weakness: `Start` (dhcp.go:22) stops both sessions of the interface and starts DHCPv4 only, so a
`dhcp` line after a `dhcpv6` line of the same interface ends the DHCPv6 session for good. And two
`dhcp` lines for one interface, without a daemon, leave two addresses and one lease file: the
second session does not know the first and overwrites its file, so nobody finds the first address
again. Attempting the proof of `Findable` for configurations of every shape brought this up; such a
session is in `lost` from then on.

Bounds: `dhcp_v4` runs the v4 session with four leases (another address, router and list of
servers, and none of the latter) and two failures or crashes; `dhcp_both` runs both
sessions with a DHCPv6 lease of two interchangeable addresses that a renewal may withdraw, two lines
for one session, and one failure, for `ConfiguredAsLeased` and `StoppedClean` only, the latter checked there alone. Two leases are the old and the new one of a transition, the
most that the code handles at once.

Fairness: session and main steps are weakly fair. Releasing is strongly fair: a cancelled
session's `select` (native.go:190-195) chooses at random between its context and a
timer that is due, so it may lose any number of times but not always.

Assumptions: calls whose error the code ignores succeed, except the writing of lease files and of
resolv.conf (a session whose lease file could not be kept up, or was overwritten, is in `lost` and is
exempted);
`ip route replace` leaves one default route of nic's metric; the renew and rebind phases are one.

### NicReload

Reload clients, instances of the daemon, and the watcher of the change that waits for confirmation.
A client or daemon is its position (`client[c]`, `daemon[d]`); the files in `/run/nic` are
variables (`request`, `response`, `revertResponse`, `pid`, `snapshots`), and so is the
signal channel of each daemon. The two flocks are read off the positions. Every
client's request stands for itself and for the configuration it reviewed, so that `applied`
can say which daemon applied what.

- `OneDaemon`: one daemon at a time is past its claim of `nic.pid`. The claim itself creates the file
  and writes it later, and takes an unwritten file for a stale one; only the reload
  lock around it (main.go:183) makes it safe, which the mutant without that lock shows;
- `ToldTheTruth`: a client that hears of success or failure hears of its own request;
- `NeverApplied`: a request that was withdrawn in time is never applied, and none by another
  instance than the one it addressed;
- `Answered`: the daemon answers, although its handler waits for `revert.lock`, which the watcher
  holds while it waits for the daemon;
- `Settles`: a change that nobody confirms is undone.

Bounds: `reload` has two clients, two daemons and one killed process, in every interleaving, with
symmetry (a third client would meet the same files: requests are serialized and the
files hold one). `reload_live` has one daemon and kills nobody. Fairness: running processes
are scheduled, timeouts end, a startup ends. Nobody is obliged to start, stop, confirm or give up.

`Answered` is stated for behaviours in which no client gave up or died before: the daemon reads a
request and removes whatever is there a moment later (main.go:1490-1496), which may be the
next client's. `Settles` is stated without killed processes: when the daemon dies after
the watcher has asked it, nobody restores. A third weakness: the watcher gives up after 90
seconds, but its signal stays queued behind the handler that it had to wait for, and the
daemon tears the network down later even if the change was confirmed meanwhile, which
revert.go:300-301 ("confirmation either already removed the pending state or is too
late") excludes.

Assumptions: files other than `nic.pid` are replaced atomically and their writes succeed;
applying, arming and cancelling are one step (`NicReconcile` and `NicRevert` look inside);
watchers are not killed; raw signals are sent to a daemon that has none queued.

### NicResolver

`static`, `leases` and `active` are the `managedResolver`; `file` and `guarded` are
resolv.conf and its immutable flag; `held` is what the sessions' current leases offer. `resolverMu`
makes each call of the package one step, with its failures: `chattr -i` fails, the write
fails and leaves the file as it was or torn, `chattr +i` fails (ignored after a write, an
error in `Restore`). Main's `pc` walks through `reconcileConfig`,
`rollbackFailedApply`, `stopManagedConfig` and `restoreSavedSnapshot`, of which only the steps that touch the
policy are kept, and sessions renew between any two of them.

- `InForce`: after a success, the file shows the recorded configuration's servers or, without
  any, those of the leases held now;
- `Pristine`: the baseline is the file that was there before nic, and that file is back,
  with its protection, when nic has forgotten the baseline.

`InForce` exempts a revert during which a session renews between `CaptureManagedState` and
`RestoreManagedState` (main.go:1572-1588): that renewal's servers are overwritten by the
captured policy and come back with the next renewal only. On a machine with `chattr`
but without resolv.conf, `chattr -i` fails (dns.go:379) and with it every write and every
restoration; the model has such machines, and the operations then report errors.

Bounds: two sources, one static list or none, two lists of lease servers or none, two
failures or deaths. Lists are sets: their order and normalisation are not modelled.

### NicKernel, NicRollback, NicApply

`NicKernel` is a machine as `ip` shows it: links with their state, MAC address, mtu and master;
IPv4 addresses with expiry; static routes; policy rules. It has what couples them: a link that
goes down, or loses its last address, loses its routes; a route needs a link that is up and a
gateway that is reachable; a deleted link takes its addresses along; a tunnel refuses a new MAC
address. Errors are the classes that nic tells apart in a message (`exists`, `missing`, `refused`).
One `ip link set` is one request: of several settings of a kind the last one counts (`LastOf`).

`NicRollback` translates what nic computes: resolution of aliases and pins (which stops at the first pin it
cannot find, alias.go:43-49, and leaves any of the others unresolved, since they are a map), the check that a
configuration can be taken back, the inverse of a command, the snapshot, and the seven stages of
`RestoreState` with, for each command, what becomes of its error.

`NicApply` runs those commands. `job` is the operation under way: its `plan` is the sequence of
phases still ahead (tear down, restore stage by stage, apply, record), `lines` the lines of the
current phase that have not been begun (a line of the configuration, an inverse, what is restored of one
link), `todo` the steps left of the line in hand, one command each, and `err` the joined errors. A step that fails is noted,
skipped, or ends the apply and begins the rollback, as the code does for that call. Steps also start
and stop `wpa_supplicant`, `iwctl` and `dhclient`: `procs` are the processes with pid and start
time, `files` nic's pid files and process records. `iwd` is the profile on disk, the copy of the user's that nic
keeps in a record, and the one it holds in memory between replacing the profile (`Install`, wifi.go:350) and
writing the record (`Keep`, 177). A `Keep` or a connection that fails puts the profile back, which may fail as well; a death in
between loses it.
Programs end by themselves, with or without their pid file, and a foreign process may come to
have a pid that nic remembers.

- `Truthful`: when nic reports that it tore down, rolled back or reverted, the machine is the
  one from before, with address lifetimes running on, and after a stop or a rollback to nothing no
  program of nic's runs and the user's Wi-Fi profile is back, if nic still has it;
- `StopConverges`: whatever happened before, the second undisturbed stop in a row succeeds;
- `OneClient`: an interface never has two supplicants or two DHCP clients;
- `NoStranger`: a process that nic did not start is never ended;
- `RollbackRestores` is violated (`restore_routes`): without any fault, the rollback of a configuration
  with a default route fails, because `RestoreState` replays routes (state.go:384-397)
  before it sets the links up (416-430). `RouteLines` also replays a default route before the
  host route that its gateway may need, although the comment at 384-385 says otherwise.

Exemptions. `Truthful` exempts what follows a revert that failed or was cut short (`unnamed`):
`restoreSavedSnapshot` goes on after a failed teardown and reapplies a configuration without
recording it as pending (main.go:1544-1579), so nothing names what it left. It also exempts the Wi-Fi profile
once nic has lost the only copy (`orig.profile` is `"lost"`, the next weakness).
`StopConverges` exempts

- a slot that `Refuses`: the pid file names a process nic does not know, or an external
  client's record has neither a process nor a pid file (external.go:125). nic then refuses for ever,
  on purpose in the first case;
- lines that are not `Repeatable`: a rule (`ip rule del` of an absent rule is not among
  `isBenignTeardownError`'s messages), a link that existed before nic (`link add` is skipped at
  main.go:385, its inverse deletes the link all the same, 778-782), and a MAC address set in one command with
  up, down or master (its inverse sets it again, and a pin by the old address then fails).
  All three make every later stop fail after one that failed half way;
- a baseline with static routes. `RestoreState` replays them (state.go:386-397) while all links are still down
  (333, 416-430), the kernel refuses, and so every stop, and with it every later start, fails for good. It is the defect
  of `restore_routes` again. One of the two machines of `apply` has such a route, and
  without the exemption the run violates `StopConverges` there.

`OneClient` exempts what follows a launch that gets the pid named by a record which should have been removed
(`mixed`). The removal of dhclient's files ignores errors (external.go:165-166). If it fails, the next record cannot
be written either, and the kernel gives the new client the old one's pid, then record and pid file name one
process by two start times; the next halt believes the record, finds nobody, and forgets both, and the next
start launches a second client. It takes three faults, so the run (one fault) never gets there; the proof of
`OneClient` for any number of faults brought it up.

Known weakness: the user's Wi-Fi profile can be lost. `installIWDProfile` replaces it (wifi.go:350) before
`connectIWD` writes the record with its content (177). If nic dies in between, `Disconnect` finds no record, and
`nic stop` reports success with nic's profile, and its passphrase, in place, although the README says that
"WiFi connections therefore do not linger" (README.md:226-227) and the changelog lists the failure to restore
profiles as fixed (CHANGELOG.md:62). The invariant `job = Idle /\ status = "stopped" => iwd.profile = "user"`, added
to `apply.cfg`, is violated so, by one start, one death and one stop. The same happens if
writing the record fails and then putting the profile back fails.

Known weakness: two `wifi` lines of one configuration on two interfaces, with iwd, share one profile
(wifi.go:332-354 saves per interface what is there, which for the second is nic's own), so taking
them back in the wrong order leaves nic's profile instead of the user's. `TypeOK` therefore does not say that a kept
profile is the user's, and no configuration of the run has two such lines.

Assumptions on the constants, which TLC evaluates and the proofs use: a machine has nothing without its link
and finitely many addresses and rules (`MachinesAssumption`); a configuration is what the parser lets through, a
sequence of lines of known kinds that name links, aliases or pins where a link is expected
(`ConfigsAssumption`, config.go:194-400); the names of links are a finite set.

Other assumptions and bounds: the IPv6 half of state and rules repeats the IPv4 half and is left out,
as are the resolver (`NicResolver`), loopback setup and the fallback file of `nic stop`; one
wireless link, one backend per behaviour (so that `Disconnect` may leave out the iwd part after a failed halt, which
wifi.go:201-229 runs: one of the two always finds nothing to do); of the external clients one with a pid file (dhcpcd is
stopped by a command of its own); a program's pid file is written before its parent exits; a
pid is not reused between a launch and its record; calls whose error the code ignores succeed. The clock moves between operations.
`apply.cfg` has two machines, without and with a static route, and four configurations (a bridge over an aliased link; two pinned links, of which the MAC address of one
changes; Wi-Fi with an external client and a route; one that must be refused), one mishap (a
failed step, a death of nic or of a program), one foreign process and pids up to symmetry: a
mishap at any step followed by undisturbed operations is what every property asks about.
`restore_routes.cfg` has the configuration with a default route, and no mishap at all.

### NicExchange

The exchanges between the native clients and the servers of a network that loses, duplicates,
delays and reorders: an answer stays in `net` for ever and may be heard any number of times or
never. `ex[c]` is a client's exchange (discover or solicit, request, renew, rebind) with
transaction id, attempt and whether the attempt's time is up; `lease[c]` is the lease with the
age that `remainingV6Address` and the deadlines subtract. Which answers reach a socket
(`Reaches`) is separate from which are taken (`Mine`, `FromServer`), and `PassOver` says what
becomes of the others: `doSolicit` and `doRequestV6` spend an attempt on them, a DHCPv4 renewal fails,
everything else reads on. The servers are external and share one record of bindings.

- `Entitled`: a client uses an address only while, and only as long as, the servers have it
  bound to that client; so two clients never use the same one;
- `Ends`: every exchange ends, however many other messages arrive meanwhile;
- `TypeOK` includes that no lifetime falls below zero, where the code's would wrap.

Fairness: the clock runs, and a read returns at its deadline. Nothing else is fair: servers may be
silent for good. Bounds: two clients and two addresses (a third client would be one more
receiver of answers for others), one server (servers share
their record, so which of them answers makes no difference to `Entitled`;
the same instance with two servers also passes, 2.6 million states, but takes too long for every day), three exchanges and three answers in a
behaviour: an acquisition, whose two answers may come late, and a renewal, or two acquisitions that
meet. Lifetime and grace are longer than the two attempts. Worlds are DHCPv4, DHCPv6 on one
host (shared DUID and port) and on two. The bound on exchanges is on those of all clients together
(`Begun`).

Assumptions: transaction ids of one client differ, those of two clients may coincide;
messages that do not parse count as lost; T1, T2 and preferred lifetimes are left out; a server
leaves an address alone for a grace period after its binding ended, because the client counts
its lease from the arrival of the answer (`AcquiredAt`) and not from the request's sending, as RFC
2131 has it; a release and the removal of the address are one step (the code sends the release
first, native.go:416-424, and leaves a moment in which the server may give the address away).
Known weakness: every DHCPv6 exchange listens on `[::]:546` (v6_client.go:54, 321), so two
interfaces of one host cannot have exchanges at once and the second fails.

## Runs

| run | asks | distinct states |
|---|---|---|
| `reconcile_crash` | crashes and any failing call but removals, at any step of starts, reloads and stops | 4,954 |
| `reconcile_retry` | every failing call; an operator who goes on succeeds | 10,852 |
| `revert` | two reloads, watchers, confirmation and stop in every interleaving | 104,694 |
| `revert_early` | violation: a confirmation during the apply ends in a torn-down network | 167 |
| `dhcp_v4` | one session with failures, crashes, refusals, expiry and shutdown | 205,229 |
| `dhcp_both` | both sessions of an interface, or two lines for one; DHCPv6 leases that change | 907,544 |
| `resolver` | the policy, the file and its protection while sessions renew | 598,396 |
| `reload` | two clients and two daemons, requests and answers of each kept apart | 1,597,856 |
| `reload_live` | requests are answered and unconfirmed changes undone | 43,167 |
| `apply` | commands, programs and reports with one mishap anywhere | 2,184,958 |
| `restore_routes` | violation: a rollback cannot replay a default route | 436 |
| `exchange` | answers lost, late, repeated or for others | 774,276 |

A violating run stops at its counterexample. Every other run explores its instance completely.

## Proofs

Every theorem is about `Spec`, without fairness, and holds for every value of the constants that the
named assumptions admit. None of the bounds of the runs is needed: `MaxFaults`, `MaxDeaths`, `MaxExchanges` and the
like are arbitrary. In no module are the properties inductive; each proof module defines an
inductive invariant `IInv`, checked with TLC first, with one lemma per action that it is kept, and
derives the properties from it.

| module | theorem | property |
|---|---|---|
| `NicReconcileProofs` | `TypeCorrect`, `BaselineIsPristine`, `EffectsAreRecorded`, `NothingAccumulates`, `ReportsAreTrue`, `StartIsNeverRefused`, `Implements` | `TypeOK`, `BaselinePristine`, `EffectsRecorded`, `NoAccumulation`, `ReportsTruth`, `NeverRefused`, `PromiseSpec` |
| `NicRevertProofs` | `TypeCorrect`, `SingleWriter`, `AlwaysGuarded`, `ConfirmedIsFinal`, `RevertsToItsSnapshot`, `ImplementsTrial` | `TypeOK`, `OneWriter`, `Guarded`, `KeptHolds`, `RevertRestores`, `TrialSpec` |
| `NicReloadProofs` | `TypeCorrect`, `SingleDaemon`, `TrueAnswers`, `WithdrawnForGood` | `TypeOK`, `OneDaemon`, `ToldTheTruth`, `NeverApplied` |
| `NicExchangeProofs` | `TypeCorrect`, `OnlyWhatIsBound` | `TypeOK`, `Entitled` |
| `NicResolverProofs` | `TypeCorrect`, `NeverLost`, `ShowsWhatIsApplied` | `TypeOK`, `Pristine`, `InForce` |
| `NicApplyProofs` | `ApplyTypes`, `ApplyOneClient`, `ApplyNoStranger` | `TypeOK`, `OneClient`, `NoStranger` |
| `NicDhcpProofs` | `TypeCorrect`, `LeavesAsLeased`, `LeavesARecord`, `RetriesWhatIsDue`, `LeavesNothing` | `TypeOK`, `ConfiguredAsLeased`, `Findable`, `Paced`, `StoppedClean` |

The inductive invariants themselves are the theorems `Invariance`, `Orderly`, `InOrderOfTrial`, `OnePlace`, `AnswersInTime`,
`Accounted`, `AccountsForLeases` and `ApplyInOrder`.

**NicReconcile.** What is on the machine at a step depends on which of the earlier steps failed.
`IInv` adds, per step of `pc`, what the job's locals say of the files and the machine (for
instance: from `intent` on, the machine carries nothing but the job's configuration; after a teardown
without error, its objects are gone). `SafeStep` collects the actions; `Implements` maps each to
a step or a stutter of `NicManagedNetwork`. Assumption for all but the types: `"clear" \notin Faulty`.
With a failing removal of `pending-config.json` at main.go:546 followed by a failing rollback, an effect can be
left that neither file names; that needs two failures at once and is listed as a hazard. `NeverRefused`
also needs `"unlink"` to be absent.

**NicRevert.** `Guarded` alone says nothing of a changer half way, and a crash makes any half way
state permanent. `IInv` says that the pending file decides who may act: a changer past `SaveState` and a
watcher with the lock are those of the pending change, the files they have written are that
change's, its snapshot is of the network before it, and other watchers have been killed or find
a file that is not theirs. All of it is under `early = {}`, like the properties, since `revert_early`
shows it false otherwise. Changers may be killed anywhere (no condition on `Deadly` but its type).
`ImplementsTrial` needs more: that a change is kept only where it runs relates the confirmer's step to the
machine the changer left. `JInv` adds what has become of a change at each step of its
changer, and with which machine: as found until the first command, as asked once it is applied,
and from then on as asked, or stopped, until somebody decides. The lemmas map each step of each process to a step of
`NicTrial`, or to a stutter.

**NicReload.** A request is in exactly one place: still with its client, in the request file, in the
hands of the daemon it addresses, or answered; and the daemon that holds or claims `nic.pid` is one.
`OneDaemon` needs that the reload lock is held from the look at an unwritten pid file to its
writing. `"torn"`, the content of an unwritten pid file, is no daemon.

**NicExchange.** A lease is safe because of answers sent long before it was taken. `IInv` follows the
transaction ids: ids of one client differ, so an answer that bears the id of the exchange
under way was sent during it, and its addresses are bound to that client for their lifetime,
counted from the sending, and as much of the grace as the exchange's remaining attempts may take.
That is where `Grace >= Attempts` is needed, an assumption about servers and not about nic: nic
counts a lease from the arrival of the answer. Clients and addresses are finite sets; servers,
hosts and families are arbitrary.

**NicResolver.** `IInv` has four parts: which records there are at each step of main (`Recorded`), which sessions
run and which step may follow which (`Control`), and, between an unguarded moment and the next
success, how far policy, memory and file agree (`Shown`). `Pristine` is inductive with the first two.
`ListsAssumption`: a list of name servers is none of the contents that are no list of nic's, and a
session may offer none.

**NicDhcp.** `IInv` has three parts: main's calls (only the one under way is incomplete, and what
comes after a join finds the session joined); what a session remembers (for instance: on a start nothing
precedes the lease being applied; a DHCPv4 renewal without a router replaces a lease without one, because
omitted options are kept); and, for each place of a session, the addresses, route, name servers and
lease file there are, with those the kernel may have expired. `RollBackRestores` is its hardest lemma: after
any failed command of a transition, whichever addresses expired meanwhile, `rollbackLeaseTransition` leaves the previous
lease's route or none. `StoppedClean` follows, because only `Sweep` ends a `StopAll`, and then both sessions are
off and have a lease file for what they left. The assumptions are on data only: leases offered are
records of their family with an address, and a DHCPv6 lease has no router.

**NicApply.** `OneClient` is about two processes, but what keeps it true are the files: a halt ends only what
pid file or record lead to. `IInv` therefore says of nic's books that each of its programs is found by its record or,
if that names no process or another pid, by its pid file (`Known`); that a recorded pid and start time are those of
the slot's own program (`RecordsOK`), which makes `NoStranger` follow, because what is found by
pid file alone is checked by name; and that a slot has one program (`Single`). A launch breaks the books
for a moment: it overwrites the pid file before the record. So the order of the steps still ahead is part of `IInv`:
a line not yet begun launches nothing whose predecessor it has not ended, with a failed halt ending the line, and
records a launch in the next step (`Ordered`); of the line in hand, what its first steps have reached
(`UnderWay`). `ApplyLines`, `TeardownLines` and `RestoreLines` show that of every line the operations derive, for every
configuration, and `TailUnderWay` that each step keeps it. `FreshBorn` is the pigeonhole argument that a pid
used again has a start time no record knows. The other conjuncts are the type of the machine
(`EffectOK`: each command leaves what ip(8) can show), the job and its plan, and that what a phase restores was captured.

Only model-checked:

- liveness (`RetrySucceeds`, `Unattended`, `LeaseRecovered`, `MainReturns`, `Answered`, `Settles`, `Ends`), which is
  beyond the prover;
- `Truthful` and `StopConverges` of `NicApply`: they are about the joint effect of whole sequences of
  commands on the machine (that the inverses and the restoration of any configuration add up to the baseline), which is
  induction over data;
- what is expected to fail: `RollbackRestores` and `ConfirmedStays`.

## Plan

Done: all modules above; proofs of every safety property of `NicReconcile`, `NicRevert`, `NicReload`, `NicExchange`,
`NicResolver` and `NicDhcp`, and of all but the two named above of `NicApply`. `NicRevert` implements an abstract promise of reloads, `NicTrial`.
Ahead: the same promise for `NicReload`, where it needs exemptions for a daemon that dies after it was asked and
for a SIGUSR1 that is handled after the watcher has given up.

## Not modelled

The packet codecs, the configuration parser and iproute2's abbreviations are grammars over
bytes and characters. Printing, colours, status and diff have no state. Command contexts
(executor.go:34-71) are used one inside the other only. dhcpcd, the IPv6 half of state and the
32-bit arithmetic of renewal times (lease.go:71, 102, which overflows for lifetimes of
decades) are left out of the modules that would hold them, for the reasons given there and in
`PROJECT.json` under `components`.
