------------------------------ MODULE NicDhcp ------------------------------
(***************************************************************************)
(* The native DHCP clients of one interface (internal/dhcp): a DHCPv4 and  *)
(* a DHCPv6 session, each a goroutine that keeps a lease alive on the      *)
(* machine, and the main goroutine, which stops all sessions, starts those *)
(* of the configuration in the order of its lines, and joins a session     *)
(* before it goes on.                                                      *)
(*                                                                         *)
(* A lease is a record of addresses, a router and name servers. The        *)
(* machine holds the addresses of each family, one default route with      *)
(* nic's metric (`ip route replace` leaves no second one) and each         *)
(* session's contribution to the resolver. Exchanges with the server are   *)
(* their outcomes. Time is the phase of the lease held: before T1 ("held"),*)
(* after T1 or T2 ("due"), and past its life ("expired"), when the kernel  *)
(* drops the addresses by itself. Commands take no time.                   *)
(*                                                                         *)
(* Calls whose errors the code ignores are taken to succeed, except the    *)
(* writing of the lease file and of resolv.conf.                           *)
(***************************************************************************)
EXTENDS Naturals, Sequences

CONSTANTS
  Offers,      \* Offers[s]: the leases a server may grant session s
  Scripts,     \* the orders in which configurations start sessions
  None,
  MaxFaults    \* bound: how many calls may fail and processes die

Sessions == {"v4", "v6"}
Other(s) == IF s = "v4" THEN "v6" ELSE "v4"

\* The leases a session may come to hold.
LeasesOf(s) == [ips    : (SUBSET UNION {l.ips : l \in Offers[s]}) \ {{}},
                router : {None} \cup {l.router : l \in Offers[s]},
                dns    : {None} \cup {l.dns : l \in Offers[s]}]

ASSUME ScriptsAssumption == Scripts \subseteq Seq(Sessions)
ASSUME OffersAssumption ==
  \A s \in Sessions : \A l \in Offers[s] : l \in LeasesOf(s) /\ (s = "v6" => l.router = None)
ASSUME NoneAssumption == \A s \in Sessions : None \notin LeasesOf(s)
ASSUME MaxFaultsAssumption == MaxFaults \in Nat

VARIABLES
  at,         \* at[s]: where the session is
  lease,      \* lease[s]: nc.lease
  next,       \* next[s]: the lease being applied
  phase,      \* phase[s]: how much of lease[s] has gone by
  retry,      \* retry[s]: nc.retryAt is set
  cancelled,  \* cancelled[s]: its context is
  addrs, route, dns,  \* the machine; the resolver manager's lease inputs
  disk,       \* disk[s]: the lease file in /run/nic/dhcp
  todo,       \* the calls the main goroutine has left, each a sequence of jobs
  mode,       \* of the main goroutine's process
  lost,       \* history: sessions with addresses that no lease file may name
  faults

session == <<at, lease, next, phase, retry, cancelled>>
machine == <<addrs, route, dns>>
main    == <<todo, mode>>
vars    == <<session, machine, disk, main, lost, faults>>

Places == {"off", "acquire", "addr", "route", "dns", "undo", "commit", "save",
           "wait", "exchange", "ended"}

\* Between the first command of a transition and the lease file's update.
Transition == {"addr", "route", "dns", "undo", "commit", "save"}

NoRoute == [router |-> None, src |-> {}]
RouteOf(l) == IF l.router = None THEN NoRoute ELSE [router |-> l.router, src |-> l.ips]

Job(what, s) == [do |-> what, of |-> s]

\* stopAllNative joins the sessions in map order and sweeps the lease files.
StopAll(s) == <<Job("stop", s), Job("stop", Other(s)), Job("sweep", None)>>

\* Start("v4") stops both sessions of the interface, StartV6 only its own.
Plan(s) == IF s = "v4" THEN <<Job("stop", "v4"), Job("stop", "v6"), Job("start", "v4")>>
                       ELSE <<Job("stop", "v6"), Job("start", "v6")>>

\* Tear down, then apply a configuration's lines.
Reconfigure(script) ==
  {<<StopAll(s)>> \o [i \in DOMAIN script |-> Plan(script[i])] : s \in Sessions}

Init == /\ at = [s \in Sessions |-> "off"]
        /\ lease = [s \in Sessions |-> None] /\ next = [s \in Sessions |-> None]
        /\ phase = [s \in Sessions |-> "held"]
        /\ retry = [s \in Sessions |-> FALSE] /\ cancelled = [s \in Sessions |-> FALSE]
        /\ addrs = [s \in Sessions |-> {}] /\ route = NoRoute
        /\ dns = [s \in Sessions |-> None] /\ disk = [s \in Sessions |-> None]
        /\ todo = <<>> /\ mode = "new" /\ lost = {} /\ faults = 0

Fails == faults < MaxFaults /\ faults' = faults + 1
Works == faults' = faults

Now(job)     == todo # <<>> /\ Head(Head(todo)) = job
Rest         == IF Len(Head(todo)) = 1 THEN Tail(todo) ELSE <<Tail(Head(todo))>> \o Tail(todo)
Starting(s)  == Now(Job("start", s))
Goto(s, p)   == at' = [at EXCEPT ![s] = p]
Set(f, s, v) == [f EXCEPT ![s] = v]

-----------------------------------------------------------------------------
(* Commands on the machine *)

\* `ip addr del`: the kernel drops a route whose source address goes.
Delete(s, ips) ==
  /\ addrs' = Set(addrs, s, addrs[s] \ ips)
  /\ route' = IF s = "v4" /\ route.src \subseteq ips THEN NoRoute ELSE route

\* unapplyLease(V6). Rewriting resolv.conf may fail: the input then stays.
Unapply(s, l) ==
  /\ addrs' = Set(addrs, s, addrs[s] \ l.ips)
  /\ route' = IF s = "v4" /\ (route.router = l.router \/ route.src \subseteq l.ips)
              THEN NoRoute ELSE route
  /\ \/ Works /\ dns' = Set(dns, s, None)
     \/ dns[s] # None /\ Fails /\ UNCHANGED dns

\* expireV4/V6, and release's removal: configuration and lease file go.
Drop(s) == /\ Unapply(s, lease[s])
           /\ disk' = Set(disk, s, None)
           /\ lease' = Set(lease, s, None) /\ phase' = Set(phase, s, "held")

-----------------------------------------------------------------------------
(* Acquiring: runDHCPv4/V6, on a start or after a lease was lost *)

\* A failed apply is torn down and a previous configuration restored; a
\* starting daemon then exits.
RollsBack == /\ \E script \in Scripts : todo' \in Reconfigure(script)
             /\ mode' = IF mode = "startup" THEN "oneshot" ELSE mode

\* A failed start ends the session. An external client may take over (v4) or
\* the failure is tolerated (v6); otherwise the apply has failed.
StartFails(s) == /\ Goto(s, "off")
                 /\ RollsBack \/ (todo' = Rest /\ UNCHANGED mode)

\* Defect: no lease and no error counts as acquired.
Acquired_Nothing(s) ==
  /\ at[s] = "acquire" /\ Goto(s, "addr")
  /\ UNCHANGED <<next, lease, phase, retry, cancelled, machine, disk, main, lost, faults>>

Acquired(s) ==
  /\ at[s] = "acquire"
  /\ \E l \in Offers[s] : next' = Set(next, s, l)
  /\ Goto(s, "addr")
  /\ UNCHANGED <<lease, phase, retry, cancelled, machine, disk, main, lost, faults>>

\* No answer, a NAK, or the context was cancelled.
AcquireFails(s) ==
  /\ at[s] = "acquire"
  /\ Fails \/ (cancelled[s] /\ Works)
  /\ \/ Starting(s) /\ StartFails(s) /\ UNCHANGED retry
     \/ /\ ~Starting(s) /\ Goto(s, "wait") /\ UNCHANGED main
        /\ retry' = Set(retry, s, retry[s] \/ ~cancelled[s])
  /\ UNCHANGED <<lease, next, phase, cancelled, machine, disk, lost>>

-----------------------------------------------------------------------------
(* applyLeaseReplacing, applyLeaseV6Replacing: a transition from lease[s] *)
(* (None: from nothing) to next[s]                                        *)

SetAddresses(s) ==
  /\ at[s] = "addr"
  /\ \/ /\ Works /\ addrs' = Set(addrs, s, addrs[s] \cup next[s].ips)
        /\ Goto(s, IF s = "v4" THEN "route" ELSE "dns")
     \/ /\ Fails /\ Goto(s, "undo")
        /\ \E some \in SUBSET next[s].ips : addrs' = Set(addrs, s, addrs[s] \cup some)
  /\ UNCHANGED <<lease, next, phase, retry, cancelled, route, dns, disk, main, lost>>

SetRoute(s) ==
  /\ at[s] = "route"
  /\ \/ /\ Works /\ Goto(s, "dns")
        /\ route' = IF next[s].router = None THEN route ELSE RouteOf(next[s])
     \/ next[s].router # None /\ Fails /\ Goto(s, "undo") /\ UNCHANGED route
  /\ UNCHANGED <<lease, next, phase, retry, cancelled, addrs, dns, disk, main, lost>>

SetDns(s) ==
  /\ at[s] = "dns"
  /\ \/ Works /\ dns' = Set(dns, s, next[s].dns) /\ Goto(s, "commit")
     \/ Fails /\ Goto(s, "undo") /\ UNCHANGED dns
  /\ UNCHANGED <<lease, next, phase, retry, cancelled, addrs, route, disk, main, lost>>

\* Defect: the rollback does not put the previous routes back.
RollBack_NoRoutes(s) ==
  IF lease[s] = None THEN Unapply(s, next[s])
  ELSE Delete(s, next[s].ips \ lease[s].ips) /\ UNCHANGED dns /\ Works

\* rollbackLeaseTransition(V6): new addresses go, and the previous routes are
\* set again if the leases differ in them and the kernel takes them.
RollBack(s) ==
  LET old == lease[s]  new == next[s]
  IN IF old = None THEN Unapply(s, new)
     ELSE /\ Works /\ UNCHANGED dns
          /\ addrs' = Set(addrs, s, addrs[s] \ (new.ips \ old.ips))
          /\ route' = IF s = "v6" \/ (old.router = new.router /\ old.ips = new.ips)
                        THEN route
                      ELSE IF old.router # None /\ old.ips \subseteq addrs[s]
                        THEN RouteOf(old)
                      ELSE IF route.router = new.router \/ route.src = new.ips
                        THEN NoRoute ELSE route

Undo(s) ==
  /\ at[s] = "undo"
  /\ RollBack(s)
  /\ \/ Starting(s) /\ StartFails(s) /\ UNCHANGED retry
     \/ ~Starting(s) /\ Goto(s, "wait") /\ retry' = Set(retry, s, TRUE) /\ UNCHANGED main
  /\ next' = Set(next, s, None)
  /\ UNCHANGED <<lease, phase, cancelled, disk, lost>>

\* Defect: the retry time survives the success.
Commit_KeepsRetry(s) ==
  /\ at[s] = "commit" /\ Goto(s, "save")
  /\ Delete(s, (IF lease[s] = None THEN {} ELSE lease[s].ips) \ next[s].ips)
  /\ lease' = Set(lease, s, next[s]) /\ phase' = Set(phase, s, "held")
  /\ UNCHANGED <<next, retry, cancelled, dns, disk, main, lost, faults>>

\* Defect: addresses of the superseded lease stay.
Commit_NoCleanup(s) ==
  /\ at[s] = "commit" /\ Goto(s, "save")
  /\ lease' = Set(lease, s, next[s]) /\ phase' = Set(phase, s, "held")
  /\ retry' = Set(retry, s, FALSE)
  /\ UNCHANGED <<next, cancelled, machine, disk, main, lost, faults>>

\* cleanupSupersededLease(V6) and the new nc.lease.
Commit(s) ==
  /\ at[s] = "commit" /\ Goto(s, "save")
  /\ Delete(s, (IF lease[s] = None THEN {} ELSE lease[s].ips) \ next[s].ips)
  /\ lease' = Set(lease, s, next[s]) /\ phase' = Set(phase, s, "held")
  /\ retry' = Set(retry, s, FALSE)
  /\ UNCHANGED <<next, cancelled, dns, disk, main, lost, faults>>

\* Defect: only a daemon saves its leases.
Save_DaemonOnly(s) ==
  /\ at[s] = "save"
  /\ next' = Set(next, s, None)
  /\ todo' = IF Starting(s) THEN Rest ELSE todo
  /\ IF Starting(s) /\ mode = "oneshot"
     THEN Goto(s, "off") /\ lease' = Set(lease, s, None) /\ UNCHANGED disk
     ELSE Goto(s, "wait") /\ disk' = Set(disk, s, lease[s]) /\ UNCHANGED lease
  /\ UNCHANGED <<phase, retry, cancelled, machine, mode, lost, faults>>

\* Its error is ignored. On a start the main goroutine goes on; without a
\* daemon the session is over.
Save(s) ==
  /\ at[s] = "save"
  /\ \/ Works /\ disk' = Set(disk, s, lease[s]) /\ UNCHANGED lost
     \/ Fails /\ lost' = lost \cup {s} /\ UNCHANGED disk
  /\ next' = Set(next, s, None)
  /\ todo' = IF Starting(s) THEN Rest ELSE todo
  /\ IF Starting(s) /\ mode = "oneshot"
     THEN Goto(s, "off") /\ lease' = Set(lease, s, None)
     ELSE Goto(s, "wait") /\ UNCHANGED lease
  /\ UNCHANGED <<phase, retry, cancelled, machine, mode>>

-----------------------------------------------------------------------------
(* renewLoop, maintainV4/V6. The timer and the cancelled context race.     *)

Due(s) == retry[s] \/ phase[s] # "held"

\* Defect: a lost lease is not asked for again.
Wake_GivesUp(s) ==
  /\ at[s] = "wait" /\ Due(s) /\ lease[s] # None
  /\ IF phase[s] = "expired" THEN Drop(s) /\ UNCHANGED at
     ELSE Goto(s, "exchange") /\ Works /\ UNCHANGED <<machine, disk, lease, phase>>
  /\ UNCHANGED <<next, retry, cancelled, main, lost>>

Wake(s) ==
  /\ at[s] = "wait" /\ Due(s)
  /\ UNCHANGED <<next, cancelled, main, lost>>
  /\ \/ /\ lease[s] = None
        /\ Goto(s, "acquire")
        /\ Works /\ UNCHANGED <<lease, phase, retry, machine, disk>>
     \/ /\ lease[s] # None /\ phase[s] = "expired"
        /\ Drop(s) /\ retry' = Set(retry, s, TRUE) /\ Goto(s, "acquire")
     \/ /\ lease[s] # None /\ phase[s] = "due"
        /\ Goto(s, "exchange")
        /\ Works /\ UNCHANGED <<lease, phase, retry, machine, disk>>

\* The leases a renewal may end with: a DHCPACK keeps the router and the name
\* servers it omits; a DHCPv6 Reply keeps the addresses it does not mention
\* and withdraws others, but says all there is to say of name servers.
Renewals(s) ==
  IF s = "v4" THEN {[l EXCEPT !.router = IF @ = None THEN lease[s].router ELSE @,
                              !.dns = IF @ = None THEN lease[s].dns ELSE @] : l \in Offers[s]}
  ELSE UNION {{[l EXCEPT !.ips = ips] : ips \in (SUBSET (l.ips \cup lease[s].ips)) \ {{}}} :
              l \in Offers[s]}

\* renew or rebind is granted.
Renewed(s) ==
  /\ at[s] = "exchange" /\ Goto(s, "addr")
  /\ \E l \in Renewals(s) : next' = Set(next, s, l)
  /\ UNCHANGED <<lease, phase, retry, cancelled, machine, disk, main, lost, faults>>

\* No answer (a rebind also ends when it is cancelled).
ExchangeFails(s) ==
  /\ at[s] = "exchange" /\ Goto(s, "wait")
  /\ retry' = Set(retry, s, TRUE)
  /\ UNCHANGED <<next, cancelled, main, lost>>
  /\ IF phase[s] = "expired" THEN Drop(s)
     ELSE /\ Fails \/ (cancelled[s] /\ Works)
          /\ UNCHANGED <<lease, phase, machine, disk>>

\* A NAK, or a reply without any address: the lease ends at once.
Refused(s) ==
  /\ at[s] = "exchange" /\ Goto(s, "acquire")
  /\ Drop(s) /\ retry' = Set(retry, s, TRUE)
  /\ UNCHANGED <<next, cancelled, main, lost>>

\* Defect: a loop without a lease does not look at its context.
Release_NeedsLease(s) ==
  /\ at[s] = "wait" /\ cancelled[s] /\ Goto(s, "ended")
  /\ lease[s] # None /\ Drop(s)
  /\ UNCHANGED <<next, retry, cancelled, main, lost>>

\* The loop ends: release and close(done).
Release(s) ==
  /\ at[s] = "wait" /\ cancelled[s] /\ Goto(s, "ended")
  /\ UNCHANGED <<next, retry, cancelled, main, lost>>
  /\ \/ lease[s] # None /\ Drop(s)
     \/ lease[s] = None /\ Works /\ UNCHANGED <<lease, phase, machine, disk>>

Tick(s) ==
  /\ at[s] \in {"wait", "exchange"} /\ lease[s] # None /\ phase[s] # "expired"
  /\ phase' = Set(phase, s, IF phase[s] = "held" THEN "due" ELSE "expired")
  /\ UNCHANGED <<at, lease, next, retry, cancelled, machine, disk, main, lost, faults>>

\* The kernel's own clock, on addresses nobody renewed.
KernelExpires(s) ==
  /\ addrs[s] # {}
  /\ at[s] = "off" \/ (at[s] \in {"wait", "exchange"} /\ phase[s] = "expired")
  /\ Delete(s, addrs[s])
  /\ UNCHANGED <<session, dns, disk, main, lost, faults>>

-----------------------------------------------------------------------------
(* The main goroutine *)

\* A start, reload or stop (the empty script). "oneshot" is a process that ends
\* when nothing is left to do; the next one knows nothing of its resolver inputs.
Begin ==
  /\ todo = <<>>
  /\ \E script \in Scripts :
       /\ todo' \in Reconfigure(script)
       /\ \/ mode \in {"new", "oneshot"} /\ mode' \in {"oneshot", "startup"}
          \/ mode \in {"startup", "daemon"} /\ mode' = "daemon"
          \/ mode \in {"startup", "stopping", "daemon"} /\ script = <<>> /\ mode' = "oneshot"
  /\ dns' = IF mode = "oneshot" THEN [s \in Sessions |-> None] ELSE dns
  /\ UNCHANGED <<session, addrs, route, disk, lost, faults>>

\* Defect: stopNativeKey does not wait for done.
Stop_NoJoin(s) ==
  /\ Now(Job("stop", s))
  /\ cancelled' = Set(cancelled, s, at[s] \notin {"off", "ended"})
  /\ todo' = Rest
  /\ UNCHANGED <<at, lease, next, phase, retry, machine, disk, mode, lost, faults>>

\* stopNativeKey: cancel, and join.
Stop(s) ==
  /\ Now(Job("stop", s))
  /\ \/ /\ at[s] \notin {"off", "ended"} /\ ~cancelled[s]
        /\ cancelled' = Set(cancelled, s, TRUE)
        /\ UNCHANGED <<at, retry, todo>>
     \/ /\ at[s] \in {"off", "ended"}
        /\ Goto(s, "off") /\ todo' = Rest
        /\ retry' = Set(retry, s, FALSE) /\ cancelled' = Set(cancelled, s, FALSE)
  /\ UNCHANGED <<lease, next, phase, machine, disk, mode, lost, faults>>

\* cleanupDiskLeases: what lease files name goes, and the files go.
Sweep ==
  LET old == disk["v4"]
  IN /\ Now(Job("sweep", None)) /\ todo' = Rest
     /\ addrs' = [s \in Sessions |-> IF disk[s] = None THEN addrs[s]
                                     ELSE addrs[s] \ disk[s].ips]
     /\ route' = IF old # None /\ (route.router = old.router \/ route.src \subseteq old.ips)
                 THEN NoRoute ELSE route
     /\ dns' = [s \in Sessions |-> IF disk[s] = None THEN dns[s] ELSE None]
     /\ disk' = [s \in Sessions |-> None]
     /\ UNCHANGED <<session, mode, lost, faults>>

\* ensureInterfaceUp and a fresh session. Without a daemon the session of an
\* earlier line for the same interface has left its lease file, which the new
\* session's overwrites: what it named is then on record nowhere.
Start(s) ==
  /\ Starting(s) /\ at[s] = "off"
  /\ lease' = Set(lease, s, None) /\ retry' = Set(retry, s, FALSE)
  /\ cancelled' = Set(cancelled, s, FALSE)
  /\ \/ /\ Works /\ Goto(s, "acquire") /\ UNCHANGED main
        /\ lost' = IF mode = "oneshot" /\ disk[s] # None THEN lost \cup {s} ELSE lost
     \/ Fails /\ StartFails(s) /\ UNCHANGED lost
  /\ UNCHANGED <<next, phase, machine, disk>>

\* Another line of the configuration, or bringing the link up, fails.
LineFails ==
  /\ \E s \in Sessions : Starting(s) /\ at[s] = "off"
  /\ Fails /\ RollsBack
  /\ UNCHANGED <<session, machine, disk, lost>>

\* SIGTERM during startup cancels the context of every session so far; what
\* is left of the startup goes on, and is undone when it ends.
Terminate ==
  /\ mode = "startup" /\ todo # <<>> /\ mode' = "stopping"
  /\ cancelled' = [s \in Sessions |-> cancelled[s] \/ at[s] # "off"]
  /\ UNCHANGED <<at, lease, next, phase, retry, machine, disk, todo, lost, faults>>

\* The process dies: goroutines and memory go, machine and files stay.
Crash ==
  /\ mode # "new" /\ Fails
  /\ at' = [s \in Sessions |-> "off"]
  /\ lease' = [s \in Sessions |-> None] /\ next' = [s \in Sessions |-> None]
  /\ phase' = [s \in Sessions |-> "held"]
  /\ retry' = [s \in Sessions |-> FALSE] /\ cancelled' = [s \in Sessions |-> FALSE]
  /\ dns' = [s \in Sessions |-> None]
  /\ todo' = <<>> /\ mode' = "new"
  /\ lost' = lost \cup {s \in Sessions : at[s] \in Transition}
  /\ UNCHANGED <<addrs, route, disk>>

-----------------------------------------------------------------------------
SessionStep(s) ==
  \/ Acquired(s) \/ AcquireFails(s)
  \/ SetAddresses(s) \/ SetRoute(s) \/ SetDns(s) \/ Undo(s) \/ Commit(s) \/ Save(s)
  \/ Wake(s) \/ Renewed(s) \/ ExchangeFails(s) \/ Refused(s) \/ Release(s)

MainStep == Sweep \/ LineFails \/ \E s \in Sessions : Stop(s) \/ Start(s)

Next == \/ \E s \in Sessions : SessionStep(s) \/ Tick(s) \/ KernelExpires(s)
        \/ MainStep \/ Begin \/ Terminate \/ Crash

Spec == Init /\ [][Next]_vars

\* Goroutines are scheduled. select takes a ready case at random, so a loop
\* that keeps finding its context cancelled ends.
FairSpec == /\ Spec
            /\ WF_vars(MainStep)
            /\ \A s \in Sessions : WF_vars(SessionStep(s)) /\ SF_vars(Release(s))

-----------------------------------------------------------------------------
(* Properties *)

\* Types. A lease is never applied by a session that is off.
TypeOK ==
  /\ at \in [Sessions -> Places]
  /\ \A s \in Sessions : /\ lease[s] \in LeasesOf(s) \cup {None}
                         /\ next[s] \in LeasesOf(s) \cup {None}
                         /\ disk[s] \in LeasesOf(s) \cup {None}
                         /\ at[s] \in Transition \ {"save"} => next[s] # None
  /\ phase \in [Sessions -> {"held", "due", "expired"}]
  /\ retry \in [Sessions -> BOOLEAN] /\ cancelled \in [Sessions -> BOOLEAN]
  /\ DOMAIN addrs = Sessions /\ DOMAIN dns = Sessions
  /\ mode \in {"new", "oneshot", "startup", "stopping", "daemon"}
  /\ lost \subseteq Sessions /\ faults \in 0..MaxFaults

\* At rest the machine is configured as leased: exactly the addresses, the
\* route and the name servers of nc.lease, none of a lease refused,
\* superseded, expired or rolled back (apply.go:83, 98, 116).
ConfiguredAsLeased ==
  \A s \in Sessions \ lost : at[s] = "wait" /\ phase[s] # "expired" =>
    /\ lease[s] # None => addrs[s] = lease[s].ips /\ dns[s] = lease[s].dns
    /\ lease[s] = None => addrs[s] = {}
    /\ s = "v4" => route = IF lease[s] = None THEN NoRoute ELSE RouteOf(lease[s])

\* What a process leaves behind can be cleaned up by the next one: the lease
\* file names every address that no session looks after ("Also clean up any
\* leases saved to disk (from a previous process)", native.go:492).
Findable == \A s \in Sessions \ lost :
  at[s] \in {"off", "ended"} /\ addrs[s] # {} => disk[s] # None /\ addrs[s] \subseteq disk[s].ips

\* StopAll (dhcp.go:82) ends with no session running and nothing leased left on
\* the machine, whatever was in flight when it began.
StoppedClean == [][Now(Job("sweep", None)) /\ todo' = Rest /\ mode' = mode =>
  \A s \in Sessions \ lost : at'[s] = "off" /\ addrs'[s] = {} /\ disk'[s] = None]_vars

\* The loop neither spins nor sleeps for ever: it retries only what is due, and
\* without a lease it retries (native.go:172-182).
Paced == \A s \in Sessions : at[s] = "wait" =>
  /\ lease[s] = None => retry[s]
  /\ retry[s] => lease[s] = None \/ phase[s] # "held"

\* A lease lost to expiry or refusal is asked for until there is one again.
LeaseRecovered == \A s \in Sessions :
  (at[s] = "wait" /\ lease[s] = None) ~> (lease[s] # None \/ cancelled[s] \/ at[s] = "off")

\* Stopping, and starting, come to an end: joining never waits for ever.
MainReturns == (todo # <<>>) ~> (todo = <<>>)
=============================================================================
