---------------------------- MODULE NicRollback ----------------------------
(***************************************************************************)
(* How nic takes a configuration back: names of interfaces (internal/      *)
(* alias), the commands it accepts and the inverse of each (main.go        *)
(* 739-942), and the snapshot of the machine with the commands that        *)
(* replay it (internal/state).                                             *)
(*                                                                         *)
(* Commands are NicKernel's, with names that may be aliases or pins. The   *)
(* IPv6 half of the snapshot, which is handled like the IPv4 half, and the *)
(* resolver (NicResolver) are left out.                                    *)
(***************************************************************************)
EXTENDS NicKernel

CONSTANT Listing   \* every static route, in the order of `ip route show`

ASSUME ListingAssumption == Listing \in Seq(ToSet(Listing))

-----------------------------------------------------------------------------
(* Names: cfg.aliases maps names to links, cfg.pins maps names to MACs *)

FindByMAC(n, mac) == {l \in n.links : n.mac[l] = mac}
PinsFound(n, cfg) == {p \in DOMAIN cfg.pins : FindByMAC(n, cfg.pins[p]) # {}}

Resolves(n, cfg) == PinsFound(n, cfg) = DOMAIN cfg.pins

\* Resolve looks the pins up in any order and fails at the first without an interface: the pins that are known then.
LookedUp(n, cfg) == IF Resolves(n, cfg) THEN {DOMAIN cfg.pins} ELSE SUBSET PinsFound(n, cfg)
Names(n, cfg, pins) ==
  [x \in pins \cup DOMAIN cfg.aliases |->
     IF x \in pins THEN CHOOSE l \in FindByMAC(n, cfg.pins[x]) : TRUE ELSE cfg.aliases[x]]

NameOf(names, x) == IF x \in DOMAIN names THEN names[x] ELSE x

\* Only where an interface is expected; a link that is created keeps its own name.
ResolveInTokens(names, c) ==
  CASE c.op \in {"newlink", "rule", "delrule"} -> c
    [] c.op = "set" ->
         Cmd("set", NameOf(names, c.dev),
             [i \in DOMAIN c.arg |-> IF c.arg[i][1] = "master"
                                     THEN <<"master", NameOf(names, c.arg[i][2])>> ELSE c.arg[i]])
    [] OTHER -> Cmd(c.op, NameOf(names, c.dev), c.arg)

-----------------------------------------------------------------------------
(* Accepted commands and their inverse *)

Restorable == {"up", "down", "nomaster", "mtu", "address", "master"}

Rollbackable(c) ==
  \/ c.op \in {"newlink", "addr", "addaddr", "route", "rule"}
  \/ c.op = "set" /\ c.arg # <<>> /\ \A i \in DOMAIN c.arg : c.arg[i][1] \in Restorable

\* The first of these settings decides how `ip link set` is taken back.
Decides == {"up", "down", "master"}
FirstDeciding(props) ==
  CHOOSE i \in DOMAIN props : props[i][1] \in Decides /\ \A j \in 1..(i - 1) : props[j][1] \notin Decides

ReverseSet(c) ==
  LET i == FirstDeciding(c.arg)
  IN  CASE c.arg[i][1] = "up"     -> [c.arg EXCEPT ![i] = <<"down", None>>]
        [] c.arg[i][1] = "down"   -> c.arg
        [] c.arg[i][1] = "master" -> Append(RemoveAt(c.arg, i), <<"nomaster", None>>)

\* reverseIPCommand, as a sequence of at most one command.
ReverseIPCommand(c) ==
  CASE c.op = "set" /\ \E i \in DOMAIN c.arg : c.arg[i][1] \in Decides
                                    -> <<Cmd("set", c.dev, ReverseSet(c))>>
    [] c.op = "newlink"             -> <<Cmd("dellink", c.dev, c.arg)>>
    [] c.op \in {"addr", "addaddr"} -> <<Cmd("deladdr", c.dev, c.arg)>>
    [] c.op = "route"               -> <<Cmd("delroute", c.dev, c.arg)>>
    [] c.op = "rule"                -> <<Cmd("delrule", c.dev, c.arg)>>
    [] OTHER                        -> <<>>

-----------------------------------------------------------------------------
(* The snapshot *)

\* Lifetimes are relative to the time of capture.
Capture(n, now) ==
  [at |-> now, links |-> n.links, up |-> n.up, mac |-> n.mac, mtu |-> n.mtu, master |-> n.master,
   addrs |-> {[ip |-> a.ip, dev |-> a.dev,
               life |-> IF a.until = Forever THEN Forever ELSE a.until - now] : a \in n.addrs},
   routes |-> n.routes, rules |-> n.rules]

\* Defect: a captured lifetime starts again.
Reduced_Again(life, elapsed) == [expired |-> FALSE, life |-> life]

\* The lifetime that is left of a captured one.
Reduced(life, elapsed) ==
  IF life = Forever THEN [expired |-> FALSE, life |-> Forever]
  ELSE IF life <= elapsed THEN [expired |-> TRUE, life |-> 0]
  ELSE [expired |-> FALSE, life |-> life - elapsed]

-----------------------------------------------------------------------------
(* The commands of RestoreState: the lines of each stage, a line being a sequence of commands. *)
(* Each command says what becomes of its error.                                                *)

Loud(c)  == [act |-> "ip", cmd |-> c, on |-> "collect"]
Quiet(c) == [act |-> "ip", cmd |-> c, on |-> "ignore"]
SetLink(l, name, value) == Cmd("set", l, <<<<name, value>>>>)
ForEach(S, F(_)) == [i \in 1..Cardinality(S) |-> F(SetToSeq(S)[i])]

\* Defect: the address is rewritten whether it drifted or not.
LinkSteps_Always(snap, live) ==
  LET Steps(l) == <<Quiet(SetLink(l, "nomaster", None)), Loud(SetLink(l, "down", None)),
                    Loud(Cmd("flush", l, None)), Loud(SetLink(l, "address", snap.mac[l]))>>
                  \o IF live.mtu[l] # snap.mtu[l] THEN <<Loud(SetLink(l, "mtu", snap.mtu[l]))>> ELSE <<>>
  IN  ForEach(snap.links, Steps)

\* Properties of a link are only rewritten where they differ from the live ones.
LinkSteps(snap, live) ==
  LET Steps(l) == <<Quiet(SetLink(l, "nomaster", None)), Loud(SetLink(l, "down", None)),
                    Loud(Cmd("flush", l, None))>>
                  \o (IF live.mac[l] # snap.mac[l] THEN <<Loud(SetLink(l, "address", snap.mac[l]))>> ELSE <<>>)
                  \o (IF live.mtu[l] # snap.mtu[l] THEN <<Loud(SetLink(l, "mtu", snap.mtu[l]))>> ELSE <<>>)
  IN  ForEach(snap.links, Steps)

AddrSteps(snap, now) ==
  LET Left(a)  == Reduced(a.life, now - snap.at)
      Steps(a) == IF Left(a).expired THEN <<>>
                  ELSE <<Loud(Cmd("addr", a.dev, [ip |-> a.ip, life |-> Left(a).life]))>>
  IN  ForEach(snap.addrs, Steps)

RouteSteps(snap) ==
  [i \in DOMAIN Listing |->
     LET r == Listing[i]
     IN  IF r \notin snap.routes THEN <<>>
         ELSE <<Loud(Cmd("route", r.dev, [dst |-> r.dst, via |-> r.via]))>>]

RuleSteps(snap, live) ==
  LET Old(rule) == <<Loud(Cmd("delrule", None, rule))>>
      New(rule) == <<Loud(Cmd("rule", None, rule))>>
  IN  ForEach(live.rules, Old) \o ForEach(snap.rules, New)

\* The master is set again; the failure of a removal is ignored.
MasterSteps(snap) ==
  LET Steps(l) == IF snap.master[l] = None THEN <<Quiet(SetLink(l, "nomaster", None))>>
                  ELSE <<Loud(SetLink(l, "master", snap.master[l]))>>
  IN  ForEach(snap.links, Steps)

StateSteps(snap) ==
  LET Steps(l) == <<Loud(SetLink(l, IF l \in snap.up THEN "up" ELSE "down", None))>>
  IN  ForEach(snap.links, Steps)

Stages == <<"flush", "links", "addrs", "routes", "rules", "masters", "states">>
RestoreSteps(stage, snap, live, now) ==
  CASE stage = "flush"   -> << <<Loud(Cmd("flushroutes", None, None))>> >>
    [] stage = "links"   -> LinkSteps(snap, live)
    [] stage = "addrs"   -> AddrSteps(snap, now)
    [] stage = "routes"  -> RouteSteps(snap)
    [] stage = "rules"   -> RuleSteps(snap, live)
    [] stage = "masters" -> MasterSteps(snap)
    [] stage = "states"  -> StateSteps(snap)
=============================================================================
