----------------------------- MODULE NicKernel -----------------------------
(***************************************************************************)
(* What ip(8) and the kernel do to links, IPv4 addresses, static routes    *)
(* and routing rules, as far as nic relies on it (code outside src/).      *)
(*                                                                         *)
(* A machine is a record                                                   *)
(*   links, up         the links there are, and those that are up          *)
(*   mac, mtu, master  functions of all possible links                     *)
(*   addrs             [ip, dev, until]: addresses, with their expiry      *)
(*   routes            [dst, via, dev]: routes with "proto static" or      *)
(*                     "boot"; routes of the kernel follow from addrs      *)
(*   rules             policy rules besides the three default ones         *)
(* A command is a record [op, dev, arg]. The settings of `ip link set`     *)
(* are pairs: <<"up", None>>, <<"mtu", 1500>>, ...                         *)
(***************************************************************************)
EXTENDS Integers, SequencesExt

CONSTANTS
  Links,    \* names of links
  Rigid,    \* links that refuse a new link-layer address, such as sit0
  Factory,  \* Factory[l]: mac and mtu of a link that has just been created
  OnLink,   \* OnLink[ip]: the gateways in the subnet of that address
  Forever,  \* the lifetime of an address that does not expire
  None

ASSUME LinksAssumption == IsFiniteSet(Links)
ASSUME RigidAssumption == Rigid \subseteq Links
ASSUME ForeverAssumption == Forever \in Nat

Cmd(op, dev, arg) == [op |-> op, dev |-> dev, arg |-> arg]
RouteOf(c) == [dst |-> c.arg.dst, via |-> c.arg.via, dev |-> c.dev]

\* A gateway is usable on a link that is up and has it in a subnet or as a host route.
Reachable(n, c) ==
  /\ c.dev \in n.up
  /\ \/ c.arg.via = None
     \/ \E a \in n.addrs : a.dev = c.dev /\ c.arg.via \in OnLink[a.ip]
     \/ [dst |-> c.arg.via, via |-> None, dev |-> c.dev] \in n.routes

-----------------------------------------------------------------------------
(* Errors *)

NoDevice(n, c) ==
  \/ c.op \notin {"newlink", "rule", "delrule", "flushroutes"} /\ c.dev \notin n.links
  \/ c.op = "set" /\ \E i \in DOMAIN c.arg : c.arg[i][1] = "master" /\ c.arg[i][2] \notin n.links
Gone(n, c) ==
  \/ c.op = "deladdr" /\ ~\E a \in n.addrs : a.dev = c.dev /\ a.ip = c.arg.ip
  \/ c.op = "delroute" /\ RouteOf(c) \notin n.routes
Exists(n, c) ==
  \/ c.op = "newlink" /\ c.dev \in n.links
  \/ c.op = "addaddr" /\ \E a \in n.addrs : a.dev = c.dev /\ a.ip = c.arg.ip
  \/ c.op = "rule" /\ c.arg \in n.rules
Refused(n, c) ==
  \/ c.op = "set" /\ c.dev \in Rigid /\ \E i \in DOMAIN c.arg : c.arg[i][1] = "address"
  \/ c.op = "route" /\ ~Reachable(n, c)
  \/ c.op = "delrule" /\ c.arg \notin n.rules   \* "No such file or directory"

\* The error of a command, by what nic can tell apart in its message.
ErrorOf(n, c) ==
  IF NoDevice(n, c) \/ Gone(n, c) THEN "missing"
  ELSE IF Exists(n, c) THEN "exists"
  ELSE IF Refused(n, c) THEN "refused"
  ELSE "none"

-----------------------------------------------------------------------------
(* Effects *)

\* A link that goes down, or loses its last address, loses its routes.
DropRoutes(n, dev) == [n EXCEPT !.routes = {r \in @ : r.dev # dev}]
DropAddrs(n, gone) ==
  LET left == n.addrs \ gone
  IN  [n EXCEPT !.addrs = left,
                !.routes = {r \in @ : \/ \E a \in left : a.dev = r.dev
                                      \/ ~\E a \in gone : a.dev = r.dev}]

\* One request carries all settings; of several of a kind the last one counts.
LastOf(settings, kinds, default) ==
  LET of == {i \in DOMAIN settings : settings[i][1] \in kinds}
  IN  IF of = {} THEN default ELSE settings[CHOOSE i \in of : \A j \in of : j <= i]

SetLinkTo(n, dev, settings) ==
  LET flag  == LastOf(settings, {"up", "down"}, <<"none">>)[1]
      other == IF flag = "down" THEN DropRoutes(n, dev) ELSE n
  IN  [other EXCEPT
        !.up = IF flag = "up" THEN @ \cup {dev} ELSE IF flag = "down" THEN @ \ {dev} ELSE @,
        !.mtu[dev]    = LastOf(settings, {"mtu"}, <<"mtu", @>>)[2],
        !.mac[dev]    = LastOf(settings, {"address"}, <<"address", @>>)[2],
        !.master[dev] = LastOf(settings, {"master", "nomaster"}, <<"master", @>>)[2]]

\* A new link is down; a deleted one takes everything of its own along.
NewLink(n, dev) ==
  [n EXCEPT !.links = @ \cup {dev}, !.mac[dev] = Factory[dev].mac, !.mtu[dev] = Factory[dev].mtu]
DelLink(n, dev) ==
  LET m == DropRoutes(DropAddrs(n, {a \in n.addrs : a.dev = dev}), dev)
  IN  [m EXCEPT !.links = @ \ {dev}, !.up = @ \ {dev},
                !.mac[dev] = Factory[dev].mac, !.mtu[dev] = Factory[dev].mtu,
                !.master = [l \in Links |-> IF l = dev \/ @[l] = dev THEN None ELSE @[l]]]

\* `ip addr replace`, and `add` of a new address, set the lifetime.
SetAddr(n, c, now) ==
  [n EXCEPT !.addrs = {a \in @ : ~(a.dev = c.dev /\ a.ip = c.arg.ip)}
                        \cup {[ip |-> c.arg.ip, dev |-> c.dev,
                               until |-> IF c.arg.life = Forever THEN Forever ELSE now + c.arg.life]}]

\* The machine after a command that meets no error.
Effect(n, c, now) ==
  CASE c.op = "set"         -> SetLinkTo(n, c.dev, c.arg)
    [] c.op = "newlink"     -> NewLink(n, c.dev)
    [] c.op = "dellink"     -> DelLink(n, c.dev)
    [] c.op \in {"addr", "addaddr"} -> SetAddr(n, c, now)
    [] c.op = "deladdr"     -> DropAddrs(n, {a \in n.addrs : a.dev = c.dev /\ a.ip = c.arg.ip})
    [] c.op = "flush"       -> DropAddrs(n, {a \in n.addrs : a.dev = c.dev})
    [] c.op = "route"       -> [n EXCEPT !.routes = @ \cup {RouteOf(c)}]
    [] c.op = "delroute"    -> [n EXCEPT !.routes = @ \ {RouteOf(c)}]
    [] c.op = "flushroutes" -> [n EXCEPT !.routes = {}]
    [] c.op = "rule"        -> [n EXCEPT !.rules = @ \cup {c.arg}]
    [] c.op = "delrule"     -> [n EXCEPT !.rules = @ \ {c.arg}]

\* Time passes: addresses whose lifetime has ended disappear.
Expire(n, now) == DropAddrs(n, {a \in n.addrs : a.until # Forever /\ a.until <= now})
=============================================================================
