----------------------------- MODULE MCNicApply -----------------------------
(* NicApply for TLC. *)
EXTENDS NicApply

CONSTANTS eth, sit, br,    \* links: a wireless or wired one, a tunnel, a bridge that a configuration creates
          lan, wan, tun,   \* an alias, two pins
          x, y, gw,        \* addresses and a gateway in the subnet of y
          net0, rule0, rule1

MCLinks == {eth, sit, br}
MCFactory == [l \in MCLinks |-> [mac |-> l, mtu |-> 1500]]
MCOnLink == [ip \in {x, y} |-> IF ip = y THEN {gw} ELSE {}]
Default == [dst |-> net0, via |-> gw, dev |-> eth]
MCListing == <<Default, [Default EXCEPT !.via = None]>>

\* A machine with addresses that expire, a tunnel that refuses a MAC address, a rule, and perhaps a static route.
Host(life, rules, routes) ==
  [links |-> {eth, sit}, up |-> {eth},
   mac |-> [l \in MCLinks |-> l], mtu |-> [l \in MCLinks |-> 1500], master |-> [l \in MCLinks |-> None],
   addrs |-> {[ip |-> x, dev |-> eth, until |-> life], [ip |-> y, dev |-> sit, until |-> life - 1]}, 
   routes |-> routes, rules |-> rules]

IP(op, dev, arg) == [type |-> "ip", cmd |-> Cmd(op, dev, arg)]
Set(dev, name, value) == IP("set", dev, <<<<name, value>>>>)
Address(ip) == [ip |-> ip, life |-> Forever]
NoNames == [n \in {} |-> n]
Config(lines) == [aliases |-> NoNames, pins |-> NoNames, lines |-> lines]

\* A bridge over an aliased interface.
Bridge == [Config(<<IP("newlink", br, None), Set(lan, "master", br),
                    IP("addaddr", br, Address(y)), Set(br, "up", None)>>)
             EXCEPT !.aliases = lan :> eth]
\* Interfaces found by their MAC addresses, of which the configuration changes one; the mtu; a replaced address.
Pinned == [Config(<<Set(wan, "address", gw), IP("set", wan, <<<<"mtu", 9000>>, <<"up", None>>>>),
                    IP("addr", wan, Address(x)), Set(tun, "up", None)>>)
             EXCEPT !.pins = wan :> eth @@ tun :> sit]
\* Wi-Fi on whatever is wireless, then an external DHCP client and a route.
Radio == Config(<<[type |-> "wifi", dev |-> None], [type |-> "dhcp", dev |-> eth],
                  IP("route", eth, [dst |-> net0, via |-> None])>>)
\* An address, a default route and a rule.
Routed == Config(<<IP("addr", eth, Address(y)), IP("route", eth, [dst |-> net0, via |-> gw]),
                   IP("rule", None, rule1)>>)
\* A command without an inverse.
Unsafe == Config(<<IP("addaddr", eth, Address(y)), IP("dellink", sit, None)>>)

Symmetric == Permutations(Pids)
AllConfigs == {Bridge, Pinned, Radio, Unsafe}
AllMachines == {Host(2, {rule0}, {}), Host(2, {rule0}, {[Default EXCEPT !.via = None]})}
NoRoutes == {Host(2, {rule0}, {})}
RoutedOnly == {Routed}
=============================================================================
