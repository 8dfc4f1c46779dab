----------------------------- MODULE MCNicDhcp -----------------------------
(* NicDhcp for TLC. *)
EXTENDS NicDhcp, TLC

CONSTANTS a, b, p, q,    \* addresses
          r1, r2,        \* routers
          d1, d2         \* lists of name servers

Lease(ips, router, servers) == [ips |-> ips, router |-> router, dns |-> servers]

\* DHCPv4 alone: another address, another router, the router and the servers
\* omitted.
V4Offers == [v4 |-> {Lease({a}, r1, d1), Lease({b}, r1, d2),
                     Lease({a}, r2, d1), Lease({b}, None, None)},
             v6 |-> {Lease({p}, None, d1)}]
V4Scripts == {<<>>, <<"v4">>}

\* Both sessions of an interface, or two lines for one; a DHCPv6 renewal withdraws either address or none.
BothOffers == [v4 |-> {Lease({a}, r1, d1)}, v6 |-> {Lease({p, q}, None, d1)}]
Symmetric == Permutations({p, q})
BothScripts == {<<>>, <<"v4", "v6">>, <<"v4", "v4">>}
=============================================================================
