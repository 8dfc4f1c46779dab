---------------------------- MODULE NicExchange ----------------------------
(***************************************************************************)
(* The exchanges of the native DHCP clients with the servers of a network  *)
(* that loses, duplicates, delays and reorders messages                    *)
(* (internal/dhcp/v4_client.go, v6_client.go): which answers a client      *)
(* takes for its own, what becomes of the others, how often it asks again, *)
(* and the lease a renewal leaves it with. What a client does with a lease *)
(* on its machine, and when it renews, is NicDhcp's subject.               *)
(*                                                                         *)
(* A client is an interface. The clients all speak DHCPv4 or all DHCPv6.   *)
(* A transaction id is the number of the exchange: two clients may choose  *)
(* the same, one client never chooses one twice. A tick of the clock is    *)
(* the time one attempt waits for its answer. Messages that do not parse   *)
(* count as lost, preferred lifetimes and T1/T2 are left out.              *)
(*                                                                         *)
(* The servers are external: they share a durable record of bindings, and  *)
(* leave an address alone for Grace ticks after its binding ended, since a *)
(* client counts its lease from the answer's arrival (parseLease's         *)
(* AcquiredAt). They hear a request while its exchange is under way, any   *)
(* number of times, or never; a DHCPRELEASE at once or never. Answers stay *)
(* in the network for good.                                                *)
(***************************************************************************)
EXTENDS Integers, FiniteSets

CONSTANTS
  Clients, Servers, Addrs, None,
  Worlds,        \* [family, host]: the protocol, and the clients' hosts
  Life,          \* the lifetime servers grant, in ticks
  Grace,
  Attempts,      \* how often a message is sent (4 in the code)
  MaxExchanges,  \* bounds: the exchanges begun, and the answers sent
  MaxAnswers

ASSUME WorldsAssumption == \A w \in Worlds : w.family \in {"v4", "v6"} /\ DOMAIN w.host = Clients
ASSUME LifeAssumption == Life \in Nat \ {0}
ASSUME AttemptsAssumption == Attempts \in Nat \ {0}
ASSUME GraceAssumption == Grace \in Nat /\ Grace >= Attempts
ASSUME BoundsAssumption == MaxExchanges \in Nat /\ MaxAnswers \in Nat
ASSUME FiniteAssumption == IsFiniteSet(Clients) /\ IsFiniteSet(Addrs)

Phases == {"seek", "request", "renew", "rebind"}

\* An exchange under way, and a lease.
Exchanges == [phase : Phases, xid : 1 .. 2 * MaxExchanges, tries : 1..Attempts,
              due : BOOLEAN, server : Servers \cup {None}, asks : SUBSET Addrs]
Leases    == [server : Servers, valid : [Addrs -> 0..Life], age : 0..Life]

ASSUME NoneAssumption == None \notin Exchanges \cup Leases

VARIABLES
  world,         \* of Worlds, fixed in a behaviour
  ex,            \* ex[c]: the exchange c has under way, or None
  lease,         \* lease[c]: nc.lease or nc.leaseV6
  begun,         \* begun[c]: how many exchanges c began
  net,           \* every answer sent
  bound          \* bound[a]: the servers' record of a

vars == <<world, ex, lease, begun, net, bound>>

family == world.family
host   == world.host

FreeUntil == Life + Grace

Set(f, c, v) == [f EXCEPT ![c] = v]

Init == /\ world \in Worlds
        /\ ex = [c \in Clients |-> None] /\ lease = [c \in Clients |-> None]
        /\ begun = [c \in Clients |-> 0]
        /\ net = {} /\ bound = [a \in Addrs |-> [to |-> None, left |-> 0]]

-----------------------------------------------------------------------------
(* Leases *)

Expires(l, a) == l.valid[a] <= l.age
Held(l)       == {a \in Addrs : l.valid[a] > 0}

\* The addresses a client's machine has: the kernel counts their lifetimes.
InUse(c) == IF lease[c] = None THEN {} ELSE {a \in Addrs : ~Expires(lease[c], a)}

\* ExpiryDeadline: a lease ends with the first of its addresses.
Expired(l) == \E a \in Held(l) : Expires(l, a)

\* Defect: an expired address is not looked for.
Remaining_Wraps(l, a) == l.valid[a] - l.age

\* Defect: an address a Reply does not mention has its whole lifetime again.
Remaining_Renewed(l, a) == l.valid[a]

\* remainingV6Address
Remaining(l, a) == IF Expires(l, a) THEN 0 ELSE l.valid[a] - l.age

\* parseLease and parseRenewedLease: a renewal may omit all but its type.
LeaseV4(c, m) ==
  LET kept == m.terse /\ lease[c] # None
  IN [server |-> IF kept THEN lease[c].server ELSE m.server,
      valid  |-> [a \in Addrs |-> IF a \in (IF kept THEN Held(lease[c]) ELSE m.gives)
                                  THEN Life ELSE 0],
      age    |-> 0]

\* parseLeaseV6Reply and parseRenewedLeaseV6: lifetime zero withdraws an
\* address, one not mentioned keeps what it has left.
LeaseV6(c, m) ==
  [server |-> m.server,
   valid  |-> [a \in Addrs |-> IF a \in m.gives THEN Life
                               ELSE IF a \in m.ends \/ lease[c] = None THEN 0
                               ELSE Remaining(lease[c], a)],
   age    |-> 0]

Parsed(c, m) == IF family = "v4" THEN LeaseV4(c, m) ELSE LeaseV6(c, m)

-----------------------------------------------------------------------------
(* Asking *)

Tries(p) == IF p \in {"seek", "request"} \/ (family = "v4" /\ p = "rebind")
            THEN Attempts ELSE 1

\* Every DHCPv6 exchange listens on the same port of its host.
PortFree(c) == family = "v4" \/ \A d \in Clients : host[d] = host[c] => ex[d] = None

\* buildDiscover, buildRequest, buildRenew, buildRebind and DHCPv6's: all but
\* the first and the last name or address a server. Attempts send the same again.
Ask(c, phase, xid, server, asks) ==
  ex' = Set(ex, c, [phase |-> phase, xid |-> xid, tries |-> 1, due |-> FALSE,
                    server |-> server, asks |-> asks])

\* The exchanges begun, by client and number.
Begun == {e \in Clients \X (1..MaxExchanges) : e[2] <= begun[e[1]]}

\* A new exchange and its transaction id; the one after it is a REQUEST's.
Begin(c, phase, server, asks) ==
  /\ ex[c] = None /\ PortFree(c)
  /\ Cardinality(Begun) < MaxExchanges
  /\ begun' = Set(begun, c, begun[c] + 1)
  /\ Ask(c, phase, 2 * begun[c] + 1, server, asks)

\* runDHCPv4, runDHCPv6
Acquire(c) ==
  /\ lease[c] = None /\ Begin(c, "seek", None, {})
  /\ UNCHANGED <<world, lease, net, bound>>

\* renewLease, rebindLease, renewLeaseV6, rebindLeaseV6
Extend(c, phase) ==
  /\ lease[c] # None /\ ~Expired(lease[c])
  /\ Begin(c, phase, lease[c].server, Held(lease[c]))
  /\ UNCHANGED <<world, lease, net, bound>>

\* The attempt's time is up: the next one, or no answer.
Timeout(c) ==
  /\ ex[c] # None /\ ex[c].due
  /\ ex' = Set(ex, c, IF ex[c].tries < Tries(ex[c].phase)
                      THEN [ex[c] EXCEPT !.tries = @ + 1, !.due = FALSE] ELSE None)
  /\ UNCHANGED <<world, lease, begun, net, bound>>

\* A message cannot be sent, or the context is cancelled.
Abandon(c) ==
  /\ ex[c] # None
  /\ ex' = Set(ex, c, None)
  /\ UNCHANGED <<world, lease, begun, net, bound>>

-----------------------------------------------------------------------------
(* Answers *)

\* A packet socket sees every answer on the link, a renewal's connected socket
\* what its server sends this client, the DHCPv6 port what is sent to its host.
Reaches(c, m) ==
  \/ family = "v4" /\ ex[c].phase # "renew"
  \/ family = "v4" /\ ex[c].phase = "renew" /\ m.to = c /\ m.server = ex[c].server
  \/ family = "v6" /\ host[m.to] = host[c]

\* Defect: the transaction id is not compared.
Mine_AnyXid(c, m) == IF family = "v4" THEN m.to = c ELSE host[m.to] = host[c]

\* Defect: the hardware address (the client's DUID) is not compared.
Mine_AnyClient(c, m) == m.xid = ex[c].xid

\* The interfaces of one host share its DUID.
Mine(c, m) == /\ m.xid = ex[c].xid
              /\ IF family = "v4" THEN m.to = c ELSE host[m.to] = host[c]

\* A DHCPv6 Reply is the chosen server's, except to a rebind; a DHCPACK may be
\* anyone's.
FromServer(c, m) == \/ family = "v4" \/ ex[c].phase = "rebind"
                    \/ m.server = ex[c].server

Offered(c, m)  == /\ ex[c].phase = "seek" /\ m.type = "offer"
                  /\ Mine(c, m) /\ m.gives # {}
Answered(c, m) == /\ ex[c].phase # "seek" /\ m.type = "ack"
                  /\ Mine(c, m) /\ FromServer(c, m)
Denied(c, m)   == family = "v4" /\ m.type = "nak" /\ Mine(c, m)
Stray(c, m)    == ~Offered(c, m) /\ ~Answered(c, m) /\ ~Denied(c, m)

Hears(c, m) == ex[c] # None /\ m \in net /\ Reaches(c, m)

\* doDiscover and doSolicit return: the offer is asked for, by DHCPv4 under the
\* same transaction id.
Choose(c, m) ==
  /\ Hears(c, m) /\ Offered(c, m)
  /\ Ask(c, "request", IF family = "v4" THEN ex[c].xid ELSE ex[c].xid + 1, m.server, m.gives)
  /\ UNCHANGED <<world, lease, begun, net, bound>>

\* The IAID of a DHCPv6 answer must be this interface's, and an address has to
\* be left; without any a renewed lease is lost.
Accept(c, m) ==
  /\ Hears(c, m) /\ Answered(c, m)
  /\ ex' = Set(ex, c, None)
  /\ lease' = IF family = "v6" /\ m.to # c THEN lease
              ELSE Set(lease, c, IF Held(Parsed(c, m)) = {} THEN None ELSE Parsed(c, m))
  /\ UNCHANGED <<world, begun, net, bound>>

\* errDHCPv4NAK ends the exchange and the lease.
Refused(c, m) ==
  /\ Hears(c, m) /\ Denied(c, m)
  /\ ex' = Set(ex, c, None) /\ lease' = Set(lease, c, None)
  /\ UNCHANGED <<world, begun, net, bound>>

\* Defect: every message starts the wait anew.
PassOver_Waits(c, m) ==
  /\ Hears(c, m) /\ Stray(c, m)
  /\ ex' = Set(ex, c, [ex[c] EXCEPT !.due = FALSE])
  /\ UNCHANGED <<world, lease, begun, net, bound>>

\* Another answer than the one awaited is passed over, but costs doSolicit and
\* doRequestV6 an attempt and ends a DHCPv4 renewal.
PassOver(c, m) ==
  /\ Hears(c, m) /\ Stray(c, m)
  /\ LET spends == family = "v6" /\ ex[c].phase \in {"seek", "request"}
         fails  == family = "v4" /\ ex[c].phase = "renew"
     IN ex' = Set(ex, c, IF fails \/ (spends /\ ex[c].tries = Attempts) THEN None
                         ELSE IF spends THEN [ex[c] EXCEPT !.tries = @ + 1, !.due = FALSE]
                         ELSE ex[c])
  /\ UNCHANGED <<world, lease, begun, net, bound>>

-----------------------------------------------------------------------------
(* The end of a lease *)

\* expireV4, expireV6
Expire(c) ==
  /\ ex[c] = None /\ lease[c] # None /\ Expired(lease[c])
  /\ lease' = Set(lease, c, None)
  /\ UNCHANGED <<world, ex, begun, net, bound>>

\* release: the server hears of it or it does not.
Release(c) ==
  /\ ex[c] = None /\ lease[c] # None
  /\ lease' = Set(lease, c, None)
  /\ \/ UNCHANGED bound
     \/ bound' = [a \in Addrs |-> IF a \in Held(lease[c]) /\ bound[a].to = c
                                  THEN [to |-> None, left |-> 0] ELSE bound[a]]
  /\ UNCHANGED <<world, ex, begun, net>>

-----------------------------------------------------------------------------
(* The servers and the clock *)

Free(a, c) == bound[a].left = 0 \/ bound[a].to = c
Bound(a, c) == bound[a].left > 0 /\ bound[a].to = c

\* s is the server c's request is for, or it is for any.
Hearing(s, c) == /\ ex[c] # None /\ Cardinality(net) < MaxAnswers
                 /\ ex[c].phase \in {"request", "renew"} => ex[c].server = s

\* Extending, a server needs the binding; granting, a free address.
Grantable(c) == {a \in ex[c].asks : IF ex[c].phase = "request" THEN Free(a, c) ELSE Bound(a, c)}

Answer(s, c, type, gives, ends, terse) ==
  /\ net' = net \cup {[type |-> type, to |-> c, xid |-> ex[c].xid, server |-> s,
                       gives |-> gives, ends |-> ends, terse |-> terse]}
  /\ bound' = IF type # "ack" THEN bound
              ELSE [a \in Addrs |-> IF a \in gives THEN [to |-> c, left |-> FreeUntil]
                                    ELSE bound[a]]
  /\ UNCHANGED <<world, ex, lease, begun>>

\* To a DHCPDISCOVER or a SOLICIT.
Offer(s, c) ==
  /\ Hearing(s, c) /\ ex[c].phase = "seek"
  /\ \E gives \in SUBSET {a \in Addrs : Free(a, c)} :
       /\ gives # {} /\ (family = "v4" => Cardinality(gives) = 1)
       /\ Answer(s, c, "offer", gives, {}, FALSE)

\* To a DHCPREQUEST: the address or a NAK; an extension may be terse.
GrantV4(s, c) ==
  /\ Hearing(s, c) /\ family = "v4" /\ ex[c].phase # "seek"
  /\ IF Grantable(c) = {} THEN Answer(s, c, "nak", {}, {}, FALSE)
     ELSE \E terse \in {FALSE, ex[c].phase # "request"} :
            Answer(s, c, "ack", ex[c].asks, {}, terse)

\* To a REQUEST, RENEW or REBIND: each address granted, withdrawn or passed over.
GrantV6(s, c) ==
  /\ Hearing(s, c) /\ family = "v6" /\ ex[c].phase # "seek"
  /\ \E gives \in SUBSET Grantable(c) : \E ends \in SUBSET (ex[c].asks \ gives) :
       Answer(s, c, "ack", gives, ends, FALSE)

Less(n) == IF n = 0 THEN 0 ELSE n - 1

\* Attempts whose time is up end before the clock goes on.
Tick ==
  /\ \A c \in Clients : ex[c] # None => ~ex[c].due
  /\ ex' = [c \in Clients |-> IF ex[c] = None THEN None ELSE [ex[c] EXCEPT !.due = TRUE]]
  /\ lease' = [c \in Clients |-> IF lease[c] = None THEN None
                                 ELSE [lease[c] EXCEPT !.age = IF @ < Life THEN @ + 1 ELSE @]]
  /\ bound' = [a \in Addrs |-> [bound[a] EXCEPT !.left = Less(@)]]
  /\ UNCHANGED <<world, begun, net>>

ClientStep(c) ==
  \/ Acquire(c) \/ \E phase \in {"renew", "rebind"} : Extend(c, phase)
  \/ Timeout(c) \/ Abandon(c) \/ Expire(c) \/ Release(c)
  \/ \E m \in net : Choose(c, m) \/ Accept(c, m) \/ Refused(c, m) \/ PassOver(c, m)

Next == Tick \/ (\E c \in Clients : ClientStep(c)) \/ (\E s \in Servers, c \in Clients : Offer(s, c) \/ GrantV4(s, c) \/ GrantV6(s, c))

Spec == Init /\ [][Next]_vars

\* Clocks run, and a read returns at its deadline.
FairSpec == Spec /\ WF_vars(Tick) /\ \A c \in Clients : WF_vars(Timeout(c))

-----------------------------------------------------------------------------
(* Properties *)

\* Every variable has its type: in particular no address is held with a
\* lifetime that subtracting the elapsed time has taken below zero
\* (remainingV6Address).
TypeOK ==
  /\ world \in Worlds
  /\ \A c \in Clients :
       /\ begun[c] \in 0..MaxExchanges
       /\ ex[c] \in Exchanges \cup {None} /\ lease[c] \in Leases \cup {None}
  /\ bound \in [Addrs -> [to : Clients \cup {None}, left : 0..FreeUntil]]

\* A client uses an address only while the servers have it bound to that
\* client, and not for longer: so no two clients use the same one. Whatever
\* answers arrive late, twice, out of order or for somebody else
\* (recvResponse, doSolicit, doRequestV6, readLeaseV6Reply, parseRenewedLease,
\* parseRenewedLeaseV6).
Entitled ==
  \A c \in Clients : \A a \in InUse(c) :
    /\ bound[a].to = c
    /\ lease[c].valid[a] - lease[c].age <= bound[a].left

\* Every exchange ends, however many other messages arrive meanwhile: the
\* deadline of a read is not moved by what is read (recvResponse,
\* readLeaseV6Reply), and the attempts are counted.
Ends == \A c \in Clients : (ex[c] # None) ~> (ex[c] = None)
=============================================================================
