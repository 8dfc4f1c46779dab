------------------------- MODULE NicExchangeProofs -------------------------
(***************************************************************************)
(* Proofs about NicExchange for any number of clients, servers, addresses, *)
(* exchanges and answers, any lifetime and any number of attempts that     *)
(* fits the servers' grace: type correctness, and that a client uses an    *)
(* address only while the servers have it bound to that client. The        *)
(* inductive invariant follows the transaction ids: an answer that bears   *)
(* the id of the exchange under way was sent during that exchange, so its  *)
(* addresses are still bound, for their lifetime at least.                 *)
(***************************************************************************)
EXTENDS NicExchange, FiniteSetTheorems, TLAPS

\* What servers send.
Answers == [type : {"offer", "ack", "nak"}, to : Clients, xid : 1 .. 2 * MaxExchanges,
            server : Servers, gives : SUBSET Addrs, ends : SUBSET Addrs, terse : BOOLEAN]

(* TypeOK says what the fields of the functions hold; a step needs to know   *)
(* that they are functions, and that the network carries answers.            *)
TypeInv == /\ TypeOK
           /\ ex \in [Clients -> Exchanges \cup {None}]
           /\ lease \in [Clients -> Leases \cup {None}]
           /\ begun \in [Clients -> 0..MaxExchanges]
           /\ net \subseteq Answers

(* Transaction ids grow: those of the exchange under way are the last two,   *)
(* and before its first answer was chosen there are only offers for it.      *)
Numbered ==
  \A c \in Clients :
    /\ ex[c] # None => ex[c].xid \in {2 * begun[c] - 1, 2 * begun[c]}
    /\ \A m \in net : m.to = c => m.xid <= 2 * begun[c]
    /\ ex[c] # None /\ ex[c].phase = "seek" =>
         /\ ex[c].xid = 2 * begun[c] - 1
         /\ \A m \in net : m.to = c /\ m.xid >= ex[c].xid =>
              m.xid = ex[c].xid /\ m.type = "offer"

(* A client asks to extend exactly what it holds, and for a lease only when  *)
(* it has none.                                                              *)
AsksInOrder ==
  \A c \in Clients : ex[c] # None =>
    IF ex[c].phase \in {"renew", "rebind"}
    THEN lease[c] # None /\ ex[c].asks = Held(lease[c])
    ELSE lease[c] = None

(* DHCPv4 is about one address at a time.                                    *)
OneAddress ==
  family = "v4" =>
    /\ \A m \in net : m.type = "offer" => \E a \in Addrs : m.gives = {a}
    /\ \A c \in Clients :
         /\ lease[c] # None => \E a \in Addrs : Held(lease[c]) = {a}
         /\ ex[c] # None /\ ex[c].phase # "seek" => \E a \in Addrs : ex[c].asks = {a}

\* The clock's ticks since the message of an exchange was first sent, at most.
Elapsed(e) == e.tries - 1 + (IF e.due THEN 1 ELSE 0)

\* An answer that grants, and that c may take for one to its last message.
Grants(c, m) == /\ ex[c] # None /\ ex[c].phase # "seek"
                /\ m.to = c /\ m.type = "ack" /\ m.xid = ex[c].xid

(* Such an answer was sent since that message: what it gives is bound to the *)
(* client since then. By DHCPv4 it gives what was asked for.                 *)
Promised ==
  \A c \in Clients : \A m \in net : Grants(c, m) =>
    /\ \A a \in m.gives : /\ bound[a].to = c
                          /\ FreeUntil - Elapsed(ex[c]) <= bound[a].left
    /\ family = "v4" => m.gives = ex[c].asks

Safe == Numbered /\ AsksInOrder /\ OneAddress /\ Promised /\ Entitled

IInv == TypeInv /\ Safe

-----------------------------------------------------------------------------
(* Type correctness *)

USE LifeAssumption, AttemptsAssumption, GraceAssumption, BoundsAssumption,
    NoneAssumption
USE DEF Set, family, host, FreeUntil

(* Below the bound on all exchanges every client is below it.                 *)
LEMMA RoomForOne ==
  ASSUME begun \in [Clients -> 0..MaxExchanges], Cardinality(Begun) < MaxExchanges,
         NEW c \in Clients
  PROVE  begun[c] < MaxExchanges
<1>1. IsFiniteSet(Begun)
  <2>1. IsFiniteSet(1..MaxExchanges)
    BY FS_Interval
  <2>2. IsFiniteSet(Clients \X (1..MaxExchanges))
    BY <2>1, FS_Product, FiniteAssumption
  <2> QED
    BY <2>2, FS_Subset DEF Begun
<1>2. SUFFICES ASSUME begun[c] = MaxExchanges PROVE FALSE
  OBVIOUS
<1>3. {c} \X (1..MaxExchanges) \subseteq Begun
  BY <1>2 DEF Begun
<1>4. Cardinality({c} \X (1..MaxExchanges)) = MaxExchanges
  <2>1. IsFiniteSet({c}) /\ Cardinality({c}) = 1
    BY FS_Singleton
  <2>2. IsFiniteSet(1..MaxExchanges) /\ Cardinality(1..MaxExchanges) = MaxExchanges
    BY FS_Interval
  <2>3. Cardinality({c} \X (1..MaxExchanges)) = Cardinality({c}) * Cardinality(1..MaxExchanges)
    BY <2>1, <2>2, FS_Product
  <2> QED
    BY <2>1, <2>2, <2>3
<1>5. Cardinality({c} \X (1..MaxExchanges)) <= Cardinality(Begun)
  BY <1>1, <1>3, FS_Subset
<1>6. Cardinality(Begun) \in Nat
  BY <1>1, FS_CardinalityType
<1> QED
  BY <1>4, <1>5, <1>6

LEMMA TypeInit == Init => TypeInv
BY DEF Init, TypeInv, TypeOK

(* What remains of an address's lifetime is a lifetime.                       *)
LEMMA RemainingType ==
  ASSUME NEW l \in Leases, NEW a \in Addrs
  PROVE  Remaining(l, a) \in 0..Life
<1>1. l.valid[a] \in 0..Life /\ l.age \in 0..Life
  BY DEF Leases
<1> QED
  BY <1>1 DEF Remaining, Expires

(* An answer is parsed to a lease, whatever it mentions or omits.             *)
LEMMA ParsedType ==
  ASSUME TypeInv, NEW c \in Clients, NEW m \in net
  PROVE  Parsed(c, m) \in Leases
<1>1. m.server \in Servers
  BY DEF TypeInv, Answers
<1>2. lease[c] # None => lease[c] \in Leases /\ lease[c].server \in Servers
  BY DEF TypeInv, Leases
<1>3. LeaseV4(c, m) \in Leases
  BY <1>1, <1>2 DEF LeaseV4, Leases
<1>4. LeaseV6(c, m) \in Leases
  <2> DEFINE V == [a \in Addrs |-> IF a \in m.gives THEN Life
                                  ELSE IF a \in m.ends \/ lease[c] = None THEN 0
                                  ELSE Remaining(lease[c], a)]
  <2>1. V \in [Addrs -> 0..Life]
    BY <1>2, RemainingType
  <2>2. LeaseV6(c, m) = [server |-> m.server, valid |-> V, age |-> 0]
    BY DEF LeaseV6
  <2> QED
    BY <1>1, <2>1, <2>2 DEF Leases
<1> QED
  BY <1>3, <1>4 DEF Parsed

(* A message that is sent, first or again, is one of an exchange.             *)
LEMMA AskType ==
  ASSUME TypeInv, NEW c \in Clients, NEW phase \in Phases,
         NEW xid \in 1 .. 2 * MaxExchanges, NEW server \in Servers \cup {None},
         NEW asks \in SUBSET Addrs, Ask(c, phase, xid, server, asks)
  PROVE  ex' \in [Clients -> Exchanges \cup {None}]
<1>1. [phase |-> phase, xid |-> xid, tries |-> 1, due |-> FALSE,
       server |-> server, asks |-> asks] \in Exchanges
  BY DEF Exchanges
<1> QED
  BY <1>1 DEF TypeInv, Ask

LEMMA BeginType ==
  ASSUME TypeInv, NEW c \in Clients, NEW phase \in Phases,
         NEW server \in Servers \cup {None}, NEW asks \in SUBSET Addrs,
         Begin(c, phase, server, asks)
  PROVE  /\ ex' \in [Clients -> Exchanges \cup {None}]
         /\ begun' \in [Clients -> 0..MaxExchanges]
<1>1. begun[c] \in 0..MaxExchanges /\ begun[c] < MaxExchanges
  BY RoomForOne DEF TypeInv, Begin
<1>2. 2 * begun[c] + 1 \in 1 .. 2 * MaxExchanges
  BY <1>1
<1> QED
  BY <1>1, <1>2, AskType DEF TypeInv, Begin

LEMMA AttemptLeft ==
  ASSUME NEW e \in Exchanges, e.tries # Attempts
  PROVE  e.tries < Attempts
BY DEF Exchanges

(* The next attempt of an exchange is one, as long as attempts are left.      *)
LEMMA RetryType ==
  ASSUME NEW e \in Exchanges, e.tries < Attempts
  PROVE  [e EXCEPT !.tries = @ + 1, !.due = FALSE] \in Exchanges
<1>1. e.tries + 1 \in 1..Attempts
  BY DEF Exchanges
<1>2. \A t \in 1..Attempts : [[e EXCEPT !.tries = t] EXCEPT !.due = FALSE] \in Exchanges
  BY DEF Exchanges
<1>3. [[e EXCEPT !.tries = e.tries + 1] EXCEPT !.due = FALSE] =
      [e EXCEPT !.tries = @ + 1, !.due = FALSE]
  BY DEF Exchanges
<1> QED
  BY <1>1, <1>2, <1>3

(* What a client does keeps the types.                                        *)
LEMMA ClientTypes ==
  ASSUME TypeInv, Numbered, NEW c \in Clients, ClientStep(c)
  PROVE  TypeInv'
<1> USE DEF TypeInv, TypeOK
<1>1. CASE Acquire(c)
  <2>1. Begin(c, "seek", None, {})
    BY <1>1 DEF Acquire
  <2>2. "seek" \in Phases /\ None \in Servers \cup {None} /\ {} \in SUBSET Addrs
    BY DEF Phases
  <2>3. ex' \in [Clients -> Exchanges \cup {None}] /\ begun' \in [Clients -> 0..MaxExchanges]
    BY <2>1, <2>2, BeginType
  <2> QED
    BY <1>1, <2>3 DEF Acquire
<1>2. ASSUME NEW phase \in {"renew", "rebind"}, Extend(c, phase) PROVE TypeInv'
  <2>1. lease[c].server \in Servers /\ Held(lease[c]) \in SUBSET Addrs
    BY <1>2 DEF Extend, Leases, Held
  <2>2. Begin(c, phase, lease[c].server, Held(lease[c]))
    BY <1>2 DEF Extend
  <2> QED
    BY <1>2, <2>1, <2>2, BeginType DEF Extend, Phases
<1>3. CASE Timeout(c)
  <2>1. ex[c] \in Exchanges
    BY <1>3 DEF Timeout
  <2>2. ex[c].tries < Tries(ex[c].phase) => ex[c].tries < Attempts
    BY <2>1 DEF Exchanges, Tries
  <2>3. ex' = Set(ex, c, None) \/ \E e \in Exchanges : ex' = Set(ex, c, e)
    BY <1>3, <2>1, <2>2, RetryType DEF Timeout
  <2> QED
    BY <1>3, <2>3 DEF Timeout
<1>4. CASE Abandon(c) \/ Expire(c)
  BY <1>4 DEF Abandon, Expire
<1>5. CASE Release(c)
  BY <1>5 DEF Release
<1>6. ASSUME NEW m \in net, Choose(c, m) PROVE TypeInv'
  <2>1. ex[c] \in Exchanges /\ ex[c].phase = "seek" /\ m \in Answers
    BY <1>6 DEF Choose, Hears, Offered
  <2>2. ex[c].xid \in 1 .. 2 * MaxExchanges /\ ex[c].xid = 2 * begun[c] - 1
    BY <1>6, <2>1 DEF Exchanges, Numbered, Choose, Hears
  <2>3. (IF family = "v4" THEN ex[c].xid ELSE ex[c].xid + 1) \in 1 .. 2 * MaxExchanges
    BY <2>2
  <2> QED
    BY <1>6, <2>1, <2>3, AskType DEF Choose, Answers, Phases
<1>7. ASSUME NEW m \in net, Accept(c, m) PROVE TypeInv'
  BY <1>7, ParsedType DEF Accept
<1>8. ASSUME NEW m \in net, Refused(c, m) PROVE TypeInv'
  BY <1>8 DEF Refused
<1>9. ASSUME NEW m \in net, PassOver(c, m) PROVE TypeInv'
  <2>1. ex[c] \in Exchanges
    BY <1>9 DEF PassOver, Hears
  <2>2. ex[c].tries # Attempts => ex[c].tries < Attempts
    BY <2>1, AttemptLeft
  <2>3. ex' = Set(ex, c, None) \/ \E e \in Exchanges : ex' = Set(ex, c, e)
    BY <1>9, <2>1, <2>2, RetryType DEF PassOver
  <2> QED
    BY <1>9, <2>3 DEF PassOver
<1> QED
  BY <1>1, <1>2, <1>3, <1>4, <1>5, <1>6, <1>7, <1>8, <1>9 DEF ClientStep

(* A server's answer bears a client's transaction id, and keeps the types.    *)
LEMMA AnswerTypes ==
  ASSUME TypeInv, NEW s \in Servers, NEW c \in Clients, ex[c] # None,
         NEW type \in {"offer", "ack", "nak"}, NEW gives \in SUBSET Addrs,
         NEW ends \in SUBSET Addrs, NEW terse \in BOOLEAN,
         Answer(s, c, type, gives, ends, terse)
  PROVE  TypeInv'
<1>1. ex[c].xid \in 1 .. 2 * MaxExchanges
  BY DEF TypeInv, Exchanges
<1>2. [type |-> type, to |-> c, xid |-> ex[c].xid, server |-> s,
       gives |-> gives, ends |-> ends, terse |-> terse] \in Answers
  BY <1>1 DEF Answers
<1>3. net' \subseteq Answers
  BY <1>2 DEF Answer, TypeInv
<1>4. [to |-> c, left |-> FreeUntil] \in [to : Clients \cup {None}, left : 0..FreeUntil]
  OBVIOUS
<1>5. bound' \in [Addrs -> [to : Clients \cup {None}, left : 0..FreeUntil]]
  BY <1>4 DEF Answer, TypeInv, TypeOK
<1> QED
  BY <1>3, <1>5 DEF Answer, TypeInv, TypeOK

LEMMA ServerTypes ==
  ASSUME TypeInv, NEW s \in Servers, NEW c \in Clients,
         Offer(s, c) \/ GrantV4(s, c) \/ GrantV6(s, c)
  PROVE  TypeInv'
<1>1. ex[c] # None /\ ex[c].asks \in SUBSET Addrs
  BY DEF Offer, GrantV4, GrantV6, Hearing, TypeInv, Exchanges
<1>2. Grantable(c) \subseteq ex[c].asks
  BY DEF Grantable
<1>3. CASE Offer(s, c)
  <2>1. PICK gives \in SUBSET Addrs : Answer(s, c, "offer", gives, {}, FALSE)
    BY <1>3 DEF Offer
  <2> QED
    BY <1>1, <2>1, AnswerTypes
<1>4. CASE GrantV4(s, c)
  <2>1. CASE Answer(s, c, "nak", {}, {}, FALSE)
    BY <1>1, <2>1, AnswerTypes
  <2>2. CASE \E terse \in {FALSE, ex[c].phase # "request"} :
               Answer(s, c, "ack", ex[c].asks, {}, terse)
    BY <1>1, <2>2, AnswerTypes
  <2> QED
    BY <1>4, <2>1, <2>2 DEF GrantV4
<1>5. CASE GrantV6(s, c)
  <2>1. PICK gives \in SUBSET Addrs, ends \in SUBSET Addrs :
          Answer(s, c, "ack", gives, ends, FALSE)
    BY <1>1, <1>2, <1>5 DEF GrantV6
  <2> QED
    BY <1>1, <2>1, AnswerTypes
<1> QED
  BY <1>3, <1>4, <1>5

(* The clock moves deadlines, ages and bindings within their types.           *)
LEMMA TickTypes ==
  ASSUME TypeInv, Tick
  PROVE  TypeInv'
<1>1. \A e \in Exchanges : [e EXCEPT !.due = TRUE] \in Exchanges
  BY DEF Exchanges
<1>2. \A l \in Leases : [l EXCEPT !.age = IF @ < Life THEN @ + 1 ELSE @] \in Leases
  <2>1. ASSUME NEW l \in Leases PROVE (IF l.age < Life THEN l.age + 1 ELSE l.age) \in 0..Life
    BY DEF Leases
  <2>2. \A l \in Leases : \A age \in 0..Life : [l EXCEPT !.age = age] \in Leases
    BY DEF Leases
  <2> QED
    BY <2>1, <2>2
<1>3. \A b \in [to : Clients \cup {None}, left : 0..FreeUntil] :
        [b EXCEPT !.left = Less(@)] \in [to : Clients \cup {None}, left : 0..FreeUntil]
  <2>1. \A n \in 0..FreeUntil : Less(n) \in 0..FreeUntil
    BY DEF Less
  <2> QED
    BY <2>1
<1> QED
  BY <1>1, <1>2, <1>3 DEF Tick, TypeInv, TypeOK

LEMMA TypeStep ==
  ASSUME TypeInv, Numbered, [Next]_vars
  PROVE  TypeInv'
<1>1. CASE UNCHANGED vars
  BY <1>1 DEF vars, TypeInv, TypeOK
<1>2. CASE Next
  BY <1>2, TickTypes, ClientTypes, ServerTypes DEF Next
<1> QED
  BY <1>1, <1>2

-----------------------------------------------------------------------------
(* The inductive invariant *)

LEMMA SafeInit == Init => Safe
BY DEF Init, Safe, Numbered, AsksInOrder, OneAddress, Promised, Entitled, InUse

(* A message is sent no more often than the servers' grace allows for.        *)
LEMMA ElapsedBound ==
  ASSUME NEW e \in Exchanges
  PROVE  Elapsed(e) \in 0..Grace
BY DEF Exchanges, Elapsed

(* An exchange that ends has no more answers to take: all that counts is that *)
(* the lease it leaves, if any, is bound to the client, and that only the     *)
(* client's own bindings changed.                                             *)
LEMMA EndSafe ==
  ASSUME TypeInv, TypeInv', Safe, NEW c \in Clients, NEW l,
         ex' = Set(ex, c, None), lease' = Set(lease, c, l),
         UNCHANGED <<world, begun, net>>,
         \A a \in Addrs : bound'[a] = bound[a] \/ (bound[a].to = c /\ l = None),
         l # None =>
           /\ family = "v4" => \E a \in Addrs : Held(l) = {a}
           /\ \A a \in Addrs : ~Expires(l, a) =>
                bound[a].to = c /\ l.valid[a] - l.age <= bound[a].left
  PROVE  Safe'
<1>1. /\ ex'[c] = None /\ lease'[c] = l
      /\ \A d \in Clients \ {c} : ex'[d] = ex[d] /\ lease'[d] = lease[d]
  BY DEF TypeInv
<1>2. Numbered'
  BY <1>1 DEF Safe, Numbered
<1>3. AsksInOrder'
  BY <1>1 DEF Safe, AsksInOrder, Held
<1>4. OneAddress'
  BY <1>1 DEF Safe, OneAddress, Held
<1>5. Promised'
  <2>1. \A m \in net : m.gives \subseteq Addrs
    BY DEF TypeInv, Answers
  <2>2. ASSUME NEW d \in Clients, NEW m \in net, Grants(d, m)'
        PROVE  d # c /\ Grants(d, m)
    BY <1>1, <2>2 DEF Grants
  <2> QED
    BY <1>1, <2>1, <2>2 DEF Safe, Promised, Elapsed
<1>6. Entitled'
  BY <1>1 DEF Safe, Entitled, InUse, Expires
<1> QED
  BY <1>2, <1>3, <1>4, <1>5, <1>6 DEF Safe

(* An attempt more of the same message keeps the invariant: time has been     *)
(* counted for it.                                                            *)
LEMMA RetrySafe ==
  ASSUME TypeInv, Safe, NEW c \in Clients, ex[c] # None, NEW e \in Exchanges,
         e.phase = ex[c].phase, e.xid = ex[c].xid, e.asks = ex[c].asks,
         Elapsed(ex[c]) <= Elapsed(e),
         ex' = Set(ex, c, e), UNCHANGED <<world, lease, begun, net, bound>>
  PROVE  Safe'
<1>1. /\ ex'[c] = e /\ e # None
      /\ \A d \in Clients \ {c} : ex'[d] = ex[d]
  BY DEF TypeInv
<1>2. Numbered'
  BY <1>1 DEF Safe, Numbered
<1>3. AsksInOrder'
  BY <1>1 DEF Safe, AsksInOrder, Held
<1>4. OneAddress'
  BY <1>1 DEF Safe, OneAddress, Held
<1>5. Promised'
  <2>1. Elapsed(e) \in 0..Grace /\ Elapsed(ex[c]) \in 0..Grace
    BY ElapsedBound DEF TypeInv
  <2>2. \A a \in Addrs : bound[a].left \in 0..FreeUntil
    BY DEF TypeInv, TypeOK
  <2>3. \A m \in net : m.gives \subseteq Addrs
    BY DEF TypeInv, Answers
  <2>4. ASSUME NEW m \in net, Grants(c, m)'
        PROVE  /\ \A a \in m.gives : /\ bound[a].to = c
                                     /\ FreeUntil - Elapsed(e) <= bound[a].left
               /\ family = "v4" => m.gives = e.asks
    <3>1. Grants(c, m)
      BY <1>1, <2>4 DEF Grants
    <3> QED
      BY <2>1, <2>2, <2>3, <3>1 DEF Safe, Promised
  <2>5. \A d \in Clients \ {c} : \A m \in net : Grants(d, m)' => Grants(d, m)
    BY <1>1 DEF Grants
  <2> QED
    BY <1>1, <2>4, <2>5 DEF Safe, Promised, Elapsed
<1>6. Entitled'
  BY DEF Safe, Entitled, InUse, Expires
<1> QED
  BY <1>2, <1>3, <1>4, <1>5, <1>6 DEF Safe

(* A new exchange bears an id no answer has; an extension asks for what the   *)
(* client holds.                                                              *)
LEMMA BeginSafe ==
  ASSUME TypeInv, TypeInv', Safe, NEW c \in Clients, NEW phase \in {"seek", "renew", "rebind"},
         NEW server, NEW asks, Begin(c, phase, server, asks),
         IF phase = "seek" THEN lease[c] = None
                           ELSE lease[c] # None /\ asks = Held(lease[c]),
         UNCHANGED <<world, lease, net, bound>>
  PROVE  Safe'
<1>1. /\ ex'[c].phase = phase /\ ex'[c].xid = 2 * begun[c] + 1 /\ ex'[c].asks = asks
      /\ \A d \in Clients \ {c} : ex'[d] = ex[d] /\ begun'[d] = begun[d]
      /\ begun'[c] = begun[c] + 1
  BY DEF TypeInv, Begin, Ask
<1>2. \A d \in Clients : begun[d] \in Nat
  BY DEF TypeInv
<1>3. \A m \in net : m.xid \in Nat /\ (m.to = c => m.xid <= 2 * begun[c])
  BY DEF Safe, Numbered, TypeInv, Answers
<1>4. Numbered'
  BY <1>1, <1>2, <1>3 DEF Safe, Numbered
<1>5. AsksInOrder'
  BY <1>1 DEF Safe, AsksInOrder, Held
<1>6. OneAddress'
  BY <1>1 DEF Safe, OneAddress, Held
<1>7. Promised'
  <2>1. \A m \in net : ~Grants(c, m)'
    BY <1>1, <1>2, <1>3 DEF Grants
  <2>2. \A d \in Clients \ {c} : \A m \in net : Grants(d, m)' => Grants(d, m)
    BY <1>1 DEF Grants
  <2> QED
    BY <1>1, <2>1, <2>2 DEF Safe, Promised, Elapsed
<1>8. Entitled'
  BY DEF Safe, Entitled, InUse, Expires
<1> QED
  BY <1>4, <1>5, <1>6, <1>7, <1>8 DEF Safe

(* What answers the chosen offer has not been sent yet: under the id of the   *)
(* request there are offers only, or nothing.                                 *)
LEMMA ChooseSafe ==
  ASSUME TypeInv, TypeInv', Safe, NEW c \in Clients, NEW m \in net, Choose(c, m)
  PROVE  Safe'
<1>1. /\ ex[c] # None /\ ex[c].phase = "seek" /\ m.type = "offer"
      /\ ex' = Set(ex, c, [phase |-> "request",
                           xid |-> IF family = "v4" THEN ex[c].xid ELSE ex[c].xid + 1,
                           tries |-> 1, due |-> FALSE, server |-> m.server, asks |-> m.gives])
      /\ UNCHANGED <<world, lease, begun, net, bound>>
  BY DEF Choose, Hears, Offered, Ask
<1>2. /\ ex'[c].phase = "request" /\ ex'[c].asks = m.gives
      /\ ex'[c].xid = IF family = "v4" THEN ex[c].xid ELSE ex[c].xid + 1
      /\ \A d \in Clients \ {c} : ex'[d] = ex[d]
  BY <1>1 DEF TypeInv
<1>3. /\ \A d \in Clients : begun[d] \in Nat
      /\ \A k \in net : k.xid \in Nat
      /\ ex[c].xid \in Nat
  BY <1>1 DEF TypeInv, Answers, Exchanges
<1>4. /\ ex[c].xid = 2 * begun[c] - 1
      /\ \A k \in net : k.to = c /\ k.xid >= ex[c].xid => k.xid = ex[c].xid /\ k.type = "offer"
  BY <1>1 DEF Safe, Numbered
<1>5. Numbered'
  BY <1>1, <1>2, <1>3, <1>4 DEF Safe, Numbered
<1>6. AsksInOrder'
  BY <1>1, <1>2 DEF Safe, AsksInOrder, Held
<1>7. OneAddress'
  BY <1>1, <1>2 DEF Safe, OneAddress, Held
<1>8. Promised'
  <2>1. \A k \in net : ~Grants(c, k)'
    BY <1>1, <1>2, <1>3, <1>4 DEF Grants
  <2>2. \A d \in Clients \ {c} : \A k \in net : Grants(d, k)' => Grants(d, k)
    BY <1>1, <1>2 DEF Grants
  <2> QED
    BY <1>1, <1>2, <2>1, <2>2 DEF Safe, Promised, Elapsed
<1>9. Entitled'
  BY <1>1 DEF Safe, Entitled, InUse, Expires
<1> QED
  BY <1>5, <1>6, <1>7, <1>8, <1>9 DEF Safe

(* What an attempt more does to the count of time.                            *)
LEMMA RetryFacts ==
  ASSUME NEW e \in Exchanges, NEW r, r = [e EXCEPT !.tries = @ + 1, !.due = FALSE]
  PROVE  /\ r.phase = e.phase /\ r.xid = e.xid /\ r.asks = e.asks
         /\ Elapsed(e) <= Elapsed(r)
<1>1. e.tries \in Nat /\ e.due \in BOOLEAN
  BY DEF Exchanges
<1>2. /\ r.phase = e.phase /\ r.xid = e.xid /\ r.asks = e.asks
      /\ r.tries = e.tries + 1 /\ r.due = FALSE
  BY DEF Exchanges
<1> QED
  BY <1>1, <1>2 DEF Elapsed

(* An answer that is taken for the client's own was sent during this          *)
(* exchange: the lease it makes is bound to the client.                       *)
LEMMA AcceptedLease ==
  ASSUME TypeInv, Safe, NEW c \in Clients, NEW m \in net, Accept(c, m), m.to = c
  PROVE  /\ family = "v4" /\ Held(Parsed(c, m)) # {} =>
              \E a \in Addrs : Held(Parsed(c, m)) = {a}
         /\ \A a \in Addrs : ~Expires(Parsed(c, m), a) =>
              /\ bound[a].to = c
              /\ Parsed(c, m).valid[a] - Parsed(c, m).age <= bound[a].left
<1>1. ex[c] \in Exchanges /\ Grants(c, m)
  BY DEF Accept, Hears, Answered, Mine, Grants, TypeInv
<1>2. \A a \in m.gives : bound[a].to = c /\ Life <= bound[a].left
  <2>1. Elapsed(ex[c]) \in 0..Grace
    BY <1>1, ElapsedBound
  <2>2. \A a \in m.gives : /\ bound[a].to = c /\ bound[a].left \in 0..FreeUntil
                          /\ FreeUntil - Elapsed(ex[c]) <= bound[a].left
    BY <1>1 DEF Safe, Promised, TypeInv, TypeOK, Answers
  <2> QED
    BY <2>1, <2>2
<1>3. lease[c] # None => lease[c] \in Leases
  BY DEF TypeInv
<1>4. \A a \in Addrs : lease[c] # None /\ ~Expires(lease[c], a) =>
        bound[a].to = c /\ lease[c].valid[a] - lease[c].age <= bound[a].left
  BY DEF Safe, Entitled, InUse
<1>5. CASE family = "v4"
  <2>1. m.gives = ex[c].asks /\ \E a \in Addrs : ex[c].asks = {a}
    BY <1>1, <1>5 DEF Safe, Promised, OneAddress, Grants
  <2>2. m.terse /\ lease[c] # None => Held(lease[c]) = ex[c].asks
    BY <1>1 DEF Safe, AsksInOrder, Grants
  <2>3. Parsed(c, m).valid = [a \in Addrs |-> IF a \in m.gives THEN Life ELSE 0]
        /\ Parsed(c, m).age = 0
    BY <1>5, <2>1, <2>2 DEF Parsed, LeaseV4
  <2>4. \A a \in Addrs : Parsed(c, m).valid[a] = IF a \in m.gives THEN Life ELSE 0
    BY <2>3
  <2>5. Held(Parsed(c, m)) = m.gives
    BY <2>1, <2>4 DEF Held
  <2>6. \A a \in Addrs : ~Expires(Parsed(c, m), a) => a \in m.gives
    BY <2>3, <2>4 DEF Expires
  <2> QED
    BY <1>2, <2>1, <2>3, <2>4, <2>5, <2>6
<1>6. CASE family # "v4"
  <2>1. Parsed(c, m).valid = [a \in Addrs |-> IF a \in m.gives THEN Life
                               ELSE IF a \in m.ends \/ lease[c] = None THEN 0
                               ELSE Remaining(lease[c], a)]
        /\ Parsed(c, m).age = 0
    BY <1>6 DEF Parsed, LeaseV6
  <2>2. ASSUME NEW a \in Addrs, ~Expires(Parsed(c, m), a)
        PROVE  bound[a].to = c /\ Parsed(c, m).valid[a] - Parsed(c, m).age <= bound[a].left
    <3>1. CASE a \in m.gives
      BY <1>2, <2>1, <3>1
    <3>2. CASE a \notin m.gives
      <4>1. /\ a \notin m.ends /\ lease[c] # None
            /\ Parsed(c, m).valid[a] = Remaining(lease[c], a)
            /\ Remaining(lease[c], a) # 0
        BY <2>1, <2>2, <3>2 DEF Expires
      <4>2. ~Expires(lease[c], a)
        BY <4>1 DEF Remaining
      <4>3. Remaining(lease[c], a) = lease[c].valid[a] - lease[c].age
        BY <4>2 DEF Remaining
      <4>4. Remaining(lease[c], a) \in 0..Life
        BY <1>3, <4>1, RemainingType
      <4> QED
        BY <1>4, <2>1, <4>1, <4>2, <4>3, <4>4
    <3> QED
      BY <3>1, <3>2
  <2> QED
    BY <1>6, <2>2
<1> QED
  BY <1>5, <1>6

(* A lease that stays as it is stays bound.                                   *)
LEMMA LeaseKept ==
  ASSUME Safe, NEW c \in Clients, lease[c] # None
  PROVE  /\ family = "v4" => \E a \in Addrs : Held(lease[c]) = {a}
         /\ \A a \in Addrs : ~Expires(lease[c], a) =>
              bound[a].to = c /\ lease[c].valid[a] - lease[c].age <= bound[a].left
BY DEF Safe, OneAddress, Entitled, InUse

(* What a client does keeps the invariant.                                    *)
LEMMA ClientSafe ==
  ASSUME TypeInv, TypeInv', Safe, NEW c \in Clients, ClientStep(c)
  PROVE  Safe'
<1>0. /\ lease = Set(lease, c, lease[c]) /\ (ex[c] # None => ex[c] \in Exchanges)
      /\ ex[c] = None => ex = Set(ex, c, None)
  BY DEF TypeInv
<1>1. CASE Acquire(c)
  BY <1>1, BeginSafe DEF Acquire
<1>2. ASSUME NEW phase \in {"renew", "rebind"}, Extend(c, phase) PROVE Safe'
  BY <1>2, BeginSafe DEF Extend
<1>3. CASE Timeout(c)
  <2>1. CASE ex[c].tries < Tries(ex[c].phase)
    <3> DEFINE r == [ex[c] EXCEPT !.tries = @ + 1, !.due = FALSE]
    <3>0. ex[c] \in Exchanges /\ ex[c].tries \in 1..Attempts
      BY <1>0, <1>3 DEF Timeout, Exchanges
    <3>1. r \in Exchanges
      <4>1. ex[c].tries < Attempts
        BY <2>1, <3>0 DEF Tries
      <4> QED
        BY <3>0, <4>1, RetryType
    <3>2. /\ r.phase = ex[c].phase /\ r.xid = ex[c].xid /\ r.asks = ex[c].asks
          /\ Elapsed(ex[c]) <= Elapsed(r)
      BY <1>0, <1>3, RetryFacts DEF Timeout
    <3>3. ex' = Set(ex, c, r)
      BY <1>3, <2>1 DEF Timeout
    <3> QED
      BY <1>3, <3>1, <3>2, <3>3, RetrySafe DEF Timeout
  <2>2. CASE ~(ex[c].tries < Tries(ex[c].phase))
    BY <1>0, <1>3, <2>2, EndSafe, LeaseKept DEF Timeout
  <2> QED
    BY <2>1, <2>2
<1>4. CASE Abandon(c)
  BY <1>0, <1>4, EndSafe, LeaseKept DEF Abandon
<1>5. CASE Expire(c)
  BY <1>0, <1>5, EndSafe DEF Expire
<1>6. CASE Release(c)
  <2>1. \A a \in Addrs : bound'[a] = bound[a] \/ bound[a].to = c
    BY <1>6 DEF Release
  <2> QED
    BY <1>0, <1>6, <2>1, EndSafe DEF Release
<1>7. ASSUME NEW m \in net, Choose(c, m) PROVE Safe'
  BY <1>7, ChooseSafe
<1>8. ASSUME NEW m \in net, Accept(c, m) PROVE Safe'
  <2>1. CASE family = "v6" /\ m.to # c
    BY <1>0, <1>8, <2>1, EndSafe, LeaseKept DEF Accept
  <2>2. CASE ~(family = "v6" /\ m.to # c) /\ Held(Parsed(c, m)) = {}
    BY <1>0, <1>8, <2>2, EndSafe DEF Accept
  <2>3. CASE ~(family = "v6" /\ m.to # c) /\ Held(Parsed(c, m)) # {}
    <3>1. m.to = c
      BY <1>8, <2>3, WorldsAssumption DEF Accept, Answered, Mine, TypeInv, TypeOK
    <3>2. lease' = Set(lease, c, Parsed(c, m)) /\ ex' = Set(ex, c, None)
          /\ UNCHANGED <<world, begun, net, bound>>
      BY <1>8, <2>3 DEF Accept
    <3>3. /\ family = "v4" => \E a \in Addrs : Held(Parsed(c, m)) = {a}
          /\ \A a \in Addrs : ~Expires(Parsed(c, m), a) =>
               /\ bound[a].to = c
               /\ Parsed(c, m).valid[a] - Parsed(c, m).age <= bound[a].left
      BY <1>8, <2>3, <3>1, AcceptedLease
    <3> QED
      BY <3>2, <3>3, EndSafe
  <2> QED
    BY <2>1, <2>2, <2>3
<1>9. ASSUME NEW m \in net, Refused(c, m) PROVE Safe'
  BY <1>9, EndSafe DEF Refused
<1>10. ASSUME NEW m \in net, PassOver(c, m) PROVE Safe'
  <2>1. ex[c] \in Exchanges /\ ex[c] # None /\ UNCHANGED <<world, lease, begun, net, bound>>
    BY <1>0, <1>10 DEF PassOver, Hears
  <2>2. CASE ex' = Set(ex, c, None)
    BY <1>0, <2>1, <2>2, EndSafe, LeaseKept
  <2>3. CASE ex' = Set(ex, c, ex[c])
    <3>1. Elapsed(ex[c]) <= Elapsed(ex[c])
      BY <2>1, ElapsedBound
    <3> QED
      BY <2>1, <2>3, <3>1, RetrySafe
  <2>4. CASE /\ ex[c].tries # Attempts
             /\ ex' = Set(ex, c, [ex[c] EXCEPT !.tries = @ + 1, !.due = FALSE])
    <3> DEFINE r == [ex[c] EXCEPT !.tries = @ + 1, !.due = FALSE]
    <3>1. r \in Exchanges
      BY <2>1, <2>4, RetryType, AttemptLeft
    <3>2. /\ r.phase = ex[c].phase /\ r.xid = ex[c].xid /\ r.asks = ex[c].asks
          /\ Elapsed(ex[c]) <= Elapsed(r)
      BY <2>1, RetryFacts
    <3> QED
      BY <2>1, <2>4, <3>1, <3>2, RetrySafe
  <2> QED
    BY <1>10, <2>2, <2>3, <2>4 DEF PassOver
<1> QED
  BY <1>1, <1>2, <1>3, <1>4, <1>5, <1>6, <1>7, <1>8, <1>9, <1>10 DEF ClientStep

(* A server's answer is one to the message under way, and gives only what is  *)
(* bound to that client or to nobody: no other client's lease or pending      *)
(* answer suffers.                                                            *)
LEMMA AnswerSafe ==
  ASSUME TypeInv, Safe, NEW s \in Servers, NEW c \in Clients, ex[c] # None,
         NEW type \in {"offer", "ack", "nak"}, NEW gives \in SUBSET Addrs,
         NEW ends \in SUBSET Addrs, NEW terse \in BOOLEAN,
         Answer(s, c, type, gives, ends, terse),
         type = "offer" => /\ ex[c].phase = "seek"
                           /\ family = "v4" => \E a \in Addrs : gives = {a},
         type # "offer" => ex[c].phase # "seek",
         type = "ack" => /\ \A a \in gives : Free(a, c)
                         /\ family = "v4" => gives = ex[c].asks
  PROVE  Safe'
<1> DEFINE n == [type |-> type, to |-> c, xid |-> ex[c].xid, server |-> s,
                 gives |-> gives, ends |-> ends, terse |-> terse]
<1>0. /\ n.type = type /\ n.to = c /\ n.xid = ex[c].xid /\ n.gives = gives
      /\ net' = net \cup {n} /\ UNCHANGED <<world, ex, lease, begun>>
  BY DEF Answer
<1> HIDE DEF n
<1>1. \A a \in Addrs : bound'[a] = IF type = "ack" /\ a \in gives
                                    THEN [to |-> c, left |-> FreeUntil] ELSE bound[a]
  BY DEF Answer, TypeInv, TypeOK
<1>2. /\ \A d \in Clients : begun[d] \in Nat
      /\ \A d \in Clients : ex[d] # None => ex[d] \in Exchanges
      /\ \A d \in Clients : lease[d] # None => lease[d] \in Leases
      /\ \A a \in Addrs : bound[a].left \in 0..FreeUntil
      /\ \A m \in net : m.gives \subseteq Addrs
  BY DEF TypeInv, TypeOK, Answers
<1>3. \A d \in Clients, a \in Addrs : bound[a].to = d /\ bound[a].left > 0
        => bound'[a] = bound[a] \/ (c = d /\ bound'[a] = [to |-> c, left |-> FreeUntil])
  BY <1>1 DEF Free
<1>4. Numbered'
  <2>1. ex[c].xid \in Nat /\ ex[c].xid <= 2 * begun[c]
    BY <1>2 DEF Safe, Numbered, Exchanges
  <2> QED
    BY <1>0, <1>2, <2>1 DEF Safe, Numbered
<1>5. AsksInOrder'
  BY <1>0 DEF Safe, AsksInOrder, Held
<1>6. OneAddress'
  BY <1>0 DEF Safe, OneAddress, Held
<1>7. Promised'
  <2>1. \A d \in Clients : ex[d] # None => Elapsed(ex[d]) \in 0..Grace
    BY <1>2, ElapsedBound
  <2>2. ASSUME NEW d \in Clients, NEW m \in net, Grants(d, m), NEW a \in m.gives
        PROVE  bound'[a].to = d /\ FreeUntil - Elapsed(ex[d]) <= bound'[a].left
    <3>1. /\ bound[a].to = d /\ FreeUntil - Elapsed(ex[d]) <= bound[a].left
          /\ Elapsed(ex[d]) \in 0..Grace /\ a \in Addrs
      BY <1>2, <2>1, <2>2 DEF Safe, Promised, Grants
    <3>2. bound[a].left > 0
      BY <1>2, <3>1
    <3> QED
      BY <1>3, <3>1, <3>2
  <2>3. ASSUME NEW d \in Clients, Grants(d, n), NEW a \in gives
        PROVE  bound'[a].to = d /\ FreeUntil - Elapsed(ex[d]) <= bound'[a].left
    <3>1. d = c /\ type = "ack" /\ Elapsed(ex[d]) \in 0..Grace
      BY <1>0, <2>1, <2>3 DEF Grants
    <3> QED
      BY <1>1, <3>1
  <2>4. \A d \in Clients, m \in net : Grants(d, m) /\ family = "v4" => m.gives = ex[d].asks
    BY DEF Safe, Promised
  <2>5. \A d \in Clients : Grants(d, n) /\ family = "v4" => gives = ex[d].asks
    BY <1>0 DEF Grants
  <2> QED
    BY <1>0, <2>2, <2>3, <2>4, <2>5 DEF Promised, Grants, Elapsed
<1>8. Entitled'
  <2>1. ASSUME NEW d \in Clients, NEW a \in Addrs, lease[d] # None, ~Expires(lease[d], a)
        PROVE  bound'[a].to = d /\ lease[d].valid[a] - lease[d].age <= bound'[a].left
    <3>1. bound[a].to = d /\ lease[d].valid[a] - lease[d].age <= bound[a].left
      BY <2>1 DEF Safe, Entitled, InUse
    <3>2. lease[d].valid[a] \in 0..Life /\ lease[d].age \in 0..Life
          /\ lease[d].age < lease[d].valid[a]
      BY <1>2, <2>1 DEF Leases, Expires
    <3>3. bound[a].left > 0
      BY <1>2, <3>1, <3>2
    <3> QED
      BY <1>3, <3>1, <3>2, <3>3
  <2> QED
    BY <1>0, <2>1 DEF Entitled, InUse, Expires
<1> QED
  BY <1>4, <1>5, <1>6, <1>7, <1>8 DEF Safe

(* Servers answer the message they heard, with what is free or already the    *)
(* client's.                                                                  *)
LEMMA ServerSafe ==
  ASSUME TypeInv, Safe, NEW s \in Servers, NEW c \in Clients,
         Offer(s, c) \/ GrantV4(s, c) \/ GrantV6(s, c)
  PROVE  Safe'
<1>1. ex[c] # None /\ ex[c].asks \in SUBSET Addrs
  BY DEF Offer, GrantV4, GrantV6, Hearing, TypeInv, Exchanges
<1>2. /\ Grantable(c) \subseteq ex[c].asks
      /\ \A a \in Grantable(c) : Free(a, c)
  BY DEF Grantable, Free, Bound
<1>3. CASE Offer(s, c)
  <2>1. PICK gives \in SUBSET Addrs :
          /\ family = "v4" => Cardinality(gives) = 1
          /\ Answer(s, c, "offer", gives, {}, FALSE)
    BY <1>3 DEF Offer
  <2>2. family = "v4" => \E a \in Addrs : gives = {a}
    <3>1. IsFiniteSet(gives)
      BY FiniteAssumption, FS_Subset
    <3> QED
      BY <2>1, <3>1, FS_Singleton
  <2> QED
    BY <1>1, <1>3, <2>1, <2>2, AnswerSafe DEF Offer
<1>4. CASE GrantV4(s, c)
  <2>1. family = "v4" /\ ex[c].phase # "seek"
    BY <1>4 DEF GrantV4
  <2>2. CASE Answer(s, c, "nak", {}, {}, FALSE)
    BY <1>1, <2>1, <2>2, AnswerSafe
  <2>3. CASE Grantable(c) # {} /\ \E terse \in {FALSE, ex[c].phase # "request"} :
               Answer(s, c, "ack", ex[c].asks, {}, terse)
    <3>1. \E a \in Addrs : ex[c].asks = {a}
      BY <1>1, <2>1 DEF Safe, OneAddress
    <3>2. \A a \in ex[c].asks : Free(a, c)
      BY <1>2, <2>3, <3>1
    <3> QED
      BY <1>1, <2>1, <2>3, <3>2, AnswerSafe
  <2> QED
    BY <1>4, <2>2, <2>3 DEF GrantV4
<1>5. CASE GrantV6(s, c)
  <2>1. PICK gives \in SUBSET Grantable(c), ends \in SUBSET Addrs :
          Answer(s, c, "ack", gives, ends, FALSE)
    BY <1>1, <1>5 DEF GrantV6
  <2>2. ex[c].phase # "seek" /\ family # "v4" /\ gives \in SUBSET Addrs
    BY <1>1, <1>2, <1>5 DEF GrantV6
  <2> QED
    BY <1>1, <1>2, <2>1, <2>2, AnswerSafe
<1> QED
  BY <1>3, <1>4, <1>5

(* A tick takes as much from a lease and from what an answer promises as from *)
(* the binding.                                                               *)
LEMMA TickSafe ==
  ASSUME TypeInv, Safe, Tick
  PROVE  Safe'
<1>1. \A c \in Clients : ex[c] \in Exchanges \cup {None} /\ lease[c] \in Leases \cup {None}
  BY DEF TypeInv
<1>2. \A c \in Clients : ex[c] = None => ex'[c] = None
  BY DEF Tick
<1>3. \A c \in Clients : ex[c] # None => ~ex[c].due /\ ex'[c] = [ex[c] EXCEPT !.due = TRUE]
  BY DEF Tick
<1>4. \A e \in Exchanges : [e EXCEPT !.due = TRUE] \in Exchanges
  BY DEF Exchanges
<1>5. \A e \in Exchanges :
        /\ [e EXCEPT !.due = TRUE].phase = e.phase /\ [e EXCEPT !.due = TRUE].xid = e.xid
        /\ [e EXCEPT !.due = TRUE].asks = e.asks   /\ [e EXCEPT !.due = TRUE].tries = e.tries
        /\ [e EXCEPT !.due = TRUE].due
  BY DEF Exchanges
<1>6. \A c \in Clients : ex[c] # None => ex'[c] # None
  <2> SUFFICES ASSUME NEW c \in Clients, ex[c] # None PROVE ex'[c] # None
    OBVIOUS
  <2>1. ex[c] \in Exchanges
    BY <1>1
  <2>2. ex'[c] \in Exchanges
    BY <1>3, <1>4, <2>1
  <2> QED
    BY <2>2
<1>7. \A c \in Clients : ex[c] # None =>
        /\ ex'[c].phase = ex[c].phase /\ ex'[c].xid = ex[c].xid
        /\ ex'[c].asks = ex[c].asks   /\ ex'[c].tries = ex[c].tries /\ ex'[c].due
  <2> SUFFICES ASSUME NEW c \in Clients, ex[c] # None
               PROVE  /\ ex'[c].phase = ex[c].phase /\ ex'[c].xid = ex[c].xid
                      /\ ex'[c].asks = ex[c].asks /\ ex'[c].tries = ex[c].tries /\ ex'[c].due
    OBVIOUS
  <2>1. ex[c] \in Exchanges
    BY <1>1
  <2>2. ex'[c] = [ex[c] EXCEPT !.due = TRUE]
    BY <1>3
  <2> QED
    BY <1>5, <2>1, <2>2
<1>8. \A c \in Clients : lease[c] = None => lease'[c] = None
  BY DEF Tick
<1>9. \A c \in Clients : lease[c] # None =>
        /\ lease[c] \in Leases /\ lease'[c] # None /\ lease'[c].valid = lease[c].valid
        /\ lease'[c].age = IF lease[c].age < Life THEN lease[c].age + 1 ELSE lease[c].age
  <2> SUFFICES ASSUME NEW c \in Clients, lease[c] # None
               PROVE  /\ lease[c] \in Leases /\ lease'[c] # None
                      /\ lease'[c].valid = lease[c].valid
                      /\ lease'[c].age = IF lease[c].age < Life THEN lease[c].age + 1
                                                                ELSE lease[c].age
    OBVIOUS
  <2> DEFINE older == IF lease[c].age < Life THEN lease[c].age + 1 ELSE lease[c].age
  <2>1. lease[c] \in Leases
    BY <1>1
  <2>2. lease'[c] = [lease[c] EXCEPT !.age = older]
    BY DEF Tick
  <2>3. older \in 0..Life
    BY <2>1 DEF Leases
  <2>4. \A n \in 0..Life : /\ [lease[c] EXCEPT !.age = n] \in Leases
                           /\ [lease[c] EXCEPT !.age = n].valid = lease[c].valid
                           /\ [lease[c] EXCEPT !.age = n].age = n
    BY <2>1 DEF Leases
  <2> QED
    BY <2>1, <2>2, <2>3, <2>4
<1>10. ASSUME NEW a \in Addrs
       PROVE  /\ bound[a].left \in 0..FreeUntil
              /\ bound'[a].to = bound[a].to /\ bound'[a].left = Less(bound[a].left)
  BY DEF Tick, TypeInv, TypeOK
<1>11. UNCHANGED <<world, begun, net>>
  BY DEF Tick
<1>12. Numbered'
  BY <1>2, <1>7, <1>11 DEF Safe, Numbered
<1>13. AsksInOrder'
  BY <1>2, <1>7, <1>8, <1>9 DEF Safe, AsksInOrder, Held
<1>14. OneAddress'
  <2>1. ASSUME family = "v4", NEW c \in Clients, lease'[c] # None
        PROVE  \E a \in Addrs : Held(lease'[c]) = {a}
    BY <1>8, <1>9, <2>1 DEF Safe, OneAddress, Held
  <2>2. ASSUME family = "v4", NEW c \in Clients, ex'[c] # None, ex'[c].phase # "seek"
        PROVE  \E a \in Addrs : ex'[c].asks = {a}
    BY <1>2, <1>7, <2>2 DEF Safe, OneAddress
  <2> QED
    BY <1>11, <2>1, <2>2 DEF Safe, OneAddress
<1>15. Promised'
  <2>1. ASSUME NEW c \in Clients, ex[c] # None
        PROVE  Elapsed(ex'[c]) = Elapsed(ex[c]) + 1 /\ Elapsed(ex[c]) \in 0..Grace
    <3>1. ex[c] \in Exchanges
      BY <1>1, <2>1
    <3>2. ex[c].tries \in Nat
      BY <3>1 DEF Exchanges
    <3>3. ~ex[c].due /\ ex'[c].due /\ ex'[c].tries = ex[c].tries
      BY <1>3, <1>7, <2>1
    <3> QED
      BY <3>1, <3>2, <3>3, ElapsedBound DEF Elapsed
  <2>2. \A m \in net : m.gives \subseteq Addrs
    BY DEF TypeInv, Answers
  <2>3. ASSUME NEW c \in Clients, NEW m \in net, Grants(c, m)'
        PROVE  /\ ex[c] # None /\ Grants(c, m)
               /\ family = "v4" => m.gives = ex'[c].asks
    <3>1. ex[c] # None
      BY <1>2, <2>3 DEF Grants
    <3>2. ex'[c].phase = ex[c].phase /\ ex'[c].xid = ex[c].xid /\ ex'[c].asks = ex[c].asks
      BY <1>7, <3>1
    <3>3. Grants(c, m)
      BY <2>3, <3>1, <3>2 DEF Grants
    <3> QED
      BY <3>1, <3>2, <3>3 DEF Safe, Promised
  <2>4. ASSUME NEW c \in Clients, NEW m \in net, Grants(c, m)', NEW a \in m.gives
        PROVE  bound'[a].to = c /\ FreeUntil - Elapsed(ex'[c]) <= bound'[a].left
    <3>1. a \in Addrs /\ bound[a].to = c /\ FreeUntil - Elapsed(ex[c]) <= bound[a].left
      BY <2>2, <2>3, <2>4 DEF Safe, Promised
    <3>2. Elapsed(ex'[c]) = Elapsed(ex[c]) + 1 /\ Elapsed(ex[c]) \in 0..Grace
      BY <2>1, <2>3, <2>4
    <3> QED
      BY <1>10, <3>1, <3>2 DEF Less
  <2> QED
    BY <1>11, <2>3, <2>4 DEF Promised, Elapsed
<1>16. Entitled'
  <2>1. ASSUME NEW c \in Clients, NEW a \in Addrs, lease'[c] # None, ~(lease'[c].valid[a] <= lease'[c].age)
        PROVE  bound'[a].to = c /\ lease'[c].valid[a] - lease'[c].age <= bound'[a].left
    <3>1. /\ lease[c] # None /\ lease'[c].valid[a] = lease[c].valid[a]
          /\ lease[c].valid[a] \in 0..Life /\ lease[c].age \in 0..Life
          /\ lease'[c].age = IF lease[c].age < Life THEN lease[c].age + 1 ELSE lease[c].age
      BY <1>8, <1>9, <2>1 DEF Leases
    <3>2. lease[c].age < Life /\ lease'[c].age = lease[c].age + 1
          /\ lease[c].age < lease[c].valid[a]
      BY <2>1, <3>1
    <3>3. bound[a].to = c /\ lease[c].valid[a] - lease[c].age <= bound[a].left
      BY <3>1, <3>2 DEF Safe, Entitled, InUse, Expires
    <3> QED
      BY <1>10, <3>1, <3>2, <3>3 DEF Less
  <2> QED
    BY <2>1 DEF Entitled, InUse, Expires
<1> QED
  BY <1>12, <1>13, <1>14, <1>15, <1>16 DEF Safe

LEMMA IInvInit == Init => IInv
BY TypeInit, SafeInit DEF IInv

LEMMA IInvStep == IInv /\ [Next]_vars => IInv'
<1> SUFFICES ASSUME IInv, [Next]_vars PROVE IInv'
  OBVIOUS
<1>1. TypeInv /\ Safe /\ TypeInv'
  BY TypeStep DEF IInv, Safe
<1>2. CASE UNCHANGED vars
  BY <1>1, <1>2 DEF vars, IInv, Safe, Numbered, AsksInOrder, OneAddress, Promised,
     Grants, Elapsed, Entitled, InUse, Expires, Held
<1>3. CASE Next
  BY <1>1, <1>3, TickSafe, ClientSafe, ServerSafe DEF Next, IInv
<1> QED
  BY <1>2, <1>3

(* An answer that bears the id of the exchange under way was sent during it,  *)
(* and what it gives is bound to the client.                                  *)
THEOREM AnswersInTime == Spec => []IInv
BY IInvInit, IInvStep, PTL DEF Spec

(* Attempts, transaction ids, ages and lifetimes stay in their ranges: what   *)
(* is left of a lifetime never wraps below zero (remainingV6Address).         *)
THEOREM TypeCorrect == Spec => []TypeOK
<1>1. IInv => TypeOK
  BY DEF IInv, TypeInv
<1> QED
  BY <1>1, AnswersInTime, PTL

(* A client uses an address only while the servers have it bound to it, and   *)
(* not for longer, whatever answers arrive late, twice, out of order or for   *)
(* somebody else.                                                             *)
THEOREM OnlyWhatIsBound == Spec => []Entitled
<1>1. IInv => Entitled
  BY DEF IInv, Safe
<1> QED
  BY <1>1, AnswersInTime, PTL
=============================================================================
