--------------------------- MODULE NicDhcpProofs ---------------------------
(***************************************************************************)
(* Proofs about NicDhcp for any leases a server may grant, any             *)
(* configurations and any number of faults: types, the pace of the renewal *)
(* loops, that the machine is configured as leased, that what a process    *)
(* leaves behind is on record, and that stopping leaves nothing. The       *)
(* inductive invariant has three parts: the order of the main goroutine's  *)
(* jobs, what a session remembers at each place of its loop, and what the  *)
(* machine then holds of its lease.                                        *)
(***************************************************************************)
EXTENDS NicDhcp, TLAPS

\* The calls of the main goroutine, whole and in their last jobs.
SweepTail(s)  == <<Job("stop", s), Job("sweep", None)>>
JustSweep     == <<Job("sweep", None)>>
StartTail     == <<Job("stop", "v6"), Job("start", "v4")>>
JustStart(s)  == <<Job("start", s)>>
Sweeps        == {StopAll(s) : s \in Sessions} \cup {SweepTail(s) : s \in Sessions} \cup {JustSweep}
StartCalls(s) == IF s = "v4" THEN {Plan("v4"), StartTail, JustStart("v4")}
                 ELSE {Plan("v6"), JustStart("v6")}
Calls         == Sweeps \cup StartCalls("v4") \cup StartCalls("v6")

Off(s)     == at[s] = "off"
Sweeping   == todo # <<>> /\ Head(todo) \in Sweeps

(* Only the call under way is incomplete.                                    *)
TodoOK == /\ todo \in Seq(Calls)
          /\ \A i \in 2..Len(todo) : todo[i] \in {Plan("v4"), Plan("v6")}

(* A session has been joined before what comes after its stop.               *)
Ordered == todo # <<>> =>
  /\ \A s \in Sessions : Head(todo) = SweepTail(s) => Off(Other(s))
  /\ Head(todo) = JustSweep => \A s \in Sessions : Off(s)
  /\ Head(todo) = StartTail => Off("v4")
  /\ \A s \in Sessions : Head(todo) = JustStart(s) => at[s] \notin {"wait", "exchange", "ended"}

-----------------------------------------------------------------------------
(* The main goroutine's jobs *)

(* What the first job of a call says of the call.                             *)
LEMMA StartCall ==
  ASSUME NEW c \in Calls, NEW s \in Sessions, Head(c) = Job("start", s)
  PROVE  c = JustStart(s) /\ Len(c) = 1 /\ c \in StartCalls(s) /\ c \notin Sweeps
BY DEF Calls, Sweeps, StartCalls, StopAll, SweepTail, JustSweep, StartTail, JustStart, Plan, Job,
       Sessions, Other

LEMMA SweepCall ==
  ASSUME NEW c \in Calls, Head(c) = Job("sweep", None)
  PROVE  c = JustSweep /\ Len(c) = 1
BY DEF Calls, Sweeps, StartCalls, StopAll, SweepTail, JustSweep, StartTail, JustStart, Plan, Job,
       Sessions, Other

LEMMA StopCall ==
  ASSUME NEW c \in Calls, NEW s \in Sessions, Head(c) = Job("stop", s)
  PROVE  /\ Len(c) # 1 /\ Tail(c) \in Calls
         /\ Tail(c) \in Sweeps <=> c \in Sweeps
         /\ \A t \in Sessions : Tail(c) = SweepTail(t) => s = Other(t)
         /\ Tail(c) = JustSweep => c = SweepTail(s)
         /\ Tail(c) = StartTail => s = "v4"
         /\ \A t \in Sessions : Tail(c) = JustStart(t) => s = t \/ (t = "v4" /\ c = StartTail)
<1> USE DEF StopAll, SweepTail, JustSweep, StartTail, JustStart, Plan, Job, Sessions, Other
<1>1. \/ c = StopAll(s) \/ c = SweepTail(s)
      \/ s = "v4" /\ c = Plan("v4")
      \/ s = "v6" /\ c = StartTail
      \/ s = "v6" /\ c = Plan("v6")
  BY DEF Calls, Sweeps, StartCalls
<1>2. CASE c = StopAll(s)
  <2>1. Len(c) # 1 /\ Tail(c) = SweepTail(Other(s))
    BY <1>2
  <2> QED
    BY <1>2, <2>1 DEF Calls, Sweeps, StartCalls
<1>3. CASE c = SweepTail(s)
  <2>1. Len(c) # 1 /\ Tail(c) = JustSweep
    BY <1>3
  <2> QED
    BY <1>3, <2>1 DEF Calls, Sweeps, StartCalls
<1>4. CASE s = "v4" /\ c = Plan("v4")
  <2>1. Len(c) # 1 /\ Tail(c) = StartTail
    BY <1>4
  <2> QED
    BY <1>4, <2>1 DEF Calls, Sweeps, StartCalls
<1>5. CASE s = "v6" /\ c = StartTail
  <2>1. Len(c) # 1 /\ Tail(c) = JustStart("v4")
    BY <1>5
  <2> QED
    BY <1>5, <2>1 DEF Calls, Sweeps, StartCalls
<1>6. CASE s = "v6" /\ c = Plan("v6")
  <2>1. Len(c) # 1 /\ Tail(c) = JustStart("v6")
    BY <1>6
  <2> QED
    BY <1>6, <2>1 DEF Calls, Sweeps, StartCalls
<1> QED
  BY <1>1, <1>2, <1>3, <1>4, <1>5, <1>6

LEMMA PlanCall ==
  ASSUME NEW c \in {Plan("v4"), Plan("v6")}
  PROVE  /\ c \in Calls /\ c \notin Sweeps /\ c # JustSweep /\ c # StartTail
         /\ \A s \in Sessions : c # SweepTail(s) /\ c # JustStart(s) /\ Head(c) # Job("start", s)
BY DEF Calls, Sweeps, StartCalls, StopAll, SweepTail, JustSweep, StartTail, JustStart, Plan, Job,
       Sessions, Other

(* After the last job of a call the next one is whole, or there is none.      *)
LEMMA CallDone ==
  ASSUME TodoOK, todo # <<>>, Len(Head(todo)) = 1, todo' = Rest
  PROVE  TodoOK' /\ ~Sweeping' /\ Ordered' /\ \A s \in Sessions : ~Starting(s)'
<1>1. todo' = Tail(todo)
  BY DEF Rest
<1>2. /\ todo' \in Seq(Calls)
      /\ \A i \in 1..Len(todo') : todo'[i] = todo[i + 1] /\ i + 1 \in 2..Len(todo)
      /\ todo' # <<>> => Head(todo') = todo[2] /\ 2 \in 2..Len(todo)
  BY <1>1 DEF TodoOK
<1>3. \A i \in 2..Len(todo') : i \in 1..Len(todo')
  BY <1>2
<1>4. TodoOK'
  BY <1>2, <1>3 DEF TodoOK
<1>5. todo' # <<>> => Head(todo') \in {Plan("v4"), Plan("v6")}
  BY <1>2 DEF TodoOK
<1>6. ~Sweeping' /\ Ordered' /\ \A s \in Sessions : ~Starting(s)'
  BY <1>5, PlanCall DEF Sweeping, Ordered, Starting, Now
<1> QED
  BY <1>4, <1>6

LEMMA JobsDone ==
  ASSUME TodoOK, NEW s \in Sessions, Starting(s) \/ Now(Job("sweep", None)), todo' = Rest
  PROVE  /\ TodoOK' /\ ~Sweeping' /\ Ordered' /\ \A t \in Sessions : ~Starting(t)'
         /\ Starting(s) => ~Sweeping
<1>1. todo # <<>> /\ Head(todo) \in Calls
  BY DEF Starting, Now, TodoOK
<1>2. Len(Head(todo)) = 1
  BY <1>1, StartCall, SweepCall DEF Starting, Now
<1>3. Starting(s) => Head(todo) \notin Sweeps
  BY <1>1, StartCall DEF Starting, Now
<1> QED
  BY <1>1, <1>2, <1>3, CallDone DEF Sweeping

(* When a session has been joined its call goes on.                           *)
LEMMA StopDone ==
  ASSUME TodoOK, NEW s \in Sessions, Now(Job("stop", s)), todo' = Rest
  PROVE  /\ TodoOK' /\ (Sweeping' <=> Sweeping)
         /\ todo # <<>> /\ Head(todo) \in Calls /\ todo' # <<>> /\ Head(todo') = Tail(Head(todo))
<1> DEFINE c == Head(todo)
<1>1. todo # <<>> /\ c \in Calls /\ c = todo[1] /\ Head(c) = Job("stop", s) /\ Len(todo) \in Nat \ {0}
  BY DEF Now, TodoOK
<1>2. Len(c) # 1 /\ Tail(c) \in Calls /\ (Tail(c) \in Sweeps <=> c \in Sweeps)
  BY <1>1, StopCall
<1>3. todo' = <<Tail(c)>> \o Tail(todo)
  BY <1>2 DEF Rest
<1>4. /\ todo' \in Seq(Calls) /\ Len(todo') = Len(todo) /\ todo' # <<>>
      /\ Head(todo') = Tail(c) /\ todo'[1] = Tail(c)
      /\ \A i \in 2..Len(todo) : todo'[i] = todo[i]
  <2> HIDE DEF c
  <2> QED
    BY <1>1, <1>2, <1>3 DEF TodoOK
<1> HIDE DEF c
<1>5. TodoOK'
  BY <1>4 DEF TodoOK
<1>6. Sweeping' <=> Sweeping
  BY <1>1, <1>2, <1>4 DEF Sweeping, c
<1> QED
  BY <1>1, <1>4, <1>5, <1>6 DEF c

(* A new plan begins with joining every session.                              *)
LEMMA Replanned ==
  ASSUME NEW script \in Scripts, todo' \in Reconfigure(script)
  PROVE  TodoOK' /\ Sweeping' /\ Ordered' /\ todo' # <<>> /\ \A s \in Sessions : ~Starting(s)'
<1>1. PICK s \in Sessions : todo' = <<StopAll(s)>> \o [i \in DOMAIN script |-> Plan(script[i])]
  BY DEF Reconfigure
<1> DEFINE plans == [i \in DOMAIN script |-> Plan(script[i])]
<1>2. script \in Seq(Sessions)
  BY ScriptsAssumption
<1>3. plans \in Seq({Plan("v4"), Plan("v6")}) /\ Len(plans) = Len(script) /\ DOMAIN script = 1..Len(script)
  BY <1>2 DEF Sessions
<1>4. StopAll(s) \in Calls /\ StopAll(s) \in Sweeps /\ Plan("v4") \in Calls /\ Plan("v6") \in Calls
  BY DEF Calls, Sweeps, StartCalls
<1>5. /\ todo' \in Seq(Calls) /\ Len(todo') = Len(script) + 1 /\ todo' # <<>>
      /\ Head(todo') = StopAll(s) /\ todo'[1] = StopAll(s)
      /\ \A i \in 2..Len(todo') : i - 1 \in 1..Len(script) /\ todo'[i] = Plan(script[i - 1])
  <2>1. \A i \in 1..Len(script) : plans[i] = Plan(script[i])
    BY <1>3
  <2> HIDE DEF plans
  <2>2. plans \in Seq(Calls)
    BY <1>3, <1>4
  <2>3. todo' = <<StopAll(s)>> \o plans
    BY <1>1 DEF plans
  <2>4. Len(script) \in Nat
    BY <1>2
  <2> QED
    BY <1>3, <1>4, <2>1, <2>2, <2>3, <2>4
<1>6. TodoOK'
  BY <1>2, <1>5 DEF TodoOK, Sessions
<1>7. /\ StopAll(s) # JustSweep /\ StopAll(s) # StartTail
      /\ \A t \in Sessions : /\ StopAll(s) # SweepTail(t) /\ StopAll(s) # JustStart(t)
                             /\ Head(StopAll(s)) # Job("start", t)
  BY DEF StopAll, SweepTail, JustSweep, StartTail, JustStart, Job, Sessions, Other
<1> QED
  BY <1>4, <1>5, <1>6, <1>7 DEF Sweeping, Ordered, Starting, Now

-----------------------------------------------------------------------------
(* Sessions *)

(* The types that do not depend on the session.                              *)
ShapeOK ==
  /\ at \in [Sessions -> Places] /\ phase \in [Sessions -> {"held", "due", "expired"}]
  /\ retry \in [Sessions -> BOOLEAN] /\ cancelled \in [Sessions -> BOOLEAN]
  /\ DOMAIN lease = Sessions /\ DOMAIN next = Sessions /\ DOMAIN disk = Sessions
  /\ DOMAIN addrs = Sessions /\ DOMAIN dns = Sessions
  /\ mode \in {"new", "oneshot", "startup", "stopping", "daemon"}
  /\ lost \subseteq Sessions /\ faults \in 0..MaxFaults

LeaseOK(s) ==
  /\ lease[s] \in LeasesOf(s) \cup {None} /\ next[s] \in LeasesOf(s) \cup {None}
  /\ disk[s] \in LeasesOf(s) \cup {None}
  /\ at[s] \in Transition \ {"save"} => next[s] # None

Applying == {"addr", "route", "dns", "undo", "commit"}

(* What a session remembers at each place: on a start nothing precedes the   *)
(* lease, and a loop retries what it has lost or what is due.                *)
Memory(s) ==
  /\ at[s] \in {"off", "ended", "acquire"} => lease[s] = None
  /\ at[s] = "save" => lease[s] # None /\ ~retry[s]
  /\ at[s] = "exchange" => lease[s] # None
  /\ lease[s] = None \/ at[s] = "save" => phase[s] = "held"
  /\ at[s] \in Applying /\ lease[s] # None => ~Starting(s) /\ phase[s] # "held"
  /\ at[s] = "exchange" => phase[s] # "held"
  /\ at[s] = "route" => s = "v4"
  /\ at[s] = "acquire" /\ ~Starting(s) => retry[s]
  /\ s = "v4" /\ at[s] \in Applying /\ lease[s] # None /\ next[s].router = None
       => lease[s].router = None
  /\ at[s] = "wait" => /\ lease[s] = None => retry[s]
                       /\ retry[s] => lease[s] = None \/ phase[s] # "held"

Ips(s)      == IF lease[s] = None THEN {} ELSE lease[s].ips
OldRoute(s) == IF lease[s] = None THEN NoRoute ELSE RouteOf(lease[s])
NewRoute(s) == IF next[s].router = None THEN OldRoute(s) ELSE RouteOf(next[s])
Exact(s)    == phase[s] # "expired"

(* The addresses at each place, those that expired apart.                    *)
AddrsOK(s) ==
  /\ at[s] \in {"acquire", "wait", "exchange", "addr", "save"} =>
       addrs[s] \subseteq Ips(s) /\ (Exact(s) => addrs[s] = Ips(s))
  /\ at[s] \in {"route", "dns", "undo", "commit"} =>
       addrs[s] \subseteq Ips(s) \cup next[s].ips /\ (Exact(s) => Ips(s) \subseteq addrs[s])
  /\ at[s] \in {"route", "dns", "commit"} => next[s].ips \subseteq addrs[s]
  /\ at[s] = "ended" => addrs[s] = {}
  /\ at[s] = "off" => addrs[s] = {} \/ (disk[s] # None /\ addrs[s] \subseteq disk[s].ips)

(* The route at each place; it is dropped with the address it starts from.   *)
RouteOK ==
  LET s == "v4"  dropped == route = NoRoute /\ ~Exact(s)
  IN /\ at[s] \in {"acquire", "wait", "exchange", "addr", "route", "save"} =>
          route = OldRoute(s) \/ dropped
     /\ at[s] \in {"dns", "commit"} => route = NewRoute(s) \/ (dropped /\ next[s].router = None)
     /\ at[s] = "undo" => route \in {OldRoute(s), NewRoute(s)} \/ dropped
     /\ at[s] = "ended" => route = NoRoute
     /\ at[s] = "off" => route = NoRoute \/ (disk[s] # None /\ route = RouteOf(disk[s]))

(* The name servers and the lease file at each place.                        *)
FilesOK(s) ==
  /\ at[s] \in {"wait", "exchange"} \cup Applying /\ lease[s] # None => disk[s] = lease[s]
  /\ at[s] \in {"wait", "exchange", "addr", "route", "dns", "undo", "save"} /\ lease[s] # None =>
       dns[s] = lease[s].dns
  /\ at[s] = "commit" => dns[s] = next[s].dns

Machine(s) == s \notin lost => AddrsOK(s) /\ FilesOK(s) /\ (s = "v4" => RouteOK)

(* The part of the invariant about session s that its own steps rely on.      *)
Sound(s) == LeaseOK(s) /\ Memory(s) /\ Machine(s)

Clean(s) == addrs[s] = {} /\ (s = "v4" => route = NoRoute)

(* A session that is off in a daemon has nothing on the machine once the      *)
(* lease files have been swept.                                              *)
Fresh(s) == s \notin lost /\ Off(s) /\ ~Sweeping /\ mode \notin {"new", "oneshot"} => Clean(s)

(* Without a daemon only the session being started runs.                     *)
Modes == /\ mode = "new" => todo = <<>> /\ \A s \in Sessions : Off(s)
         /\ mode = "oneshot" /\ ~Sweeping => \A s \in Sessions : Off(s) \/ Starting(s)

IInv == /\ TodoOK /\ Ordered /\ Modes /\ ShapeOK
        /\ \A s \in Sessions : Sound(s) /\ Fresh(s)

-----------------------------------------------------------------------------
(* Leases *)

USE MaxFaultsAssumption
USE DEF Set, Goto, session, machine, main

LEMMA LeaseFacts ==
  ASSUME NEW s \in Sessions, NEW l \in LeasesOf(s)
  PROVE  l # None /\ l.ips # {}
BY NoneAssumption DEF LeasesOf

LEMMA OfferFacts ==
  ASSUME NEW s \in Sessions, NEW l \in Offers[s]
  PROVE  l \in LeasesOf(s)
BY OffersAssumption

(* A renewal ends with a lease of the session; by DHCPv4 it has a router if   *)
(* the lease before it had one.                                               *)
LEMMA RenewalFacts ==
  ASSUME NEW s \in Sessions, lease[s] \in LeasesOf(s), NEW l \in Renewals(s)
  PROVE  l \in LeasesOf(s) /\ (s = "v4" /\ l.router = None => lease[s].router = None)
<1>1. CASE s = "v4"
  <2>1. PICK o \in Offers[s] :
          l = [o EXCEPT !.router = IF @ = None THEN lease[s].router ELSE @,
                        !.dns = IF @ = None THEN lease[s].dns ELSE @]
    BY <1>1 DEF Renewals
  <2> DEFINE r == IF o.router = None THEN lease[s].router ELSE o.router
             d == IF o.dns = None THEN lease[s].dns ELSE o.dns
  <2>2. o \in LeasesOf(s)
    BY OfferFacts
  <2>3. o.ips # {} /\ o.ips \in SUBSET UNION {k.ips : k \in Offers[s]}
    BY <2>2 DEF LeasesOf
  <2>4. r \in {None} \cup {k.router : k \in Offers[s]} /\ d \in {None} \cup {k.dns : k \in Offers[s]}
    BY <2>2 DEF LeasesOf
  <2>5. l = [ips |-> o.ips, router |-> r, dns |-> d]
    BY <2>1, <2>2 DEF LeasesOf
  <2>6. l \in LeasesOf(s) /\ l.router = r
    BY <2>3, <2>4, <2>5 DEF LeasesOf
  <2>7. r = None => lease[s].router = None
    OBVIOUS
  <2> QED
    BY <2>6, <2>7
<1>2. CASE s # "v4"
  <2>1. PICK o \in Offers[s] : \E ips \in (SUBSET (o.ips \cup lease[s].ips)) \ {{}} :
          l = [o EXCEPT !.ips = ips]
    BY <1>2 DEF Renewals
  <2>2. PICK ips \in (SUBSET (o.ips \cup lease[s].ips)) \ {{}} : l = [o EXCEPT !.ips = ips]
    BY <2>1
  <2>3. o \in LeasesOf(s)
    BY OfferFacts
  <2>4. ips \in (SUBSET UNION {k.ips : k \in Offers[s]}) \ {{}}
    BY <2>2, <2>3 DEF LeasesOf
  <2>5. l = [ips |-> ips, router |-> o.router, dns |-> o.dns]
    BY <2>2, <2>3 DEF LeasesOf
  <2> QED
    BY <1>2, <2>3, <2>4, <2>5 DEF LeasesOf
<1> QED
  BY <1>1, <1>2

-----------------------------------------------------------------------------
(* The other session, and the main goroutine, at a session's step *)

(* Nothing of session s, or of its part of the machine, changes.              *)
Same(s) ==
  /\ at'[s] = at[s] /\ lease'[s] = lease[s] /\ next'[s] = next[s] /\ phase'[s] = phase[s]
  /\ retry'[s] = retry[s] /\ disk'[s] = disk[s] /\ addrs'[s] = addrs[s] /\ dns'[s] = dns[s]
  /\ s = "v4" => route' = route
  /\ s \in lost => s \in lost'

Alone(s) == \A t \in Sessions \ {s} : Same(t)

(* What the main goroutine does when session s takes a step: nothing; or its *)
(* start is over, well or not; or the apply has failed with it.               *)
Stays(s)  == UNCHANGED main /\ at'[s] # "off" /\ (Starting(s) => at'[s] \notin {"wait", "exchange", "ended"})
GoesOn(s) == /\ Starting(s) /\ todo' = Rest /\ UNCHANGED mode
             /\ \/ at'[s] = "off" /\ (mode = "oneshot" \/ (s \notin lost' => Clean(s)'))
                \/ at'[s] = "wait" /\ mode # "oneshot"
GivesUp(s) == Starting(s) /\ at'[s] = "off" /\ RollsBack
Moves(s)  == Stays(s) \/ GoesOn(s) \/ GivesUp(s)

LEMMA Kept ==
  ASSUME NEW s \in Sessions, Same(s), LeaseOK(s), Memory(s), Machine(s),
         (Starting(s)' <=> Starting(s)) \/ at[s] = "off"
  PROVE  LeaseOK(s)' /\ Memory(s)' /\ Machine(s)'
<1>1. LeaseOK(s)'
  BY DEF Same, LeaseOK
<1>2. Memory(s)'
  BY DEF Same, Memory, Applying
<1>3. Machine(s)'
  <2>1. SUFFICES ASSUME s \notin lost' PROVE (AddrsOK(s) /\ FilesOK(s) /\ (s = "v4" => RouteOK))'
    BY DEF Machine
  <2>2. AddrsOK(s) /\ FilesOK(s) /\ (s = "v4" => RouteOK)
    BY <2>1 DEF Machine, Same
  <2>3. AddrsOK(s)'
    BY <2>2 DEF Same, AddrsOK, Ips, Exact
  <2>4. FilesOK(s)'
    BY <2>2 DEF Same, FilesOK, Applying
  <2>5. s = "v4" => RouteOK'
    BY <2>2 DEF Same, RouteOK, OldRoute, NewRoute, Exact, RouteOf
  <2> QED
    BY <2>3, <2>4, <2>5
<1> QED
  BY <1>1, <1>2, <1>3

(* What is known when a session is being started.                             *)
LEMMA StartingFacts ==
  ASSUME TodoOK, Ordered, NEW s \in Sessions, Starting(s)
  PROVE  /\ Head(todo) = JustStart(s) /\ ~Sweeping
         /\ at[s] \notin {"wait", "exchange", "ended"}
         /\ \A t \in Sessions \ {s} : ~Starting(t)
<1>1. todo # <<>> /\ Head(todo) \in Calls
  BY DEF Starting, Now, TodoOK
<1>2. Head(todo) = JustStart(s) /\ Head(todo) \notin Sweeps
  BY <1>1, StartCall DEF Starting, Now
<1>3. \A t \in Sessions \ {s} : ~Starting(t)
  BY DEF Starting, Now, Job
<1> QED
  BY <1>1, <1>2, <1>3 DEF Ordered, Sweeping

LEMMA StepsAlone ==
  ASSUME ShapeOK, NEW s \in Sessions, Memory(s), SessionStep(s) \/ Tick(s) \/ KernelExpires(s)
  PROVE  Alone(s)
<1> SUFFICES ASSUME NEW t \in Sessions, t # s PROVE Same(t)
  BY DEF Alone
<1>1. t = "v4" => s = "v6"
  BY DEF Sessions
<1> USE <1>1 DEF ShapeOK, Same
<1>2. CASE Acquired(s) \/ AcquireFails(s)
  BY <1>2 DEF Acquired, AcquireFails, StartFails
<1>3. CASE SetAddresses(s) \/ SetRoute(s) \/ SetDns(s)
  <2>1. CASE SetAddresses(s)
    <3>1. UNCHANGED <<lease, next, phase, retry, cancelled, route, dns, disk, main, lost>>
      BY <2>1 DEF SetAddresses
    <3>2. at'[t] = at[t]
      BY <2>1 DEF SetAddresses
    <3>3. addrs'[t] = addrs[t]
      BY <2>1 DEF SetAddresses
    <3> QED
      BY <3>1, <3>2, <3>3
  <2>2. CASE SetRoute(s)
    <3>1. UNCHANGED <<lease, next, phase, retry, cancelled, addrs, dns, disk, main, lost>>
      BY <2>2 DEF SetRoute
    <3>2. at'[t] = at[t]
      BY <2>2 DEF SetRoute
    <3>3. s = "v4"
      BY <2>2 DEF SetRoute, Memory
    <3> QED
      BY <3>1, <3>2, <3>3
  <2>3. CASE SetDns(s)
    BY <2>3 DEF SetDns
  <2> QED
    BY <1>3, <2>1, <2>2, <2>3
<1>4. CASE Undo(s)
  BY <1>4 DEF Undo, RollBack, Unapply, StartFails
<1>5. CASE Commit(s)
  BY <1>5 DEF Commit, Delete
<1>6. CASE Save(s)
  BY <1>6 DEF Save
<1>7. CASE Wake(s)
  BY <1>7 DEF Wake, Drop, Unapply
<1>8. CASE Renewed(s)
  BY <1>8 DEF Renewed
<1>9. CASE ExchangeFails(s) \/ Refused(s) \/ Release(s)
  BY <1>9 DEF ExchangeFails, Refused, Release, Drop, Unapply
<1>10. CASE Tick(s) \/ KernelExpires(s)
  BY <1>10 DEF Tick, KernelExpires, Delete
<1> QED
  BY <1>2, <1>3, <1>4, <1>5, <1>6, <1>7, <1>8, <1>9, <1>10 DEF SessionStep

(* The types, kept by a step of a session.                                    *)
LEMMA StepsShape ==
  ASSUME ShapeOK, NEW s \in Sessions, SessionStep(s) \/ Tick(s) \/ KernelExpires(s)
  PROVE  ShapeOK'
<1> USE DEF ShapeOK
<1>1. /\ at' \in [Sessions -> Places] /\ phase' \in [Sessions -> {"held", "due", "expired"}]
      /\ DOMAIN lease' = Sessions /\ DOMAIN next' = Sessions /\ DOMAIN disk' = Sessions
      /\ DOMAIN addrs' = Sessions /\ DOMAIN dns' = Sessions
      /\ mode' \in {"new", "oneshot", "startup", "stopping", "daemon"}
      /\ lost' \subseteq Sessions /\ faults' \in 0..MaxFaults
      /\ cancelled' \in [Sessions -> BOOLEAN]
  <2> USE DEF Places, Fails, Works
  <2>2. CASE Acquired(s) \/ AcquireFails(s)
    BY <2>2 DEF Acquired, AcquireFails, StartFails, RollsBack
  <2>3. CASE SetAddresses(s) \/ SetRoute(s) \/ SetDns(s)
    BY <2>3 DEF SetAddresses, SetRoute, SetDns
  <2>4. CASE Undo(s)
    BY <2>4 DEF Undo, RollBack, Unapply, StartFails, RollsBack
  <2>5. CASE Commit(s)
    BY <2>5 DEF Commit, Delete
  <2>6. CASE Save(s)
    BY <2>6 DEF Save
  <2>7. CASE Wake(s)
    BY <2>7 DEF Wake, Drop, Unapply
  <2>8. CASE Renewed(s)
    BY <2>8 DEF Renewed
  <2>9. CASE ExchangeFails(s) \/ Refused(s) \/ Release(s)
    BY <2>9 DEF ExchangeFails, Refused, Release, Drop, Unapply
  <2>10. CASE Tick(s) \/ KernelExpires(s)
    BY <2>10 DEF Tick, KernelExpires, Delete
  <2> QED
    BY <2>2, <2>3, <2>4, <2>5, <2>6, <2>7, <2>8, <2>9, <2>10 DEF SessionStep
<1>2. retry' \in [Sessions -> BOOLEAN]
  <2>1. \/ UNCHANGED retry
        \/ \E b \in BOOLEAN : retry' = [retry EXCEPT ![s] = b]
    <3>1. (retry[s] \/ ~cancelled[s]) \in BOOLEAN
      OBVIOUS
    <3>2. CASE AcquireFails(s)
      BY <3>1, <3>2, Zenon DEF AcquireFails
    <3>3. CASE Undo(s) \/ Commit(s)
      BY <3>3 DEF Undo, Commit
    <3>4. CASE Wake(s) \/ ExchangeFails(s) \/ Refused(s)
      BY <3>4 DEF Wake, ExchangeFails, Refused
    <3> QED
      BY <3>2, <3>3, <3>4 DEF SessionStep, Acquired, SetAddresses, SetRoute, SetDns, Save, Renewed,
         Release, Tick, KernelExpires
  <2> QED
    BY <2>1
<1> QED
  BY <1>1, <1>2

-----------------------------------------------------------------------------
(* A step of a session, and what it leaves of the session *)

(* A step that is not of the main goroutine leaves its starts as they are.     *)
LEMMA StartsStay ==
  ASSUME UNCHANGED todo, NEW s \in Sessions
  PROVE  Starting(s)' <=> Starting(s)
BY DEF Starting, Now

LEMMA AcquiredSound ==
  ASSUME ShapeOK, TodoOK, Ordered, NEW s \in Sessions, Sound(s), Acquired(s)
  PROVE  Sound(s)' /\ Moves(s)
<1>1. PICK l \in Offers[s] : next' = Set(next, s, l)
  BY DEF Acquired
<1>2. l \in LeasesOf(s) /\ l # None
  BY OfferFacts, LeaseFacts
<1>3. /\ at[s] = "acquire" /\ at'[s] = "addr" /\ next'[s] = l
      /\ UNCHANGED <<lease, phase, retry, cancelled, machine, disk, main, lost, faults>>
  BY <1>1 DEF Acquired, ShapeOK
<1>4. Moves(s)
  BY <1>3 DEF Moves, Stays
<1>5. LeaseOK(s)'
  BY <1>2, <1>3 DEF Sound, LeaseOK
<1>6. Memory(s)'
  BY <1>3 DEF Sound, Memory, Applying
<1>7. Machine(s)'
  <2>1. SUFFICES ASSUME s \notin lost PROVE (AddrsOK(s) /\ FilesOK(s) /\ (s = "v4" => RouteOK))'
    BY <1>3 DEF Machine
  <2>2. lease[s] = None /\ AddrsOK(s) /\ FilesOK(s) /\ (s = "v4" => RouteOK)
    BY <1>3, <2>1 DEF Sound, Machine, Memory
  <2> QED
    BY <1>3, <2>2 DEF AddrsOK, FilesOK, RouteOK, OldRoute, NewRoute, Ips, Exact
<1> QED
  BY <1>4, <1>5, <1>6, <1>7 DEF Sound

LEMMA AcquireFailsSound ==
  ASSUME ShapeOK, TodoOK, Ordered, NEW s \in Sessions, Sound(s), AcquireFails(s)
  PROVE  Sound(s)' /\ Moves(s)
<1>1. /\ at[s] = "acquire" /\ at'[s] \in {"off", "wait"} /\ lease[s] = None /\ phase[s] = "held"
      /\ UNCHANGED <<lease, next, phase, machine, disk, lost>>
  BY DEF AcquireFails, StartFails, ShapeOK, Sound, Memory
<1>2. at'[s] = "wait" => retry'[s]
  <2>1. CASE Starting(s)
    BY <2>1 DEF AcquireFails, StartFails, ShapeOK
  <2>2. CASE ~Starting(s)
    <3>1. retry[s] /\ retry' = Set(retry, s, retry[s] \/ ~cancelled[s])
      BY <1>1, <2>2 DEF AcquireFails, Sound, Memory
    <3> QED
      BY <3>1, Zenon DEF ShapeOK
  <2> QED
    BY <2>1, <2>2
<1>3. s \notin lost => /\ addrs[s] = {} /\ (s = "v4" => route = NoRoute)
  BY <1>1 DEF Sound, Machine, AddrsOK, RouteOK, Ips, OldRoute, Exact
<1>4. Moves(s)
  <2>1. CASE Starting(s)
    BY <1>1, <1>3, <2>1 DEF AcquireFails, StartFails, ShapeOK, Moves, GoesOn, GivesUp, Clean
  <2>2. CASE ~Starting(s)
    BY <1>1, <2>2 DEF AcquireFails, ShapeOK, Moves, Stays
  <2> QED
    BY <2>1, <2>2
<1>5. LeaseOK(s)' /\ Memory(s)'
  BY <1>1, <1>2 DEF Sound, LeaseOK, Memory, Applying, Transition
<1>6. Machine(s)'
  BY <1>1, <1>3 DEF Machine, AddrsOK, FilesOK, RouteOK, OldRoute, Ips, Applying
<1> QED
  BY <1>4, <1>5, <1>6 DEF Sound

LEMMA SetAddressesSound ==
  ASSUME ShapeOK, TodoOK, Ordered, NEW s \in Sessions, Sound(s), SetAddresses(s)
  PROVE  Sound(s)' /\ Moves(s)
<1>1. /\ at[s] = "addr" /\ at'[s] \in {"route", "dns", "undo"} /\ (at'[s] = "route" => s = "v4")
      /\ at'[s] # "off" /\ (s = "v4" => at'[s] # "dns")
      /\ UNCHANGED <<lease, next, phase, retry, cancelled, route, dns, disk, main, lost>>
  BY DEF SetAddresses, ShapeOK
<1>2. /\ addrs[s] \subseteq addrs'[s] /\ addrs'[s] \subseteq addrs[s] \cup next[s].ips
      /\ at'[s] # "undo" => next[s].ips \subseteq addrs'[s]
  BY DEF SetAddresses, ShapeOK
<1>3. Starting(s)' <=> Starting(s)
  BY <1>1, StartsStay
<1>4. Moves(s)
  BY <1>1 DEF Moves, Stays
<1>5. LeaseOK(s)' /\ Memory(s)'
  BY <1>1, <1>3 DEF Sound, LeaseOK, Memory, Applying, Transition
<1>6. Machine(s)'
  <2>1. SUFFICES ASSUME s \notin lost PROVE (AddrsOK(s) /\ FilesOK(s) /\ (s = "v4" => RouteOK))'
    BY <1>1 DEF Machine
  <2>2. AddrsOK(s) /\ FilesOK(s) /\ (s = "v4" => RouteOK)
    BY <2>1 DEF Sound, Machine
  <2>3. AddrsOK(s)'
    BY <1>1, <1>2, <2>2 DEF AddrsOK, Ips, Exact
  <2>4. FilesOK(s)'
    BY <1>1, <2>2 DEF FilesOK, Applying
  <2>5. s = "v4" => RouteOK'
    BY <1>1, <2>2 DEF RouteOK, OldRoute, NewRoute, Exact
  <2> QED
    BY <2>3, <2>4, <2>5
<1> QED
  BY <1>4, <1>5, <1>6 DEF Sound

LEMMA SetRouteSound ==
  ASSUME ShapeOK, TodoOK, Ordered, NEW s \in Sessions, Sound(s), SetRoute(s)
  PROVE  Sound(s)' /\ Moves(s)
<1>1. /\ s = "v4" /\ at[s] = "route" /\ at'[s] \in {"dns", "undo"}
      /\ UNCHANGED <<lease, next, phase, retry, cancelled, addrs, dns, disk, main, lost>>
  BY DEF SetRoute, ShapeOK, Sound, Memory
<1>2. /\ at'[s] = "undo" => UNCHANGED route
      /\ at'[s] = "dns" => route' = IF next[s].router = None THEN route ELSE RouteOf(next[s])
  BY DEF SetRoute, ShapeOK
<1>3. Starting(s)' <=> Starting(s)
  BY <1>1, StartsStay
<1>4. Moves(s)
  BY <1>1 DEF Moves, Stays
<1>5. LeaseOK(s)' /\ Memory(s)'
  BY <1>1, <1>3 DEF Sound, LeaseOK, Memory, Applying, Transition
<1>6. Machine(s)'
  <2>1. SUFFICES ASSUME s \notin lost PROVE (AddrsOK(s) /\ FilesOK(s) /\ RouteOK)'
    BY <1>1 DEF Machine
  <2>2. AddrsOK(s) /\ FilesOK(s) /\ RouteOK
    BY <1>1, <2>1 DEF Sound, Machine
  <2>3. AddrsOK(s)'
    BY <1>1, <2>2 DEF AddrsOK, Ips, Exact
  <2>4. FilesOK(s)'
    BY <1>1, <2>2 DEF FilesOK, Applying
  <2>5. RouteOK'
    <3>1. OldRoute(s)' = OldRoute(s) /\ NewRoute(s)' = NewRoute(s) /\ (Exact(s)' <=> Exact(s))
      BY <1>1 DEF OldRoute, NewRoute, Exact
    <3>2. route = OldRoute(s) \/ (route = NoRoute /\ ~Exact(s))
      BY <1>1, <2>2 DEF RouteOK
    <3> QED
      BY <1>1, <1>2, <3>1, <3>2 DEF RouteOK, NewRoute
  <2> QED
    BY <2>3, <2>4, <2>5
<1> QED
  BY <1>4, <1>5, <1>6 DEF Sound

LEMMA SetDnsSound ==
  ASSUME ShapeOK, TodoOK, Ordered, NEW s \in Sessions, Sound(s), SetDns(s)
  PROVE  Sound(s)' /\ Moves(s)
<1>1. /\ at[s] = "dns" /\ at'[s] \in {"commit", "undo"}
      /\ UNCHANGED <<lease, next, phase, retry, cancelled, addrs, route, disk, main, lost>>
  BY DEF SetDns, ShapeOK
<1>2. /\ at'[s] = "undo" => UNCHANGED dns
      /\ at'[s] = "commit" => dns'[s] = next[s].dns
  BY DEF SetDns, ShapeOK
<1>3. Starting(s)' <=> Starting(s)
  BY <1>1, StartsStay
<1>4. Moves(s)
  BY <1>1 DEF Moves, Stays
<1>5. LeaseOK(s)' /\ Memory(s)'
  BY <1>1, <1>3 DEF Sound, LeaseOK, Memory, Applying, Transition
<1>6. Machine(s)'
  <2>1. SUFFICES ASSUME s \notin lost PROVE (AddrsOK(s) /\ FilesOK(s) /\ (s = "v4" => RouteOK))'
    BY <1>1 DEF Machine
  <2>2. AddrsOK(s) /\ FilesOK(s) /\ (s = "v4" => RouteOK)
    BY <2>1 DEF Sound, Machine
  <2>3. AddrsOK(s)'
    BY <1>1, <2>2 DEF AddrsOK, Ips, Exact
  <2>4. FilesOK(s)'
    BY <1>1, <1>2, <2>2 DEF FilesOK, Applying
  <2>5. s = "v4" => RouteOK'
    BY <1>1, <2>2 DEF RouteOK, OldRoute, NewRoute, Exact
  <2> QED
    BY <2>3, <2>4, <2>5
<1> QED
  BY <1>4, <1>5, <1>6 DEF Sound

(* A failed transition leaves the machine as it was leased before.            *)
LEMMA RollBackRestores ==
  ASSUME ShapeOK, NEW s \in Sessions, Sound(s), at[s] = "undo", s \notin lost, RollBack(s)
  PROVE  /\ addrs'[s] \subseteq Ips(s) /\ (Exact(s) => addrs'[s] = Ips(s))
         /\ s = "v4" => route' = OldRoute(s) \/ (route' = NoRoute /\ ~Exact(s))
<1>1. /\ addrs[s] \subseteq Ips(s) \cup next[s].ips /\ (Exact(s) => Ips(s) \subseteq addrs[s])
      /\ s = "v4" => route \in {OldRoute(s), NewRoute(s)} \/ (route = NoRoute /\ ~Exact(s))
  BY DEF Sound, Machine, AddrsOK, RouteOK
<1>2. next[s] \in LeasesOf(s) /\ next[s].ips # {}
  BY LeaseFacts DEF Sound, LeaseOK, Transition
<1>3. CASE lease[s] = None
  <2>1. /\ addrs'[s] = addrs[s] \ next[s].ips
        /\ s = "v4" => route' = IF route.router = next[s].router \/ route.src \subseteq next[s].ips
                                THEN NoRoute ELSE route
    BY <1>3 DEF RollBack, Unapply, ShapeOK
  <2>2. Ips(s) = {} /\ OldRoute(s) = NoRoute /\ addrs'[s] = {}
    BY <1>1, <1>3, <2>1 DEF Ips, OldRoute
  <2>3. s = "v4" => route = NoRoute \/ (route = RouteOf(next[s]) /\ next[s].router # None)
    BY <1>1, <2>2 DEF NewRoute
  <2>4. s = "v4" => route' = NoRoute
    BY <2>1, <2>3 DEF RouteOf, NoRoute
  <2> QED
    BY <2>2, <2>4
<1>4. CASE lease[s] # None
  <2> DEFINE old == lease[s]  new == next[s]
  <2>1. addrs'[s] = addrs[s] \ (new.ips \ old.ips)
    BY <1>4 DEF RollBack, ShapeOK
  <2>2. s = "v4" => route' = IF old.router = new.router /\ old.ips = new.ips THEN route
                             ELSE IF old.router # None /\ old.ips \subseteq addrs[s] THEN RouteOf(old)
                             ELSE IF route.router = new.router \/ route.src = new.ips
                             THEN NoRoute ELSE route
    BY <1>4 DEF RollBack
  <2>3. Ips(s) = old.ips /\ OldRoute(s) = RouteOf(old)
    BY <1>4 DEF Ips, OldRoute
  <2>4. addrs'[s] \subseteq Ips(s) /\ (Exact(s) => addrs'[s] = Ips(s))
    BY <1>1, <2>1, <2>3
  <2>5. ASSUME s = "v4" PROVE route' = OldRoute(s) \/ (route' = NoRoute /\ ~Exact(s))
    <3>1. CASE old.router = new.router /\ old.ips = new.ips
      BY <1>1, <2>2, <2>3, <2>5, <3>1 DEF NewRoute, RouteOf
    <3>2. CASE old.router # None /\ old.ips \subseteq addrs[s]
      BY <1>1, <2>2, <2>3, <2>5, <3>2 DEF NewRoute, RouteOf
    <3>3. CASE ~(old.router = new.router /\ old.ips = new.ips) /\ old.router = None
      <4>1. OldRoute(s) = NoRoute
        BY <2>3, <3>3 DEF RouteOf
      <4>2. route = NoRoute \/ (route = RouteOf(new) /\ new.router # None)
        BY <1>1, <2>5, <4>1 DEF NewRoute
      <4> QED
        BY <2>2, <2>5, <3>3, <4>1, <4>2 DEF RouteOf, NoRoute
    <3>4. CASE ~(old.router = new.router /\ old.ips = new.ips) /\ ~(old.ips \subseteq addrs[s])
      <4>1. ~Exact(s)
        BY <1>1, <2>3, <3>4
      <4>2. \/ route = OldRoute(s) \/ route = NoRoute
            \/ route = RouteOf(new) /\ new.router # None
        BY <1>1, <2>5 DEF NewRoute
      <4>3. route = RouteOf(new) /\ new.router # None => route.router = new.router
        BY DEF RouteOf
      <4> QED
        BY <2>2, <2>5, <3>4, <4>1, <4>2, <4>3
    <3> QED
      BY <3>1, <3>2, <3>3, <3>4
  <2> QED
    BY <2>4, <2>5
<1> QED
  BY <1>3, <1>4

LEMMA UndoSound ==
  ASSUME ShapeOK, TodoOK, Ordered, NEW s \in Sessions, Sound(s), Undo(s)
  PROVE  Sound(s)' /\ Moves(s)
<1>1. /\ at[s] = "undo" /\ at'[s] \in {"off", "wait"} /\ next'[s] = None
      /\ UNCHANGED <<lease, phase, cancelled, disk, lost>> /\ RollBack(s)
  BY DEF Undo, StartFails, ShapeOK
<1>2. /\ Starting(s) => lease[s] = None /\ at'[s] = "off"
      /\ ~Starting(s) => at'[s] = "wait" /\ retry'[s]
      /\ lease[s] # None => phase[s] # "held"
      /\ lease[s] = None => phase[s] = "held"
  BY <1>1 DEF Undo, StartFails, ShapeOK, Sound, Memory, Applying
<1>3. s \notin lost => /\ addrs'[s] \subseteq Ips(s) /\ (Exact(s) => addrs'[s] = Ips(s))
                       /\ s = "v4" => route' = OldRoute(s) \/ (route' = NoRoute /\ ~Exact(s))
  BY <1>1, RollBackRestores
<1>4. lease[s] # None => dns' = dns
  BY <1>1 DEF RollBack
<1>5. Moves(s)
  <2>1. CASE Starting(s)
    <3>1. s \notin lost' => Clean(s)'
      BY <1>1, <1>2, <1>3, <2>1 DEF Clean, Ips, OldRoute, Exact
    <3>2. RollsBack \/ (todo' = Rest /\ UNCHANGED mode)
      BY <2>1 DEF Undo, StartFails
    <3> QED
      BY <1>2, <2>1, <3>1, <3>2 DEF Moves, GoesOn, GivesUp
  <2>2. CASE ~Starting(s)
    BY <1>1, <2>2 DEF Undo, ShapeOK, Moves, Stays
  <2> QED
    BY <2>1, <2>2
<1>6. LeaseOK(s)' /\ Memory(s)'
  BY <1>1, <1>2 DEF Sound, LeaseOK, Memory, Applying, Transition
<1>7. Machine(s)'
  <2>1. SUFFICES ASSUME s \notin lost PROVE (AddrsOK(s) /\ FilesOK(s) /\ (s = "v4" => RouteOK))'
    BY <1>1 DEF Machine
  <2>2. FilesOK(s)
    BY <2>1 DEF Sound, Machine
  <2>3. AddrsOK(s)'
    BY <1>1, <1>2, <1>3, <2>1 DEF AddrsOK, Ips, Exact
  <2>4. FilesOK(s)'
    BY <1>1, <1>4, <2>2 DEF FilesOK, Applying
  <2>5. s = "v4" => RouteOK'
    BY <1>1, <1>2, <1>3, <2>1 DEF RouteOK, OldRoute, Exact
  <2> QED
    BY <2>3, <2>4, <2>5
<1> QED
  BY <1>5, <1>6, <1>7 DEF Sound

LEMMA CommitSound ==
  ASSUME ShapeOK, TodoOK, Ordered, NEW s \in Sessions, Sound(s), Commit(s)
  PROVE  Sound(s)' /\ Moves(s)
<1>1. /\ at[s] = "commit" /\ at'[s] = "save" /\ lease'[s] = next[s] /\ phase'[s] = "held" /\ ~retry'[s]
      /\ addrs'[s] = addrs[s] \ (Ips(s) \ next[s].ips)
      /\ s = "v4" => route' = IF route.src \subseteq Ips(s) \ next[s].ips THEN NoRoute ELSE route
      /\ UNCHANGED <<next, cancelled, dns, disk, main, lost, faults>>
  BY DEF Commit, Delete, ShapeOK, Ips
<1>2. next[s] \in LeasesOf(s) /\ next[s] # None /\ next[s].ips # {}
  BY <1>1, LeaseFacts DEF Sound, LeaseOK, Transition
<1>3. Starting(s)' <=> Starting(s)
  BY <1>1, StartsStay
<1>4. Moves(s)
  BY <1>1 DEF Moves, Stays
<1>5. LeaseOK(s)' /\ Memory(s)'
  BY <1>1, <1>2, <1>3 DEF Sound, LeaseOK, Memory, Applying, Transition
<1>6. Machine(s)'
  <2>1. SUFFICES ASSUME s \notin lost PROVE (AddrsOK(s) /\ FilesOK(s) /\ (s = "v4" => RouteOK))'
    BY <1>1 DEF Machine
  <2>2. AddrsOK(s) /\ FilesOK(s) /\ (s = "v4" => RouteOK)
    BY <2>1 DEF Sound, Machine
  <2>3. Ips(s)' = next[s].ips /\ OldRoute(s)' = RouteOf(next[s])
    BY <1>1, <1>2 DEF Ips, OldRoute
  <2>4. addrs'[s] = next[s].ips
    BY <1>1, <2>2 DEF AddrsOK
  <2>5. AddrsOK(s)'
    BY <1>1, <2>3, <2>4 DEF AddrsOK
  <2>6. FilesOK(s)'
    BY <1>1, <2>2 DEF FilesOK, Applying
  <2>7. ASSUME s = "v4" PROVE RouteOK'
    <3>1. route = NewRoute(s) \/ (route = NoRoute /\ next[s].router = None)
      BY <1>1, <2>2, <2>7 DEF RouteOK
    <3>2. next[s].router = None => OldRoute(s) = NoRoute
      BY <1>1, <2>7 DEF Sound, Memory, Applying, OldRoute, RouteOf
    <3>3. route = RouteOf(next[s])
      BY <3>1, <3>2 DEF NewRoute, RouteOf
    <3>4. route' = RouteOf(next[s])
      BY <1>1, <1>2, <2>7, <3>3 DEF RouteOf, NoRoute
    <3> QED
      BY <1>1, <2>3, <2>7, <3>4 DEF RouteOK
  <2> QED
    BY <2>5, <2>6, <2>7
<1> QED
  BY <1>4, <1>5, <1>6 DEF Sound

LEMMA SaveSound ==
  ASSUME ShapeOK, TodoOK, Ordered, NEW s \in Sessions, Sound(s), Save(s)
  PROVE  Sound(s)' /\ Moves(s)
<1>1. /\ at[s] = "save" /\ next'[s] = None
      /\ UNCHANGED <<phase, retry, cancelled, machine, mode>>
      /\ \/ disk'[s] = lease[s] /\ UNCHANGED lost
         \/ disk'[s] = disk[s] /\ s \in lost'
      /\ IF Starting(s) /\ mode = "oneshot" THEN at'[s] = "off" /\ lease'[s] = None
                                             ELSE at'[s] = "wait" /\ UNCHANGED lease
      /\ todo' = IF Starting(s) THEN Rest ELSE todo
  BY DEF Save, ShapeOK
<1>2. lease[s] # None /\ ~retry[s] /\ phase[s] = "held"
  BY <1>1 DEF Sound, Memory
<1>3. Moves(s)
  BY <1>1 DEF Moves, Stays, GoesOn
<1>4. LeaseOK(s)' /\ Memory(s)'
  BY <1>1, <1>2 DEF Sound, LeaseOK, Memory, Applying, Transition
<1>5. Machine(s)'
  <2>1. SUFFICES ASSUME s \notin lost' PROVE (AddrsOK(s) /\ FilesOK(s) /\ (s = "v4" => RouteOK))'
    BY DEF Machine
  <2>2. s \notin lost /\ disk'[s] = lease[s] /\ AddrsOK(s) /\ FilesOK(s) /\ (s = "v4" => RouteOK)
    BY <1>1, <2>1 DEF Sound, Machine
  <2>3. /\ addrs'[s] = lease[s].ips /\ dns'[s] = lease[s].dns
        /\ s = "v4" => route' = RouteOf(lease[s])
    BY <1>1, <1>2, <2>2 DEF AddrsOK, FilesOK, RouteOK, Ips, OldRoute, Exact
  <2>4. CASE at'[s] = "off"
    BY <1>2, <2>2, <2>3, <2>4 DEF AddrsOK, FilesOK, RouteOK, Applying
  <2>5. CASE at'[s] = "wait"
    <3>1. lease'[s] = lease[s]
      BY <1>1, <2>5
    <3> QED
      BY <1>2, <2>2, <2>3, <2>5, <3>1 DEF AddrsOK, FilesOK, RouteOK, Applying, Ips, OldRoute
  <2> QED
    BY <1>1, <2>4, <2>5
<1> QED
  BY <1>3, <1>4, <1>5 DEF Sound

-----------------------------------------------------------------------------
(* The renewal loop *)

(* A lease that is dropped leaves nothing.                                    *)
LEMMA DropCleans ==
  ASSUME ShapeOK, NEW s \in Sessions, Sound(s), at[s] \in {"wait", "exchange"}, lease[s] # None, Drop(s)
  PROVE  /\ lease'[s] = None /\ phase'[s] = "held" /\ disk'[s] = None
         /\ s \notin lost => Clean(s)'
<1>1. /\ lease'[s] = None /\ phase'[s] = "held" /\ disk'[s] = None
      /\ addrs'[s] = addrs[s] \ lease[s].ips
      /\ s = "v4" => route' = IF route.router = lease[s].router \/ route.src \subseteq lease[s].ips
                              THEN NoRoute ELSE route
  BY DEF Drop, Unapply, ShapeOK
<1>2. ASSUME s \notin lost PROVE Clean(s)'
  <2>1. AddrsOK(s) /\ (s = "v4" => RouteOK)
    BY <1>2 DEF Sound, Machine
  <2>2. addrs[s] \subseteq lease[s].ips /\ (s = "v4" => route = RouteOf(lease[s]) \/ route = NoRoute)
    BY <2>1 DEF AddrsOK, RouteOK, Ips, OldRoute
  <2>3. s = "v4" => route' = NoRoute
    BY <1>1, <2>2 DEF RouteOf, NoRoute
  <2> QED
    BY <1>1, <2>2, <2>3 DEF Clean
<1> QED
  BY <1>1, <1>2

(* So a session that has just dropped its lease is sound where it goes.       *)
LEMMA DroppedSound ==
  ASSUME ShapeOK, NEW s \in Sessions, Sound(s), at[s] \in {"wait", "exchange"}, lease[s] # None, Drop(s),
         UNCHANGED <<next, lost>>, at'[s] \in {"wait", "acquire", "ended"}, at'[s] = "ended" \/ retry'[s]
  PROVE  Sound(s)'
<1>1. /\ lease'[s] = None /\ phase'[s] = "held" /\ disk'[s] = None
      /\ s \notin lost => Clean(s)'
  BY DropCleans
<1>2. LeaseOK(s)' /\ Memory(s)'
  BY <1>1 DEF Sound, LeaseOK, Memory, Applying, Transition
<1>3. Machine(s)'
  BY <1>1 DEF Machine, Clean, AddrsOK, FilesOK, RouteOK, OldRoute, Ips, Applying
<1> QED
  BY <1>2, <1>3 DEF Sound

(* Going to exchange, or back to wait, with the lease as it is.               *)
LEMMA WaitsSound ==
  ASSUME ShapeOK, NEW s \in Sessions, Sound(s), at[s] \in {"wait", "exchange"},
         UNCHANGED <<lease, next, phase, machine, disk, lost>>, lease[s] # None, phase[s] = "due",
         at'[s] = "exchange" \/ (at'[s] = "wait" /\ retry'[s])
  PROVE  Sound(s)'
<1>1. LeaseOK(s)' /\ Memory(s)'
  BY DEF Sound, LeaseOK, Memory, Applying, Transition
<1>2. Machine(s)'
  BY DEF Sound, Machine, AddrsOK, FilesOK, RouteOK, OldRoute, Ips, Applying, Exact
<1> QED
  BY <1>1, <1>2 DEF Sound

LEMMA LoopMoves ==
  ASSUME TodoOK, Ordered, NEW s \in Sessions, at[s] \in {"wait", "exchange"}, at'[s] # "off", UNCHANGED main
  PROVE  ~Starting(s) /\ Moves(s)
BY StartingFacts DEF Moves, Stays

LEMMA WakeSound ==
  ASSUME ShapeOK, TodoOK, Ordered, NEW s \in Sessions, Sound(s), Wake(s)
  PROVE  Sound(s)' /\ Moves(s)
<1>1. at[s] = "wait" /\ at'[s] \in {"acquire", "exchange"} /\ UNCHANGED <<next, cancelled, main, lost>>
  BY DEF Wake, ShapeOK
<1>2. Moves(s)
  BY <1>1, LoopMoves
<1>3. CASE lease[s] = None
  <2>1. at'[s] = "acquire" /\ UNCHANGED <<lease, phase, retry, machine, disk>>
    BY <1>3 DEF Wake, ShapeOK
  <2>2. retry[s]
    BY <1>1, <1>3 DEF Sound, Memory
  <2>3. LeaseOK(s)' /\ Memory(s)'
    BY <1>1, <1>3, <2>1, <2>2 DEF Sound, LeaseOK, Memory, Applying, Transition
  <2>4. Machine(s)'
    BY <1>1, <1>3, <2>1 DEF Sound, Machine, AddrsOK, FilesOK, RouteOK, OldRoute, Ips, Applying, Exact
  <2> QED
    BY <1>2, <2>3, <2>4 DEF Sound
<1>4. CASE lease[s] # None /\ phase[s] = "expired"
  <2>1. Drop(s) /\ retry'[s] /\ at'[s] = "acquire"
    BY <1>4 DEF Wake, ShapeOK
  <2> QED
    BY <1>1, <1>2, <1>4, <2>1, DroppedSound
<1>5. CASE lease[s] # None /\ phase[s] # "expired"
  <2>1. phase[s] = "due" /\ at'[s] = "exchange" /\ UNCHANGED <<lease, phase, retry, machine, disk>>
    BY <1>5 DEF Wake, ShapeOK
  <2> QED
    BY <1>1, <1>2, <1>5, <2>1, WaitsSound
<1> QED
  BY <1>3, <1>4, <1>5

LEMMA RenewedSound ==
  ASSUME ShapeOK, TodoOK, Ordered, NEW s \in Sessions, Sound(s), Renewed(s)
  PROVE  Sound(s)' /\ Moves(s)
<1>1. at[s] = "exchange" /\ lease[s] # None /\ lease[s] \in LeasesOf(s) /\ phase[s] # "held"
  BY DEF Renewed, Sound, Memory, LeaseOK
<1>2. PICK l \in Renewals(s) : next' = Set(next, s, l)
  BY DEF Renewed
<1>3. /\ at'[s] = "addr" /\ next'[s] = l
      /\ UNCHANGED <<lease, phase, retry, cancelled, machine, disk, main, lost, faults>>
  BY <1>2 DEF Renewed, ShapeOK
<1>4. l \in LeasesOf(s) /\ l # None /\ (s = "v4" /\ l.router = None => lease[s].router = None)
  BY <1>1, RenewalFacts, LeaseFacts
<1>5. ~Starting(s) /\ Moves(s)
  BY <1>1, <1>3, LoopMoves
<1>6. LeaseOK(s)' /\ Memory(s)'
  <2>1. ~Starting(s)'
    BY <1>3, <1>5, StartsStay
  <2> QED
    BY <1>1, <1>3, <1>4, <2>1 DEF Sound, LeaseOK, Memory, Applying, Transition
<1>7. Machine(s)'
  BY <1>1, <1>3 DEF Sound, Machine, AddrsOK, FilesOK, RouteOK, OldRoute, Ips, Applying, Exact
<1> QED
  BY <1>5, <1>6, <1>7 DEF Sound

LEMMA ExchangeFailsSound ==
  ASSUME ShapeOK, TodoOK, Ordered, NEW s \in Sessions, Sound(s), ExchangeFails(s)
  PROVE  Sound(s)' /\ Moves(s)
<1>1. /\ at[s] = "exchange" /\ at'[s] = "wait" /\ retry'[s]
      /\ UNCHANGED <<next, cancelled, main, lost>>
  BY DEF ExchangeFails, ShapeOK
<1>2. lease[s] # None /\ phase[s] # "held"
  BY <1>1 DEF Sound, Memory
<1>3. Moves(s)
  BY <1>1, LoopMoves
<1>4. CASE phase[s] = "expired"
  <2>1. Drop(s)
    BY <1>4 DEF ExchangeFails
  <2> QED
    BY <1>1, <1>2, <1>3, <2>1, DroppedSound
<1>5. CASE phase[s] # "expired"
  <2>1. phase[s] = "due" /\ UNCHANGED <<lease, phase, machine, disk>>
    BY <1>2, <1>5 DEF ExchangeFails, ShapeOK
  <2> QED
    BY <1>1, <1>2, <1>3, <2>1, WaitsSound
<1> QED
  BY <1>4, <1>5

LEMMA RefusedSound ==
  ASSUME ShapeOK, TodoOK, Ordered, NEW s \in Sessions, Sound(s), Refused(s)
  PROVE  Sound(s)' /\ Moves(s)
<1>1. /\ at[s] = "exchange" /\ at'[s] = "acquire" /\ retry'[s] /\ Drop(s)
      /\ UNCHANGED <<next, cancelled, main, lost>>
  BY DEF Refused, ShapeOK
<1>2. lease[s] # None
  BY <1>1 DEF Sound, Memory
<1> QED
  BY <1>1, <1>2, LoopMoves, DroppedSound

LEMMA ReleaseSound ==
  ASSUME ShapeOK, TodoOK, Ordered, NEW s \in Sessions, Sound(s), Release(s)
  PROVE  Sound(s)' /\ Moves(s)
<1>1. at[s] = "wait" /\ at'[s] = "ended" /\ UNCHANGED <<next, retry, cancelled, main, lost>>
  BY DEF Release, ShapeOK
<1>2. Moves(s)
  BY <1>1, LoopMoves
<1>3. CASE lease[s] # None
  BY <1>1, <1>2, <1>3, DroppedSound DEF Release
<1>4. CASE lease[s] = None
  <2>1. UNCHANGED <<lease, phase, machine, disk>>
    BY <1>4 DEF Release
  <2>2. LeaseOK(s)' /\ Memory(s)'
    BY <1>1, <1>4, <2>1 DEF Sound, LeaseOK, Memory, Applying, Transition
  <2>3. Machine(s)'
    BY <1>1, <1>4, <2>1 DEF Sound, Machine, Memory, AddrsOK, FilesOK, RouteOK, OldRoute, Ips, Applying, Exact
  <2> QED
    BY <1>2, <2>2, <2>3 DEF Sound
<1> QED
  BY <1>3, <1>4

LEMMA TickSound ==
  ASSUME ShapeOK, NEW s \in Sessions, Sound(s), Tick(s)
  PROVE  Sound(s)' /\ UNCHANGED main /\ at' = at
<1>1. /\ at[s] \in {"wait", "exchange"} /\ lease[s] # None /\ phase'[s] \in {"due", "expired"}
      /\ Exact(s)
      /\ UNCHANGED <<at, lease, next, retry, cancelled, machine, disk, main, lost, faults>>
  BY DEF Tick, ShapeOK, Exact
<1>2. LeaseOK(s)' /\ Memory(s)'
  BY <1>1 DEF Sound, LeaseOK, Memory, Applying, Transition
<1>3. Machine(s)'
  <2>1. SUFFICES ASSUME s \notin lost PROVE (AddrsOK(s) /\ FilesOK(s) /\ (s = "v4" => RouteOK))'
    BY <1>1 DEF Machine
  <2>2. AddrsOK(s) /\ FilesOK(s) /\ (s = "v4" => RouteOK)
    BY <2>1 DEF Sound, Machine
  <2>3. AddrsOK(s)' /\ FilesOK(s)'
    BY <1>1, <2>2 DEF AddrsOK, FilesOK, Ips, Applying
  <2>4. s = "v4" => RouteOK'
    BY <1>1, <2>2 DEF RouteOK, OldRoute
  <2> QED
    BY <2>3, <2>4
<1> QED
  BY <1>1, <1>2, <1>3 DEF Sound

LEMMA KernelExpiresSound ==
  ASSUME ShapeOK, NEW s \in Sessions, Sound(s), KernelExpires(s)
  PROVE  /\ Sound(s)' /\ UNCHANGED main /\ at' = at
         /\ s \notin lost /\ at[s] = "off" => addrs'[s] = {} /\ (route = NoRoute => route' = NoRoute)
<1>1. /\ at[s] = "off" \/ (at[s] \in {"wait", "exchange"} /\ ~Exact(s))
      /\ addrs'[s] = {} /\ route' = IF s = "v4" /\ route.src \subseteq addrs[s] THEN NoRoute ELSE route
      /\ UNCHANGED <<session, dns, disk, main, lost, faults>>
  BY DEF KernelExpires, Delete, ShapeOK, Exact
<1>2. LeaseOK(s)' /\ Memory(s)'
  BY <1>1 DEF Sound, LeaseOK, Memory, Applying, Transition
<1>3. Machine(s)'
  <2>1. SUFFICES ASSUME s \notin lost PROVE (AddrsOK(s) /\ FilesOK(s) /\ (s = "v4" => RouteOK))'
    BY <1>1 DEF Machine
  <2>2. AddrsOK(s) /\ FilesOK(s) /\ (s = "v4" => RouteOK)
    BY <2>1 DEF Sound, Machine
  <2>3. (Exact(s)' <=> Exact(s)) /\ Ips(s)' = Ips(s) /\ OldRoute(s)' = OldRoute(s)
    BY <1>1 DEF Exact, Ips, OldRoute
  <2>4. AddrsOK(s)' /\ FilesOK(s)'
    BY <1>1, <2>2, <2>3 DEF AddrsOK, FilesOK, Applying
  <2>5. s = "v4" => RouteOK'
    BY <1>1, <2>2, <2>3 DEF RouteOK
  <2> QED
    BY <2>4, <2>5
<1> QED
  BY <1>1, <1>2, <1>3 DEF Sound

-----------------------------------------------------------------------------
(* Steps of a session and of time *)

LEMMA StepsSound ==
  ASSUME ShapeOK, TodoOK, Ordered, NEW s \in Sessions, Sound(s), SessionStep(s)
  PROVE  Sound(s)' /\ Moves(s)
BY AcquiredSound, AcquireFailsSound, SetAddressesSound, SetRouteSound, SetDnsSound, UndoSound,
   CommitSound, SaveSound, WakeSound, RenewedSound, ExchangeFailsSound, RefusedSound, ReleaseSound
   DEF SessionStep

LEMMA StepsNotOff ==
  ASSUME NEW s \in Sessions, SessionStep(s)
  PROVE  at[s] # "off"
BY DEF SessionStep, Acquired, AcquireFails, SetAddresses, SetRoute, SetDns, Undo, Commit, Save, Wake,
       Renewed, ExchangeFails, Refused, Release

LEMMA SessionKeeps ==
  ASSUME IInv, NEW s \in Sessions, SessionStep(s)
  PROVE  IInv'
<1>1. Sound(s)' /\ Moves(s)
  BY StepsSound DEF IInv
<1>2. at[s] # "off" /\ Alone(s) /\ ShapeOK'
  BY StepsNotOff, StepsAlone, StepsShape DEF IInv, Sound
<1>3. ASSUME NEW t \in Sessions, t # s
      PROVE  Same(t) /\ (Off(t)' <=> Off(t)) /\ (Clean(t) => Clean(t)') /\ (t \in lost => t \in lost')
  BY <1>2, <1>3 DEF Alone, Same, Off, Clean
<1>4. CASE Stays(s)
  <2>1. todo' = todo /\ mode' = mode /\ ~Off(s)'
    BY <1>4 DEF Stays, Off
  <2>2. \A t \in Sessions : Starting(t)' <=> Starting(t)
    BY <2>1, StartsStay
  <2>3. Sweeping' <=> Sweeping
    BY <2>1 DEF Sweeping
  <2>4. TodoOK'
    BY <2>1 DEF TodoOK, IInv
  <2>5. \A t \in Sessions : Off(t) => Off(t)'
    BY <1>2, <1>3 DEF Off
  <2>6. Ordered'
    <3>1. ASSUME NEW t \in Sessions, todo # <<>>, Head(todo) = JustStart(t)
          PROVE  at'[t] \notin {"wait", "exchange", "ended"}
      <4>1. Starting(t) /\ at[t] \notin {"wait", "exchange", "ended"}
        BY <3>1 DEF Starting, Now, JustStart, IInv, Ordered
      <4> QED
        BY <1>3, <1>4, <4>1 DEF Stays, Same
    <3>2. \A t \in Sessions : Other(t) \in Sessions
      BY DEF Other, Sessions
    <3> QED
      BY <2>1, <2>5, <3>1, <3>2 DEF Ordered, IInv, Sessions
  <2>7. Modes'
    <3>1. mode # "new"
      BY <1>2 DEF IInv, Modes, Off
    <3> QED
      BY <2>1, <2>2, <2>3, <2>5, <3>1 DEF Modes, IInv
  <2>8. ASSUME NEW t \in Sessions PROVE Sound(t)' /\ Fresh(t)'
    <3>1. CASE t = s
      BY <1>1, <2>1, <3>1 DEF Fresh
    <3>2. CASE t # s
      <4>1. Sound(t)'
        BY <1>3, <2>2, <3>2, Kept DEF IInv, Sound
      <4>2. Fresh(t)'
        BY <1>3, <2>1, <2>2, <2>3, <3>2 DEF IInv, Fresh
      <4> QED
        BY <4>1, <4>2
    <3> QED
      BY <3>1, <3>2
  <2> QED
    BY <1>2, <2>4, <2>6, <2>7, <2>8 DEF IInv
<1>5. CASE GoesOn(s)
  <2>1. Starting(s) /\ todo' = Rest /\ mode' = mode
    BY <1>5 DEF GoesOn
  <2>2. TodoOK' /\ ~Sweeping' /\ Ordered' /\ ~Sweeping /\ \A t \in Sessions : ~Starting(t)'
    BY <2>1, JobsDone DEF IInv
  <2>3. \A t \in Sessions \ {s} : ~Starting(t)
    BY <2>1, StartingFacts DEF IInv
  <2>4. Modes'
    <3>1. mode # "new"
      BY <1>2 DEF IInv, Modes, Off
    <3>2. mode = "oneshot" => \A t \in Sessions : Off(t)'
      <4>1. mode = "oneshot" => at'[s] = "off"
        BY <1>5 DEF GoesOn
      <4>2. mode = "oneshot" => \A t \in Sessions \ {s} : Off(t)
        BY <2>2, <2>3 DEF IInv, Modes
      <4> QED
        BY <1>3, <4>1, <4>2 DEF Off
    <3> QED
      BY <2>1, <3>1, <3>2 DEF Modes
  <2>5. ASSUME NEW t \in Sessions PROVE Sound(t)' /\ Fresh(t)'
    <3>1. CASE t = s
      BY <1>1, <1>5, <2>1, <2>2, <3>1 DEF Fresh, GoesOn, Off
    <3>2. CASE t # s
      <4>1. Sound(t)'
        BY <1>3, <2>2, <2>3, <3>2, Kept DEF IInv, Sound
      <4>2. Fresh(t)'
        BY <1>3, <2>1, <2>2, <3>2 DEF IInv, Fresh
      <4> QED
        BY <4>1, <4>2
    <3> QED
      BY <3>1, <3>2
  <2> QED
    BY <1>2, <2>2, <2>4, <2>5 DEF IInv
<1>6. CASE GivesUp(s)
  <2>1. Starting(s) /\ mode' = (IF mode = "startup" THEN "oneshot" ELSE mode)
    BY <1>6 DEF GivesUp, RollsBack
  <2>2. TodoOK' /\ Sweeping' /\ Ordered' /\ \A t \in Sessions : ~Starting(t)'
    BY <1>6, Replanned DEF GivesUp, RollsBack
  <2>3. \A t \in Sessions \ {s} : ~Starting(t)
    BY <2>1, StartingFacts DEF IInv
  <2>4. Modes'
    <3>1. mode # "new"
      BY <1>2 DEF IInv, Modes, Off
    <3> QED
      BY <2>1, <2>2, <3>1 DEF Modes
  <2>5. ASSUME NEW t \in Sessions PROVE Sound(t)' /\ Fresh(t)'
    <3>1. CASE t = s
      BY <1>1, <2>2, <3>1 DEF Fresh
    <3>2. CASE t # s
      BY <1>3, <2>2, <2>3, <3>2, Kept DEF IInv, Sound, Fresh
    <3> QED
      BY <3>1, <3>2
  <2> QED
    BY <1>2, <2>2, <2>4, <2>5 DEF IInv
<1> QED
  BY <1>1, <1>4, <1>5, <1>6 DEF Moves

LEMMA TimeKeeps ==
  ASSUME IInv, NEW s \in Sessions, Tick(s) \/ KernelExpires(s)
  PROVE  IInv'
<1>1. /\ Sound(s)' /\ at' = at /\ todo' = todo /\ mode' = mode /\ lost' = lost
      /\ s \notin lost /\ at[s] = "off" /\ Clean(s) => Clean(s)'
  <2>1. CASE Tick(s)
    BY <2>1, TickSound DEF IInv, Tick, Clean
  <2>2. CASE KernelExpires(s)
    BY <2>2, KernelExpiresSound DEF IInv, KernelExpires, Clean
  <2> QED
    BY <2>1, <2>2
<1>2. Alone(s) /\ ShapeOK'
  BY StepsAlone, StepsShape DEF IInv, Sound
<1>3. \A t \in Sessions : (Starting(t)' <=> Starting(t)) /\ (Off(t)' <=> Off(t))
  BY <1>1, StartsStay DEF Off
<1>4. Sweeping' <=> Sweeping
  BY <1>1 DEF Sweeping
<1>5. TodoOK' /\ Ordered'
  BY <1>1 DEF IInv, TodoOK, Ordered, Off
<1>6. Modes'
  BY <1>1, <1>3, <1>4 DEF IInv, Modes
<1>7. ASSUME NEW t \in Sessions PROVE Sound(t)' /\ Fresh(t)'
  <2>1. CASE t = s
    BY <1>1, <1>3, <1>4, <2>1 DEF IInv, Fresh, Off
  <2>2. CASE t # s
    <3>1. Same(t)
      BY <1>2, <2>2 DEF Alone
    <3>2. Sound(t)'
      BY <1>3, <3>1, Kept DEF IInv, Sound
    <3>3. Fresh(t)'
      BY <1>1, <1>3, <1>4, <3>1 DEF IInv, Fresh, Same, Clean
    <3> QED
      BY <3>2, <3>3
  <2> QED
    BY <2>1, <2>2
<1> QED
  BY <1>2, <1>5, <1>6, <1>7 DEF IInv

-----------------------------------------------------------------------------
(* Steps of the main goroutine *)

LEMMA StopKeeps ==
  ASSUME IInv, NEW s \in Sessions, Stop(s)
  PROVE  IInv'
<1>1. /\ Now(Job("stop", s)) /\ UNCHANGED <<lease, next, phase, machine, disk, mode, lost, faults>>
      /\ at' = at \/ (at[s] \in {"off", "ended"} /\ at' = Set(at, s, "off"))
  BY DEF Stop
<1>2. ShapeOK'
  BY DEF IInv, ShapeOK, Stop, Places
<1>3. \A t \in Sessions : ~Starting(t)
  BY <1>1 DEF Starting, Now, Job
<1>4. mode # "new"
  BY <1>1 DEF IInv, Modes, Now
<1>5. CASE UNCHANGED <<at, retry, todo>>
  <2>1. \A t \in Sessions : Same(t)
    BY <1>1, <1>5 DEF Same
  <2>2. \A t \in Sessions : Sound(t)'
    BY <1>5, <2>1, StartsStay, Kept DEF IInv, Sound
  <2>3. TodoOK' /\ Ordered' /\ Modes'
    BY <1>1, <1>5 DEF IInv, TodoOK, Ordered, Modes, Off, Sweeping, Starting, Now
  <2>4. \A t \in Sessions : Fresh(t)'
    BY <1>1, <1>5 DEF IInv, Fresh, Off, Sweeping, Clean
  <2> QED
    BY <1>2, <2>2, <2>3, <2>4 DEF IInv
<1>6. CASE at[s] \in {"off", "ended"} /\ todo' = Rest /\ at' = Set(at, s, "off") /\ retry' = Set(retry, s, FALSE)
  <2>1. /\ TodoOK' /\ (Sweeping' <=> Sweeping)
        /\ todo # <<>> /\ Head(todo) \in Calls /\ todo' # <<>> /\ Head(todo') = Tail(Head(todo))
    BY <1>1, <1>6, StopDone DEF IInv
  <2> DEFINE c == Head(todo)
  <2>2. /\ \A t \in Sessions : Tail(c) = SweepTail(t) => s = Other(t)
        /\ Tail(c) = JustSweep => c = SweepTail(s)
        /\ Tail(c) = StartTail => s = "v4"
        /\ \A t \in Sessions : Tail(c) = JustStart(t) => s = t \/ (t = "v4" /\ c = StartTail)
    BY <1>1, <2>1, StopCall DEF Now
  <2>3. at'[s] = "off" /\ \A t \in Sessions : t # s => at'[t] = at[t]
    BY <1>6 DEF IInv, ShapeOK
  <2>4. Ordered'
    <3>1. \A t \in Sessions : Head(todo') = SweepTail(t) => Off(Other(t))'
      BY <2>1, <2>2, <2>3 DEF Off
    <3>2. Head(todo') = JustSweep => \A t \in Sessions : Off(t)'
      BY <2>1, <2>2, <2>3 DEF IInv, Ordered, Off, Other, Sessions
    <3>3. Head(todo') = StartTail => Off("v4")'
      BY <2>1, <2>2, <2>3 DEF Off
    <3>4. \A t \in Sessions : Head(todo') = JustStart(t) => at'[t] = "off"
      BY <2>1, <2>2, <2>3 DEF IInv, Ordered, Off
    <3> QED
      BY <3>1, <3>2, <3>3, <3>4 DEF Ordered
  <2>5. \A t \in Sessions : Starting(t)' => at'[t] = "off"
    <3>1. ASSUME NEW t \in Sessions, Starting(t)' PROVE at'[t] = "off"
      <4>1. Head(todo') \in Calls /\ Head(Head(todo')) = Job("start", t)
        BY <2>1, <3>1 DEF Starting, Now, TodoOK
      <4>2. Tail(c) = JustStart(t)
        BY <2>1, <4>1, StartCall
      <4> QED
        BY <2>1, <2>2, <2>3, <4>2 DEF IInv, Ordered, Off
    <3> QED
      BY <3>1
  <2>6. Modes'
    BY <1>1, <1>3, <1>4, <2>1, <2>3 DEF IInv, Modes, Off
  <2>7. Sound(s)' /\ Fresh(s)'
    <3>1. lease[s] = None /\ phase[s] = "held"
      BY <1>6 DEF IInv, Sound, Memory
    <3>2. LeaseOK(s)' /\ Memory(s)'
      BY <1>1, <2>3, <3>1 DEF IInv, Sound, LeaseOK, Memory, Applying, Transition
    <3>3. Machine(s)'
      BY <1>1, <1>6, <2>3 DEF IInv, Sound, Machine, AddrsOK, FilesOK, RouteOK, Applying
    <3>4. s \notin lost /\ at[s] = "ended" => Clean(s)
      BY DEF IInv, Sound, Machine, AddrsOK, RouteOK, Clean
    <3>5. Fresh(s)'
      BY <1>1, <1>6, <2>1, <3>4 DEF IInv, Fresh, Off, Clean
    <3> QED
      BY <3>2, <3>3, <3>5 DEF Sound
  <2>8. ASSUME NEW t \in Sessions, t # s PROVE Sound(t)' /\ Fresh(t)'
    <3>1. Same(t)
      BY <1>1, <1>6, <2>3, <2>8 DEF Same, IInv, ShapeOK
    <3>2. (Starting(t)' <=> Starting(t)) \/ at[t] = "off"
      BY <1>3, <2>3, <2>5, <2>8
    <3>3. Sound(t)'
      BY <3>1, <3>2, Kept DEF IInv, Sound
    <3>4. Fresh(t)'
      BY <1>1, <2>1, <3>1 DEF IInv, Fresh, Off, Same, Clean
    <3> QED
      BY <3>3, <3>4
  <2> QED
    BY <1>2, <2>1, <2>4, <2>6, <2>7, <2>8 DEF IInv
<1> QED
  BY <1>5, <1>6 DEF Stop

(* Sweeping the lease files leaves nothing on the machine.                    *)
LEMMA SweepCleans ==
  ASSUME IInv, Sweep, NEW s \in Sessions
  PROVE  Off(s) /\ disk'[s] = None /\ (s \notin lost => Clean(s)')
<1>1. todo # <<>> /\ Head(todo) \in Calls /\ Head(Head(todo)) = Job("sweep", None)
  BY DEF Sweep, Now, IInv, TodoOK
<1>2. Off(s)
  BY <1>1, SweepCall DEF IInv, Ordered
<1>3. ASSUME s \notin lost PROVE Clean(s)'
  <2>1. AddrsOK(s) /\ (s = "v4" => RouteOK)
    BY <1>3 DEF IInv, Sound, Machine
  <2>2. addrs'[s] = {}
    BY <1>2, <2>1 DEF Sweep, AddrsOK, Off
  <2>3. s = "v4" => route = NoRoute \/ (disk[s] # None /\ route = RouteOf(disk[s]))
    BY <1>2, <2>1 DEF RouteOK, Off
  <2>4. s = "v4" => route' = NoRoute
    BY <2>3 DEF Sweep, RouteOf, NoRoute
  <2> QED
    BY <2>2, <2>4 DEF Clean
<1> QED
  BY <1>2, <1>3 DEF Sweep

LEMMA SweepKeeps ==
  ASSUME IInv, Sweep
  PROVE  IInv'
<1>1. /\ UNCHANGED <<session, mode, lost, faults>> /\ todo' = Rest /\ Now(Job("sweep", None))
      /\ DOMAIN addrs' = Sessions /\ DOMAIN dns' = Sessions /\ DOMAIN disk' = Sessions
  BY DEF Sweep
<1>2. \A s \in Sessions : at'[s] = "off" /\ disk'[s] = None /\ (s \notin lost => Clean(s)')
  BY <1>1, SweepCleans DEF Off
<1>3. TodoOK' /\ ~Sweeping' /\ Ordered' /\ \A s \in Sessions : ~Starting(s)'
  BY <1>1, JobsDone DEF IInv, Sessions
<1>4. ShapeOK'
  BY <1>1 DEF IInv, ShapeOK
<1>5. Modes'
  BY <1>1, <1>2 DEF IInv, Modes, Off, Now
<1>6. ASSUME NEW s \in Sessions PROVE Sound(s)' /\ Fresh(s)'
  <2>1. LeaseOK(s)' /\ Memory(s)'
    BY <1>1, <1>2 DEF IInv, Sound, LeaseOK, Memory, Applying, Transition
  <2>2. Machine(s)' /\ Fresh(s)'
    BY <1>1, <1>2 DEF Machine, AddrsOK, FilesOK, RouteOK, Applying, Clean, Fresh
  <2> QED
    BY <2>1, <2>2 DEF Sound
<1> QED
  BY <1>3, <1>4, <1>5, <1>6 DEF IInv

LEMMA StartKeeps ==
  ASSUME IInv, NEW s \in Sessions, Start(s)
  PROVE  IInv'
<1>1. /\ Starting(s) /\ at[s] = "off" /\ lease[s] = None /\ lease'[s] = None /\ phase[s] = "held"
      /\ UNCHANGED <<next, phase, machine, disk>> /\ lost \subseteq lost' /\ lost' \subseteq lost \cup {s}
  BY DEF Start, IInv, Sound, Memory, ShapeOK
<1>2. /\ Head(todo) = JustStart(s) /\ ~Sweeping /\ \A t \in Sessions \ {s} : ~Starting(t)
  BY <1>1, StartingFacts DEF IInv
<1>3. s \notin lost /\ (mode # "oneshot" \/ disk[s] = None) => Clean(s)
  <2>1. mode # "new"
    BY <1>1 DEF IInv, Modes, Starting, Now
  <2>2. CASE mode # "oneshot"
    BY <1>1, <1>2, <2>1, <2>2 DEF IInv, Fresh, Off
  <2>3. CASE disk[s] = None
    BY <1>1, <2>3 DEF IInv, Sound, Machine, AddrsOK, RouteOK, Clean
  <2> QED
    BY <2>2, <2>3
<1>4. mode # "new"
  BY <1>1 DEF IInv, Modes, Starting, Now
<1>5. ShapeOK'
  BY DEF IInv, ShapeOK, Start, StartFails, RollsBack, Fails, Works, Places
<1>6. \A t \in Sessions : t # s => Same(t)
  BY <1>1 DEF Same, Start, StartFails, IInv, ShapeOK
<1>7. CASE /\ Works /\ Goto(s, "acquire") /\ UNCHANGED main
           /\ lost' = IF mode = "oneshot" /\ disk[s] # None THEN lost \cup {s} ELSE lost
  <2>1. todo' = todo /\ mode' = mode /\ at'[s] = "acquire"
    BY <1>7 DEF IInv, ShapeOK
  <2>2. \A t \in Sessions : Starting(t)' <=> Starting(t)
    BY <2>1, StartsStay
  <2>3. Sweeping' <=> Sweeping
    BY <2>1 DEF Sweeping
  <2>4. TodoOK'
    BY <2>1 DEF IInv, TodoOK
  <2>5. Ordered'
    <3>1. \A t \in Sessions : /\ JustStart(s) # SweepTail(t) /\ JustStart(s) # JustSweep
                              /\ JustStart(s) # StartTail /\ (JustStart(s) = JustStart(t) => t = s)
      BY DEF SweepTail, JustSweep, StartTail, JustStart, Job, Sessions
    <3> QED
      BY <1>2, <2>1, <3>1 DEF Ordered
  <2>6. Modes'
    BY <1>1, <1>4, <1>6, <2>1, <2>2, <2>3 DEF IInv, Modes, Off, Same
  <2>7. Sound(s)' /\ Fresh(s)'
    <3>1. LeaseOK(s)' /\ Memory(s)'
      BY <1>1, <2>1, <2>2 DEF IInv, Sound, LeaseOK, Memory, Applying, Transition
    <3>2. Machine(s)'
      BY <1>1, <1>3, <1>7, <2>1 DEF Machine, AddrsOK, FilesOK, RouteOK, OldRoute, Ips, Applying, Clean
    <3> QED
      BY <2>1, <3>1, <3>2 DEF Sound, Fresh, Off
  <2>8. ASSUME NEW t \in Sessions, t # s PROVE Sound(t)' /\ Fresh(t)'
    <3>1. Same(t)
      BY <1>6, <2>8
    <3>2. Sound(t)'
      BY <2>2, <3>1, Kept DEF IInv, Sound
    <3>3. Fresh(t)'
      BY <1>1, <2>1, <2>2, <2>3, <3>1 DEF IInv, Fresh, Off, Same, Clean
    <3> QED
      BY <3>2, <3>3
  <2> QED
    BY <1>5, <2>4, <2>5, <2>6, <2>7, <2>8 DEF IInv
<1>8. CASE Fails /\ StartFails(s) /\ UNCHANGED lost
  <2>1. at'[s] = "off"
    BY <1>8 DEF StartFails, IInv, ShapeOK
  <2>2. LeaseOK(s)' /\ Memory(s)'
    BY <1>1, <2>1 DEF IInv, Sound, LeaseOK, Memory, Applying, Transition
  <2>3. Machine(s)'
    BY <1>1, <2>1 DEF IInv, Sound, Machine, AddrsOK, FilesOK, RouteOK, Applying
  <2>4. s \notin lost /\ mode # "oneshot" => Clean(s)'
    BY <1>1, <1>3 DEF Clean
  <2>5. \A t \in Sessions : Off(t) => Off(t)'
    BY <1>6, <2>1 DEF Same, Off
  <2>6. CASE todo' = Rest /\ UNCHANGED mode
    <3>1. TodoOK' /\ ~Sweeping' /\ Ordered' /\ \A t \in Sessions : ~Starting(t)'
      BY <1>1, <2>6, JobsDone DEF IInv
    <3>2. Modes'
      BY <1>1, <1>2, <1>4, <2>1, <2>5, <2>6 DEF IInv, Modes, Off
    <3>3. ASSUME NEW t \in Sessions, t # s PROVE Sound(t)' /\ Fresh(t)'
      <4>1. Same(t)
        BY <1>6, <3>3
      <4>2. Sound(t)'
        BY <1>2, <3>1, <3>3, <4>1, Kept DEF IInv, Sound
      <4>3. Fresh(t)'
        BY <1>1, <1>2, <2>6, <3>1, <4>1 DEF IInv, Fresh, Off, Same, Clean
      <4> QED
        BY <4>2, <4>3
    <3> QED
      BY <1>5, <1>8, <2>2, <2>3, <2>4, <2>6, <3>1, <3>2, <3>3 DEF IInv, Sound, Fresh
  <2>7. CASE RollsBack
    <3>1. TodoOK' /\ Sweeping' /\ Ordered' /\ \A t \in Sessions : ~Starting(t)'
      BY <2>7, Replanned DEF RollsBack
    <3>2. Modes'
      BY <1>4, <2>7, <3>1 DEF Modes, RollsBack
    <3>3. ASSUME NEW t \in Sessions, t # s PROVE Sound(t)'
      BY <1>2, <1>6, <3>1, <3>3, Kept DEF IInv, Sound
    <3> QED
      BY <1>5, <2>2, <2>3, <3>1, <3>2, <3>3 DEF IInv, Sound, Fresh
  <2> QED
    BY <1>8, <2>6, <2>7 DEF StartFails
<1> QED
  BY <1>7, <1>8 DEF Start

(* A new plan, with sessions and machine as they are.                          *)
LEMMA PlanKeeps ==
  ASSUME IInv, NEW script \in Scripts, todo' \in Reconfigure(script), mode' # "new",
         UNCHANGED <<at, lease, next, phase, retry, addrs, route, disk, lost>>,
         dns' = dns \/ \A s \in Sessions : Off(s), \A s \in Sessions : Starting(s) => Off(s),
         ShapeOK'
  PROVE  IInv'
<1>1. TodoOK' /\ Sweeping' /\ Ordered' /\ todo' # <<>> /\ \A s \in Sessions : ~Starting(s)'
  BY Replanned
<1>2. Modes'
  BY <1>1 DEF Modes
<1>3. ASSUME NEW s \in Sessions PROVE Sound(s)'
  <2>1. CASE Off(s)
    <3>1. LeaseOK(s)' /\ Memory(s)'
      BY <2>1 DEF Off, IInv, Sound, LeaseOK, Memory, Applying, Transition
    <3>2. Machine(s)'
      BY <2>1 DEF Off, IInv, Sound, Machine, AddrsOK, FilesOK, RouteOK, Applying
    <3> QED
      BY <3>1, <3>2 DEF Sound
  <2>2. CASE ~Off(s)
    <3>1. Same(s) /\ ~Starting(s)
      BY <2>2 DEF Same
    <3> QED
      BY <1>1, <3>1, Kept DEF IInv, Sound
  <2> QED
    BY <2>1, <2>2
<1> QED
  BY <1>1, <1>2, <1>3 DEF IInv, Fresh

LEMMA LineFailsKeeps ==
  ASSUME IInv, LineFails
  PROVE  IInv'
<1>1. PICK script \in Scripts : todo' \in Reconfigure(script)
  BY DEF LineFails, RollsBack
<1>2. PICK s \in Sessions : Starting(s) /\ at[s] = "off"
  BY DEF LineFails
<1>3. mode' # "new"
  BY <1>2 DEF LineFails, RollsBack, IInv, Modes, Starting, Now
<1>4. \A t \in Sessions : Starting(t) => Off(t)
  BY <1>2, StartingFacts DEF IInv, Off
<1>5. ShapeOK'
  BY DEF IInv, ShapeOK, LineFails, RollsBack, Fails
<1> QED
  BY <1>1, <1>3, <1>4, <1>5, PlanKeeps DEF LineFails

LEMMA BeginKeeps ==
  ASSUME IInv, Begin
  PROVE  IInv'
<1>1. PICK script \in Scripts : todo' \in Reconfigure(script)
  BY DEF Begin
<1>2. mode' \in {"oneshot", "startup", "daemon"}
  BY DEF Begin
<1>3. \A s \in Sessions : ~Starting(s)
  BY DEF Begin, Starting, Now
<1>4. dns' = dns \/ \A s \in Sessions : Off(s)
  BY <1>3 DEF Begin, IInv, Modes, Sweeping
<1>5. ShapeOK'
  BY <1>2 DEF IInv, ShapeOK, Begin
<1> QED
  BY <1>1, <1>2, <1>3, <1>4, <1>5, PlanKeeps DEF Begin

LEMMA TerminateKeeps ==
  ASSUME IInv, Terminate
  PROVE  IInv'
<1>1. /\ mode = "startup" /\ mode' = "stopping"
      /\ UNCHANGED <<at, lease, next, phase, retry, machine, disk, todo, lost, faults>>
  BY DEF Terminate
<1>2. ShapeOK'
  BY DEF IInv, ShapeOK, Terminate
<1>3. \A s \in Sessions : Same(s)
  BY <1>1 DEF Same
<1>4. \A s \in Sessions : Sound(s)'
  BY <1>1, <1>3, StartsStay, Kept DEF IInv, Sound
<1>5. TodoOK' /\ Ordered' /\ Modes'
  BY <1>1 DEF IInv, TodoOK, Ordered, Modes, Off
<1>6. \A s \in Sessions : Fresh(s)'
  BY <1>1 DEF IInv, Fresh, Off, Sweeping, Clean
<1> QED
  BY <1>2, <1>4, <1>5, <1>6 DEF IInv

LEMMA CrashKeeps ==
  ASSUME IInv, Crash
  PROVE  IInv'
<1>1. /\ todo' = <<>> /\ mode' = "new" /\ UNCHANGED <<addrs, route, disk>>
      /\ \A s \in Sessions : /\ at'[s] = "off" /\ lease'[s] = None /\ next'[s] = None /\ phase'[s] = "held"
                             /\ s \notin lost' => s \notin lost /\ at[s] \notin Transition
  BY DEF Crash
<1>2. ShapeOK'
  BY DEF IInv, ShapeOK, Crash, Fails, Places
<1>3. TodoOK' /\ Ordered' /\ Modes'
  BY <1>1 DEF TodoOK, Ordered, Modes, Off
<1>4. ASSUME NEW s \in Sessions PROVE Sound(s)' /\ Fresh(s)'
  <2>1. LeaseOK(s)' /\ Memory(s)'
    BY <1>1, <1>4 DEF IInv, Sound, LeaseOK, Memory, Applying, Transition
  <2>2. Machine(s)'
    <3>1. SUFFICES ASSUME s \notin lost' PROVE (AddrsOK(s) /\ FilesOK(s) /\ (s = "v4" => RouteOK))'
      BY DEF Machine
    <3>2. /\ s \notin lost /\ at[s] \in {"off", "acquire", "wait", "exchange", "ended"}
          /\ AddrsOK(s) /\ FilesOK(s) /\ (s = "v4" => RouteOK) /\ Memory(s)
      BY <1>1, <3>1 DEF IInv, Sound, Machine, ShapeOK, Places, Transition
    <3>3. addrs[s] = {} \/ (disk[s] # None /\ addrs[s] \subseteq disk[s].ips)
      BY <3>2 DEF AddrsOK, FilesOK, Memory, Ips
    <3>4. s = "v4" => route = NoRoute \/ (disk[s] # None /\ route = RouteOf(disk[s]))
      BY <3>2 DEF RouteOK, FilesOK, Memory, OldRoute
    <3> QED
      BY <1>1, <3>3, <3>4 DEF AddrsOK, FilesOK, RouteOK, Applying
  <2>3. Fresh(s)'
    BY <1>1 DEF Fresh
  <2> QED
    BY <2>1, <2>2, <2>3 DEF Sound
<1> QED
  BY <1>2, <1>3, <1>4 DEF IInv

-----------------------------------------------------------------------------
(* Theorems *)

LEMMA InitIInv == Init => IInv
<1> SUFFICES ASSUME Init PROVE IInv
  OBVIOUS
<1>1. ShapeOK
  BY DEF Init, ShapeOK, Places
<1>2. TodoOK /\ Ordered /\ Modes
  BY DEF Init, TodoOK, Ordered, Modes, Off
<1>3. ASSUME NEW s \in Sessions PROVE Sound(s) /\ Fresh(s)
  <2>1. LeaseOK(s) /\ Memory(s) /\ Fresh(s)
    BY DEF Init, LeaseOK, Memory, Fresh, Clean, Applying, Transition
  <2>2. Machine(s)
    BY DEF Init, Machine, AddrsOK, FilesOK, RouteOK, Applying
  <2> QED
    BY <2>1, <2>2 DEF Sound
<1> QED
  BY <1>1, <1>2, <1>3 DEF IInv

LEMMA NextKeeps == IInv /\ [Next]_vars => IInv'
<1> SUFFICES ASSUME IInv, [Next]_vars PROVE IInv'
  OBVIOUS
<1>1. CASE \E s \in Sessions : SessionStep(s) \/ Tick(s) \/ KernelExpires(s)
  BY <1>1, SessionKeeps, TimeKeeps
<1>2. CASE MainStep
  BY <1>2, SweepKeeps, LineFailsKeeps, StopKeeps, StartKeeps DEF MainStep
<1>3. CASE Begin \/ Terminate \/ Crash
  BY <1>3, BeginKeeps, TerminateKeeps, CrashKeeps
<1>4. CASE UNCHANGED vars
  <2>1. \A s \in Sessions : Same(s)
    BY <1>4 DEF vars, Same
  <2>2. \A s \in Sessions : Sound(s)'
    BY <1>4, <2>1, StartsStay, Kept DEF vars, IInv, Sound
  <2>3. TodoOK' /\ Ordered' /\ Modes' /\ ShapeOK'
    BY <1>4 DEF vars, IInv, TodoOK, Ordered, Modes, ShapeOK, Off, Sweeping, Starting, Now
  <2>4. \A s \in Sessions : Fresh(s)'
    BY <1>4 DEF vars, IInv, Fresh, Off, Sweeping, Clean
  <2> QED
    BY <2>2, <2>3, <2>4 DEF IInv
<1> QED
  BY <1>1, <1>2, <1>3, <1>4 DEF Next

(* The inductive invariant: what the machine and the lease files hold of each *)
(* session, at each place of its loop and of the main goroutine's plan.       *)
THEOREM AccountsForLeases == Spec => []IInv
<1> QED
  BY InitIInv, NextKeeps, PTL DEF Spec

(* Types; in particular no session applies a lease it was not granted.        *)
THEOREM TypeCorrect == Spec => []TypeOK
<1>1. IInv => TypeOK
  BY DEF IInv, Sound, LeaseOK, ShapeOK, TypeOK
<1> QED
  BY <1>1, AccountsForLeases, PTL

(* A session at rest has configured the machine exactly as it was leased,     *)
(* after any renewals, refusals, expiries and failed transitions              *)
(* (apply.go:83, 98, 116).                                                    *)
THEOREM LeavesAsLeased == Spec => []ConfiguredAsLeased
<1>1. IInv => ConfiguredAsLeased
  <2> SUFFICES ASSUME IInv, NEW s \in Sessions \ lost, at[s] = "wait", Exact(s)
               PROVE  /\ lease[s] # None => addrs[s] = lease[s].ips /\ dns[s] = lease[s].dns
                      /\ lease[s] = None => addrs[s] = {}
                      /\ s = "v4" => route = IF lease[s] = None THEN NoRoute ELSE RouteOf(lease[s])
    BY DEF ConfiguredAsLeased, Exact
  <2>1. AddrsOK(s) /\ FilesOK(s) /\ (s = "v4" => RouteOK)
    BY DEF IInv, Sound, Machine
  <2> QED
    BY <2>1 DEF AddrsOK, FilesOK, RouteOK, Ips, OldRoute
<1> QED
  BY <1>1, AccountsForLeases, PTL

(* Whatever dies when, a lease file names every address that no session looks *)
(* after (native.go:492).                                                     *)
THEOREM LeavesARecord == Spec => []Findable
<1>1. IInv => Findable
  BY DEF IInv, Sound, Machine, AddrsOK, Findable
<1> QED
  BY <1>1, AccountsForLeases, PTL

(* The renewal loop retries without a lease, and otherwise only what is due   *)
(* (native.go:172).                                                           *)
THEOREM RetriesWhatIsDue == Spec => []Paced
<1>1. IInv => Paced
  BY DEF IInv, Sound, Memory, Paced
<1> QED
  BY <1>1, AccountsForLeases, PTL

(* Stopping all sessions ends with none running and nothing leased left, from *)
(* whatever place of its loop each of them is stopped (dhcp.go:82).           *)
THEOREM LeavesNothing == Spec => StoppedClean
<1> DEFINE Swept == Now(Job("sweep", None)) /\ todo' = Rest /\ mode' = mode
           Nothing == \A s \in Sessions \ lost : at'[s] = "off" /\ addrs'[s] = {} /\ disk'[s] = None
<1>1. ASSUME IInv, [Next]_vars, Swept PROVE Nothing
  <2>1. todo' # todo
    <3>1. todo # <<>> /\ todo \in Seq(Calls) /\ Head(todo) \in Calls
      BY <1>1 DEF Now, IInv, TodoOK
    <3>2. todo' = Tail(todo)
      BY <1>1, <3>1, SweepCall DEF Now, Rest
    <3>3. Len(todo') # Len(todo)
      BY <3>1, <3>2
    <3> QED
      BY <3>3
  <2>2. \A s \in Sessions : ~Starting(s) /\ ~Now(Job("stop", s))
    BY <1>1 DEF Starting, Now, Job
  <2>3. mode # "new" /\ todo # <<>>
    BY <1>1 DEF IInv, Modes, Now
  <2>4. CASE Sweep
    <3>1. UNCHANGED <<at, lost>>
      BY <2>4 DEF Sweep
    <3> QED
      BY <1>1, <2>4, <3>1, SweepCleans DEF Off, Clean
  <2>5. ~LineFails /\ \A s \in Sessions : ~Stop(s) /\ ~Start(s)
    BY <2>2 DEF LineFails, Stop, Start
  <2>6. ~Begin /\ ~Terminate /\ ~Crash
    BY <1>1, <2>1, <2>3 DEF Begin, Terminate, Crash
  <2>7. \A s \in Sessions : ~Tick(s) /\ ~KernelExpires(s)
    BY <2>1 DEF Tick, KernelExpires
  <2>8. \A s \in Sessions : ~SessionStep(s)
    BY <1>1, <2>1, <2>2, StepsSound DEF IInv, Moves, Stays, GoesOn, GivesUp
  <2>9. ~UNCHANGED vars
    BY <2>1 DEF vars
  <2> QED
    BY <1>1, <2>4, <2>5, <2>6, <2>7, <2>8, <2>9 DEF Next, MainStep
<1>2. IInv /\ [Next]_vars => [Swept => Nothing]_vars
  BY <1>1
<1> QED
  BY <1>2, AccountsForLeases, PTL DEF Spec, StoppedClean
=============================================================================
