--------------------------- MODULE NicApplyProofs ---------------------------
(***************************************************************************)
(* Proofs about NicApply for any configurations that the parser lets       *)
(* through, any machines, any pids and any number of failures, deaths and  *)
(* reused pids: type correctness, that two clients never run on one        *)
(* interface, and that no foreign process is ended.                        *)
(*                                                                         *)
(* All follow from one inductive invariant. The books that nic keeps of    *)
(* its programs (pid files and process records) always lead to them, and a *)
(* recorded process is the one it was recorded for. That survives a launch *)
(* because each line ends the predecessor of what it launches and records  *)
(* it at once, so the order of the steps that are still ahead is part of   *)
(* the invariant, and it has to be shown of every line that applyConfig,   *)
(* teardownConfig and RestoreState derive.                                 *)
(***************************************************************************)
EXTENDS NicApply, FiniteSetTheorems, SequenceTheorems, TLAPS

-----------------------------------------------------------------------------
(* The inductive invariant *)

\* Sequences of anything.
IsSeq(s) == s \in Seq(ToSet(s))

\* The commands of NicKernel that have an effect.
Ops == {"set", "newlink", "dellink", "addr", "addaddr", "deladdr", "flush",
        "route", "delroute", "flushroutes", "rule", "delrule"}

\* A command has an effect, a program is meant for a link.
StepOK(s) ==
  \/ s.act = "ip" /\ s.cmd.op \in Ops /\ (s.cmd.op = "newlink" => s.cmd.dev \in Links)
  \/ s.act \in {"halt", "forget", "launch", "record"} /\ s.prog \in Programs /\ s.dev \in Links
  \/ s.act \in {"install", "leave", "connect"} /\ s.dev \in Links
  \/ s.act = "fail"

\* The steps of a line.
LineOK(l) == IsSeq(l) /\ \A i \in 1..Len(l) : StepOK(l[i])

\* Two steps about the same program of the same link.
Same(s, t) == s.prog = t.prog /\ s.dev = t.dev

\* What a launch at i relies on: it is the first, a failure ends the line, its predecessor was ended before.
LaunchOnce(l, i) == l[i].on = "abort" /\ \A j \in 1..(i - 1) : l[j].act # "launch"
Ended(l, i) == \E k \in 1..(i - 1) : l[k].act = "halt" /\ l[k].on = "abort" /\ Same(l[k], l[i])
\* A program is recorded right after its launch.
AfterLaunch(l, i) == i > 1 /\ l[i - 1].act = "launch" /\ Same(l[i - 1], l[i])

\* The order of the steps of a line that has not been begun.
Ordered(l) ==
  \A i \in 1..Len(l) :
    /\ l[i].act # "forget"
    /\ l[i].act = "record" => AfterLaunch(l, i)
    /\ l[i].act = "launch" => LaunchOnce(l, i) /\ Ended(l, i)

\* The lines that are still to come.
Lines(ls) == IsSeq(ls) /\ \A i \in 1..Len(ls) : LineOK(ls[i]) /\ Ordered(ls[i])

\* The processes of P that a step is about, and the files it is about.
Owned(s, P) == {p \in P : p.prog = s.prog /\ p.dev = s.dev}
FileOf(s, F) == F[<<s.prog, s.dev>>]

\* The same of a line that has been begun, with what its first steps have reached.
Launched(s, P, F, m) ==
  /\ \A p \in P : p.pid = FileOf(s, F).pid => p \in Owned(s, P)
  /\ m \/ \A p \in Owned(s, P) : p.pid = FileOf(s, F).pid
UnderWay(l, P, F, m) ==
  \A i \in 1..Len(l) :
    /\ l[i].act = "forget" => i = 1 /\ (m \/ Owned(l[i], P) = {})
    /\ l[i].act = "record" => AfterLaunch(l, i) \/ (i = 1 /\ Launched(l[i], P, F, m))
    /\ l[i].act = "launch" => LaunchOnce(l, i) /\ (m \/ Owned(l[i], P) = {} \/ Ended(l, i))

\* A snapshot that can be replayed: its parts are finite.
SnapOK(s) == IsFiniteSet(s.links) /\ IsFiniteSet(s.addrs) /\ IsFiniteSet(s.rules)

\* What each phase works on; only a stop clears the files.
PhaseOK(p, kind) ==
  /\ p.do \in {"teardown", "intend", "apply", "commit", "resume"} => p.arg \in Configs
  /\ p.do \in Range(Stages) => SnapOK(p.arg)
  /\ p.do = "stopped" => kind = "stop"
\* The phases still to come.
Plan(plan, kind) == IsSeq(plan) /\ \A i \in 1..Len(plan) : PhaseOK(plan[i], kind)

\* The operation under way.
JobOK(j) ==
  /\ j = [kind |-> j.kind, cfg |-> j.cfg, old |-> j.old, plan |-> j.plan,
          lines |-> j.lines, todo |-> j.todo, err |-> j.err]
  /\ j.kind \in {"idle", "start", "undo", "stop", "revert"}
  /\ j.kind = "start" => j.cfg \in Configs
  /\ j.old \in Configs \cup {None}
  /\ Plan(j.plan, j.kind)
\* The rest of its current phase.
LinesOK(j, P, F, m) == Lines(j.lines) /\ LineOK(j.todo) /\ UnderWay(j.todo, P, F, m)

\* What an operation restores has been captured.
DiskOK(kind, b, s) ==
  /\ b = None \/ SnapOK(b)
  /\ s = None \/ (SnapOK(b) /\ SnapOK(s.state) /\ s.cfg \in Configs)
  /\ kind \in {"start", "undo", "revert"} => SnapOK(b)
  /\ kind = "stop" => s = None

\* Process records: none, a client without a process, a process.
Records == {None, Unnamed} \cup [pid : Pids, born : Nat]
\* Files and processes; a pid belongs to one process.
FilesOK(F) == F \in [Slots -> [pid : Pids \cup {None}, rec : Records]]
ProcsOK(P) ==
  /\ \A p \in P : /\ p.pid \in Pids /\ p.born \in Nat
                  /\ p.prog \in Programs \cup {"other"} /\ (p.prog # "other" => p.dev \in Links)
  /\ \A p, q \in P : p.pid = q.pid => p = q

\* A recorded process is the one it was recorded for.
Recorded(p, f) == f.rec # None /\ IsRecorded(p, f.rec)
RecordsOK(P, F) == \A s \in Slots : \A p \in P : Recorded(p, F[s]) => <<p.prog, p.dev>> = s

\* nic can find each of its programs: by its record or, when there is none or it names another pid, its pid file.
Findable(p, f) == Recorded(p, f) \/ (f.pid = p.pid /\ (Tracked(f) => f.rec.pid # p.pid))
\* No program of nic's is lost, and none has a twin.
Known(P, F) == \A p \in P : p.prog # "other" => Findable(p, F[<<p.prog, p.dev>>])
Single(P) == \A p, q \in P : p.prog = q.prog /\ p.prog # "other" /\ p.dev = q.dev => p = q

\* What nic's files say of its programs.
Books(P, F, m) == FilesOK(F) /\ ProcsOK(P) /\ RecordsOK(P, F) /\ (m \/ (Known(P, F) /\ Single(P)))

\* iwd's profile, and the copies that nic has of the one before: of each link, and of the one it is replacing.
ProfilesOK(w) ==
  /\ w = [profile |-> w.profile, kept |-> w.kept, held |-> w.held]
  /\ w.profile \in {"user", "nic"} /\ w.kept \in [Links -> {None, "user", "nic"}]
  /\ w.held \in {None, "user", "nic"}

\* The machine, the clock and the files of main.go.
NetOK(n) == Machine(n) /\ IsFiniteSet(n.addrs) /\ IsFiniteSet(n.rules)
RestOK ==
  /\ now \in 0..MaxTime /\ mishaps \in 0..MaxMishaps /\ calm \in -1..MaxStops
  /\ ProfilesOK(iwd)
  /\ pending \in Configs \cup {None} /\ applied \in Configs \cup {None}
  /\ status \in {"fresh", "applied", "rolledback", "failed", "refused", "stopped", "stopfailed",
                  "reverted", "revertfailed", "dead"}

\* All of it.
IInv == /\ NetOK(net) /\ RestOK /\ Books(procs, files, mixed)
        /\ DiskOK(job.kind, base, snap) /\ JobOK(job) /\ LinesOK(job, procs, files, mixed)

-----------------------------------------------------------------------------
(* Sequences *)

\* A function on 1..n is a sequence.
LEMMA MapSeq ==
  ASSUME NEW n \in Nat, NEW s, s = [i \in 1..n |-> s[i]]
  PROVE  IsSeq(s) /\ Len(s) = n
<1>1. s \in [1..n -> ToSet(s)]
  BY DEF ToSet
<1>2. s \in Seq(ToSet(s))
  BY <1>1
<1> QED
  BY <1>1, <1>2 DEF IsSeq

\* What a sequence is.
LEMMA SeqFacts ==
  ASSUME NEW s, IsSeq(s)
  PROVE  Len(s) \in Nat /\ DOMAIN s = 1..Len(s) /\ s = [i \in 1..Len(s) |-> s[i]]
<1>1. s \in Seq(ToSet(s))
  BY DEF IsSeq
<1> QED
  BY <1>1, LenProperties

\* A sequence of elements of some set.
LEMMA TypedSeq ==
  ASSUME NEW S, NEW s \in Seq(S)
  PROVE  IsSeq(s)
<1>1. Len(s) \in Nat /\ s \in [1..Len(s) -> S]
  BY LenProperties
<1> QED
  BY <1>1, MapSeq

\* The first element of a sequence and the others.
LEMMA TailSeq ==
  ASSUME NEW s, IsSeq(s), s # <<>>
  PROVE  /\ Len(s) \in Nat \ {0} /\ Head(s) = s[1]
         /\ IsSeq(Tail(s)) /\ Len(Tail(s)) = Len(s) - 1
         /\ \A i \in 1..Len(Tail(s)) : Tail(s)[i] = s[i + 1]
<1>1. s \in Seq(ToSet(s)) /\ Len(s) \in Nat \ {0}
  BY EmptySeq DEF IsSeq
<1>2. /\ Tail(s) \in Seq(ToSet(s)) /\ Len(Tail(s)) = Len(s) - 1
      /\ \A i \in 1..Len(Tail(s)) : Tail(s)[i] = s[i + 1]
  BY <1>1, HeadTailProperties
<1>3. Head(s) = s[1]
  BY <1>1
<1> QED
  BY <1>1, <1>2, <1>3, TypedSeq

\* Where the elements of a concatenation come from.
LEMMA ConcatSeq ==
  ASSUME NEW s, NEW t, IsSeq(s), IsSeq(t)
  PROVE  /\ IsSeq(s \o t) /\ Len(s \o t) = Len(s) + Len(t)
         /\ \A i \in 1..Len(s) : (s \o t)[i] = s[i]
         /\ \A i \in 1..Len(t) : (s \o t)[Len(s) + i] = t[i]
         /\ \A i \in 1..Len(s \o t) : \/ i \in 1..Len(s) /\ (s \o t)[i] = s[i]
                                      \/ i - Len(s) \in 1..Len(t) /\ (s \o t)[i] = t[i - Len(s)]
<1> DEFINE S == ToSet(s) \cup ToSet(t)
<1>1. s \in Seq(S) /\ t \in Seq(S)
  BY SeqMonotonic DEF IsSeq
<1>2. Len(s) \in Nat /\ Len(t) \in Nat
  BY <1>1, LenProperties
<1>3. /\ s \o t \in Seq(S) /\ Len(s \o t) = Len(s) + Len(t)
      /\ \A i \in 1..(Len(s) + Len(t)) : (s \o t)[i] = IF i <= Len(s) THEN s[i] ELSE t[i - Len(s)]
  BY <1>1, ConcatProperties
<1>4. IsSeq(s \o t)
  BY <1>3, TypedSeq
<1>5. /\ \A i \in 1..Len(s) : (s \o t)[i] = s[i]
      /\ \A i \in 1..Len(t) : (s \o t)[Len(s) + i] = t[i]
  BY <1>2, <1>3
<1>6. \A i \in 1..Len(s \o t) : \/ i \in 1..Len(s) /\ (s \o t)[i] = s[i]
                                \/ i - Len(s) \in 1..Len(t) /\ (s \o t)[i] = t[i - Len(s)]
  BY <1>2, <1>3
<1> QED
  BY <1>3, <1>4, <1>5, <1>6

\* SetToSeq lists elements of its set.
LEMMA SetToSeqIn ==
  ASSUME NEW S, IsFiniteSet(S)
  PROVE  Cardinality(S) \in Nat /\ SetToSeq(S) \in [1..Cardinality(S) -> S]
<1>1. Cardinality(S) \in Nat /\ ExistsBijection(1..Cardinality(S), S)
  BY FS_CardinalityType
<1>2. PICK f \in Bijection(1..Cardinality(S), S) : TRUE
  BY <1>1 DEF ExistsBijection
<1>3. f \in [1..Cardinality(S) -> S] /\ IsInjective(f)
  BY <1>2 DEF Bijection, Injection, Surjection, IsInjective
<1> QED
  BY <1>1, <1>3 DEF SetToSeq

-----------------------------------------------------------------------------
(* Lines *)

\* Lines followed by lines.
LEMMA LinesConcat ==
  ASSUME NEW s, NEW t, Lines(s), Lines(t)
  PROVE  Lines(s \o t)
<1>1. IsSeq(s) /\ IsSeq(t)
  BY DEF Lines
<1>2. IsSeq(s \o t)
  BY <1>1, ConcatSeq
<1>3. ASSUME NEW i \in 1..Len(s \o t)
      PROVE  LineOK((s \o t)[i]) /\ Ordered((s \o t)[i])
  <2>1. \/ i \in 1..Len(s) /\ (s \o t)[i] = s[i]
        \/ i - Len(s) \in 1..Len(t) /\ (s \o t)[i] = t[i - Len(s)]
    BY <1>1, ConcatSeq
  <2> QED
    BY <2>1 DEF Lines
<1> QED
  BY <1>2, <1>3 DEF Lines

\* Plans followed by plans.
LEMMA PlanConcat ==
  ASSUME NEW s, NEW t, NEW kind, Plan(s, kind), Plan(t, kind)
  PROVE  Plan(s \o t, kind)
<1>1. IsSeq(s) /\ IsSeq(t)
  BY DEF Plan
<1>2. IsSeq(s \o t)
  BY <1>1, ConcatSeq
<1>3. ASSUME NEW i \in 1..Len(s \o t)
      PROVE  PhaseOK((s \o t)[i], kind)
  <2>1. \/ i \in 1..Len(s) /\ (s \o t)[i] = s[i]
        \/ i - Len(s) \in 1..Len(t) /\ (s \o t)[i] = t[i - Len(s)]
    BY <1>1, ConcatSeq
  <2> QED
    BY <2>1 DEF Plan
<1> QED
  BY <1>2, <1>3 DEF Plan

\* The first phase of a plan and the others.
LEMMA PlanTail ==
  ASSUME NEW s, NEW kind, Plan(s, kind), s # <<>>
  PROVE  PhaseOK(Head(s), kind) /\ Plan(Tail(s), kind)
<1>1. IsSeq(s)
  BY DEF Plan
<1>2. /\ Len(s) \in Nat \ {0} /\ Head(s) = s[1] /\ IsSeq(Tail(s)) /\ Len(Tail(s)) = Len(s) - 1
      /\ \A i \in 1..Len(Tail(s)) : Tail(s)[i] = s[i + 1]
  BY <1>1, TailSeq
<1>3. PhaseOK(Head(s), kind)
  BY <1>2 DEF Plan
<1>4. \A i \in 1..Len(Tail(s)) : i + 1 \in 1..Len(s) /\ PhaseOK(Tail(s)[i], kind)
  BY <1>2 DEF Plan
<1> QED
  BY <1>2, <1>3, <1>4 DEF Plan

\* Nothing to do is always in order.
LEMMA EmptyOK == Lines(<<>>) /\ LineOK(<<>>) /\ Ordered(<<>>) /\ \A kind : Plan(<<>>, kind)
<1>1. IsSeq(<<>>) /\ Len(<<>>) = 0
  BY EmptySeq DEF IsSeq
<1> QED
  BY <1>1 DEF Lines, LineOK, Ordered, Plan

\* A command of ip(8), or no command, on a line of its own.
IPOnly(l) == IsSeq(l) /\ \A i \in 1..Len(l) : l[i].act = "ip" /\ StepOK(l[i])

\* Commands alone are in any order.
LEMMA IPLine ==
  ASSUME NEW l, IPOnly(l)
  PROVE  LineOK(l) /\ Ordered(l)
<1>1. LineOK(l)
  BY DEF IPOnly, LineOK
<1>2. Ordered(l)
  BY DEF IPOnly, Ordered
<1> QED
  BY <1>1, <1>2

\* Commands followed by commands.
LEMMA IPConcat ==
  ASSUME NEW s, NEW t, IPOnly(s), IPOnly(t)
  PROVE  IPOnly(s \o t)
<1>1. IsSeq(s) /\ IsSeq(t)
  BY DEF IPOnly
<1>2. IsSeq(s \o t)
  BY <1>1, ConcatSeq
<1>3. ASSUME NEW i \in 1..Len(s \o t)
      PROVE  (s \o t)[i].act = "ip" /\ StepOK((s \o t)[i])
  <2>1. \/ i \in 1..Len(s) /\ (s \o t)[i] = s[i]
        \/ i - Len(s) \in 1..Len(t) /\ (s \o t)[i] = t[i - Len(s)]
    BY <1>1, ConcatSeq
  <2> QED
    BY <2>1 DEF IPOnly
<1> QED
  BY <1>2, <1>3 DEF IPOnly

\* No command is a line too.
LEMMA IPNone == IPOnly(<<>>)
<1>1. IsSeq(<<>>) /\ Len(<<>>) = 0
  BY EmptySeq DEF IsSeq
<1> QED
  BY <1>1 DEF IPOnly

\* One command is a line.
LEMMA IPOne ==
  ASSUME NEW s, s.act = "ip", StepOK(s)
  PROVE  IPOnly(<<s>>)
<1>1. <<s>> \in Seq({s}) /\ Len(<<s>>) = 1 /\ <<s>>[1] = s
  OBVIOUS
<1>2. IsSeq(<<s>>)
  BY <1>1, TypedSeq
<1> QED
  BY <1>1, <1>2 DEF IPOnly

\* A function on 1..n whose values are good lines is a sequence of lines.
LEMMA LinesMap ==
  ASSUME NEW n \in Nat, NEW ls, ls = [i \in 1..n |-> ls[i]],
         \A i \in 1..n : LineOK(ls[i]) /\ Ordered(ls[i])
  PROVE  Lines(ls)
BY MapSeq DEF Lines

\* Lines of commands.
LEMMA IPLines ==
  ASSUME NEW n \in Nat, NEW ls, ls = [i \in 1..n |-> ls[i]], \A i \in 1..n : IPOnly(ls[i])
  PROVE  Lines(ls)
BY IPLine, LinesMap

\* A command of RestoreState is a line, whatever becomes of its error.
LEMMA LoudQuiet ==
  ASSUME NEW op, NEW dev, NEW arg, op \in Ops \ {"newlink"}
  PROVE  /\ IPOnly(<<Loud(Cmd(op, dev, arg))>>)
         /\ IPOnly(<<Quiet(Cmd(op, dev, arg))>>)
<1>1. /\ Loud(Cmd(op, dev, arg)).act = "ip" /\ StepOK(Loud(Cmd(op, dev, arg)))
      /\ Quiet(Cmd(op, dev, arg)).act = "ip" /\ StepOK(Quiet(Cmd(op, dev, arg)))
  BY DEF Loud, Quiet, Cmd, StepOK
<1> QED
  BY <1>1, IPOne

\* Every stage of a restoration consists of commands.
LEMMA LinkLines ==
  ASSUME NEW s, NEW n, SnapOK(s)
  PROVE  Lines(LinkSteps(s, n))
<1> DEFINE Mac(l) == IF n.mac[l] # s.mac[l] THEN <<Loud(SetLink(l, "address", s.mac[l]))>> ELSE <<>>
           Mtu(l) == IF n.mtu[l] # s.mtu[l] THEN <<Loud(SetLink(l, "mtu", s.mtu[l]))>> ELSE <<>>
           Down(l) == <<Quiet(SetLink(l, "nomaster", None)), Loud(SetLink(l, "down", None)),
                        Loud(Cmd("flush", l, None))>>
           ls == LinkSteps(s, n)
<1>1. Cardinality(s.links) \in Nat
  BY SetToSeqIn DEF SnapOK
<1>2. ls = [i \in 1..Cardinality(s.links) |-> Down(SetToSeq(s.links)[i]) \o Mac(SetToSeq(s.links)[i])
                                               \o Mtu(SetToSeq(s.links)[i])]
  BY DEF LinkSteps, ForEach
<1>3. ASSUME NEW l PROVE IPOnly(Down(l) \o Mac(l) \o Mtu(l))
  <2>1. IPOnly(Mac(l)) /\ IPOnly(Mtu(l))
    BY LoudQuiet, IPNone DEF SetLink, Ops
  <2>2. Down(l) = <<Quiet(SetLink(l, "nomaster", None))>> \o <<Loud(SetLink(l, "down", None))>>
                  \o <<Loud(Cmd("flush", l, None))>>
    OBVIOUS
  <2>3. IPOnly(Down(l))
    BY <2>2, LoudQuiet, IPConcat DEF SetLink, Ops
  <2> QED
    BY <2>1, <2>3, IPConcat
<1> HIDE DEF Mac, Mtu, Down, ls
<1>4. ls = [i \in 1..Cardinality(s.links) |-> ls[i]] /\ \A i \in 1..Cardinality(s.links) : IPOnly(ls[i])
  BY <1>1, <1>2, <1>3
<1>5. Lines(ls)
  BY <1>1, <1>4, IPLines
<1> QED
  BY <1>5 DEF ls

\* The addresses that are left of a snapshot.
LEMMA AddrLines ==
  ASSUME NEW s, NEW at, SnapOK(s)
  PROVE  Lines(AddrSteps(s, at))
<1> DEFINE Left(a) == Reduced(a.life, at - s.at)
           Again(a) == <<Loud(Cmd("addr", a.dev, [ip |-> a.ip, life |-> Left(a).life]))>>
           Line(a) == IF Left(a).expired THEN <<>> ELSE Again(a)
           ls == AddrSteps(s, at)
<1>1. Cardinality(s.addrs) \in Nat
  BY SetToSeqIn DEF SnapOK
<1>2. ls = [i \in 1..Cardinality(s.addrs) |-> Line(SetToSeq(s.addrs)[i])]
  BY DEF AddrSteps, ForEach
<1>3. ASSUME NEW a PROVE IPOnly(Line(a))
  <2>1. IPOnly(Again(a))
    BY LoudQuiet DEF Ops
  <2> HIDE DEF Again, Left
  <2> QED
    BY <2>1, IPNone
<1> HIDE DEF Line, ls
<1>4. ls = [i \in 1..Cardinality(s.addrs) |-> ls[i]] /\ \A i \in 1..Cardinality(s.addrs) : IPOnly(ls[i])
  BY <1>1, <1>2, <1>3
<1>5. Lines(ls)
  BY <1>1, <1>4, IPLines
<1> QED
  BY <1>5 DEF ls

\* The static routes, in the order of the listing.
LEMMA RouteLines ==
  ASSUME NEW s
  PROVE  Lines(RouteSteps(s))
<1> DEFINE Again(r) == <<Loud(Cmd("route", r.dev, [dst |-> r.dst, via |-> r.via]))>>
           Line(r) == IF r \notin s.routes THEN <<>> ELSE Again(r)
           ls == RouteSteps(s)
<1>1. Len(Listing) \in Nat /\ DOMAIN Listing = 1..Len(Listing)
  BY ListingAssumption, SeqFacts DEF IsSeq
<1>2. ls = [i \in 1..Len(Listing) |-> Line(Listing[i])]
  BY <1>1 DEF RouteSteps
<1>3. ASSUME NEW r PROVE IPOnly(Line(r))
  <2>1. IPOnly(Again(r))
    BY LoudQuiet DEF Ops
  <2> HIDE DEF Again
  <2> QED
    BY <2>1, IPNone
<1> HIDE DEF Line, ls
<1>4. ls = [i \in 1..Len(Listing) |-> ls[i]] /\ \A i \in 1..Len(Listing) : IPOnly(ls[i])
  BY <1>1, <1>2, <1>3
<1>5. Lines(ls)
  BY <1>1, <1>4, IPLines
<1> QED
  BY <1>5 DEF ls

\* The rules: the present ones go, the captured ones come.
LEMMA RuleLines ==
  ASSUME NEW s, NEW n, SnapOK(s), IsFiniteSet(n.rules)
  PROVE  Lines(RuleSteps(s, n))
<1> DEFINE Old(rule) == <<Loud(Cmd("delrule", None, rule))>>
           New(rule) == <<Loud(Cmd("rule", None, rule))>>
           old == ForEach(n.rules, Old)
           new == ForEach(s.rules, New)
<1>1. Cardinality(s.rules) \in Nat /\ Cardinality(n.rules) \in Nat
  BY SetToSeqIn DEF SnapOK
<1>2. /\ old = [i \in 1..Cardinality(n.rules) |-> Old(SetToSeq(n.rules)[i])]
      /\ new = [i \in 1..Cardinality(s.rules) |-> New(SetToSeq(s.rules)[i])]
  BY DEF ForEach
<1>3. ASSUME NEW r PROVE IPOnly(Old(r)) /\ IPOnly(New(r))
  BY LoudQuiet DEF Ops
<1>4. RuleSteps(s, n) = old \o new
  BY DEF RuleSteps
<1> HIDE DEF Old, New, old, new
<1>5. /\ old = [i \in 1..Cardinality(n.rules) |-> old[i]] /\ \A i \in 1..Cardinality(n.rules) : IPOnly(old[i])
      /\ new = [i \in 1..Cardinality(s.rules) |-> new[i]] /\ \A i \in 1..Cardinality(s.rules) : IPOnly(new[i])
  BY <1>1, <1>2, <1>3
<1>6. Lines(old) /\ Lines(new)
  BY <1>1, <1>5, IPLines
<1> QED
  BY <1>4, <1>6, LinesConcat

\* The masters of the captured links.
LEMMA MasterLines ==
  ASSUME NEW s, SnapOK(s)
  PROVE  Lines(MasterSteps(s))
<1> DEFINE Out(l) == <<Quiet(SetLink(l, "nomaster", None))>>
           In(l) == <<Loud(SetLink(l, "master", s.master[l]))>>
           Line(l) == IF s.master[l] = None THEN Out(l) ELSE In(l)
           ls == MasterSteps(s)
<1>1. Cardinality(s.links) \in Nat
  BY SetToSeqIn DEF SnapOK
<1>2. ls = [i \in 1..Cardinality(s.links) |-> Line(SetToSeq(s.links)[i])]
  BY DEF MasterSteps, ForEach
<1>3. ASSUME NEW l PROVE IPOnly(Line(l))
  <2>1. IPOnly(Out(l)) /\ IPOnly(In(l))
    BY LoudQuiet DEF Ops, SetLink
  <2> HIDE DEF Out, In
  <2> QED
    BY <2>1
<1> HIDE DEF Line, ls
<1>4. ls = [i \in 1..Cardinality(s.links) |-> ls[i]] /\ \A i \in 1..Cardinality(s.links) : IPOnly(ls[i])
  BY <1>1, <1>2, <1>3
<1>5. Lines(ls)
  BY <1>1, <1>4, IPLines
<1> QED
  BY <1>5 DEF ls

\* The states of the captured links.
LEMMA StateLines ==
  ASSUME NEW s, SnapOK(s)
  PROVE  Lines(StateSteps(s))
<1> DEFINE Line(l) == <<Loud(SetLink(l, IF l \in s.up THEN "up" ELSE "down", None))>>
           ls == StateSteps(s)
<1>1. Cardinality(s.links) \in Nat
  BY SetToSeqIn DEF SnapOK
<1>2. ls = [i \in 1..Cardinality(s.links) |-> Line(SetToSeq(s.links)[i])]
  BY DEF StateSteps, ForEach
<1>3. ASSUME NEW l PROVE IPOnly(Line(l))
  BY LoudQuiet DEF Ops, SetLink
<1> HIDE DEF Line, ls
<1>4. ls = [i \in 1..Cardinality(s.links) |-> ls[i]] /\ \A i \in 1..Cardinality(s.links) : IPOnly(ls[i])
  BY <1>1, <1>2, <1>3
<1>5. Lines(ls)
  BY <1>1, <1>4, IPLines
<1> QED
  BY <1>5 DEF ls

\* So a restoration is commands only, whatever its stage.
LEMMA RestoreLines ==
  ASSUME NEW s, NEW n, NEW at, NEW stage \in Range(Stages), SnapOK(s), IsFiniteSet(n.rules)
  PROVE  Lines(RestoreSteps(stage, s, n, at))
<1>1. stage \in {"flush", "links", "addrs", "routes", "rules", "masters", "states"}
  BY DEF Range, Stages
<1> DEFINE flush == <<Loud(Cmd("flushroutes", None, None))>>
           ls == << flush >>
<1>2. IPOnly(flush)
  BY LoudQuiet DEF Ops
<1> HIDE DEF flush
<1>3. ls = [i \in 1..1 |-> ls[i]] /\ \A i \in 1..1 : IPOnly(ls[i])
  BY <1>2
<1> HIDE DEF ls
<1>4. Lines(ls)
  BY <1>3, IPLines
<1>5. Lines(<< <<Loud(Cmd("flushroutes", None, None))>> >>)
  BY <1>4 DEF ls, flush
<1> QED
  BY <1>1, <1>5, LinkLines, AddrLines, RouteLines, RuleLines, MasterLines, StateLines DEF RestoreSteps

\* When all pins have been found, a name stands for a link.
LEMMA NamesResolve ==
  ASSUME NEW n, Machine(n), NEW cfg \in Configs, Resolves(n, cfg),
         NEW x \in Links \cup DOMAIN cfg.aliases \cup DOMAIN cfg.pins
  PROVE  NameOf(Names(n, cfg, DOMAIN cfg.pins), x) \in Links
<1> DEFINE names == Names(n, cfg, DOMAIN cfg.pins)
<1>1. \A p \in DOMAIN cfg.pins : (CHOOSE l \in FindByMAC(n, cfg.pins[p]) : TRUE) \in Links
  BY DEF Resolves, PinsFound, FindByMAC, Machine
<1>2. \A a \in DOMAIN cfg.aliases : cfg.aliases[a] \in Links
  BY ConfigsAssumption DEF WellFormed
<1>3. /\ DOMAIN names = DOMAIN cfg.pins \cup DOMAIN cfg.aliases
      /\ \A y \in DOMAIN names : names[y] \in Links
  BY <1>1, <1>2 DEF Names
<1> HIDE DEF names
<1>4. NameOf(names, x) \in Links
  BY <1>3 DEF NameOf
<1> QED
  BY <1>4 DEF names

\* Wi-Fi and DHCP lines end the predecessor of what they launch and record it at once.
LEMMA ConnectLine ==
  ASSUME NEW dev \in Links
  PROVE  LineOK(Connect(dev)) /\ Ordered(Connect(dev))
<1> DEFINE up == [act |-> "ip", cmd |-> SetLink(dev, "up", None), on |-> "abort"]
           halt == Do("halt", "wpa_supplicant", dev, "abort")
           leave == Do("leave", "iwd", dev, "abort")
           a == IF backend = "iwd" THEN Do("install", "iwd", dev, "abort")
                ELSE Do("launch", "wpa_supplicant", dev, "abort")
           b == IF backend = "iwd" THEN Do("connect", "iwd", dev, "abort")
                ELSE Do("record", "wpa_supplicant", dev, "abort")
           l == Connect(dev)
           r == <<a, b>>
<1>1. l = <<up>> \o <<halt, leave>> \o r
  BY DEF Connect, Disconnect
<1>2. /\ up.act = "ip" /\ StepOK(up) /\ halt.act = "halt" /\ StepOK(halt) /\ leave.act = "leave" /\ StepOK(leave)
      /\ halt.on = "abort" /\ a.on = "abort" /\ StepOK(a) /\ StepOK(b)
      /\ a.act \in {"install", "launch"} /\ b.act \in {"connect", "record"}
      /\ a.act = "launch" => Same(halt, a)
      /\ b.act = "record" => a.act = "launch" /\ Same(a, b)
  BY DEF Do, StepOK, Same, SetLink, Cmd, Ops, Programs
<1> HIDE DEF up, halt, leave, a, b, l
<1>3. /\ IsSeq(l) /\ Len(l) = 5
      /\ l[1] = up /\ l[2] = halt /\ l[3] = leave /\ l[4] = a /\ l[5] = b
  <2> DEFINE p == <<up>>
             q == <<halt, leave>>
             m == p \o q
  <2>1. /\ p \in Seq({up}) /\ Len(p) = 1 /\ p[1] = up
        /\ q \in Seq({halt, leave}) /\ Len(q) = 2 /\ q[1] = halt /\ q[2] = leave
        /\ r \in Seq({a, b}) /\ Len(r) = 2 /\ r[1] = a /\ r[2] = b
    OBVIOUS
  <2>2. m = p \o q /\ l = m \o r
    BY <1>1
  <2> HIDE DEF p, q, r, m
  <2>3. IsSeq(p) /\ IsSeq(q) /\ IsSeq(r)
    BY <2>1, TypedSeq
  <2>4. IsSeq(m) /\ Len(m) = 3 /\ m[1] = up /\ m[2] = halt /\ m[3] = leave
    <3>1. /\ IsSeq(m) /\ Len(m) = Len(p) + Len(q)
          /\ \A i \in 1..Len(p) : m[i] = p[i]
          /\ \A i \in 1..Len(q) : m[Len(p) + i] = q[i]
      BY <2>2, <2>3, ConcatSeq
    <3> QED
      BY <2>1, <3>1
  <2>5. /\ IsSeq(l) /\ Len(l) = Len(m) + Len(r)
        /\ \A i \in 1..Len(m) : l[i] = m[i]
        /\ \A i \in 1..Len(r) : l[Len(m) + i] = r[i]
    BY <2>2, <2>3, <2>4, ConcatSeq
  <2> QED
    BY <2>1, <2>4, <2>5
<1>4. l[1] = up /\ l[2] = halt /\ l[3] = leave /\ l[4] = a /\ l[5] = b
  BY <1>3
<1>5. \A i \in 1..Len(l) : i \in {1, 2, 3, 4, 5}
  BY <1>3
<1>6. IsSeq(l)
  BY <1>3
<1>7. LineOK(l)
  BY <1>2, <1>4, <1>5, <1>6 DEF LineOK
<1>8. ASSUME NEW i \in 1..Len(l)
      PROVE  /\ l[i].act # "forget"
             /\ l[i].act = "record" => AfterLaunch(l, i)
             /\ l[i].act = "launch" => LaunchOnce(l, i) /\ Ended(l, i)
  <2>1. CASE i = 4
    <3>1. Ended(l, 4) \/ l[4].act # "launch"
      BY <1>2, <1>4 DEF Ended
    <3>2. LaunchOnce(l, 4)
      <4>1. \A j \in 1..(4 - 1) : j \in {1, 2, 3}
        OBVIOUS
      <4> QED
        BY <1>2, <1>4, <4>1 DEF LaunchOnce
    <3> QED
      BY <2>1, <3>1, <3>2, <1>2, <1>4
  <2>2. CASE i = 5
    BY <2>2, <1>2, <1>4 DEF AfterLaunch
  <2>3. CASE i \in {1, 2, 3}
    BY <2>3, <1>2, <1>4
  <2> QED
    BY <2>1, <2>2, <2>3, <1>5
<1>9. Ordered(l)
  BY <1>8 DEF Ordered
<1> QED
  BY <1>7, <1>9 DEF l

\* startExternal: halt, launch, record.
LEMMA DHCPLine ==
  ASSUME NEW dev \in Links
  PROVE  LineOK(StartExternal(dev)) /\ Ordered(StartExternal(dev))
<1> DEFINE halt == Do("halt", "dhclient", dev, "abort")
           launch == Do("launch", "dhclient", dev, "abort")
           record == Do("record", "dhclient", dev, "abort")
           l == StartExternal(dev)
<1>1. l = <<halt, launch, record>>
  BY DEF StartExternal
<1>2. /\ halt.act = "halt" /\ launch.act = "launch" /\ record.act = "record"
      /\ StepOK(halt) /\ StepOK(launch) /\ StepOK(record)
      /\ halt.on = "abort" /\ launch.on = "abort" /\ Same(halt, launch) /\ Same(launch, record)
  BY DEF Do, StepOK, Same, Programs
<1> HIDE DEF halt, launch, record, l
<1>3. l \in Seq({halt, launch, record}) /\ Len(l) = 3
  BY <1>1
<1>4. l[1] = halt /\ l[2] = launch /\ l[3] = record
  BY <1>1
<1>5. \A i \in 1..Len(l) : i \in {1, 2, 3}
  BY <1>3
<1>6. IsSeq(l)
  BY <1>3, TypedSeq
<1>7. LineOK(l)
  BY <1>2, <1>4, <1>5, <1>6 DEF LineOK
<1>8. LaunchOnce(l, 2) /\ Ended(l, 2) /\ AfterLaunch(l, 3)
  BY <1>2, <1>4 DEF LaunchOnce, Ended, AfterLaunch
<1>9. Ordered(l)
  BY <1>2, <1>4, <1>5, <1>8 DEF Ordered
<1> QED
  BY <1>7, <1>9 DEF l

\* A sequence that ends programs only.
LEMMA HaltLine ==
  ASSUME NEW l, IsSeq(l), \A i \in 1..Len(l) : l[i].act \in {"halt", "leave"} /\ StepOK(l[i])
  PROVE  LineOK(l) /\ Ordered(l)
<1>1. LineOK(l)
  BY DEF LineOK
<1>2. Ordered(l)
  BY DEF Ordered
<1> QED
  BY <1>1, <1>2

-----------------------------------------------------------------------------
(* Operations as lines *)

\* The command of a line has an effect when it is resolved.
LEMMA IPStep ==
  ASSUME NEW names, NEW c, NEW on, Rollbackable(c), c.op = "newlink" => c.dev \in Links
  PROVE  StepOK([act |-> "ip", cmd |-> ResolveInTokens(names, c), on |-> on])
<1>1. c.op \in {"newlink", "addr", "addaddr", "route", "rule", "set"}
  BY DEF Rollbackable
<1>2. ResolveInTokens(names, c).op = c.op /\ (c.op = "newlink" => ResolveInTokens(names, c) = c)
  BY <1>1 DEF ResolveInTokens, Cmd
<1> QED
  BY <1>1, <1>2 DEF StepOK, Ops

\* applyConfig turns each line into one of the above.
LEMMA LineOfConfig ==
  ASSUME NEW n, Machine(n), NEW cfg \in Configs, Resolves(n, cfg), ValidConfig(cfg),
         NEW i \in DOMAIN cfg.lines
  PROVE  LET l == LineSteps(Names(n, cfg, DOMAIN cfg.pins), cfg.lines[i])
         IN  LineOK(l) /\ Ordered(l)
<1> DEFINE line == cfg.lines[i]
           names == Names(n, cfg, DOMAIN cfg.pins)
<1>1. /\ line.type \in {"ip", "wifi", "dhcp"}
      /\ line.type = "ip" /\ line.cmd.op = "newlink" => line.cmd.dev \in Links
      /\ line.type = "ip" \/ (line.type = "wifi" /\ line.dev = None)
           \/ line.dev \in Links \cup DOMAIN cfg.aliases \cup DOMAIN cfg.pins
  BY ConfigsAssumption DEF WellFormed, ToSet
<1>2. line.dev \in Links \cup DOMAIN cfg.aliases \cup DOMAIN cfg.pins => NameOf(names, line.dev) \in Links
  BY NamesResolve
<1>3. line.type = "ip" => Rollbackable(line.cmd)
  BY DEF ValidConfig, IsIP
<1> HIDE DEF line, names
<1>4. CASE line.type = "ip"
  <2> DEFINE step == [act |-> "ip", cmd |-> ResolveInTokens(names, line.cmd), on |-> "abort"]
  <2>1. step.act = "ip" /\ StepOK(step)
    BY <1>1, <1>3, <1>4, IPStep
  <2>2. LineSteps(names, line) = <<step>>
    BY <1>4 DEF LineSteps
  <2> HIDE DEF step
  <2> QED
    BY <2>1, <2>2, IPOne, IPLine DEF line, names
<1>5. CASE line.type = "wifi"
  <2>1. Iface(names, line.dev) \in Links
    BY <1>1, <1>2, <1>5, NamesAssumption DEF Iface
  <2>2. LineSteps(names, line) = Connect(Iface(names, line.dev))
    BY <1>5 DEF LineSteps
  <2> QED
    BY <2>1, <2>2, ConnectLine DEF line, names
<1>6. CASE line.type = "dhcp"
  <2>1. NameOf(names, line.dev) \in Links
    BY <1>1, <1>2, <1>6
  <2>2. LineSteps(names, line) = StartExternal(NameOf(names, line.dev))
    BY <1>6 DEF LineSteps
  <2> QED
    BY <2>1, <2>2, DHCPLine DEF line, names
<1> QED
  BY <1>1, <1>4, <1>5, <1>6

\* A configuration is a sequence of lines.
LEMMA ConfigLines ==
  ASSUME NEW cfg \in Configs
  PROVE  Len(cfg.lines) \in Nat /\ DOMAIN cfg.lines = 1..Len(cfg.lines)
<1>1. IsSeq(cfg.lines)
  BY ConfigsAssumption DEF WellFormed, IsSeq
<1> QED
  BY <1>1, SeqFacts

\* All lines of an apply are in order.
LEMMA ApplyLines ==
  ASSUME Machine(net), NEW cfg \in Configs, Resolves(net, cfg), ValidConfig(cfg)
  PROVE  Lines(ApplySteps(cfg))
<1> DEFINE ls == ApplySteps(cfg)
           names == Names(net, cfg, DOMAIN cfg.pins)
<1>1. ls = [i \in 1..Len(cfg.lines) |-> LineSteps(names, cfg.lines[i])]
  BY ConfigLines DEF ApplySteps
<1>2. \A i \in 1..Len(cfg.lines) : LineOK(LineSteps(names, cfg.lines[i])) /\ Ordered(LineSteps(names, cfg.lines[i]))
  BY LineOfConfig, ConfigLines
<1> HIDE DEF ls, names
<1>3. ls = [i \in 1..Len(cfg.lines) |-> ls[i]] /\ \A i \in 1..Len(cfg.lines) : LineOK(ls[i]) /\ Ordered(ls[i])
  BY <1>1, <1>2
<1>4. Lines(ls)
  BY <1>3, ConfigLines, LinesMap
<1> QED
  BY <1>4 DEF ls

\* Teardown ends DHCP clients and Wi-Fi, and runs inverses.
LEMMA StopAllLines == Lines(StopAllSteps)
<1> DEFINE S == {l \in Links : files[<<"dhclient", l>>] # NoFiles}
           StopOne(l) == <<Do("halt", "dhclient", l, "collect")>>
           ls == StopAllSteps
<1>1. IsFiniteSet(S)
  BY LinksAssumption, FS_Subset
<1>2. Cardinality(S) \in Nat /\ \A i \in 1..Cardinality(S) : SetToSeq(S)[i] \in S
  BY <1>1, SetToSeqIn
<1>3. ls = [i \in 1..Cardinality(S) |-> StopOne(SetToSeq(S)[i])]
  BY DEF StopAllSteps, ForEach
<1>4. ASSUME NEW l \in Links PROVE LineOK(StopOne(l)) /\ Ordered(StopOne(l))
  <2> DEFINE halt == Do("halt", "dhclient", l, "collect")
             one == <<halt>>
  <2>1. halt.act = "halt" /\ StepOK(halt)
    BY DEF Do, StepOK, Programs
  <2> HIDE DEF halt
  <2>2. one \in Seq({halt}) /\ Len(one) = 1 /\ one[1] = halt
    OBVIOUS
  <2> HIDE DEF one
  <2>3. IsSeq(one) /\ \A i \in 1..Len(one) : one[i].act \in {"halt", "leave"} /\ StepOK(one[i])
    BY <2>1, <2>2, TypedSeq
  <2>4. LineOK(one) /\ Ordered(one)
    BY <2>3, HaltLine
  <2> QED
    BY <2>4 DEF halt, one
<1>5. S \subseteq Links
  OBVIOUS
<1> HIDE DEF StopOne, ls, S
<1>6. ls = [i \in 1..Cardinality(S) |-> ls[i]] /\ \A i \in 1..Cardinality(S) : LineOK(ls[i]) /\ Ordered(ls[i])
  BY <1>2, <1>3, <1>4, <1>5
<1>7. Lines(ls)
  BY <1>2, <1>6, LinesMap
<1> QED
  BY <1>7 DEF ls

\* Disconnecting Wi-Fi interfaces.
LEMMA LeaveLines ==
  ASSUME NEW S, S \subseteq Links
  PROVE  LET Leaves(l) == Disconnect(l, "collect") IN Lines(ForEach(S, Leaves))
<1> DEFINE Leaves(l) == Disconnect(l, "collect")
           ls == ForEach(S, Leaves)
<1>1. IsFiniteSet(S)
  BY LinksAssumption, FS_Subset
<1>2. Cardinality(S) \in Nat /\ \A i \in 1..Cardinality(S) : SetToSeq(S)[i] \in S
  BY <1>1, SetToSeqIn
<1>3. ls = [i \in 1..Cardinality(S) |-> Leaves(SetToSeq(S)[i])]
  BY DEF ForEach
<1>4. ASSUME NEW l \in Links PROVE LineOK(Leaves(l)) /\ Ordered(Leaves(l))
  <2> DEFINE halt == Do("halt", "wpa_supplicant", l, "collect")
             leave == Do("leave", "iwd", l, "collect")
             two == <<halt, leave>>
  <2>1. Leaves(l) = two
    BY DEF Disconnect
  <2>2. halt.act = "halt" /\ StepOK(halt) /\ leave.act = "leave" /\ StepOK(leave)
    BY DEF Do, StepOK, Programs
  <2> HIDE DEF halt, leave, Leaves
  <2>3. two \in Seq({halt, leave}) /\ Len(two) = 2 /\ two[1] = halt /\ two[2] = leave
    OBVIOUS
  <2> HIDE DEF two
  <2>4. IsSeq(two) /\ \A i \in 1..Len(two) : i \in {1, 2}
    BY <2>3, TypedSeq
  <2>5. \A i \in 1..Len(two) : two[i].act \in {"halt", "leave"} /\ StepOK(two[i])
    BY <2>2, <2>3, <2>4
  <2> QED
    BY <2>1, <2>4, <2>5, HaltLine
<1> HIDE DEF Leaves, ls
<1>5. ls = [i \in 1..Cardinality(S) |-> ls[i]] /\ \A i \in 1..Cardinality(S) : LineOK(ls[i]) /\ Ordered(ls[i])
  BY <1>2, <1>3, <1>4
<1>6. Lines(ls)
  BY <1>2, <1>5, LinesMap
<1> QED
  BY <1>6 DEF ls, Leaves

\* The inverse of a line is a command or nothing.
LEMMA ReverseStep ==
  ASSUME NEW names, NEW c
  PROVE  LET back == ReverseIPCommand(ResolveInTokens(names, c))
         IN  IPOnly([i \in DOMAIN back |-> [act |-> "ip", cmd |-> back[i], on |-> "benign"]])
<1> DEFINE d == ResolveInTokens(names, c)
           back == ReverseIPCommand(d)
           ls == [i \in DOMAIN back |-> [act |-> "ip", cmd |-> back[i], on |-> "benign"]]
<1>1. \/ back = <<>>
      \/ \E b : back = <<b>> /\ b.op \in Ops \ {"newlink"}
  <2> HIDE DEF d
  <2> QED
    BY DEF ReverseIPCommand, Cmd, Ops
<1> HIDE DEF d, back
<1>2. CASE back = <<>>
  <2>1. ls = <<>>
    BY <1>2
  <2> QED
    BY <2>1, IPNone DEF back, d
<1>3. ASSUME NEW b, back = <<b>>, b.op \in Ops \ {"newlink"}
      PROVE  IPOnly(ls)
  <2> DEFINE step == [act |-> "ip", cmd |-> b, on |-> "benign"]
  <2>1. step.act = "ip" /\ StepOK(step)
    BY <1>3 DEF StepOK
  <2>2. ls = <<step>>
    BY <1>3
  <2> HIDE DEF step, ls
  <2> QED
    BY <2>1, <2>2, IPOne
<1> QED
  BY <1>1, <1>2, <1>3 DEF back, d

\* The inverses of all lines.
LEMMA ReverseLines ==
  ASSUME NEW cfg \in Configs, NEW names
  PROVE  Lines(ReverseSteps(names, cfg))
<1> DEFINE n == Len(cfg.lines)
           InverseOf(line) == LET back == ReverseIPCommand(ResolveInTokens(names, line.cmd))
                         IN  [i \in DOMAIN back |-> [act |-> "ip", cmd |-> back[i], on |-> "benign"]]
           Inverse1(line) == IF ~IsIP(line) THEN <<>> ELSE InverseOf(line)
           ls == ReverseSteps(names, cfg)
<1>1. n \in Nat /\ DOMAIN cfg.lines = 1..n
  BY ConfigLines
<1>2. ls = [i \in 1..n |-> Inverse1(Reverse(cfg.lines)[i])]
  BY <1>1 DEF ReverseSteps
<1>3. ASSUME NEW line PROVE IPOnly(Inverse1(line))
  <2>1. IPOnly(InverseOf(line))
    BY ReverseStep
  <2> HIDE DEF InverseOf
  <2> QED
    BY <2>1, IPNone
<1> HIDE DEF Inverse1, ls, n
<1>4. ls = [i \in 1..n |-> ls[i]] /\ \A i \in 1..n : IPOnly(ls[i])
  BY <1>1, <1>2, <1>3
<1>5. Lines(ls)
  BY <1>1, <1>4, IPLines
<1> QED
  BY <1>5 DEF ls

\* All lines of a teardown are in order.
LEMMA TeardownLines ==
  ASSUME NEW names, NEW cfg \in Configs
  PROVE  Lines(TeardownSteps(names, cfg))
<1> DEFINE S == ToDisconnect(names, cfg)
           Leaves(l) == Disconnect(l, "collect")
           leaving == ForEach(S, Leaves)
<1>1. S \subseteq Links
  BY DEF ToDisconnect
<1>2. Lines(leaving)
  <2> HIDE DEF S
  <2> QED
    BY <1>1, LeaveLines
<1>3. Lines(StopAllSteps)
  BY StopAllLines
<1>4. Lines(ReverseSteps(names, cfg))
  BY ReverseLines
<1>5. TeardownSteps(names, cfg) = StopAllSteps \o leaving \o ReverseSteps(names, cfg)
  BY DEF TeardownSteps
<1> HIDE DEF leaving
<1> QED
  BY <1>2, <1>3, <1>4, <1>5, LinesConcat

-----------------------------------------------------------------------------
(* Commands *)

\* Removing addresses or routes leaves a machine.
LEMMA DropOK ==
  ASSUME NEW n, NetOK(n), NEW dev, NEW gone
  PROVE  /\ NetOK(DropRoutes(n, dev)) /\ DropRoutes(n, dev).links = n.links
         /\ NetOK(DropAddrs(n, gone)) /\ DropAddrs(n, gone).links = n.links
         /\ DropRoutes(n, dev).addrs = n.addrs /\ DropAddrs(n, gone).addrs = n.addrs \ gone
         /\ \A r \in DropRoutes(n, dev).routes : r.dev # dev
         /\ DropRoutes(n, dev).up = n.up /\ DropAddrs(n, gone).up = n.up
<1> DEFINE r == {x \in n.routes : x.dev # dev}
           left == n.addrs \ gone
           s == {x \in n.routes : \/ \E a \in left : a.dev = x.dev
                                  \/ ~\E a \in gone : a.dev = x.dev}
<1>1. DropRoutes(n, dev) = [n EXCEPT !.routes = r]
  BY DEF DropRoutes
<1>2. DropAddrs(n, gone) = [n EXCEPT !.addrs = left, !.routes = s]
  BY DEF DropAddrs
<1>3. r \subseteq n.routes /\ s \subseteq n.routes /\ left \subseteq n.addrs /\ \A x \in r : x.dev # dev
  OBVIOUS
<1> HIDE DEF r, s
<1>4. IsFiniteSet(left)
  BY <1>3, FS_Subset DEF NetOK
<1>5. /\ NetOK(DropRoutes(n, dev)) /\ DropRoutes(n, dev).links = n.links /\ DropRoutes(n, dev).addrs = n.addrs
      /\ \A x \in DropRoutes(n, dev).routes : x.dev # dev
      /\ DropRoutes(n, dev).up = n.up
  BY <1>1, <1>3 DEF NetOK, Machine
<1>6. /\ NetOK(DropAddrs(n, gone)) /\ DropAddrs(n, gone).links = n.links /\ DropAddrs(n, gone).addrs = left
      /\ DropAddrs(n, gone).up = n.up
  BY <1>2, <1>3, <1>4 DEF NetOK, Machine
<1> QED
  BY <1>5, <1>6

\* ip link set leaves a machine.
LEMMA SetLinkOK ==
  ASSUME NEW n, NetOK(n), NEW dev \in n.links, NEW settings
  PROVE  NetOK(SetLinkTo(n, dev, settings))
<1> DEFINE flag == LastOf(settings, {"up", "down"}, <<"none">>)[1]
           other == IF flag = "down" THEN DropRoutes(n, dev) ELSE n
           up == IF flag = "up" THEN other.up \cup {dev} ELSE IF flag = "down" THEN other.up \ {dev} ELSE other.up
           mtu == [other.mtu EXCEPT ![dev] = LastOf(settings, {"mtu"}, <<"mtu", @>>)[2]]
           mac == [other.mac EXCEPT ![dev] = LastOf(settings, {"address"}, <<"address", @>>)[2]]
           master == [other.master EXCEPT ![dev] = LastOf(settings, {"master", "nomaster"}, <<"master", @>>)[2]]
           set == SetLinkTo(n, dev, settings)
<1>1. NetOK(other) /\ other.links = n.links
  BY DropOK
<1>2. set = [other EXCEPT !.up = up, !.mtu = mtu, !.mac = mac, !.master = master]
  BY DEF SetLinkTo
<1> HIDE DEF other, flag
<1>3. up \subseteq other.links
  BY <1>1 DEF NetOK, Machine
<1> HIDE DEF up, mtu, mac, master
<1>4. set = [links |-> other.links, up |-> up, mtu |-> mtu, mac |-> mac, master |-> master,
             addrs |-> other.addrs, routes |-> other.routes, rules |-> other.rules]
  BY <1>1, <1>2 DEF NetOK, Machine
<1> HIDE DEF set
<1>5. NetOK(set)
  BY <1>1, <1>3, <1>4 DEF NetOK, Machine
<1> QED
  BY <1>5 DEF set

\* So does ip link add,
LEMMA NewLinkOK ==
  ASSUME NEW n, NetOK(n), NEW dev \in Links
  PROVE  NetOK(NewLink(n, dev))
<1> DEFINE links == n.links \cup {dev}
           mac == [n.mac EXCEPT ![dev] = Factory[dev].mac]
           mtu == [n.mtu EXCEPT ![dev] = Factory[dev].mtu]
<1>1. NewLink(n, dev) = [n EXCEPT !.links = links, !.mac = mac, !.mtu = mtu]
  BY DEF NewLink, NetOK, Machine
<1>2. n.links \subseteq links /\ links \subseteq Links
  BY DEF NetOK, Machine
<1> HIDE DEF links, mac, mtu
<1> QED
  BY <1>1, <1>2 DEF NetOK, Machine

\* ip link del, which takes along what the link has,
LEMMA DelLinkOK ==
  ASSUME NEW n, NetOK(n), NEW dev
  PROVE  NetOK(DelLink(n, dev))
<1> DEFINE a == DropAddrs(n, {x \in n.addrs : x.dev = dev})
           m == DropRoutes(a, dev)
           links == m.links \ {dev}
           up == m.up \ {dev}
           mac == [m.mac EXCEPT ![dev] = Factory[dev].mac]
           mtu == [m.mtu EXCEPT ![dev] = Factory[dev].mtu]
           master == [l \in Links |-> IF l = dev \/ m.master[l] = dev THEN None ELSE m.master[l]]
<1>1. NetOK(a) /\ \A x \in a.addrs : x.dev # dev
  BY DropOK
<1> HIDE DEF a
<1>2. NetOK(m) /\ (\A x \in m.addrs : x.dev # dev) /\ \A x \in m.routes : x.dev # dev
  BY <1>1, DropOK
<1> HIDE DEF m
<1>3. DelLink(n, dev) = [m EXCEPT !.links = links, !.up = up, !.mac = mac, !.mtu = mtu, !.master = master]
  <2>1. DelLink(n, dev) = [m EXCEPT !.links = links, !.up = up, !.mac[dev] = Factory[dev].mac,
                                    !.mtu[dev] = Factory[dev].mtu, !.master = master]
    BY DEF DelLink, m, a
  <2> HIDE DEF links, up, master
  <2> QED
    BY <1>2, <2>1 DEF NetOK, Machine
<1>4. /\ links \subseteq Links /\ up \subseteq links
      /\ \A x \in m.addrs : x.dev \in links
      /\ \A x \in m.routes : x.dev \in links
  BY <1>2 DEF NetOK, Machine
<1> HIDE DEF links, up, mac, mtu, master
<1>5. DelLink(n, dev) = [links |-> links, up |-> up, mac |-> mac, mtu |-> mtu, master |-> master,
                         addrs |-> m.addrs, routes |-> m.routes, rules |-> m.rules]
  BY <1>2, <1>3 DEF NetOK, Machine
<1> HIDE DEF m
<1> QED
  BY <1>2, <1>4, <1>5 DEF NetOK, Machine

\* and ip addr add or replace.
LEMMA SetAddrOK ==
  ASSUME NEW n, NetOK(n), NEW c, c.dev \in n.links, NEW at
  PROVE  NetOK(SetAddr(n, c, at))
<1> DEFINE left == {a \in n.addrs : ~(a.dev = c.dev /\ a.ip = c.arg.ip)}
           new == [ip |-> c.arg.ip, dev |-> c.dev,
                   until |-> IF c.arg.life = Forever THEN Forever ELSE at + c.arg.life]
           addrs == left \cup {new}
<1>1. SetAddr(n, c, at) = [n EXCEPT !.addrs = addrs]
  BY DEF SetAddr
<1>2. left \subseteq n.addrs /\ new.dev = c.dev
  OBVIOUS
<1> HIDE DEF left, new
<1>3. IsFiniteSet(addrs)
  BY <1>2, FS_Subset, FS_AddElement DEF NetOK
<1>4. \A a \in addrs : a.dev \in n.links
  BY <1>2 DEF NetOK, Machine
<1> HIDE DEF addrs
<1> QED
  BY <1>1, <1>3, <1>4 DEF NetOK, Machine

\* A command without an error, and the passing of time, leave a machine.
LEMMA EffectOK ==
  ASSUME NEW n, NetOK(n), NEW c, c.op \in Ops, c.op = "newlink" => c.dev \in Links,
         ErrorOf(n, c) = "none", NEW at
  PROVE  NetOK(Effect(n, c, at))
<1>1. c.op \notin {"newlink", "rule", "delrule", "flushroutes"} => c.dev \in n.links
  BY DEF ErrorOf, NoDevice
<1>2. CASE c.op = "set"
  BY <1>1, <1>2, SetLinkOK DEF Effect
<1>3. CASE c.op = "newlink"
  BY <1>3, NewLinkOK DEF Effect
<1>4. CASE c.op = "dellink"
  BY <1>4, DelLinkOK DEF Effect
<1>5. CASE c.op \in {"addr", "addaddr"}
  BY <1>1, <1>5, SetAddrOK DEF Effect
<1>6. CASE c.op \in {"deladdr", "flush"}
  BY <1>6, DropOK DEF Effect
<1>7. CASE c.op \in {"route", "delroute", "flushroutes"}
  <2> DEFINE routes == IF c.op = "route" THEN n.routes \cup {RouteOf(c)}
                       ELSE IF c.op = "delroute" THEN n.routes \ {RouteOf(c)} ELSE {}
  <2>1. Effect(n, c, at) = [n EXCEPT !.routes = routes]
    BY <1>7 DEF Effect
  <2>2. c.op = "route" => RouteOf(c).dev \in n.links
    BY <1>1 DEF RouteOf
  <2>3. \A r \in routes : r.dev \in n.links
    BY <2>2 DEF NetOK, Machine
  <2> HIDE DEF routes
  <2> QED
    BY <2>1, <2>3 DEF NetOK, Machine
<1>8. CASE c.op \in {"rule", "delrule"}
  <2> DEFINE rules == IF c.op = "rule" THEN n.rules \cup {c.arg} ELSE n.rules \ {c.arg}
  <2>1. Effect(n, c, at) = [n EXCEPT !.rules = rules]
    BY <1>8 DEF Effect
  <2>2. IsFiniteSet(rules)
    BY FS_AddElement, FS_Subset DEF NetOK
  <2> HIDE DEF rules
  <2> QED
    BY <2>1, <2>2 DEF NetOK, Machine
<1> QED
  BY <1>2, <1>3, <1>4, <1>5, <1>6, <1>7, <1>8 DEF Ops

\* Addresses that expire.
LEMMA ExpireOK ==
  ASSUME NEW n, NetOK(n), NEW at
  PROVE  NetOK(Expire(n, at))
BY DropOK DEF Expire

\* What is captured is finite, and can be restored.
LEMMA CaptureOK ==
  ASSUME NEW n, NetOK(n), NEW at
  PROVE  SnapOK(Capture(n, at))
<1> DEFINE Life(a) == IF a.until = Forever THEN Forever ELSE a.until - at
           Seen(a) == [ip |-> a.ip, dev |-> a.dev, life |-> Life(a)]
           seen == {Seen(a) : a \in n.addrs}
           f == [a \in n.addrs |-> Seen(a)]
<1> HIDE DEF Seen
<1>1. f \in Surjection(n.addrs, seen)
  BY DEF Surjection
<1>2. IsFiniteSet(seen)
  BY <1>1, FS_Surjection DEF NetOK
<1>3. IsFiniteSet(n.links)
  BY LinksAssumption, FS_Subset DEF NetOK, Machine
<1>4. /\ Capture(n, at).links = n.links /\ Capture(n, at).rules = n.rules
      /\ Capture(n, at).addrs = seen
  BY DEF Capture, Seen
<1> QED
  BY <1>2, <1>3, <1>4 DEF SnapOK, NetOK

-----------------------------------------------------------------------------
(* Programs *)

\* Links are finitely many, and so are the files about them.
LEMMA SlotsFinite == IsFiniteSet(Slots)
<1>1. IsFiniteSet({"wpa_supplicant"} \cup {"dhclient"})
  BY FS_Singleton, FS_AddElement
<1>2. Programs = {"wpa_supplicant"} \cup {"dhclient"}
  BY DEF Programs
<1> QED
  BY <1>1, <1>2, LinksAssumption, FS_Product DEF Slots

\* Among n + 1 numbers there is one that is not in a set of n.
LEMMA Pigeonhole ==
  ASSUME NEW S, IsFiniteSet(S)
  PROVE  \E b \in 1..(Cardinality(S) + 1) : b \notin S
<1>1. Cardinality(S) \in Nat
  BY FS_CardinalityType
<1> DEFINE I == 1..(Cardinality(S) + 1)
<1>2. Cardinality(I) = Cardinality(S) + 1
  BY <1>1, FS_Interval
<1>3. SUFFICES ASSUME I \subseteq S PROVE FALSE
  OBVIOUS
<1>4. Cardinality(I) <= Cardinality(S)
  BY <1>3, FS_Subset
<1> HIDE DEF I
<1> QED
  BY <1>1, <1>2, <1>4

\* A new process is not one that a record is about.
LEMMA FreshBorn ==
  ASSUME NEW pid
  PROVE  /\ Fresh(pid) \in Nat
         /\ \A s \in Slots : files[s].rec # None /\ files[s].rec.pid = pid => files[s].rec.born # Fresh(pid)
<1> DEFINE S == {t \in Slots : files[t].rec # None /\ files[t].rec.pid = pid}
           used == {files[s].rec.born : s \in S}
           f == [s \in S |-> files[s].rec.born]
<1>1. IsFiniteSet(S)
  BY SlotsFinite, FS_Subset
<1>2. f \in Surjection(S, used)
  BY DEF Surjection
<1>3. IsFiniteSet(used)
  <2> HIDE DEF f, used, S
  <2> QED
    BY <1>1, <1>2, FS_Surjection
<1>4. Cardinality(used) \in Nat /\ \E b \in 1..(Cardinality(used) + 1) : b \notin used
  BY <1>3, FS_CardinalityType, Pigeonhole
<1>5. Fresh(pid) = CHOOSE b \in 1..(Cardinality(used) + 1) : b \notin used
  BY DEF Fresh
<1>6. Fresh(pid) \in 1..(Cardinality(used) + 1) /\ Fresh(pid) \notin used
  <2> HIDE DEF used
  <2> QED
    BY <1>4, <1>5
<1>7. Fresh(pid) \in Nat
  BY <1>4, <1>6
<1> QED
  BY <1>6, <1>7

-----------------------------------------------------------------------------
(* Lines under way *)

\* The rest of a line, after its first step. A halt that goes on has ended the programs of its link.
LEMMA TailUnderWay ==
  ASSUME NEW l, LineOK(l), l # <<>>, NEW P, NEW F, NEW m, UnderWay(l, P, F, m),
         NEW Q, NEW G, NEW k, m => k, \A s : Owned(s, Q) \subseteq Owned(s, P),
         Head(l).act # "launch",
         Head(l).act = "halt" /\ Head(l).on = "abort" =>
           k \/ \A s : Same(Head(l), s) => Owned(s, Q) = {}
  PROVE  LineOK(Tail(l)) /\ UnderWay(Tail(l), Q, G, k)
<1> DEFINE r == Tail(l)
<1>1. IsSeq(l)
  BY DEF LineOK
<1>2. /\ Len(l) \in Nat \ {0} /\ Head(l) = l[1] /\ IsSeq(r) /\ Len(r) = Len(l) - 1
      /\ \A i \in 1..Len(r) : r[i] = l[i + 1]
  BY <1>1, TailSeq
<1> HIDE DEF r
<1>3. \A i \in 1..Len(r) : i + 1 \in 1..Len(l) /\ i + 1 # 1
  BY <1>2
<1>4. LineOK(r)
  BY <1>2, <1>3 DEF LineOK
<1>5. ASSUME NEW i \in 1..Len(r)
      PROVE  /\ r[i].act = "forget" => i = 1 /\ (k \/ Owned(r[i], Q) = {})
             /\ r[i].act = "record" => AfterLaunch(r, i) \/ (i = 1 /\ Launched(r[i], Q, G, k))
             /\ r[i].act = "launch" => LaunchOnce(r, i) /\ (k \/ Owned(r[i], Q) = {} \/ Ended(r, i))
  <2> DEFINE j == i + 1
  <2>1. j \in 1..Len(l) /\ j # 1 /\ r[i] = l[j] /\ j - 1 = i
    BY <1>2, <1>3
  <2>2. /\ l[j].act # "forget"
        /\ l[j].act = "record" => AfterLaunch(l, j)
        /\ l[j].act = "launch" => LaunchOnce(l, j) /\ (m \/ Owned(l[j], P) = {} \/ Ended(l, j))
    BY <2>1 DEF UnderWay
  <2>3. r[i].act = "record" => AfterLaunch(r, i)
    <3> SUFFICES ASSUME l[j].act = "record" PROVE AfterLaunch(r, i)
      BY <2>1
    <3>1. l[j - 1].act = "launch" /\ Same(l[j - 1], l[j])
      BY <2>2 DEF AfterLaunch
    <3>2. i # 1
      BY <3>1, <2>1, <1>2
    <3>3. i > 1 /\ i - 1 \in 1..Len(r) /\ (i - 1) + 1 = i
      BY <3>2, <1>2
    <3>4. r[i - 1] = l[i]
      BY <3>3, <1>2
    <3> QED
      BY <3>1, <3>3, <3>4, <2>1 DEF AfterLaunch
  <2>4. ASSUME l[j].act = "launch" PROVE LaunchOnce(r, i)
    <3>1. l[j].on = "abort" /\ \A x \in 1..(j - 1) : l[x].act # "launch"
      BY <2>2, <2>4 DEF LaunchOnce
    <3>2. \A x \in 1..(i - 1) : x \in 1..Len(r) /\ x + 1 \in 1..(j - 1)
      BY <1>2
    <3> QED
      BY <3>1, <3>2, <2>1, <1>2 DEF LaunchOnce
  <2>5. ASSUME l[j].act = "launch", ~k PROVE Owned(r[i], Q) = {} \/ Ended(r, i)
    <3>1. CASE Owned(l[j], P) = {}
      BY <3>1, <2>1
    <3>2. ASSUME NEW x \in 1..(j - 1), l[x].act = "halt", l[x].on = "abort", Same(l[x], l[j])
          PROVE  Owned(r[i], Q) = {} \/ Ended(r, i)
      <4>1. CASE x = 1
        BY <3>2, <4>1, <2>5, <2>1, <1>2
      <4>2. CASE x # 1
        <5>1. x - 1 \in 1..(i - 1) /\ x - 1 \in 1..Len(r) /\ (x - 1) + 1 = x
          BY <4>2, <1>2
        <5>2. r[x - 1] = l[x]
          BY <5>1, <1>2
        <5> QED
          BY <3>2, <5>1, <5>2, <2>1 DEF Ended
      <4> QED
        BY <4>1, <4>2
    <3> QED
      BY <2>2, <2>5, <3>1, <3>2 DEF Ended
  <2> QED
    BY <2>1, <2>2, <2>3, <2>4, <2>5
<1>6. UnderWay(r, Q, G, k)
  BY <1>5 DEF UnderWay
<1> QED
  BY <1>4, <1>6 DEF r

\* A line that has not been begun.
LEMMA NewUnderWay ==
  ASSUME NEW l, Ordered(l), NEW P, NEW F, NEW m
  PROVE  UnderWay(l, P, F, m)
BY DEF Ordered, UnderWay

\* An operation between two lines.
LEMMA NothingUnderWay ==
  ASSUME NEW P, NEW F, NEW m
  PROVE  LineOK(<<>>) /\ UnderWay(<<>>, P, F, m) /\ Lines(<<>>)
BY EmptyOK, NewUnderWay

-----------------------------------------------------------------------------
(* The job *)

\* The phases of a teardown,
LEMMA TeardownPlan ==
  ASSUME NEW cfg \in Configs \cup {None}, NEW kind
  PROVE  Plan(Teardown(cfg), kind)
<1> DEFINE p == Phase("teardown", cfg)
<1>1. CASE cfg = None
  BY <1>1, EmptyOK DEF Teardown
<1>2. CASE cfg # None
  <2>1. PhaseOK(p, kind)
    BY <1>2 DEF PhaseOK, Phase, Range, Stages
  <2>2. Teardown(cfg) = <<p>>
    BY <1>2 DEF Teardown
  <2> HIDE DEF p
  <2>3. <<p>> \in Seq({p}) /\ Len(<<p>>) = 1 /\ <<p>>[1] = p
    OBVIOUS
  <2>4. IsSeq(<<p>>)
    BY <2>3, TypedSeq
  <2> QED
    BY <2>1, <2>2, <2>3, <2>4 DEF Plan
<1> QED
  BY <1>1, <1>2

\* a phase of its own,
LEMMA OnePhase ==
  ASSUME NEW p, NEW kind, PhaseOK(p, kind)
  PROVE  Plan(<<p>>, kind)
<1>1. <<p>> \in Seq({p}) /\ Len(<<p>>) = 1 /\ <<p>>[1] = p
  OBVIOUS
<1>2. IsSeq(<<p>>)
  BY <1>1, TypedSeq
<1> QED
  BY <1>1, <1>2 DEF Plan

\* and the phases of a restoration.
LEMMA RestorePlan ==
  ASSUME NEW s, SnapOK(s), NEW kind
  PROVE  Plan(Restore(s), kind)
<1> DEFINE plan == Restore(s)
<1>1. Stages \in Seq(Range(Stages)) /\ Len(Stages) = 7
  BY DEF Stages, Range
<1>2. DOMAIN Stages = 1..7 /\ \A i \in 1..7 : Stages[i] \in Range(Stages)
  BY DEF Stages, Range
<1>3. plan = [i \in 1..7 |-> Phase(Stages[i], s)]
  BY <1>2 DEF Restore
<1>4. \A do \in Range(Stages) : do \in {"flush", "links", "addrs", "routes", "rules", "masters", "states"}
  BY DEF Range, Stages
<1>5. \A i \in 1..7 : PhaseOK(Phase(Stages[i], s), kind)
  <2> TAKE i \in 1..7
  <2>1. Stages[i] \in Range(Stages) /\ Stages[i] \in {"flush", "links", "addrs", "routes", "rules", "masters", "states"}
    BY <1>2, <1>4
  <2> QED
    BY <2>1 DEF PhaseOK, Phase
<1> HIDE DEF plan
<1>6. plan = [i \in 1..7 |-> plan[i]] /\ \A i \in 1..7 : PhaseOK(plan[i], kind)
  BY <1>3, <1>5
<1>7. Plan(plan, kind)
  BY <1>6, MapSeq DEF Plan
<1> QED
  BY <1>7 DEF plan

\* Ending an apply leaves a job, whatever it was doing.
LEMMA AbortOK ==
  ASSUME NEW j, JobOK(j), DiskOK(j.kind, base, snap)
  PROVE  /\ JobOK(Abort(j)) /\ Abort(j).lines = <<>> /\ Abort(j).todo = <<>>
         /\ DiskOK(Abort(j).kind, base, snap)
<1>1. CASE j.kind = "start"
  <2> DEFINE again == IF j.old = None THEN <<>> ELSE <<Phase("apply", j.old)>>
             undone == <<Phase("undone", None)>>
             plan == Teardown(j.cfg) \o Restore(base) \o again \o undone
  <2>1. j.cfg \in Configs /\ j.old \in Configs \cup {None} /\ SnapOK(base)
    BY <1>1 DEF JobOK, DiskOK
  <2>2. Plan(Teardown(j.cfg), "undo") /\ Plan(Restore(base), "undo")
    BY <2>1, TeardownPlan, RestorePlan
  <2>3. Plan(again, "undo")
    <3>1. CASE j.old = None
      BY <3>1, EmptyOK
    <3>2. CASE j.old # None
      <4>1. PhaseOK(Phase("apply", j.old), "undo")
        BY <2>1, <3>2 DEF PhaseOK, Phase, Range, Stages
      <4> QED
        BY <3>2, <4>1, OnePhase
    <3> QED
      BY <3>1, <3>2
  <2>4. Plan(undone, "undo")
    <3>1. PhaseOK(Phase("undone", None), "undo")
      BY DEF PhaseOK, Phase, Range, Stages
    <3> QED
      BY <3>1, OnePhase
  <2> HIDE DEF again, undone
  <2>5. Plan(plan, "undo")
    BY <2>2, <2>3, <2>4, PlanConcat
  <2>6. Abort(j) = [j EXCEPT !.kind = "undo", !.lines = <<>>, !.todo = <<>>, !.err = FALSE, !.plan = plan]
    BY <1>1 DEF Abort, again, undone
  <2> HIDE DEF plan
  <2> QED
    BY <2>1, <2>5, <2>6, <1>1 DEF JobOK, DiskOK
<1>2. CASE j.kind # "start"
  <2> DEFINE plan == IF j.plan # <<>> /\ Head(j.plan).do = "resume" THEN Tail(j.plan) ELSE j.plan
  <2>1. Plan(plan, j.kind)
    BY PlanTail DEF JobOK
  <2>2. Abort(j) = [j EXCEPT !.err = TRUE, !.lines = <<>>, !.todo = <<>>, !.plan = plan]
    BY <1>2 DEF Abort, JobOK
  <2> HIDE DEF plan
  <2> QED
    BY <2>1, <2>2, <1>2 DEF JobOK
<1> QED
  BY <1>1, <1>2

\* After it nothing of the line is left.
LEMMA AbortLines ==
  ASSUME NEW j, j.lines = <<>>, j.todo = <<>>, NEW P, NEW F, NEW m
  PROVE  LinesOK(j, P, F, m)
BY NothingUnderWay DEF LinesOK

\* What an unrelated step leaves of a job that goes on.
LEMMA RestJob ==
  ASSUME JobOK(job), job.todo # <<>>
  PROVE  /\ JobOK(Rest) /\ Rest.kind = job.kind /\ Rest.lines = job.lines /\ Rest.todo = Tail(job.todo)
         /\ JobOK([Rest EXCEPT !.err = TRUE])
         /\ [Rest EXCEPT !.err = TRUE].kind = job.kind /\ [Rest EXCEPT !.err = TRUE].lines = job.lines
         /\ [Rest EXCEPT !.err = TRUE].todo = Tail(job.todo)
<1>1. JobOK(Rest) /\ Rest.kind = job.kind /\ Rest.lines = job.lines /\ Rest.todo = Tail(job.todo)
  <2> DEFINE rest == Tail(job.todo)
  <2>1. Rest = [job EXCEPT !.todo = rest]
    BY DEF Rest
  <2> HIDE DEF rest
  <2>2. Rest = [kind |-> job.kind, cfg |-> job.cfg, old |-> job.old, plan |-> job.plan,
                lines |-> job.lines, todo |-> rest, err |-> job.err]
    BY <2>1 DEF JobOK
  <2> QED
    BY <2>2 DEF JobOK, rest
<1>2. ASSUME NEW j, JobOK(j), NEW v
      PROVE  /\ JobOK([j EXCEPT !.err = v])
             /\ [j EXCEPT !.err = v].kind = j.kind /\ [j EXCEPT !.err = v].lines = j.lines
             /\ [j EXCEPT !.err = v].todo = j.todo
  <2> DEFINE e == [j EXCEPT !.err = v]
  <2>1. e = [kind |-> j.kind, cfg |-> j.cfg, old |-> j.old, plan |-> j.plan,
             lines |-> j.lines, todo |-> j.todo, err |-> v]
    BY <1>2 DEF JobOK
  <2> HIDE DEF e
  <2>2. JobOK(e) /\ e.kind = j.kind /\ e.lines = j.lines /\ e.todo = j.todo
    BY <1>2, <2>1 DEF JobOK
  <2> QED
    BY <2>2 DEF e
<1> HIDE DEF Rest
<1> QED
  BY <1>1, <1>2

\* A step is done, of a kind that neither launches nor records.
LEMMA RestLines ==
  ASSUME JobOK(job), LinesOK(job, procs, files, mixed), job.todo # <<>>,
         NEW Q, NEW G, NEW k, mixed => k, \A s : Owned(s, Q) \subseteq Owned(s, procs),
         Step.act # "launch",
         Step.act = "halt" /\ Step.on = "abort" => k \/ \A s : Same(Step, s) => Owned(s, Q) = {}
  PROVE  LinesOK(Rest, Q, G, k) /\ LinesOK([Rest EXCEPT !.err = TRUE], Q, G, k)
<1>1. LineOK(Tail(job.todo)) /\ UnderWay(Tail(job.todo), Q, G, k)
  <2> DEFINE l == job.todo
  <2>1. LineOK(l) /\ UnderWay(l, procs, files, mixed) /\ l # <<>>
    BY DEF LinesOK
  <2>2. /\ Head(l).act # "launch"
        /\ Head(l).act = "halt" /\ Head(l).on = "abort" => k \/ \A s : Same(Head(l), s) => Owned(s, Q) = {}
    BY DEF Step
  <2> HIDE DEF l
  <2>3. LineOK(Tail(l)) /\ UnderWay(Tail(l), Q, G, k)
    BY <2>1, <2>2, TailUnderWay
  <2> QED
    BY <2>3 DEF l
<1> QED
  BY <1>1, RestJob DEF LinesOK

\* A step fails: noted, skipped or the end of the apply.
LEMMA FailedOK ==
  ASSUME JobOK(job), LinesOK(job, procs, files, mixed), DiskOK(job.kind, base, snap), job.todo # <<>>,
         NEW error, Step.act \in {"launch", "halt"} /\ Step.on = "abort" => error # "exists",
         NEW G
  PROVE  /\ JobOK(Failed(error)) /\ DiskOK(Failed(error).kind, base, snap)
         /\ LinesOK(Failed(error), procs, G, mixed)
<1>1. CASE Counts(Step.on, error) /\ Step.on = "abort"
  <2>1. Failed(error) = Abort(Rest)
    BY <1>1 DEF Failed
  <2>2. JobOK(Rest) /\ DiskOK(Rest.kind, base, snap)
    BY RestJob
  <2> QED
    BY <2>1, <2>2, AbortOK, AbortLines
<1>2. CASE ~(Counts(Step.on, error) /\ Step.on = "abort")
  <2>1. Failed(error) = Rest \/ Failed(error) = [Rest EXCEPT !.err = TRUE]
    BY <1>2 DEF Failed
  <2>2. Step.act = "launch" => Step.on = "abort"
    <3>1. Step = job.todo[1] /\ 1 \in 1..Len(job.todo)
      BY TailSeq DEF Step, LinesOK, LineOK
    <3> QED
      BY <3>1 DEF LinesOK, UnderWay, LaunchOnce
  <2>3. Step.act # "launch" /\ ~(Step.act = "halt" /\ Step.on = "abort")
    BY <1>2, <2>2 DEF Counts
  <2>4. LinesOK(Rest, procs, G, mixed) /\ LinesOK([Rest EXCEPT !.err = TRUE], procs, G, mixed)
    BY <2>3, RestLines
  <2> QED
    BY <2>1, <2>4, RestJob
<1> QED
  BY <1>1, <1>2

\* The step in hand.
LEMMA StepFacts ==
  ASSUME LinesOK(job, procs, files, mixed), job.todo # <<>>
  PROVE  /\ Step = job.todo[1] /\ 1 \in 1..Len(job.todo) /\ StepOK(Step)
         /\ Step.act \in {"halt", "forget", "launch", "record"} =>
              Step.prog \in Programs /\ Step.dev \in Links /\ Slot \in Slots
         /\ Step.act \in {"install", "leave", "connect"} => Step.dev \in Links
<1>1. Step = job.todo[1] /\ 1 \in 1..Len(job.todo)
  BY TailSeq DEF LinesOK, LineOK, Step
<1>2. StepOK(Step)
  BY <1>1 DEF LinesOK, LineOK
<1> QED
  BY <1>1, <1>2 DEF StepOK, Slot, Slots

-----------------------------------------------------------------------------
(* Programs come and go *)

\* A record that names a process is one of a client that nic can look up.
LEMMA RecordedTracked ==
  ASSUME FilesOK(files), ProcsOK(procs), NEW s \in Slots, NEW p \in procs
  PROVE  /\ Recorded(p, files[s]) <=> Tracked(files[s]) /\ IsRecorded(p, files[s].rec)
         /\ p.pid # None
<1>1. p.pid \in Pids /\ p.pid # None
  BY NamesAssumption DEF ProcsOK
<1>2. IsRecorded(p, files[s].rec) => files[s].rec # Unnamed
  BY <1>1 DEF IsRecorded, Unnamed
<1> QED
  BY <1>1, <1>2 DEF Recorded, Tracked

\* What a halt that is not refused signals: programs of the link, all of them.
LEMMA ToSignalOK ==
  ASSUME FilesOK(files), ProcsOK(procs), RecordsOK(procs, files), NEW s \in Slots
  PROVE  /\ \A p \in ToSignal(s) : <<p.prog, p.dev>> = s \/ (~Tracked(files[s]) /\ p.prog = s[1])
         /\ Known(procs, files) /\ ~Refuses(s) =>
              \A p \in procs : <<p.prog, p.dev>> = s => p \in ToSignal(s)
<1>1. \A p \in procs : p.pid # None /\ (Recorded(p, files[s]) <=> Tracked(files[s]) /\ IsRecorded(p, files[s].rec))
  BY RecordedTracked
<1>2. \A p \in ToSignal(s) : <<p.prog, p.dev>> = s \/ (~Tracked(files[s]) /\ p.prog = s[1])
  BY <1>1 DEF ToSignal, RecordsOK, At
<1>3. ASSUME Known(procs, files), ~Refuses(s), NEW p \in procs, <<p.prog, p.dev>> = s
      PROVE  p \in ToSignal(s)
  <2>1. p.prog # "other" /\ p.prog = s[1]
    BY <1>3 DEF Slots, Programs
  <2>2. Recorded(p, files[s]) \/ (files[s].pid = p.pid /\ (Tracked(files[s]) => files[s].rec.pid # p.pid))
    BY <1>3, <2>1 DEF Known, Findable
  <2>3. CASE Recorded(p, files[s])
    BY <1>1, <2>3 DEF ToSignal
  <2>4. CASE files[s].pid = p.pid /\ (Tracked(files[s]) => files[s].rec.pid # p.pid)
    <3>1. ~Tracked(files[s])
      BY <1>1, <1>3, <2>4 DEF Refuses
    <3> QED
      BY <2>1, <2>4, <3>1 DEF ToSignal, At
  <2> QED
    BY <2>2, <2>3, <2>4
<1> QED
  BY <1>2, <1>3

\* Processes go: what is known of the others stays known.
LEMMA FewerBooks ==
  ASSUME NEW P, NEW F, NEW m, Books(P, F, m), NEW Q, Q \subseteq P
  PROVE  Books(Q, F, m) /\ \A s : Owned(s, Q) \subseteq Owned(s, P)
<1>1. ProcsOK(Q) /\ RecordsOK(Q, F)
  BY DEF Books, ProcsOK, RecordsOK
<1>2. Known(P, F) /\ Single(P) => Known(Q, F) /\ Single(Q)
  BY DEF Known, Single
<1>3. \A s : Owned(s, Q) \subseteq Owned(s, P)
  BY DEF Owned
<1> QED
  BY <1>1, <1>2, <1>3 DEF Books

\* The programs of the slot are ended before its files are removed.
LEMMA HaltStep ==
  ASSUME IInv, Halt
  PROVE  IInv'
<1>1. /\ job.todo # <<>> /\ Step.act = "halt" /\ Slot \in Slots /\ Slot = <<Step.prog, Step.dev>>
      /\ Step = job.todo[1] /\ 1 \in 1..Len(job.todo) /\ Step.prog \in Programs /\ Step.dev \in Links
  BY StepFacts DEF IInv, Halt, Acts, Slot
<1>2. /\ FilesOK(files) /\ ProcsOK(procs) /\ RecordsOK(procs, files)
      /\ mixed \/ (Known(procs, files) /\ Single(procs))
  BY DEF IInv, Books
<1>3. UNCHANGED <<net, RestOK, files, base, snap, mixed>>
  BY DEF Halt, disk, past, RestOK
<1>4. CASE files[Slot] = NoFiles
  <2>1. job' = Rest /\ procs' = procs
    BY <1>4 DEF Halt
  <2>2. mixed \/ \A s : Same(Step, s) => Owned(s, procs) = {}
    <3> SUFFICES ASSUME Known(procs, files), NEW p \in procs, p.prog = Step.prog, p.dev = Step.dev
                 PROVE  FALSE
      BY <1>2 DEF Same, Owned
    <3>1. p.prog # "other" /\ <<p.prog, p.dev>> = Slot
      BY <1>1 DEF Programs
    <3>2. Findable(p, files[Slot])
      BY <3>1 DEF Known
    <3>3. p.pid # None
      BY <1>1, <1>2, RecordedTracked
    <3> QED
      BY <1>4, <3>2, <3>3 DEF Findable, Recorded, NoFiles
  <2>3. LinesOK(Rest, procs, files, mixed)
    BY <1>1, <2>2, RestLines DEF IInv
  <2> QED
    BY <1>1, <1>3, <2>1, <2>3, RestJob DEF IInv
<1>5. CASE files[Slot] # NoFiles /\ Refuses(Slot)
  <2>1. job' = Failed("refused") /\ procs' = procs
    BY <1>5 DEF Halt
  <2>2. /\ JobOK(Failed("refused")) /\ DiskOK(Failed("refused").kind, base, snap)
        /\ LinesOK(Failed("refused"), procs, files, mixed)
    BY <1>1, FailedOK DEF IInv
  <2> QED
    BY <1>3, <2>1, <2>2 DEF IInv
<1>6. CASE files[Slot] # NoFiles /\ ~Refuses(Slot)
  <2> DEFINE l == job.todo
             k == AfterHalt(Slot)
             forget == Do("forget", Step.prog, Step.dev, IF Step.prog = "dhclient" THEN "ignore" ELSE Step.on)
             Q == procs \ ToSignal(Slot)
  <2>1. procs' = Q /\ job' = [job EXCEPT !.todo = k]
    BY <1>6 DEF Halt
  <2>2. Books(Q, files, mixed) /\ \A s : Owned(s, Q) \subseteq Owned(s, procs)
    BY FewerBooks DEF IInv
  <2>3. mixed \/ \A s : Same(Step, s) => Owned(s, Q) = {}
    <3> SUFFICES ASSUME Known(procs, files), NEW p \in procs, p.prog = Step.prog, p.dev = Step.dev
                 PROVE  p \in ToSignal(Slot)
      BY <1>2 DEF Same, Owned
    <3> QED
      BY <1>1, <1>2, <1>6, ToSignalOK
  <2>4. k = [l EXCEPT ![1] = forget]
    BY <1>1 DEF AfterHalt
  <2>5. forget.act = "forget" /\ StepOK(forget) /\ forget.prog = Step.prog /\ forget.dev = Step.dev
    BY <1>1 DEF Do, StepOK
  <2> HIDE DEF k, l, forget, Q
  <2>6. /\ IsSeq(l) /\ Len(l) \in Nat /\ DOMAIN l = 1..Len(l) /\ 1 \in 1..Len(l) /\ l[1] = Step
        /\ LineOK(l) /\ UnderWay(l, procs, files, mixed)
    BY <1>1, SeqFacts DEF IInv, LinesOK, LineOK, l
  <2>7. /\ k = [i \in 1..Len(l) |-> k[i]] /\ k[1] = forget /\ \A i \in 1..Len(l) : i # 1 => k[i] = l[i]
    BY <2>4, <2>6
  <2>8. IsSeq(k) /\ Len(k) = Len(l)
    BY <2>6, <2>7, MapSeq
  <2>9. LineOK(k)
    BY <2>5, <2>6, <2>7, <2>8 DEF LineOK
  <2>10. ASSUME NEW i \in 1..Len(k)
         PROVE  /\ k[i].act = "forget" => i = 1 /\ (mixed \/ Owned(k[i], Q) = {})
                /\ k[i].act = "record" => AfterLaunch(k, i) \/ (i = 1 /\ Launched(k[i], Q, files, mixed))
                /\ k[i].act = "launch" => LaunchOnce(k, i) /\ (mixed \/ Owned(k[i], Q) = {} \/ Ended(k, i))
    <3>1. CASE i = 1
      <4>1. mixed \/ Owned(forget, Q) = {}
        BY <2>3, <2>5 DEF Same
      <4> QED
        BY <3>1, <4>1, <2>5, <2>7
    <3>2. CASE i # 1
      <4>1. /\ k[i] = l[i] /\ l[i].act # "forget" /\ i \in 1..Len(l)
            /\ l[i].act = "record" => AfterLaunch(l, i)
            /\ l[i].act = "launch" => LaunchOnce(l, i) /\ (mixed \/ Owned(l[i], procs) = {} \/ Ended(l, i))
        BY <3>2, <2>6, <2>7, <2>8 DEF UnderWay
      <4>2. l[i].act = "record" => AfterLaunch(k, i)
        <5> SUFFICES ASSUME AfterLaunch(l, i) PROVE AfterLaunch(k, i)
          BY <4>1
        <5>1. i > 1 /\ i - 1 \in 1..Len(l) /\ l[i - 1].act = "launch" /\ i - 1 # 1
          BY <4>1, <1>1, <2>6 DEF AfterLaunch
        <5> QED
          BY <5>1, <4>1, <2>7 DEF AfterLaunch
      <4>3. ASSUME l[i].act = "launch" PROVE LaunchOnce(k, i)
        <5>1. l[i].on = "abort" /\ \A j \in 1..(i - 1) : l[j].act # "launch"
          BY <4>1, <4>3 DEF LaunchOnce
        <5>2. \A j \in 1..(i - 1) : j \in 1..Len(l)
          BY <4>1, <2>6
        <5>3. \A j \in 1..(i - 1) : k[j].act # "launch"
          BY <5>1, <5>2, <2>5, <2>7
        <5> QED
          BY <5>1, <5>3, <4>1 DEF LaunchOnce
      <4>4. ASSUME l[i].act = "launch", ~mixed PROVE Owned(l[i], Q) = {} \/ Ended(k, i)
        <5>1. CASE Owned(l[i], procs) = {}
          BY <5>1, <2>2
        <5>2. ASSUME NEW x \in 1..(i - 1), l[x].act = "halt", l[x].on = "abort", Same(l[x], l[i])
              PROVE  Owned(l[i], Q) = {} \/ Ended(k, i)
          <6>1. CASE x = 1
            BY <6>1, <5>2, <4>4, <2>3, <2>6
          <6>2. CASE x # 1
            <7>1. x \in 1..Len(l) /\ k[x] = l[x]
              BY <6>2, <4>1, <2>6, <2>7
            <7> QED
              BY <7>1, <5>2, <4>1 DEF Ended
          <6> QED
            BY <6>1, <6>2
        <5> QED
          BY <4>1, <4>4, <5>1, <5>2 DEF Ended
      <4> QED
        BY <3>2, <4>1, <4>2, <4>3, <4>4
    <3> QED
      BY <3>1, <3>2
  <2>11. UnderWay(k, Q, files, mixed)
    BY <2>10 DEF UnderWay
  <2>12. JobOK(job') /\ job'.kind = job.kind /\ LinesOK(job', Q, files, mixed)
    BY <2>1, <2>9, <2>11 DEF IInv, JobOK, LinesOK
  <2> QED
    BY <1>3, <2>1, <2>2, <2>12 DEF IInv
<1> QED
  BY <1>4, <1>5, <1>6

\* The files of a slot are changed, and no program of the slot is forgotten.
LEMMA FileBooks ==
  ASSUME NEW P, NEW F, NEW m, Books(P, F, m), NEW s \in Slots,
         NEW f \in [pid : Pids \cup {None}, rec : Records],
         \A p \in P : Recorded(p, f) => <<p.prog, p.dev>> = s,
         m \/ \A p \in P : p.prog # "other" /\ <<p.prog, p.dev>> = s => Findable(p, f)
  PROVE  Books(P, [F EXCEPT ![s] = f], m)
<1> DEFINE G == [F EXCEPT ![s] = f]
<1>1. FilesOK(F) /\ ProcsOK(P) /\ RecordsOK(P, F) /\ (m \/ (Known(P, F) /\ Single(P)))
  BY DEF Books
<1>2. FilesOK(G)
  BY <1>1 DEF FilesOK
<1>3. G[s] = f /\ \A r \in Slots : r # s => G[r] = F[r]
  BY <1>1 DEF FilesOK
<1> HIDE DEF G
<1>4. RecordsOK(P, G)
  BY <1>1, <1>3 DEF RecordsOK
<1>5. ASSUME Known(P, F), ~m PROVE Known(P, G)
  <2> SUFFICES ASSUME NEW p \in P, p.prog # "other" PROVE Findable(p, G[<<p.prog, p.dev>>])
    BY DEF Known
  <2>1. <<p.prog, p.dev>> \in Slots
    BY <1>1 DEF ProcsOK, Slots
  <2> QED
    BY <1>3, <1>5, <2>1 DEF Known
<1>6. Books(P, G, m)
  BY <1>1, <1>2, <1>4, <1>5 DEF Books
<1> QED
  BY <1>6 DEF G

\* The files go, and they were the last trace of no running program.
LEMMA ForgetStep ==
  ASSUME IInv, Forget
  PROVE  IInv'
<1>1. /\ job.todo # <<>> /\ Step.act = "forget" /\ Slot \in Slots /\ Slot = <<Step.prog, Step.dev>>
      /\ Step = job.todo[1] /\ 1 \in 1..Len(job.todo) /\ Step.prog \in Programs
  BY StepFacts DEF IInv, Forget, Acts, Slot
<1>2. UNCHANGED <<net, RestOK, procs, base, snap, mixed>>
  BY DEF Forget, disk, past, RestOK
<1>3. files' = [files EXCEPT ![Slot] = NoFiles] /\ job' = Rest
  BY DEF Forget
<1>4. mixed \/ Owned(Step, procs) = {}
  BY <1>1 DEF IInv, LinesOK, UnderWay
<1>5. NoFiles \in [pid : Pids \cup {None}, rec : Records]
  BY DEF NoFiles, Records
<1>6. \A p \in procs : ~Recorded(p, NoFiles)
  BY DEF NoFiles, Recorded
<1>7. mixed \/ \A p \in procs : <<p.prog, p.dev>> # Slot
  BY <1>1, <1>4 DEF Owned
<1>8. Books(procs, files', mixed)
  <2> HIDE DEF NoFiles
  <2> QED
    BY <1>1, <1>3, <1>5, <1>6, <1>7, FileBooks DEF IInv
<1>9. LinesOK(Rest, procs, files', mixed)
  BY <1>1, RestLines DEF IInv
<1> QED
  BY <1>1, <1>2, <1>3, <1>8, <1>9, RestJob DEF IInv

\* A new process has a pid and a start time that no record has together.
LEMMA ArrivalBooks ==
  ASSUME Books(procs, files, mixed), NEW pid \in Pids, At(pid) = {},
         NEW prog \in Programs \cup {"other"}, NEW dev, prog # "other" => dev \in Links,
         NEW new, new = [pid |-> pid, born |-> Fresh(pid), prog |-> prog, dev |-> dev]
  PROVE  /\ ProcsOK(procs \cup {new}) /\ RecordsOK(procs \cup {new}, files)
         /\ \A s \in Slots : ~Recorded(new, files[s])
<1>1. Fresh(pid) \in Nat /\ \A s \in Slots : ~Recorded(new, files[s])
  BY FreshBorn DEF Recorded, IsRecorded
<1>2. new.pid = pid /\ new.born = Fresh(pid) /\ new.prog = prog /\ new.dev = dev
  OBVIOUS
<1>3. \A p \in procs : p.pid # pid
  BY DEF At
<1> HIDE DEF Fresh
<1>4. ProcsOK(procs \cup {new})
  BY <1>1, <1>2, <1>3 DEF ProcsOK, Books
<1>5. RecordsOK(procs \cup {new}, files)
  BY <1>1 DEF RecordsOK, Books
<1> QED
  BY <1>1, <1>4, <1>5

\* The predecessor is gone when a program is launched, unless nic has lost track of it.
LEMMA LaunchStep ==
  ASSUME IInv, Launch
  PROVE  IInv'
<1>1. /\ job.todo # <<>> /\ Step.act = "launch" /\ Slot \in Slots /\ Slot = <<Step.prog, Step.dev>>
      /\ Step = job.todo[1] /\ 1 \in 1..Len(job.todo) /\ Step.prog \in Programs /\ Step.dev \in Links
      /\ Step.prog # "other"
  BY StepFacts DEF IInv, Launch, Acts, Slot, Programs
<1>2. UNCHANGED <<net, RestOK, base, snap>> /\ job' = Rest
  BY DEF Launch, disk, RestOK
<1>3. PICK pid \in {q \in Pids : At(q) = {}} :
        /\ procs' = procs \cup {[pid |-> pid, born |-> Fresh(pid), prog |-> Step.prog, dev |-> Step.dev]}
        /\ files' = [files EXCEPT ![Slot].pid = pid]
        /\ mixed' = (mixed \/ (Tracked(files[Slot]) /\ files[Slot].rec.pid = pid))
  BY DEF Launch
<1> DEFINE new == [pid |-> pid, born |-> Fresh(pid), prog |-> Step.prog, dev |-> Step.dev]
           f == [files[Slot] EXCEPT !.pid = pid]
<1>4. LaunchOnce(job.todo, 1) /\ (mixed \/ Owned(Step, procs) = {})
  <2>1. LaunchOnce(job.todo, 1) /\ (mixed \/ Owned(Step, procs) = {} \/ Ended(job.todo, 1))
    BY <1>1 DEF IInv, LinesOK, UnderWay
  <2>2. ~Ended(job.todo, 1)
    BY DEF Ended
  <2> QED
    BY <2>1, <2>2
<1>5. /\ FilesOK(files) /\ ProcsOK(procs) /\ RecordsOK(procs, files)
      /\ mixed \/ (Known(procs, files) /\ Single(procs))
  BY DEF IInv, Books
<1>6. /\ ProcsOK(procs') /\ RecordsOK(procs', files) /\ \A s \in Slots : ~Recorded(new, files[s])
  BY <1>1, <1>3, ArrivalBooks DEF IInv
<1>7. new.pid = pid /\ new.prog = Step.prog /\ new.dev = Step.dev /\ procs' = procs \cup {new}
  BY <1>3
<1>8. /\ f.pid = pid /\ f.rec = files[Slot].rec /\ FilesOK(files') /\ files'[Slot] = f
      /\ \A s \in Slots : files'[s].rec = files[s].rec /\ (s # Slot => files'[s] = files[s])
  BY <1>1, <1>3, <1>5 DEF FilesOK
<1> HIDE DEF new, f
<1>9. \A p \in procs', s \in Slots : Recorded(p, files'[s]) = Recorded(p, files[s])
  BY <1>8 DEF Recorded
<1>10. RecordsOK(procs', files')
  BY <1>6, <1>9 DEF RecordsOK
<1>11. ASSUME ~mixed' PROVE Known(procs', files') /\ Single(procs')
  <2>1. ~mixed /\ ~(Tracked(files[Slot]) /\ files[Slot].rec.pid = pid) /\ Owned(Step, procs) = {}
    BY <1>3, <1>4, <1>11
  <2>2. Known(procs, files) /\ Single(procs)
    BY <1>5, <2>1
  <2>3. Findable(new, files'[Slot])
    BY <1>7, <1>8, <2>1 DEF Findable, Tracked
  <2>4. ASSUME NEW p \in procs, p.prog # "other"
        PROVE  Findable(p, files'[<<p.prog, p.dev>>])
    <3>1. <<p.prog, p.dev>> \in Slots /\ <<p.prog, p.dev>> # Slot
      BY <1>1, <1>5, <2>1, <2>4 DEF ProcsOK, Slots, Owned
    <3> QED
      BY <1>8, <2>2, <2>4, <3>1 DEF Known
  <2>5. Known(procs', files')
    BY <1>1, <1>7, <2>3, <2>4 DEF Known
  <2>6. Single(procs')
    BY <1>7, <2>1, <2>2 DEF Single, Owned
  <2> QED
    BY <2>5, <2>6
<1>12. Books(procs', files', mixed')
  BY <1>6, <1>8, <1>10, <1>11 DEF Books
<1>13. LineOK(Tail(job.todo)) /\ UnderWay(Tail(job.todo), procs', files', mixed')
  <2> DEFINE l == job.todo
             r == Tail(l)
  <2>1. /\ IsSeq(l) /\ l # <<>> /\ LineOK(l) /\ UnderWay(l, procs, files, mixed) /\ LaunchOnce(l, 1)
        /\ l[1].act = "launch" /\ l[1] = Step
    BY <1>1, <1>4 DEF IInv, LinesOK, LineOK
  <2> HIDE DEF l
  <2>2. /\ Len(l) \in Nat \ {0} /\ IsSeq(r) /\ Len(r) = Len(l) - 1
        /\ \A i \in 1..Len(r) : r[i] = l[i + 1]
    BY <2>1, TailSeq
  <2> HIDE DEF r
  <2>3. \A i \in 1..Len(r) : i + 1 \in 1..Len(l) /\ i + 1 # 1
    BY <2>2
  <2>4. LineOK(r)
    BY <2>1, <2>2, <2>3 DEF LineOK
  <2>5. Launched(Step, procs', files', mixed')
    <3>1. FileOf(Step, files') = files'[Slot] /\ files'[Slot].pid = pid
      BY <1>1, <1>8 DEF FileOf
    <3>2. new \in Owned(Step, procs') /\ new \in procs'
      BY <1>7 DEF Owned
    <3>3. \A p \in procs' : p.pid = pid => p = new
      BY <1>6, <1>7 DEF ProcsOK
    <3>4. mixed' \/ \A p \in Owned(Step, procs') : p = new
      BY <1>3, <1>4, <1>7 DEF Owned
    <3> QED
      BY <1>7, <3>1, <3>2, <3>3, <3>4 DEF Launched
  <2>6. ASSUME NEW i \in 1..Len(r)
        PROVE  /\ r[i].act \notin {"forget", "launch"}
               /\ r[i].act = "record" => AfterLaunch(r, i) \/ (i = 1 /\ Same(Step, r[i]))
    <3> DEFINE j == i + 1
    <3>1. j \in 1..Len(l) /\ j # 1 /\ r[i] = l[j] /\ j - 1 = i
      BY <2>2, <2>3
    <3>2. /\ l[j].act # "forget"
          /\ l[j].act = "record" => AfterLaunch(l, j)
          /\ l[j].act = "launch" => LaunchOnce(l, j)
      BY <2>1, <3>1 DEF UnderWay
    <3>3. l[j].act # "launch"
      BY <2>1, <3>1, <3>2, <2>2 DEF LaunchOnce
    <3>4. ASSUME AfterLaunch(l, j) PROVE AfterLaunch(r, i) \/ (i = 1 /\ Same(Step, r[i]))
      <4>1. l[i].act = "launch" /\ Same(l[i], l[j])
        BY <3>1, <3>4 DEF AfterLaunch
      <4>2. CASE i = 1
        BY <2>1, <3>1, <4>1, <4>2
      <4>3. CASE i # 1
        <5>1. i \in 1..Len(l) /\ i > 1 /\ i - 1 \in 1..Len(r) /\ (i - 1) + 1 = i
          BY <4>3, <2>2
        <5>2. r[i - 1] = l[i]
          BY <5>1, <2>2
        <5> QED
          BY <3>1, <4>1, <5>1, <5>2 DEF AfterLaunch
      <4> QED
        BY <4>2, <4>3
    <3> QED
      BY <3>1, <3>2, <3>3, <3>4
  <2>7. \A s : Same(Step, s) => (Launched(Step, procs', files', mixed') => Launched(s, procs', files', mixed'))
    BY DEF Same, Launched, Owned, FileOf
  <2>8. UnderWay(r, procs', files', mixed')
    BY <2>5, <2>6, <2>7 DEF UnderWay
  <2> QED
    BY <2>4, <2>8 DEF r, l
<1>14. LinesOK(Rest, procs', files', mixed')
  BY <1>1, <1>13, RestJob DEF IInv, LinesOK
<1> QED
  BY <1>1, <1>2, <1>12, <1>14, RestJob DEF IInv

\* A program that cannot be recorded is ended again, and the apply is over.
LEMMA UnrecordedOK ==
  ASSUME JobOK(job), LinesOK(job, procs, files, mixed), DiskOK(job.kind, base, snap), Acts("record")
  PROVE  /\ JobOK(Unrecorded) /\ DiskOK(Unrecorded.kind, base, snap)
         /\ LinesOK(Unrecorded, procs, files, mixed)
<1>1. job.todo # <<>> /\ Step.prog \in Programs /\ Step.dev \in Links
  BY StepFacts DEF Acts
<1>2. CASE Step.prog = "dhclient"
  <2>1. Unrecorded = Abort(Rest)
    BY <1>2 DEF Unrecorded
  <2>2. JobOK(Rest) /\ DiskOK(Rest.kind, base, snap)
    BY <1>1, RestJob
  <2> QED
    BY <2>1, <2>2, AbortOK, AbortLines
<1>3. CASE Step.prog # "dhclient"
  <2> DEFINE halt == Do("halt", Step.prog, Step.dev, "ignore")
             fail == Do("fail", None, None, "abort")
             two == <<halt, fail>>
  <2>1. Unrecorded = [job EXCEPT !.todo = two]
    BY <1>3 DEF Unrecorded
  <2>2. halt.act = "halt" /\ StepOK(halt) /\ fail.act = "fail" /\ StepOK(fail)
    BY <1>1 DEF Do, StepOK
  <2> HIDE DEF halt, fail
  <2>3. two \in Seq({halt, fail}) /\ Len(two) = 2 /\ two[1] = halt /\ two[2] = fail
    OBVIOUS
  <2> HIDE DEF two
  <2>4. IsSeq(two) /\ \A i \in 1..Len(two) : i \in {1, 2}
    BY <2>3, TypedSeq
  <2>5. LineOK(two) /\ UnderWay(two, procs, files, mixed)
    BY <2>2, <2>3, <2>4 DEF LineOK, UnderWay
  <2> QED
    BY <2>1, <2>5 DEF JobOK, LinesOK
<1> QED
  BY <1>2, <1>3

\* The process that has the pid of the pid file is the one just launched.
LEMMA RecordStep ==
  ASSUME IInv, Record
  PROVE  IInv'
<1> DEFINE pid == files[Slot].pid
           found == At(pid)
           rec == IF found = {} THEN Unnamed ELSE [pid |-> pid, born |-> (CHOOSE p \in found : TRUE).born]
           f == [files[Slot] EXCEPT !.rec = rec]
<1>1. /\ job.todo # <<>> /\ Step.act = "record" /\ Slot \in Slots /\ Slot = <<Step.prog, Step.dev>>
      /\ Step = job.todo[1] /\ 1 \in 1..Len(job.todo) /\ Step.prog \in Programs
  BY StepFacts DEF IInv, Record, Acts, Slot
<1>2. UNCHANGED <<net, RestOK, procs, base, snap, mixed>>
  BY DEF Record, disk, past, RestOK
<1>3. \/ job' = Unrecorded /\ files' = files
      \/ job' = Rest /\ files' = [files EXCEPT ![Slot].rec = rec]
  BY DEF Record
<1>4. CASE job' = Unrecorded /\ files' = files
  <2>1. /\ JobOK(Unrecorded) /\ DiskOK(Unrecorded.kind, base, snap)
        /\ LinesOK(Unrecorded, procs, files, mixed)
    BY <1>1, UnrecordedOK DEF IInv, Acts
  <2> QED
    BY <1>2, <1>4, <2>1 DEF IInv
<1>5. CASE job' = Rest /\ files' = [files EXCEPT ![Slot].rec = rec]
  <2>1. FilesOK(files) /\ ProcsOK(procs)
    BY DEF IInv, Books
  <2>2. Launched(Step, procs, files, mixed)
    <3>1. ~AfterLaunch(job.todo, 1)
      BY DEF AfterLaunch
    <3> QED
      BY <1>1, <3>1 DEF IInv, LinesOK, UnderWay
  <2>3. /\ \A p \in procs : p.pid = pid => <<p.prog, p.dev>> = Slot
        /\ mixed \/ \A p \in procs : <<p.prog, p.dev>> = Slot => p.pid = pid
    BY <1>1, <2>2 DEF Launched, Owned, FileOf
  <2>4. found = {p \in procs : p.pid = pid}
    BY DEF At
  <2>5. ASSUME NEW p \in procs, p.pid = pid
        PROVE  rec.pid = p.pid /\ rec.born = p.born /\ rec \in [pid : Pids, born : Nat]
    <3>1. p \in found /\ \A q \in found : q = p
      BY <2>1, <2>4, <2>5 DEF ProcsOK
    <3>2. (CHOOSE q \in found : TRUE) = p
      BY <3>1
    <3> HIDE DEF found
    <3>3. rec = [pid |-> pid, born |-> p.born]
      BY <3>1, <3>2
    <3>4. pid \in Pids /\ p.born \in Nat
      BY <2>1, <2>5 DEF ProcsOK
    <3> QED
      BY <2>5, <3>3, <3>4
  <2>6. (\A p \in procs : p.pid # pid) => rec = Unnamed
    BY <2>4
  <2>7. rec \in Records
    BY <2>5, <2>6 DEF Records
  <2> HIDE DEF rec, found
  <2>8. /\ f.pid = pid /\ f.rec = rec /\ f \in [pid : Pids \cup {None}, rec : Records]
        /\ files' = [files EXCEPT ![Slot] = f]
    BY <1>1, <1>5, <2>1, <2>7 DEF FilesOK
  <2> HIDE DEF f, pid
  <2>9. ASSUME NEW p \in procs, Recorded(p, f) PROVE <<p.prog, p.dev>> = Slot
    <3>1. rec.pid = p.pid /\ p.pid \in Pids
      BY <2>1, <2>8, <2>9 DEF Recorded, IsRecorded, ProcsOK
    <3>2. \E q \in procs : q.pid = pid
      BY <2>6, <3>1, NamesAssumption DEF Unnamed
    <3>3. p.pid = pid
      BY <2>5, <3>1, <3>2
    <3> QED
      BY <2>3, <3>3
  <2>10. ASSUME ~mixed, NEW p \in procs, <<p.prog, p.dev>> = Slot PROVE Findable(p, f)
    <3>1. p.pid = pid
      BY <2>3, <2>10
    <3>2. rec.pid = p.pid /\ rec.born = p.born /\ rec # None
      BY <2>5, <3>1, NamesAssumption
    <3> QED
      BY <2>8, <3>2 DEF Findable, Recorded, IsRecorded
  <2>11. Books(procs, files', mixed)
    BY <1>1, <2>8, <2>9, <2>10, FileBooks DEF IInv
  <2>12. LinesOK(Rest, procs, files', mixed)
    BY <1>1, RestLines DEF IInv
  <2> QED
    BY <1>1, <1>2, <1>5, <2>11, <2>12, RestJob DEF IInv
<1> QED
  BY <1>3, <1>4, <1>5

\* A program whose record cannot be written is ended again.
LEMMA RecordFailsStep ==
  ASSUME IInv, RecordFails
  PROVE  IInv'
<1>1. Acts("record") /\ job' = Unrecorded
  BY DEF RecordFails
<1>2. UNCHANGED <<net, procs, files, base, snap, mixed>>
  BY DEF RecordFails, disk, past, progs
<1>3. RestOK'
  BY BoundsAssumption DEF RecordFails, Mishap, RestOK, IInv, disk, progs
<1>4. /\ JobOK(Unrecorded) /\ DiskOK(Unrecorded.kind, base, snap)
      /\ LinesOK(Unrecorded, procs, files, mixed)
  BY <1>1, UnrecordedOK DEF IInv
<1> QED
  BY <1>1, <1>2, <1>3, <1>4 DEF IInv

\* Mishaps are counted, and disturb what may count as an undisturbed stop.
LEMMA MishapRest ==
  ASSUME RestOK, Mishap, UNCHANGED <<now, iwd, pending, applied, status>>
  PROVE  RestOK'
BY BoundsAssumption DEF Mishap, RestOK

\* A program that ends may take its pid file along, which named no other program.
LEMMA ProgramEndsStep ==
  ASSUME IInv, ProgramEnds
  PROVE  IInv'
<1>1. UNCHANGED <<net, now, iwd, pending, applied, status, base, snap, job, mixed>> /\ Mishap
  BY DEF ProgramEnds, disk, past
<1>2. RestOK'
  BY <1>1, MishapRest DEF IInv
<1>3. PICK p \in procs, tidy \in BOOLEAN :
        /\ p.prog # "other"
        /\ procs' = procs \ {p}
        /\ files' = [s \in Slots |-> IF tidy /\ s = <<p.prog, p.dev>> /\ files[s].pid = p.pid
                                      THEN [files[s] EXCEPT !.pid = None] ELSE files[s]]
  BY DEF ProgramEnds
<1>4. /\ FilesOK(files) /\ ProcsOK(procs) /\ RecordsOK(procs, files)
      /\ mixed \/ (Known(procs, files) /\ Single(procs))
  BY DEF IInv, Books
<1>5. Books(procs', files, mixed) /\ \A s : Owned(s, procs') \subseteq Owned(s, procs)
  BY <1>3, FewerBooks DEF IInv
<1>6. /\ FilesOK(files')
      /\ \A s \in Slots : files'[s].rec = files[s].rec
      /\ \A s \in Slots : files'[s].pid = files[s].pid \/ (s = <<p.prog, p.dev>> /\ files'[s].pid = None)
  BY <1>3, <1>4 DEF FilesOK
<1>7. ASSUME ~mixed, NEW q \in procs' PROVE <<q.prog, q.dev>> # <<p.prog, p.dev>>
  BY <1>3, <1>4, <1>7 DEF Single
<1>8. Books(procs', files', mixed')
  <2>1. RecordsOK(procs', files')
    BY <1>5, <1>6 DEF Books, RecordsOK, Recorded
  <2>2. ASSUME ~mixed, NEW q \in procs', q.prog # "other"
        PROVE  Findable(q, files'[<<q.prog, q.dev>>])
    <3>1. <<q.prog, q.dev>> \in Slots /\ <<q.prog, q.dev>> # <<p.prog, p.dev>>
      BY <1>3, <1>4, <1>7, <2>2 DEF ProcsOK, Slots
    <3>2. files'[<<q.prog, q.dev>>] = files[<<q.prog, q.dev>>]
      BY <1>3, <3>1
    <3> QED
      BY <1>5, <2>2, <3>2 DEF Books, Known
  <2> QED
    BY <1>1, <1>5, <1>6, <2>1, <2>2 DEF Books, Known
<1>9. UnderWay(job.todo, procs', files', mixed)
  <2> DEFINE l == job.todo
  <2>1. UnderWay(l, procs, files, mixed) /\ LineOK(l)
    BY DEF IInv, LinesOK
  <2> HIDE DEF l
  <2>2. ASSUME NEW i \in 1..Len(l), l[i].act = "record", Launched(l[i], procs, files, mixed)
        PROVE  Launched(l[i], procs', files', mixed)
    <3>1. <<l[i].prog, l[i].dev>> \in Slots
      BY <2>1, <2>2 DEF LineOK, StepOK, Slots
    <3>2. FileOf(l[i], files').pid \in {FileOf(l[i], files).pid, None}
      BY <1>6, <3>1 DEF FileOf
    <3>3. \A q \in procs' : q \in procs /\ q.pid # None
      BY <1>3, <1>4, NamesAssumption DEF ProcsOK
    <3>4. \A q \in procs' : q.pid = FileOf(l[i], files').pid => q \in Owned(l[i], procs')
      BY <2>2, <3>2, <3>3 DEF Launched, Owned
    <3>5. ASSUME ~mixed, NEW q \in Owned(l[i], procs') PROVE q.pid = FileOf(l[i], files').pid
      <4>1. q \in procs' /\ q \in Owned(l[i], procs) /\ <<l[i].prog, l[i].dev>> = <<q.prog, q.dev>>
        BY <1>5, <3>5 DEF Owned
      <4>2. FileOf(l[i], files') = FileOf(l[i], files)
        BY <1>3, <1>7, <3>1, <3>5, <4>1 DEF FileOf
      <4> QED
        BY <2>2, <3>5, <4>1, <4>2 DEF Launched
    <3> QED
      BY <3>4, <3>5 DEF Launched
  <2>3. UnderWay(l, procs', files', mixed)
    BY <1>5, <2>1, <2>2 DEF UnderWay
  <2> QED
    BY <2>3 DEF l
<1>10. LinesOK(job', procs', files', mixed')
  BY <1>1, <1>9 DEF IInv, LinesOK
<1> QED
  BY <1>1, <1>2, <1>8, <1>10 DEF IInv

\* A stranger is nobody's program.
LEMMA StrangerStep ==
  ASSUME IInv, StrangerComes
  PROVE  IInv'
<1>1. UNCHANGED <<net, RestOK, base, snap, job, files, mixed>>
  BY DEF StrangerComes, disk, past, RestOK
<1>2. PICK pid : /\ pid # None /\ At(pid) = {} /\ \E s \in Slots : pid = files[s].pid \/ (files[s].rec # None /\ pid = files[s].rec.pid)
                 /\ procs' = procs \cup {[pid |-> pid, born |-> Fresh(pid), prog |-> "other", dev |-> None]}
  BY DEF StrangerComes
<1> DEFINE new == [pid |-> pid, born |-> Fresh(pid), prog |-> "other", dev |-> None]
<1>3. FilesOK(files) /\ ProcsOK(procs) /\ (mixed \/ (Known(procs, files) /\ Single(procs)))
  BY DEF IInv, Books
<1>4. pid \in Pids
  <2>1. \A s \in Slots : /\ files[s].pid \in Pids \cup {None}
                         /\ files[s].rec \in {None, Unnamed} \cup [pid : Pids, born : Nat]
    BY <1>3 DEF FilesOK, Records
  <2>2. \A s \in Slots : files[s].rec # None => files[s].rec.pid \in Pids \cup {None}
    BY <2>1 DEF Unnamed
  <2> QED
    BY <1>2, <2>1, <2>2
<1>5. new.prog = "other" /\ procs' = procs \cup {new} /\ new.pid = pid
  BY <1>2
<1>6. ProcsOK(procs') /\ RecordsOK(procs', files)
  BY <1>2, <1>4, ArrivalBooks DEF IInv
<1> HIDE DEF new
<1>7. Known(procs, files) /\ Single(procs) => Known(procs', files) /\ Single(procs')
  BY <1>5 DEF Known, Single
<1>8. Books(procs', files', mixed')
  BY <1>1, <1>3, <1>6, <1>7 DEF Books
<1>9. \A s : s.prog \in Programs => Owned(s, procs') = Owned(s, procs)
  BY <1>5 DEF Owned, Programs
<1>10. UnderWay(job.todo, procs', files', mixed)
  <2> DEFINE l == job.todo
  <2>1. UnderWay(l, procs, files, mixed) /\ LineOK(l)
    BY DEF IInv, LinesOK
  <2>2. ASSUME NEW i \in 1..Len(l), l[i].act = "record" PROVE i # 1
    <3>1. l # <<>> /\ Step = l[1]
      <4>1. l # <<>>
        BY <2>2, EmptySeq
      <4> QED
        BY <4>1, StepFacts DEF IInv
    <3>2. Step.act # "record"
      BY <3>1 DEF StrangerComes, Acts
    <3> QED
      BY <2>2, <3>1, <3>2
  <2> HIDE DEF l
  <2>3. \A i \in 1..Len(l) : l[i].act \in {"forget", "launch"} => Owned(l[i], procs') = Owned(l[i], procs)
    BY <1>9, <2>1 DEF LineOK, StepOK
  <2>4. UnderWay(l, procs', files', mixed)
    BY <2>1, <2>2, <2>3 DEF UnderWay
  <2> QED
    BY <2>4 DEF l
<1>11. LinesOK(job', procs', files', mixed')
  BY <1>1, <1>10 DEF IInv, LinesOK
<1> QED
  BY <1>1, <1>8, <1>11 DEF IInv

-----------------------------------------------------------------------------
(* Other steps *)

\* A step that concerns no program is done.
LEMMA QuietRest ==
  ASSUME IInv, job.todo # <<>>, Step.act \notin {"launch", "halt"}
  PROVE  /\ JobOK(Rest) /\ DiskOK(Rest.kind, base, snap) /\ LinesOK(Rest, procs, files, mixed)
<1>1. LinesOK(Rest, procs, files, mixed)
  BY RestLines DEF IInv
<1> QED
  BY <1>1, RestJob DEF IInv

\* A command changes the machine only.
LEMMA RunIPStep ==
  ASSUME IInv, RunIP
  PROVE  IInv'
<1>1. job.todo # <<>> /\ Step.act = "ip" /\ StepOK(Step)
  BY StepFacts DEF IInv, RunIP, Acts
<1>2. Step.cmd.op \in Ops /\ (Step.cmd.op = "newlink" => Step.cmd.dev \in Links)
  BY <1>1 DEF StepOK
<1>3. UNCHANGED <<RestOK, procs, files, base, snap, mixed>>
  BY DEF RunIP, disk, past, progs, RestOK
<1> DEFINE error == ErrorOf(net, Step.cmd)
<1>4. \/ error = "none" /\ net' = Effect(net, Step.cmd, now) /\ job' = Rest
      \/ error # "none" /\ job' = Failed(error) /\ net' = net
  BY DEF RunIP
<1>5. CASE error = "none" /\ net' = Effect(net, Step.cmd, now) /\ job' = Rest
  <2>1. NetOK(net')
    BY <1>2, <1>5, EffectOK DEF IInv
  <2> QED
    BY <1>1, <1>3, <1>5, <2>1, QuietRest DEF IInv
<1>6. CASE error # "none" /\ job' = Failed(error) /\ net' = net
  <2> HIDE DEF error
  <2>1. /\ JobOK(Failed(error)) /\ DiskOK(Failed(error).kind, base, snap)
        /\ LinesOK(Failed(error), procs, files, mixed)
    BY <1>1, FailedOK DEF IInv
  <2> QED
    BY <1>3, <1>6, <2>1 DEF IInv
<1> QED
  BY <1>4, <1>5, <1>6

\* A step that fails changes nothing but the job.
LEMMA StepFailsStep ==
  ASSUME IInv, StepFails
  PROVE  IInv'
<1>1. job.todo # <<>> /\ job' = Failed("fault")
  BY DEF StepFails, MayFail
<1>2. UNCHANGED <<net, now, procs, files, iwd, base, snap, pending, applied, status, mixed>> /\ Mishap
  BY DEF StepFails, disk, past, progs
<1>3. RestOK'
  BY <1>2, MishapRest DEF IInv
<1>4. /\ JobOK(Failed("fault")) /\ DiskOK(Failed("fault").kind, base, snap)
      /\ LinesOK(Failed("fault"), procs, files, mixed)
  BY <1>1, FailedOK DEF IInv
<1> QED
  BY <1>1, <1>2, <1>3, <1>4 DEF IInv

\* The apply ends after a program that could not be recorded.
LEMMA GiveUpStep ==
  ASSUME IInv, GiveUp
  PROVE  IInv'
<1>1. job.todo # <<>> /\ job' = Failed("refused")
  BY DEF GiveUp, Acts
<1>2. UNCHANGED <<net, RestOK, procs, files, base, snap, mixed>>
  BY DEF GiveUp, disk, past, progs, RestOK
<1>3. /\ JobOK(Failed("refused")) /\ DiskOK(Failed("refused").kind, base, snap)
      /\ LinesOK(Failed("refused"), procs, files, mixed)
  BY <1>1, FailedOK DEF IInv
<1> QED
  BY <1>1, <1>2, <1>3 DEF IInv

\* The profile that is put back was the user's, or nic's own.
LEMMA PutBackRest ==
  ASSUME NEW dev \in Links, iwd.kept[dev] # None, PutBack(dev), ProfilesOK(iwd)
  PROVE  ProfilesOK(iwd')
<1>1. iwd.kept[dev] \in {"user", "nic"} /\ [iwd.kept EXCEPT ![dev] = None] \in [Links -> {None, "user", "nic"}]
  BY DEF ProfilesOK
<1>2. iwd' = [profile |-> iwd.kept[dev], kept |-> [iwd.kept EXCEPT ![dev] = None], held |-> iwd.held]
  BY DEF PutBack, ProfilesOK
<1> QED
  BY <1>1, <1>2 DEF ProfilesOK

\* A copy that is given up leaves what there is.
LEMMA ReleaseRest ==
  ASSUME NEW profile \in {"user", "nic"}, Release(profile), ProfilesOK(iwd)
  PROVE  ProfilesOK(iwd')
<1>1. iwd' = [profile |-> profile, kept |-> iwd.kept, held |-> None]
  BY DEF Release, ProfilesOK
<1> QED
  BY <1>1 DEF ProfilesOK

\* iwd fails, and the profile is put back.
LEMMA IWDFailsStep ==
  ASSUME IInv, IWDFails
  PROVE  IInv'
<1>1. /\ job.todo # <<>> /\ Step.act \in {"connect", "leave"} /\ job' = Failed("fault")
      /\ iwd.kept[Step.dev] # None /\ PutBack(Step.dev) /\ Mishap
      /\ Step.dev \in Links
  BY StepFacts DEF IInv, IWDFails, Acts
<1>2. UNCHANGED <<net, now, procs, files, base, snap, pending, applied, status, mixed>>
  BY DEF IWDFails, disk, past
<1>3. ProfilesOK(iwd')
  BY <1>1, PutBackRest DEF IInv, RestOK
<1>4. RestOK'
  BY <1>1, <1>2, <1>3, BoundsAssumption DEF IInv, RestOK, Mishap
<1>5. /\ JobOK(Failed("fault")) /\ DiskOK(Failed("fault").kind, base, snap)
      /\ LinesOK(Failed("fault"), procs, files, mixed)
  BY <1>1, FailedOK DEF IInv
<1> QED
  BY <1>1, <1>2, <1>4, <1>5 DEF IInv

\* nic's profile is installed, and the one before held,
LEMMA InstallStep ==
  ASSUME IInv, Install
  PROVE  IInv'
<1>1. UNCHANGED <<net, now, procs, files, base, snap, job, pending, applied, status, mishaps, calm, mixed>>
  BY DEF Install, disk, past
<1>2. ProfilesOK(iwd)
  BY DEF IInv, RestOK
<1>3. iwd' = [profile |-> "nic", kept |-> iwd.kept, held |-> iwd.profile]
  BY <1>2 DEF Install, ProfilesOK
<1>4. ProfilesOK(iwd')
  BY <1>2, <1>3 DEF ProfilesOK
<1>5. RestOK'
  BY <1>1, <1>4 DEF IInv, RestOK
<1> QED
  BY <1>1, <1>5 DEF IInv

\* and then kept.
LEMMA KeepStep ==
  ASSUME IInv, Keep
  PROVE  IInv'
<1>1. job.todo # <<>> /\ Step.act = "install" /\ job' = Rest /\ Step.dev \in Links
  BY StepFacts DEF IInv, Keep, Acts
<1>2. UNCHANGED <<net, now, procs, files, base, snap, pending, applied, status, mishaps, calm, mixed>>
  BY DEF Keep, disk, past
<1>3. ProfilesOK(iwd)
  BY DEF IInv, RestOK
<1>4. iwd' = [profile |-> iwd.profile, kept |-> [iwd.kept EXCEPT ![Step.dev] = iwd.held], held |-> None]
  BY <1>3 DEF Keep, ProfilesOK
<1>5. [iwd.kept EXCEPT ![Step.dev] = iwd.held] \in [Links -> {None, "user", "nic"}]
  BY <1>1, <1>3 DEF ProfilesOK
<1>6. ProfilesOK(iwd')
  BY <1>3, <1>4, <1>5 DEF ProfilesOK
<1>7. RestOK'
  BY <1>2, <1>6 DEF IInv, RestOK
<1> QED
  BY <1>1, <1>2, <1>7, QuietRest DEF IInv

\* The record cannot be written, and the copy is given up.
LEMMA KeepFailsStep ==
  ASSUME IInv, KeepFails
  PROVE  IInv'
<1>1. job.todo # <<>> /\ job' = Failed("fault") /\ Mishap /\ iwd.held # None
  BY DEF KeepFails, Acts
<1>2. UNCHANGED <<net, now, procs, files, base, snap, pending, applied, status, mixed>>
  BY DEF KeepFails, disk
<1>3. ProfilesOK(iwd)
  BY DEF IInv, RestOK
<1>4. PICK profile \in {iwd.profile, iwd.held} : Release(profile)
  BY DEF KeepFails
<1>5. ProfilesOK(iwd')
  <2>1. profile \in {"user", "nic"}
    BY <1>1, <1>3, <1>4 DEF ProfilesOK
  <2> QED
    BY <1>3, <1>4, <2>1, ReleaseRest
<1>6. RestOK'
  BY <1>1, <1>2, <1>5, BoundsAssumption DEF IInv, RestOK, Mishap
<1>7. /\ JobOK(Failed("fault")) /\ DiskOK(Failed("fault").kind, base, snap)
      /\ LinesOK(Failed("fault"), procs, files, mixed)
  BY <1>1, FailedOK DEF IInv
<1> QED
  BY <1>1, <1>2, <1>6, <1>7 DEF IInv

\* The kept profile is put back.
LEMMA LeaveStep ==
  ASSUME IInv, Leave
  PROVE  IInv'
<1>1. job.todo # <<>> /\ Step.act = "leave" /\ job' = Rest /\ Step.dev \in Links
  BY StepFacts DEF IInv, Leave, Acts
<1>2. UNCHANGED <<net, now, procs, files, base, snap, pending, applied, status, mishaps, calm, mixed>>
  BY DEF Leave, disk, past
<1>3. ProfilesOK(iwd')
  <2>1. CASE iwd.kept[Step.dev] = None
    BY <2>1 DEF Leave, IInv, RestOK
  <2>2. CASE iwd.kept[Step.dev] # None
    BY <1>1, <2>2, PutBackRest DEF Leave, IInv, RestOK
  <2> QED
    BY <2>1, <2>2
<1>4. RestOK'
  BY <1>2, <1>3 DEF IInv, RestOK
<1> QED
  BY <1>1, <1>2, <1>4, QuietRest DEF IInv

\* iwd connects.
LEMMA StationStep ==
  ASSUME IInv, Station
  PROVE  IInv'
<1>1. job.todo # <<>> /\ Step.act = "connect" /\ job' = Rest
  BY DEF Station, Acts
<1>2. UNCHANGED <<net, RestOK, procs, files, base, snap, mixed>>
  BY DEF Station, disk, past, progs, RestOK
<1> QED
  BY <1>1, <1>2, QuietRest DEF IInv

\* The next line is begun in order.
LEMMA NextLineStep ==
  ASSUME IInv, NextLine
  PROVE  IInv'
<1>1. UNCHANGED <<net, RestOK, procs, files, base, snap, mixed>>
  BY DEF NextLine, disk, past, progs, RestOK
<1> DEFINE ls == job.lines
           head == Head(ls)
           rest == Tail(ls)
<1>2. job' = [job EXCEPT !.todo = head, !.lines = rest] /\ ls # <<>> /\ Lines(ls)
  BY DEF NextLine, IInv, LinesOK
<1> HIDE DEF ls
<1>3. /\ Len(ls) \in Nat \ {0} /\ head = ls[1] /\ IsSeq(rest) /\ Len(rest) = Len(ls) - 1
      /\ \A i \in 1..Len(rest) : rest[i] = ls[i + 1]
  BY <1>2, TailSeq DEF Lines
<1> HIDE DEF head, rest
<1>4. LineOK(head) /\ Ordered(head)
  BY <1>2, <1>3 DEF Lines
<1>5. \A i \in 1..Len(rest) : i + 1 \in 1..Len(ls)
  BY <1>3
<1>6. Lines(rest)
  BY <1>2, <1>3, <1>5 DEF Lines
<1>7. JobOK(job') /\ job'.kind = job.kind /\ job'.lines = rest /\ job'.todo = head
  BY <1>2 DEF IInv, JobOK
<1>8. LinesOK(job', procs, files, mixed)
  BY <1>4, <1>6, <1>7, NewUnderWay DEF LinesOK
<1> QED
  BY <1>1, <1>7, <1>8 DEF IInv

\* Time passes, and addresses expire.
LEMMA TickStep ==
  ASSUME IInv, Tick
  PROVE  IInv'
<1>1. /\ UNCHANGED <<procs, files, iwd, base, snap, job, pending, applied, status, mishaps, calm, mixed>>
      /\ now' = now + 1 /\ net' = Expire(net, now + 1) /\ now < MaxTime
  BY DEF Tick, disk, past, progs
<1>2. NetOK(net')
  BY <1>1, ExpireOK DEF IInv
<1>3. RestOK'
  BY <1>1, BoundsAssumption DEF IInv, RestOK
<1> QED
  BY <1>1, <1>2, <1>3 DEF IInv

-----------------------------------------------------------------------------
(* Phases *)

\* No operation is under way.
LEMMA IdleOK ==
  ASSUME NEW P, NEW F, NEW m
  PROVE  JobOK(Idle) /\ LinesOK(Idle, P, F, m) /\ Idle.kind = "idle"
<1>1. Plan(<<>>, "idle")
  BY EmptyOK
<1> QED
  BY <1>1, NothingUnderWay DEF JobOK, LinesOK, Idle

\* The phase whose turn it is.
LEMMA TurnFacts ==
  ASSUME IInv, NEW do, Turn(do)
  PROVE  /\ PhaseOK(Head(job.plan), job.kind) /\ Head(job.plan).do = do /\ Plan(Tail(job.plan), job.kind)
         /\ job.plan # <<>> /\ job.lines = <<>> /\ job.todo = <<>>
BY PlanTail DEF Turn, IInv, JobOK

\* A job with other lines or another error.
LEMMA JobWith ==
  ASSUME NEW j, JobOK(j), NEW plan, Plan(plan, j.kind), NEW lines, NEW todo, NEW err,
         NEW k, k = [kind |-> j.kind, cfg |-> j.cfg, old |-> j.old, plan |-> plan,
                     lines |-> lines, todo |-> todo, err |-> err]
  PROVE  JobOK(k) /\ k.kind = j.kind /\ k.lines = lines /\ k.todo = todo
BY DEF JobOK

\* The next phase is begun with its lines.
LEMMA OnwardOK ==
  ASSUME IInv, NEW do, Turn(do), NEW ls, Lines(ls), NEW err,
         job' = [job EXCEPT !.plan = Tail(@), !.lines = ls, !.err = err]
  PROVE  JobOK(job') /\ job'.kind = job.kind /\ LinesOK(job', procs, files, mixed)
<1> DEFINE rest == Tail(job.plan)
<1>1. JobOK(job) /\ Plan(rest, job.kind) /\ LineOK(job.todo) /\ UnderWay(job.todo, procs, files, mixed)
  BY TurnFacts DEF IInv, LinesOK
<1>2. job' = [job EXCEPT !.plan = rest, !.lines = ls, !.err = err]
  OBVIOUS
<1> HIDE DEF rest
<1>3. job' = [kind |-> job.kind, cfg |-> job.cfg, old |-> job.old, plan |-> rest,
              lines |-> ls, todo |-> job.todo, err |-> err]
  BY <1>1, <1>2 DEF JobOK
<1>4. JobOK(job') /\ job'.kind = job.kind /\ job'.lines = ls /\ job'.todo = job.todo
  <2> DEFINE k == [kind |-> job.kind, cfg |-> job.cfg, old |-> job.old, plan |-> rest,
                   lines |-> ls, todo |-> job.todo, err |-> err]
  <2>1. k = [kind |-> job.kind, cfg |-> job.cfg, old |-> job.old, plan |-> rest,
             lines |-> ls, todo |-> job.todo, err |-> err]
    OBVIOUS
  <2>2. job' = k
    BY <1>3
  <2> HIDE DEF k
  <2>3. JobOK(k) /\ k.kind = job.kind /\ k.lines = ls /\ k.todo = job.todo
    BY <1>1, <2>1, JobWith
  <2> QED
    BY <2>2, <2>3
<1> QED
  BY <1>1, <1>4 DEF LinesOK

\* Its lines have not been begun.
LEMMA OnwardLines ==
  ASSUME IInv, NEW do, Turn(do), NEW ls, Lines(ls), Onward(ls)
  PROVE  JobOK(job') /\ job'.kind = job.kind /\ LinesOK(job', procs, files, mixed)
<1>1. job' = [job EXCEPT !.plan = Tail(@), !.lines = ls]
  BY DEF Onward
<1>2. job' = [job EXCEPT !.plan = Tail(@), !.lines = ls, !.err = job.err]
  BY <1>1 DEF IInv, JobOK
<1> QED
  BY <1>2, OnwardOK

\* A teardown begins.
LEMMA BeginTeardownStep ==
  ASSUME IInv, BeginTeardown
  PROVE  IInv'
<1>1. UNCHANGED <<net, RestOK, procs, files, base, snap, mixed>>
  BY DEF BeginTeardown, disk, past, progs, RestOK
<1>2. Turn("teardown") /\ Arg \in Configs
  BY TurnFacts DEF BeginTeardown, PhaseOK, Arg
<1>3. PICK pins \in LookedUp(net, Arg) :
        job' = [job EXCEPT !.plan = Tail(@), !.lines = TeardownSteps(Names(net, Arg, pins), Arg),
                           !.err = @ \/ ~Resolves(net, Arg)]
  BY DEF BeginTeardown
<1> DEFINE ls == TeardownSteps(Names(net, Arg, pins), Arg)
           err == job.err \/ ~Resolves(net, Arg)
<1>4. Lines(ls)
  BY <1>2, TeardownLines
<1>5. job' = [job EXCEPT !.plan = Tail(@), !.lines = ls, !.err = err]
  BY <1>3 DEF IInv, JobOK
<1> HIDE DEF ls, err
<1>6. JobOK(job') /\ job'.kind = job.kind /\ LinesOK(job', procs, files, mixed)
  BY <1>2, <1>4, <1>5, OnwardOK
<1> QED
  BY <1>1, <1>6 DEF IInv

\* A stage of a restoration begins.
LEMMA BeginStageStep ==
  ASSUME IInv, BeginStage
  PROVE  IInv'
<1>1. UNCHANGED <<net, RestOK, procs, files, base, snap, mixed>>
  BY DEF BeginStage, disk, past, progs, RestOK
<1>2. PICK s \in Range(Stages) : Turn(s) /\ Onward(RestoreSteps(s, Arg, net, now))
  BY DEF BeginStage
<1>3. SnapOK(Arg)
  BY <1>2, TurnFacts DEF PhaseOK, Arg
<1>4. Lines(RestoreSteps(s, Arg, net, now))
  BY <1>3, RestoreLines DEF IInv, NetOK
<1>5. JobOK(job') /\ job'.kind = job.kind /\ LinesOK(job', procs, files, mixed)
  BY <1>2, <1>4, OnwardLines
<1> QED
  BY <1>1, <1>5 DEF IInv

\* An apply begins, or is refused.
LEMMA BeginApplyStep ==
  ASSUME IInv, BeginApply
  PROVE  IInv'
<1>1. UNCHANGED <<net, RestOK, procs, files, base, snap, mixed>>
  BY DEF BeginApply, disk, past, progs, RestOK
<1>2. Turn("apply") /\ Arg \in Configs
  BY TurnFacts DEF BeginApply, PhaseOK, Arg
<1> DEFINE j == [job EXCEPT !.plan = Tail(@)]
           ls == ApplySteps(Arg)
<1>3. \/ job' = [j EXCEPT !.lines = ls] /\ ValidConfig(Arg) /\ Resolves(net, Arg)
      \/ job' = Abort(j)
  BY DEF BeginApply
<1>4. CASE job' = [j EXCEPT !.lines = ls] /\ ValidConfig(Arg) /\ Resolves(net, Arg)
  <2>1. Lines(ls)
    BY <1>2, <1>4, ApplyLines DEF IInv, NetOK
  <2> HIDE DEF ls
  <2>2. job' = [job EXCEPT !.plan = Tail(@), !.lines = ls]
    BY <1>4 DEF IInv, JobOK
  <2>3. JobOK(job') /\ job'.kind = job.kind /\ LinesOK(job', procs, files, mixed)
    BY <1>2, <2>1, <2>2, OnwardLines DEF Onward
  <2> QED
    BY <1>1, <2>3 DEF IInv
<1>5. CASE job' = Abort(j)
  <2> DEFINE rest == Tail(job.plan)
  <2>1. Plan(rest, job.kind)
    BY <1>2, TurnFacts
  <2>2. j = [job EXCEPT !.plan = rest]
    OBVIOUS
  <2> HIDE DEF rest, j
  <2>3. j = [kind |-> job.kind, cfg |-> job.cfg, old |-> job.old, plan |-> rest,
             lines |-> job.lines, todo |-> job.todo, err |-> job.err]
    BY <2>2 DEF IInv, JobOK
  <2>4. JobOK(j) /\ j.kind = job.kind
    BY <2>1, <2>3 DEF IInv, JobOK
  <2>5. /\ JobOK(Abort(j)) /\ Abort(j).lines = <<>> /\ Abort(j).todo = <<>>
        /\ DiskOK(Abort(j).kind, base, snap)
    BY <2>4, AbortOK DEF IInv
  <2> QED
    BY <1>1, <1>5, <2>5, AbortLines DEF IInv
<1> QED
  BY <1>3, <1>4, <1>5

\* An operation ends and reports.
LEMMA FinishOK ==
  ASSUME IInv, NEW report, Finish(report), UNCHANGED <<net, procs, files, mixed>>,
         RestOK', DiskOK("idle", base', snap')
  PROVE  IInv'
<1>1. job' = Idle
  BY DEF Finish
<1>2. JobOK(Idle) /\ LinesOK(Idle, procs, files, mixed) /\ Idle.kind = "idle"
  BY IdleOK
<1> QED
  BY <1>1, <1>2 DEF IInv

\* The configuration is noted as pending, unless the baseline could not be restored.
LEMMA IntendStep ==
  ASSUME IInv, Intend
  PROVE  IInv'
<1>1. UNCHANGED <<net, now, procs, files, iwd, base, applied, mishaps, calm, mixed>>
  BY DEF Intend, past, progs
<1>2. Turn("intend") /\ Arg \in Configs
  BY TurnFacts DEF Intend, PhaseOK, Arg
<1>3. CASE job.err
  <2>1. Finish("refused") /\ snap' = None /\ pending' = pending
    BY <1>3 DEF Intend
  <2>2. RestOK'
    BY <1>1, <2>1 DEF IInv, RestOK, Finish
  <2>3. DiskOK("idle", base', snap')
    BY <1>1, <2>1 DEF IInv, DiskOK
  <2> QED
    BY <1>1, <2>1, <2>2, <2>3, FinishOK
<1>4. CASE ~job.err
  <2>1. Onward(<<>>) /\ pending' = Arg /\ status' = status /\ snap' = snap
    BY <1>4 DEF Intend
  <2>2. JobOK(job') /\ job'.kind = job.kind /\ LinesOK(job', procs, files, mixed)
    BY <1>2, <2>1, OnwardLines, EmptyOK
  <2>3. RestOK'
    BY <1>1, <1>2, <2>1 DEF IInv, RestOK
  <2> QED
    BY <1>1, <2>1, <2>2, <2>3 DEF IInv
<1> QED
  BY <1>3, <1>4

\* The configuration is the applied one.
LEMMA CommitStep ==
  ASSUME IInv, Commit
  PROVE  IInv'
<1>1. /\ UNCHANGED <<net, now, procs, files, iwd, base, snap, mishaps, calm, mixed>>
      /\ Finish("applied") /\ applied' = Arg /\ pending' = None
  BY DEF Commit, past, progs
<1>2. Turn("commit") /\ Arg \in Configs
  BY TurnFacts DEF Commit, PhaseOK, Arg
<1>3. RestOK'
  BY <1>1, <1>2 DEF IInv, RestOK, Finish
<1>4. DiskOK("idle", base', snap')
  BY <1>1 DEF IInv, DiskOK
<1> QED
  BY <1>1, <1>3, <1>4, FinishOK

\* A failed apply has been rolled back.
LEMMA UndoneStep ==
  ASSUME IInv, Undone
  PROVE  IInv'
<1>1. /\ UNCHANGED <<net, now, procs, files, iwd, base, applied, mishaps, calm, mixed>>
      /\ Finish(IF job.err THEN "failed" ELSE "rolledback")
      /\ pending' \in {pending, None} /\ snap' = None
  BY DEF Undone, progs
<1>2. RestOK'
  BY <1>1 DEF IInv, RestOK, Finish
<1>3. DiskOK("idle", base', snap')
  BY <1>1 DEF IInv, DiskOK
<1> QED
  BY <1>1, <1>2, <1>3, FinishOK

\* A stop ends.
LEMMA StoppedStep ==
  ASSUME IInv, Stopped
  PROVE  IInv'
<1>1. /\ UNCHANGED <<net, now, procs, files, iwd, snap, mishaps, mixed>>
      /\ Finish(IF job.err THEN "stopfailed" ELSE "stopped")
      /\ pending' \in {pending, None} /\ applied' \in {applied, None} /\ base' \in {base, None}
      /\ calm' = IF calm < MaxStops THEN calm + 1 ELSE calm
  BY DEF Stopped, progs
<1>2. job.kind = "stop" /\ snap = None
  BY TurnFacts DEF Stopped, PhaseOK, IInv, DiskOK
<1>3. RestOK'
  BY <1>1, BoundsAssumption DEF IInv, RestOK, Finish
<1>4. DiskOK("idle", base', snap')
  BY <1>1, <1>2 DEF IInv, DiskOK
<1> QED
  BY <1>1, <1>3, <1>4, FinishOK

\* The previous configuration is the applied one again.
LEMMA ResumeStep ==
  ASSUME IInv, Resume
  PROVE  IInv'
<1>1. /\ UNCHANGED <<net, now, procs, files, iwd, base, pending, snap, status, mishaps, calm, mixed>>
      /\ Onward(<<>>) /\ applied' = Arg
  BY DEF Resume, past, progs
<1>2. Turn("resume") /\ Arg \in Configs
  BY TurnFacts DEF Resume, PhaseOK, Arg
<1>3. JobOK(job') /\ job'.kind = job.kind /\ LinesOK(job', procs, files, mixed)
  BY <1>1, <1>2, OnwardLines, EmptyOK
<1>4. RestOK'
  BY <1>1, <1>2 DEF IInv, RestOK
<1> QED
  BY <1>1, <1>3, <1>4 DEF IInv

\* A revert ends.
LEMMA RevertedStep ==
  ASSUME IInv, Reverted
  PROVE  IInv'
<1>1. /\ UNCHANGED <<net, now, procs, files, iwd, base, applied, mishaps, calm, mixed>>
      /\ Finish(IF job.err THEN "revertfailed" ELSE "reverted")
      /\ pending' \in {pending, None} /\ snap' = None
  BY DEF Reverted, progs
<1>2. RestOK'
  BY <1>1 DEF IInv, RestOK, Finish
<1>3. DiskOK("idle", base', snap')
  BY <1>1 DEF IInv, DiskOK
<1> QED
  BY <1>1, <1>2, <1>3, FinishOK

\* nic dies with its job.
LEMMA DieStep ==
  ASSUME IInv, Die
  PROVE  IInv'
<1>1. /\ UNCHANGED <<net, now, procs, files, base, pending, applied, mixed>>
      /\ Finish("dead") /\ snap' \in {snap, None} /\ Mishap /\ Release(iwd.profile)
  BY DEF Die
<1>2. RestOK'
  <2>1. ProfilesOK(iwd) /\ iwd.profile \in {"user", "nic"}
    BY DEF IInv, RestOK, ProfilesOK
  <2>2. ProfilesOK(iwd')
    BY <1>1, <2>1, ReleaseRest
  <2> QED
    BY <1>1, <2>2, BoundsAssumption DEF IInv, RestOK, Finish, Mishap
<1>3. DiskOK("idle", base', snap')
  BY <1>1 DEF IInv, DiskOK
<1> QED
  BY <1>1, <1>2, <1>3, FinishOK

-----------------------------------------------------------------------------
(* Operations *)

\* An operation is begun with its plan.
LEMMA BeginOK ==
  ASSUME IInv, NEW kind \in {"start", "stop", "revert"}, NEW cfg, kind = "start" => cfg \in Configs,
         NEW plan, Plan(plan, kind), Begin(kind, cfg, plan)
  PROVE  JobOK(job') /\ job'.kind = kind /\ \A P, F, m : LinesOK(job', P, F, m)
<1>1. job' = [kind |-> kind, cfg |-> cfg, old |-> applied, plan |-> plan, lines |-> <<>>, todo |-> <<>>,
              err |-> FALSE]
  BY DEF Begin, Idle
<1>2. applied \in Configs \cup {None}
  BY DEF IInv, RestOK
<1>3. JobOK(job') /\ job'.kind = kind
  BY <1>1, <1>2 DEF JobOK
<1>4. job'.lines = <<>> /\ job'.todo = <<>>
  BY <1>1
<1> QED
  BY <1>3, <1>4, NothingUnderWay DEF LinesOK

\* The teardowns of the recorded configurations.
LEMMA BackPlan ==
  ASSUME IInv, NEW kind
  PROVE  Plan(Back, kind) /\ Plan(IF base = None THEN <<>> ELSE Restore(base), kind)
<1>1. Plan(Teardown(pending), kind) /\ Plan(Teardown(applied), kind)
  BY TeardownPlan DEF IInv, RestOK
<1>2. Plan(IF base = None THEN <<>> ELSE Restore(base), kind)
  <2>1. CASE base = None
    BY <2>1, EmptyOK
  <2>2. CASE base # None
    BY <2>2, RestorePlan DEF IInv, DiskOK
  <2> QED
    BY <2>1, <2>2
<1> QED
  BY <1>1, <1>2, PlanConcat DEF Back

\* A start begins, with its captures.
LEMMA StartStep ==
  ASSUME IInv, NEW cfg \in Configs, Start(cfg)
  PROVE  IInv'
<1> DEFINE restore == IF base = None THEN <<>> ELSE Restore(base)
           a == Phase("intend", cfg)
           b == Phase("apply", cfg)
           c == Phase("commit", cfg)
           three == <<a, b, c>>
           plan == Back \o restore \o three
<1>1. /\ UNCHANGED <<net, now, procs, files, iwd, pending, applied, status, mishaps, mixed>>
      /\ calm' = 0 /\ Begin("start", cfg, plan)
      /\ base' = (IF base = None THEN Capture(net, now) ELSE base)
      /\ snap' = (IF applied = None THEN None
                  ELSE [state |-> Capture(net, now), cfg |-> applied, net |-> IF Settled THEN net ELSE None])
  BY DEF Start, progs
<1>2. Plan(Back, "start") /\ Plan(restore, "start")
  BY BackPlan
<1>3. PhaseOK(a, "start") /\ PhaseOK(b, "start") /\ PhaseOK(c, "start")
  BY DEF PhaseOK, Phase, Range, Stages
<1> HIDE DEF a, b, c
<1>4. three \in Seq({a, b, c}) /\ Len(three) = 3 /\ three[1] = a /\ three[2] = b /\ three[3] = c
  OBVIOUS
<1> HIDE DEF three, restore
<1>5. IsSeq(three) /\ \A i \in 1..Len(three) : i \in {1, 2, 3}
  BY <1>4, TypedSeq
<1>6. Plan(three, "start")
  BY <1>3, <1>4, <1>5 DEF Plan
<1>7. Plan(plan, "start")
  BY <1>2, <1>6, PlanConcat
<1> HIDE DEF plan
<1>8. JobOK(job') /\ job'.kind = "start" /\ LinesOK(job', procs, files, mixed)
  BY <1>1, <1>7, BeginOK
<1>9. RestOK'
  BY <1>1, BoundsAssumption DEF IInv, RestOK
<1>10. SnapOK(Capture(net, now))
  BY CaptureOK DEF IInv
<1>11. SnapOK(base') /\ (snap' = None \/ (SnapOK(snap'.state) /\ snap'.cfg \in Configs))
  <2>1. SnapOK(base')
    BY <1>1, <1>10 DEF IInv, DiskOK
  <2>2. applied # None => applied \in Configs
    BY DEF IInv, RestOK
  <2> QED
    BY <1>1, <1>10, <2>1, <2>2
<1>12. DiskOK(job'.kind, base', snap')
  BY <1>8, <1>11 DEF DiskOK
<1> QED
  BY <1>1, <1>8, <1>9, <1>12 DEF IInv

\* A stop begins.
LEMMA StopStep ==
  ASSUME IInv, Stop
  PROVE  IInv'
<1> DEFINE restore == IF base = None THEN <<>> ELSE Restore(base)
           stopped == <<Phase("stopped", None)>>
           plan == Back \o restore \o stopped
<1>1. UNCHANGED <<net, RestOK, procs, files, base, snap, mixed>> /\ Begin("stop", None, plan) /\ snap = None
  BY DEF Stop, disk, progs, RestOK
<1>2. Plan(Back, "stop") /\ Plan(restore, "stop")
  BY BackPlan
<1>3. PhaseOK(Phase("stopped", None), "stop")
  BY DEF PhaseOK, Phase, Range, Stages
<1>4. Plan(stopped, "stop")
  BY <1>3, OnePhase
<1> HIDE DEF restore, stopped
<1>5. Plan(plan, "stop")
  BY <1>2, <1>4, PlanConcat
<1> HIDE DEF plan
<1>6. JobOK(job') /\ job'.kind = "stop" /\ LinesOK(job', procs, files, mixed)
  BY <1>1, <1>5, BeginOK
<1>7. DiskOK(job'.kind, base', snap')
  BY <1>1, <1>6 DEF IInv, DiskOK
<1> QED
  BY <1>1, <1>6, <1>7 DEF IInv

\* A revert begins.
LEMMA RevertStep ==
  ASSUME IInv, Revert
  PROVE  IInv'
<1> DEFINE a == Phase("apply", snap.cfg)
           b == Phase("resume", snap.cfg)
           two == <<a, b>>
           reverted == <<Phase("reverted", None)>>
           plan == Back \o Restore(base) \o two \o Restore(snap.state) \o reverted
<1>1. /\ UNCHANGED <<net, RestOK, procs, files, base, snap, mixed>> /\ Begin("revert", snap.cfg, plan)
      /\ snap # None
  BY DEF Revert, disk, progs, RestOK
<1>2. SnapOK(base) /\ SnapOK(snap.state) /\ snap.cfg \in Configs
  BY <1>1 DEF IInv, DiskOK
<1>3. Plan(Back, "revert") /\ Plan(Restore(base), "revert") /\ Plan(Restore(snap.state), "revert")
  BY <1>2, BackPlan, RestorePlan
<1>4. PhaseOK(a, "revert") /\ PhaseOK(b, "revert") /\ PhaseOK(Phase("reverted", None), "revert")
  BY <1>2 DEF PhaseOK, Phase, Range, Stages
<1>5. Plan(reverted, "revert")
  BY <1>4, OnePhase
<1> HIDE DEF a, b, reverted
<1>6. two \in Seq({a, b}) /\ Len(two) = 2 /\ two[1] = a /\ two[2] = b
  OBVIOUS
<1> HIDE DEF two
<1>7. IsSeq(two) /\ \A i \in 1..Len(two) : i \in {1, 2}
  BY <1>6, TypedSeq
<1>8. Plan(two, "revert")
  BY <1>4, <1>6, <1>7 DEF Plan
<1>9. Plan(plan, "revert")
  BY <1>3, <1>5, <1>8, PlanConcat
<1> HIDE DEF plan
<1>10. JobOK(job') /\ job'.kind = "revert" /\ LinesOK(job', procs, files, mixed)
  BY <1>1, <1>9, BeginOK
<1>11. DiskOK(job'.kind, base', snap')
  BY <1>1, <1>2, <1>10 DEF IInv, DiskOK
<1> QED
  BY <1>1, <1>10, <1>11 DEF IInv

\* A confirmation drops the snapshot.
LEMMA ConfirmStep ==
  ASSUME IInv, Confirm
  PROVE  IInv'
<1>1. UNCHANGED <<net, RestOK, procs, files, base, job, mixed>> /\ snap' = None
  BY DEF Confirm, past, progs, RestOK
<1>2. DiskOK(job'.kind, base', snap')
  BY <1>1 DEF IInv, DiskOK
<1> QED
  BY <1>1, <1>2 DEF IInv

-----------------------------------------------------------------------------
(* Theorems *)

\* Before the first operation all is in order,
LEMMA InitOK ==
  ASSUME Init
  PROVE  IInv
<1>1. NetOK(net)
  BY MachinesAssumption DEF Init, NetOK
<1>2. RestOK
  BY BoundsAssumption DEF Init, RestOK, ProfilesOK
<1>3. FilesOK(files) /\ ProcsOK(procs) /\ RecordsOK(procs, files) /\ Known(procs, files) /\ Single(procs)
  BY DEF Init, FilesOK, ProcsOK, RecordsOK, Known, Single, NoFiles, Records
<1>4. job = Idle /\ base = None /\ snap = None
  BY DEF Init
<1>5. JobOK(job) /\ LinesOK(job, procs, files, mixed) /\ job.kind = "idle"
  BY <1>4, IdleOK
<1>6. DiskOK(job.kind, base, snap)
  BY <1>4, <1>5 DEF DiskOK
<1> QED
  BY <1>1, <1>2, <1>3, <1>5, <1>6 DEF IInv, Books

\* and every step leaves it so.
LEMMA NextOK ==
  ASSUME IInv, [Next]_vars
  PROVE  IInv'
<1>1. CASE \E cfg \in Configs : Start(cfg)
  BY <1>1, StartStep
<1>2. CASE Stop \/ Confirm \/ Revert
  BY <1>2, StopStep, ConfirmStep, RevertStep
<1>3. CASE Phases
  BY <1>3, BeginTeardownStep, BeginStageStep, IntendStep, BeginApplyStep, CommitStep, UndoneStep,
     StoppedStep, ResumeStep, RevertedStep DEF Phases
<1>4. CASE Steps
  BY <1>4, NextLineStep, RunIPStep, HaltStep, ForgetStep, LaunchStep, RecordStep, GiveUpStep, InstallStep,
     KeepStep, LeaveStep, StationStep DEF Steps
<1>5. CASE Mishaps
  BY <1>5, StepFailsStep, RecordFailsStep, KeepFailsStep, IWDFailsStep, DieStep, ProgramEndsStep DEF Mishaps
<1>6. CASE StrangerComes \/ Tick
  BY <1>6, StrangerStep, TickStep
<1>7. CASE UNCHANGED vars
  <2>1. UNCHANGED <<net, RestOK, procs, files, base, snap, job, mixed>>
    BY <1>7 DEF vars, RestOK
  <2> QED
    BY <2>1 DEF IInv
<1> QED
  BY <1>1, <1>2, <1>3, <1>4, <1>5, <1>6, <1>7 DEF Next

\* The books that nic keeps of its programs, its files and its plan are in order whatever crashes,
\* fails or ends by itself (main.go 288-684, control.go 50-135, external.go).
THEOREM ApplyInOrder == Spec => []IInv
<1>1. Init => IInv
  BY InitOK
<1>2. IInv /\ [Next]_vars => IInv'
  BY NextOK
<1> QED
  BY <1>1, <1>2, PTL DEF Spec

\* The variables have their types: the machine is one that ip(8) can show, the files are nic's.
THEOREM ApplyTypes == Spec => []TypeOK
<1>1. IInv => TypeOK
  BY DEF IInv, NetOK, RestOK, ProfilesOK, Books, FilesOK, ProcsOK, TypeOK
<1> QED
  BY <1>1, ApplyInOrder, PTL

\* Two clients never run on one interface (wifi.go:232-234, control.go:106-108).
THEOREM ApplyOneClient == Spec => []OneClient
<1>1. IInv => OneClient
  BY DEF IInv, Books, Single, OneClient
<1> QED
  BY <1>1, ApplyInOrder, PTL

\* No process that nic did not start is ended, also when it has a recorded pid (control.go:90-92).
THEOREM ApplyNoStranger == Spec => NoStranger
<1>1. ASSUME IInv, [Next]_vars, NEW p \in procs, p.prog = "other"
      PROVE  p \in procs'
  <2>1. CASE Halt
    <3>1. job.todo # <<>> /\ Step.act = "halt" /\ LinesOK(job, procs, files, mixed)
      BY <1>1, <2>1 DEF IInv, Halt, Acts
    <3>2. Slot \in Slots /\ Slot[1] \in Programs
      BY <3>1, StepFacts DEF Slots
    <3>3. \A q \in ToSignal(Slot) : <<q.prog, q.dev>> = Slot \/ q.prog = Slot[1]
      BY <1>1, <3>2, ToSignalOK DEF IInv, Books
    <3>4. \A q \in ToSignal(Slot) : q.prog \in Programs
      BY <3>2, <3>3
    <3>5. procs' \in {procs, procs \ ToSignal(Slot)}
      BY <2>1 DEF Halt
    <3> QED
      BY <1>1, <3>4, <3>5 DEF Programs
  <2>2. CASE ProgramEnds
    BY <1>1, <2>2 DEF ProgramEnds
  <2>3. CASE Launch
    BY <2>3 DEF Launch
  <2>4. CASE StrangerComes
    BY <2>4 DEF StrangerComes
  <2>5. CASE UNCHANGED procs
    BY <2>5
  <2>6. Halt \/ ProgramEnds \/ Launch \/ StrangerComes \/ UNCHANGED procs
    BY <1>1 DEF Next, vars, progs, Phases, Steps, Mishaps, Start, Stop, Confirm, Revert, BeginTeardown, BeginStage,
       Intend, BeginApply, Commit, Undone, Stopped, Resume, Reverted, NextLine, RunIP, Forget, Record,
       GiveUp, Install, Keep, Leave, Station, StepFails, RecordFails, KeepFails, IWDFails, Die, Tick
  <2> QED
    BY <2>1, <2>2, <2>3, <2>4, <2>5, <2>6
<1>2. IInv /\ [Next]_vars => [\A p \in procs : p.prog = "other" => p \in procs']_vars
  BY <1>1
<1> QED
  BY <1>2, ApplyInOrder, PTL DEF Spec, NoStranger
=============================================================================
