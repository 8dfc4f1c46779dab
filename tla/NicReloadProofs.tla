-------------------------- MODULE NicReloadProofs --------------------------
(***************************************************************************)
(* Proofs about NicReload for any number of reload commands and daemons,   *)
(* any signal queue and any number of killed processes: type correctness,  *)
(* that one daemon at a time is past its claim of the pid file, that a     *)
(* withdrawn request is never applied, nor by another instance than the    *)
(* one addressed, and that the answers are true. They follow from one      *)
(* inductive invariant: a request is on disk, in one daemon's hand or      *)
(* answered, and never in two of these places.                             *)
(***************************************************************************)
EXTENDS NicReload, TLAPS

Sigs    == {"hup", "usr1", "term"}
Busy    == {"claim", "setup", "apply", "respond"}

\* The steps after the pid file was written.
Past == {"discard", "startup", "serve", "ending"} \cup Handling

\* A client whose request may exist.
Asked(c) == client[c] \notin {"new", "claimed"}

\* The request of c is neither on disk nor in hand.
Gone(c) == /\ request # None => request.id # c
           /\ \A d \in Daemons : job[d] # None => job[d].id # c

(* Every queue is a sequence of signals within the capacity of its channel.   *)
Queues == /\ signals \in [Daemons -> Seq(Sigs)]
          /\ \A d \in Daemons : Len(signals[d]) <= SignalCap

(* A client that is past its claim has an instance to address.               *)
Addressed ==
  \A c \in Clients : client[c] \in {"claimed", "written", "wait"} => target[c] \in Daemons

(* The watcher has a change to watch, and an unarmed one has it from the one *)
(* daemon that applies it.                                                   *)
Watching ==
  /\ watcher # "none" => pending # None
  /\ \A d \in Daemons : daemon[d] = "apply" => pending # None /\ watcher = "unarmed"
  /\ \A d, e \in Daemons : daemon[d] = "apply" /\ daemon[e] = "apply" => d = e

(* TypeOK says what the queues and the jobs hold; a step needs to know what  *)
(* they are.                                                                 *)
TypeInv == /\ TypeOK /\ Queues /\ job \in [Daemons -> Jobs \cup {None}]
           /\ Addressed /\ Watching

(* The reload lock, and what the pid file says under it.                     *)
Claimed ==
  /\ \A d, e \in Daemons : daemon[d] \in Starting /\ daemon[e] \in Starting => d = e
  /\ \A d \in Daemons : /\ daemon[d] = "write" => pid = "torn"
                        /\ daemon[d] \in Past => pid = d

(* A request goes to the instance its client noted, once.                    *)
RequestInOrder ==
  request # None => /\ Asked(request.id) /\ request.to = target[request.id]
                    /\ \A d \in Daemons : <<request.id, d>> \notin applied

(* The request in hand is no longer on disk once it was taken; it is applied *)
(* by the instance it addressed, and its result is what was done.            *)
JobsInOrder ==
  \A d \in Daemons : job[d] # None =>
    /\ Asked(job[d].id) /\ job[d].to = target[job[d].id]
    /\ daemon[d] \in {"setup", "apply", "respond"} /\ request # None =>
         request.id # job[d].id
    /\ daemon[d] \in {"setup", "apply"} => job[d].to = d
    /\ job[d].ok => <<job[d].id, target[job[d].id]>> \in applied
    /\ ~job[d].ok => \A e \in Daemons : <<job[d].id, e>> \notin applied

(* What is answered is over.                                                 *)
ResponseInOrder ==
  response # None =>
    /\ Asked(response.id) /\ Gone(response.id)
    /\ response.ok => <<response.id, target[response.id]>> \in applied
    /\ ~response.ok => \A d \in Daemons : <<response.id, d>> \notin applied

(* So is what a client has given up before anybody took it, or was told to   *)
(* have failed.                                                              *)
ClientsInOrder ==
  \A c \in Clients :
    /\ client[c] = "failed" => Gone(c)
    /\ c \in withdrawn => client[c] = "timedout" /\ Gone(c)
    /\ \A d \in Daemons : <<c, d>> \in applied => Asked(c)

Handed == /\ RequestInOrder /\ JobsInOrder /\ ResponseInOrder /\ ClientsInOrder
          /\ ToldTheTruth /\ NeverApplied

IInv == TypeInv /\ Claimed /\ Handed

-----------------------------------------------------------------------------
(* Type correctness *)

USE CapAssumption, DeathsAssumption, ActorsAssumption, NoneAssumption
USE DEF files, revert, history, ClientAt, DaemonAt, Unlocked, Starting,
        Handling, Sigs

(* Sending to a full channel changes nothing, to another adds one signal.     *)
LEMMA QueuedFacts ==
  ASSUME Queues, NEW d \in Daemons, NEW sig \in Sigs
  PROVE  Queued(d, sig) \in Seq(Sigs) /\ Len(Queued(d, sig)) <= SignalCap
<1>1. CASE Len(signals[d]) < SignalCap
  <2>1. Append(signals[d], sig) \in Seq(Sigs)
    BY DEF Queues
  <2>2. Len(Append(signals[d], sig)) = Len(signals[d]) + 1
    BY DEF Queues
  <2> QED
    BY <1>1, <2>1, <2>2 DEF Queued, Queues
<1>2. CASE ~(Len(signals[d]) < SignalCap)
  BY <1>2 DEF Queued, Queues
<1> QED
  BY <1>1, <1>2

LEMMA SendQueues ==
  ASSUME Queues, NEW d \in Daemons, NEW sig \in Sigs, Send(d, sig)
  PROVE  Queues'
BY QueuedFacts DEF Send, Queues

LEMMA HearQueues ==
  ASSUME Queues, NEW d \in Daemons, NEW sig \in Sigs, Hear(d, sig)
  PROVE  Queues'
<1>1. Tail(signals[d]) \in Seq(Sigs) /\ Len(Tail(signals[d])) <= SignalCap
  BY DEF Hear, Queues
<1> QED
  BY <1>1 DEF Hear, Queues

LEMMA QueuesStep ==
  ASSUME TypeInv, [Next]_vars
  PROVE  Queues'
<1> USE DEF TypeInv
<1>1. CASE UNCHANGED signals
  BY <1>1 DEF Queues
<1>2. CASE \E c \in Clients : Signal(c)
  BY <1>1, <1>2, SendQueues DEF Signal, Addressed
<1>3. CASE \E d \in Daemons : HearHup(d) \/ HearUsr1(d) \/ HearTerm(d)
  BY <1>3, HearQueues DEF HearHup, HearUsr1, HearTerm
<1>4. CASE \E d \in Daemons : Poke(d)
  BY <1>4, SendQueues DEF Poke
<1>5. CASE WatcherAsks
  BY <1>1, <1>5, SendQueues DEF WatcherAsks, Running
<1>6. CASE \E c \in Clients : \/ Claim(c) \/ WriteRequest(c) \/ TakeResponse(c)
                             \/ GiveUp(c) \/ KillClient(c)
  BY <1>1, <1>6 DEF Claim, WriteRequest, TakeResponse, GiveUp, KillClient
<1>7. CASE \E d \in Daemons : \/ CreatePid(d) \/ WritePid(d) \/ Discard(d) \/ Exit(d)
                             \/ Launch(d) \/ StartupEnds(d) \/ KillDaemon(d)
  BY <1>1, <1>7 DEF CreatePid, WritePid, Discard, Exit, Launch, StartupEnds, KillDaemon
<1>8. CASE \E d \in Daemons : \/ TakeRequest(d) \/ SetUp(d) \/ Apply(d) \/ Respond(d)
                             \/ Restore(d)
  BY <1>1, <1>8 DEF TakeRequest, SetUp, Apply, Respond, Restore
<1>9. CASE WatcherLocks \/ WatcherAnswered \/ WatcherGivesUp \/ Confirm \/ UNCHANGED vars
  BY <1>1, <1>9 DEF WatcherLocks, WatcherAnswered, WatcherGivesUp, Confirm, vars
<1> QED
  BY <1>2, <1>3, <1>4, <1>5, <1>6, <1>7, <1>8, <1>9
  DEF Next, ClientStep, DaemonStep, WatcherStep

LEMMA QueuesOK == Queues => SignalTypes
BY DEF Queues, SignalTypes, ToSet

(* At boot there is no process and no file.                                   *)
LEMMA TypeInit == Init => TypeInv
<1> SUFFICES ASSUME Init PROVE TypeInv
  OBVIOUS
<1>1. Queues
  BY DEF Init, Queues
<1>2. SignalTypes
  BY <1>1, QueuesOK
<1> QED
  BY <1>1, <1>2
  DEF Init, TypeInv, TypeOK, ClientTypes, DaemonTypes, FileTypes, ChangeTypes,
      HistoryTypes, Addressed, Watching

(* Reload commands keep their types, and an instance to address from the      *)
(* claim on.                                                                  *)
LEMMA ClientTypesStep ==
  ASSUME TypeInv, [Next]_vars
  PROVE  ClientTypes' /\ Addressed'
<1> USE DEF TypeInv, TypeOK, ClientTypes, Addressed
<1>1. CASE UNCHANGED <<client, target>>
  BY <1>1
<1>2. CASE \E c \in Clients : Claim(c)
  BY <1>2 DEF Claim, Running
<1>3. CASE \E c \in Clients : WriteRequest(c) \/ Signal(c) \/ KillClient(c)
  BY <1>3 DEF WriteRequest, Signal, KillClient
<1>4. CASE \E c \in Clients : TakeResponse(c) \/ GiveUp(c)
  BY <1>4 DEF TakeResponse, GiveUp
<1>5. CASE \E d \in Daemons : DaemonStep(d)
  BY <1>1, <1>5 DEF DaemonStep, CreatePid, WritePid, Discard, Exit, HearHup,
     TakeRequest, SetUp, Apply, Respond, HearUsr1, Restore, HearTerm
<1>6. CASE \E d \in Daemons : Launch(d) \/ StartupEnds(d) \/ Poke(d) \/ KillDaemon(d)
  BY <1>1, <1>6 DEF Launch, StartupEnds, Poke, KillDaemon
<1>7. CASE WatcherStep \/ Confirm \/ UNCHANGED vars
  BY <1>1, <1>7 DEF WatcherStep, WatcherLocks, WatcherAsks, WatcherAnswered,
     WatcherGivesUp, Confirm, vars
<1> QED
  BY <1>2, <1>3, <1>4, <1>5, <1>6, <1>7 DEF Next, ClientStep

(* Daemons keep their types: a request in hand is the one that was on disk,   *)
(* from the claim to the response.                                            *)
LEMMA DaemonTypesStep ==
  ASSUME TypeInv, [Next]_vars
  PROVE  DaemonTypes' /\ job' \in [Daemons -> Jobs \cup {None}]
<1> USE DEF TypeInv, TypeOK, DaemonTypes
<1>1. CASE UNCHANGED <<daemon, job, pid, serving>>
  BY <1>1
<1>2. CASE \E d \in Daemons : CreatePid(d) \/ WritePid(d) \/ Discard(d) \/ Exit(d)
  BY <1>2 DEF CreatePid, WritePid, Discard, Exit
<1>3. CASE \E d \in Daemons : Launch(d) \/ StartupEnds(d) \/ KillDaemon(d)
  BY <1>3 DEF Launch, StartupEnds, KillDaemon
<1>4. CASE \E d \in Daemons : HearHup(d)
  <2>1. PICK d \in Daemons : HearHup(d)
    BY <1>4
  <2>2. CASE request = None
    BY <2>1, <2>2 DEF HearHup
  <2>3. CASE request # None
    <3>1. request.id \in Clients /\ request.to \in Daemons
      BY <2>3 DEF FileTypes, Requests
    <3>2. [id |-> request.id, to |-> request.to, ok |-> FALSE] \in Jobs
      BY <3>1 DEF Jobs
    <3>3. \E rec \in Jobs : job' = [job EXCEPT ![d] = rec]
      BY <2>1, <2>3, <3>2 DEF HearHup
    <3>4. daemon' = [daemon EXCEPT ![d] = "claim"] /\ UNCHANGED <<pid, serving>>
      BY <2>1, <2>3 DEF HearHup
    <3> QED
      BY <2>1, <3>3, <3>4
  <2> QED
    BY <2>2, <2>3
<1>5. CASE \E d \in Daemons : TakeRequest(d) \/ SetUp(d)
  BY <1>5 DEF TakeRequest, SetUp
<1>6. CASE \E d \in Daemons : Apply(d)
  <2>1. PICK d \in Daemons : Apply(d)
    BY <1>6
  <2>2. job[d] \in Jobs
    BY <2>1 DEF Apply
  <2>3. [job[d] EXCEPT !.ok = TRUE] \in Jobs
    BY <2>2 DEF Jobs
  <2>4. \/ job' = job
        \/ job' = [job EXCEPT ![d] = [job[d] EXCEPT !.ok = TRUE]]
    BY <2>1 DEF Apply
  <2>5. job' \in [Daemons -> Jobs \cup {None}]
    BY <2>3, <2>4
  <2>6. daemon' = [daemon EXCEPT ![d] = "respond"] /\ UNCHANGED <<pid, serving>>
    BY <2>1 DEF Apply
  <2>7. job'[d] \in Jobs /\ \A e \in Daemons \ {d} : job'[e] = job[e]
    BY <2>2, <2>3, <2>4
  <2>8. DaemonTypes'
    BY <2>1, <2>6, <2>7 DEF Apply
  <2> QED
    BY <2>5, <2>8
<1>7. CASE \E d \in Daemons : Respond(d)
  BY <1>7 DEF Respond, Rest
<1>8. CASE \E d \in Daemons : HearUsr1(d) \/ HearTerm(d) \/ Restore(d)
  BY <1>8 DEF HearUsr1, HearTerm, Hear, Restore, Rest
<1>9. CASE \E c \in Clients : ClientStep(c) \/ GiveUp(c) \/ KillClient(c)
  <2>1. UNCHANGED <<daemon, job, pid, serving>>
    BY <1>9 DEF ClientStep, Claim, WriteRequest, Signal, TakeResponse, GiveUp, KillClient
  <2> QED
    BY <1>1, <2>1
<1>10. CASE WatcherStep \/ Confirm \/ UNCHANGED vars \/ \E d \in Daemons : Poke(d)
  BY <1>1, <1>10 DEF WatcherStep, WatcherLocks, WatcherAsks, WatcherAnswered,
     WatcherGivesUp, Confirm, Poke, vars
<1> QED
  BY <1>2, <1>3, <1>4, <1>5, <1>6, <1>7, <1>8, <1>9, <1>10 DEF Next, DaemonStep

(* What is on disk can be read: requests by clients to daemons, responses to  *)
(* requests.                                                                  *)
LEMMA FileTypesStep ==
  ASSUME TypeInv, [Next]_vars
  PROVE  FileTypes'
<1> USE DEF TypeInv, TypeOK, FileTypes
<1>1. CASE UNCHANGED files
  BY <1>1
<1>2. CASE \E c \in Clients : Claim(c)
  BY <1>2 DEF Claim
<1>3. CASE \E c \in Clients : WriteRequest(c) \/ Signal(c)
  BY <1>3 DEF WriteRequest, Signal, Addressed, Requests
<1>4. CASE \E c \in Clients : TakeResponse(c) \/ GiveUp(c)
  BY <1>4 DEF TakeResponse, GiveUp, Withdraw
<1>5. CASE \E d \in Daemons : Discard(d)
  BY <1>5 DEF Discard, Requests
<1>6. CASE \E d \in Daemons : TakeRequest(d) \/ HearUsr1(d) \/ Restore(d)
  <2>1. CASE \E d \in Daemons : TakeRequest(d)
    BY <2>1 DEF TakeRequest
  <2>2. CASE \E d \in Daemons : HearUsr1(d) \/ Restore(d)
    <3>1. \A b \in BOOLEAN : [ok |-> b] \in Outcomes
      BY DEF Outcomes
    <3>2. UNCHANGED revertResponse \/ \E b \in BOOLEAN : revertResponse' = [ok |-> b]
      BY <2>2 DEF HearUsr1, Restore
    <3> QED
      BY <2>2, <3>1, <3>2 DEF HearUsr1, Restore
  <2> QED
    BY <1>6, <2>1, <2>2
<1>7. CASE \E d \in Daemons : Respond(d)
  <2>1. PICK d \in Daemons : Respond(d)
    BY <1>7
  <2>2. job[d] \in Jobs
    BY <2>1 DEF Respond, DaemonTypes
  <2>3. [id |-> job[d].id, ok |-> job[d].ok] \in Responses
    BY <2>2 DEF Jobs, Responses
  <2> QED
    BY <2>1, <2>3 DEF Respond
<1>8. CASE WatcherStep \/ Confirm \/ UNCHANGED vars
  BY <1>8 DEF WatcherStep, WatcherLocks, WatcherAsks, WatcherAnswered,
     WatcherGivesUp, Confirm, vars
<1>9. CASE \E d \in Daemons : \/ CreatePid(d) \/ WritePid(d) \/ Exit(d) \/ HearHup(d)
                             \/ SetUp(d) \/ Apply(d) \/ HearTerm(d)
  BY <1>1, <1>9 DEF CreatePid, WritePid, Exit, HearHup, SetUp, Apply, HearTerm
<1>10. CASE \/ \E d \in Daemons : Launch(d) \/ StartupEnds(d) \/ Poke(d) \/ KillDaemon(d)
            \/ \E c \in Clients : KillClient(c)
  BY <1>1, <1>10 DEF Launch, StartupEnds, Poke, KillDaemon, KillClient
<1> QED
  BY <1>2, <1>3, <1>4, <1>5, <1>6, <1>7, <1>8, <1>9, <1>10
  DEF Next, ClientStep, DaemonStep

(* The pending change is one of a client, the watcher has it as long as it    *)
(* runs, and no second one is begun while it is pending.                      *)
LEMMA ChangeTypesStep ==
  ASSUME TypeInv, [Next]_vars
  PROVE  ChangeTypes' /\ Watching'
<1> USE DEF TypeInv, TypeOK, ChangeTypes, Watching
<1>1. CASE \E c \in Clients : ClientStep(c) \/ GiveUp(c) \/ KillClient(c)
  BY <1>1 DEF ClientStep, Claim, WriteRequest, Signal, TakeResponse, GiveUp, KillClient
<1>2. CASE \E d \in Daemons : CreatePid(d) \/ WritePid(d) \/ Discard(d) \/ Exit(d)
  BY <1>2 DEF CreatePid, WritePid, Discard, Exit, DaemonTypes
<1>3. CASE \E d \in Daemons : Launch(d) \/ StartupEnds(d) \/ Poke(d) \/ KillDaemon(d)
  BY <1>3 DEF Launch, StartupEnds, Poke, KillDaemon, DaemonTypes
<1>4. CASE \E d \in Daemons : HearHup(d) \/ HearUsr1(d) \/ HearTerm(d)
  BY <1>4 DEF HearHup, HearUsr1, HearTerm, Hear, DaemonTypes
<1>5. CASE \E d \in Daemons : TakeRequest(d) \/ Respond(d)
  BY <1>5 DEF TakeRequest, Respond, Rest, DaemonTypes
<1>6. CASE \E d \in Daemons : SetUp(d)
  <2>1. PICK d \in Daemons : SetUp(d)
    BY <1>6
  <2>2. CASE pending # None
    BY <2>1, <2>2 DEF SetUp, DaemonTypes
  <2>3. CASE pending = None
    <3>1. [of |-> job[d].id, old |-> net] \in Changes
      BY <2>1 DEF SetUp, DaemonTypes, Changes, Jobs
    <3>2. pending' # None
      BY <2>1, <2>3, <3>1 DEF SetUp
    <3> QED
      BY <2>1, <2>3, <3>1, <3>2 DEF SetUp, DaemonTypes
  <2> QED
    BY <2>2, <2>3
<1>7. CASE \E d \in Daemons : Apply(d)
  <2>1. PICK d \in Daemons : Apply(d)
    BY <1>7
  <2>2. job[d].id \in Clients
    BY <2>1 DEF Apply, DaemonTypes, Jobs
  <2>3. \A e \in Daemons : daemon'[e] # "apply"
    BY <2>1 DEF Apply, DaemonTypes
  <2> QED
    BY <2>1, <2>2, <2>3 DEF Apply
<1>8. CASE \E d \in Daemons : Restore(d)
  BY <1>8 DEF Restore, Rest, DaemonTypes, Changes
<1>9. CASE WatcherLocks \/ WatcherAsks
  BY <1>9 DEF WatcherLocks, WatcherAsks, Changes
<1>10. CASE WatcherAnswered \/ WatcherGivesUp \/ Confirm
  BY <1>10 DEF WatcherAnswered, WatcherGivesUp, Confirm
<1>11. CASE UNCHANGED vars
  BY <1>11 DEF vars
<1> QED
  BY <1>1, <1>2, <1>3, <1>4, <1>5, <1>6, <1>7, <1>8, <1>9, <1>10, <1>11
  DEF Next, DaemonStep, WatcherStep

LEMMA HistoryTypesStep ==
  ASSUME TypeInv, [Next]_vars
  PROVE  HistoryTypes'
<1> USE DEF TypeInv, TypeOK, HistoryTypes
<1>1. CASE \E c \in Clients : ClientStep(c) \/ GiveUp(c) \/ KillClient(c)
  BY <1>1 DEF ClientStep, Claim, WriteRequest, Signal, TakeResponse, GiveUp, KillClient
<1>2. CASE \E d \in Daemons : Apply(d)
  <2>1. PICK d \in Daemons : Apply(d)
    BY <1>2
  <2>2. job[d].id \in Clients
    BY <2>1 DEF Apply, DaemonTypes, Jobs
  <2> QED
    BY <2>1, <2>2 DEF Apply
<1>3. CASE Confirm
  <2>1. pending.of \in Clients
    BY <1>3 DEF Confirm, ChangeTypes, Changes
  <2> QED
    BY <1>3, <2>1 DEF Confirm
<1>4. CASE \E d \in Daemons : \/ CreatePid(d) \/ WritePid(d) \/ Discard(d) \/ Exit(d)
                             \/ HearHup(d) \/ TakeRequest(d) \/ SetUp(d)
                             \/ Respond(d) \/ HearUsr1(d) \/ Restore(d) \/ HearTerm(d)
  BY <1>4 DEF CreatePid, WritePid, Discard, Exit, HearHup, TakeRequest, SetUp,
     Respond, HearUsr1, Restore, HearTerm
<1>5. CASE \E d \in Daemons : Launch(d) \/ StartupEnds(d) \/ Poke(d) \/ KillDaemon(d)
  BY <1>5 DEF Launch, StartupEnds, Poke, KillDaemon
<1>6. CASE WatcherStep \/ UNCHANGED vars
  BY <1>6 DEF WatcherStep, WatcherLocks, WatcherAsks, WatcherAnswered,
     WatcherGivesUp, vars
<1> QED
  BY <1>1, <1>2, <1>3, <1>4, <1>5, <1>6 DEF Next, DaemonStep

LEMMA TypeStep == TypeInv /\ [Next]_vars => TypeInv'
<1> SUFFICES ASSUME TypeInv, [Next]_vars PROVE TypeInv'
  OBVIOUS
<1>1. Queues' /\ SignalTypes'
  BY QueuesStep, QueuesOK, PTL
<1> QED
  BY <1>1, ClientTypesStep, DaemonTypesStep, FileTypesStep, ChangeTypesStep,
     HistoryTypesStep
  DEF TypeInv, TypeOK

(* The types hold always: a daemon has a request in hand exactly while it     *)
(* serves one, and no queue outgrows its channel (main.go:196).               *)
THEOREM TypeCorrect == Spec => []TypeOK
<1>1. TypeInv => TypeOK
  BY DEF TypeInv
<1> QED
  BY <1>1, TypeInit, TypeStep, PTL DEF Spec

-----------------------------------------------------------------------------
(* One daemon *)

USE DEF Past

LEMMA ClaimedInit == Init => Claimed
BY DEF Init, Claimed

(* The lock lets one start at a time to the pid file; what is removed there   *)
(* names nobody who lives, so nobody who lives loses his record.              *)
LEMMA ClaimedStep ==
  ASSUME TypeInv, Claimed, [Next]_vars
  PROVE  Claimed'
<1> USE DEF TypeInv, TypeOK, DaemonTypes, Claimed
<1>1. CASE UNCHANGED <<daemon, pid>>
  BY <1>1
<1>2. CASE \E d \in Daemons : Launch(d)
  BY <1>2 DEF Launch, ReloadFree
<1>3. CASE \E d \in Daemons : CreatePid(d)
  BY <1>3 DEF CreatePid, Running, Live
<1>4. CASE \E d \in Daemons : WritePid(d)
  BY <1>4 DEF WritePid
<1>5. CASE \E d \in Daemons : Discard(d) \/ HearHup(d) \/ HearUsr1(d) \/ HearTerm(d)
  BY <1>5 DEF Discard, HearHup, HearUsr1, HearTerm, Hear
<1>6. CASE \E d \in Daemons : TakeRequest(d) \/ SetUp(d) \/ Apply(d)
  BY <1>6 DEF TakeRequest, SetUp, Apply
<1>7. CASE \E d \in Daemons : Respond(d) \/ Restore(d)
  BY <1>7 DEF Respond, Restore, Rest
<1>8. CASE \E d \in Daemons : StartupEnds(d) \/ Exit(d)
  BY <1>8 DEF StartupEnds, Exit
<1>9. CASE \E d \in Daemons : KillDaemon(d) \/ Poke(d)
  BY <1>9 DEF KillDaemon, Poke
<1>10. CASE \E c \in Clients : ClientStep(c) \/ GiveUp(c) \/ KillClient(c)
  BY <1>1, <1>10 DEF ClientStep, Claim, WriteRequest, Signal, TakeResponse, GiveUp, KillClient
<1>11. CASE WatcherStep \/ Confirm \/ UNCHANGED vars
  BY <1>1, <1>11 DEF WatcherStep, WatcherLocks, WatcherAsks, WatcherAnswered,
     WatcherGivesUp, Confirm, vars
<1> QED
  BY <1>2, <1>3, <1>4, <1>5, <1>6, <1>7, <1>8, <1>9, <1>10, <1>11 DEF Next, DaemonStep

(* One daemon at a time is past its claim, and the file names it: creating    *)
(* the pid file and writing it are two steps, and the reload lock makes them  *)
(* one (control.go:124).                                                      *)
THEOREM SingleDaemon == Spec => []OneDaemon
<1>1. TypeInv /\ Claimed => OneDaemon
  BY DEF Claimed, OneDaemon
<1>2. TypeInv /\ Claimed /\ [Next]_vars => (TypeInv /\ Claimed)'
  BY TypeStep, ClaimedStep
<1> QED
  BY <1>1, <1>2, TypeInit, ClaimedInit, PTL DEF Spec

-----------------------------------------------------------------------------
(* The way of a request *)

LEMMA HandedInit == Init => Handed
BY DEF Init, Handed, RequestInOrder, JobsInOrder, ResponseInOrder, ClientsInOrder,
       ToldTheTruth, NeverApplied

(* A step that touches no request, answer or result, and takes no daemon to   *)
(* the steps at which one is handled, changes nothing.                        *)
LEMMA HandedFrame ==
  ASSUME Handed, UNCHANGED <<client, target, job, request, response, applied, withdrawn>>,
         \A d \in Daemons : /\ daemon'[d] = "setup" => daemon[d] = "setup"
                            /\ daemon'[d] = "apply" => daemon[d] \in {"setup", "apply"}
                            /\ daemon'[d] = "respond" => daemon[d] \in {"setup", "respond"}
  PROVE  Handed'
BY DEF Handed, RequestInOrder, JobsInOrder, ResponseInOrder, ClientsInOrder,
       ToldTheTruth, NeverApplied, Gone, Asked

LEMMA OthersHanded ==
  ASSUME TypeInv, Handed,
         \/ \E d \in Daemons : \/ CreatePid(d) \/ WritePid(d) \/ Exit(d)
                              \/ SetUp(d) \/ HearUsr1(d) \/ Restore(d) \/ HearTerm(d)
                              \/ Launch(d) \/ StartupEnds(d) \/ Poke(d)
         \/ WatcherStep \/ Confirm \/ UNCHANGED vars
  PROVE  Handed'
<1> USE DEF TypeInv, TypeOK, DaemonTypes
<1>1. CASE \E d \in Daemons : CreatePid(d) \/ WritePid(d) \/ Exit(d)
  BY <1>1, HandedFrame DEF CreatePid, WritePid, Exit
<1>2. CASE \E d \in Daemons : SetUp(d) \/ HearUsr1(d) \/ HearTerm(d)
  BY <1>2, HandedFrame DEF SetUp, HearUsr1, HearTerm
<1>3. CASE \E d \in Daemons : Restore(d)
  BY <1>3, HandedFrame DEF Restore, Rest
<1>4. CASE \E d \in Daemons : Launch(d) \/ StartupEnds(d) \/ Poke(d)
  BY <1>4, HandedFrame DEF Launch, StartupEnds, Poke
<1>5. CASE WatcherStep \/ Confirm \/ UNCHANGED vars
  BY <1>5, HandedFrame DEF WatcherStep, WatcherLocks, WatcherAsks, WatcherAnswered,
     WatcherGivesUp, Confirm, vars
<1> QED
  BY <1>1, <1>2, <1>3, <1>4, <1>5

(* What the client does: its request is new, and nobody has handled it; it    *)
(* withdraws only its own.                                                    *)
LEMMA ClientHanded ==
  ASSUME TypeInv, Claimed, Handed, NEW c \in Clients,
         ClientStep(c) \/ GiveUp(c) \/ KillClient(c)
  PROVE  Handed'
<1> USE DEF TypeInv, TypeOK, ClientTypes, Handed, RequestInOrder, JobsInOrder,
            ResponseInOrder, ClientsInOrder, ToldTheTruth, NeverApplied, Gone, Asked
<1>t. /\ \A d \in Daemons : job[d] # None => job[d].id \in Clients
      /\ request # None => request.id \in Clients
      /\ response # None => response.id \in Clients
      /\ \A k, d : <<k, d>> \in applied => k \in Clients /\ d \in Daemons
  BY DEF FileTypes, HistoryTypes, Jobs, Requests, Responses
<1>1. CASE Claim(c)
  <2>1. /\ client[c] = "new" /\ client'[c] \in {"refused", "claimed"}
        /\ \A k \in Clients \ {c} : client'[k] = client[k] /\ target'[k] = target[k]
        /\ UNCHANGED <<job, daemon, request, response, applied, withdrawn>>
    BY <1>1 DEF Claim
  <2>2. RequestInOrder' /\ ResponseInOrder'
    BY <1>t, <2>1
  <2>3. JobsInOrder'
    <3> SUFFICES ASSUME NEW d \in Daemons, job[d] # None
                 PROVE  Asked(job[d].id)' /\ job[d].to = target'[job[d].id]
                        /\ target'[job[d].id] = target[job[d].id]
      BY <2>1
    <3>1. job[d].id \in Clients /\ Asked(job[d].id) /\ job[d].to = target[job[d].id]
      BY <1>t
    <3>2. job[d].id # c
      BY <2>1, <3>1
    <3> QED
      BY <2>1, <3>1, <3>2
  <2>4. ClientsInOrder'
    BY <1>t, <2>1
  <2>5. ToldTheTruth' /\ NeverApplied'
    BY <1>t, <2>1
  <2> QED
    BY <2>2, <2>3, <2>4, <2>5
<1>2. CASE WriteRequest(c)
  BY <1>2, <1>t DEF WriteRequest
<1>3. CASE Signal(c)
  BY <1>3, <1>t DEF Signal
<1>4. CASE TakeResponse(c)
  BY <1>4, <1>t DEF TakeResponse, Withdraw
<1>5. CASE GiveUp(c)
  BY <1>5, <1>t DEF GiveUp, Withdraw
<1>6. CASE KillClient(c)
  BY <1>6, <1>t DEF KillClient
<1> QED
  BY <1>1, <1>2, <1>3, <1>4, <1>5, <1>6 DEF ClientStep

(* A daemon's record of a request follows the file; once it is taken the file *)
(* is another's or none, and an answer means that it is over.                 *)
LEMMA DaemonHanded ==
  ASSUME TypeInv, Claimed, Handed, NEW d \in Daemons,
         \/ Discard(d) \/ HearHup(d) \/ TakeRequest(d) \/ Apply(d) \/ Respond(d)
         \/ KillDaemon(d)
  PROVE  Handed'
<1> USE DEF TypeInv, TypeOK, ClientTypes, DaemonTypes, Handed, RequestInOrder,
            JobsInOrder, ResponseInOrder, ClientsInOrder, ToldTheTruth,
            NeverApplied, Gone, Asked
<1>t. /\ \A e \in Daemons : job[e] # None => job[e].id \in Clients
      /\ request # None => request.id \in Clients
      /\ response # None => response.id \in Clients
      /\ \A k, e : <<k, e>> \in applied => k \in Clients /\ e \in Daemons
  BY DEF FileTypes, HistoryTypes, Jobs, Requests, Responses
<1>1. CASE Discard(d)
  BY <1>1, <1>t DEF Discard
<1>2. CASE HearHup(d)
  <2>1. CASE request = None
    BY <1>2, <2>1, HandedFrame DEF HearHup
  <2>2. CASE request # None
    <3>1. /\ job' = [job EXCEPT ![d] = [id |-> request.id, to |-> request.to, ok |-> FALSE]]
          /\ daemon' = [daemon EXCEPT ![d] = "claim"]
          /\ UNCHANGED <<client, target, request, response, applied, withdrawn>>
      BY <1>2, <2>2 DEF HearHup
    <3> QED
      BY <1>t, <2>2, <3>1
  <2> QED
    BY <2>1, <2>2
<1>3. CASE TakeRequest(d)
  BY <1>3, <1>t DEF TakeRequest
<1>4. CASE Apply(d)
  <2>1. PICK k \in Clients : k = job[d].id
    BY <1>4 DEF Apply, Jobs
  <2>2. job[d] \in Jobs /\ job[d] # None
    BY <1>4 DEF Apply
  <2>3. \A e \in Daemons \ {d} : job[e] = None
    BY <1>4 DEF Apply, Claimed
  <2>4. Asked(k) /\ target[k] = d /\ (request # None => request.id # k)
    BY <1>4, <2>1, <2>2 DEF Apply
  <2>5. /\ \A e \in Daemons \ {d} : job'[e] = None
        /\ job'[d] \in Jobs /\ job'[d].id = k /\ job'[d].to = job[d].to
        /\ \/ job'[d].ok = job[d].ok /\ UNCHANGED applied
           \/ job'[d].ok /\ applied' = applied \cup {<<k, d>>}
        /\ UNCHANGED <<client, target, request, response, withdrawn>>
        /\ daemon' = [daemon EXCEPT ![d] = "respond"]
    <3>1. CASE UNCHANGED <<job, applied>>
      BY <1>4, <2>1, <2>2, <2>3, <3>1 DEF Apply
    <3>2. CASE /\ job' = [job EXCEPT ![d] = [job[d] EXCEPT !.ok = TRUE]]
               /\ applied' = applied \cup {<<k, d>>}
      <4>1. job'[d] = [job[d] EXCEPT !.ok = TRUE]
        BY <3>2
      <4>2. [job[d] EXCEPT !.ok = TRUE] \in Jobs /\ [job[d] EXCEPT !.ok = TRUE].ok
            /\ [job[d] EXCEPT !.ok = TRUE].id = job[d].id
            /\ [job[d] EXCEPT !.ok = TRUE].to = job[d].to
        BY <2>2 DEF Jobs
      <4> QED
        BY <1>4, <2>1, <2>3, <3>2, <4>1, <4>2 DEF Apply
    <3> QED
      BY <1>4, <2>1, <3>1, <3>2 DEF Apply
  <2>6. RequestInOrder' /\ ResponseInOrder'
    BY <1>t, <2>1, <2>2, <2>4, <2>5
  <2>7. JobsInOrder'
    BY <1>t, <2>1, <2>2, <2>4, <2>5
  <2>8. ClientsInOrder'
    BY <1>t, <2>1, <2>2, <2>4, <2>5
  <2>9. ToldTheTruth' /\ NeverApplied'
    BY <1>t, <2>1, <2>2, <2>4, <2>5
  <2> QED
    BY <2>6, <2>7, <2>8, <2>9
<1>5. CASE Respond(d)
  <2>1. job[d] \in Jobs /\ job[d] # None
    BY <1>5 DEF Respond
  <2>2. \A e \in Daemons : job'[e] = None
    BY <1>5 DEF Respond, Claimed
  <2>3. /\ response' = [id |-> job[d].id, ok |-> job[d].ok]
        /\ request # None => request.id # job[d].id
        /\ UNCHANGED <<client, target, request, applied, withdrawn>>
    BY <1>5, <2>1 DEF Respond
  <2>4. RequestInOrder' /\ ResponseInOrder'
    BY <1>t, <2>1, <2>2, <2>3 DEF Jobs
  <2>5. JobsInOrder' /\ ClientsInOrder'
    BY <1>t, <2>2, <2>3
  <2>6. ToldTheTruth' /\ NeverApplied'
    BY <2>3
  <2> QED
    BY <2>4, <2>5, <2>6
<1>6. CASE KillDaemon(d)
  BY <1>6, <1>t DEF KillDaemon
<1> QED
  BY <1>1, <1>2, <1>3, <1>4, <1>5, <1>6

LEMMA HandedStep ==
  ASSUME TypeInv, Claimed, Handed, [Next]_vars
  PROVE  Handed'
BY OthersHanded, ClientHanded, DaemonHanded DEF Next, DaemonStep

LEMMA IInvInit == Init => IInv
BY TypeInit, ClaimedInit, HandedInit DEF IInv

LEMMA IInvStep == IInv /\ [Next]_vars => IInv'
BY TypeStep, ClaimedStep, HandedStep DEF IInv

(* A request is on disk, in one daemon's hand or answered, and never in two   *)
(* of these places.                                                           *)
THEOREM OnePlace == Spec => []IInv
BY IInvInit, IInvStep, PTL DEF Spec

(* An answer is true: success means that the instance it addressed applied    *)
(* what the client reviewed, an error that nobody did or ever will            *)
(* (main.go:1517-1520), even if daemons are killed while they apply it.       *)
THEOREM TrueAnswers == Spec => []ToldTheTruth
<1>1. IInv => ToldTheTruth
  BY DEF IInv, Handed
<1> QED
  BY <1>1, OnePlace, PTL

(* A request withdrawn before any daemon took it is not applied by a later    *)
(* SIGHUP (main.go:1204), and no other instance applies it than the one that  *)
(* was addressed.                                                             *)
THEOREM WithdrawnForGood == Spec => []NeverApplied
<1>1. IInv => NeverApplied
  BY DEF IInv, Handed
<1> QED
  BY <1>1, OnePlace, PTL
=============================================================================
