------------------------------ MODULE NicTrial ------------------------------
(***************************************************************************)
(* What `nic reload` promises of a change that has to be confirmed, seen   *)
(* from outside: the machine, the change on trial, and what became of      *)
(* every change.                                                           *)
(*                                                                         *)
(*  - One change at a time is on trial, and remembers the machine it       *)
(*    found.                                                               *)
(*  - Commands run on the machine only while a change is on trial, but for *)
(*    those of `nic stop`.                                                 *)
(*  - A change is kept only if the machine runs it (or was stopped);       *)
(*    undone, it leaves the machine it found, and so does one that is      *)
(*    withdrawn before its first command.                                  *)
(*  - What became of a change does not alter.                              *)
(*                                                                         *)
(* A change that is confirmed before it can be kept voids the promise: of  *)
(* that day on anything may happen. NicRevert implements this              *)
(* specification.                                                          *)
(***************************************************************************)
CONSTANTS Changes,
          Nothing,    \* no change, no machine
          Off         \* the machine without nic

VARIABLES machine,    \* [net, applied]: what runs, and what is on record
          trial,      \* the change on trial
          origin,     \* the machine it found
          verdict,    \* what became of each change
          void        \* nothing is promised any more

pvars == <<machine, trial, origin, verdict, void>>

\* The machine with change c in force.
InForce(c) == [net |-> c, applied |-> c]

Init == /\ machine = Off /\ trial = Nothing /\ origin = Nothing
        /\ verdict = [c \in Changes |-> "none"] /\ void = FALSE

Ends(result) == /\ trial # Nothing /\ trial' = Nothing /\ origin' = Nothing
                /\ verdict' = [verdict EXCEPT ![trial] = result]

Try(c) == /\ trial = Nothing /\ verdict[c] = "none"
          /\ trial' = c /\ origin' = machine
          /\ UNCHANGED <<machine, verdict>>

Work == /\ trial # Nothing
        /\ UNCHANGED <<trial, origin, verdict>>

Withdraw == Ends("none") /\ machine = origin /\ UNCHANGED machine

Keep == Ends("kept") /\ machine \in {InForce(trial), Off} /\ UNCHANGED machine

Undo == Ends("undone") /\ machine' = origin

\* Neither kept nor undone, and the one who did it reported an error.
Fail == Ends("failed")

Halt == machine' = Off /\ UNCHANGED <<trial, origin, verdict>>

Next == \/ void'
        \/ /\ ~void /\ ~void'
           /\ \/ \E c \in Changes : Try(c)
              \/ Work \/ Withdraw \/ Keep \/ Undo \/ Fail \/ Halt

Spec == Init /\ [][Next]_pvars
=============================================================================
