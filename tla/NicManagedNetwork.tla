------------------------- MODULE NicManagedNetwork -------------------------
(***************************************************************************)
(* What nic promises about the machine's network, seen from outside: which *)
(* configurations' effects are on the machine, whether a baseline of the   *)
(* pre-nic network is kept, and what the last command reported.            *)
(*                                                                         *)
(*  - The network is changed only while a baseline is kept, and only by a  *)
(*    command in progress (or interrupted), never after one has reported.  *)
(*  - A baseline is taken and dropped only while the network carries no    *)
(*    effect of nic.                                                       *)
(*  - A command that reports that configuration c runs leaves exactly the  *)
(*    effects of c; one that reports a pristine network leaves none.       *)
(*                                                                         *)
(* NicReconcile implements this specification.                             *)
(***************************************************************************)
CONSTANTS Configs,      \* the configurations an operator may ask for
          Unsettled     \* what is reported while nothing is known

VARIABLES kept,         \* a baseline snapshot of the pre-nic network exists
          effects,      \* configurations with effects on the machine
          reported      \* the set of configurations the last command left

pvars == <<kept, effects, reported>>

Init == kept = FALSE /\ effects = {} /\ reported = Unsettled

\* A command starts, or the one in progress dies: nothing is known.
Begin == reported' = Unsettled /\ UNCHANGED <<kept, effects>>

Keep == /\ reported = Unsettled
        /\ ~kept /\ effects = {}
        /\ kept' = TRUE
        /\ UNCHANGED <<effects, reported>>

Change == /\ reported = Unsettled
          /\ kept
          /\ effects' \in SUBSET Configs
          /\ UNCHANGED <<kept, reported>>

Report(s) == /\ reported = Unsettled
             /\ effects = s
             /\ reported' = s
             /\ UNCHANGED <<kept, effects>>

\* A command that ends by dropping the baseline reports a pristine network.
Drop == /\ reported = Unsettled
        /\ effects = {}
        /\ kept' = FALSE
        /\ reported' = {}
        /\ UNCHANGED effects

Next == \/ Begin \/ Keep \/ Change \/ Drop
        \/ Report({})
        \/ \E c \in Configs : Report({c})

Spec == Init /\ [][Next]_pvars
=============================================================================
