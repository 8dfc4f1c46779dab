--------------------------- MODULE MCNicExchange ---------------------------
(* NicExchange for TLC. *)
EXTENDS NicExchange

CONSTANTS c1, c2,   \* clients
          h1, h2    \* hosts

OneHost  == [c \in {c1, c2} |-> h1]
TwoHosts == [c \in {c1, c2} |-> IF c = c1 THEN h1 ELSE h2]

\* DHCPv4 hears the whole link wherever its clients are.
SmallWorlds == {[family |-> "v4", host |-> TwoHosts],
                [family |-> "v6", host |-> OneHost], [family |-> "v6", host |-> TwoHosts]}
=============================================================================
