-------------------------- MODULE MCNicReconcile --------------------------
(* Instances of NicReconcile for TLC. *)
EXTENDS NicReconcile

\* Every call may fail and the process may die, but unlink(2) works in /run/nic.
AllButRemoval == Calls \ {"clear", "unlink"}
=============================================================================
