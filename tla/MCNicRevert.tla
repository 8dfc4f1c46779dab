---------------------------- MODULE MCNicRevert ----------------------------
(* NicRevert for TLC. *)
EXTENDS NicRevert

\* A changer may be killed at any of its steps, also between starting the
\* watcher and writing its pid file (then nobody can stop that watcher).
Anywhere == ChangerSteps \ {"idle", "done", "dead"}
=============================================================================
