----------------------------- MODULE MCCoordinator -----------------------------
(* Instances of Coordinator for TLC. *)
EXTENDS Coordinator

\* The bounds are on inputs (writes, commands, failures); everything the
\* coordinator does with them is explored to the end.  A stopped coordinator
\* and an idle one out of inputs may both stay where they are.
=============================================================================
