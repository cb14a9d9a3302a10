-------------------------- MODULE MCCoordinatorHandle --------------------------
(* Instances of CoordinatorHandle for TLC: writes, requests and failures are  *)
(* bounded; MaxCommands is larger than any number of commands they lead to.   *)
EXTENDS CoordinatorHandle

\* One client pauses and resumes.  Nobody marks or flushes: after the failure that
\* the run stalepending shows, the watcher retries for ever.
Roles == [c1 |-> {"pause", "resume"}, c2 |-> {"snap", "shutdown"}]
=============================================================================
