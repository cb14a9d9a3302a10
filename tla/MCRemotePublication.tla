-------------------------- MODULE MCRemotePublication --------------------------
(* Instances of RemotePublication for TLC. *)
EXTENDS RemotePublication
=============================================================================
