-------------------------- MODULE MCRemoteLifecycle --------------------------
(* Instances of RemoteLifecycle for TLC.                                   *)
EXTENDS RemoteLifecycle
=============================================================================
