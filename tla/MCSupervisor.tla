---------------------------- MODULE MCSupervisor ----------------------------
(***************************************************************************)
(* Instances of Supervisor for TLC; the .cfg files give the bounds.        *)
(***************************************************************************)
EXTENDS Supervisor
=============================================================================
