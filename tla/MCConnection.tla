---------------------------- MODULE MCConnection ----------------------------
(***************************************************************************)
(* Connection with answers of up to three messages and up to two expired   *)
(* waits in the queue: the one the header's schedule_timeout came too late *)
(* to cancel, and the body's.                                              *)
(***************************************************************************)
EXTENDS Connection
=============================================================================
