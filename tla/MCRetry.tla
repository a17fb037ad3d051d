------------------------------ MODULE MCRetry ------------------------------
(***************************************************************************)
(* Two commands of any kind, one after the other on one client.             *)
(***************************************************************************)
EXTENDS Retry
=============================================================================
