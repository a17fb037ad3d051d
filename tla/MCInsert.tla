------------------------------ MODULE MCInsert ------------------------------
(***************************************************************************)
(* Model values for Insert.                                                *)
(***************************************************************************)
EXTENDS Insert
=============================================================================
