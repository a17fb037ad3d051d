------------------------------ MODULE MCGridFS ------------------------------
(***************************************************************************)
(* Model values for GridFS.                                                *)
(***************************************************************************)
EXTENDS GridFS
=============================================================================
