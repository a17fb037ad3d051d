------------------------------ MODULE MCPaging ------------------------------
(***************************************************************************)
(* Values for Paging and Convert: years of two seconds, with 1970 at 5, so  *)
(* that dates have years below 0 and years of one, two and three digits.    *)
(***************************************************************************)
EXTENDS Convert

MCYear(s) == 5 + s \div 2
MCInYear(s) == s % 2
=============================================================================
