------------------------------- MODULE Result -------------------------------
(***************************************************************************)
(* What reading the result of a query promises: documents arrive in        *)
(* pieces, in order and without gaps; the end is announced only after the  *)
(* last one; otherwise the reader gets an error.                           *)
(***************************************************************************)
EXTENDS Integers

CONSTANT Total   \* documents in the result

VARIABLES got,     \* documents handed over so far
          status   \* what the reader has been told

Init == got = 0 /\ status = "open"

\* Some more documents, and possibly the news that they were the last.
Deliver ==
    /\ status = "open"
    /\ got' \in got .. Total
    /\ \/ status' = "open"
       \/ got' = Total /\ status' = "done"

Fail == status' = "failed" /\ got' = got

Next == Deliver \/ Fail

Spec == Init /\ [][Next]_<<got, status>>
=============================================================================
