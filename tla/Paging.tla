------------------------------- MODULE Paging -------------------------------
(***************************************************************************)
(* Reading the result of a query page by page: libmongoc's cursor under    *)
(* R_mongo_cursor_next_page, _next_json and _next_bsonlist, and above them *)
(* the loops of mongo_stream_in(), mongo_export() and mongo_dump() and the *)
(* methods of mongo_iterator().                                            *)
(*                                                                         *)
(* The documents of the result are numbered 1 .. Total in the order the    *)
(* server sends them, so a run of documents is a pair of positions.  Page  *)
(* sizes are counted in halves: the R code takes any number.               *)
(***************************************************************************)
EXTENDS Integers

CONSTANTS Total,      \* documents in the result of the query
          MaxBatch,   \* bound: documents in one reply of the server
          PageSizes,  \* `pagesize' and `size' arguments, in halves
          Consumers,  \* "list", "handler", "lines", "iterator"
          Tailing     \* may the server answer getMore with an empty batch?

ASSUME PagingAssumption ==
    /\ Total \in Nat /\ MaxBatch \in Nat \ {0}
    /\ PageSizes \subseteq Nat
    /\ Consumers \subseteq {"list", "handler", "lines", "iterator"}
    /\ Tailing \in BOOLEAN

VARIABLES
    cstate,    \* cursor->state
    open,      \* cursor->cursor_id # 0: the server has a cursor
    cerr,      \* cursor->error: "none", "server" or "completed"
    sent,      \* last document of the batch in cursor->response
    pos,       \* last document mongoc_cursor_next has returned
    refreshed, \* attempted_refresh in mongoc_cursor_next
    pc,        \* where the reader is
    who,       \* the kind of reader
    size,      \* the page size it asks for
    from,      \* the page being filled holds the documents from + 1 .. pos
    count,     \* `count' in mongo_stream_in, mongo_export, mongo_dump
    out,       \* the pages handed over: `out' resp. what the consumer saw
    told       \* what the reader was told last

cursorVars == <<cstate, open, cerr, sent, pos, refreshed>>
readerVars == <<who, size, from, count, out, told>>
vars == <<cstate, open, cerr, sent, pos, refreshed, pc, who, size, from, count,
          out, told>>

Streaming == who # "iterator"
Length == pos - from

\* Rf_asInteger() truncates.
Whole(s) == s \div 2
-----------------------------------------------------------------------------
(***************************************************************************)
(* mongoc_cursor_next(), one transition of its state machine at a time.    *)
(***************************************************************************)

\* The checks at the top: a cursor that failed or is exhausted says so.
Refuse ==
    /\ pc = "enter"
    /\ cerr # "none" \/ cstate = "DONE"
    /\ cerr' = IF cerr = "none" THEN "completed" ELSE cerr
    /\ pc' = "check"
    /\ UNCHANGED <<cstate, open, sent, pos, refreshed, readerVars>>

Enter ==
    /\ pc = "enter"
    /\ cerr = "none" /\ cstate # "DONE"
    /\ refreshed' = FALSE
    /\ pc' = "loop"
    /\ UNCHANGED <<cstate, open, cerr, sent, pos, readerVars>>

\* A reply with the next k documents.  The server closes its cursor with the
\* last one or later; `empty' says whether it may send nothing and keep it.
Reply(empty) ==
    \/ \E k \in 0 .. MaxBatch :
          /\ sent + k <= Total
          /\ sent' = sent + k
          /\ open' \in BOOLEAN
          /\ ~open' => sent' = Total
          /\ k = 0 /\ open' => empty
          /\ cstate' = "IN_BATCH"
          /\ UNCHANGED <<cerr, pc>>
    \/ \* the connection, the server or the cursor's time is gone
       /\ cerr' = "server"
       /\ cstate' = "DONE"
       /\ pc' = "check"
       /\ UNCHANGED <<open, sent>>

\* _prime: the find or aggregate command.  batchSize 0 asks for an empty reply.
Prime ==
    /\ pc = "loop" /\ cstate = "UNPRIMED"
    /\ Reply(TRUE)
    /\ UNCHANGED <<pos, refreshed, readerVars>>

RefreshForgotten == FALSE
RefreshNoted == TRUE

\* _get_next_batch, at most once per call.
GetMore ==
    /\ pc = "loop" /\ cstate = "END_OF_BATCH" /\ ~refreshed
    /\ refreshed' = RefreshNoted
    /\ Reply(Tailing)
    /\ UNCHANGED <<pos, readerVars>>

\* The cursor stays open and mongoc_cursor_next returns false.
GiveUp ==
    /\ pc = "loop" /\ cstate = "END_OF_BATCH" /\ refreshed
    /\ pc' = "check"
    /\ UNCHANGED <<cursorVars, readerVars>>

\* _pop_from_batch finds a document, which goes on the page.
Pop ==
    /\ pc = "loop" /\ cstate = "IN_BATCH" /\ pos < sent
    /\ pos' = pos + 1
    /\ pc' = IF pos' - from < Whole(size) THEN "enter" ELSE "check"
    /\ UNCHANGED <<cstate, open, cerr, sent, refreshed, readerVars>>

\* _pop_from_batch finds none.
Drained ==
    /\ pc = "loop" /\ cstate = "IN_BATCH" /\ pos = sent
    /\ cstate' = IF open THEN "END_OF_BATCH" ELSE "DONE"
    /\ pc' = IF open THEN "loop" ELSE "check"
    /\ UNCHANGED <<open, cerr, sent, pos, refreshed, readerVars>>
-----------------------------------------------------------------------------
(***************************************************************************)
(* Pages.                                                                  *)
(***************************************************************************)

\* The next page is asked for.  A page of length 0 never calls the cursor.
Ask(s) ==
    /\ pc = "ask"
    /\ Streaming => s = size
    /\ size' = s
    /\ from' = pos
    /\ pc' = IF Whole(s) > 0 THEN "enter" ELSE "check"
    /\ UNCHANGED <<cursorVars, who, count, out, told>>

\* mongoc_cursor_error() is asked on an empty and on a short page.
FailedWhenEmpty == Length = 0 /\ cerr # "none"
Failed == (Length = 0 \/ Length < Whole(size)) /\ cerr # "none"

\* if(length(page) < pagesize) break
StopOnEmptyPage(len, s) == len = 0
LastPage(len, s)        == 2 * len < s

\* count <<- count + length(x)
CountsPagesize(len) == count + Whole(size)
CountAfter(len) == count + len

\* stop(err.message): a loop ends; an iterator can be asked again.
Raise ==
    /\ pc = "check" /\ Failed
    /\ told' = "error"
    /\ pc' = IF Streaming THEN "over" ELSE "ask"
    /\ UNCHANGED <<cursorVars, who, size, from, count, out>>

\* The handler or the connection written to stops, or the user interrupts.
ConsumerFails ==
    /\ pc = "check" /\ ~Failed /\ who \in {"handler", "lines"}
    /\ told' = "error"
    /\ pc' = "over"
    /\ UNCHANGED <<cursorVars, who, size, from, count, out>>

\* A page is handed over and counted; `out' files it under the new count.
Answer ==
    LET last == IF Streaming THEN LastPage(Length, size) ELSE Length = 0 IN
    /\ pc = "check" /\ ~Failed
    /\ count' = CountAfter(Length)
    /\ out' = IF Length = 0 THEN out
              ELSE out \cup {[key |-> count', lo |-> from, hi |-> pos]}
    /\ told' = IF last THEN "end" ELSE "more"
    /\ pc' = IF last /\ Streaming THEN "over" ELSE "ask"
    /\ UNCHANGED <<cursorVars, who, size, from>>
-----------------------------------------------------------------------------
\* An invalid option has already put an error on the cursor.
Init ==
    /\ cstate = "UNPRIMED"
    /\ open = FALSE
    /\ cerr \in {"none", "server"}
    /\ sent = 0
    /\ pos = 0
    /\ refreshed = FALSE
    /\ pc = "ask"
    /\ who \in Consumers
    /\ size \in PageSizes
    /\ from = 0
    /\ count = 0
    /\ out = {}
    /\ told = "more"

CursorStep == Refuse \/ Enter \/ Prime \/ GetMore \/ GiveUp \/ Pop \/ Drained

Next ==
    \/ CursorStep
    \/ \E s \in PageSizes : Ask(s)
    \/ Raise
    \/ ConsumerFails
    \/ Answer

Spec == Init /\ [][Next]_vars

\* A call runs to its end: the driver's socket timeout turns a silent server
\* into a failed reply.
FairSpec == Spec /\ WF_vars(Next)
-----------------------------------------------------------------------------
(***************************************************************************)
(* Properties.                                                             *)
(***************************************************************************)

\* The cursor, the page and the loop's variables have the values the C and R
\* code gives them.
TypeOK ==
    /\ cstate \in {"UNPRIMED", "IN_BATCH", "END_OF_BATCH", "DONE"}
    /\ open \in BOOLEAN
    /\ cerr \in {"none", "server", "completed"}
    /\ sent \in 0 .. Total
    /\ pos \in 0 .. sent
    /\ refreshed \in BOOLEAN
    /\ pc \in {"ask", "enter", "loop", "check", "over"}
    /\ who \in Consumers
    /\ size \in PageSizes
    /\ from \in 0 .. pos
    /\ count \in 0 .. Total
    /\ out \in SUBSET [key : 1 .. Total, lo : 0 .. Total, hi : 1 .. Total]
    /\ told \in {"more", "end", "error"}

\* Whatever mixture of batch and page boundaries, short pages and empty replies:
\* the pages handed over hold each of the first `count' documents exactly once,
\* and sorting them by the key of `out' (R/stream.R:63) restores the order of
\* the server.
InOrder ==
    /\ \A d \in 1 .. count : \E p \in out : d \in p.lo + 1 .. p.hi
    /\ \A p, q \in out : p.key < q.key => p.hi <= q.lo
    /\ \A p, q \in out : p.key = q.key => p = q

\* "Default handler will return all data as a single dataframe" (R/mongo.R:98),
\* "Streams all data" (R/mongo.R:97): a loop that ends without an error, and an
\* iterator that returns NULL, have handed over the whole result.
EndMeansAll == told = "end" => count = Total

\* A loop stops on the first short page, so it never advances a cursor that is
\* already exhausted: no query that succeeded is reported as an error.
NoSpuriousError == Streaming => cerr # "completed"

\* Reading implements the abstract specification: in order, without gaps, the
\* end only after the last document, an error otherwise.
Told == CASE told = "end" -> "done"
          [] told = "error" -> "failed"
          [] OTHER -> "open"

Abstract == INSTANCE Result WITH got <- count, status <- Told

ImplementsResult == Abstract!Spec

\* find(), export() and aggregate() return, even on a cursor that the server
\* keeps open and answers with empty batches for ever.
Terminates == Streaming => <>(pc = "over")
=============================================================================
