------------------------------- MODULE Insert -------------------------------
(***************************************************************************)
(* Writing documents to a collection: the methods insert() and import() of *)
(* mongo(), over mongo_stream_out(), mongo_import(), R_mongo_restore and   *)
(* R_mongo_collection_insert_page, down to libmongoc's bulk operation and  *)
(* the batches it sends.                                                   *)
(*                                                                         *)
(* A document is its position in the input, and its kind says what becomes *)
(* of it:                                                                  *)
(*   "ok"       the server stores it                                       *)
(*   "dup"      the server rejects it, with a duplicate key for instance   *)
(*   "huge"     it is larger than maxBsonObjectSize                        *)
(*   "invalid"  _mongoc_validate_new_document refuses it                   *)
(*   "nobson"   JSON, but bson_new_from_json refuses it                    *)
(*   "nojson"   jsonlite::validate refuses it                              *)
(*   "blank"    a blank line                                               *)
(*   "corrupt"  bson_reader_read returns NULL and is not at the end        *)
(*   "cut"      BSON whose length reaches beyond the end of the input      *)
(***************************************************************************)
EXTENDS Integers, Sequences, FiniteSets

CONSTANTS MaxDocs,    \* bound: length of the input
          Kinds,      \* kinds of documents in it
          Modes,      \* "frame", "strings", "bson", "import", "restore"
          PageSize,   \* `pagesize', 100 lines, 1000 documents
          MaxBatch,   \* maxWriteBatchSize: documents in one message
          Splits,     \* modes in which a page may exceed the size of a message
          Faults      \* subset of {"lost", "noserver", "concern"}

KindsOf == [frame   |-> {"ok", "dup", "huge", "invalid", "nobson"},
            strings |-> {"ok", "dup", "huge", "invalid", "nobson", "nojson"},
            bson    |-> {"ok", "dup", "huge", "invalid"},
            import  |-> {"ok", "dup", "huge", "invalid", "nobson", "nojson",
                         "blank"},
            restore |-> {"ok", "dup", "huge", "invalid", "corrupt", "cut"}]

ASSUME InsertAssumption ==
    /\ MaxDocs \in Nat /\ PageSize \in Nat \ {0} /\ MaxBatch \in Nat \ {0}
    /\ Modes \subseteq DOMAIN KindsOf
    /\ Splits \subseteq Modes /\ Faults \subseteq {"lost", "noserver", "concern"}

VARIABLES
    mode,     \* the function that inserts
    stop,     \* `stop_on_error'
    input,    \* the documents
    pc,       \* where the call is
    lo, next, \* the page is made of the documents lo + 1 .. next
    done,     \* `done' in R_mongo_restore: the reader is at the end
    sent,     \* last document _mongoc_write_opmsg has sent
    failed,   \* result->failed, or there is a writeConcernError
    ins,      \* result->nInserted
    warned,   \* a warning has been given
    bare,     \* a page's reply has no nInserted
    total,    \* `count', or the sum of nInserted
    stored,   \* the documents on the server
    outcome   \* "none", "ok", "warning" or "error"

callVars == <<mode, stop, input>>
bulkVars == <<sent, failed, ins>>
vars == <<mode, stop, input, pc, lo, next, done, sent, failed, ins, warned,
          bare, total, stored, outcome>>

\* Only insert() has `stop_on_error', which it does not use for a bson object.
Raises == stop \/ mode \in {"bson", "import", "restore"}

OnePage == mode \in {"strings", "bson"}

Docs == {i \in DOMAIN input : input[i] # "blank"}
Page == {i \in Docs : lo < i /\ i <= next}
Some(page, kinds) == \E i \in page : input[i] \in kinds

Smaller(m, n) == IF m < n THEN m ELSE n

Fail == pc' = "over" /\ outcome' = "error"
-----------------------------------------------------------------------------
(***************************************************************************)
(* Pages.                                                                  *)
(***************************************************************************)

\* apply_by_pages, readLines(con, n = 100), or all there is.
TakePage ==
    /\ pc = "read" /\ mode # "restore"
    /\ lo' = next
    /\ next' = IF OnePage THEN Len(input)
               ELSE Smaller(next + PageSize, Len(input))
    /\ pc' = "queue"
    /\ UNCHANGED <<callVars, done, bulkVars, warned, bare, total, stored, outcome>>

\* if(i == 0) break
KeepsReading == "more"
EmptyRound   == "finish"

\* One round of R_mongo_restore: up to 1000 documents, until bson_reader_read
\* returns NULL, which it does again on the next call.
RestorePage ==
    LET Readable(e) == ~\E i \in next + 1 .. e : input[i] \in {"corrupt", "cut"}
        upto == Smaller(next + PageSize, Len(input))
        e == CHOOSE n \in next .. upto :
                /\ Readable(n)
                /\ \A m \in n + 1 .. upto : ~Readable(m)
    IN  /\ pc = "read" /\ mode = "restore"
        /\ lo' = next
        /\ next' = e
        /\ done' = (/\ e - next < PageSize
                    /\ e < Len(input) => input[e + 1] = "cut")
        /\ total' = total + (e - next)
        /\ pc' = IF e = next THEN EmptyRound ELSE "queue"
        /\ UNCHANGED <<callVars, bulkVars, warned, bare, stored, outcome>>

\* The connection fails, toJSON() does, or the user interrupts.
SourceFails ==
    /\ pc = "read"
    /\ Fail
    /\ UNCHANGED <<callVars, lo, next, done, bulkVars, warned, bare, total, stored>>

\* After a page.
More ==
    /\ pc = "more"
    /\ pc' = IF \/ OnePage
                \/ mode = "restore" /\ done
                \/ mode # "restore" /\ next = Len(input)
             THEN "finish" ELSE "read"
    /\ UNCHANGED <<callVars, lo, next, done, bulkVars, warned, bare, total,
                   stored, outcome>>

\* mongo_stream_out() adds up the replies, and needs nInserted in each.
\* R_mongo_restore warns if it did not get to the end.
Finish ==
    /\ pc = "finish"
    /\ pc' = "over"
    /\ outcome' = CASE mode = "frame" /\ bare -> "error"
                    [] warned \/ ~done -> "warning"
                    [] OTHER -> "ok"
    /\ UNCHANGED <<callVars, lo, next, done, bulkVars, warned, bare, total, stored>>
-----------------------------------------------------------------------------
(***************************************************************************)
(* A page: R_mongo_collection_insert_page, the bulk operation.             *)
(***************************************************************************)

\* mongoc_bulk_operation_execute gives up before it sends anything; its reply is
\* empty.
GivesUp ==
    /\ IF Raises THEN Fail /\ UNCHANGED <<warned, bare>>
       ELSE /\ warned' = TRUE /\ bare' = TRUE
            /\ pc' = "more"
            /\ UNCHANGED outcome
    /\ UNCHANGED <<bulkVars, total>>

\* The JSON is validated and parsed, and the documents go on the bulk operation.
\* A document it refuses makes the whole operation fail.
Queue ==
    /\ pc = "queue"
    /\ IF Page = {} \/ Some(Page, {"nojson", "nobson"})
       THEN Fail /\ UNCHANGED <<bulkVars, warned, bare, total>>
       ELSE IF Some(Page, {"invalid"}) THEN GivesUp
       ELSE /\ pc' = "send"
            /\ sent' = lo /\ failed' = FALSE /\ ins' = 0
            /\ UNCHANGED <<warned, bare, total, outcome>>
    /\ UNCHANGED <<callVars, lo, next, done, stored>>

\* No server can be selected.
NoServer ==
    /\ pc = "send" /\ sent = lo /\ "noserver" \in Faults
    /\ GivesUp
    /\ UNCHANGED <<callVars, lo, next, done, stored>>

\* The server executes an ordered insert up to the first error.
Unordered(batch) == {i \in batch : input[i] = "ok"}
Accepted(batch) ==
    {i \in batch : \A j \in batch : j <= i => input[j] = "ok"}

\* One batch of _mongoc_write_opmsg: documents up to maxWriteBatchSize, the size
\* of a message, or the end of the page.
Batch(e) == {i \in Page : sent < i /\ i <= e}
Ships(e) ==
    /\ e \in Page /\ e > sent
    /\ ~Some(Batch(e), {"huge"})
    /\ Cardinality(Batch(e)) <= MaxBatch
    /\ \/ Cardinality(Batch(e)) = MaxBatch
       \/ \A i \in Page : i <= e
       \/ mode \in Splits

\* result->nInserted += n; a server error and writeErrors set result->failed.
MergesAll(batch) == Cardinality(batch)
Merged(batch) == Cardinality(Accepted(batch))
FailsNever(batch) == FALSE
HasErrors(batch) == Accepted(batch) # batch

\* The batch is answered.  Neither writeErrors nor a writeConcernError in the
\* reply stop the loop.
Send(e) ==
    /\ pc = "send" /\ Ships(e)
    /\ stored' = stored \cup Accepted(Batch(e))
    /\ ins' = ins + Merged(Batch(e))
    /\ \/ failed' = (failed \/ HasErrors(Batch(e)))
       \/ "concern" \in Faults /\ failed' = TRUE
    /\ sent' = e
    /\ pc' = IF \A i \in Page : i <= e THEN "complete" ELSE "send"
    /\ UNCHANGED <<callVars, lo, next, done, warned, bare, total, outcome>>

\* The command fails or its reply is lost, retries included: the server has
\* stored some of the documents, and the loop stops.
SendFails(e) ==
    /\ pc = "send" /\ Ships(e) /\ "lost" \in Faults
    /\ \E k \in Batch(e) \cup {sent} :
          stored' = stored \cup {i \in Accepted(Batch(e)) : i <= k}
    /\ failed' = TRUE
    /\ sent' = e
    /\ pc' = "complete"
    /\ UNCHANGED <<callVars, lo, next, done, ins, warned, bare, total, outcome>>

\* A document that is too large ends the loop; those before it in the batch are
\* not sent.
TooLarge(h) ==
    /\ pc = "send"
    /\ h \in Page /\ h > sent /\ input[h] = "huge"
    /\ ~Some(Batch(h) \ {h}, {"huge"})
    /\ Cardinality(Batch(h) \ {h}) < MaxBatch
    /\ failed' = TRUE
    /\ pc' = "complete"
    /\ UNCHANGED <<callVars, lo, next, done, sent, ins, warned, bare, total,
                   stored, outcome>>

\* The result of the page: an error or a warning, and the count.
CountsPage == total + Cardinality(Page)
CountAfter == CASE mode = "import" -> total + Cardinality(Page)
                [] mode = "restore" -> total
                [] OTHER -> total + ins

Complete ==
    /\ pc = "complete"
    /\ IF failed /\ Raises
       THEN Fail /\ UNCHANGED <<warned, total>>
       ELSE /\ warned' = (warned \/ failed)
            /\ total' = CountAfter
            /\ pc' = "more"
            /\ UNCHANGED outcome
    /\ UNCHANGED <<callVars, lo, next, done, bulkVars, bare, stored>>
-----------------------------------------------------------------------------
Inputs(m) == UNION {[1 .. n -> Kinds \cap KindsOf[m]] :
                    n \in IF m = "bson" THEN {1} ELSE 0 .. MaxDocs}

Init ==
    /\ mode \in Modes
    /\ stop \in BOOLEAN
    /\ input \in Inputs(mode)
    /\ pc = IF mode \in {"frame", "import"} THEN "more" ELSE "read"
    /\ lo = 0 /\ next = 0
    /\ done = (mode # "restore")
    /\ sent = 0 /\ failed = FALSE /\ ins = 0
    /\ warned = FALSE
    /\ bare = FALSE
    /\ total = 0
    /\ stored = {}
    /\ outcome = "none"

Next ==
    \/ TakePage
    \/ RestorePage
    \/ SourceFails
    \/ More
    \/ Finish
    \/ Queue
    \/ NoServer
    \/ \E i \in Page : Send(i) \/ SendFails(i) \/ TooLarge(i)
    \/ Complete

Spec == Init /\ [][Next]_vars

\* The call runs: the source ends and the driver's timeouts end every command.
FairSpec == Spec /\ WF_vars(Next)
-----------------------------------------------------------------------------
(***************************************************************************)
(* Properties.                                                             *)
(***************************************************************************)

\* The page, the bulk operation and the counts have the values the R and C code
\* gives them.
TypeOK ==
    /\ mode \in Modes /\ stop \in BOOLEAN
    /\ input \in Inputs(mode)
    /\ pc \in {"read", "queue", "send", "complete", "more", "finish", "over"}
    /\ lo \in 0 .. next /\ next \in 0 .. Len(input)
    /\ done \in BOOLEAN
    /\ sent \in 0 .. next /\ failed \in BOOLEAN /\ ins \in 0 .. Len(input)
    /\ warned \in BOOLEAN /\ bare \in BOOLEAN
    /\ total \in 0 .. Len(input)
    /\ stored \in SUBSET Docs
    /\ outcome \in {"none", "ok", "warning", "error"}

\* A call that returns without an error or a warning has stored every document
\* of its input and reports their number, whatever the boundaries of pages and
\* batches and whichever command failed.
OkMeansStored ==
    outcome = "ok" => stored = Docs /\ total = Cardinality(Docs)

\* A call that returns, with a warning or without, never reports more documents
\* than are on the server.
NeverOverReports ==
    outcome \in {"ok", "warning"} => total <= Cardinality(stored)

\* The documents of a page, and whether they go in one message.
PageOf(i) == {k \in Docs : OnePage \/ (k - 1) \div PageSize = (i - 1) \div PageSize}
OneMessage(i) == mode \notin Splits /\ Cardinality(PageOf(i)) <= MaxBatch

\* "ordered means serial execution" (src/collection.c:96), where ordered is
\* stop_on_error, and "default opts uses {ordered:true}" (src/reader.c:42): if
\* errors stop the call, no document is stored after one that is not, of those in
\* pages that go in one message, nor one of a later page.  What is stored can be
\* resumed after.
PrefixStored ==
    Raises => \A i \in stored, j \in Docs : j < i /\ OneMessage(j) => j \in stored

\* The same comment of the other case: without stop_on_error execution is not
\* serial, so that a call whose commands reach the server stores every document
\* the server accepts.  The bulk operation does not get to know (line 103).
AcceptedAreStored ==
    outcome \in {"ok", "warning"} /\ ~Raises /\ Faults = {} =>
        \A i \in Docs : input[i] = "ok" => i \in stored

\* insert() and import() return, on a corrupt dump too.
Terminates == <>(pc = "over")
=============================================================================
