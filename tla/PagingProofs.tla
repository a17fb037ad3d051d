---------------------------- MODULE PagingProofs ----------------------------
(***************************************************************************)
(* Proofs about Paging, for results, batches and pages of any size.        *)
(***************************************************************************)
EXTENDS Paging, TLAPS

\* What the cursor's state says about the reply it holds.
CursorOK ==
    /\ cstate = "IN_BATCH" /\ ~open => sent = Total
    /\ cstate = "END_OF_BATCH" => open /\ pos = sent
    /\ cstate = "DONE" /\ cerr # "server" => pos = Total
    /\ cerr = "completed" => cstate = "DONE"
    /\ pc = "loop" => cstate # "DONE" /\ cerr = "none"

\* How the page being filled continues what was handed over.  After an error
\* it does not, and no other page is handed over.
PageOK ==
    /\ pc \in {"enter", "loop"} => Length < Whole(size)
    /\ told # "error" => count = IF pc = "ask" THEN pos ELSE
                                 IF pc = "over" THEN count ELSE from
    /\ told = "error" => \/ pc = "over"
                         \/ /\ pc \in {"ask", "enter", "check"}
                            /\ cerr # "none"
                            /\ pc = "ask" \/ from = pos
    /\ \A p \in out : p.key = p.hi /\ p.lo < p.hi /\ p.hi <= count

\* A loop that is not over has not exhausted the cursor, except on its last page.
LoopOK ==
    /\ Streaming /\ pc \in {"ask", "enter"} => cstate # "DONE" \/ cerr = "server"
    /\ Streaming /\ pc = "check" /\ ~LastPage(Length, size) =>
           cstate # "DONE" \/ cerr = "server"

IInv ==
    /\ TypeOK
    /\ CursorOK
    /\ PageOK
    /\ LoopOK
    /\ InOrder
    /\ NoSpuriousError
-----------------------------------------------------------------------------
LEMMA InitIInv == Init => IInv
<1> SUFFICES ASSUME Init PROVE IInv
  OBVIOUS
<1>1. TypeOK
  <2>1. out \in SUBSET [key : 1 .. Total, lo : 0 .. Total, hi : 1 .. Total]
    BY DEF Init
  <2>2. 0 \in 0 .. Total /\ 0 \in 0 .. 0
    BY PagingAssumption
  <2> QED
    BY <2>1, <2>2, PagingAssumption DEF Init, TypeOK
<1>2. CursorOK /\ PageOK /\ LoopOK
  BY <1>1, PagingAssumption DEF Init, CursorOK, PageOK, LoopOK
<1>3. InOrder /\ NoSpuriousError
  BY PagingAssumption DEF Init, InOrder, NoSpuriousError
<1> QED
  BY <1>1, <1>2, <1>3 DEF IInv

\* The driver's transitions leave the pages handed over alone.
LEMMA KeepsOrder ==
    ASSUME InOrder, UNCHANGED <<count, out>>
    PROVE  InOrder'
BY DEF InOrder

LEMMA SizeFacts ==
    ASSUME TypeOK
    PROVE  /\ Total \in Nat /\ MaxBatch \in Nat /\ sent \in Nat /\ pos \in Nat
           /\ from \in Nat /\ count \in Nat /\ size \in Nat
           /\ Whole(size) \in Nat /\ Length \in Nat
           /\ 2 * Whole(size) <= size /\ size <= 2 * Whole(size) + 1
           /\ from <= pos /\ pos <= sent /\ sent <= Total /\ count <= Total
BY PagingAssumption DEF TypeOK, Whole, Length

LEMMA RefuseStep == IInv /\ Refuse => IInv'
<1> SUFFICES ASSUME IInv, Refuse PROVE IInv'
  OBVIOUS
<1> USE DEF IInv, Refuse, readerVars
<1>1. TypeOK'
  BY DEF TypeOK
<1>2. CursorOK'
  BY DEF CursorOK, TypeOK
<1>3. PageOK'
  BY DEF PageOK, Length, TypeOK
<1>4. LoopOK' /\ NoSpuriousError'
  BY DEF LoopOK, NoSpuriousError, Streaming, Length, LastPage, TypeOK
<1> QED
  BY <1>1, <1>2, <1>3, <1>4, KeepsOrder

LEMMA EnterStep == IInv /\ Enter => IInv'
<1> SUFFICES ASSUME IInv, Enter PROVE IInv'
  OBVIOUS
<1> USE DEF IInv, Enter, readerVars
<1>1. TypeOK'
  BY DEF TypeOK
<1>2. CursorOK' /\ PageOK' /\ LoopOK' /\ NoSpuriousError'
  BY DEF CursorOK, PageOK, LoopOK, NoSpuriousError, Streaming, Length, Whole
<1> QED
  BY <1>1, <1>2, KeepsOrder

LEMMA ReplyStep == IInv /\ (Prime \/ GetMore) => IInv'
<1> SUFFICES ASSUME IInv, Prime \/ GetMore PROVE IInv'
  OBVIOUS
<1> USE DEF IInv, readerVars
<1>1. PICK e \in BOOLEAN : Reply(e)
  BY PagingAssumption DEF Prime, GetMore
<1>2. pc = "loop" /\ refreshed' \in BOOLEAN /\ UNCHANGED <<pos, readerVars>>
  BY DEF Prime, GetMore, RefreshNoted, TypeOK
<1>3. TypeOK'
  BY <1>1, <1>2, SizeFacts DEF Reply, TypeOK
<1>4. CursorOK' /\ PageOK'
  BY <1>1, <1>2, SizeFacts DEF Reply, CursorOK, PageOK, Length, Whole
<1>5. LoopOK' /\ NoSpuriousError'
  BY <1>1, <1>2 DEF Reply, CursorOK, LoopOK, NoSpuriousError, Streaming, Length
<1> QED
  BY <1>2, <1>3, <1>4, <1>5, KeepsOrder

LEMMA GiveUpStep == IInv /\ GiveUp => IInv'
<1> SUFFICES ASSUME IInv, GiveUp PROVE IInv'
  OBVIOUS
<1> USE DEF IInv, GiveUp, readerVars, cursorVars
<1>1. TypeOK'
  BY DEF TypeOK
<1>2. CursorOK' /\ PageOK' /\ LoopOK' /\ NoSpuriousError'
  BY DEF CursorOK, PageOK, LoopOK, NoSpuriousError, Streaming, Length
<1> QED
  BY <1>1, <1>2, KeepsOrder

LEMMA PopStep == IInv /\ Pop => IInv'
<1> SUFFICES ASSUME IInv, Pop PROVE IInv'
  OBVIOUS
<1> USE DEF IInv, Pop, readerVars
<1>1. TypeOK'
  BY SizeFacts DEF TypeOK
<1>2. CursorOK' /\ PageOK'
  BY SizeFacts DEF CursorOK, PageOK, Length, Whole
<1>3. LoopOK' /\ NoSpuriousError'
  BY DEF LoopOK, NoSpuriousError, Streaming
<1> QED
  BY <1>1, <1>2, <1>3, KeepsOrder

LEMMA DrainedStep == IInv /\ Drained => IInv'
<1> SUFFICES ASSUME IInv, Drained PROVE IInv'
  OBVIOUS
<1> USE DEF IInv, Drained, readerVars
<1>1. TypeOK'
  BY DEF TypeOK
<1>2. CursorOK' /\ PageOK'
  BY SizeFacts DEF CursorOK, PageOK, Length, Whole
<1>3. NoSpuriousError'
  BY DEF NoSpuriousError, Streaming
<1>4. LoopOK'
  \* The page is short: it was not full when the driver was called.
  <2>1. LastPage(Length, size)
    BY SizeFacts DEF PageOK, LastPage
  <2> QED
    BY <2>1 DEF LoopOK, Streaming, LastPage, Length
<1> QED
  BY <1>1, <1>2, <1>3, <1>4, KeepsOrder

LEMMA AskStep == ASSUME IInv, NEW s \in PageSizes, Ask(s) PROVE IInv'
<1> USE DEF IInv, Ask, cursorVars
<1>1. TypeOK'
  BY SizeFacts DEF TypeOK
<1>2. s \in Nat /\ Whole(s) \in Nat /\ Length' = 0
  BY <1>1, PagingAssumption DEF Whole, Length, TypeOK
<1>3. CursorOK'
  BY DEF CursorOK
<1>4. PageOK'
  BY <1>2 DEF PageOK, Whole
<1>5. LoopOK' /\ NoSpuriousError'
  BY DEF LoopOK, NoSpuriousError, Streaming
<1> QED
  BY <1>1, <1>3, <1>4, <1>5, KeepsOrder

LEMMA ErrorStep == IInv /\ (Raise \/ ConsumerFails) => IInv'
<1> SUFFICES ASSUME IInv, Raise \/ ConsumerFails PROVE IInv'
  OBVIOUS
<1> USE DEF IInv, Raise, ConsumerFails, cursorVars
<1>1. TypeOK'
  BY DEF TypeOK
<1>2. CursorOK'
  BY DEF CursorOK
<1>3. PageOK'
  BY DEF PageOK, Failed, Streaming
<1>4. LoopOK' /\ NoSpuriousError'
  BY DEF LoopOK, NoSpuriousError, Streaming
<1> QED
  BY <1>1, <1>2, <1>3, <1>4, KeepsOrder

LEMMA AnswerStep == IInv /\ Answer => IInv'
<1> SUFFICES ASSUME IInv, Answer PROVE IInv'
  OBVIOUS
<1> DEFINE page == [key |-> pos, lo |-> from, hi |-> pos]
<1>1. /\ pc = "check" /\ ~Failed /\ UNCHANGED <<cursorVars, who, size, from>>
      /\ pc' \in {"over", "ask"} /\ told' \in {"end", "more"}
      /\ pc' = "ask" /\ Streaming => ~LastPage(Length, size)
  BY DEF Answer, Streaming
<1>2. told # "error" /\ count = from
  BY <1>1, SizeFacts DEF IInv, PageOK, Failed, Length
<1>3. count' = pos /\ out' = IF from = pos THEN out ELSE out \cup {page}
  <2>1. count' = pos
    BY <1>2, SizeFacts DEF IInv, Answer, CountAfter, Length
  <2>2. Length = 0 <=> from = pos
    BY SizeFacts DEF IInv, Length
  <2> QED
    BY <2>1, <2>2 DEF Answer
<1>4. TypeOK'
  <2>1. out' \in SUBSET [key : 1 .. Total, lo : 0 .. Total, hi : 1 .. Total]
    BY <1>3, SizeFacts DEF IInv, TypeOK
  <2> QED
    BY <2>1, <1>1, <1>3, SizeFacts DEF IInv, TypeOK, cursorVars
<1>5. CursorOK' /\ NoSpuriousError'
  BY <1>1 DEF IInv, CursorOK, NoSpuriousError, Streaming, cursorVars
<1>6. \A p \in out : /\ p.key = p.hi /\ p.lo < p.hi /\ p.hi <= from
                     /\ p.key \in Nat /\ p.lo \in Nat /\ p.hi \in Nat
  BY <1>2, PagingAssumption DEF IInv, PageOK, TypeOK
<1>7. PageOK'
  <2>1. \A p \in out' : p.key = p.hi /\ p.lo < p.hi /\ p.hi <= pos
    BY <1>3, <1>6, SizeFacts DEF IInv
  <2> QED
    BY <2>1, <1>1, <1>3 DEF IInv, PageOK, cursorVars
<1>8. LoopOK'
  BY <1>1 DEF IInv, LoopOK, Streaming, cursorVars
<1>9. InOrder'
  <2>1. ASSUME NEW d \in 1 .. pos
        PROVE  \E p \in out' : d \in p.lo + 1 .. p.hi
    <3>1. CASE d <= from
      BY <3>1, <1>2, <1>3, SizeFacts DEF IInv, InOrder
    <3>2. CASE d > from
      <4>1. page \in out' /\ d \in page.lo + 1 .. page.hi
        BY <3>2, <1>3, SizeFacts DEF IInv
      <4> QED
        BY <4>1
    <3> QED
      BY <3>1, <3>2, SizeFacts DEF IInv
  <2>2. ASSUME NEW p \in out', NEW q \in out'
        PROVE  (p.key < q.key => p.hi <= q.lo) /\ (p.key = q.key => p = q)
    <3>1. CASE p \in out /\ q \in out
      BY <3>1 DEF IInv, InOrder
    <3>2. CASE p \in out /\ q = page
      BY <3>2, <1>3, <1>6, SizeFacts DEF IInv
    <3>3. CASE p = page /\ q \in out
      BY <3>3, <1>3, <1>6, SizeFacts DEF IInv
    <3>4. CASE p = page /\ q = page
      BY <3>4, SizeFacts DEF IInv
    <3> QED
      BY <3>1, <3>2, <3>3, <3>4, <1>3
  <2> QED
    BY <2>1, <2>2, <1>3 DEF InOrder
<1> QED
  BY <1>4, <1>5, <1>7, <1>8, <1>9 DEF IInv

LEMMA NextStep == IInv /\ [Next]_vars => IInv'
<1> SUFFICES ASSUME IInv, [Next]_vars PROVE IInv'
  OBVIOUS
<1>1. CASE UNCHANGED vars
  BY <1>1 DEF vars, IInv, TypeOK, CursorOK, PageOK, LoopOK, InOrder, Streaming,
     NoSpuriousError, Length, Whole, LastPage
<1>2. CASE Next
  BY <1>2, RefuseStep, EnterStep, ReplyStep, GiveUpStep, PopStep, DrainedStep,
     AskStep, ErrorStep, AnswerStep DEF Next, CursorStep
<1> QED
  BY <1>1, <1>2
-----------------------------------------------------------------------------
\* The inductive invariant of the cursor and the loops over it.
THEOREM PagingInvariance == Spec => []IInv
BY InitIInv, NextStep, PTL DEF Spec

\* Type correctness of the cursor, the page and the loop's variables.
THEOREM PagingTypes == Spec => []TypeOK
<1>1. IInv => TypeOK
  BY DEF IInv
<1> QED
  BY <1>1, PagingInvariance, PTL

\* Pages of any size over batches of any size: nothing is handed over twice or
\* skipped, and the keys of `out' in mongo_stream_in sort into server order.
THEOREM PagesInOrder == Spec => []InOrder
<1>1. IInv => InOrder
  BY DEF IInv
<1> QED
  BY <1>1, PagingInvariance, PTL

\* No loop of mongolite advances a cursor that is already exhausted.
THEOREM NeverSpurious == Spec => []NoSpuriousError
<1>1. IInv => NoSpuriousError
  BY DEF IInv
<1> QED
  BY <1>1, PagingInvariance, PTL
-----------------------------------------------------------------------------
(***************************************************************************)
(* Completeness, for page sizes that are whole numbers of documents and a  *)
(* server that keeps a cursor open only to send more.                      *)
(***************************************************************************)
WholePages == \A s \in PageSizes : Whole(s) > 0 /\ 2 * Whole(s) = s

\* A short page without an error exhausts the cursor; nothing follows the end.
EndOK ==
    /\ pc = "loop" /\ refreshed =>
          cstate = "IN_BATCH" /\ (pos < sent \/ ~open)
    /\ pc = "check" /\ cerr = "none" /\ Length < Whole(size) => cstate = "DONE"
    /\ told = "end" => /\ count = Total /\ pos = Total
                       /\ pc = "over" \/ cstate = "DONE"
                       /\ pc = "check" => cerr # "none"

LEMMA EndInductive ==
    ASSUME WholePages, ~Tailing, IInv, EndOK, [Next]_vars
    PROVE  EndOK'
<1> USE DEF EndOK
<1> IInv'
  BY NextStep
<1>1. CASE UNCHANGED vars
  BY <1>1 DEF vars, Length, Whole
<1>2. CASE Refuse \/ Enter
  BY <1>2, SizeFacts DEF Refuse, Enter, readerVars, IInv, Length, Whole
<1>3. CASE Prime
  BY <1>3, SizeFacts DEF Prime, Reply, readerVars, IInv, Length, CursorOK
<1>4. CASE GetMore
  <2>1. /\ told # "end" /\ pos = sent /\ pc = "loop"
        /\ Reply(Tailing) /\ UNCHANGED <<pos, readerVars>>
    BY <1>4 DEF GetMore, IInv, CursorOK
  <2>2. CASE cerr' = "server" /\ pc' = "check"
    BY <2>1, <2>2 DEF readerVars
  <2>3. CASE cstate' = "IN_BATCH" /\ (sent' > sent \/ ~open') /\ pc' = pc
    BY <2>1, <2>3 DEF readerVars
  <2>4. ASSUME NEW k \in 0 .. MaxBatch, sent' = sent + k, k = 0 /\ open' => Tailing
        PROVE  sent' > sent \/ ~open'
    BY <2>4, SizeFacts DEF IInv
  <2> QED
    BY <2>1, <2>2, <2>3, <2>4 DEF Reply
<1>5. CASE GiveUp
  BY <1>5, SizeFacts DEF GiveUp, readerVars, cursorVars, IInv
<1>6. CASE Pop
  BY <1>6, SizeFacts DEF Pop, readerVars, IInv, Length, Whole
<1>7. CASE Drained
  BY <1>7, SizeFacts DEF Drained, readerVars, IInv, Length
<1>8. ASSUME NEW s \in PageSizes, Ask(s)
      PROVE  EndOK'
  BY <1>8, SizeFacts DEF Ask, WholePages, cursorVars, IInv
<1>9. CASE Raise \/ ConsumerFails
  BY <1>9 DEF Raise, ConsumerFails, cursorVars
<1>10. CASE Answer
  <2>1. Whole(size) > 0 /\ 2 * Whole(size) = size
    BY DEF IInv, TypeOK, WholePages
  <2>2. pc' \in {"ask", "over"} /\ told' \in {"end", "more"}
    BY <1>10 DEF Answer
  <2>3. ASSUME told' = "end"
        PROVE  Length < Whole(size)
    BY <1>10, <2>1, <2>3, SizeFacts DEF Answer, LastPage, Streaming, IInv
  <2>4. ASSUME told' = "end"
        PROVE  cstate = "DONE" /\ cerr = "none" /\ pos = Total
    BY <1>10, <2>3, <2>4 DEF Answer, Failed, IInv, CursorOK
  <2>5. count = from /\ count' = pos /\ UNCHANGED <<pos, cstate>>
    BY <1>10, SizeFacts DEF Answer, CountAfter, Length, IInv, PageOK, Failed,
       cursorVars
  <2> QED
    BY <2>2, <2>4, <2>5
<1> QED
  BY <1>1, <1>2, <1>3, <1>4, <1>5, <1>6, <1>7, <1>8, <1>9, <1>10
     DEF Next, CursorStep

\* find(), aggregate() and export() that end without an error, and an iterator
\* that returns NULL, have handed over the whole result.
THEOREM CompleteResult ==
    ASSUME WholePages, ~Tailing
    PROVE  Spec => []EndMeansAll
<1>1. Init => EndOK
  BY DEF Init, EndOK, Length
<1>2. IInv /\ EndOK /\ [Next]_vars => EndOK'
  BY EndInductive
<1>3. EndOK => EndMeansAll
  BY DEF EndOK, EndMeansAll
<1> QED
  BY <1>1, <1>2, <1>3, PagingInvariance, PTL DEF Spec

\* Every step of the cursor and of the loops over it is a step of Result or
\* leaves Result's variables alone.
THEOREM PagingImplementsResult ==
    ASSUME WholePages, ~Tailing
    PROVE  Spec => ImplementsResult
<1>1. Init => EndOK /\ Abstract!Init
  BY DEF Init, EndOK, Length, Abstract!Init, Told
<1>2. IInv /\ EndOK /\ [Next]_vars => EndOK'
  BY EndInductive
<1>3. ASSUME IInv, EndOK, EndOK', [Next]_vars
      PROVE  [Abstract!Next]_<<count, Told>>
  <2> USE DEF Abstract!Next, Abstract!Deliver, Abstract!Fail, Told
  <2>1. CASE UNCHANGED <<count, told>>
    BY <2>1
  <2>2. CASE Raise \/ ConsumerFails
    BY <2>2 DEF Raise, ConsumerFails
  <2>3. CASE Answer
    <3>1. told # "error" /\ count = from /\ count' = pos /\ ~Failed
      BY <1>3, <2>3, SizeFacts DEF Answer, CountAfter, Length, IInv, PageOK, Failed
    <3>2. told # "end"
      BY <1>3, <3>1, <2>3, SizeFacts DEF EndOK, Answer, IInv, Failed, Length, WholePages,
         TypeOK
    <3>3. count' \in count .. Total
      BY <1>3, <3>1, SizeFacts DEF IInv
    <3>4. told' \in {"end", "more"} /\ (told' = "end" => count' = Total)
      BY <1>3, <2>3 DEF Answer, EndOK
    <3>5. told = "more"
      BY <1>3, <3>1, <3>2 DEF IInv, TypeOK
    <3> QED
      BY <3>3, <3>4, <3>5
  <2> QED
    BY <1>3, <2>1, <2>2, <2>3 DEF Next, CursorStep, Refuse, Enter, Prime, GetMore,
       GiveUp, Pop, Drained, Ask, readerVars, vars
<1> QED
  BY <1>1, <1>2, <1>3, PagingInvariance, PTL
     DEF Spec, ImplementsResult, Abstract!Spec

-----------------------------------------------------------------------------
(***************************************************************************)
(* Why loops end: their distance from the next document, or from the end.  *)
(***************************************************************************)

\* How many steps a loop is at most from its next document or its end.
Distance ==
    CASE pc = "over"  -> 0
      [] pc = "loop"  -> CASE cstate = "UNPRIMED" -> 6
                           [] cstate = "IN_BATCH" -> IF refreshed THEN 3 ELSE 5
                           [] OTHER               -> IF refreshed THEN 2 ELSE 4
      [] pc = "enter" -> 7
      [] pc = "ask"   -> 8
      [] OTHER        -> IF LastPage(Length, size) THEN 1 ELSE 9

\* Why they return: each step of a loop gets it nearer to its next document or
\* to its end, because attempted_refresh asks for one batch per call only and a
\* page that is not the last one is not empty.  This needs a page size above 0.
Advances ==
    [][Streaming /\ size > 0 =>
         \/ pos' > pos
         \/ pos' = pos /\ Distance' < Distance]_vars

\* A page that has not been filled is the last one.
LEMMA ShortPage ==
    ASSUME TypeOK, Length < Whole(size)
    PROVE  LastPage(Length, size)
BY SizeFacts DEF LastPage

\* mongoc_cursor_next asks for one batch at most, and then returns.
LEMMA CursorAdvances ==
    ASSUME IInv, CursorStep
    PROVE  pos' > pos \/ (pos' = pos /\ Distance' < Distance)
<1> USE DEF IInv, readerVars, cursorVars
<1>1. pc \in {"enter", "loop"} /\ Length < Whole(size)
  BY DEF CursorStep, Refuse, Enter, Prime, GetMore, GiveUp, Pop, Drained, PageOK
<1>2. LastPage(Length, size)
  BY <1>1, ShortPage
<1>3. ASSUME pos' = pos, UNCHANGED readerVars, pc' = "check"
      PROVE  Distance' = 1
  <2>1. LastPage(Length, size)'
    BY <1>2, <1>3 DEF LastPage, Length
  <2> QED
    BY <1>3, <2>1 DEF Distance
<1>4. Distance \in {2, 3, 4, 5, 6, 7}
  BY <1>1 DEF Distance
<1>5. CASE Refuse \/ GiveUp
  BY <1>3, <1>4, <1>5 DEF Refuse, GiveUp
<1>6. CASE Enter
  BY <1>6 DEF Enter, Distance
<1>7. CASE Prime \/ GetMore
  <2>1. pc = "loop" /\ pos' = pos /\ UNCHANGED readerVars
    BY <1>7 DEF Prime, GetMore
  <2>2. CASE pc' = "check"
    BY <1>3, <1>4, <2>1, <2>2
  <2>3. CASE pc' # "check"
    <3>1. pc' = "loop" /\ cstate' = "IN_BATCH"
      BY <1>7, <2>1, <2>3 DEF Prime, GetMore, Reply
    <3>2. CASE Prime
      BY <2>1, <3>1, <3>2 DEF Prime, Distance
    <3>3. CASE GetMore
      BY <2>1, <3>1, <3>3 DEF GetMore, Distance, RefreshNoted
    <3> QED
      BY <1>7, <3>2, <3>3
  <2> QED
    BY <2>2, <2>3
<1>8. CASE Pop
  BY <1>8, SizeFacts DEF Pop
<1>9. CASE Drained
  <2>1. CASE pc' = "check"
    BY <1>3, <1>4, <1>9, <2>1 DEF Drained
  <2>2. CASE pc' # "check"
    BY <1>9, <2>2 DEF Drained, Distance
  <2> QED
    BY <2>1, <2>2
<1> QED
  BY <1>5, <1>6, <1>7, <1>8, <1>9 DEF CursorStep

\* Each step of find(), export() and aggregate() gets the loop nearer to its next
\* document or its end, whatever the server sends: with the fairness of FairSpec
\* this is why Terminates holds, for results and pages of any size above 0.
THEOREM LoopsAdvance == Spec => Advances
<1>1. ASSUME IInv, [Next]_vars, ~UNCHANGED vars, Streaming, size > 0
      PROVE  pos' > pos \/ (pos' = pos /\ Distance' < Distance)
  <2> USE DEF IInv, readerVars, cursorVars
  <2>1. CASE CursorStep
    BY <1>1, <2>1, CursorAdvances
  <2>2. ASSUME NEW s \in PageSizes, Ask(s)
        PROVE  pos' = pos /\ Distance' < Distance
    <3>1. pos' = pos /\ size' = size /\ pc = "ask" /\ pc' \in {"enter", "check"}
      BY <1>1, <2>2 DEF Ask
    <3>2. LastPage(Length, size)'
      <4>1. PICK p \in Nat : p = pos /\ pos' = p /\ from' = p
        BY <1>1, <2>2, <3>1, SizeFacts DEF Ask
      <4>2. Length' = 0
        BY <4>1 DEF Length
      <4> QED
        BY <1>1, <3>1, <4>2, SizeFacts DEF LastPage
    <3> QED
      BY <3>1, <3>2 DEF Distance
  <2>3. CASE Raise \/ ConsumerFails
    <3>1. pc = "check" /\ pc' = "over" /\ pos' = pos
      BY <1>1, <2>3 DEF Raise, ConsumerFails
    <3> QED
      BY <3>1 DEF Distance
  <2>4. CASE Answer
    <3>1. pc = "check" /\ pos' = pos
      BY <2>4 DEF Answer
    <3>2. CASE LastPage(Length, size)
      <4>1. pc' = "over"
        BY <1>1, <2>4, <3>2 DEF Answer
      <4> QED
        BY <3>1, <3>2, <4>1 DEF Distance
    <3>3. CASE ~LastPage(Length, size)
      <4>1. pc' = "ask"
        BY <1>1, <2>4, <3>3 DEF Answer
      <4> QED
        BY <3>1, <3>3, <4>1 DEF Distance
    <3> QED
      BY <3>2, <3>3
  <2> QED
    BY <1>1, <2>1, <2>2, <2>3, <2>4 DEF Next
<1>2. IInv /\ [Next]_vars =>
        [Streaming /\ size > 0 =>
           pos' > pos \/ (pos' = pos /\ Distance' < Distance)]_vars
  BY <1>1
<1> QED
  BY <1>2, PagingInvariance, PTL DEF Spec, Advances
=============================================================================
