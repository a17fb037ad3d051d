---------------------------- MODULE InsertProofs ----------------------------
(***************************************************************************)
(* Proofs about Insert, for any input, sizes of pages and of batches, and  *)
(* any faults.                                                             *)
(***************************************************************************)
EXTENDS Insert, FiniteSetTheorems, SequenceTheorems, WellFoundedInduction, TLAPS

\* The documents among the first n of the input.
UpTo(n) == {i \in Docs : i <= n}

Whole(n) == (n \div PageSize) * PageSize = n

\* R_mongo_restore is at a document that bson_reader_read does not return.
Stuck == /\ mode = "restore" /\ next < Len(input)
         /\ input[next + 1] \in {"corrupt", "cut"}

\* The end of the input, or what R_mongo_restore takes for it.
AtEnd == next = Len(input) \/ (Stuck /\ input[next + 1] = "cut")

\* Where pages begin and end.
PagesOK ==
    /\ IF mode = "restore" THEN IF done THEN AtEnd ELSE Whole(next) \/ Stuck
       ELSE done /\ (next = Len(input) \/ Whole(next))
    /\ pc = "finish" /\ done => AtEnd
    /\ pc = "read" => Whole(next) \/ Stuck
    /\ pc = "read" /\ OnePage => next = 0
    /\ pc = "more" /\ OnePage => next = Len(input)
    /\ pc \in {"queue", "send", "complete"} =>
         IF OnePage THEN lo = 0 /\ next = Len(input)
         ELSE Whole(lo) /\ next <= lo + PageSize

\* What has been sent of the page: all of it at once, where it is one message.
SentOK ==
    /\ pc = "queue" => sent <= lo
    /\ pc \in {"send", "complete"} => lo <= sent
    /\ pc = "send" => \/ sent = lo \/ mode \in Splits
                      \/ Cardinality(Page) > MaxBatch

\* What is on the server: everything so far, unless there was a warning or this
\* page has failed.
StoredOK ==
    /\ stored \subseteq UpTo(sent)
    /\ Raises => ~warned
    /\ ~warned =>
         /\ pc \in {"read", "more", "finish"} => stored = UpTo(next)
         /\ pc = "queue" => stored = UpTo(lo)
         /\ pc \in {"send", "complete"} =>
              UpTo(lo) \subseteq stored /\ (~failed => stored = UpTo(sent))
    /\ pc = "complete" /\ ~failed => \A i \in Page : i <= sent

\* What has been counted.
CountOK ==
    LET n == Cardinality(stored)
    IN  /\ ins <= n
        /\ mode = "restore" => total = next
        /\ mode = "import" =>
             /\ pc \in {"send", "complete"} => total = Cardinality(UpTo(lo))
             /\ pc \in {"read", "queue", "more", "finish"} => total = n
        /\ mode \notin {"import", "restore"} =>
             /\ total <= n
             /\ pc \in {"send", "complete"} =>
                  total + ins <= n /\ (~warned /\ ~failed => total + ins = n)
             /\ pc \in {"read", "queue", "more", "finish"} /\ ~warned => total = n

\* What the caller is told.
ToldOK ==
    /\ pc # "over" => outcome = "none"
    /\ outcome = "ok" =>
         stored = UpTo(next) /\ total = Cardinality(stored) /\ AtEnd

\* The bulk operation is ordered whatever stop_on_error is: of a page that goes in
\* one message, no document is stored after one that is not, nor is any of a later
\* page if errors stop the call.
PagesSerial ==
    \A i \in stored, j \in Docs :
        j < i /\ (Raises \/ j \in PageOf(i)) /\ OneMessage(j) => j \in stored

IInv == /\ TypeOK /\ PagesOK /\ SentOK /\ StoredOK /\ CountOK /\ ToldOK
        /\ NeverOverReports /\ PagesSerial

-----------------------------------------------------------------------------
(***************************************************************************)
(* The input and its documents.                                            *)
(***************************************************************************)

\* The input is a sequence, and what is restored has no blank lines.
LEMMA InputFacts ==
    ASSUME TypeOK
    PROVE  /\ Len(input) \in Nat /\ DOMAIN input = 1 .. Len(input)
           /\ Docs \subseteq 1 .. Len(input)
           /\ mode = "restore" => Docs = 1 .. Len(input)
<1> DEFINE K == Kinds \cap KindsOf[mode]
<1>1. PICK n \in IF mode = "bson" THEN {1} ELSE 0 .. MaxDocs :
         input \in [1 .. n -> K]
  BY DEF TypeOK, Inputs
<1>2. n \in Nat
  BY <1>1, InsertAssumption
<1>3. input \in Seq(K)
  BY <1>1, <1>2, SeqDef
<1>4. Len(input) \in Nat /\ DOMAIN input = 1 .. Len(input)
  BY <1>3, LenProperties
<1>5. \A i \in DOMAIN input : input[i] \in K
  BY <1>1
<1>6. mode = "restore" => "blank" \notin K
  BY DEF KindsOf
<1> QED
  BY <1>4, <1>5, <1>6 DEF Docs

\* How many documents some of them are.
LEMMA Counting ==
    ASSUME NEW n \in Nat, NEW S \in SUBSET (1 .. n), NEW T \in SUBSET (1 .. n)
    PROVE  /\ IsFiniteSet(S) /\ Cardinality(S) \in 0 .. n
           /\ S \subseteq T => Cardinality(S) <= Cardinality(T)
           /\ S \subseteq T /\ S # T => Cardinality(S) < Cardinality(T)
           /\ S \cap T = {} =>
                Cardinality(S \cup T) = Cardinality(S) + Cardinality(T)
<1>1. IsFiniteSet(1 .. n) /\ Cardinality(1 .. n) = n
  BY FS_Interval
<1>2. IsFiniteSet(S) /\ Cardinality(S) <= n
  BY <1>1, FS_Subset
<1>3. IsFiniteSet(T) /\ Cardinality(T) <= n
  BY <1>1, FS_Subset
<1>4. Cardinality(S) \in Nat /\ Cardinality(T) \in Nat
  BY <1>2, <1>3, FS_CardinalityType
<1>5. S \subseteq T => /\ Cardinality(S) <= Cardinality(T)
                       /\ Cardinality(T) = Cardinality(S) => T = S
  BY <1>3, FS_Subset
<1>6. ASSUME S \cap T = {}
      PROVE  Cardinality(S \cup T) = Cardinality(S) + Cardinality(T)
  <2>1. Cardinality(S \cup T)
          = Cardinality(S) + Cardinality(T) - Cardinality(S \cap T)
    BY <1>2, <1>3, FS_Union
  <2>2. Cardinality(S \cap T) = 0
    BY <1>6, FS_EmptySet
  <2> QED
    BY <1>4, <2>1, <2>2
<1> QED
  BY <1>2, <1>4, <1>5, <1>6

\* The first documents of the input.
LEMMA FirstOnes ==
    ASSUME TypeOK, NEW n \in 0 .. Len(input)
    PROVE  /\ UpTo(n) \subseteq Docs /\ UpTo(Len(input)) = Docs
           /\ Cardinality(UpTo(n)) \in 0 .. Len(input)
           /\ mode = "restore" => Cardinality(UpTo(n)) = n
<1>1. Len(input) \in Nat /\ Docs \subseteq 1 .. Len(input)
  BY InputFacts
<1>a. \A i \in Docs : i <= Len(input)
  BY <1>1
<1>b. UpTo(Len(input)) = Docs
  BY <1>a DEF UpTo
<1>2. UpTo(n) \subseteq Docs /\ UpTo(Len(input)) = Docs
  BY <1>b DEF UpTo
<1>3. Cardinality(UpTo(n)) \in 0 .. Len(input)
  BY <1>1, <1>2, Counting
<1>4. ASSUME mode = "restore" PROVE Cardinality(UpTo(n)) = n
  <2>1. Docs = 1 .. Len(input)
    BY <1>4, InputFacts
  <2>2. UpTo(n) = 1 .. n
    BY <1>1, <2>1 DEF UpTo
  <2> QED
    BY <2>2, FS_Interval
<1> QED
  BY <1>2, <1>3, <1>4

-----------------------------------------------------------------------------
(***************************************************************************)
(* Where pages begin.                                                      *)
(***************************************************************************)

\* The page after a whole number of pages.
LEMMA NextPage ==
    /\ Whole(0)
    /\ \A n \in Nat : Whole(n) => Whole(n + PageSize)
<1>1. Whole(0)
  BY InsertAssumption DEF Whole
<1>2. ASSUME NEW n \in Nat, Whole(n) PROVE Whole(n + PageSize)
  <2> DEFINE m == n \div PageSize
  <2>1. m \in Nat /\ m * PageSize = n
    BY <1>2, InsertAssumption DEF Whole
  <2>2. (m + 1) * PageSize = n + PageSize
    BY <2>1, InsertAssumption
  <2>3. ((m + 1) * PageSize) \div PageSize = m + 1
    BY <2>1, InsertAssumption
  <2> QED
    BY <2>2, <2>3 DEF Whole
<1> QED
  BY <1>1, <1>2

\* A document after a whole number of pages is in a page of its own, or of those
\* that follow it within PageSize.
LEMMA SamePage ==
    ASSUME NEW n \in Nat, Whole(n), NEW i \in Nat, n < i
    PROVE  /\ i <= n + PageSize => (i - 1) \div PageSize = n \div PageSize
           /\ \A j \in Nat \ {0} :
                j <= n => (j - 1) \div PageSize # (i - 1) \div PageSize
<1> DEFINE m == n \div PageSize
<1>1. m \in Nat /\ m * PageSize = n /\ PageSize \in Nat \ {0}
  BY InsertAssumption DEF Whole
<1>2. (m + 1) * PageSize = n + PageSize
  BY <1>1
<1>3. i - 1 \in Nat /\ n <= i - 1
  OBVIOUS
<1>4. ASSUME i <= n + PageSize PROVE (i - 1) \div PageSize = m
  <2>1. i - 1 >= m * PageSize /\ i - 1 < (m + 1) * PageSize
    BY <1>1, <1>2, <1>4
  <2> QED
    BY <1>1, <1>3, <2>1
<1>5. ASSUME NEW j \in Nat \ {0}, j <= n
      PROVE  (j - 1) \div PageSize # (i - 1) \div PageSize
  <2>1. j - 1 \in Nat /\ j - 1 < m * PageSize
    BY <1>1, <1>5
  <2>2. (j - 1) \div PageSize < m
    BY <1>1, <2>1
  <2>3. i - 1 >= m * PageSize
    BY <1>1, <1>3
  <2>4. (i - 1) \div PageSize >= m
    BY <1>1, <1>3, <2>3
  <2>5. (j - 1) \div PageSize \in Int /\ (i - 1) \div PageSize \in Int
    BY <1>1, <1>3, <2>1
  <2> QED
    BY <1>1, <2>2, <2>4, <2>5
<1> QED
  BY <1>4, <1>5

\* Among natural numbers there is a smallest.
LEMMA Smallest ==
    ASSUME NEW S, S \subseteq Nat, S # {}
    PROVE  \E n \in S : \A m \in S : n <= m
<1>1. IsWellFoundedOn(OpToRel(<, Nat), Nat)
  BY NatLessThanWellFounded
<1>2. PICK n \in S : \A m \in S : ~(<<m, n>> \in OpToRel(<, Nat))
  BY <1>1, WFMin
<1>3. \A m \in S : ~(m < n)
  BY <1>2 DEF OpToRel
<1> QED
  BY <1>3

\* R_mongo_restore reads up to the end of the round or to the first document
\* that bson_reader_read does not return.
LEMMA RoundEnds ==
    ASSUME NEW s \in Nat, NEW t \in Nat, s <= t, NEW inp
    PROVE  \E n \in s .. t :
              /\ ~\E i \in s + 1 .. n : inp[i] \in {"corrupt", "cut"}
              /\ \A m \in n + 1 .. t :
                    ~~\E i \in s + 1 .. m : inp[i] \in {"corrupt", "cut"}
<1> DEFINE Readable(n) == ~\E i \in s + 1 .. n : inp[i] \in {"corrupt", "cut"}
           S == {d \in 0 .. t - s : Readable(t - d)}
<1>1. t - s \in S
  OBVIOUS
<1>2. PICK d \in S : \A x \in S : d <= x
  <2>1. S \subseteq Nat /\ S # {}
    BY <1>1
  <2> HIDE DEF S
  <2> QED
    BY <2>1, Smallest
<1>3. t - d \in s .. t /\ Readable(t - d)
  BY <1>2
<1>4. ASSUME NEW m \in (t - d) + 1 .. t PROVE ~Readable(m)
  <2>1. t - m \in 0 .. t - s /\ ~(d <= t - m) /\ t - (t - m) = m
    BY <1>2, <1>4
  <2> QED
    BY <1>2, <2>1
<1> QED
  BY <1>3, <1>4

-----------------------------------------------------------------------------
(***************************************************************************)
(* The steps of the page loop.                                             *)
(***************************************************************************)

\* The arguments of a call do not change, nor does what depends on them alone.
LEMMA SameCall ==
    ASSUME UNCHANGED callVars
    PROVE  /\ Docs' = Docs /\ (Raises' <=> Raises) /\ (OnePage' <=> OnePage)
           /\ mode' = mode /\ stop' = stop /\ input' = input
           /\ Len(input)' = Len(input)
  BY DEF callVars, Docs, Raises, OnePage

\* As long as nothing is stored, no gap comes up.
LEMMA SamePrefix ==
    ASSUME PagesSerial, UNCHANGED <<callVars, stored>>
    PROVE  PagesSerial'
<1>1. /\ Docs' = Docs /\ (Raises' <=> Raises) /\ (OnePage' <=> OnePage)
      /\ mode' = mode
  BY SameCall
<1>2. ASSUME NEW i PROVE PageOf(i)' = PageOf(i)
  BY <1>1 DEF PageOf
<1>3. ASSUME NEW i PROVE OneMessage(i)' <=> OneMessage(i)
  BY <1>1, <1>2 DEF OneMessage
<1> QED
  BY <1>1, <1>2, <1>3 DEF PagesSerial

\* What the proof about a step uses of the state before it.
Known ==
    /\ Len(input) \in Nat /\ Docs \subseteq 1 .. Len(input)
    /\ lo \in Nat /\ next \in Nat /\ sent \in Nat /\ total \in Nat /\ ins \in Nat
    /\ lo <= next /\ next <= Len(input) /\ sent <= next
    /\ PageSize \in Nat \ {0} /\ MaxBatch \in Nat \ {0}

\* The numbers a call works with.
LEMMA KnownOK ==
    ASSUME TypeOK
    PROVE  Known
<1>1. Len(input) \in Nat /\ Docs \subseteq 1 .. Len(input)
  BY InputFacts
<1> QED
  BY <1>1, InsertAssumption DEF TypeOK, Known

\* apply_by_pages and readLines: a page begins where one ended.
LEMMA TakePageOK ==
    ASSUME IInv, TakePage
    PROVE  IInv'
<1> USE DEF IInv
<1>1. Known
  BY KnownOK
<1>2. /\ Docs' = Docs /\ (Raises' <=> Raises) /\ (OnePage' <=> OnePage)
      /\ mode' = mode /\ stop' = stop /\ input' = input
      /\ Len(input)' = Len(input) /\ mode # "restore"
  BY SameCall DEF TakePage
<1>3. Whole(next) /\ (OnePage => next = 0)
  BY <1>2 DEF PagesOK, TakePage, Stuck
<1>4. Whole(next + PageSize)
  BY <1>1, <1>3, NextPage DEF Known
<1>5. /\ next' \in next .. Len(input)
      /\ OnePage => next' = Len(input)
      /\ ~OnePage => next' <= next + PageSize
      /\ next' = Len(input) \/ next' = next + PageSize
  BY <1>1 DEF TakePage, Smaller, Known
<1>6. TypeOK'
  BY <1>1, <1>2, <1>5 DEF TypeOK, TakePage, bulkVars, Known
<1>7. PagesOK'
  BY <1>1, <1>2, <1>3, <1>4, <1>5 DEF PagesOK, TakePage, Known, Whole
<1>8. SentOK'
  BY <1>1 DEF SentOK, TakePage, bulkVars, Known
<1>9. StoredOK'
  BY <1>2 DEF StoredOK, TakePage, bulkVars, UpTo
<1>10. CountOK'
  BY <1>2 DEF CountOK, TakePage, bulkVars
<1>11. ToldOK' /\ NeverOverReports'
  BY DEF ToldOK, NeverOverReports, TakePage
<1>12. PagesSerial'
  BY SamePrefix DEF TakePage
<1> QED
  BY <1>6, <1>7, <1>8, <1>9, <1>10, <1>11, <1>12

\* A round of R_mongo_restore: it ends at a full page, at the end, or before a
\* document that the next round will not get past either.
LEMMA RestorePageOK ==
    ASSUME IInv, RestorePage
    PROVE  IInv'
<1> USE DEF IInv
<1>1. Known
  BY KnownOK
<1>2. /\ Docs' = Docs /\ (Raises' <=> Raises) /\ (OnePage' <=> OnePage)
      /\ mode' = mode /\ stop' = stop /\ input' = input
      /\ Len(input)' = Len(input)
  BY SameCall DEF RestorePage
<1>3. mode = "restore" /\ pc = "read" /\ ~OnePage /\ Raises /\ ~warned
  BY DEF RestorePage, OnePage, Raises, StoredOK
<1> DEFINE t == Smaller(next + PageSize, Len(input))
           Readable(n) == ~\E i \in next + 1 .. n : input[i] \in {"corrupt", "cut"}
           Last(n) == Readable(n) /\ \A m \in n + 1 .. t : ~Readable(m)
<1>4. t \in Nat /\ next <= t /\ t <= Len(input) /\ t <= next + PageSize
      /\ (t = Len(input) \/ t = next + PageSize)
  BY <1>1 DEF Known, Smaller
<1>5. next' = CHOOSE n \in next .. t : Last(n)
  BY DEF RestorePage
<1>6. \E n \in next .. t : Last(n)
  <2> HIDE DEF t
  <2> QED
    BY <1>1, <1>4, RoundEnds DEF Known
<1>7. PICK e \in next .. t : Last(e) /\ next' = e
  <2> HIDE DEF t, Last
  <2> QED
    BY <1>5, <1>6
<1>8. \A i \in next + 1 .. e : input[i] \notin {"corrupt", "cut"}
  BY <1>7
<1>9. e < t => input[e + 1] \in {"corrupt", "cut"}
  <2> SUFFICES ASSUME e < t PROVE input[e + 1] \in {"corrupt", "cut"}
    OBVIOUS
  <2>1. ~Readable(e + 1)
    <3> HIDE DEF t, Readable
    <3> QED
      BY <1>1, <1>4, <1>7 DEF Known
  <2>2. PICK i \in next + 1 .. e + 1 : input[i] \in {"corrupt", "cut"}
    BY <2>1
  <2>3. i \notin next + 1 .. e
    BY <1>8, <2>2
  <2>4. i = e + 1
    BY <1>1, <1>7, <2>2, <2>3 DEF Known
  <2> QED
    BY <2>2, <2>4
<1> HIDE DEF t, Last
<1>10. Stuck => e = next
  <2> SUFFICES ASSUME Stuck, e # next PROVE FALSE
    OBVIOUS
  <2>1. next + 1 \in next + 1 .. e
    BY <1>1, <1>4, <1>7 DEF Known
  <2> QED
    BY <1>8, <2>1 DEF Stuck
<1>11. /\ lo' = next /\ next' = e /\ total' = total + (e - next)
       /\ pc' = IF e = next THEN "finish" ELSE "queue"
       /\ UNCHANGED <<bulkVars, warned, bare, stored, outcome>>
  BY <1>7 DEF RestorePage, EmptyRound
<1>b. /\ done' \in BOOLEAN
      /\ done' <=> (/\ e - next < PageSize
                    /\ e < Len(input) => input[e + 1] = "cut")
  BY <1>7 DEF RestorePage
<1>12. e \in next .. Len(input) /\ e <= next + PageSize /\ e \in Nat
  BY <1>1, <1>4, <1>7 DEF Known
<1>13. total = next /\ stored = UpTo(next) /\ outcome = "none"
  BY <1>3 DEF CountOK, StoredOK, ToldOK
<1>14. total' = e
  BY <1>1, <1>11, <1>12, <1>13 DEF Known
<1>15. e # next => Whole(next)
  BY <1>3, <1>10 DEF PagesOK
<1>16. IF done' THEN AtEnd' ELSE Whole(e) \/ Stuck'
  <2>1. CASE done'
    BY <1>1, <1>2, <1>3, <1>11, <1>b, <1>12, <2>1 DEF AtEnd, Stuck, Known
  <2>2. CASE ~done' /\ e - next < PageSize
    <3>1. e < t
      BY <1>1, <1>4, <1>b, <1>12, <2>2 DEF Known
    <3> QED
      BY <1>1, <1>2, <1>3, <1>4, <1>9, <1>11, <1>12, <2>2, <3>1 DEF Stuck, Known
  <2>3. CASE ~(e - next < PageSize)
    <3>1. e = next + PageSize /\ e # next
      BY <1>1, <1>12, <2>3 DEF Known
    <3>2. Whole(e)
      BY <1>1, <1>15, <3>1, NextPage DEF Known
    <3> QED
      BY <1>b, <2>3, <3>2
  <2> QED
    BY <1>b, <2>1, <2>2, <2>3
<1>17. TypeOK'
  <2>1. done' \in BOOLEAN /\ pc' \in {"finish", "queue"}
    BY <1>b, <1>11
  <2> QED
    BY <1>1, <1>2, <1>11, <1>12, <1>14, <2>1 DEF TypeOK, bulkVars, Known
<1>18. PagesOK'
  BY <1>1, <1>2, <1>3, <1>11, <1>b, <1>12, <1>15, <1>16 DEF PagesOK, Known, Whole
<1>19. SentOK'
  BY <1>1, <1>11 DEF SentOK, bulkVars, Known
<1>20. StoredOK'
  <2>1. stored \subseteq UpTo(sent)
    BY DEF StoredOK
  <2> QED
    BY <1>2, <1>3, <1>11, <1>13, <2>1 DEF StoredOK, bulkVars, UpTo
<1>21. CountOK'
  BY <1>2, <1>3, <1>11, <1>14 DEF CountOK, bulkVars
<1>22. ToldOK' /\ NeverOverReports'
  BY <1>11, <1>13 DEF ToldOK, NeverOverReports
<1>23. PagesSerial'
  BY SamePrefix DEF RestorePage
<1> QED
  BY <1>17, <1>18, <1>19, <1>20, <1>21, <1>22, <1>23

\* An error ends the call and changes nothing else.
LEMMA FailOK ==
    ASSUME IInv, Fail,
           UNCHANGED <<callVars, lo, next, done, bulkVars, warned, bare, total,
                       stored>>
    PROVE  IInv'
<1> USE DEF IInv
<1>1. /\ Docs' = Docs /\ (Raises' <=> Raises) /\ (OnePage' <=> OnePage)
      /\ mode' = mode /\ stop' = stop /\ input' = input
      /\ Len(input)' = Len(input)
  BY SameCall
<1>2. TypeOK'
  BY <1>1 DEF TypeOK, Fail, bulkVars
<1>3. PagesOK' /\ SentOK'
  BY <1>1 DEF PagesOK, SentOK, Fail, AtEnd, Stuck, Whole, bulkVars
<1>4. StoredOK'
  BY <1>1 DEF StoredOK, Fail, bulkVars, UpTo
<1>5. CountOK'
  BY <1>1 DEF CountOK, Fail, bulkVars
<1>6. ToldOK' /\ NeverOverReports'
  BY DEF ToldOK, NeverOverReports, Fail
<1>7. PagesSerial'
  BY SamePrefix
<1> QED
  BY <1>2, <1>3, <1>4, <1>5, <1>6, <1>7

\* After a page: there is more to read only where a page may begin.
LEMMA MoreOK ==
    ASSUME IInv, More
    PROVE  IInv'
<1> USE DEF IInv
<1>1. /\ Docs' = Docs /\ (Raises' <=> Raises) /\ (OnePage' <=> OnePage)
      /\ mode' = mode /\ stop' = stop /\ input' = input
      /\ Len(input)' = Len(input)
  BY SameCall DEF More
<1>2. /\ pc = "more" /\ pc' \in {"finish", "read"}
      /\ UNCHANGED <<lo, next, done, bulkVars, warned, bare, total, stored,
                     outcome>>
  BY DEF More
<1>3. TypeOK'
  BY <1>1, <1>2 DEF TypeOK, bulkVars
<1>4. PagesOK'
  <2>1. (AtEnd' <=> AtEnd) /\ (Stuck' <=> Stuck) /\ (Whole(next)' <=> Whole(next))
    BY <1>1, <1>2 DEF AtEnd, Stuck, Whole
  <2>2. done \in BOOLEAN
    BY DEF TypeOK
  <2>3. pc' = "finish" /\ done => AtEnd
    BY <2>2 DEF PagesOK, More, AtEnd
  <2>4. pc' = "read" => (Whole(next) \/ Stuck) /\ ~OnePage
    BY <2>2 DEF PagesOK, More
  <2> QED
    BY <1>1, <1>2, <2>1, <2>2, <2>3, <2>4 DEF PagesOK
<1>5. SentOK'
  BY <1>2 DEF SentOK
<1>6. StoredOK'
  BY <1>1, <1>2 DEF StoredOK, bulkVars, UpTo
<1>7. CountOK'
  BY <1>1, <1>2 DEF CountOK, bulkVars
<1>8. ToldOK' /\ NeverOverReports'
  BY <1>2 DEF ToldOK, NeverOverReports
<1>9. PagesSerial'
  BY <1>2, SamePrefix DEF More
<1> QED
  BY <1>3, <1>4, <1>5, <1>6, <1>7, <1>8, <1>9

\* What is on the server when the pages are done with.
LEMMA FinishCounts ==
    ASSUME IInv, pc = "finish"
    PROVE  /\ total <= Cardinality(stored)
           /\ ~warned => stored = UpTo(next) /\ total = Cardinality(stored)
<1> USE DEF IInv
<1>1. Known
  BY KnownOK
<1>2. ~warned => stored = UpTo(next)
  BY DEF StoredOK
<1>3. CASE mode = "restore"
  <2>1. ~warned /\ total = next
    BY <1>3 DEF StoredOK, CountOK, Raises
  <2>2. Cardinality(UpTo(next)) = next
    BY <1>1, <1>3, FirstOnes DEF Known
  <2> QED
    BY <1>1, <1>2, <2>1, <2>2 DEF Known
<1>4. CASE mode # "restore"
  <2>1. Cardinality(stored) \in Nat
    BY <1>1, Counting DEF Known, TypeOK
  <2> QED
    BY <1>1, <1>2, <1>4, <2>1 DEF CountOK, Known
<1> QED
  BY <1>3, <1>4

\* The end of the call: what it says is what has been counted.
LEMMA FinishOK ==
    ASSUME IInv, Finish
    PROVE  IInv'
<1> USE DEF IInv
<1>1. /\ Docs' = Docs /\ (Raises' <=> Raises) /\ (OnePage' <=> OnePage)
      /\ mode' = mode /\ stop' = stop /\ input' = input
      /\ Len(input)' = Len(input)
  BY SameCall DEF Finish
<1>2. /\ pc = "finish" /\ pc' = "over"
      /\ UNCHANGED <<lo, next, done, bulkVars, warned, bare, total, stored>>
  BY DEF Finish
<1>3. /\ outcome' \in {"ok", "warning", "error"}
      /\ outcome' = "ok" => ~warned /\ done
  <2>1. CASE mode = "frame" /\ bare
    BY <2>1 DEF Finish
  <2>2. CASE ~(mode = "frame" /\ bare) /\ (warned \/ ~done)
    BY <2>2 DEF Finish
  <2>3. CASE ~(mode = "frame" /\ bare) /\ ~(warned \/ ~done)
    BY <2>3 DEF Finish
  <2> QED
    BY <2>1, <2>2, <2>3
<1>4. TypeOK'
  BY <1>1, <1>2, <1>3 DEF TypeOK, bulkVars
<1>5. PagesOK' /\ SentOK'
  BY <1>1, <1>2 DEF PagesOK, SentOK, AtEnd, Stuck, Whole, bulkVars
<1>6. StoredOK'
  BY <1>1, <1>2 DEF StoredOK, bulkVars, UpTo
<1>7. CountOK'
  BY <1>1, <1>2 DEF CountOK, bulkVars
<1>8. ToldOK'
  <2>1. done => AtEnd
    BY <1>2 DEF PagesOK
  <2>2. outcome' = "ok" =>
          stored = UpTo(next) /\ total = Cardinality(stored) /\ AtEnd
    BY <1>2, <1>3, <2>1, FinishCounts
  <2>3. (AtEnd' <=> AtEnd) /\ UpTo(next)' = UpTo(next)
    BY <1>1, <1>2 DEF AtEnd, Stuck, UpTo
  <2> QED
    BY <1>2, <2>2, <2>3 DEF ToldOK
<1>9. NeverOverReports'
  BY <1>2, FinishCounts DEF NeverOverReports
<1>10. PagesSerial'
  BY <1>2, SamePrefix DEF Finish
<1> QED
  BY <1>4, <1>5, <1>6, <1>7, <1>8, <1>9, <1>10

-----------------------------------------------------------------------------
(***************************************************************************)
(* The steps of a bulk operation.                                          *)
(***************************************************************************)

\* The bulk operation fails before anything is sent: an error, or a page that
\* counts nothing.
LEMMA GivesUpOK ==
    ASSUME IInv, pc \in {"queue", "send"}, GivesUp,
           UNCHANGED <<callVars, lo, next, done, stored>>
    PROVE  IInv'
<1> USE DEF IInv
<1>1. CASE Raises
  BY <1>1, FailOK DEF GivesUp
<1>2. CASE ~Raises
  <2>1. /\ Docs' = Docs /\ (Raises' <=> Raises) /\ (OnePage' <=> OnePage)
        /\ mode' = mode /\ stop' = stop /\ input' = input
        /\ Len(input)' = Len(input)
    BY SameCall
  <2>2. /\ warned' = TRUE /\ bare' = TRUE /\ pc' = "more"
        /\ UNCHANGED <<outcome, bulkVars, total>>
    BY <1>2 DEF GivesUp
  <2>3. mode \notin {"bson", "import", "restore"}
    BY <1>2 DEF Raises
  <2>4. TypeOK'
    BY <2>1, <2>2 DEF TypeOK, bulkVars
  <2>5. PagesOK' /\ SentOK'
    BY <2>1, <2>2, <2>3 DEF PagesOK, SentOK, AtEnd, Stuck, Whole, bulkVars
  <2>6. StoredOK'
    BY <1>2, <2>1, <2>2 DEF StoredOK, bulkVars, UpTo
  <2>7. CountOK'
    BY <2>1, <2>2, <2>3 DEF CountOK, bulkVars
  <2>8. ToldOK' /\ NeverOverReports'
    BY <2>2 DEF ToldOK, NeverOverReports
  <2>9. PagesSerial'
    BY SamePrefix
  <2> QED
    BY <2>4, <2>5, <2>6, <2>7, <2>8, <2>9
<1> QED
  BY <1>1, <1>2

\* A page whose documents are refused fails; one that is queued begins where the
\* pages before it ended.
LEMMA QueueOK ==
    ASSUME IInv, Queue
    PROVE  IInv'
<1> USE DEF IInv
<1>1. CASE Page = {} \/ Some(Page, {"nojson", "nobson"})
  BY <1>1, FailOK DEF Queue
<1>2. CASE /\ ~(Page = {} \/ Some(Page, {"nojson", "nobson"}))
           /\ Some(Page, {"invalid"})
  BY <1>2, GivesUpOK DEF Queue
<1>3. CASE /\ ~(Page = {} \/ Some(Page, {"nojson", "nobson"}))
           /\ ~Some(Page, {"invalid"})
  <2>1. /\ Docs' = Docs /\ (Raises' <=> Raises) /\ (OnePage' <=> OnePage)
        /\ mode' = mode /\ stop' = stop /\ input' = input
        /\ Len(input)' = Len(input)
    BY SameCall DEF Queue
  <2>2. /\ pc = "queue" /\ pc' = "send"
        /\ sent' = lo /\ failed' = FALSE /\ ins' = 0
        /\ UNCHANGED <<warned, bare, total, outcome, lo, next, done, stored>>
    BY <1>3 DEF Queue
  <2>3. Known
    BY KnownOK
  <2>4. Cardinality(stored) \in Nat
    BY <2>3, Counting DEF Known, TypeOK
  <2>5. TypeOK'
    <3>1. lo \in 0 .. next /\ 0 \in 0 .. Len(input)
      BY <2>3 DEF Known
    <3> QED
      BY <2>1, <2>2, <3>1 DEF TypeOK
  <2>6. PagesOK' /\ SentOK'
    BY <2>1, <2>2, <2>3 DEF PagesOK, SentOK, AtEnd, Stuck, Whole, Known
  <2>7. StoredOK'
    <3>1. stored \subseteq UpTo(sent) /\ sent <= lo
      BY <2>2 DEF StoredOK, SentOK
    <3>2. stored \subseteq UpTo(lo)
      BY <2>3, <3>1 DEF UpTo, Known
    <3>3. ~warned => stored = UpTo(lo)
      BY <2>2 DEF StoredOK
    <3>4. UpTo(lo)' = UpTo(lo) /\ UpTo(sent)' = UpTo(lo)
      BY <2>1, <2>2 DEF UpTo
    <3>5. Raises' => ~warned'
      BY <2>1, <2>2 DEF StoredOK
    <3> QED
      BY <2>2, <3>2, <3>3, <3>4, <3>5 DEF StoredOK
  <2>8. CountOK'
    <3>1. UpTo(lo)' = UpTo(lo)
      BY <2>1, <2>2 DEF UpTo
    <3>2. mode = "import" => total = Cardinality(UpTo(lo))
      BY <2>2 DEF CountOK, StoredOK, Raises
    <3>3. mode = "restore" => total = next
      BY DEF CountOK
    <3>4. mode \notin {"import", "restore"} =>
             /\ total <= Cardinality(stored)
             /\ ~warned => total = Cardinality(stored)
      BY <2>2 DEF CountOK
    <3> QED
      BY <2>1, <2>2, <2>3, <2>4, <3>1, <3>2, <3>3, <3>4 DEF CountOK, Known
  <2>9. ToldOK' /\ NeverOverReports'
    BY <2>2 DEF ToldOK, NeverOverReports
  <2>10. PagesSerial'
    BY <2>2, SamePrefix DEF Queue
  <2> QED
    BY <2>5, <2>6, <2>7, <2>8, <2>9, <2>10
<1> QED
  BY <1>1, <1>2, <1>3

\* The documents of the page that are still to be sent follow those that were.
LEMMA BatchFacts ==
    ASSUME IInv, pc = "send", NEW e \in Page, e > sent
    PROVE  /\ e \in Nat /\ lo < e /\ e <= next /\ lo <= sent
           /\ Batch(e) \subseteq Page /\ Page \subseteq 1 .. Len(input)
           /\ Accepted(Batch(e)) \subseteq Batch(e)
           /\ stored \cap Batch(e) = {} /\ stored \cup Batch(e) \subseteq UpTo(e)
           /\ stored = UpTo(sent) => stored \cup Batch(e) = UpTo(e)
           /\ stored \subseteq 1 .. Len(input) /\ Batch(e) \subseteq Nat
<1> USE DEF IInv
<1>1. Known
  BY KnownOK
<1>2. e \in Docs /\ e \in Nat /\ lo < e /\ e <= next
  BY <1>1 DEF Page, Known
<1>3. lo <= sent
  BY DEF SentOK
<1>4. Batch(e) \subseteq Page /\ Page \subseteq Docs
  BY DEF Batch, Page
<1>5. Accepted(Batch(e)) \subseteq Batch(e)
  BY DEF Accepted
<1>6. \A i \in Docs : i \in Nat
  BY <1>1 DEF Known
<1>7. \A i \in Docs : i \in Batch(e) <=> sent < i /\ i <= e
  BY <1>1, <1>2, <1>3, <1>6 DEF Batch, Page, Known
<1>8. stored \subseteq UpTo(sent) /\ stored \subseteq Docs
  BY DEF StoredOK, TypeOK
<1>9. \A i \in Docs : i \in UpTo(e) <=> i \in UpTo(sent) \/ i \in Batch(e)
  BY <1>1, <1>2, <1>6, <1>7 DEF UpTo, Known
<1>10. \A i \in UpTo(sent) : i \notin Batch(e)
  BY <1>1, <1>6, <1>7 DEF UpTo, Known
<1>a. UpTo(e) \subseteq Docs /\ UpTo(sent) \subseteq Docs
  BY DEF UpTo
<1>11. stored \cap Batch(e) = {}
  BY <1>8, <1>10
<1>12. stored \cup Batch(e) \subseteq UpTo(e)
  BY <1>4, <1>8, <1>9
<1>13. stored = UpTo(sent) => stored \cup Batch(e) = UpTo(e)
  BY <1>4, <1>9, <1>a
<1>14. Page \subseteq 1 .. Len(input) /\ stored \subseteq 1 .. Len(input)
  BY <1>1, <1>4, <1>8 DEF Known
<1> QED
  BY <1>2, <1>3, <1>4, <1>5, <1>6, <1>11, <1>12, <1>13, <1>14

\* Of the batch that is sent the server stores a first part.  What that part
\* follows is stored: it is earlier in the message, in a page before, or in no
\* page that goes in one message.
LEMMA PrefixOK ==
    ASSUME IInv, pc = "send", NEW e \in Page, e > sent, UNCHANGED callVars,
           NEW A \in SUBSET Batch(e), stored' = stored \cup A,
           \A i \in A, j \in Batch(e) : j <= i => j \in A
    PROVE  PagesSerial'
<1> USE DEF IInv
<1>1. Known
  BY KnownOK
<1>2. /\ Docs' = Docs /\ (Raises' <=> Raises) /\ (OnePage' <=> OnePage)
      /\ mode' = mode
  BY SameCall
<1>3. /\ e \in Nat /\ lo < e /\ e <= next /\ lo <= sent
      /\ Batch(e) \subseteq Page
  BY BatchFacts
<1>4. \A i : (PageOf(i)' = PageOf(i)) /\ (OneMessage(i)' <=> OneMessage(i))
  BY <1>2 DEF PageOf, OneMessage
<1>5. SUFFICES ASSUME NEW i \in stored \cup A, NEW j \in Docs, j < i,
                      Raises \/ j \in PageOf(i), OneMessage(j)
               PROVE  j \in stored \cup A
  BY <1>2, <1>4 DEF PagesSerial
<1>6. CASE i \in stored
  BY <1>5, <1>6 DEF PagesSerial
<1>7. CASE i \in A
  <2>1. i \in Docs /\ sent < i /\ i <= e /\ i \in Nat /\ j \in Nat \ {0} /\ lo < i
        /\ i <= next
    BY <1>1, <1>3, <1>7 DEF Batch, Page, Known
  <2>2. CASE sent < j
    <3>1. j \in Batch(e)
      BY <1>1, <1>3, <1>5, <2>1, <2>2 DEF Batch, Page, Known
    <3> QED
      BY <1>5, <1>7, <2>1, <3>1
  <2>3. CASE lo < j /\ j <= sent
    <3>1. sent # lo /\ mode \notin Splits /\ Cardinality(PageOf(j)) <= MaxBatch
      BY <1>1, <1>5, <2>1, <2>3 DEF OneMessage, Known
    <3>2. Cardinality(Page) > MaxBatch
      BY <3>1 DEF SentOK
    <3>3. Page \subseteq PageOf(j)
      <4>1. CASE OnePage
        BY <4>1 DEF Page, PageOf
      <4>2. CASE ~OnePage
        <5>1. Whole(lo) /\ next <= lo + PageSize
          BY <4>2 DEF PagesOK
        <5>2. \A k \in Page : k \in Nat /\ lo < k /\ k <= lo + PageSize
          BY <1>1, <5>1 DEF Page, Known
        <5>3. \A k \in Page : (k - 1) \div PageSize = lo \div PageSize
          BY <1>1, <5>1, <5>2, SamePage DEF Known
        <5>4. j <= lo + PageSize
          BY <1>1, <2>1, <2>3, <5>1 DEF Known
        <5>5. (j - 1) \div PageSize = lo \div PageSize
          BY <1>1, <2>1, <2>3, <5>1, <5>4, SamePage DEF Known
        <5> QED
          BY <5>3, <5>5 DEF Page, PageOf
      <4> QED
        BY <4>1, <4>2
    <3>4. PageOf(j) \subseteq 1 .. Len(input)
      BY <1>1 DEF PageOf, Known
    <3>5. /\ Cardinality(Page) <= Cardinality(PageOf(j))
          /\ Cardinality(Page) \in Nat
      BY <1>1, <3>3, <3>4, Counting DEF Known
    <3>6. Cardinality(PageOf(j)) \in Nat
      BY <1>1, <3>4, Counting DEF Known
    <3> QED
      BY <1>1, <3>1, <3>2, <3>5, <3>6 DEF Known
  <2>4. CASE j <= lo
    <3>1. CASE Raises
      <4>1. UpTo(lo) \subseteq stored
        BY <3>1 DEF StoredOK
      <4> QED
        BY <2>4, <4>1 DEF UpTo
    <3>2. CASE ~Raises
      <4>1. j \in PageOf(i)
        BY <1>5, <3>2
      <4>2. ~OnePage
        BY <1>1, <2>1, <2>4 DEF PagesOK, Known
      <4>3. Whole(lo)
        BY <4>2 DEF PagesOK
      <4>4. (j - 1) \div PageSize # (i - 1) \div PageSize
        BY <1>1, <2>1, <2>4, <4>3, SamePage DEF Known
      <4> QED
        BY <4>1, <4>2, <4>4 DEF PageOf
    <3> QED
      BY <3>1, <3>2
  <2> QED
    BY <1>1, <2>1, <2>2, <2>3, <2>4 DEF Known
<1> QED
  BY <1>5, <1>6, <1>7

\* An ordered insert leaves no gap in the batch.
LEMMA AcceptedFirst ==
    ASSUME NEW S \in SUBSET Nat
    PROVE  \A i \in Accepted(S), j \in S : j <= i => j \in Accepted(S)
<1> SUFFICES ASSUME NEW i \in Accepted(S), NEW j \in S, j <= i
             PROVE  j \in Accepted(S)
  OBVIOUS
<1>1. i \in S /\ \A k \in S : k <= i => input[k] = "ok"
  BY DEF Accepted
<1>2. \A k \in S : k <= j => k <= i
  BY <1>1
<1> QED
  BY <1>1, <1>2 DEF Accepted

\* A batch that is answered: its documents are stored up to the first error, and
\* that many are counted.
LEMMA SendOK ==
    ASSUME IInv, NEW e \in Page, Send(e)
    PROVE  IInv'
<1> USE DEF IInv
<1> DEFINE A == Accepted(Batch(e))
           n == Cardinality(stored)
           c == Cardinality(A)
<1>1. Known
  BY KnownOK
<1>2. /\ Docs' = Docs /\ (Raises' <=> Raises) /\ (OnePage' <=> OnePage)
      /\ mode' = mode /\ stop' = stop /\ input' = input
      /\ Len(input)' = Len(input)
  BY SameCall DEF Send
<1>3. /\ pc = "send" /\ e > sent
      /\ Cardinality(Batch(e)) = MaxBatch \/ (\A i \in Page : i <= e)
           \/ mode \in Splits
      /\ stored' = stored \cup A /\ ins' = ins + c /\ sent' = e
      /\ failed' \in BOOLEAN /\ (~failed' => ~failed /\ A = Batch(e))
      /\ pc' = IF \A i \in Page : i <= e THEN "complete" ELSE "send"
      /\ UNCHANGED <<lo, next, done, warned, bare, total, outcome>>
  BY DEF Send, Ships, Merged, HasErrors
<1>4. /\ e \in Nat /\ lo < e /\ e <= next /\ lo <= sent
      /\ Batch(e) \subseteq Page /\ Page \subseteq 1 .. Len(input)
      /\ A \subseteq Batch(e)
      /\ stored \cap Batch(e) = {} /\ stored \cup Batch(e) \subseteq UpTo(e)
      /\ stored = UpTo(sent) => stored \cup Batch(e) = UpTo(e)
      /\ stored \subseteq 1 .. Len(input)
  BY <1>3, BatchFacts
<1>5. /\ n \in 0 .. Len(input) /\ c \in 0 .. Len(input)
      /\ Cardinality(stored \cup A) = n + c
  <2>1. A \subseteq 1 .. Len(input) /\ stored \cap A = {}
    BY <1>4
  <2> HIDE DEF A
  <2>2. Cardinality(stored \cup A) = n + c /\ n \in 0 .. Len(input)
    BY <1>1, <1>4, <2>1, Counting DEF Known
  <2>3. c \in 0 .. Len(input)
    BY <1>1, <2>1, Counting DEF Known
  <2> QED
    BY <2>2, <2>3
<1>6. n + c \in 0 .. Len(input)
  <2>1. stored \cup A \subseteq 1 .. Len(input)
    BY <1>4
  <2> HIDE DEF A, n, c
  <2> QED
    BY <1>1, <1>5, <2>1, Counting DEF Known
<1> HIDE DEF A, n, c
<1>7. ins <= n /\ stored \subseteq Docs
  BY DEF CountOK, TypeOK, n
<1>8. TypeOK'
  <2>1. ins + c \in 0 .. Len(input) /\ e \in 0 .. next
    BY <1>1, <1>4, <1>5, <1>6, <1>7 DEF Known
  <2>2. stored \cup A \subseteq Docs
    BY <1>4, <1>7 DEF Page
  <2>3. pc' \in {"send", "complete"}
    BY <1>3
  <2> QED
    BY <1>2, <1>3, <2>1, <2>2, <2>3 DEF TypeOK
<1>9. PagesOK'
  BY <1>2, <1>3 DEF PagesOK, AtEnd, Stuck, Whole
<1>10. Page' = Page
  BY <1>2, <1>3 DEF Page
<1>11. SentOK'
  <2>1. lo <= e
    BY <1>1, <1>4 DEF Known
  <2>2. ASSUME pc' = "send" PROVE mode \in Splits \/ Cardinality(Page) > MaxBatch
    <3>1. PICK i \in Page : ~(i <= e)
      BY <1>3, <2>2
    <3>2. i \notin Batch(e)
      BY <3>1 DEF Batch
    <3>3. Batch(e) # Page
      BY <3>1, <3>2
    <3>4. Cardinality(Batch(e)) < Cardinality(Page)
      BY <1>1, <1>4, <3>3, Counting DEF Known
    <3>5. Cardinality(Batch(e)) \in Nat /\ Cardinality(Page) \in Nat
      BY <1>1, <1>4, Counting DEF Known
    <3> QED
      BY <1>1, <1>3, <3>1, <3>4, <3>5 DEF Known
  <2> QED
    BY <1>2, <1>3, <1>10, <2>1, <2>2 DEF SentOK
<1>12. StoredOK'
  <2>1. UpTo(sent)' = UpTo(e) /\ UpTo(lo)' = UpTo(lo)
    BY <1>2, <1>3 DEF UpTo
  <2>2. stored' \subseteq UpTo(e)
    BY <1>3, <1>4
  <2>3. ASSUME ~warned
        PROVE  UpTo(lo) \subseteq stored' /\ (~failed' => stored' = UpTo(e))
    <3>1. UpTo(lo) \subseteq stored /\ (~failed => stored = UpTo(sent))
      BY <1>3, <2>3 DEF StoredOK
    <3> QED
      BY <1>3, <1>4, <3>1
  <2>4. Raises => ~warned
    BY DEF StoredOK
  <2>5. pc' = "complete" => \A i \in Page : i <= e
    BY <1>3
  <2>6. pc' \in {"send", "complete"}
    BY <1>3
  <2> QED
    BY <1>2, <1>3, <1>10, <2>1, <2>2, <2>3, <2>4, <2>5, <2>6 DEF StoredOK
<1>13. CountOK'
  <2>1. Cardinality(stored)' = n + c
    BY <1>3, <1>5
  <2>2. UpTo(lo)' = UpTo(lo) /\ pc' \in {"send", "complete"}
    BY <1>2, <1>3 DEF UpTo
  <2>3. ins + c <= n + c
    BY <1>1, <1>5, <1>7 DEF Known
  <2>4. mode = "restore" => total = next
    BY DEF CountOK
  <2>5. mode = "import" => total = Cardinality(UpTo(lo))
    BY <1>3 DEF CountOK
  <2>6. ASSUME mode \notin {"import", "restore"}
        PROVE  /\ total <= n + c /\ total + (ins + c) <= n + c
               /\ ~warned /\ ~failed' => total + (ins + c) = n + c
    <3>1. total <= n /\ total + ins <= n
          /\ (~warned /\ ~failed => total + ins = n)
      BY <1>3, <2>6 DEF CountOK, n
    <3> QED
      BY <1>1, <1>3, <1>5, <3>1 DEF Known
  <2> QED
    BY <1>2, <1>3, <2>1, <2>2, <2>3, <2>4, <2>5, <2>6 DEF CountOK
<1>14. ToldOK' /\ NeverOverReports'
  BY <1>3 DEF ToldOK, NeverOverReports
<1>15. PagesSerial'
  <2>1. \A i \in A, j \in Batch(e) : j <= i => j \in A
    <3>1. Batch(e) \subseteq Nat
      BY <1>3, BatchFacts
    <3> QED
      BY <3>1, AcceptedFirst DEF A
  <2>2. UNCHANGED callVars
    BY DEF Send
  <2> QED
    BY <1>3, <1>4, <2>1, <2>2, PrefixOK
<1> QED
  BY <1>8, <1>9, <1>11, <1>12, <1>13, <1>14, <1>15

\* A batch whose answer is lost: a first part of it may be stored, none of it is
\* counted, and the page has failed.
LEMMA SendFailsOK ==
    ASSUME IInv, NEW e \in Page, SendFails(e)
    PROVE  IInv'
<1> USE DEF IInv
<1> DEFINE n == Cardinality(stored)
<1>1. Known
  BY KnownOK
<1>2. /\ Docs' = Docs /\ (Raises' <=> Raises) /\ (OnePage' <=> OnePage)
      /\ mode' = mode /\ stop' = stop /\ input' = input
      /\ Len(input)' = Len(input)
  BY SameCall DEF SendFails
<1>3. PICK k \in Batch(e) \cup {sent} :
         stored' = stored \cup {i \in Accepted(Batch(e)) : i <= k}
  BY DEF SendFails
<1> DEFINE A == {i \in Accepted(Batch(e)) : i <= k}
<1>4. /\ pc = "send" /\ e > sent
      /\ stored' = stored \cup A /\ ins' = ins /\ sent' = e
      /\ failed' = TRUE /\ pc' = "complete"
      /\ UNCHANGED <<lo, next, done, warned, bare, total, outcome>>
  BY <1>3 DEF SendFails, Ships
<1>5. /\ e \in Nat /\ lo < e /\ e <= next /\ lo <= sent
      /\ Batch(e) \subseteq Page /\ Page \subseteq 1 .. Len(input)
      /\ Accepted(Batch(e)) \subseteq Batch(e)
      /\ stored \cap Batch(e) = {} /\ stored \cup Batch(e) \subseteq UpTo(e)
      /\ stored \subseteq 1 .. Len(input)
  BY <1>4, BatchFacts
<1>6. A \subseteq Batch(e)
  BY <1>5
<1>7. \A i \in A, j \in Batch(e) : j <= i => j \in A
  <2>1. Batch(e) \subseteq Nat
    BY <1>4, BatchFacts
  <2>2. \A i \in Accepted(Batch(e)), j \in Batch(e) :
           j <= i => j \in Accepted(Batch(e))
    BY <2>1, AcceptedFirst
  <2>3. k \in Nat
    BY <1>1, <1>3, <2>1 DEF Known
  <2> QED
    BY <1>5, <2>1, <2>2, <2>3
<1> HIDE DEF A
<1>8. stored \cup A \subseteq 1 .. Len(input) /\ stored \cup A \subseteq Docs
  BY <1>5, <1>6 DEF Page, TypeOK
<1>9. n <= Cardinality(stored \cup A) /\ n \in Nat
  <2>1. Len(input) \in Nat
    BY <1>1 DEF Known
  <2>2. /\ stored \in SUBSET (1 .. Len(input))
        /\ stored \cup A \in SUBSET (1 .. Len(input))
        /\ stored \subseteq stored \cup A
    BY <1>5, <1>8
  <2>3. Cardinality(stored) <= Cardinality(stored \cup A)
    BY <2>1, <2>2, Counting
  <2>4. Cardinality(stored) \in 0 .. Len(input)
    BY <2>1, <2>2, Counting
  <2> QED
    BY <2>1, <2>3, <2>4
<1>10. Cardinality(stored \cup A) \in Nat
  BY <1>1, <1>8, Counting DEF Known
<1>11. TypeOK'
  <2>1. e \in 0 .. next
    BY <1>1, <1>5 DEF Known
  <2> QED
    BY <1>2, <1>4, <1>8, <2>1 DEF TypeOK
<1>12. PagesOK'
  BY <1>2, <1>4 DEF PagesOK, AtEnd, Stuck, Whole
<1>13. SentOK'
  <2>1. lo <= e
    BY <1>1, <1>5 DEF Known
  <2> QED
    BY <1>4, <2>1 DEF SentOK
<1>14. StoredOK'
  <2>1. UpTo(sent)' = UpTo(e) /\ UpTo(lo)' = UpTo(lo)
    BY <1>2, <1>4 DEF UpTo
  <2>2. stored' \subseteq UpTo(e)
    BY <1>4, <1>5, <1>6
  <2>3. ~warned => UpTo(lo) \subseteq stored'
    BY <1>4 DEF StoredOK
  <2>4. Raises => ~warned
    BY DEF StoredOK
  <2> QED
    BY <1>2, <1>4, <2>1, <2>2, <2>3, <2>4 DEF StoredOK
<1>15. CountOK'
  <2>1. UpTo(lo)' = UpTo(lo)
    BY <1>2, <1>4 DEF UpTo
  <2>2. /\ ins <= n
        /\ mode = "restore" => total = next
        /\ mode = "import" => total = Cardinality(UpTo(lo))
        /\ mode \notin {"import", "restore"} => total <= n /\ total + ins <= n
    BY <1>4 DEF CountOK
  <2> HIDE DEF n
  <2>3. /\ ins <= Cardinality(stored \cup A)
        /\ mode \notin {"import", "restore"} =>
             /\ total <= Cardinality(stored \cup A)
             /\ total + ins <= Cardinality(stored \cup A)
    BY <1>1, <1>9, <1>10, <2>2 DEF Known
  <2> QED
    BY <1>2, <1>4, <2>1, <2>2, <2>3 DEF CountOK
<1>16. ToldOK' /\ NeverOverReports'
  BY <1>4 DEF ToldOK, NeverOverReports
<1>17. PagesSerial'
  <2>1. UNCHANGED callVars
    BY DEF SendFails
  <2> QED
    BY <1>4, <1>6, <1>7, <2>1, PrefixOK
<1> QED
  BY <1>11, <1>12, <1>13, <1>14, <1>15, <1>16, <1>17

\* A document that is too large ends the page, which has failed.
LEMMA TooLargeOK ==
    ASSUME IInv, NEW h \in Page, TooLarge(h)
    PROVE  IInv'
<1> USE DEF IInv
<1>1. /\ Docs' = Docs /\ (Raises' <=> Raises) /\ (OnePage' <=> OnePage)
      /\ mode' = mode /\ stop' = stop /\ input' = input
      /\ Len(input)' = Len(input)
  BY SameCall DEF TooLarge
<1>2. /\ pc = "send" /\ pc' = "complete" /\ failed' = TRUE
      /\ UNCHANGED <<lo, next, done, sent, ins, warned, bare, total, stored,
                     outcome>>
  BY DEF TooLarge
<1>3. TypeOK'
  BY <1>1, <1>2 DEF TypeOK
<1>4. PagesOK' /\ SentOK'
  BY <1>1, <1>2 DEF PagesOK, SentOK, AtEnd, Stuck, Whole
<1>5. StoredOK'
  BY <1>1, <1>2 DEF StoredOK, UpTo
<1>6. CountOK'
  <2>1. UpTo(lo)' = UpTo(lo)
    BY <1>1, <1>2 DEF UpTo
  <2> QED
    BY <1>1, <1>2, <2>1 DEF CountOK
<1>7. ToldOK' /\ NeverOverReports'
  BY <1>2 DEF ToldOK, NeverOverReports
<1>8. PagesSerial'
  BY <1>2, SamePrefix DEF TooLarge
<1> QED
  BY <1>3, <1>4, <1>5, <1>6, <1>7, <1>8

\* More of the input has no fewer documents.
LEMMA UpToGrows ==
    ASSUME Known, NEW m \in Nat, NEW n \in Nat, m <= n
    PROVE  UpTo(m) \subseteq UpTo(n)
<1>1. \A i \in Docs : i \in Nat
  BY DEF Known
<1>2. \A i \in Docs : i <= m => i <= n
  BY <1>1
<1> QED
  BY <1>2 DEF UpTo

\* The documents before the page and those of the page.
LEMMA PageCount ==
    ASSUME IInv
    PROVE  /\ UpTo(next) = UpTo(lo) \cup Page
           /\ Cardinality(UpTo(next)) = Cardinality(UpTo(lo)) + Cardinality(Page)
<1> USE DEF IInv
<1>1. Known
  BY KnownOK
<1>a. \A i \in Docs : i \in Nat
  BY <1>1 DEF Known
<1>2. UpTo(next) = UpTo(lo) \cup Page /\ UpTo(lo) \cap Page = {}
  <2>1. \A i \in Docs : /\ i \in UpTo(next) <=> i \in UpTo(lo) \/ i \in Page
                        /\ ~(i \in UpTo(lo) /\ i \in Page)
    BY <1>1, <1>a DEF UpTo, Page, Known
  <2>2. UpTo(next) \subseteq Docs /\ UpTo(lo) \subseteq Docs /\ Page \subseteq Docs
    BY DEF UpTo, Page
  <2> QED
    BY <2>1, <2>2
<1>3. UpTo(lo) \subseteq 1 .. Len(input) /\ Page \subseteq 1 .. Len(input)
  BY <1>1 DEF UpTo, Page, Known
<1> QED
  BY <1>1, <1>2, <1>3, Counting DEF Known

\* The result of a page: if it has not failed, all of it is stored and counted.
LEMMA CompleteOK ==
    ASSUME IInv, Complete
    PROVE  IInv'
<1> USE DEF IInv
<1>1. CASE failed /\ Raises
  BY <1>1, FailOK DEF Complete
<1>2. CASE ~(failed /\ Raises)
  <2> DEFINE n == Cardinality(stored)
  <2>1. Known
    BY KnownOK
  <2>2. /\ Docs' = Docs /\ (Raises' <=> Raises) /\ (OnePage' <=> OnePage)
        /\ mode' = mode /\ stop' = stop /\ input' = input
        /\ Len(input)' = Len(input)
    BY SameCall DEF Complete
  <2>3. /\ pc = "complete" /\ pc' = "more" /\ total' = CountAfter
        /\ UNCHANGED <<outcome, lo, next, done, bulkVars, bare, stored>>
    BY <1>2 DEF Complete
  <2>4. warned' \in BOOLEAN /\ (warned' <=> warned \/ failed)
    BY <1>2 DEF Complete
  <2>5. n \in 0 .. Len(input)
    BY <2>1, Counting DEF Known, TypeOK
  <2>6. ~warned' => stored = UpTo(next)
    <3> SUFFICES ASSUME ~warned, ~failed PROVE stored = UpTo(next)
      BY <2>4
    <3>1. stored = UpTo(sent) /\ \A i \in Page : i <= sent
      BY <2>3 DEF StoredOK
    <3>2. lo <= sent
      BY <2>3 DEF SentOK
    <3>3. UpTo(lo) \subseteq UpTo(sent) /\ UpTo(sent) \subseteq UpTo(next)
      BY <2>1, <3>2, UpToGrows DEF Known
    <3>4. Page \subseteq UpTo(sent)
      BY <3>1 DEF Page, UpTo
    <3> QED
      BY <3>1, <3>3, <3>4, PageCount
  <2>7. Raises => ~warned'
    BY <1>2, <2>4 DEF StoredOK
  <2>8. /\ mode = "import" => CountAfter = n
        /\ mode = "restore" => CountAfter = next
        /\ mode \notin {"import", "restore"} =>
             CountAfter <= n /\ (~warned' => CountAfter = n)
        /\ CountAfter \in 0 .. Len(input)
    <3>1. CASE mode = "import"
      <4>1. total = Cardinality(UpTo(lo)) /\ CountAfter = total + Cardinality(Page)
        BY <2>3, <3>1 DEF CountOK, CountAfter
      <4>2. stored = UpTo(next)
        BY <2>6, <2>7, <3>1 DEF Raises
      <4> QED
        BY <2>5, <3>1, <4>1, <4>2, PageCount
    <3>2. CASE mode = "restore"
      <4>1. CountAfter = next
        BY <3>2 DEF CountOK, CountAfter
      <4> QED
        BY <2>1, <3>2, <4>1 DEF Known
    <3>3. CASE mode \notin {"import", "restore"}
      <4>1. CountAfter = total + ins
        BY <3>3 DEF CountAfter
      <4>2. total + ins <= n /\ (~warned /\ ~failed => total + ins = n)
        BY <2>3, <3>3 DEF CountOK
      <4> HIDE DEF n
      <4> QED
        BY <2>1, <2>4, <2>5, <3>3, <4>1, <4>2 DEF Known
    <3> QED
      BY <3>1, <3>2, <3>3
  <2>9. TypeOK'
    BY <2>2, <2>3, <2>4, <2>8 DEF TypeOK, bulkVars
  <2>10. PagesOK' /\ SentOK'
    BY <2>2, <2>3 DEF PagesOK, SentOK, AtEnd, Stuck, Whole, bulkVars
  <2>11. StoredOK'
    <3>1. UpTo(next)' = UpTo(next) /\ UpTo(sent)' = UpTo(sent)
      BY <2>2, <2>3 DEF UpTo, bulkVars
    <3>2. stored \subseteq UpTo(sent)
      BY DEF StoredOK
    <3> QED
      BY <2>2, <2>3, <2>6, <2>7, <3>1, <3>2 DEF StoredOK
  <2>12. CountOK'
    <3>1. ins <= n
      BY DEF CountOK
    <3> QED
      BY <2>2, <2>3, <2>8, <3>1 DEF CountOK, bulkVars
  <2>13. ToldOK' /\ NeverOverReports'
    BY <2>3 DEF ToldOK, NeverOverReports
  <2>14. PagesSerial'
    BY <2>3, SamePrefix DEF Complete
  <2> QED
    BY <2>9, <2>10, <2>11, <2>12, <2>13, <2>14
<1> QED
  BY <1>1, <1>2

-----------------------------------------------------------------------------
(***************************************************************************)
(* The theorems.                                                           *)
(***************************************************************************)

\* A call begins with an empty page and nothing stored.
LEMMA InitOK == Init => IInv
<1> SUFFICES ASSUME Init PROVE IInv
  OBVIOUS
<1>1. PICK n \in IF mode = "bson" THEN {1} ELSE 0 .. MaxDocs :
         input \in [1 .. n -> Kinds \cap KindsOf[mode]]
  BY DEF Init, Inputs
<1>2. n \in Nat
  BY <1>1, InsertAssumption
<1>3. input \in Seq(Kinds \cap KindsOf[mode])
  BY <1>1, <1>2, SeqDef
<1>4. Len(input) \in Nat
  BY <1>3, LenProperties
<1>5. TypeOK
  <2>1. mode \in Modes /\ stop \in BOOLEAN /\ input \in Inputs(mode)
    BY DEF Init
  <2>2. /\ pc \in {"read", "queue", "send", "complete", "more", "finish", "over"}
        /\ outcome \in {"none", "ok", "warning", "error"}
    BY DEF Init
  <2>3. /\ done \in BOOLEAN /\ failed \in BOOLEAN
        /\ warned \in BOOLEAN /\ bare \in BOOLEAN
    BY DEF Init
  <2>4. /\ lo \in 0 .. next /\ next \in 0 .. Len(input) /\ sent \in 0 .. next
        /\ ins \in 0 .. Len(input) /\ total \in 0 .. Len(input)
    BY <1>4 DEF Init
  <2>5. stored \in SUBSET Docs
    BY DEF Init
  <2> QED
    BY <2>1, <2>2, <2>3, <2>4, <2>5 DEF TypeOK
<1>6. UpTo(0) = {} /\ Cardinality({}) = 0
  <2>1. Docs \subseteq 1 .. Len(input)
    BY <1>5, InputFacts
  <2>2. \A i \in Docs : ~(i <= 0)
    BY <2>1, <1>4
  <2> QED
    BY <2>2, FS_EmptySet DEF UpTo
<1>7. Whole(0)
  BY NextPage
<1>8. PagesOK
  BY <1>7 DEF Init, PagesOK, OnePage
<1>9. SentOK
  BY DEF Init, SentOK
<1>10. StoredOK
  BY <1>6 DEF Init, StoredOK
<1>11. CountOK
  BY <1>6 DEF Init, CountOK
<1>12. ToldOK /\ NeverOverReports /\ PagesSerial
  BY DEF Init, ToldOK, NeverOverReports, PagesSerial
<1> QED
  BY <1>5, <1>8, <1>9, <1>10, <1>11, <1>12 DEF IInv

\* Every step keeps the invariant.
LEMMA NextOK == IInv /\ [Next]_vars => IInv'
<1> SUFFICES ASSUME IInv, [Next]_vars PROVE IInv'
  OBVIOUS
<1>1. CASE TakePage
  BY <1>1, TakePageOK
<1>2. CASE RestorePage
  BY <1>2, RestorePageOK
<1>3. CASE SourceFails
  BY <1>3, FailOK DEF SourceFails
<1>4. CASE More
  BY <1>4, MoreOK
<1>5. CASE Finish
  BY <1>5, FinishOK
<1>6. CASE Queue
  BY <1>6, QueueOK
<1>7. CASE NoServer
  BY <1>7, GivesUpOK DEF NoServer
<1>8. ASSUME NEW i \in Page, Send(i) \/ SendFails(i) \/ TooLarge(i) PROVE IInv'
  BY <1>8, SendOK, SendFailsOK, TooLargeOK
<1>9. CASE Complete
  BY <1>9, CompleteOK
<1>10. CASE UNCHANGED vars
  <2>1. UNCHANGED callVars
    BY <1>10 DEF vars, callVars
  <2>2. Docs' = Docs /\ (Raises' <=> Raises) /\ (OnePage' <=> OnePage)
    BY <2>1, SameCall
  <2>3. TypeOK'
    BY <1>10, <2>2 DEF IInv, TypeOK, vars
  <2>4. PagesOK'
    BY <1>10, <2>2 DEF IInv, PagesOK, AtEnd, Stuck, Whole, vars
  <2>5. SentOK'
    BY <1>10, <2>2 DEF IInv, SentOK, Page, vars
  <2>6. StoredOK'
    BY <1>10, <2>2 DEF IInv, StoredOK, UpTo, Page, vars
  <2>7. CountOK'
    BY <1>10, <2>2 DEF IInv, CountOK, UpTo, vars
  <2>8. ToldOK' /\ NeverOverReports'
    BY <1>10, <2>2 DEF IInv, ToldOK, NeverOverReports, AtEnd, Stuck, UpTo, vars
  <2>9. PagesSerial'
    BY <1>10, <2>1, SamePrefix DEF IInv, vars
  <2> QED
    BY <2>3, <2>4, <2>5, <2>6, <2>7, <2>8, <2>9 DEF IInv
<1> QED
  BY <1>1, <1>2, <1>3, <1>4, <1>5, <1>6, <1>7, <1>8, <1>9, <1>10 DEF Next

\* The pages, what was sent, stored and counted agree at every step of a call.
THEOREM Invariance == Spec => []IInv
<1>1. Init => IInv
  BY InitOK
<1>2. IInv /\ [Next]_vars => IInv'
  BY NextOK
<1> QED
  BY <1>1, <1>2, PTL DEF Spec

\* The page, the bulk operation and the counts have the values the R and C code
\* gives them.
THEOREM TypeCorrect == Spec => []TypeOK
<1>1. IInv => TypeOK
  BY DEF IInv
<1> QED
  BY <1>1, Invariance, PTL

\* A call that returns, with a warning or without, never reports more documents
\* than are on the server.
THEOREM CountsAreBacked == Spec => []NeverOverReports
<1>1. IInv => NeverOverReports
  BY DEF IInv
<1> QED
  BY <1>1, Invariance, PTL

\* If errors stop the call, no document is stored after one that is not, of those
\* in pages that go in one message.
THEOREM NoGaps == Spec => []PrefixStored
<1>1. IInv => PrefixStored
  BY DEF IInv, PagesSerial, PrefixStored
<1> QED
  BY <1>1, Invariance, PTL

\* No document of the input is cut off by its end.
Uncut == \A i \in DOMAIN input : input[i] # "cut"

\* A call that returns without an error or a warning has stored every document
\* of an input that is not cut off inside a document, and reports their number.
\* Of one that is, R_mongo_restore takes the cut for the end.
THEOREM SuccessIsComplete == Spec => [](Uncut => OkMeansStored)
<1>1. IInv => (Uncut => OkMeansStored)
  <2> SUFFICES ASSUME IInv, Uncut, outcome = "ok"
               PROVE  stored = Docs /\ total = Cardinality(Docs)
    BY DEF OkMeansStored
  <2>1. stored = UpTo(next) /\ total = Cardinality(stored) /\ AtEnd
    BY DEF IInv, ToldOK
  <2>2. TypeOK
    BY DEF IInv
  <2>3. Known
    BY <2>2, KnownOK
  <2>4. next = Len(input)
    <3> SUFFICES ASSUME Stuck, input[next + 1] = "cut" PROVE FALSE
      BY <2>1 DEF AtEnd
    <3>1. next + 1 \in DOMAIN input
      BY <2>2, <2>3, InputFacts DEF Stuck, Known
    <3> QED
      BY <3>1 DEF Uncut
  <2>5. UpTo(next) = Docs
    BY <2>2, <2>3, <2>4, FirstOnes DEF Known
  <2> QED
    BY <2>1, <2>5
<1> QED
  BY <1>1, Invariance, PTL

-----------------------------------------------------------------------------
(***************************************************************************)
(* Why calls end: their distance from the next page, or from the end.      *)
(***************************************************************************)

\* How far the call is from its next page or its end.
Distance ==
    CASE pc = "over"     -> 0
      [] pc = "finish"   -> 1
      [] pc = "read"     -> IF OnePage THEN 7 ELSE 2
      [] pc = "more"     -> 3
      [] pc = "complete" -> 4
      [] pc = "send"     -> 5
      [] pc = "queue"    -> 6

\* Why they return: each step gets the call further in its input, or nearer to
\* the end of the page, or sends more of it.  R_mongo_restore leaves its loop on
\* a round that reads nothing.
Advances ==
    [][\/ next' > next
       \/ next' = next /\ Distance' < Distance
       \/ next' = next /\ Distance' = Distance /\ sent' > sent]_vars

\* A page is only read by pages if there is something left.
ReadOK == pc = "read" /\ mode # "restore" /\ ~OnePage => next < Len(input)

\* ReadOK is kept.
LEMMA ReadInductive == IInv /\ ReadOK /\ [Next]_vars => ReadOK'
<1> SUFFICES ASSUME IInv, ReadOK, [Next]_vars PROVE ReadOK'
  OBVIOUS
<1>1. CASE More
  <2>1. UNCHANGED callVars /\ next' = next
    BY <1>1 DEF More
  <2>2. (OnePage' <=> OnePage) /\ mode' = mode /\ input' = input
    BY <2>1, SameCall DEF callVars
  <2>3. next \in 0 .. Len(input) /\ Len(input) \in Nat
    BY InputFacts DEF IInv, TypeOK
  <2>4. ASSUME pc' = "read", mode # "restore", ~OnePage PROVE next # Len(input)
    BY <1>1, <2>4 DEF More
  <2>5. ASSUME pc' = "read", mode # "restore", ~OnePage PROVE next < Len(input)
    BY <2>3, <2>4, <2>5
  <2> QED
    BY <2>1, <2>2, <2>5 DEF ReadOK
<1>2. CASE UNCHANGED vars
  BY <1>2 DEF vars, ReadOK, OnePage
<1>3. CASE Next /\ ~More
  <2>1. pc' # "read"
    BY <1>3 DEF Next, TakePage, RestorePage, EmptyRound, SourceFails, Fail, Finish,
       Queue, NoServer, GivesUp, Send, SendFails, TooLarge, Complete
  <2> QED
    BY <2>1 DEF ReadOK
<1> QED
  BY <1>1, <1>2, <1>3

\* A page: what it takes of the input, or its place in the code.
LEMMA PageAdvances ==
    ASSUME IInv, IInv', ReadOK, TakePage \/ RestorePage
    PROVE  next' > next \/ (next' = next /\ Distance' < Distance)
<1>1. Known
  BY KnownOK DEF IInv
<1>2. /\ next \in Nat /\ Len(input) \in Nat /\ next <= Len(input)
      /\ PageSize \in Nat /\ PageSize > 0
  BY InputFacts, InsertAssumption DEF IInv, TypeOK
<1>3. pc = "read" /\ lo' = next /\ mode' = mode
  BY DEF TakePage, RestorePage, callVars
<1>4. PICK e \in Nat : e = next' /\ next <= e
  <2>1. lo' \in 0 .. next' /\ next' \in 0 .. Len(input)'
    BY DEF IInv, TypeOK
  <2>2. Len(input)' = Len(input)
    BY DEF TakePage, RestorePage, callVars
  <2>3. PICK e \in 0 .. Len(input) : e = next'
    BY <2>1, <2>2
  <2>4. next \in 0 .. e
    BY <1>3, <2>1, <2>3
  <2> QED
    BY <1>2, <2>3, <2>4
<1>5. CASE next < e
  BY <1>4, <1>5
<1>6. CASE next = e
  <2>1. CASE TakePage /\ OnePage
    BY <1>3, <1>4, <1>6, <2>1 DEF TakePage, Distance
  <2>2. ~(TakePage /\ ~OnePage)
    <3> SUFFICES ASSUME TakePage, ~OnePage PROVE FALSE
      OBVIOUS
    <3>1. next < Len(input)
      BY DEF ReadOK, TakePage
    <3>2. e = Smaller(next + PageSize, Len(input))
      BY <1>4 DEF TakePage
    <3> QED
      BY <1>2, <1>6, <3>1, <3>2 DEF Smaller
  <2>3. CASE RestorePage
    <3>1. ~OnePage /\ pc' = "finish"
      BY <1>4, <1>6, <2>3 DEF RestorePage, OnePage, EmptyRound
    <3> QED
      BY <1>3, <1>4, <1>6, <3>1 DEF Distance
  <2> QED
    BY <2>1, <2>2, <2>3
<1> QED
  BY <1>2, <1>4, <1>5, <1>6

\* Each step of insert() and import() gets the call further in its input, to the
\* end of its page, or sends more of it, whatever fails: with the fairness of
\* FairSpec this is why Terminates holds, for inputs and pages of any size.
THEOREM CallsAdvance == Spec => Advances
<1> DEFINE Step == \/ next' > next
                   \/ next' = next /\ Distance' < Distance
                   \/ next' = next /\ Distance' = Distance /\ sent' > sent
<1>1. Init => ReadOK
  <2>1. Modes \subseteq {"frame", "strings", "bson", "import", "restore"}
    BY InsertAssumption DEF KindsOf
  <2> QED
    BY <2>1 DEF Init, ReadOK, OnePage
<1>2. ASSUME IInv, IInv', ReadOK, Next PROVE Step
  <2>1. CASE TakePage \/ RestorePage
    BY <1>2, <2>1, PageAdvances
  <2>2. CASE SourceFails
    BY <2>2 DEF SourceFails, Fail, Distance
  <2>3. CASE More
    <3>1. pc = "more" /\ next' = next /\ (OnePage' <=> OnePage)
      BY <2>3 DEF More, callVars, OnePage
    <3>2. pc' = "finish" \/ (pc' = "read" /\ ~OnePage)
      BY <2>3 DEF More
    <3> QED
      BY <3>1, <3>2 DEF Distance
  <2>4. CASE Finish
    BY <2>4 DEF Finish, Distance
  <2>5. CASE Queue \/ NoServer
    <3>1. /\ next' = next /\ pc \in {"queue", "send"}
          /\ pc' \in {"over", "more"} \/ (pc = "queue" /\ pc' = "send")
      BY <2>5 DEF Queue, NoServer, GivesUp, Fail
    <3> QED
      BY <3>1 DEF Distance
  <2>6. ASSUME NEW i \in Page, Send(i)
        PROVE  next' = next /\ (Distance' < Distance \/
                                (Distance' = Distance /\ sent' > sent))
    <3>1. /\ pc = "send" /\ pc' \in {"complete", "send"} /\ next' = next
          /\ sent' = i /\ i > sent
      BY <2>6 DEF Send, Ships
    <3> QED
      BY <3>1 DEF Distance
  <2>7. ASSUME NEW i \in Page, SendFails(i) \/ TooLarge(i)
        PROVE  next' = next /\ Distance' < Distance
    BY <2>7 DEF SendFails, TooLarge, Distance
  <2>8. CASE Complete
    BY <2>8 DEF Complete, Fail, Distance
  <2> QED
    BY <1>2, <2>1, <2>2, <2>3, <2>4, <2>5, <2>6, <2>7, <2>8 DEF Next
<1>3. IInv /\ IInv' /\ ReadOK /\ [Next]_vars => [Step]_vars
  BY <1>2
<1> QED
  BY <1>1, <1>3, ReadInductive, Invariance, PTL DEF Spec, Advances
=============================================================================
