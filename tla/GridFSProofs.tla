---------------------------- MODULE GridFSProofs ----------------------------
(***************************************************************************)
(* Proofs about GridFS, for any files, chunk size, buffer and length.      *)
(***************************************************************************)
EXTENDS GridFS, WellFoundedInduction, TLAPS

\* n bytes end where a chunk does.
Whole(n) == n = (n \div ChunkSize) * ChunkSize

\* More of the source may come.
Growing(f) == \/ wpc[f] \in {"source", "fill"}
              \/ wpc[f] \in {"flush", "inner"} /\ back[f] = "fill"

\* A length the file had when its document was written: it ends with a chunk,
\* or it is the final one.
Settled(f, n) ==
    /\ n \in Nat /\ n <= pos[f]
    /\ Whole(n) \/ (n = pos[f] /\ ~Growing(f))

\* The page follows the chunks that are full.
PageOK(f) ==
    /\ page[f] <= pos[f]
    /\ page[f] > 0 \/ Growing(f) => Whole(pos[f] - page[f])
    /\ pos[f] + iov[f] <= MaxLen
    /\ wpc[f] = "flush" => page[f] > 0
    /\ wpc[f] = "flush" /\ back[f] = "fill" => page[f] = ChunkSize
    /\ wpc[f] \in {"inner", "upsert"} => page[f] = 0

\* A chunk on the server has the size it has in the whole file, and is full as
\* long as the file may grow.
ChunksOK(f) ==
    \A c \in Chunks : chunk[f][c] # 0 =>
        /\ chunk[f][c] = Share(pos[f], c)
        /\ Growing(f) => (c + 1) * ChunkSize <= pos[f]

\* The length in the document stays behind the page.
DocOK(f) ==
    doc[f] # Absent => doc[f] <= pos[f] - page[f] /\ Settled(f, doc[f])

\* What is not dirty has been saved.
DirtyOK(f) ==
    /\ wpc[f] = "source" => dirty[f]
    /\ wpc[f] = "flush" /\ back[f] # "fill" => dirty[f]
    /\ wpc[f] \in {"rewound", "save"} /\ mode[f] # "fin" /\ f \notin meddled
         => dirty[f] \/ doc[f] = pos[f]

\* The chunks before the page are there, and those the document calls for.
BackedOK(f) ==
    f \notin meddled =>
        /\ doc[f] # Absent => Backed(f, doc[f])
        /\ Writing(f) => Backed(f, pos[f] - page[f])

\* Whose chunks are being removed is not written and cannot be found.
RemovedOK(f) ==
    (f \in rm \/ dropping) /\ f \notin meddled => ~Writing(f) /\ doc[f] = Absent

\* A file nobody has opened.
UnusedOK(f) ==
    wpc[f] = "unused" => /\ pos[f] = 0 /\ page[f] = 0
                         /\ doc[f] = Absent /\ f \notin rm

FileOK(f) ==
    /\ PageOK(f) /\ ChunksOK(f) /\ DocOK(f) /\ DirtyOK(f)
    /\ BackedOK(f) /\ RemovedOK(f) /\ UnusedOK(f)

\* A reader has the first chunks, all of them full but the last.
ReaderOK ==
    /\ reader \in [pc : {"idle", "reading", "done", "error"},
                   file : Files \cup {None}, len : Int, got : Seq(Int),
                   bytes : Int]
    /\ reader.pc \in {"reading", "done"} =>
         /\ reader.file \in Files /\ Settled(reader.file, reader.len)
         /\ reader.bytes \in 0 .. reader.len
         /\ reader.bytes < reader.len =>
              reader.bytes = Len(reader.got) * ChunkSize
         /\ \A i \in 1 .. Len(reader.got) : reader.got[i] = i - 1
    /\ reader.pc = "done" => reader.bytes = reader.len

IInv == TypeOK /\ ReaderOK /\ \A f \in Files : FileOK(f)

-----------------------------------------------------------------------------
(***************************************************************************)
(* Chunks and lengths.                                                     *)
(***************************************************************************)

\* The numbers of the chunks of n bytes.
LEMMA Division ==
    ASSUME NEW n \in Nat
    PROVE  /\ n \div ChunkSize \in Nat
           /\ (n \div ChunkSize) * ChunkSize <= n
           /\ n < ((n \div ChunkSize) + 1) * ChunkSize
  BY GridFSAssumption

\* A number of whole chunks.
LEMMA WholeChunks ==
    ASSUME NEW m \in Nat
    PROVE  /\ m * ChunkSize \in Nat /\ (m * ChunkSize) \div ChunkSize = m
           /\ (m + 1) * ChunkSize = m * ChunkSize + ChunkSize
           /\ Whole(m * ChunkSize)
  BY GridFSAssumption DEF Whole

\* Chunks follow one another.
LEMMA ChunkOrder ==
    ASSUME NEW c \in Nat, NEW d \in Nat, c < d
    PROVE  (c + 1) * ChunkSize <= d * ChunkSize
  BY GridFSAssumption

\* No length goes beyond the chunks there are.
LEMMA InChunks ==
    ASSUME NEW n \in Nat, n <= MaxLen
    PROVE  n \div ChunkSize \in Chunks
  BY GridFSAssumption DEF Chunks

\* Where a chunk begins and ends.
LEMMA ChunkTypes ==
    ASSUME NEW c \in Chunks
    PROVE  c \in Nat /\ c * ChunkSize \in Nat
           /\ (c + 1) * ChunkSize = c * ChunkSize + ChunkSize
<1>1. c \in Nat
  BY GridFSAssumption DEF Chunks
<1> QED
  BY <1>1, WholeChunks

\* A chunk is full, empty or the last one.
LEMMA ShareType ==
    ASSUME NEW n \in Nat, NEW c \in Nat
    PROVE  /\ Share(n, c) \in 0 .. ChunkSize
           /\ n <= c * ChunkSize => Share(n, c) = 0
           /\ (c + 1) * ChunkSize <= n => Share(n, c) = ChunkSize
           /\ Share(n, c) > 0 => c * ChunkSize < n
<1>1. c * ChunkSize \in Nat /\ (c + 1) * ChunkSize = c * ChunkSize + ChunkSize
  BY WholeChunks
<1> QED
  BY <1>1, GridFSAssumption DEF Share

\* A page of g bytes is the last chunk of the n bytes written.
LEMMA SharePage ==
    ASSUME NEW n \in Nat, NEW g \in 1 .. ChunkSize, NEW m \in Nat,
           n - g = m * ChunkSize, NEW c \in Nat
    PROVE  /\ Share(n, c) = IF c = m THEN g ELSE Share(n - g, c)
           /\ Share(n - g, m) = 0
<1>1. c * ChunkSize \in Nat /\ (c + 1) * ChunkSize = c * ChunkSize + ChunkSize
  BY WholeChunks
<1>2. m * ChunkSize \in Nat /\ (m + 1) * ChunkSize = m * ChunkSize + ChunkSize
  BY WholeChunks
<1>3. CASE c = m
  BY <1>1, <1>3, GridFSAssumption DEF Share
<1>4. CASE c < m
  <2>1. (c + 1) * ChunkSize <= m * ChunkSize
    BY <1>4, ChunkOrder
  <2> QED
    BY <1>1, <1>2, <1>4, <2>1, GridFSAssumption DEF Share
<1>5. CASE m < c
  <2>1. (m + 1) * ChunkSize <= c * ChunkSize
    BY <1>5, ChunkOrder
  <2> QED
    BY <1>1, <1>2, <1>5, <2>1, GridFSAssumption DEF Share
<1> QED
  BY <1>3, <1>4, <1>5

\* A shorter length that ends with a chunk, or the same length.
LEMMA ShareSettled ==
    ASSUME NEW p \in Nat, NEW n \in Nat, n <= p, Whole(n) \/ n = p,
           NEW c \in Nat, c * ChunkSize < n
    PROVE  /\ Share(p, c) = Share(n, c)
           /\ Share(n, c) > 0
           /\ Share(n, c) = IF (c + 1) * ChunkSize <= n THEN ChunkSize
                            ELSE n - c * ChunkSize
<1>1. c * ChunkSize \in Nat /\ (c + 1) * ChunkSize = c * ChunkSize + ChunkSize
  BY WholeChunks
<1>2. CASE n = p
  BY <1>1, <1>2, GridFSAssumption DEF Share
<1>3. CASE Whole(n)
  <2> DEFINE m == n \div ChunkSize
  <2>1. m \in Nat /\ n = m * ChunkSize
    BY <1>3, Division DEF Whole
  <2> HIDE DEF m
  <2>2. c < m
    <3>1. CASE m < c
      BY <1>1, <2>1, <3>1, ChunkOrder, WholeChunks, GridFSAssumption
    <3>2. CASE m = c
      BY <2>1, <3>2
    <3> QED
      BY <2>1, <3>1, <3>2
  <2>3. (c + 1) * ChunkSize <= n
    BY <2>1, <2>2, ChunkOrder
  <2> QED
    BY <1>1, <2>3, GridFSAssumption DEF Share
<1> QED
  BY <1>2, <1>3

\* Among natural numbers there is a smallest.
LEMMA Smallest ==
    ASSUME NEW S, S \subseteq Nat, S # {}
    PROVE  \E n \in S : \A m \in S : n <= m
<1>1. IsWellFoundedOn(OpToRel(<, Nat), Nat)
  BY NatLessThanWellFounded
<1>2. PICK n \in S : \A m \in S : ~(<<m, n>> \in OpToRel(<, Nat))
  BY <1>1, WFMin
<1>3. \A m \in S : ~(m < n)
  BY <1>2 DEF OpToRel
<1> QED
  BY <1>3

-----------------------------------------------------------------------------
(***************************************************************************)
(* What a step leaves alone.                                               *)
(***************************************************************************)

LEMMA FileTypes ==
    ASSUME TypeOK, NEW f \in Files
    PROVE  /\ pos[f] \in Nat /\ pos[f] <= MaxLen /\ page[f] \in Nat
           /\ page[f] <= ChunkSize /\ iov[f] \in Nat /\ iov[f] <= MaxBuf
           /\ doc[f] \in Nat \cup {Absent} /\ doc[f] \in Int
           /\ chunk[f] \in [Chunks -> 0 .. ChunkSize]
           /\ dirty[f] \in BOOLEAN
           /\ back[f] \in {"fill", "upsert", "rewound"}
           /\ mode[f] \in {"stream", "upload", "fin"}
           /\ ChunkSize \in Nat \ {0} /\ MaxLen \in Nat /\ MaxBuf \in Nat
  BY GridFSAssumption DEF TypeOK, Absent

\* The file g is as it was.
Same(g) ==
    /\ doc'[g] = doc[g] /\ chunk'[g] = chunk[g] /\ wpc'[g] = wpc[g]
    /\ mode'[g] = mode[g] /\ pos'[g] = pos[g] /\ page'[g] = page[g]
    /\ (dirty'[g] <=> dirty[g]) /\ iov'[g] = iov[g] /\ back'[g] = back[g]
    /\ (g \in meddled' <=> g \in meddled) /\ (g \in rm' <=> g \in rm)
    /\ (dropping' <=> dropping)

\* What is said of a file stays true while the file stays as it is.
LEMMA SameFile ==
    ASSUME NEW g \in Files, FileOK(g), Same(g)
    PROVE  FileOK(g)'
<1>1. PageOK(g)' /\ UnusedOK(g)'
  BY DEF FileOK, Same, PageOK, UnusedOK, Growing
<1>2. ChunksOK(g)'
  BY DEF FileOK, Same, ChunksOK, Growing
<1>3. DocOK(g)'
  BY DEF FileOK, Same, DocOK, Settled, Growing
<1>4. DirtyOK(g)' /\ RemovedOK(g)'
  BY DEF FileOK, Same, DirtyOK, RemovedOK, Writing
<1>5. BackedOK(g)'
  BY DEF FileOK, Same, BackedOK, Backed, Writing
<1> QED
  BY <1>1, <1>2, <1>3, <1>4, <1>5 DEF FileOK

\* Lengths that were settled are.
Settles(f) == \A n \in Nat : Settled(f, n) => Settled(f, n)'

\* A length remains settled where nothing is written.
LEMMA SettlesSame ==
    ASSUME TypeOK, NEW f \in Files, pos'[f] = pos[f],
           Growing(f)' => Growing(f)
    PROVE  Settles(f)
  BY DEF Settles, Settled

\* A reader is not disturbed as long as settled lengths stay settled.
LEMMA ReaderKept ==
    ASSUME ReaderOK, reader' = reader, \A f \in Files : Settles(f)
    PROVE  ReaderOK'
<1>1. reader.pc \in {"reading", "done"} => Settled(reader.file, reader.len)'
  BY DEF ReaderOK, Settles, Settled
<1> QED
  BY <1>1 DEF ReaderOK

\* A step of the writer of f.
LEMMA WriterStep ==
    ASSUME IInv, NEW f \in Files, TypeOK', FileOK(f)', Settles(f),
           reader' = reader, \A g \in Files \ {f} : Same(g)
    PROVE  IInv'
<1>1. \A g \in Files \ {f} : FileOK(g)'
  BY SameFile DEF IInv
<1>2. \A g \in Files \ {f} : Settles(g)
  BY SettlesSame DEF Same, Growing, IInv
<1>3. ReaderOK'
  BY <1>2, ReaderKept DEF IInv
<1> QED
  BY <1>1, <1>3 DEF IInv

\* A new file has nothing yet.
LEMMA OpenStep ==
    ASSUME IInv, NEW f \in Files, NEW m \in {"stream", "upload"}, Open(f, m)
    PROVE  IInv'
<1>t. TypeOK /\ FileOK(f) /\ wpc[f] = "unused"
  BY DEF IInv, Open
<1>l. /\ wpc'[f] = "source" /\ mode'[f] = m /\ dirty'[f]
      /\ pos' = pos /\ page' = page /\ iov' = iov /\ back' = back
      /\ doc' = doc /\ chunk' = chunk /\ rm' = rm /\ dropping' = dropping
      /\ reader' = reader /\ (dropping => f \in meddled')
      /\ pos[f] = 0 /\ page[f] = 0 /\ doc[f] = Absent /\ f \notin rm
  BY <1>t DEF Open, Put, TypeOK, serverVars, otherVars, FileOK, UnusedOK
<1>1. TypeOK'
  BY DEF IInv, Open, Put, TypeOK, serverVars, otherVars
<1>2. \A g \in Files \ {f} : Same(g)
  BY <1>t DEF Open, Put, TypeOK, serverVars, otherVars, Same
<1>w. Whole(0) /\ 0 * ChunkSize = 0
  BY WholeChunks, GridFSAssumption
<1>s. \A c \in Chunks : Share(0, c) = 0
  BY ChunkTypes, ShareType
<1>3. PageOK(f)'
  BY <1>l, <1>t, <1>w DEF PageOK, FileOK
<1>4. ChunksOK(f)'
  BY <1>l, <1>t, <1>s DEF ChunksOK, FileOK
<1>5. DocOK(f)' /\ DirtyOK(f)' /\ UnusedOK(f)' /\ RemovedOK(f)'
  BY <1>l DEF DocOK, DirtyOK, UnusedOK, RemovedOK
<1>6. BackedOK(f)'
  BY <1>l, <1>s DEF BackedOK, Backed
<1>7. FileOK(f)'
  BY <1>3, <1>4, <1>5, <1>6 DEF FileOK
<1>8. Settles(f)
  BY <1>l, <1>w DEF Settles, Settled
<1> QED
  BY <1>l, <1>1, <1>2, <1>7, <1>8, WriterStep

-----------------------------------------------------------------------------
(***************************************************************************)
(* The steps of a writer.                                                  *)
(***************************************************************************)

\* A step that writes nothing, on the page or to the server.
Moves(f) ==
    /\ doc' = doc /\ chunk' = chunk /\ pos' = pos /\ page' = page
    /\ rm' = rm /\ dropping' = dropping /\ meddled' = meddled
    /\ reader' = reader /\ wpc[f] # "unused" /\ wpc'[f] # "unused"
    /\ Growing(f)' => Growing(f)
    /\ Writing(f)' => Writing(f)

\* A writer that only moves on keeps what is said of its file.
LEMMA MoveStep ==
    ASSUME IInv, NEW f \in Files, Moves(f), TypeOK', PageOK(f)', DirtyOK(f)',
           \A g \in Files \ {f} : Same(g)
    PROVE  IInv'
<1>t. TypeOK /\ FileOK(f)
  BY DEF IInv
<1>1. ChunksOK(f)' /\ UnusedOK(f)'
  BY <1>t DEF ChunksOK, UnusedOK, FileOK, Moves
<1>2. Settles(f)
  BY <1>t, SettlesSame DEF Moves
<1>3. DocOK(f)'
  BY <1>t, <1>2 DEF DocOK, FileOK, Moves, Settles, Settled
<1>4. BackedOK(f)' /\ RemovedOK(f)'
  BY <1>t DEF BackedOK, RemovedOK, Backed, FileOK, Moves
<1>5. FileOK(f)'
  BY <1>1, <1>3, <1>4 DEF FileOK
<1> QED
  BY <1>2, <1>5, WriterStep DEF Moves

\* The source gives the writer a buffer.
LEMMA SourceStep ==
    ASSUME IInv, NEW f \in Files, NEW k \in 1 .. MaxBuf, Source(f, k)
    PROVE  IInv'
<1>t. TypeOK /\ FileOK(f) /\ wpc[f] = "source" /\ pos[f] + k <= MaxLen
  BY DEF IInv, Source
<1>l. wpc'[f] = "fill" /\ iov'[f] = k /\ mode' = mode /\ dirty' = dirty
      /\ back' = back /\ pos' = pos /\ page' = page /\ doc' = doc
  BY <1>t DEF Source, Put, TypeOK, serverVars, otherVars
<1>m. Moves(f)
  BY <1>l, <1>t DEF Source, Moves, serverVars, otherVars, Growing, Writing
<1>1. TypeOK'
  BY GridFSAssumption DEF IInv, Source, Put, TypeOK, serverVars, otherVars
<1>2. \A g \in Files \ {f} : Same(g)
  BY <1>t DEF Source, Put, TypeOK, serverVars, otherVars, Same
<1>3. PageOK(f)' /\ DirtyOK(f)'
  BY <1>l, <1>t DEF PageOK, DirtyOK, FileOK, Growing
<1> QED
  BY <1>m, <1>1, <1>2, <1>3, MoveStep

\* The write ends early: an error, or the end of the process.
LEMMA EndStep ==
    ASSUME IInv, NEW f \in Files, SourceFails(f) \/ Crash(f)
    PROVE  IInv'
<1> DEFINE p == IF Crash(f) /\ ~SourceFails(f) THEN "gone" ELSE OnError(f)
<1>t. TypeOK /\ FileOK(f)
  BY DEF IInv
<1>w. Writing(f) /\ wpc[f] # "unused"
  BY DEF SourceFails, Crash, Writing
<1>p. p \in {"aborted", "failed", "gone"}
  BY DEF OnError
<1>l. /\ wpc' = Put(wpc, f, p) /\ mode' = mode /\ dirty' = dirty
      /\ back' = back /\ pos' = pos /\ page' = page /\ doc' = doc
      /\ iov' = iov /\ chunk' = chunk /\ exists' = exists
      /\ rm' = rm /\ dropping' = dropping /\ dres' = dres
      /\ reader' = reader /\ meddled' = meddled
  BY DEF SourceFails, Crash, serverVars, otherVars
<1> HIDE DEF p
<1>q. wpc'[f] = p
  BY <1>l, <1>t DEF Put, TypeOK
<1>m. Moves(f)
  BY <1>l, <1>p, <1>q, <1>w DEF Moves, Growing, Writing
<1>1. TypeOK'
  BY <1>l, <1>p, <1>t DEF Put, TypeOK
<1>2. \A g \in Files \ {f} : Same(g)
  BY <1>l, <1>t DEF Put, TypeOK, Same
<1>3. PageOK(f)' /\ DirtyOK(f)'
  BY <1>l, <1>p, <1>q, <1>t DEF PageOK, DirtyOK, FileOK, Growing
<1> QED
  BY <1>m, <1>1, <1>2, <1>3, MoveStep

\* The source has ended: the page is flushed, or the file saved.
LEMMA SourceEndsStep ==
    ASSUME IInv, NEW f \in Files, SourceEnds(f)
    PROVE  IInv'
<1>t. TypeOK /\ FileOK(f) /\ wpc[f] = "source" /\ dirty[f]
  BY DEF IInv, SourceEnds, FileOK, DirtyOK
<1>l. /\ wpc'[f] \in {"save", "rewound", "flush"} /\ mode' = mode
      /\ dirty' = dirty /\ pos' = pos /\ page' = page /\ doc' = doc
      /\ iov' = iov
      /\ wpc'[f] = "flush" => page[f] > 0 /\ back'[f] = "rewound"
  BY <1>t DEF SourceEnds, Put, TypeOK, serverVars, otherVars
<1>m. Moves(f)
  BY <1>l, <1>t DEF SourceEnds, Moves, serverVars, otherVars, Growing, Writing
<1>1. TypeOK'
  BY DEF IInv, SourceEnds, Put, TypeOK, serverVars, otherVars
<1>2. \A g \in Files \ {f} : Same(g)
  BY <1>t DEF SourceEnds, Put, TypeOK, serverVars, otherVars, Same
<1>3. PageOK(f)' /\ DirtyOK(f)'
  BY <1>l, <1>t DEF PageOK, DirtyOK, FileOK, Growing
<1> QED
  BY <1>m, <1>1, <1>2, <1>3, MoveStep

\* An upload that is complete is saved.
LEMMA RewoundStep ==
    ASSUME IInv, NEW f \in Files, Rewound(f)
    PROVE  IInv'
<1>t. TypeOK /\ FileOK(f) /\ wpc[f] = "rewound"
  BY DEF IInv, Rewound
<1>l. /\ wpc'[f] = "save" /\ mode' = mode /\ back' = back /\ pos' = pos
      /\ page' = page /\ doc' = doc /\ iov' = iov /\ meddled' = meddled
      /\ dirty[f] => dirty'[f]
  BY <1>t DEF Rewound, Put, TypeOK, serverVars, otherVars
<1>m. Moves(f)
  BY <1>l, <1>t DEF Rewound, Moves, serverVars, otherVars, Growing, Writing
<1>1. TypeOK'
  BY DEF IInv, Rewound, Put, TypeOK, serverVars, otherVars
<1>2. \A g \in Files \ {f} : Same(g)
  BY <1>t DEF Rewound, Put, TypeOK, serverVars, otherVars, Same
<1>3. PageOK(f)' /\ DirtyOK(f)'
  BY <1>l, <1>t DEF PageOK, DirtyOK, FileOK, Growing
<1> QED
  BY <1>m, <1>1, <1>2, <1>3, MoveStep

\* mongoc_gridfs_file_save: nothing to do, a page to flush, a document to write.
LEMMA SaveStep ==
    ASSUME IInv, NEW f \in Files, Save(f)
    PROVE  IInv'
<1>t. TypeOK /\ FileOK(f) /\ wpc[f] = "save" /\ page[f] \in Nat
  BY FileTypes DEF IInv, Save
<1>l. /\ wpc'[f] \in {"done", "gone", "flush", "upsert"} /\ mode' = mode
      /\ back'[f] = "upsert" /\ dirty' = dirty /\ pos' = pos /\ page' = page
      /\ doc' = doc /\ iov' = iov
      /\ wpc'[f] = "flush" => page[f] > 0 /\ dirty[f]
      /\ wpc'[f] = "upsert" => page[f] = 0
  BY <1>t DEF Save, OnSuccess, Put, TypeOK, serverVars, otherVars
<1>m. Moves(f)
  BY <1>l, <1>t DEF Save, Moves, serverVars, otherVars, Growing, Writing
<1>1. TypeOK'
  BY DEF IInv, Save, OnSuccess, Put, TypeOK, serverVars, otherVars
<1>2. \A g \in Files \ {f} : Same(g)
  BY <1>t DEF Save, Put, TypeOK, serverVars, otherVars, Same
<1>3. PageOK(f)' /\ DirtyOK(f)'
  BY <1>l, <1>t DEF PageOK, DirtyOK, FileOK, Growing
<1> QED
  BY <1>m, <1>1, <1>2, <1>3, MoveStep

\* The finalizer of a stream saves the file once more.
LEMMA FinalizeStep ==
    ASSUME IInv, NEW f \in Files, Finalize(f)
    PROVE  IInv'
<1>t. TypeOK /\ FileOK(f) /\ wpc[f] = "aborted"
  BY DEF IInv, Finalize
<1>l. /\ wpc'[f] = "save" /\ mode'[f] = "fin" /\ back' = back /\ pos' = pos
      /\ page' = page /\ doc' = doc /\ iov' = iov /\ dirty' = dirty
  BY <1>t DEF Finalize, Put, TypeOK, serverVars, otherVars
<1>m. Moves(f)
  BY <1>l, <1>t DEF Finalize, Moves, serverVars, otherVars, Growing, Writing
<1>1. TypeOK'
  BY DEF IInv, Finalize, Put, TypeOK, serverVars, otherVars
<1>2. \A g \in Files \ {f} : Same(g)
  BY <1>t DEF Finalize, Put, TypeOK, serverVars, otherVars, Same
<1>3. PageOK(f)' /\ DirtyOK(f)'
  BY <1>l, <1>t DEF PageOK, DirtyOK, FileOK, Growing
<1> QED
  BY <1>m, <1>1, <1>2, <1>3, MoveStep

\* Bytes go on the page.
LEMMA FillStep ==
    ASSUME IInv, NEW f \in Files, Fill(f)
    PROVE  IInv'
<1> DEFINE k == Fits(f)
<1>t. TypeOK /\ FileOK(f) /\ wpc[f] = "fill" /\ Growing(f)
  BY DEF IInv, Fill, Growing
<1>n. /\ pos[f] \in Nat /\ page[f] \in Nat /\ page[f] <= ChunkSize
      /\ iov[f] \in Nat /\ iov[f] <= MaxBuf /\ ChunkSize \in Nat \ {0}
      /\ pos[f] + iov[f] <= MaxLen /\ page[f] <= pos[f] /\ MaxLen \in Nat
      /\ MaxBuf \in Nat
  BY <1>t, FileTypes DEF FileOK, PageOK
<1>k. /\ k \in Nat /\ k <= iov[f] /\ page[f] + k <= ChunkSize
      /\ iov[f] - k # 0 => page[f] + k = ChunkSize
  BY <1>n DEF Fits
<1>0. /\ page' = Put(page, f, page[f] + k) /\ pos' = Put(pos, f, pos[f] + k)
      /\ iov' = Put(iov, f, iov[f] - k)
      /\ \/ /\ iov'[f] = 0 /\ wpc' = Put(wpc, f, "source")
            /\ dirty' = Put(dirty, f, TRUE) /\ back' = back
         \/ /\ iov'[f] # 0 /\ wpc' = Put(wpc, f, "flush")
            /\ back' = Put(back, f, "fill") /\ dirty' = dirty
      /\ doc' = doc /\ chunk' = chunk /\ exists' = exists /\ mode' = mode
      /\ rm' = rm /\ dropping' = dropping /\ dres' = dres
      /\ reader' = reader /\ meddled' = meddled
  BY DEF Fill, DirtyAfterWrite, serverVars, otherVars
<1> HIDE DEF k
<1>l. /\ page'[f] = page[f] + k /\ pos'[f] = pos[f] + k
      /\ iov'[f] = iov[f] - k
      /\ \/ wpc'[f] = "source" /\ dirty'[f]
         \/ wpc'[f] = "flush" /\ back'[f] = "fill" /\ iov[f] - k # 0
  BY <1>0, <1>t DEF Put, TypeOK
<1>1. TypeOK'
  <2>1. pos[f] + k \in 0 .. MaxLen /\ page[f] + k \in 0 .. ChunkSize
        /\ iov[f] - k \in 0 .. MaxBuf
    BY <1>n, <1>k
  <2> QED
    BY <1>0, <1>t, <2>1 DEF Put, TypeOK
<1>2. \A g \in Files \ {f} : Same(g)
  BY <1>0, <1>t DEF Put, TypeOK, Same
<1>g. Growing(f)' /\ pos'[f] - page'[f] = pos[f] - page[f]
  BY <1>l, <1>n, <1>k DEF Growing
<1>3. PageOK(f)'
  <2>1. Whole(pos'[f] - page'[f])
    BY <1>g, <1>t DEF FileOK, PageOK
  <2>2. /\ page'[f] <= pos'[f] /\ pos'[f] + iov'[f] <= MaxLen
        /\ wpc'[f] = "flush" => page'[f] = ChunkSize /\ page'[f] > 0
        /\ wpc'[f] \notin {"inner", "upsert"}
    BY <1>l, <1>n, <1>k
  <2> QED
    BY <2>1, <2>2 DEF PageOK
<1>4. ChunksOK(f)'
  <2>1. ASSUME NEW c \in Chunks, chunk[f][c] # 0
        PROVE  /\ chunk[f][c] = Share(pos'[f], c)
               /\ (c + 1) * ChunkSize <= pos'[f]
    <3>1. chunk[f][c] = Share(pos[f], c) /\ (c + 1) * ChunkSize <= pos[f]
      BY <1>t, <2>1 DEF FileOK, ChunksOK
    <3>2. (c + 1) * ChunkSize <= pos'[f] /\ pos'[f] \in Nat
      BY <1>l, <1>k, <1>n, <3>1, ChunkTypes
    <3> QED
      BY <1>n, <3>1, <3>2, ChunkTypes, ShareType
  <2> QED
    BY <1>0, <2>1 DEF ChunksOK
<1>8. Settles(f)
  BY <1>t, <1>l, <1>k, <1>n DEF Settles, Settled
<1>5. DocOK(f)'
  BY <1>0, <1>t, <1>8, <1>g, FileTypes DEF DocOK, FileOK, Settles
<1>6. DirtyOK(f)' /\ UnusedOK(f)' /\ RemovedOK(f)'
  BY <1>0, <1>l, <1>t DEF DirtyOK, UnusedOK, RemovedOK, Writing, FileOK
<1>7. BackedOK(f)'
  BY <1>0, <1>g, <1>t DEF BackedOK, Backed, Writing, FileOK
<1>9. FileOK(f)'
  BY <1>3, <1>4, <1>5, <1>6, <1>7 DEF FileOK
<1> QED
  BY <1>0, <1>1, <1>2, <1>8, <1>9, WriterStep

\* The page becomes a chunk on the server.
LEMMA FlushStep ==
    ASSUME IInv, NEW f \in Files, NEW o \in Outcomes, Flush(f, o)
    PROVE  IInv'
<1> DEFINE m == ChunkNo(f)
<1>t. TypeOK /\ FileOK(f) /\ wpc[f] = "flush" /\ Writing(f)
  BY DEF IInv, Flush, Writing
<1>n. /\ pos[f] \in Nat /\ pos[f] <= MaxLen /\ page[f] \in 1 .. ChunkSize
      /\ ChunkSize \in Nat \ {0} /\ page[f] <= pos[f] /\ MaxLen \in Nat
      /\ Whole(pos[f] - page[f]) /\ pos[f] + iov[f] <= MaxLen
      /\ back[f] = "fill" => page[f] = ChunkSize
      /\ chunk[f] \in [Chunks -> 0 .. ChunkSize]
      /\ back[f] \in {"fill", "upsert", "rewound"}
  BY <1>t, FileTypes DEF FileOK, PageOK
<1>m. /\ m \in Chunks /\ m \in Nat /\ m * ChunkSize \in Nat
      /\ pos[f] - page[f] = m * ChunkSize
      /\ (m + 1) * ChunkSize = m * ChunkSize + ChunkSize
  <2>1. pos[f] - page[f] \in Nat /\ pos[f] - page[f] <= MaxLen
    BY <1>n
  <2> QED
    BY <1>n, <2>1, InChunks, ChunkTypes DEF ChunkNo, Whole
<1>e. OnError(f) \in {"aborted", "failed", "gone"}
  BY DEF OnError
<1>0. /\ chunk' = IF Applied(o) THEN [chunk EXCEPT ![f][m] = page[f]] ELSE chunk
      /\ page' = IF o = "ok" THEN Put(page, f, 0) ELSE page
      /\ wpc' = Put(wpc, f, IF o # "ok" THEN OnError(f)
                            ELSE IF dirty[f] THEN "inner" ELSE back[f])
      /\ exists' = IF Applied(o) THEN exists \cup {"chunks"} ELSE exists
      /\ doc' = doc /\ mode' = mode /\ pos' = pos
      /\ dirty' = dirty /\ iov' = iov /\ back' = back
      /\ rm' = rm /\ dropping' = dropping /\ dres' = dres
      /\ reader' = reader /\ meddled' = meddled
  BY DEF Flush, otherVars
<1> HIDE DEF m
<1>c. /\ chunk'[f] \in [Chunks -> 0 .. ChunkSize]
      /\ o = "ok" => chunk'[f][m] = page[f]
      /\ chunk'[f][m] \in {page[f], chunk[f][m]}
      /\ \A c \in Chunks : c # m => chunk'[f][c] = chunk[f][c]
  BY <1>0, <1>m, <1>n, <1>t DEF TypeOK, Applied
<1>l. /\ page'[f] = IF o = "ok" THEN 0 ELSE page[f]
      /\ wpc'[f] = IF o # "ok" THEN OnError(f)
                   ELSE IF dirty[f] THEN "inner" ELSE back[f]
  BY <1>0, <1>t DEF Put, TypeOK
<1>1. TypeOK'
  <2>1. chunk' \in [Files -> [Chunks -> 0 .. ChunkSize]]
    BY <1>0, <1>m, <1>n, <1>t DEF TypeOK
  <2>2. page' \in [Files -> 0 .. ChunkSize]
    BY <1>0, <1>n, <1>t DEF TypeOK, Put
  <2>3. exists' \in SUBSET Collections
    BY <1>0, <1>t DEF TypeOK, Collections
  <2> QED
    BY <1>0, <1>e, <1>n, <1>t, <2>1, <2>2, <2>3 DEF TypeOK, Put
<1>2. \A g \in Files \ {f} : Same(g)
  BY <1>0, <1>t DEF Put, TypeOK, Same
<1>g. /\ Growing(f)' => back[f] = "fill" /\ Growing(f) /\ o = "ok"
      /\ wpc'[f] \notin {"unused", "source", "flush", "save"}
  BY <1>0, <1>e, <1>l, <1>n, <1>t DEF Growing
<1>s. \A c \in Chunks :
        /\ Share(pos[f], c) = IF c = m THEN page[f]
                              ELSE Share(pos[f] - page[f], c)
        /\ Share(pos[f] - page[f], m) = 0
  BY <1>m, <1>n, ChunkTypes, SharePage
<1>3. PageOK(f)'
  <2>1. page'[f] > 0 \/ Growing(f)' => Whole(pos'[f] - page'[f])
    <3>1. CASE o = "ok" /\ Growing(f)'
      <4>1. pos'[f] - page'[f] = (m + 1) * ChunkSize
        BY <1>0, <1>g, <1>l, <1>m, <1>n, <3>1
      <4> QED
        BY <1>m, <4>1, WholeChunks
    <3>2. CASE o # "ok"
      BY <1>0, <1>l, <1>n, <3>2
    <3> QED
      BY <1>l, <3>1, <3>2
  <2>2. page'[f] <= pos'[f] /\ pos'[f] + iov'[f] <= MaxLen
    BY <1>0, <1>l, <1>n
  <2>3. wpc'[f] \in {"inner", "upsert"} => page'[f] = 0
    BY <1>l, <1>e
  <2> QED
    BY <1>g, <2>1, <2>2, <2>3 DEF PageOK
<1>4. ChunksOK(f)'
  <2>1. ASSUME NEW c \in Chunks, chunk'[f][c] # 0
        PROVE  /\ chunk'[f][c] = Share(pos[f], c)
               /\ Growing(f)' => (c + 1) * ChunkSize <= pos[f]
    <3>1. CASE chunk'[f][c] = chunk[f][c]
      BY <1>g, <1>t, <2>1, <3>1 DEF FileOK, ChunksOK
    <3>2. CASE c = m /\ chunk'[f][c] = page[f]
      <4>1. Growing(f)' => (m + 1) * ChunkSize <= pos[f]
        BY <1>g, <1>m, <1>n
      <4> QED
        BY <1>s, <3>2, <4>1
    <3> QED
      BY <1>c, <3>1, <3>2
  <2> QED
    BY <1>0, <2>1 DEF ChunksOK
<1>8. Settles(f)
  BY <1>0, <1>g, <1>t, SettlesSame
<1>5. DocOK(f)'
  <2>1. ASSUME doc[f] # Absent PROVE doc[f] <= pos[f] - page'[f] /\ doc[f] \in Nat
    BY <1>l, <1>n, <1>t, <2>1, FileTypes DEF FileOK, DocOK
  <2> QED
    BY <1>0, <1>8, <1>t, <2>1 DEF FileOK, DocOK, Settles
<1>6. DirtyOK(f)' /\ UnusedOK(f)' /\ RemovedOK(f)'
  BY <1>0, <1>e, <1>g, <1>l, <1>n, <1>t DEF DirtyOK, UnusedOK, RemovedOK, FileOK
<1>7. BackedOK(f)'
  <2> SUFFICES ASSUME f \notin meddled
               PROVE  /\ doc[f] # Absent => Backed(f, doc[f])'
                      /\ Backed(f, pos[f] - page[f])'
    BY <1>0 DEF BackedOK
  <2>1. ASSUME doc[f] # Absent
        PROVE  \A c \in Chunks : Share(doc[f], c) > 0 =>
                 chunk'[f][c] = Share(doc[f], c)
    <3>1. doc[f] \in Nat /\ doc[f] <= m * ChunkSize
      BY <1>m, <1>t, <2>1, FileTypes DEF FileOK, DocOK
    <3>2. Share(doc[f], m) = 0
      BY <1>m, <3>1, ShareType
    <3> QED
      BY <1>c, <1>t, <2>1, <3>2 DEF FileOK, BackedOK, Backed
  <2>2. Backed(f, pos[f] - page[f])
    BY <1>t DEF FileOK, BackedOK
  <2>3. CASE o = "ok"
    <3>1. \A c \in Chunks : Share(pos[f], c) > 0 =>
            chunk'[f][c] = Share(pos[f], c)
      BY <1>c, <1>m, <1>s, <2>2, <2>3 DEF Backed
    <3>2. pos'[f] - page'[f] = pos[f]
      BY <1>0, <1>l, <1>n, <2>3
    <3> QED
      BY <1>0, <2>1, <3>1, <3>2 DEF Backed
  <2>4. CASE o # "ok"
    <3>1. \A c \in Chunks : Share(pos[f] - page[f], c) > 0 =>
            chunk'[f][c] = Share(pos[f] - page[f], c)
      BY <1>c, <1>m, <1>s, <2>2 DEF Backed
    <3>2. pos'[f] - page'[f] = pos[f] - page[f]
      BY <1>0, <1>l, <2>4
    <3> QED
      BY <1>0, <2>1, <3>1, <3>2 DEF Backed
  <2> QED
    BY <2>3, <2>4
<1>9. FileOK(f)'
  BY <1>3, <1>4, <1>5, <1>6, <1>7 DEF FileOK
<1> QED
  BY <1>0, <1>1, <1>2, <1>8, <1>9, WriterStep

\* The document gets the length of what has been flushed.
LEMMA UpsertStep ==
    ASSUME IInv, NEW f \in Files, NEW o \in Outcomes, NEW p,
           wpc[f] \in {"inner", "upsert"}, Upsert(f, o, p),
           p = IF wpc[f] = "inner" THEN back[f] ELSE OnSuccess(f)
    PROVE  IInv'
<1>t. TypeOK /\ FileOK(f) /\ Writing(f)
  BY DEF IInv, Writing
<1>n. /\ pos[f] \in Nat /\ pos[f] <= MaxLen /\ page[f] = 0 /\ MaxLen \in Nat
      /\ pos[f] + iov[f] <= MaxLen /\ back[f] \in {"fill", "upsert", "rewound"}
      /\ mode[f] \in {"stream", "upload", "fin"} /\ iov[f] \in Nat
      /\ Growing(f) => Whole(pos[f])
  <2>1. pos[f] - 0 = pos[f]
    BY <1>t, FileTypes
  <2> QED
    BY <1>t, <2>1, FileTypes DEF FileOK, PageOK
<1>e. OnError(f) \in {"aborted", "failed", "gone"}
      /\ OnSuccess(f) \in {"done", "gone"}
  BY DEF OnError, OnSuccess
<1>0. /\ doc' = IF Applied(o) THEN Put(doc, f, pos[f]) ELSE doc
      /\ exists' = IF Applied(o) THEN exists \cup {"files"} ELSE exists
      /\ dirty' = Put(dirty, f, FALSE)
      /\ wpc' = Put(wpc, f, IF o = "ok" THEN p ELSE OnError(f))
      /\ chunk' = chunk /\ mode' = mode /\ pos' = pos /\ page' = page
      /\ iov' = iov /\ back' = back
      /\ rm' = rm /\ dropping' = dropping /\ dres' = dres
      /\ reader' = reader /\ meddled' = meddled
  BY DEF Upsert, SavedLength, otherVars
<1>l. /\ doc'[f] = IF Applied(o) THEN pos[f] ELSE doc[f]
      /\ wpc'[f] = IF o = "ok" THEN p ELSE OnError(f)
      /\ o = "ok" => Applied(o)
  BY <1>0, <1>t DEF Put, TypeOK, Applied
<1>1. TypeOK'
  <2>1. doc' \in [Files -> 0 .. MaxLen \cup {Absent}]
    BY <1>0, <1>n, <1>t DEF TypeOK, Put
  <2>2. exists' \in SUBSET Collections /\ dirty' \in [Files -> BOOLEAN]
    BY <1>0, <1>t DEF TypeOK, Put, Collections
  <2> QED
    BY <1>0, <1>e, <1>n, <1>t, <2>1, <2>2 DEF TypeOK, Put
<1>2. \A g \in Files \ {f} : Same(g)
  BY <1>0, <1>t DEF Put, TypeOK, Same
<1>g. /\ Growing(f)' => Growing(f)
      /\ wpc'[f] \notin {"unused", "source", "flush", "save", "inner"}
      /\ wpc'[f] = "rewound" => Applied(o)
  BY <1>0, <1>e, <1>l, <1>n DEF Growing
<1>3. PageOK(f)' /\ UnusedOK(f)' /\ DirtyOK(f)'
  BY <1>0, <1>g, <1>l, <1>n, <1>t DEF PageOK, UnusedOK, DirtyOK, FileOK
<1>4. ChunksOK(f)'
  BY <1>0, <1>g, <1>t DEF ChunksOK, FileOK
<1>8. Settles(f)
  BY <1>0, <1>g, <1>t, SettlesSame
<1>5. DocOK(f)'
  <2>1. Settled(f, pos[f])'
    BY <1>0, <1>g, <1>n DEF Settled
  <2>2. doc[f] # Absent => doc[f] \in Nat
    BY <1>t, FileTypes
  <2> QED
    BY <1>0, <1>8, <1>l, <1>n, <1>t, <2>1, <2>2 DEF FileOK, DocOK, Settles
<1>6. RemovedOK(f)'
  BY <1>0, <1>t DEF RemovedOK, FileOK
<1>7. BackedOK(f)'
  <2>1. pos[f] - page[f] = pos[f]
    BY <1>n
  <2> QED
    BY <1>0, <1>l, <1>t, <2>1 DEF BackedOK, Backed, FileOK
<1>9. FileOK(f)'
  BY <1>3, <1>4, <1>5, <1>6, <1>7 DEF FileOK
<1> QED
  BY <1>0, <1>1, <1>2, <1>8, <1>9, WriterStep

\* Every step of a writer.
LEMMA WriteStep ==
    ASSUME IInv, NEW f \in Files, Write(f)
    PROVE  IInv'
<1>1. ASSUME NEW o \in Outcomes, InnerSave(f, o) PROVE IInv'
  BY <1>1, UpsertStep DEF InnerSave
<1>2. ASSUME NEW o \in Outcomes, OuterSave(f, o) PROVE IInv'
  <2>1. wpc[f] = "upsert" /\ wpc[f] # "inner"
    BY <1>2 DEF OuterSave
  <2> QED
    BY <1>2, <2>1, UpsertStep DEF OuterSave
<1> QED
  BY <1>1, <1>2, OpenStep, SourceStep, EndStep, SourceEndsStep, RewoundStep,
     FillStep, SaveStep, FlushStep, FinalizeStep DEF Write
-----------------------------------------------------------------------------
(***************************************************************************)
(* Other sessions.                                                         *)
(***************************************************************************)

\* Documents and chunks disappear; whoever is being written has been meddled
\* with.
Takes ==
    /\ wpc' = wpc /\ mode' = mode /\ pos' = pos /\ page' = page
    /\ dirty' = dirty /\ iov' = iov /\ back' = back /\ reader' = reader
    /\ meddled \subseteq meddled'
    /\ \A f \in Files :
         /\ doc'[f] # doc[f] => doc'[f] = Absent /\ (Writing(f) => f \in meddled')
         /\ chunk'[f] # chunk[f] => /\ f \in meddled' \/ f \in rm \/ dropping
                                    /\ Writing(f) => f \in meddled'
         /\ \A c \in Chunks : chunk'[f][c] \in {0, chunk[f][c]}
         /\ f \in rm' \/ dropping' => \/ f \in rm \/ dropping
                                      \/ f \in meddled'
                                      \/ ~Writing(f) /\ doc'[f] = Absent
         /\ f \in rm' => f \in rm \/ doc[f] # Absent

\* A step of another session that takes chunks away, or a document.
LEMMA TakesStep ==
    ASSUME IInv, TypeOK', Takes
    PROVE  IInv'
<1>1. ASSUME NEW f \in Files PROVE FileOK(f)' /\ Settles(f)
  <2>t. TypeOK /\ FileOK(f)
    BY DEF IInv
  <2>g. (Growing(f)' <=> Growing(f)) /\ (Writing(f)' <=> Writing(f))
    BY DEF Takes, Growing, Writing
  <2>1. PageOK(f)'
    BY <2>g, <2>t DEF PageOK, FileOK, Takes
  <2>2. ChunksOK(f)'
    BY <2>g, <2>t DEF ChunksOK, FileOK, Takes
  <2>3. Settles(f)
    BY <2>g, <2>t, SettlesSame DEF Takes
  <2>4. DocOK(f)'
    <3>1. doc[f] # Absent => doc[f] \in Nat
      BY <2>t, FileTypes
    <3> QED
      BY <2>3, <2>t, <3>1 DEF DocOK, FileOK, Takes, Settles
  <2>5. DirtyOK(f)'
    BY <2>t DEF DirtyOK, FileOK, Takes, Writing
  <2>6. RemovedOK(f)' /\ UnusedOK(f)'
    BY <2>g, <2>t DEF RemovedOK, UnusedOK, FileOK, Takes
  <2>7. BackedOK(f)'
    <3>1. CASE chunk'[f] = chunk[f]
      BY <2>g, <2>t, <3>1 DEF BackedOK, Backed, FileOK, Takes
    <3>2. CASE chunk'[f] # chunk[f]
      <4>1. f \notin meddled' => ~Writing(f) /\ doc'[f] = Absent
        BY <2>t, <3>2 DEF RemovedOK, FileOK, Takes
      <4> QED
        BY <2>g, <4>1 DEF BackedOK
    <3> QED
      BY <3>1, <3>2
  <2> QED
    BY <2>1, <2>2, <2>3, <2>4, <2>5, <2>6, <2>7 DEF FileOK
<1>2. ReaderOK'
  BY <1>1, ReaderKept DEF IInv, Takes
<1> QED
  BY <1>1, <1>2 DEF IInv

\* Removing a file, one command after the other.
LEMMA RemoveStep ==
    ASSUME IInv,
           \/ \E f \in Files, o \in Outcomes : RemoveDoc(f, o) \/ RemoveChunks(f, o)
           \/ \E f \in Files, c \in Chunks : RemoveOne(f, c)
    PROVE  IInv'
<1>t. TypeOK
  BY DEF IInv
<1>z. NoChunks \in [Chunks -> 0 .. ChunkSize] /\ \A c \in Chunks : NoChunks[c] = 0
  BY GridFSAssumption DEF NoChunks
<1>1. ASSUME NEW f \in Files, NEW o \in Outcomes, RemoveDoc(f, o) PROVE IInv'
  <2>1. TypeOK'
    BY <1>1, <1>t DEF RemoveDoc, Put, TypeOK, writerVars
  <2>2. \A g \in Files : doc'[g] = IF g = f /\ Applied(o) THEN Absent ELSE doc[g]
    BY <1>1, <1>t DEF RemoveDoc, Put, TypeOK
  <2>3. \A g \in Files : g \in rm' => g \in rm \/ (g = f /\ Applied(o))
    BY <1>1 DEF RemoveDoc, Applied
  <2>4. Takes
    BY <1>1, <2>2, <2>3 DEF RemoveDoc, Takes, writerVars
  <2> QED
    BY <2>1, <2>4, TakesStep
<1>2. ASSUME NEW f \in Files, NEW o \in Outcomes, RemoveChunks(f, o) PROVE IInv'
  <2>1. TypeOK'
    BY <1>2, <1>t, <1>z DEF RemoveChunks, Put, TypeOK, writerVars
  <2>2. \A g \in Files :
          chunk'[g] = IF g = f /\ Applied(o) THEN NoChunks ELSE chunk[g]
    BY <1>2, <1>t DEF RemoveChunks, Put, TypeOK
  <2>3. Takes
    BY <1>2, <1>z, <2>2 DEF RemoveChunks, Takes, writerVars
  <2> QED
    BY <2>1, <2>3, TakesStep
<1>3. ASSUME NEW f \in Files, NEW d \in Chunks, RemoveOne(f, d) PROVE IInv'
  <2>1. TypeOK'
    BY <1>3, <1>t, GridFSAssumption DEF RemoveOne, TypeOK, writerVars, otherVars
  <2>2. \A g \in Files : /\ g # f => chunk'[g] = chunk[g]
                         /\ \A c \in Chunks : chunk'[g][c] \in {0, chunk[g][c]}
    BY <1>3, <1>t DEF RemoveOne, TypeOK
  <2>3. Takes
    BY <1>3, <2>2 DEF RemoveOne, Takes, writerVars, otherVars
  <2> QED
    BY <2>1, <2>3, TakesStep
<1> QED
  BY <1>1, <1>2, <1>3

\* Dropping the two collections, one after the other.
LEMMA DropStep ==
    ASSUME IInv, NEW o \in Outcomes, DropFiles(o) \/ DropChunks(o) \/ EnsureIndex(o)
    PROVE  IInv'
<1>t. TypeOK
  BY DEF IInv
<1>z. NoChunks \in [Chunks -> 0 .. ChunkSize] /\ \A c \in Chunks : NoChunks[c] = 0
  BY GridFSAssumption DEF NoChunks
<1>i. Interrupted \in SUBSET Files /\ \A f \in Files : Writing(f) => f \in Interrupted
  BY DEF Interrupted
<1>r. \A c \in Collections : DropResult(c, o) \in {"TRUE", "FALSE", "error"}
  BY DEF DropResult
<1>1. CASE DropFiles(o)
  <2>1. TypeOK'
    BY <1>1, <1>i, <1>r, <1>t DEF DropFiles, TypeOK, writerVars, Collections
  <2>2. \A g \in Files : doc'[g] = IF Drops("files", o) THEN Absent ELSE doc[g]
    BY <1>1 DEF DropFiles
  <2>3. dropping' => Drops("files", o)
    BY <1>1 DEF DropFiles, DropResult, Drops, Applied
  <2>4. Takes
    BY <1>1, <1>i, <2>2, <2>3 DEF DropFiles, Takes, writerVars
  <2> QED
    BY <2>1, <2>4, TakesStep
<1>2. CASE EnsureIndex(o)
  <2>1. TypeOK'
    BY <1>2, <1>t DEF EnsureIndex, TypeOK, writerVars, otherVars, Collections
  <2>2. Takes
    BY <1>2 DEF EnsureIndex, Takes, writerVars, otherVars
  <2> QED
    BY <2>1, <2>2, TakesStep
<1>3. CASE DropChunks(o)
  <2>1. TypeOK'
    BY <1>3, <1>i, <1>r, <1>t, <1>z DEF DropChunks, TypeOK, writerVars, Collections
  <2>2. \A g \in Files : chunk'[g] = IF Drops("chunks", o) THEN NoChunks ELSE chunk[g]
    BY <1>3 DEF DropChunks
  <2>3. Takes
    BY <1>3, <1>i, <1>z, <2>2 DEF DropChunks, Takes, writerVars
  <2> QED
    BY <2>1, <2>3, TakesStep
<1> QED
  BY <1>1, <1>2, <1>3

\* Steps of the reader change nothing else.
Reads ==
    /\ doc' = doc /\ chunk' = chunk /\ exists' = exists /\ wpc' = wpc
    /\ mode' = mode /\ pos' = pos /\ page' = page /\ dirty' = dirty
    /\ iov' = iov /\ back' = back /\ rm' = rm /\ dropping' = dropping
    /\ dres' = dres /\ meddled' = meddled

\* A step of the reader changes no file.
LEMMA ReadsStep ==
    ASSUME IInv, Reads, ReaderOK'
    PROVE  IInv'
<1>1. TypeOK'
  BY DEF IInv, Reads, TypeOK, ReaderOK
<1>2. \A f \in Files : FileOK(f)'
  <2>1. \A f \in Files : Same(f)
    BY DEF Reads, Same
  <2> QED
    BY <2>1, SameFile DEF IInv
<1> QED
  BY <1>1, <1>2 DEF IInv

\* The chunk the cursor returns is one that is there, when there is one.
LEMMA NextChunkOK ==
    ASSUME TypeOK, NEW f \in Files, NEW n \in Nat,
           \E c \in Chunks : c >= n /\ chunk[f][c] > 0
    PROVE  NextChunk(f, n) \in Chunks /\ chunk[f][NextChunk(f, n)] > 0
<1> DEFINE S == {c \in Chunks : c >= n /\ chunk[f][c] > 0}
<1>1. S \subseteq Nat /\ S # {}
  BY ChunkTypes
<1>2. PICK c \in S : \A d \in S : c <= d
  BY <1>1, Smallest
<1>3. \A d \in n .. c - 1 : chunk[f][d] = 0
  <2>1. ASSUME NEW d \in n .. c - 1 PROVE chunk[f][d] = 0
    <3>1. d \in Chunks
      BY <1>2, GridFSAssumption DEF Chunks
    <3>2. d \notin S /\ d >= n
      BY <1>1, <1>2, <2>1
    <3>3. chunk[f][d] \in 0 .. ChunkSize
      BY <3>1, FileTypes
    <3> QED
      BY <3>1, <3>2, <3>3, GridFSAssumption
  <2> QED
    BY <2>1
<1>4. /\ c \in Chunks /\ c >= n /\ chunk[f][c] > 0
      /\ \A d \in n .. c - 1 : chunk[f][d] = 0
  BY <1>2, <1>3
<1> QED
  BY <1>4 DEF NextChunk

\* The reader gets the next chunk.
LEMMA ReadChunkStep ==
    ASSUME IInv, ReadChunk
    PROVE  IInv'
<1>f. PICK f \in Files : f = reader.file
  BY DEF IInv, ReadChunk, ReaderOK
<1> DEFINE n == reader.bytes \div ChunkSize
           left == \E c \in Chunks : c >= n /\ chunk[f][c] > 0
           got == NextChunk(f, n)
<1>t. TypeOK /\ ReaderOK /\ reader.pc = "reading" /\ reader.bytes < reader.len
  BY DEF IInv, ReadChunk
<1>r. /\ reader \in [pc : {"idle", "reading", "done", "error"},
                     file : Files \cup {None}, len : Int, got : Seq(Int),
                     bytes : Int]
      /\ Settled(f, reader.len) /\ reader.len \in Nat
      /\ reader.bytes \in Nat
      /\ reader.bytes = Len(reader.got) * ChunkSize
      /\ \A i \in 1 .. Len(reader.got) : reader.got[i] = i - 1
      /\ reader.got \in Seq(Int) /\ Len(reader.got) \in Nat
  BY <1>f, <1>t DEF ReaderOK, Settled
<1>n. n = Len(reader.got) /\ n \in Nat
  BY <1>r, WholeChunks
<1>u. Reads
  BY DEF ReadChunk, Reads, serverVars, writerVars
<1>s. Settles(f)
  <2>1. pos'[f] = pos[f] /\ (Growing(f)' => Growing(f))
    BY <1>u DEF Reads, Growing
  <2> QED
    BY <1>r, <1>t, <2>1, SettlesSame
<1>0. \/ left /\ Expected(got, n) /\ reader' = [reader EXCEPT
            !.got = Append(@, got), !.bytes = @ + chunk[f][got]]
      \/ reader' = [reader EXCEPT !.pc = "error"]
  BY <1>f DEF ReadChunk
<1>1. CASE reader' = [reader EXCEPT !.pc = "error"]
  <2>1. ReaderOK'
    BY <1>1, <1>r DEF ReaderOK
  <2> QED
    BY <1>u, <2>1, ReadsStep
<1>2. CASE left /\ Expected(got, n) /\ reader' = [reader EXCEPT
             !.got = Append(@, got), !.bytes = @ + chunk[f][got]]
  <2>1. got \in Chunks /\ chunk[f][got] > 0 /\ got = n
    BY <1>2, <1>n, <1>t, NextChunkOK DEF Expected
  <2> DEFINE b == chunk[f][n]
  <2> HIDE DEF n, got
  <2>2. /\ pos[f] \in Nat /\ chunk[f] \in [Chunks -> 0 .. ChunkSize]
        /\ ChunkSize \in Nat \ {0}
    BY <1>r, <1>t, FileTypes
  <2>3. b = Share(pos[f], n) /\ b \in 1 .. ChunkSize
    <3>1. FileOK(f)
      BY <1>r DEF IInv
    <3>2. b # 0 /\ b \in 1 .. ChunkSize
      BY <2>1, <2>2
    <3> QED
      BY <2>1, <3>1, <3>2 DEF FileOK, ChunksOK
  <2> HIDE DEF b
  <2>4. reader.len <= pos[f] /\ (Whole(reader.len) \/ reader.len = pos[f])
    BY <1>r DEF Settled
  <2>5. /\ n * ChunkSize \in Nat /\ n * ChunkSize = reader.bytes
        /\ (n + 1) * ChunkSize = n * ChunkSize + ChunkSize
    BY <1>n, <1>r, WholeChunks
  <2>6. b = IF (n + 1) * ChunkSize <= reader.len THEN ChunkSize
            ELSE reader.len - n * ChunkSize
    <3>1. n \in Nat /\ n * ChunkSize < reader.len /\ reader.len \in Nat
      BY <1>n, <1>r, <1>t, <2>5
    <3>2. Share(pos[f], n) = Share(reader.len, n)
          /\ Share(reader.len, n) = IF (n + 1) * ChunkSize <= reader.len
                                    THEN ChunkSize
                                    ELSE reader.len - n * ChunkSize
      BY <2>2, <2>4, <3>1, ShareSettled
    <3> QED
      BY <2>3, <3>2
  <2>7. /\ reader'.pc = "reading" /\ reader'.file = f
        /\ reader'.len = reader.len
        /\ reader'.got = Append(reader.got, n)
        /\ reader'.bytes = reader.bytes + b
        /\ reader' \in [pc : {"idle", "reading", "done", "error"},
                        file : Files \cup {None}, len : Int, got : Seq(Int),
                        bytes : Int]
    <3>1. n \in Int /\ b \in Int
      BY <1>n, <2>2, <2>3
    <3>2. Append(reader.got, n) \in Seq(Int) /\ reader.bytes + b \in Int
      BY <1>r, <3>1
    <3>3. reader' = [reader EXCEPT !.got = Append(reader.got, n),
                                   !.bytes = reader.bytes + b]
      BY <1>2, <2>1 DEF b
    <3> QED
      BY <1>f, <1>r, <1>t, <3>2, <3>3
  <2>8. reader.bytes + b \in 0 .. reader.len
        /\ (reader.bytes + b < reader.len =>
              reader.bytes + b = (n + 1) * ChunkSize)
    BY <1>r, <1>t, <2>2, <2>3, <2>5, <2>6
  <2>9. /\ Len(reader'.got) = n + 1
        /\ \A i \in 1 .. n + 1 : reader'.got[i] = i - 1
    BY <1>n, <1>r, <2>7
  <2>10. Settled(reader.file, reader.len)'
    BY <1>r, <1>s, <2>7 DEF Settles, Settled, Growing
  <2>11. ReaderOK'
    BY <1>r, <2>7, <2>8, <2>9, <2>10 DEF ReaderOK
  <2> QED
    BY <1>u, <2>11, ReadsStep
<1> QED
  BY <1>0, <1>1, <1>2

\* The reader gets the document, and with it the length.
LEMMA ReadOpenStep ==
    ASSUME IInv, NEW f \in Files, ReadOpen(f)
    PROVE  IInv'
<1>1. /\ reader' = [NoReader EXCEPT !.pc = "reading", !.file = f, !.len = doc[f]]
      /\ doc[f] # Absent
  BY DEF ReadOpen
<1>2. doc[f] \in Nat /\ Settled(f, doc[f])
  BY <1>1, FileTypes DEF IInv, FileOK, DocOK
<1>3. /\ reader'.pc = "reading" /\ reader'.file = f /\ reader'.len = doc[f]
      /\ reader'.got = <<>> /\ reader'.bytes = 0
      /\ reader' \in [pc : {"idle", "reading", "done", "error"},
                      file : Files \cup {None}, len : Int, got : Seq(Int),
                      bytes : Int]
  <2>1. /\ NoReader = [pc |-> "idle", file |-> None, len |-> 0, got |-> <<>>,
                       bytes |-> 0]
        /\ <<>> \in Seq(Int)
    BY DEF NoReader
  <2>2. reader' = [pc |-> "reading", file |-> f, len |-> doc[f], got |-> <<>>,
                   bytes |-> 0]
    BY <1>1, <2>1, Zenon
  <2> QED
    BY <1>2, <2>1, <2>2
<1>4. Reads
  BY DEF ReadOpen, Reads, serverVars, writerVars
<1>5. Settled(reader.file, reader.len)'
  BY <1>2, <1>3, <1>4 DEF Settled, Growing, Reads
<1>6. Len(<<>>) = 0 /\ 0 * ChunkSize = 0
  BY GridFSAssumption
<1>7. ReaderOK'
  BY <1>2, <1>3, <1>5, <1>6 DEF ReaderOK
<1> QED
  BY <1>4, <1>7, ReadsStep

\* The reader is done, or goes away.
LEMMA ReadEndsStep ==
    ASSUME IInv, ReadEnds \/ ReadStops
    PROVE  IInv'
<1>1. Reads
  BY DEF ReadEnds, ReadStops, Reads, serverVars, writerVars
<1>2. CASE ReadEnds
  <2>1. /\ reader.pc = "reading" /\ reader.bytes >= reader.len
        /\ reader' = [reader EXCEPT !.pc = "done"] /\ ReaderOK
    BY <1>2 DEF ReadEnds, IInv
  <2>2. reader.bytes = reader.len
    BY <2>1 DEF ReaderOK, Settled
  <2>3. /\ reader'.pc = "done" /\ reader'.file = reader.file
        /\ reader'.len = reader.len /\ reader'.got = reader.got
        /\ reader'.bytes = reader.bytes
    BY <2>1 DEF ReaderOK
  <2>4. Settled(reader.file, reader.len)'
    BY <1>1, <2>1, <2>3 DEF ReaderOK, Settled, Growing, Reads
  <2>5. ReaderOK'
    BY <2>1, <2>2, <2>3, <2>4 DEF ReaderOK
  <2> QED
    BY <1>1, <2>5, ReadsStep
<1>3. CASE ReadStops
  <2>1. ReaderOK'
    BY <1>3 DEF ReadStops, NoReader, ReaderOK
  <2> QED
    BY <1>1, <2>1, ReadsStep
<1> QED
  BY <1>2, <1>3
-----------------------------------------------------------------------------
(***************************************************************************)
(* The invariant and the properties that follow from it.                   *)
(***************************************************************************)

LEMMA InitOK == Init => IInv
<1> SUFFICES ASSUME Init PROVE IInv
  OBVIOUS
<1>z. NoChunks \in [Chunks -> 0 .. ChunkSize] /\ \A c \in Chunks : NoChunks[c] = 0
  BY GridFSAssumption DEF NoChunks
<1>r. reader = [pc |-> "idle", file |-> None, len |-> 0, got |-> <<>>,
                bytes |-> 0]
  BY DEF Init, NoReader
<1>1. TypeOK
  <2>1. reader.pc = "idle" /\ reader.file = None
    BY <1>r
  <2>2. exists \in SUBSET Collections /\ dropping \in BOOLEAN /\ dirty \in [Files -> BOOLEAN]
    BY DEF Init
  <2>3. doc \in [Files -> 0 .. MaxLen \cup {Absent}]
    BY DEF Init
  <2>4. chunk \in [Files -> [Chunks -> 0 .. ChunkSize]]
    BY <1>z DEF Init
  <2>5. /\ pos \in [Files -> 0 .. MaxLen] /\ page \in [Files -> 0 .. ChunkSize]
        /\ iov \in [Files -> 0 .. MaxBuf]
    BY GridFSAssumption DEF Init
  <2>6. /\ wpc \in [Files -> {"unused", "source", "fill", "flush", "inner",
                              "save", "upsert", "rewound", "done", "aborted",
                              "failed", "gone"}]
        /\ mode \in [Files -> {"stream", "upload", "fin"}]
        /\ back \in [Files -> {"fill", "upsert", "rewound"}]
        /\ rm \in SUBSET Files /\ meddled \in SUBSET Files
        /\ dres \in {"none", "TRUE", "FALSE", "error"}
    BY DEF Init
  <2> QED
    BY <2>1, <2>2, <2>3, <2>4, <2>5, <2>6 DEF TypeOK
<1>2. ReaderOK
  BY <1>r DEF ReaderOK
<1>3. ASSUME NEW f \in Files PROVE FileOK(f)
  <2>1. /\ doc[f] = Absent /\ chunk[f] = NoChunks /\ wpc[f] = "unused"
        /\ pos[f] = 0 /\ page[f] = 0 /\ iov[f] = 0 /\ rm = {} /\ ~dropping
    BY DEF Init
  <2>2. PageOK(f) /\ UnusedOK(f)
    BY <2>1, GridFSAssumption DEF PageOK, UnusedOK, Growing
  <2>3. ChunksOK(f)
    BY <1>z, <2>1 DEF ChunksOK
  <2>4. DocOK(f) /\ DirtyOK(f) /\ BackedOK(f) /\ RemovedOK(f)
    BY <2>1 DEF DocOK, DirtyOK, BackedOK, RemovedOK, Writing
  <2> QED
    BY <2>2, <2>3, <2>4 DEF FileOK
<1> QED
  BY <1>1, <1>2, <1>3 DEF IInv

\* Every step keeps the invariant.
LEMMA NextOK ==
    ASSUME IInv, [Next]_vars
    PROVE  IInv'
<1>1. CASE \E f \in Files : Write(f)
  BY <1>1, WriteStep
<1>2. CASE \/ \E f \in Files, o \in Outcomes : RemoveDoc(f, o) \/ RemoveChunks(f, o)
           \/ \E f \in Files, c \in Chunks : RemoveOne(f, c)
  BY <1>2, RemoveStep
<1>3. CASE \E o \in Outcomes : DropFiles(o) \/ DropChunks(o) \/ EnsureIndex(o)
  BY <1>3, DropStep
<1>4. CASE \E f \in Files : ReadOpen(f)
  BY <1>4, ReadOpenStep
<1>5. CASE ReadChunk \/ ReadEnds \/ ReadStops
  BY <1>5, ReadChunkStep, ReadEndsStep
<1>6. CASE UNCHANGED vars
  <2>1. Reads /\ reader' = reader
    BY <1>6 DEF vars, Reads
  <2>2. \A f \in Files : Settles(f)
    BY <2>1, SettlesSame DEF IInv, Reads, Growing
  <2>3. ReaderOK'
    BY <2>1, <2>2, ReaderKept DEF IInv
  <2> QED
    BY <2>1, <2>3, ReadsStep
<1> QED
  BY <1>1, <1>2, <1>3, <1>4, <1>5, <1>6 DEF Next

\* The invariant holds throughout, whatever fails and whoever removes.
THEOREM Invariance == Spec => []IInv
<1>1. IInv /\ [Next]_vars => IInv'
  BY NextOK
<1> QED
  BY <1>1, InitOK, PTL DEF Spec

\* Documents, chunks and file structs keep their shapes: no page is larger than
\* a chunk, and no chunk number is beyond the source.
THEOREM TypeCorrect == Spec => []TypeOK
<1>1. IInv => TypeOK
  BY DEF IInv
<1> QED
  BY <1>1, Invariance, PTL

\* A file that can be found has every chunk its length calls for, of any chunk
\* size and length, after any failure of a command, a writer or a source.
THEOREM FoundIsBacked == Spec => []FilesBacked
<1>1. IInv => FilesBacked
  BY DEF IInv, FileOK, BackedOK, FilesBacked
<1> QED
  BY <1>1, Invariance, PTL

\* A read that returns without an error has delivered the file's chunks in
\* order, and exactly as many bytes as the file had when it was found.
THEOREM ReadsAreExact == Spec => []ReadsExact
<1>1. IInv => ReadsExact
  BY DEF IInv, ReaderOK, ReadsExact
<1> QED
  BY <1>1, Invariance, PTL

\* Only a save that is not dirty, or the last upsert, ends a write well.
LEMMA DoneSaved ==
    ASSUME IInv, Next, NEW f \in Files, wpc[f] # "done", wpc'[f] = "done",
           f \notin meddled
    PROVE  doc'[f] = pos'[f] /\ f \notin meddled'
<1>t. TypeOK /\ FileOK(f)
  BY DEF IInv
<1>1. Write(f)
  <2>1. ASSUME NEW g \in Files, Write(g), g # f PROVE wpc'[f] = wpc[f]
    BY <2>1, <1>t DEF Write, Open, Source, SourceFails, SourceEnds, Rewound,
       Fill, Save, Flush, InnerSave, OuterSave, Upsert, Finalize, Crash, Put,
       TypeOK
  <2>2. (\E g \in Files : Write(g)) \/ wpc' = wpc
    BY DEF Next, RemoveDoc, RemoveChunks, RemoveOne, DropFiles, DropChunks,
       EnsureIndex, ReadOpen, ReadChunk, ReadEnds, ReadStops, writerVars
  <2> QED
    BY <2>1, <2>2
<1>2. back[f] # "done" /\ OnError(f) # "done"
  BY <1>t, FileTypes DEF OnError
<1>3. Save(f) \/ \E o \in Outcomes : OuterSave(f, o)
  BY <1>1, <1>2, <1>t DEF Write, Open, Source, SourceFails, SourceEnds, Rewound,
     Fill, Flush, InnerSave, Upsert, Finalize, Crash, Put, TypeOK
<1>4. CASE Save(f)
  <2>1. wpc[f] = "save" /\ ~dirty[f] /\ mode[f] # "fin"
    BY <1>4, <1>t DEF Save, OnSuccess, Put, TypeOK
  <2>2. doc[f] = pos[f]
    BY <1>t, <2>1 DEF FileOK, DirtyOK
  <2> QED
    BY <1>4, <2>2 DEF Save, serverVars
<1>5. ASSUME NEW o \in Outcomes, OuterSave(f, o)
      PROVE  doc'[f] = pos'[f] /\ f \notin meddled'
  <2>1. o = "ok"
    BY <1>2, <1>5, <1>t DEF OuterSave, Upsert, Put, TypeOK
  <2> QED
    BY <1>5, <1>t, <2>1 DEF OuterSave, Upsert, Put, TypeOK, Applied, SavedLength
<1> QED
  BY <1>3, <1>4, <1>5

\* fs$write() and fs$upload() that return without an error have stored the
\* document with the length of the source, and every chunk of it.
THEOREM WritesAreDurable == Spec => WritesDurable
<1> DEFINE A == \A f \in Files :
                  wpc[f] # "done" /\ wpc'[f] = "done" /\ f \notin meddled
                      => doc'[f] = pos'[f] /\ Backed(f, pos[f])'
<1>1. IInv /\ [Next]_vars => [A]_vars
  <2> SUFFICES ASSUME IInv, Next, NEW f \in Files, wpc[f] # "done",
                      wpc'[f] = "done", f \notin meddled
               PROVE  doc'[f] = pos'[f] /\ Backed(f, pos[f])'
    OBVIOUS
  <2>1. doc'[f] = pos'[f] /\ f \notin meddled'
    BY DoneSaved
  <2>2. IInv'
    BY NextOK
  <2>3. pos'[f] \in Nat
    BY <2>2 DEF IInv, TypeOK
  <2>4. Backed(f, doc[f])'
    BY <2>1, <2>2, <2>3 DEF IInv, FileOK, BackedOK, Absent
  <2> QED
    BY <2>1, <2>4 DEF Backed
<1> QED
  BY <1>1, Invariance, PTL DEF Spec, WritesDurable
=============================================================================
