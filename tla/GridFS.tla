------------------------------- MODULE GridFS -------------------------------
(***************************************************************************)
(* Files in GridFS: what fs$write() and fs$upload() leave on the server    *)
(* when any of their commands, the source they read from, the call or the  *)
(* process may fail, and what fs$read(), fs$download(), fs$remove() and    *)
(* fs$drop() of other sessions meanwhile see and do.                       *)
(*                                                                         *)
(* A file has one document in the files collection, with its length, and   *)
(* one per ChunkSize bytes in the chunks collection; no command spans two  *)
(* documents.  Every write makes a file of its own, so a file stands for   *)
(* the call that writes it.  Bytes are counted, not stored: byte i of a    *)
(* file is the i-th byte of its source.                                    *)
(***************************************************************************)
EXTENDS Integers, Sequences

CONSTANTS Files,      \* files ever written
          ChunkSize,  \* file->chunk_size
          MaxBuf,     \* largest buffer read from the source at once
          MaxLen,     \* bound: bytes in a source
          None        \* no file

ASSUME GridFSAssumption ==
    /\ ChunkSize \in Nat \ {0} /\ MaxBuf \in Nat \ {0} /\ MaxLen \in Nat
    /\ None \notin Files

VARIABLES
    \* the server
    doc,      \* length in the files collection, or Absent
    chunk,    \* bytes in each chunk of the chunks collection, or 0
    exists,   \* those of the two collections that exist
    \* the writers
    wpc,      \* where the write is
    mode,     \* "stream": fs$write(), "upload": fs$upload(), "fin": finalizer
    pos,      \* file->pos and file->length
    page,     \* bytes in file->page, 0 if there is none
    dirty,    \* file->is_dirty
    iov,      \* bytes of the caller's buffer not on a page yet
    back,     \* what follows the flush in progress
    \* other sessions
    rm,       \* files whose document fs$remove() has just deleted
    dropping, \* fs$drop() has dropped the files collection
    dres,     \* what the last fs$drop() returned
    reader,   \* the fs$read() or fs$download() in progress
    meddled   \* history: files whose writing overlaps a remove or a drop

serverVars == <<doc, chunk, exists>>
writerVars == <<wpc, mode, pos, page, dirty, iov, back>>
otherVars  == <<rm, dropping, dres, reader>>
vars == <<doc, chunk, exists, wpc, mode, pos, page, dirty, iov, back, rm,
          dropping, dres, reader, meddled>>

Collections == {"files", "chunks"}
Absent   == -1
Chunks   == 0 .. MaxLen \div ChunkSize
NoChunks == [c \in Chunks |-> 0]
NoReader == [pc |-> "idle", file |-> None, len |-> 0, got |-> <<>>, bytes |-> 0]

\* What may become of a command: done; done, but the reply is lost; not done.
Outcomes == {"ok", "lost", "failed"}
Applied(o) == o # "failed"

Writing(f) == wpc[f] \notin {"unused", "done", "failed", "gone"}

Put(g, f, v) == [g EXCEPT ![f] = v]
-----------------------------------------------------------------------------
(***************************************************************************)
(* Writing.                                                                *)
(***************************************************************************)

\* An R error leaves a stream to its finalizer; an upload destroys its file
\* without saving it; the finalizer ignores errors.
OnError(f) == CASE mode[f] = "stream" -> "aborted"
                [] mode[f] = "upload" -> "failed"
                [] OTHER -> "gone"

OnSuccess(f) == IF mode[f] = "fin" THEN "gone" ELSE "done"

\* mongoc_gridfs_create_file(): a new file is dirty from the start.
Open(f, m) ==
    /\ wpc[f] = "unused"
    /\ wpc' = Put(wpc, f, "source")
    /\ mode' = Put(mode, f, m)
    /\ dirty' = Put(dirty, f, TRUE)
    /\ meddled' = IF dropping THEN meddled \cup {f} ELSE meddled
    /\ UNCHANGED <<serverVars, pos, page, iov, back, otherVars>>

\* readBin() or mongoc_stream_read() returns k bytes.
Source(f, k) ==
    /\ wpc[f] = "source" /\ pos[f] + k <= MaxLen
    /\ iov' = Put(iov, f, k)
    /\ wpc' = Put(wpc, f, "fill")
    /\ UNCHANGED <<serverVars, mode, pos, page, dirty, back, otherVars, meddled>>

\* The source fails, or the user interrupts.
SourceFails(f) ==
    /\ wpc[f] = "source"
    /\ wpc' = Put(wpc, f, OnError(f))
    /\ UNCHANGED <<serverVars, mode, pos, page, dirty, iov, back, otherVars,
                   meddled>>

ChunkNo(f) == (pos[f] - page[f]) \div ChunkSize

\* The source is at its end.  fs$write() saves; fs$upload() first seeks to the
\* start, which flushes a page that is not the first.
SourceEnds(f) ==
    /\ wpc[f] = "source"
    /\ IF mode[f] = "stream" THEN wpc' = Put(wpc, f, "save") /\ UNCHANGED back
       ELSE IF page[f] > 0 /\ ChunkNo(f) # 0
       THEN wpc' = Put(wpc, f, "flush") /\ back' = Put(back, f, "rewound")
       ELSE wpc' = Put(wpc, f, "rewound") /\ UNCHANGED back
    /\ UNCHANGED <<serverVars, mode, pos, page, dirty, iov, otherVars, meddled>>

\* fs$upload() may set a content type and metadata, then saves.
Rewound(f) ==
    /\ wpc[f] = "rewound"
    /\ \/ dirty' = Put(dirty, f, TRUE)
       \/ UNCHANGED dirty
    /\ wpc' = Put(wpc, f, "save")
    /\ UNCHANGED <<serverVars, mode, pos, page, iov, back, otherVars, meddled>>

\* _mongoc_gridfs_file_page_write takes what is left of the chunk.
WholeBuffer(f) == iov[f]
Fits(f) == IF iov[f] < ChunkSize - page[f] THEN iov[f] ELSE ChunkSize - page[f]

\* file->is_dirty at the end of mongoc_gridfs_file_writev.
DirtyUnlessFull(f) == page[f] + Fits(f) = ChunkSize
DirtyAfterWrite(f) == TRUE

\* One pass of mongoc_gridfs_file_writev: bytes go on the page until the buffer
\* is used up or the page is full, which is then flushed.
Fill(f) ==
    /\ wpc[f] = "fill"
    /\ page' = Put(page, f, page[f] + Fits(f))
    /\ pos' = Put(pos, f, pos[f] + Fits(f))
    /\ iov' = Put(iov, f, iov[f] - Fits(f))
    /\ IF iov'[f] = 0
       THEN /\ wpc' = Put(wpc, f, "source")
            /\ dirty' = Put(dirty, f, DirtyAfterWrite(f))
            /\ UNCHANGED back
       ELSE /\ wpc' = Put(wpc, f, "flush")
            /\ back' = Put(back, f, "fill")
            /\ UNCHANGED dirty
    /\ UNCHANGED <<serverVars, mode, otherVars, meddled>>

\* _mongoc_gridfs_file_flush_page: upsert the chunk, then save the file.
Flush(f, o) ==
    /\ wpc[f] = "flush"
    /\ chunk' = IF Applied(o) THEN [chunk EXCEPT ![f][ChunkNo(f)] = page[f]]
                ELSE chunk
    /\ page' = IF o = "ok" THEN Put(page, f, 0) ELSE page
    /\ wpc' = Put(wpc, f, IF o # "ok" THEN OnError(f)
                          ELSE IF dirty[f] THEN "inner" ELSE back[f])
    /\ exists' = IF Applied(o) THEN exists \cup {"chunks"} ELSE exists
    /\ UNCHANGED <<doc, mode, pos, dirty, iov, back, otherVars, meddled>>

\* The length that mongoc_gridfs_file_save stores.
WithBuffer(f) == pos[f] + iov[f]
SavedLength(f) == pos[f]

\* The upsert of mongoc_gridfs_file_save, which clears is_dirty even if it fails.
Upsert(f, o, next) ==
    /\ doc' = IF Applied(o) THEN Put(doc, f, SavedLength(f)) ELSE doc
    /\ exists' = IF Applied(o) THEN exists \cup {"files"} ELSE exists
    /\ dirty' = Put(dirty, f, FALSE)
    /\ wpc' = Put(wpc, f, IF o = "ok" THEN next ELSE OnError(f))
    /\ UNCHANGED <<chunk, mode, pos, page, iov, back, otherVars, meddled>>

\* The save inside a flush.
InnerSave(f, o) == wpc[f] = "inner" /\ Upsert(f, o, back[f])

\* mongoc_gridfs_file_save up to its own upsert.
Save(f) ==
    /\ wpc[f] = "save"
    /\ wpc' = Put(wpc, f, IF ~dirty[f] THEN OnSuccess(f)
                          ELSE IF page[f] > 0 THEN "flush" ELSE "upsert")
    /\ back' = Put(back, f, "upsert")
    /\ UNCHANGED <<serverVars, mode, pos, page, dirty, iov, otherVars, meddled>>

OuterSave(f, o) == wpc[f] = "upsert" /\ Upsert(f, o, OnSuccess(f))

\* fin_filestream of an abandoned stream: mongoc_stream_destroy saves the file.
Finalize(f) ==
    /\ wpc[f] = "aborted"
    /\ mode' = Put(mode, f, "fin")
    /\ wpc' = Put(wpc, f, "save")
    /\ UNCHANGED <<serverVars, pos, page, dirty, iov, back, otherVars, meddled>>

\* The writer's process dies.
Crash(f) ==
    /\ Writing(f)
    /\ wpc' = Put(wpc, f, "gone")
    /\ UNCHANGED <<serverVars, mode, pos, page, dirty, iov, back, otherVars,
                   meddled>>
-----------------------------------------------------------------------------
(***************************************************************************)
(* Removing, by any session.                                               *)
(***************************************************************************)

\* mongoc_gridfs_file_remove: the document first, then the chunks.
RemoveDoc(f, o) ==
    /\ doc[f] # Absent
    /\ doc' = IF Applied(o) THEN Put(doc, f, Absent) ELSE doc
    /\ rm' = IF o = "ok" THEN rm \cup {f} ELSE rm
    /\ meddled' = IF Applied(o) /\ Writing(f) THEN meddled \cup {f} ELSE meddled
    /\ UNCHANGED <<chunk, exists, writerVars, dropping, dres, reader>>

\* The server deletes the chunks one by one.
RemoveOne(f, c) ==
    /\ f \in rm /\ chunk[f][c] > 0
    /\ chunk' = [chunk EXCEPT ![f][c] = 0]
    /\ meddled' = IF Writing(f) THEN meddled \cup {f} ELSE meddled
    /\ UNCHANGED <<doc, exists, writerVars, otherVars>>

RemoveChunks(f, o) ==
    /\ f \in rm
    /\ chunk' = IF Applied(o) THEN Put(chunk, f, NoChunks) ELSE chunk
    /\ rm' = rm \ {f}
    /\ meddled' = IF Applied(o) /\ Writing(f) THEN meddled \cup {f} ELSE meddled
    /\ UNCHANGED <<doc, exists, writerVars, dropping, dres, reader>>

Interrupted == {f \in Files : Writing(f)}

\* The server has a collection c to drop.
Drops(c, o) == Applied(o) /\ c \in exists

\* What R_mongo_gridfs_drop returns when dropping collection c ends it: error 26,
\* the collection does not exist, is no error, but the drop is FALSE.
DropResult(c, o) == IF o # "ok" THEN "error"
                    ELSE IF c \in exists THEN "TRUE" ELSE "FALSE"

\* mongoc_gridfs_drop drops the files collection, and goes on if it was there.
DropFiles(o) ==
    /\ ~dropping
    /\ doc' = IF Drops("files", o) THEN [f \in Files |-> Absent] ELSE doc
    /\ exists' = IF Drops("files", o) THEN exists \ {"files"} ELSE exists
    /\ dropping' = (DropResult("files", o) = "TRUE")
    /\ dres' = IF dropping' THEN dres ELSE DropResult("files", o)
    /\ meddled' = IF Drops("files", o) THEN meddled \cup Interrupted ELSE meddled
    /\ UNCHANGED <<chunk, writerVars, rm, reader>>

DropChunks(o) ==
    /\ dropping
    /\ chunk' = IF Drops("chunks", o) THEN [f \in Files |-> NoChunks] ELSE chunk
    /\ exists' = IF Drops("chunks", o) THEN exists \ {"chunks"} ELSE exists
    /\ dropping' = FALSE
    /\ dres' = DropResult("chunks", o)
    /\ meddled' = IF Drops("chunks", o) THEN meddled \cup Interrupted ELSE meddled
    /\ UNCHANGED <<doc, writerVars, rm, reader>>

\* gridfs() of another session: _mongoc_gridfs_ensure_index creates the chunks
\* collection with its index, then the files collection; either may fail.
EnsureIndex(o) ==
    /\ exists' = exists \cup (IF Applied(o) THEN Collections ELSE {"chunks"})
    /\ UNCHANGED <<doc, chunk, writerVars, otherVars, meddled>>
-----------------------------------------------------------------------------
(***************************************************************************)
(* Reading, by any session.                                                *)
(***************************************************************************)

\* find_single_file
ReadOpen(f) ==
    /\ reader.pc = "idle" /\ doc[f] # Absent
    /\ reader' = [NoReader EXCEPT !.pc = "reading", !.file = f, !.len = doc[f]]
    /\ UNCHANGED <<serverVars, writerVars, rm, dropping, dres, meddled>>

\* The chunk the file's cursor returns when it has returned the first n.
NextChunk(f, n) ==
    CHOOSE c \in Chunks : /\ c >= n /\ chunk[f][c] > 0
                          /\ \A d \in n .. c - 1 : chunk[f][d] = 0

\* The checks of _mongoc_gridfs_file_refresh_page on chunk c, when the page must
\* hold chunk n: the number, and the size of a chunk that is not the last.
TakesAny(c, n)  == TRUE
Expected(c, n) ==
    /\ c = n
    /\ (n + 1) * ChunkSize < reader.len => chunk[reader.file][c] = ChunkSize

\* The next chunk of mongoc_gridfs_file_readv.
ReadChunk ==
    LET f == reader.file
        n == reader.bytes \div ChunkSize
        left == \E c \in Chunks : c >= n /\ chunk[f][c] > 0
    IN  /\ reader.pc = "reading" /\ reader.bytes < reader.len
        /\ IF left /\ Expected(NextChunk(f, n), n)
           THEN reader' = [reader EXCEPT
                    !.got = Append(@, NextChunk(f, n)),
                    !.bytes = @ + chunk[f][NextChunk(f, n)]]
           ELSE reader' = [reader EXCEPT !.pc = "error"]
        /\ UNCHANGED <<serverVars, writerVars, rm, dropping, dres, meddled>>

\* `remaining' is 0, or the driver is at the end of the file.
ReadEnds ==
    /\ reader.pc = "reading" /\ reader.bytes >= reader.len
    /\ reader' = [reader EXCEPT !.pc = "done"]
    /\ UNCHANGED <<serverVars, writerVars, rm, dropping, dres, meddled>>

\* An error of the connection; or the caller is ready for another read.
ReadStops ==
    /\ reader.pc # "idle"
    /\ reader' = NoReader
    /\ UNCHANGED <<serverVars, writerVars, rm, dropping, dres, meddled>>
-----------------------------------------------------------------------------
\* gridfs() has created both collections with their indexes.
Init ==
    /\ doc = [f \in Files |-> Absent]
    /\ chunk = [f \in Files |-> NoChunks]
    /\ exists = Collections
    /\ wpc = [f \in Files |-> "unused"]
    /\ mode = [f \in Files |-> "stream"]
    /\ pos = [f \in Files |-> 0]
    /\ page = [f \in Files |-> 0]
    /\ dirty = [f \in Files |-> FALSE]
    /\ iov = [f \in Files |-> 0]
    /\ back = [f \in Files |-> "fill"]
    /\ rm = {}
    /\ dropping = FALSE
    /\ dres = "none"
    /\ reader = NoReader
    /\ meddled = {}

Write(f) ==
    \/ \E m \in {"stream", "upload"} : Open(f, m)
    \/ \E k \in 1 .. MaxBuf : Source(f, k)
    \/ SourceFails(f)
    \/ SourceEnds(f)
    \/ Rewound(f)
    \/ Fill(f)
    \/ Save(f)
    \/ \E o \in Outcomes : Flush(f, o) \/ InnerSave(f, o) \/ OuterSave(f, o)
    \/ Finalize(f)
    \/ Crash(f)

Next ==
    \/ \E f \in Files : Write(f)
    \/ \E f \in Files, o \in Outcomes : RemoveDoc(f, o) \/ RemoveChunks(f, o)
    \/ \E f \in Files, c \in Chunks : RemoveOne(f, c)
    \/ \E o \in Outcomes : DropFiles(o) \/ DropChunks(o) \/ EnsureIndex(o)
    \/ \E f \in Files : ReadOpen(f)
    \/ ReadChunk
    \/ ReadEnds
    \/ ReadStops

Spec == Init /\ [][Next]_vars
-----------------------------------------------------------------------------
(***************************************************************************)
(* Properties.                                                             *)
(***************************************************************************)

\* The documents on the server, the file structs and the calls have the shapes
\* the driver gives them.
TypeOK ==
    /\ doc \in [Files -> 0 .. MaxLen \cup {Absent}]
    /\ chunk \in [Files -> [Chunks -> 0 .. ChunkSize]]
    /\ exists \in SUBSET Collections
    /\ wpc \in [Files -> {"unused", "source", "fill", "flush", "inner", "save",
                          "upsert", "rewound", "done", "aborted", "failed",
                          "gone"}]
    /\ mode \in [Files -> {"stream", "upload", "fin"}]
    /\ pos \in [Files -> 0 .. MaxLen]
    /\ page \in [Files -> 0 .. ChunkSize]
    /\ dirty \in [Files -> BOOLEAN]
    /\ iov \in [Files -> 0 .. MaxBuf]
    /\ back \in [Files -> {"fill", "upsert", "rewound"}]
    /\ rm \in SUBSET Files
    /\ dropping \in BOOLEAN
    /\ dres \in {"none", "TRUE", "FALSE", "error"}
    /\ reader.pc \in {"idle", "reading", "done", "error"}
    /\ reader.file \in Files \cup {None}
    /\ meddled \in SUBSET Files

\* The bytes of chunk c in a file of n bytes.
Share(n, c) == IF n <= c * ChunkSize THEN 0
               ELSE IF n >= (c + 1) * ChunkSize THEN ChunkSize
               ELSE n - c * ChunkSize

Backed(f, n) == \A c \in Chunks : Share(n, c) > 0 => chunk[f][c] = Share(n, c)

\* Whatever command fails or loses its reply, and wherever the writer dies, a
\* file that can be found has all the chunks its length calls for: the driver
\* writes chunks before the document and removes the document before the
\* chunks.  Only a remove or a drop while the file is written breaks this.
FilesBacked ==
    \A f \in Files : doc[f] # Absent /\ f \notin meddled => Backed(f, doc[f])

\* fs$write() and fs$upload() that return without an error have stored the whole
\* source.
WritesDurable ==
    [][\A f \in Files :
          wpc[f] # "done" /\ wpc'[f] = "done" /\ f \notin meddled
              => doc'[f] = pos'[f] /\ Backed(f, pos[f])']_vars

\* fs$read() and fs$download() that return without an error have delivered the
\* chunks of the file one after the other, and as many bytes as it had when it
\* was found, even if it is written or removed meanwhile.
ReadsExact ==
    reader.pc = "done" =>
        /\ reader.bytes = reader.len
        /\ \A i \in 1 .. Len(reader.got) : reader.got[i] = i - 1

\* "drop(): Removes the entire GridFS collection, including all files"
\* (R/gridfs.R:71): no chunk is left when it returns without an error.
DropRemovesAll ==
    [][(\E o \in Outcomes : DropFiles(o) \/ DropChunks(o)) /\ ~dropping'
          /\ dres' # "error" => \A f \in Files : chunk'[f] = NoChunks]_vars
=============================================================================
