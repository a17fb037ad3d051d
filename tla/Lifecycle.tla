----------------------------- MODULE Lifecycle -----------------------------
(***************************************************************************)
(* The life of mongolite's native objects.                                 *)
(*                                                                         *)
(* Every libmongoc object mongolite owns (client, collection, gridfs,      *)
(* cursor, filestream) is the address of one R external pointer, whose     *)
(* `Protected' field is the only thing that keeps the R object of its      *)
(* parent alive, and whose C finalizer destroys the native object.  The    *)
(* natives hold raw C pointers to each other that R knows nothing about.   *)
(* Clients are shared through a pool of weak references keyed by a hash of *)
(* the connection parameters.                                              *)
(*                                                                         *)
(* External pointers are numbered in the order they are created, which is  *)
(* the order their finalizers are registered in; 0 is R_NilValue.          *)
(***************************************************************************)
EXTENDS Integers

CONSTANTS Mongos,   \* variables of the user that hold a mongo() object
          Grids,    \* variables of the user that hold a gridfs() object
          Iters,    \* variables of the user that hold a mongo_iterator()
          Urls,     \* connection strings
          Opts,     \* kinds of options the user passes: "plain", "tls"
          MaxObj,   \* bound: external pointers ever created
          MaxPem,   \* bound: temporary PEM files ever written
          None      \* no value

ASSUME BoundsAssumption == MaxObj \in Nat /\ MaxPem \in Nat \ {0}

ASSUME HandlesAssumption == Mongos \cap Grids = {}

ASSUME OptsAssumption == Opts \subseteq {"plain", "tls"}

VARIABLES
    n,        \* external pointers created so far
    kind,     \* what an external pointer wraps
    live,     \* the ones whose address is not NULL: the native exists
    prot,     \* its Protected field
    dep,      \* the native object its native object points to
    conn,     \* of a client: the parameters it was created with
    use,      \* of a filestream: what its destruction touches
    pool,     \* the weak references of new_client(): hash -> key
    ready,    \* external pointers R has scheduled for finalization
    ptr,      \* `col' resp. `fs' in a mongo() resp. gridfs() object
    orig,     \* `orig' in those objects
    held,     \* the client still bound in their constructor's environment
    iter,     \* `cur' in an iterator
    frame,    \* the mongolite call on R's stack, if it is interruptible
    pemfiles, \* temporary PEM files that exist
    npem,     \* temporary PEM files ever written
    fault,    \* history: external pointers whose use touched freed memory
    orphans   \* history: children alive when their parent was disconnected

heapVars == <<n, kind, live, prot, dep, conn, use>>
userVars == <<ptr, orig, held, iter>>
vars == <<n, kind, live, prot, dep, conn, use, pool, ready, ptr, orig, held,
          iter, frame, pemfiles, npem, fault, orphans>>

Ids     == 1 .. MaxObj
Refs    == 0 .. MaxObj
Handles == Mongos \cup Grids
Kinds   == {"none", "client", "collection", "gridfs", "cursor", "filestream"}

\* The argument list of new_client(): the url and, unless `orig' lost them, the
\* options: without a certificate ("plain") or with one in a PEM file ("tls").
Params   == [url : Urls, opt : {"none", "plain", "tls"}, pem : 0 .. MaxPem]
Origs    == [params : Params, pemdata : BOOLEAN]

\* `reg': new_client() has put the client of the frame in the pool.
Frames   == [pc : {"idle", "opening", "resetting", "stream"},
             h : Handles \cup {None}, params : Params \cup {None},
             obj : Refs, reg : BOOLEAN]
NoFrame  == [pc |-> "idle", h |-> None, params |-> None, obj |-> 0,
             reg |-> FALSE]
-----------------------------------------------------------------------------
(***************************************************************************)
(* R's garbage collector and finalizers.                                   *)
(***************************************************************************)

\* make_weakref(): the pool's references keep nothing alive.
StrongPool == {pool[p] : p \in Params}
PoolRoots == {}

\* What R finds from the user's variables and from the call on the stack.
UserRoots == {ptr[h] : h \in Handles} \cup {held[h] : h \in Handles}
               \cup {iter[i] : i \in Iters} \cup {frame.obj}

Roots == UserRoots \cup PoolRoots

Via(pr, S) == S \cup {pr[o] : o \in S \cap Ids}

\* What R reaches when the Protected fields are pr.  A filestream protects its
\* gridfs, which protects its client: two hops.
Reach(pr) == Via(pr, Via(pr, Roots)) \cap Ids

\* R pushes a newly registered finalizer on the front of its list and runs the
\* scheduled ones from the front.
OldestFirst(a, b) == a < b
FinalizedBefore(a, b) == a > b

\* The natives that the finalizer of o dereferences: mongoc_cursor_destroy reads
\* cursor->client; destroying a gridfs stream saves a dirty file through
\* file->gridfs, and destroys the cursor that reading left in the file.
Touches(o) ==
    CASE kind[o] = "cursor" -> {dep[o]}
      [] kind[o] = "filestream" /\ use[o] = "dirty" -> {dep[o], dep[dep[o]]}
      [] kind[o] = "filestream" /\ use[o] = "reading" -> {dep[dep[o]]}
      [] OTHER -> {}

\* Of the finalizers of S, run when lv natives are alive: the ones that touch a
\* native which is gone by then.
Faults(lv, S) ==
    {o \in S \cap lv : \E d \in Touches(o) :
                   d \notin lv \/ (d \in S /\ FinalizedBefore(d, o))}

\* fin_client, fin_collection, fin_gridfs, fin_cursor and fin_filestream.
LiveAfter(S) == live \ S
ProtAfter(S) == [o \in Ids |-> IF o \in S \cap live THEN 0 ELSE prot[o]]
\* A weak reference has no finalizer of its own: R clears it in the same pass.
PoolAfter(S) == [p \in Params |-> IF pool[p] \in S THEN 0 ELSE pool[p]]

\* What a collection finds dead when the natives lv are alive.
Garbage(lv, pr) == lv \ Reach(pr)

\* An allocation triggers a collection.
GC ==
    /\ ready' = ready \cup Garbage(live, prot)
    /\ UNCHANGED <<heapVars, pool, userVars, frame, pemfiles, npem, fault,
                   orphans>>

\* R_CheckUserInterrupt reaches R_RunPendingFinalizers.
RunFinalizers ==
    /\ ready # {}
    /\ live' = LiveAfter(ready)
    /\ prot' = ProtAfter(ready)
    /\ pool' = PoolAfter(ready)
    /\ fault' = fault \cup Faults(live, ready)
    /\ ready' = {}
    /\ UNCHANGED <<n, kind, dep, conn, use, userVars, frame, pemfiles, npem,
                   orphans>>
-----------------------------------------------------------------------------
(***************************************************************************)
(* The connection pool.                                                    *)
(***************************************************************************)

\* What R_get_weakref has finalized before it reads the key for p.  It returns at
\* once if there is no reference; that it also runs the finalizers for one that
\* is already cleared is RunFinalizers, before this step.
NothingSettled(p) == {}
Settled(p) == IF pool[p] = 0 THEN {} ELSE ready

Put(f, o, v) == [f EXCEPT ![o] = v]

\* client2r, col2r, gridfs2r, cursor2r, R_make_stream_ptr: the new external
\* pointer is object n + 1.
Make(k, lv, pr, parent, native, p, u) ==
    /\ n < MaxObj
    /\ n' = n + 1
    /\ kind' = Put(kind, n + 1, k)
    /\ live' = lv \cup {n + 1}
    /\ prot' = Put(pr, n + 1, parent)
    /\ dep' = Put(dep, n + 1, native)
    /\ conn' = Put(conn, n + 1, p)
    /\ use' = Put(use, n + 1, u)

\* The Protected field the wrappers are created with: the client for col2r and
\* gridfs2r, the collection for cursor2r, the gridfs for R_make_stream_ptr.
Unprotected(o) == 0
ColProt(c)     == c
CursorProt(c)  == c
StreamProt(fs) == fs

\* new_client(params) up to the end of mongo_client_new, where `client' is bound
\* to frame'.obj.  The pool does not know a new client yet.
NewClient(p, pc, h) ==
    LET gone == Settled(p)
        key  == PoolAfter(gone)[p]
        lv   == LiveAfter(gone)
        pr   == ProtAfter(gone)
        hit  == key \in lv
    IN  /\ ready' = ready \ gone
        /\ fault' = fault \cup Faults(live, gone)
        /\ pool' = PoolAfter(gone)
        /\ frame' = [pc |-> pc, h |-> h, params |-> p,
                     obj |-> IF hit THEN key ELSE n + 1, reg |-> hit]
        /\ \/ /\ hit
              /\ live' = lv /\ prot' = pr
              /\ UNCHANGED <<n, kind, dep, conn, use>>
           \/ /\ ~hit
              /\ Make("client", lv, pr, 0, 0, p, "idle")

\* pool[[hash]] <- make_weakref(client)
Unregistered(pl, p, c) == pl
Registered(pl, p, c) == [pl EXCEPT ![p] = c]

\* The last line of new_client() for a client that is new.
Register ==
    /\ frame.pc \in {"opening", "resetting"} /\ ~frame.reg
    /\ pool' = Registered(pool, frame.params, frame.obj)
    /\ frame' = [frame EXCEPT !.reg = TRUE]
    /\ UNCHANGED <<heapVars, ready, userVars, pemfiles, npem, fault, orphans>>

Idle == frame.pc = "idle"
Free(h) == ptr[h] = 0
NullPtr(h) == ptr[h] # 0 /\ ptr[h] \notin live

\* mongo() and gridfs() up to the point where `client' is bound.  `options' is
\* the value of an ssl_options() call, with the PEM file that call wrote.
Construct(h, p) ==
    /\ Idle /\ Free(h)
    /\ p.opt \in Opts
    /\ p.pem = (IF p.opt = "tls" THEN 1 ELSE 0)
    /\ NewClient(p, "opening", h)
    /\ UNCHANGED <<userVars, pemfiles, npem, orphans>>

\* collection_reset() and gridfs_reset() rewrite a PEM file that is gone under a
\* new temporary name, in their own copy of `orig'.
ResetParams(o) ==
    IF o.params.opt = "tls" /\ o.params.pem \notin pemfiles
    THEN [o.params EXCEPT !.pem = npem + 1]
    ELSE o.params

\* check_col() and check_fs() on a dead pointer, up to `client'.  Without the
\* PEM text writeLines(NULL) is an error, and so is every later call.
Reset(h) ==
    LET p == ResetParams(orig[h]) IN
    /\ Idle /\ NullPtr(h)
    /\ p # orig[h].params => orig[h].pemdata /\ npem < MaxPem
    /\ NewClient(p, "resetting", h)
    /\ npem' = IF p = orig[h].params THEN npem ELSE npem + 1
    /\ pemfiles' = IF p = orig[h].params THEN pemfiles
                                         ELSE pemfiles \cup {npem + 1}
    /\ UNCHANGED <<userVars, orphans>>

Wrapper(h) == IF h \in Mongos THEN "collection" ELSE "gridfs"

\* rm(client) at the end of both constructors: `orig' is an unevaluated promise
\* of the new object, which keeps the constructor's environment.
StillHeld(c) == c
HeldAfterConstruct(c) == 0

\* mongo_collection_new() and a successful ping, resp. mongo_gridfs_new().
Connected ==
    LET h == frame.h  c == frame.obj IN
    /\ frame.pc \in {"opening", "resetting"} /\ frame.reg
    /\ Make(Wrapper(h), live, prot, ColProt(c), c, None, "idle")
    /\ ptr' = Put(ptr, h, n + 1)
    /\ IF frame.pc = "opening"
       THEN /\ orig' = Put(orig, h, [params |-> frame.params,
                        pemdata |-> frame.params.pem \in pemfiles])
            /\ held' = Put(held, h, HeldAfterConstruct(c))
       ELSE UNCHANGED <<orig, held>>
    /\ frame' = NoFrame
    /\ UNCHANGED <<pool, ready, iter, pemfiles, npem, fault, orphans>>

\* The ping fails, with a collection already made, or mongoc_client_get_gridfs
\* does: the error unwinds the call and drops `client'.
ConnectFailed ==
    LET h == frame.h  c == frame.obj IN
    /\ frame.pc \in {"opening", "resetting"} /\ frame.reg
    /\ IF h \in Mongos
       THEN Make("collection", live, prot, ColProt(c), c, None, "idle")
       ELSE UNCHANGED heapVars
    /\ frame' = NoFrame
    /\ UNCHANGED <<pool, ready, userVars, pemfiles, npem, fault, orphans>>
-----------------------------------------------------------------------------
(***************************************************************************)
(* The methods of a connected object that touch lifetimes.  Every method   *)
(* but run() and disconnect() starts with check_col() or check_fs(): on a  *)
(* dead pointer it is Reset that happens.                                  *)
(***************************************************************************)
Connects(h) == Idle /\ ptr[h] \in live

\* iterate(), find() with a handler, aggregate(): the cursor lives as long as
\* the iterator or the frame that reads it.
Iterate(h, i) ==
    /\ Connects(h) /\ h \in Mongos /\ iter[i] = 0
    /\ Make("cursor", live, prot, CursorProt(ptr[h]), dep[ptr[h]], None,
            "idle")
    /\ iter' = Put(iter, i, n + 1)
    /\ UNCHANGED <<pool, ready, ptr, orig, held, frame, pemfiles, npem,
                   fault, orphans>>

\* R_mongo_cursor_next_page: r2cursor() stops on a NULL address, otherwise the
\* driver follows cursor->client.
IterNext(i) ==
    /\ Idle /\ iter[i] \in live
    /\ fault' = fault \cup {o \in {iter[i]} : ~(Touches(o) \subseteq live)}
    /\ UNCHANGED <<heapVars, pool, ready, userVars, frame, pemfiles, npem,
                   orphans>>

DropIter(i) ==
    /\ Idle /\ iter[i] # 0
    /\ iter' = Put(iter, i, 0)
    /\ UNCHANGED <<heapVars, pool, ready, ptr, orig, held, frame,
                   pemfiles, npem, fault, orphans>>

DropHandle(h) ==
    /\ Idle /\ ptr[h] # 0
    /\ ptr' = Put(ptr, h, 0)
    /\ held' = Put(held, h, 0)
    /\ orig' = Put(orig, h, None)
    /\ UNCHANGED <<heapVars, pool, ready, iter, frame, pemfiles, npem, fault,
                   orphans>>

\* What rename() keeps of the old `orig' besides the new name.
RenamedWithoutUrl(o) ==
    [params |-> [url |-> None, opt |-> "none", pem |-> 0], pemdata |-> FALSE]
RenamedOrig(o) ==
    [params |-> [url |-> o.params.url, opt |-> "none", pem |-> 0],
     pemdata |-> FALSE]

\* rename() after the server has renamed the collection.
Rename(h) ==
    /\ Connects(h) /\ h \in Mongos
    /\ orig' = Put(orig, h, RenamedOrig(orig[h]))
    /\ UNCHANGED <<heapVars, pool, ready, ptr, held, iter, frame,
                   pemfiles, npem, fault, orphans>>

Children(p) == {o \in live : prot[o] = p}

\* disconnect(gc = FALSE): fin_collection or fin_gridfs on the spot.  Nothing
\* stops the user from disconnecting with iterators alive.
Disconnect(h) ==
    LET p == ptr[h] IN
    /\ Connects(h)
    /\ live' = LiveAfter({p})
    /\ prot' = ProtAfter({p})
    /\ orphans' = orphans \cup Children(p)
    /\ UNCHANGED <<n, kind, dep, conn, use, pool, ready, userVars, frame,
                   pemfiles, npem, fault>>

\* disconnect(gc = TRUE): base::gc() also collects and runs the finalizers.
DisconnectGC(h) ==
    LET p    == ptr[h]
        dead == ready \cup Garbage(LiveAfter({p}), ProtAfter({p}))
    IN
    /\ Connects(h)
    /\ live' = LiveAfter(dead \cup {p})
    /\ prot' = ProtAfter(dead \cup {p})
    /\ pool' = PoolAfter(dead)
    /\ fault' = fault \cup Faults(LiveAfter({p}), dead)
    /\ ready' = {}
    /\ orphans' = orphans \cup Children(p)
    /\ UNCHANGED <<n, kind, dep, conn, use, userVars, frame, pemfiles, npem>>
-----------------------------------------------------------------------------
(***************************************************************************)
(* gridfs()$write and $read: a filestream on the stack of one call.        *)
(***************************************************************************)

\* A new gridfs file is dirty from the start; one found for reading is not.
OpenStream(h, u) ==
    /\ Connects(h) /\ h \in Grids
    /\ Make("filestream", live, prot, StreamProt(ptr[h]), ptr[h], None, u)
    /\ frame' = [NoFrame EXCEPT !.pc = "stream", !.obj = n + 1]
    /\ UNCHANGED <<pool, ready, userVars, pemfiles, npem, fault, orphans>>

\* The first R_stream_read_chunk leaves a chunk cursor in the file; the
\* R_stream_write_chunk that gets an empty buffer saves the file.
StreamChunk ==
    LET o == frame.obj IN
    /\ frame.pc = "stream"
    /\ use[o] \in {"idle", "dirty"}
    /\ use' = Put(use, o, IF use[o] = "idle" THEN "reading" ELSE "saved")
    /\ UNCHANGED <<n, kind, live, prot, dep, conn, pool, ready, userVars, frame,
                   pemfiles, npem, fault, orphans>>

\* R_stream_close runs fin_filestream at once.
StreamClose ==
    /\ frame.pc = "stream" /\ use[frame.obj] # "dirty"
    /\ live' = LiveAfter({frame.obj})
    /\ prot' = ProtAfter({frame.obj})
    /\ fault' = fault \cup Faults(live, {frame.obj})
    /\ frame' = NoFrame
    /\ UNCHANGED <<n, kind, dep, conn, use, pool, ready, userVars, pemfiles,
                   npem, orphans>>

\* An R error, an error of the driver or an interrupt unwinds the call: the
\* filestream, or a client that may not be in the pool yet, is left to the
\* collector.
Unwind ==
    /\ ~Idle
    /\ frame' = NoFrame
    /\ UNCHANGED <<heapVars, pool, ready, userVars, pemfiles, npem, fault,
                   orphans>>
-----------------------------------------------------------------------------
(***************************************************************************)
(* The end of an R session.  The user's objects are in the saved workspace *)
(* and come back with NULL addresses; the pool and the session's temporary *)
(* directory do not.                                                       *)
(***************************************************************************)
NewSession ==
    /\ live' = {}
    /\ pool' = [p \in Params |-> 0]
    /\ ready' = {}
    /\ frame' = NoFrame
    /\ pemfiles' = {}
    /\ UNCHANGED <<n, kind, prot, dep, conn, use, userVars, npem, orphans>>

\* quit(): finalizers are registered with onexit = TRUE.
Quit == Idle /\ NewSession /\ fault' = fault \cup Faults(live, live)

Crash == NewSession /\ UNCHANGED fault
-----------------------------------------------------------------------------
Init ==
    /\ n = 0
    /\ kind = [o \in Ids |-> "none"]
    /\ live = {}
    /\ prot = [o \in Ids |-> 0]
    /\ dep = [o \in Ids |-> 0]
    /\ conn = [o \in Ids |-> None]
    /\ use = [o \in Ids |-> "idle"]
    /\ pool = [p \in Params |-> 0]
    /\ ready = {}
    /\ ptr = [h \in Handles |-> 0]
    /\ orig = [h \in Handles |-> None]
    /\ held = [h \in Handles |-> 0]
    /\ iter = [i \in Iters |-> 0]
    /\ frame = NoFrame
    /\ pemfiles = {1}
    /\ npem = 1
    /\ fault = {}
    /\ orphans = {}

Next ==
    \/ GC
    \/ RunFinalizers
    \/ \E h \in Handles :
          \/ \E p \in Params : Construct(h, p)
          \/ Reset(h)
          \/ DropHandle(h)
          \/ Rename(h)
          \/ Disconnect(h)
          \/ DisconnectGC(h)
          \/ \E i \in Iters : Iterate(h, i)
          \/ \E u \in {"idle", "dirty"} : OpenStream(h, u)
    \/ Register
    \/ Connected
    \/ ConnectFailed
    \/ \E i \in Iters : IterNext(i) \/ DropIter(i)
    \/ StreamChunk
    \/ StreamClose
    \/ Unwind
    \/ Quit
    \/ Crash

Spec == Init /\ [][Next]_vars

\* R collects and runs finalizers sooner or later, whatever the user does.
FairSpec == Spec /\ WF_vars(GC) /\ WF_vars(RunFinalizers)
-----------------------------------------------------------------------------
(***************************************************************************)
(* Properties.                                                             *)
(***************************************************************************)

\* The fields of every external pointer, the pool and the user's objects have
\* the shapes the C wrappers and the R constructors give them.
TypeOK ==
    /\ n \in 0 .. MaxObj
    /\ kind \in [Ids -> Kinds]
    /\ live \in SUBSET Ids
    /\ prot \in [Ids -> Refs]
    /\ dep \in [Ids -> Refs]
    /\ conn \in [Ids -> Params \cup {None}]
    /\ use \in [Ids -> {"idle", "dirty", "reading", "saved"}]
    /\ pool \in [Params -> Refs]
    /\ ready \in SUBSET Ids
    /\ ptr \in [Handles -> Refs]
    /\ orig \in [Handles -> Origs \cup {None}]
    /\ held \in [Handles -> Refs]
    /\ iter \in [Iters -> Refs]
    /\ frame \in Frames
    /\ pemfiles \in SUBSET (1 .. MaxPem)
    /\ npem \in 1 .. MaxPem
    /\ fault \in SUBSET Ids
    /\ orphans \in SUBSET Ids

Client(c) == kind[c] = "client"

\* What a variable of the user or a call on the stack leads to.
Used == Via(prot, Via(prot, UserRoots))

\* "Reuse active connections for multiple collections" (R/pool.R:3): the objects
\* of the user and the call on the stack never lead to two native clients with
\* the same parameters, however collections, failed constructors, resets and late
\* finalizers interleave, and wherever an error or an interrupt cuts new_client()
\* short.  A client that was cut off before it came into the pool exists beside
\* its successor until it is collected, but nothing can be made with it.
OneClientPerParams ==
    \A c, d \in live \cap Used :
        Client(c) /\ Client(d) /\ conn[c] = conn[d] => c = d

\* A collection or gridfs that exists has a native client that exists; while an
\* object of the user refers to it, the client is not scheduled for finalization
\* either: R_get_weakref never returns a client that is about to be destroyed.
ParentOutlivesCollection ==
    /\ \A o \in live : kind[o] \in {"collection", "gridfs"} => dep[o] \in live
    /\ Reach(prot) \cap ready = {}

\* Freed native memory is touched only through a cursor or stream that was alive
\* when its collection or gridfs was explicitly disconnected: finalizers, errors,
\* interrupted calls, resets and the end of the session are all safe.
FaultsNeedDisconnect == fault \subseteq orphans

\* "The connection gets disconnected once the client is not used by collections
\* in the pool" (R/mongo.R:94): after disconnect(gc = TRUE) every native client
\* that is left belongs to a collection or gridfs the user still refers to.
DisconnectReleases ==
    [][(\E h \in Handles : DisconnectGC(h)) =>
          \A c \in live' : Client(c) =>
              \E o \in live' \cap Reach(prot)' : prot'[o] = c]_vars

\* "Use weak references to make sure the connections go out of scope and get
\* collected when no longer used" (R/pool.R:3): time and again every client that
\* is left is one that a collection or gridfs of the user still needs, so none
\* that is not needed stays for ever.
UnusedClientsCollected ==
    []<>(\A c \in live : Client(c) => c \in Used)

\* "Collection and cursor pointers now protect parent from GC" (NEWS:110).
CursorsProtectParent ==
    \A o \in live : kind[o] = "cursor" => dep[o] \in live
=============================================================================
