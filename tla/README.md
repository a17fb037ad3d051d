# A TLA+ development of mongolite

mongolite is an R client for MongoDB: a few thousand lines of R and C over a
vendored copy of libmongoc and libbson. It keeps little state of its own. What
makes it hard is what it sits between: R's garbage collector, which runs at any
allocation and destroys native objects in an order of its own, and a server
whose replies come in batches that have nothing to do with the caller's pages
and whose commands can fail, or succeed with the reply lost.

The modules here model that logic from the source, with the parts of the
vendored driver on which what mongolite promises depends: what a client believes
about its servers, and what it does with a command whose outcome it does not
know. TLC checks them on small instances; TLAPS proves the safety properties for
every instance, with the exceptions section 5 names.

    tlc -config MCLifecycle_sessions.cfg MCLifecycle      # any .cfg with its module
    tlapm LifecycleProofs.tla                             # the proofs

Contents: [inventory](#1-inventory), [modules](#2-modules),
[runs](#3-runs-and-what-they-show), [what disagrees](#4-where-code-and-documents-disagree),
[proofs](#5-proofs), [assumptions](#6-assumptions-about-the-environment),
[limits](#7-what-is-not-modelled), [plan](#8-plan).

## 1. Inventory

| Component | Source | State it keeps | Operations | What makes it correct |
|---|---|---|---|---|
| Native wrappers | `src/utils.c`, `src/mongolite.h` | external pointers: address, tag, `Protected` | `client2r`, `col2r`, `gridfs2r`, `cursor2r`, `R_make_stream_ptr`, five finalizers, two disconnects, weak references | a native object is never used after it is destroyed; what nobody uses is destroyed |
| Client pool | `R/pool.R` | hash of the parameters -> weak reference | `new_client` | one client per set of parameters; the pool keeps nothing alive |
| `mongo()`, `gridfs()` objects | `R/mongo.R`, `R/gridfs.R` | `col`/`fs`, `orig` | constructors, `check_col`, `check_fs`, resets, `rename`, `disconnect`, commands | a dead pointer is rebuilt with the parameters the user gave |
| Connection set-up | `src/client.c`, `R/ssl.R` | PEM text and its temporary file | `R_mongo_client_new`, `ssl_options` | a saved session can reconnect |
| Cursors and page loops | `src/cursor.c`, `R/stream.R`, `R/iter.R` | driver's cursor, page, `count`, `out` | `next_page`, `next_json`, `next_bson`, `next_bsonlist`; `mongo_stream_in`, `mongo_export`, `mongo_dump`; iterator | each document once, in order; "end" only after the last one; the loops return |
| Inserting and importing | `src/collection.c`, `src/reader.c`, `R/stream.R` | page, bulk operation, counts | `insert`, `import`, `R_mongo_restore`, `insert_page` | success means stored; counts are not too high; what is stored is a prefix |
| GridFS | `src/gridfs.c`, `R/gridfs.R` | file struct, page, dirty flag; two collections | write and read streams, upload, download, remove, drop, find | a file that can be found is complete; a write that returned is durable; a read that returned is exact |
| Driver: cursors, files, bulk writes | `src/mongoc/mongoc-cursor*.c`, `mongoc-gridfs-file*.c`, `mongoc-bulk-operation.c`, `mongoc-write-command.c` | part of the modules above | | only the control flow the parts above rest on |
| Driver: discovery and selection | `src/mongoc/mongoc-topology*.c`, `mongoc-server-description.c`, `mongoc-cluster.c` | description of the servers, scanner nodes with streams, cooldowns and errors, `stale` | scan, handle a hello, select, check and fetch a stream, handle an error | one primary is believed, never an older one; a failed server is not used again unseen; a settled set is found |
| Driver: commands, sessions, retries | `mongoc-cluster.c`, `mongoc-retryable-cmd.c`, `mongoc-error.c` | transaction numbers, pool of server sessions, saved reply | send, receive, retry | a write takes effect at most once; an answer belongs to its command; the error that is returned is true |
| Driver: the rest; libbson; utf8proc | `src/mongoc`, `src/bson`, `src/common`, `src/utf8proc` | | | not modelled, see section 7 |
| BSON to R conversion | `src/bson.c`, `R/bson.R` | none | `bson2r` and its relatives | numbers keep their value, different values stay different |
| Standalone BSON reader | `R/reader.R`, `src/reader.c` | a file, two passes | `read_bson` | both passes see the same documents |
| Options, hex, logging, printing | `R/options.R`, `R/hex.R`, `src/hex.c`, `src/mongo_log.c`, `R/jeroen.R` | two global flags | | |

Interactions:

* An R object refers to a collection's external pointer; that protects the
  client's (`Protected`). A cursor's protects the collection's, a stream's the
  gridfs's. The native structs point to each other *as well*, through raw
  pointers R cannot see: a cursor holds `cursor->client` and not the
  collection, a gridfs file holds its gridfs and, once read, a cursor. The two
  graphs agree except after `disconnect()`, which clears one and not the other.
* Clients are shared by all objects with the same parameters, through weak
  references.
* R runs C finalizers in the middle of other calls, at `R_CheckUserInterrupt`;
  `R_get_weakref` runs the pending ones on purpose before it reads a key.
* Every method but `run()` and `disconnect()` starts with `check_col()` or
  `check_fs()`, which rebuilds an object whose address is NULL (after a
  disconnect, or in a restored session).
* Pages of the R code, batches of the server and messages of the driver have
  independent boundaries, in both directions.
* Two collections of a GridFS bucket are changed by separate commands, and any
  number of sessions work on them.
* mongolite makes its clients with `mongoc_client_new_from_uri`, so the driver
  runs single-threaded: nothing watches the servers between two operations. A
  scan blocks the operation that needs it; in it the hellos are under way
  together, and the description, the scanner's list of nodes and the nodes'
  streams change with every answer, under the feet of the operation.
* A command goes over the stream the selection ended with. An error goes back
  into the description, closes the stream, and may lead to another attempt.

The hazards that follow from this, each at its line and with the properties that
would catch it, are listed under `hazards` in `PROJECT.json`.

## 2. Modules

| Module | Models | Proofs |
|---|---|---|
| `Lifecycle` | wrappers, finalizers, pool, `mongo()`/`gridfs()` objects, iterators, file streams, sessions | `LifecycleProofs` |
| `Paging` | cursor of the driver, pages, loops, iterators | `PagingProofs` |
| `Result` | what reading a result promises; `Paging` implements it | |
| `Convert` | numbers, timestamps and dates of the documents in a page | `ConvertProofs` |
| `Insert` | `insert()` and `import()` down to the driver's batches |`InsertProofs` |
| `GridFS` | writing, reading and removing files by several sessions |`GridFSProofs` |
| `Topology` | the driver's view of its servers, scans, selection, streams |`TopologyProofs` |
| `Retry` | one command: attempts, transaction numbers, which error is returned |`RetryProofs` |
| `Command` | what running commands promises their callers; `Retry` implements it | |
| `MC...` | the module each group of `.cfg` files instantiates | |

### Lifecycle

*State.* External pointers are numbered as they are created (`n`); `kind`,
`live` (address not NULL), `prot` (`Protected`), `dep` (the native object its
native points to), `conn`, `use` describe each one. `pool` maps parameters to
keys of weak references. `ready` holds the pointers whose finalizers R has
queued. `ptr`, `orig`, `held`, `iter` are what the user's objects bind; `frame`
is the one interruptible mongolite call on the stack, because allocations and
finalizers can come between its steps. `fault` and `orphans` are
history: which pointers' use touched freed memory, and
which cursors and streams were alive when their parent was disconnected.

*Actions.* `GC` and `RunFinalizers` are R. `Construct` and `Reset` go up to the
point where `client` is bound in `new_client()` (`NewClient`): the look-up
settles pending finalizers if the pool has a reference (`Settled`), and a miss
creates a client. `Register` puts a new client into the pool, a step of its own:
between the two an R error or an interrupt (`Unwind`) can cut the call short and
leave a client the pool never learns of. `Connected` and `ConnectFailed` are the
rest of the call, with the ping. `Iterate`, `IterNext`, `Rename`, `Disconnect`
and `DisconnectGC` are methods, `OpenStream`, `StreamChunk`, `StreamClose` one
`fs$read()` or `fs$write()`. `DropHandle` and `DropIter` are the user's `rm()`.
`Quit` and `Crash` end a session: objects come back from a saved workspace with
NULL addresses and without PEM files.

A fault is computed, not assumed: `Touches(o)` says which natives the finalizer
of `o` dereferences (a cursor its client; a dirty stream its gridfs and client;
a stream that was read its client), `FinalizedBefore` is R's order within a
batch of finalizers, and `Faults` are the pointers for which one of these is
gone by then. The parts of an open TLS connection are data, and so are names of
collections and databases.

### Paging and Result

Documents are the numbers `1 .. Total`, so a page is a pair of positions.
`Refuse`, `Enter`, `Prime`, `GetMore`, `GiveUp`, `Pop` and `Drained` are the
transitions of `mongoc_cursor_next` with its four states; `Reply` is the server,
which picks any batch size, closes its cursor with the last document or later,
or fails. `Ask`, `Raise`, `ConsumerFails` and `Answer` are the readers in
`cursor.c` and the loops of `stream.R` above them. The kind of reader is chosen
at the start: "list" (`find`, `aggregate`), "handler", "lines" (`export`) or
"iterator", which may ask for pages of changing size and may go on after an
error. Sizes count halves, because `pagesize` is any R number: the C code
truncates it and the R loop compares with the fraction.

`Convert` extends `Paging` with what R sees of the documents: `ConvertInt32`,
`ConvertInt64`, `ConvertTimestamp` and `ConvertDate`, over words whose widths are
parameters. `Round` gives the nearest double of a quotient, the even one of two:
`Double` is C's conversion and `PerThousand` the division by `1000.0` after it.
`Quot` and `Rem` are C's division of integers, `Seconds` is a `time_t` with its
width, `Decimal` is the `%Y` of `strftime`, which has as many digits as the year
needs, and `Millis` is `%03d`, minus sign included. What `gmtime` makes of a time
is a parameter: `Year`, and `InYear` for the rest of the text, whose width is
fixed; `CalendarAssumption` says that they go on from second to second.

`Result` has two variables, the number of documents handed over and what the
reader was told. `Paging` maps `count` and `told` to them (`ImplementsResult`).

### Insert

A document is its position in the input and its kind, which says who refuses it:
the JSON validator, the BSON parser, the driver's validation, the size limit, or
the server. `TakePage` and `RestorePage` form pages, `Queue` builds the bulk
operation, `Send`, `SendFails`, `TooLarge` and `NoServer` are one turn of the
driver's batch loop, `Complete` turns the result into an error, a warning or a
count, `More` and `Finish` are the outer loops. `stored` is what the server has,
whatever the caller learns.

### GridFS

Bytes are counted, not stored. A file has a document with a length and chunks
with sizes; every command may be done, done with its reply lost, or not done
(`Outcomes`). A write goes through `Source`, `Fill`, `Flush`, `InnerSave`,
`Save`, `OuterSave` in the order of `mongoc-gridfs-file.c`, where a full page is
only flushed when the next byte comes, and the flush saves the file first if it
is dirty. An error leaves a stream to its finalizer, which saves once more
(`Finalize`), destroys an upload, and a crash leaves everything (`Crash`).
Other sessions remove (`RemoveDoc`, `RemoveOne`, `RemoveChunks`: the server
deletes chunks one by one), drop (`DropFiles`, `DropChunks`), create the
collections again (`EnsureIndex`, the start of `gridfs()`) and read (`ReadOpen`,
`ReadChunk`, `ReadEnds`, `ReadStops`) at the same time. `exists` is which of the
two collections there are: dropping one that is not there is error 26.

### Topology

`td` is the topology description: its type, the name of the set, the election
remembered and a description per address, with its `topologyVersion`. `nodes`,
`retired`, `conn`, `cool`, `lasterr` and `snubbed` are the scanner's nodes:
which exist, which are to be deleted when the scan ends, which have a stream,
are in cooldown, have an old error, have a handshake the server refused.
`trying` and `sent` are the commands of a scan: how many of a node's are
connecting, and whether one has sent its hello, on the stream the node had or on
a new one. `truth` and its companions are the servers, which are external: each
answers from what it last knew, so that an old primary goes on claiming to be
one, and from its own release. There are three, as the code tells them apart:
4.2, then those with a `topologyVersion`, then 6.0 with the other rule to
compare two primaries; a server that is down may come back as a later one. A
server that is "closing" refuses hellos and commands until it stops. `dead` has
the streams that were closed from the other end. `best` and `suspect` are
history.

The operators from `Reset` to `HandleHello` are the functions of
`mongoc-topology-description.c`, `Transition` its table. `StartScan` sets up the
nodes: a command for each DNS record, and twice as many for a node that is new,
because `mongoc_topology_reconcile` sets it up when it adds it and
`mongoc_topology_scanner_start` does so once more. The first command that
connects cancels its siblings (`Connected`), one of several may fail without
anybody noticing (`AttemptFails`). `ReplyOk`, `ReplyFail` and `ReplyRetired`
handle one hello, whole: the description, the nodes that are added or retired
because of it (`Reconcile`), and the second hello to a server that was known.
`EndScan` ends the scan. An operation goes through `Enter`, `Rescan`, `TooEarly`
and `Pick` (`mongoc_topology_select_server_id`), `CheckInterval`, a second
selection if that fails, `Fetch` with a scan of its own if the stream is gone,
`Fetched`, and one of `UseOk`, `NetworkError`, `Timeout` and `NotPrimary`, which
has every refusal of a server that cannot write (not the primary, recovering,
shutting down) and ignores one whose `topologyVersion` is not newer than the
description's. Two addresses may lead to one server (`Me`), which is how a
server is removed that calls itself by another name.

### Retry

One client runs commands one after the other. `elig` is the command's
`retry_eligibility`, `attempt` and `allowed` count in
`_mongoc_retryable_cmd_run`, `saved` is the reply that will be returned, and
`path` says whether the command runs as a retryable write, which keeps the more
telling of two replies, or as everything else does, which keeps the last one.
`Start` takes a server session from the pool and a new transaction number,
`Send`, `Receive` and `NetworkError` are one attempt, `Decide`, `Selected` and
`NotSelected` the loop around it. Requests in `flight` outlive the stream they
were sent on; the server (`Accept`, `Refuse`) knows the last transaction number
of each session and carries a number out once.

`Command` is the same seen by the callers: which commands were begun, how often
each took effect, what its caller was told. `Effect` may come while the command
runs and, after an error, at any later time; never after "ok" (then it has come)
or "untouched" (an error labelled `NoWritesPerformed`). `Retry` maps `applied` to
the effects and `report` to what was told (`ImplementsCommand`).

## 3. Runs and what they show

Runs that must pass:

| Run | Instance | Checks |
|---|---|---|
| `sessions` | one collection, one gridfs, one iterator, TLS, 5 pointers, 2 PEM files (601k states) | `TypeOK`, `OneClientPerParams`, `ParentOutlivesCollection`, `FaultsNeedDisconnect`, `DisconnectReleases`, `UnusedClientsCollected` |
| `paging_pages` | 5 documents, batches up to 3, pages of 1, 2 and 3, all readers; words of 4 and 8 bits, a `time_t` of 8, a mantissa of 5, two digits to base 3, years of two seconds | `TypeOK`, `InOrder`, `NoSpuriousError`, `ImplementsResult`, `NumbersKept`, `ValuesDistinct`, `DatesSorted` |
| `paging_tail` | 3 documents, pages of 1/2, 1, 1 1/2 and 2, empty batches, fair | `Terminates` |
| `insert_pages` | up to 4 documents of 8 kinds, pages and batches of 2, every fault, fair (90k states) | `TypeOK`, `OkMeansStored`, `NeverOverReports`, `PrefixStored`, `Terminates` |
| `gridfs_files` | one file, chunks of 2 bytes, 6 bytes, buffers up to 5 (775k states) | `TypeOK`, `FilesBacked`, `ReadsExact`, `WritesDurable` |
| `topology` | two servers, one with two addresses and two DNS records, of one release or of two, three connection strings, two configurations, 3 changes, 1 timeout, fair (1.52M states) | `TypeOK`, `OnePrimary`, `SetNameKnown`, `SingleHasServer`, `OneStreamPerNode`, `ChosenHasNode`, `NoSuspectReused`, `NewestPrimary`, `OnlyAnswersRemove`, `Recovers` |
| `retry` | two commands of four kinds, 3 requests under way, 2 retries under overload, fair (93k states) | `TypeOK`, `AtMostOnce`, `AnswersMatch`, `OkMeansApplied`, `NoWritesMeansNone`, `Returns`, `ImplementsCommand` |

* `sessions`: however collections, late finalizers, failed pings, interrupted
  streams, disconnects and restarts interleave, and wherever a call is cut
  short, the user's objects never lead to two clients with the same parameters;
  a live collection has a live client, and nothing the user can reach is queued
  for finalization; freed memory is only touched through a cursor or stream that
  was alive when its object was explicitly disconnected; and `disconnect(gc =
  TRUE)` leaves no client without a user. Five pointers are enough for two
  clients with a child each and a cursor or stream on one, which is the longest
  chain R has to follow; the second PEM file is what a reset in a new session
  writes. And a client nobody uses is destroyed, or used again.
* `paging_pages`: the sizes make every relation between a batch boundary, a page
  boundary and the end of the result occur: pages that divide the result, that
  do not, and that are longer than a batch. An error can replace any reply.
  `ImplementsResult` has `EndMeansAll` in it, which `paging_empty` checks alone.
  The conversions are checked for every value of the small words: they contain
  the integer that is `NA`, integers a double does not hold, unsigned words
  beyond the signed range, dates on both sides of 1970, years below 0 and years
  of one, two and three digits, seconds that need more than an R integer, and
  quotients that are the same double. Neither restriction of `DatesSorted` can
  be left out: years of different widths do not sort as text, and dates whose
  seconds have too many bits for their milliseconds collide as doubles.
* `paging_tail`: the loops return even if every `getMore` is answered with an
  empty batch for ever. `pagesize` 0 is left out: that loop does not end. Why
  the others do is proved, for them and for the loops of `insert_pages` and
  `retry` (section 5).
* `insert_pages`: success means everything is on the server and counted; a count
  is never too high, also when replies are lost; and if errors stop the call,
  what is stored of pages that go in one message is a prefix, so a failed import
  can be resumed. Without `stop_on_error` it should not be one: see
  `insert_continue`.
* `gridfs_files`: six bytes are three chunks; buffers of up to five bytes cross
  one or two boundaries. One file suffices, since no command spans two files
  except `drop()`, which treats all alike.
* `topology`: three changes are an election, the death of the old or new primary
  and a third event that meets the client in between; two servers are enough for
  two primaries, and the alias and the second configuration make servers leave
  the description and come back. A new node with two DNS records has four
  commands under way. The servers start in the middle of an upgrade or may be
  upgraded, so that both rules to compare primaries meet in one set. The starts
  and connection strings reach every row of the transition table. The three
  asserts the driver makes on the way (`SetNameKnown`, `OneStreamPerNode`,
  `ChosenHasNode`) and the one it does not make (`SingleHasServer`) hold;
  `NoSuspectReused` is what makes a retry worth its while: an error that is
  ignored because of its `topologyVersion` was in the description before.
  `NewestPrimary` compares by the rule for the release that answers; it holds of
  primaries that were accepted and then distrusted, too. `Recovers` has the
  premise `Reaches`: a client that still scans a member of the set. Without it
  TLC finds the client of the note on `mongoc-topology.c:52` below.
* `retry`: two commands, since what can go wrong between two attempts or two
  commands takes one of each: a late request, a late answer, a session that is
  used again. Three requests under way are all attempts of one write and one of
  the other.

Each property has a mutant under `mutants` in `PROJECT.json`: a changed
definition, standing for a plausible slip in the code, under which the same run
fails. The definitions with names like `Unprotected`, `StrongPool` or
`StopOnEmptyPage` are these changed forms; nothing else uses them.

*Fairness.* `sessions` assumes that R collects and runs finalizers again and
again, weakly fair and nothing more: a session that goes on evaluating allocates,
and `gc()` and the interrupt check run the pending finalizers. A session that
sits idle at the prompt releases nothing, in the model as in R. The liveness
checks of `Paging` and `Insert` assume that a call in progress takes a step: the
code is a loop in one thread, and the driver's socket and server selection
timeouts turn a silent server into a failed command. `topology` assumes that a
command of a scan goes on or ends, since `connectTimeoutMS` bounds it, that a scan
without commands ends,
that five seconds of cooldown pass, and that the session goes on using its
collection; nothing is assumed of the servers, whose settling is a premise of
`Recovers`. `retry` assumes that the client runs on, where a wait may always end
in a timeout, and that no request is under way for ever.

*Deadlock* is not checked where a call that is over stays over (`Paging`,
`Insert`, `Retry`) and where the bound on external pointers ends a behaviour
(`Lifecycle`); it is checked in `GridFS` and `Topology`, where an operation can
always go on.

## 4. Where code and documents disagree

Runs that show a violation, each with a finding in `PROJECT.json`:

| Run | Statement | What happens |
|---|---|---|
| `cursor_parent` | NEWS: "Collection and cursor pointers now protect parent from GC" | `disconnect()` clears the collection's `Protected`, so a live iterator no longer keeps its client |
| `paging_empty` | `src/cursor.c`: "iterator exhausted" | an empty batch on an open cursor is taken for the end: a short result without an error |
| `insert_continue` | `src/collection.c`: "ordered means serial execution", with `ordered` from `stop_on_error` | the bulk operation gets no options and is ordered all the same: without `stop_on_error` a document after a rejected one of its page is not stored |
| `gridfs_drop` | `R/gridfs.R`: "Removes the entire GridFS collection, including all files" | a `drop()` repeated after a partial failure returns FALSE and leaves the chunks |
| `restore_cut` | `src/reader.c`: "Failed to read all documents." | a dump cut inside a document is restored without the warning |

The models also show behaviour on which no document takes a stand, so there is
no property and no run: a reset in a new session writes a new PEM file, whose
name is part of the pool's key, and stops sharing clients; a fractional
`pagesize` makes a full page look short; an ordered insert that needs two
messages goes on after a write error in the first; a page of only blank lines
ends an import with an error; removing a file while it is written lets the
writer bring its document back without chunks; a date before 1970 with a
fraction of a second is converted to a text with a negative fraction; the text
of a date after the year 9999 sorts before that of a date in it; a timestamp
from 2^31 on is negative or `NA`. In the driver: a server that is removed and
reported again during one scan has no scanner node until the next, and if no
other node is left there is no next (`mongoc-topology.c:52`); a node's
`last_error` is never cleared, so that reconnecting fails as long as any scanned
node has failed before; a write concern error followed by an attempt with
`NoWritesPerformed` fails with an empty `bson_error`. Most are in the notes of
the hazards.

More comments that the code does not bear out, for which there is no run:

* "coerce int64 to int32", of `time_t secs = epoch / 1000` (`bson.c:143`): a
  `time_t` has 64 bits on current platforms, and nothing is coerced. `Seconds` has
  the width of a `time_t`, and `ValuesDistinct` rests on it: its mutant is what
  the comment says, under which dates after 2038 collide with earlier ones.
* "Check if the ptr has died and automatically recreate it" (`R/mongo.R:138`):
  after `rename()`, which forgets options and PEM text (`R/mongo.R:268`,
  `RenamedOrig`), what is recreated has other parameters.
* The client "distrusts primaries with lesser electionIds"
  (`mongoc-topology-description.c:1943-1946`): for servers below 6.0 `setVersion`
  is compared first. In the instance of `topology`, after the primary of election
  3 that of election 2, which has reconfigured the set meanwhile, is accepted, and
  the remembered `electionId` goes down. `NewestPrimary` is by the rule that the
  code has for the release that answers.

Two comments of the driver say more than the code does, without consequences for
a property. `_cancel_commands_excluding` "If acmd is NULL, cancel all async
commands on the node" (`mongoc-topology-scanner.c:126`) cancels none then, so the
commands of a retired node run on; their results are not looked at
(`ReplyRetired`). And "in the case of a "not primary" or "node is shutting down"
error, the client MUST mark the topology as "stale"" (`mongoc-topology.c:1869`)
is done for the first only; after the second the server is Unknown, and no
selection takes it before a scan all the same.

## 5. Proofs

`LifecycleProofs` proves, for any sets of objects, iterators, urls and options
and any bound on pointers:

* `TypeCorrect`, `PoolUnique`, `CollectionsAnchored`, `FaultFree`: the four
  invariants of `sessions`;
* `ReleasesOnDisconnect`: its action property.

All rest on `Invariance`, that `IInv` is inductive. Its parts, and what they are
needed for:

* `HeapOK`: numbers grow from parent to child; the protecting pointer of a live
  object is the one its native needs, unless the object is an orphan of a
  disconnect; a live collection's client is live. Growing numbers are what makes
  R's newest-first order safe: a child is finalized before its parent.
* `PoolOK`: an entry of the pool holds a client made with its parameters, and a
  live client that is not the key of its entry (one cut off before `Register`)
  protects nothing, so no collection or gridfs leads to it.
* `FrameOK`: the client of the running call is registered, or its entry in the
  pool is dead, which is why `new_client()` made it. With `PoolOK` this gives
  `OneClientPerParams`; without it `Register` could displace a client in use.
* `RootKinds`: what the user's variables and the frame refer to has the kind its
  place requires, so that two hops of `Protected` reach a client.
* `ReadyApart`: nothing reachable is in the finalizer queue. This is where
  `R_get_weakref` matters: a key it returns was live *after* the pending
  finalizers ran, so a client that becomes reachable again was not queued.

The argument then is: a garbage collection queues only what is unreachable;
everything a reachable object protects is reachable; hence a parent is queued no
earlier than its last child, and in one batch it is finalized after it. Only
`Disconnect` takes a link away, and it records the children it cut off.

`PagingProofs` proves, for any number of documents and any batch and page sizes,
`PagingTypes`, `PagesInOrder` and `NeverSpurious`, from the inductive invariant
`TypeOK`, `CursorOK` (which states of the cursor go with which values of its
fields), `PageOK` (how the page being filled continues what was counted and
handed over, and that after an error nothing does), `LoopOK` (a loop that asks
again has not exhausted the cursor), `InOrder` and `NoSpuriousError`. Under two
assumptions, `WholePages` (page sizes are whole and positive) and `~Tailing` (no
empty batch on an open cursor), it proves `CompleteResult`, that the end is only
announced after the last document, with the strengthening `EndOK`, and
`PagingImplementsResult`, that every step is a step of `Result` or a stutter.
Both assumptions are needed: `paging_empty` violates the property without the
second, and a page size of 1.5 without the first. `LoopsAdvance` proves
`Advances` without either, which says that `Distance` falls with every step
until the next document is there (both are defined in the module of proofs): a
short page is the last one, and a cursor that has asked for one batch returns.

`RetryProofs` proves, for any number of commands, requests under way and
retries, `TypeCorrect`, `NoDoubleEffect`, `AnswersBelong`, `SuccessIsTrue` and
`NoWritesIsTrue`: the five invariants of `retry`. The inductive invariant:

* `NumbersOK`: the server is never ahead of the client's numbers, and a request
  the server would still carry out belongs to a command that had no effect yet.
* `RequestsOK`: attempts of one command carry the same number; two commands
  never share one on the same session; a write without a number is under way
  once.
* `CurrentOK`, `OpsOK`: the requests of the running command are its own, also on
  a session an earlier command used.
* `StreamOK`: one answer at most is awaited, and nothing open is under way once
  the client is not waiting. A late answer has no stream left to arrive on.
* `RefusedOK`: as long as every attempt was refused, none had an effect.
  Refusals have to be followed through the loop, since the reply that is
  returned need not be the last one: this is what `NoWritesMeansNone` adds to
  the others.

`RetryImplementsCommand` proves the refinement from it, action by action: `Start`
is a `Begin`, `Return` a `Tell` (what is told is true because `ReportsOK` holds
after the step), an `Accept` that has an effect is an `Effect` (`NumbersOK` says
it is the first, `ReportsOK` that the caller was not told otherwise), and the rest
changes nothing a caller is promised. `CommandsAdvance` proves `Advances`, with
`AttemptsOK`: a command that runs has attempts left, though an error may raise or
lower how many there are.

`Nil`, the absence of a reply, is assumed to be no reply; it stands for a NULL
pointer or an empty `bson_t`.

`TopologyProofs` proves, for any addresses, aliases, connection strings,
configurations and bounds on what the servers do, `TypeCorrect`,
`OneIsBelieved`, `NameIsKnown`, `SingleIsThere`, `StreamsAreHandedOver`,
`SelectedHasNode`, `SuspectsAreAsked`, and the action properties
`PrimariesGetNewer` and `FailuresRemoveNothing`, for any number of DNS records
and any mixture of releases. `DescOK` is the invariant of a description: no two
primaries, a name where there is a primary, one server in a single topology, and
the primary's election is the one remembered. Each function of
`mongoc-topology-description.c` has a lemma saying what it returns; the rows of
the transition table then keep `DescOK`, except between the moment an answer is
written into the description and the end of its handler, for which `Pre` says
what still holds. `NodesOK` relates the description to the scanner: a described
server without a node is one of which nothing is known, so no selection takes
it. `SelectedHasNode` is not inductive without that, because a server may be
removed and reported again in one scan. `CommandsOK` says that a node whose
hello is sent has no other command, which is what cancelling the siblings is
for: without it a second command of a node that was set up twice would answer
for a node with a stream. `SuspectsOK` says that nothing is known of a suspect
that is described and has a stream, so no selection takes it before a scan;
`PhaseOK` carries this through the check and the fetch of a stream that was
selected before. An error that is ignored adds no suspect: the description is
from an answer no older than it. `BestOK` ties the primary accepted last to what
the description remembers, so that the comparison the code makes, with the rule
of the release that answers, is the comparison with that primary. The
assumptions are those of the URI parser: there is a seed, and only one with
`directConnection=true`.

`GridFSProofs` proves, for any files, chunk size, buffer size and length,
`TypeCorrect`, `FoundIsBacked`, `ReadsAreExact` and the action property
`WritesAreDurable`. Per file, the invariant says where the page is (`PageOK`: it
follows the chunks that are full), what size a chunk on the server has
(`ChunksOK`), that the length in the document stays behind the page (`DocOK`),
that what is not dirty has been saved (`DirtyOK`), and that the chunks before the
page are there (`BackedOK`). A length in the document is `Settled`: it ends with a
chunk or is the final one, so a chunk that was written for it keeps its size while
the file grows. That is why a reader, which has the old length, gets exactly that
many bytes from a file that is still being written (`ReaderOK`).

`InsertProofs` proves, for inputs, pages and batches of any size and any faults,
`TypeCorrect`, `CountsAreBacked`, `NoGaps`, and `SuccessIsComplete`: that
`OkMeansStored` holds of every input that is not cut off inside a document. Of one
that is it does not hold, as `restore_cut` shows. The invariant: `PagesOK`, a page
begins after a whole number of pages, which is what makes the pages of the code
the pages of `PrefixStored`; `SentOK`, a page that fits in one message is sent in
one; `StoredOK`, everything so far is stored unless a warning was given or this
page has failed; `CountOK`, for each mode what `total` and `nInserted` have to do
with the number of documents stored. `CountOK` differs by mode because the code
counts differently: `import()` counts pages once they succeeded, `R_mongo_restore`
counts documents as it reads them, and the others add up the replies. That reading
and counting come to the same follows only because a restore that fails raises an
error. `RestorePage` reads up to the first document `bson_reader_read` refuses;
that there is such a place is the least-number principle (`Smallest`), from the
library's theorem that `<` on the naturals is well-founded. `CallsAdvance` proves
`Advances`; `ReadOK`, that there is something to read wherever `import()` reads a
page, is what it needs besides.

`ConvertProofs` proves, for words, mantissas, bases and digits of any width,
`NumbersAreKept`, `ValuesStayDistinct` and `DatesStaySorted`. They hold of all
values, so of those in every page; nothing of `Paging` is used but the state they
are stated in. The backends know nothing of powers, so `Power` is a recursive
function, and what is needed of it (`PowerDef`, `PowerAdd`, `PowerGrows`) is
proved: first that a function with its equation exists, put together from its
finite pieces, then each fact by the least counterexample (`Smallest`), since
induction takes an operator parameter. On this stand:

* `DigitLess`: of two numbers the smaller has a smaller digit and the same ones
  before it. The place is where the quotients by a power of the base first
  agree. Dates as text are different and sorted because of it; that dates before
  1970 stay different takes the minus sign (`MillisDiffer`), and that years of
  any width do takes the one after the year, which no digit is equal to
  (`TextEqual`).
* `RoundOrder`: rounding to the nearest even double is monotone. Within one
  shift this is arithmetic (`StepsMono`); across shifts a rounded number never
  passes the power of two between them (`StepsBounds`).
* `RoundExact`: up to `2^Mantissa`, the bound included, nothing is rounded.
* `QuotientNear`: the quotient of a number of few enough seconds is rounded by
  less than half the distance to the next quotient, so that no two meet.

Only model-checked:

* liveness (`UnusedClientsCollected`, both `Terminates`, `Recovers`, `Returns`),
  which is beyond the prover. Of `Terminates` and `Returns` the argument is
  proved, as `Advances`: no call goes on for ever without getting anywhere. What
  is left to TLC is that a step is possible and that fairness makes it happen;
* the properties of the runs that show a violation, which do not hold.

## 6. Assumptions about the environment

* R registers finalizers at the front of a list and runs the queued ones from
  the front; a weak reference whose key a collection found dead is cleared in
  the same pass; finalizers run at `R_CheckUserInterrupt`, in `gc()`, and at a
  regular exit because they are registered with `onexit = TRUE`.
* A `time_t` has 64 bits (with 32 the proofs hold of the dates it can hold),
  `gmtime` converts every time a date can have, which takes years that fit into
  an `int`, and `%Y` writes a year without padding. On Windows `gmtime` fails
  for times before 1970 and after the year 3000, and `ConvertDate` does not ask;
  C libraries that pad years below 1000 to four digits only make more texts
  sort.
* R runs one call at a time; finalizers and the calls of the user are the only
  interleaving within a process. Sessions interleave at the server.
* A server command is done, or not done, or done with the reply lost; an ordered
  insert stops at its first error, so a lost reply leaves a prefix of the batch.
  Deleting many documents is not atomic.
* A server carries out a transaction number once per session and refuses an
  older one; its label `NoWritesPerformed` is true of the attempt it is about.
  Elections of a set are numbered, and a number is never used twice; a closed
  stream is noticed by the next read or write on it. A server's
  `topologyVersion` grows with every change, also over a restart: the code takes
  another `processId` for newer, which comes to the same. A hello that is
  refused carries none, and an error of a server that cannot write carries that
  of the moment. One DNS record of a host leads to its server if the server
  runs.
* `jsonlite` splits a data frame into pages of at most `pagesize` rows.
* A driver function that fails returns without touching the objects above it.

## 7. What is not modelled

* `read_bson`: see the plan. Of the conversion of BSON to R, the values that are
  copied (strings, binaries, booleans) and decimals, which `strtod` reads.
* Unacknowledged writes: with `w=0` in the URI the driver sends and returns
  success without a reply (`mongoc-cluster.c:3362-3366`). `Insert` and `Retry`
  are about acknowledged writes; what they say of a success is not meant for the
  others, whose success says nothing.
* The commands of `collection.c` that are one round trip and keep no state
  (update, remove, count, distinct, index, map-reduce, run). In `Lifecycle` they
  are the `check_col()` they begin with.
* `fs$find()`, and the fields of a file as R values.
* Memory of a call: `R_mongo_restore` creates a bulk operation per 1000
  documents and destroys the last one only.
* Of the driver: background monitoring (a single-threaded client has none), read
  preferences and tag sets, load balancers, SRV records, authentication, wire
  versions other than those of the three releases, pool generations, host names
  that do not resolve, transactions, exhaust cursors, compression, the length of
  back-offs. The label `SystemOverloadedError` of a network error
  (`mongoc-topology.c:1938`) is for a stream that fails before its first hello;
  `_stream_run_hello` is reached from pooled clients only.
* libbson, URI parsing, TLS, SASL and SCRAM, client-side encryption, change
  streams, client pools, `bulkWrite` and utf8proc, which are most of the 162,000
  lines under `src/src`: mongolite does not call them, or calls them as functions
  from bytes to bytes, with no protocol of their own. The models cover the parts
  of the vendored tree that decide what mongolite's own calls promise.
* Options, hex, logging and printing: no protocol.

## 8. Plan

1. `Lifecycle`, with proofs of its invariants. *Done.*
2. `Paging` over the abstract `Result`, with the refinement proved. *Done.*
3. `GridFS`: failing commands, finalizers and concurrent sessions, with proofs of
   its invariants and of `WritesDurable`. *Done.*
4. `Insert`: pages, batches, errors and counts, with proofs. *Done.*
5. `Convert`: numbers and dates with their widths, with proofs. *Done.*
6. `Topology`: scans, selection and what an error does to them, with proofs.
   *Done.*
7. `Retry`: attempts, transaction numbers, returned errors, with proofs. *Done.*
8. `Command`, what a command promises its caller, implemented by `Retry`; and why
   the loops of `Paging`, `Insert` and `Retry` end. *Done.*
9. The same for a file and a write (stored or not, told or not), implemented by
   `GridFS` and `Insert`: the invariants proved are what the refinements need.
10. `Reader`: `R_bson_reader_file`, which counts and then reads a file that may
    change between the passes; `fs$find()` with a failing cursor.
