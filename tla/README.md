# Formal models of vklib

vklib is a Lua 5.4 extension in C: a table of file system functions, a
binding of the MongoDB C driver, and two optional parts (HTTP requests and
SQLite).  This directory holds TLA+ models of it, the TLC configurations that
check them, and proofs that TLAPS checks.  Source paths below are relative to
the repository; `bson.c` and the other files of the mongo binding are in
`src/vklib_mongo/`.

## 1. Inventory

The repository has no documents: what the code promises is in its comments and
in `tests/*.lua`.  `CMakeLists.txt:10-13` builds the file system functions and
the mongo binding by default.

| Component | State it keeps | Operations | What is hard | What makes it correct |
|---|---|---|---|---|
| Mongo handles (`util.c`, `client.c`, `database.c`, `collection.c`, `cursor.c`, `bulkoperation.c`, `gridfs*.c`, `readprefs.c`) | a userdata per driver object, its metatable, its environment table (the user value) with the owner, the mode and the parent's environment; the driver's own pointers between its objects | constructors, methods that open a child, `__gc` | the collector finalizes at any moment and in batches, `lua_close` the rest, script finalizers resurrect what was finalized | no dead object is used, none is destroyed twice or leaked, dependants go first |
| BSON encoding (`bson.c`: `castBSON`, `toBSONValue`, `appendTable`, `appendValue`) | the Lua stack, the refs table of tables under way, the error parts, the native document | encode a value | cyclic and shared graphs, metamethods that transform or raise, failure in the depth | exactly the encodable values are encoded, messages name the path, the document is never lost |
| BSON decoding (`bson.c`: `unpackTable`, `unpackValue`, `pushBSON`) | none | decode a document | distinctions one side has and the other has not | what was decoded stands for the document and can be sent back |
| Library loading (`vklib.c`) | the Lua stack, the library tables, the registry | `luaopen_vklib` | stack discipline | the registry has what the decoder looks up |
| File system functions (`vklib_fs.c`) | none of its own; the file system | `create_dir`, `remove_dir`, `dir_exists`, `create_file`, `remove_file`, `file_exists`, `read_file`, `get_files`, `getcwd` | other processes between two system calls, links, ignored results, recursion | results tell the truth, nothing else is touched |
| Cursor iteration (`cursor.c`, `gridfsfilelist.c`) | none of its own; the driver's cursor: its state, the batch and the position in it, an error | `next`, `value`, `more`, iterators | a handler that uses the cursor it is called from or raises, empty batches, failure between two batches, completed cursors | every document once, in order; no failure looks like the end; a call returns |
| GridFS file contents (`gridfsfile.c`, `gridfs.c`) | the position, the page, the cursor and the length of the driver; the chunks and the files document of the server | `read`, `write`, `seek`, `tell`, `save`, `remove` | chunk boundaries, gaps, failures of the server before and after the effect, a process that ends in the middle | what was written is read, the files document promises no byte that is not stored, calls return |
| Write and query methods (`collection.c`, `bulkoperation.c`, `database.c`, `flags.c`; `mongoc-bulk-operation.c`, `mongoc-write-command.c`) | the commands of a bulk, the place in them, the result; transaction numbers | add a write, `execute`; the other methods are one driver call each | connections that break after the server got a batch, retries on another stream, refused documents in the middle, `execute` called again | nothing is written twice or out of order; the result says what was written |
| Server discovery and selection (`mongoc-topology.c`, `mongoc-topology-description.c`, `mongoc-topology-scanner.c`, `mongoc-server-description.c`, `mongoc-cluster.c`) | the topology description, the nodes of the scanner and their streams, the generation of each pool | scan, handle a reply, select a server, fetch a stream, handle an error of an operation | elections and reconfigurations between two replies, late replies, hosts that are not what the URI says, failures in each step | one primary, the latest; members of one set only; errors take the right server down; the client finds a healthy set again |
| BSON types and object ids (`bsontype.c`, `objectid.c`) | their parameters | constructors | none | |
| HTTP requests (`vklib_requests.c`), not built by default | a socket | `get` | URL parsing, partial receives | |
| SQLite (`vklib_sqlite.c`), not built by default | the database, as a light userdata | `open`, `close`, `exec` | use after close | |
| Compatibility (`vklib_compat.c`) | none | `get_error` | | |

How they interact: the script calls functions of the library tables; the
methods of the mongo binding cast their arguments with the encoder and wrap
what the driver returns with `pushHandle` or hand it to the decoder; the
decoder calls the constructors that loading put in the registry; Lua's
collector calls the finalizers.  Everything runs in one thread.  The actors
that interleave are the script, the collector with its finalizers,
metamethods and handlers that the library calls back, the server, and other
processes that use the same file system.

`PROJECT.json` lists the hazards of this code with their lines and the
properties that would catch each.

## 2. Modules

| Module | Models | |
|---|---|---|
| `NativeObjects` | abstract: what the driver asks of whoever owns its objects | state machine |
| `Handles` | every mongo handle, the collector, the finalizers, `lua_close` | implements `NativeObjects` |
| `HandlesProofs` | theorems about `Handles` | TLAPS |
| `BsonEncode` | one call of `castBSON` or `toBSONValue` | state machine |
| `BsonEncodeProofs` | theorems about `BsonEncode` | TLAPS |
| `BsonRoundTrip` | decoding and encoding, one operator for each table, and repeated trips | state machine |
| `BsonRoundTripProofs` | theorems about `BsonRoundTrip` | TLAPS |
| `MongoOpen` | `mongo_open` and the look-up of constructors | state machine |
| `DocumentStream` | abstract: documents in order, then the end or a failure | state machine |
| `Cursors` | iteration over a cursor or a list of files, with handlers that re-enter it | implements `DocumentStream` |
| `CursorsProofs` | theorems about `Cursors` | TLAPS |
| `GridFSFile` | the contents of a GridFS file, over the page and the cursor of the driver and the chunks of the server | state machine |
| `GridFSFileProofs` | theorems about `GridFSFile` | TLAPS |
| `BulkWrite` | bulk operations: batches, retries, merged results, over connections that break | state machine |
| `BulkWriteProofs` | theorems about `BulkWrite` | TLAPS |
| `TopologyDescription` | what a reply or a failure makes of the topology description | pure operators |
| `Topology` | the scanner, selection, streams and errors of a client, over `TopologyDescription`, with a deployment that changes | state machine |
| `TopologyProofs` | theorems about `Topology` | TLAPS |
| `FileSystem` | the fs functions that modify or test the tree, system call by system call | state machine |
| `FileSystemProofs` | theorems about `FileSystem` | TLAPS |
| `MC...` | the sets that instantiate a module for TLC | |

### Handles

A handle is a number in the order in which metatables are set, the order of
Lua's `finobj` list.  `kind` is the typename, `env`, `envMode` and `envParent`
are the user value, entry 2 and entry 3 of the environment table
(`util.c:82-98`), `typed` says whether the metatable is still there
(`setType`, `unsetType`), `native` is the state of the driver object, `needs`
the objects it keeps pointers to, as its constructor in `dep/mongodb/src`
stores them.  The collector is the one of `dep/lua/src/lgc.c`: `Collect` is the
atomic step of a cycle (the set it marks may include garbage, because objects
can become unreachable while it marks), `Separate` moves what is not marked to
`tobefnz`, of which `cycle` tells the order, `Finalize` calls the finalizer of
the first object there, and `Close` is `lua_close`.  Each method that wraps an
object is an action; methods that create the same kind of handle in the same
way share one.  Methods that only use an object are not actions:
`CallableIsSafe` is about everything a method could be given.

With `ScriptObjects = TRUE` the script has objects with `__gc` metamethods of
its own, which hold a handle and can bring it back after it was finalized.

`Alive` says of an object that is ours that it was not destroyed, and of a
collection that belongs to a GridFS that the GridFS was not.  `CallableIsSafe`,
that every handle a method accepts has a live object with live parents, holds
for scripts without finalizers of their own, and the code does not give it to
the others: a finalizer of the script can bring back the chunks or files
collection of a GridFS that was destroyed, and since the finalizer of a
reference leaves its metatable (`collection.c:219`), a method accepts it and
uses freed memory.  A child that is opened on such a handle, or on one that
waits for its finalizer, is unsafe in turn.  `UnsafeOnlyIfResurrected` says how
far this goes: a handle that owns its object is refused once the object is
destroyed, whoever brings it back; and a handle is as safe as without such
finalizers if the collector has never separated it (it is in `finobj`) and
nothing its object points to had been separated when it was created.  The
latter is history, kept in `belated`, which no action reads.  What is left out
are the handles that were resurrected (`lua_close` separates all, so there it
is every handle) and those made of one whose objects were: for them the code
promises nothing, and the run reaches states in which they are unsafe.

`EventuallyReleased` says that, again and again, there is a moment at which
every object whose handle the script cannot reach is destroyed.  It does not say
that an object is destroyed at once: there may always be one that waits while
the script opens and drops handles, and only the bound ends that here.

Outside of the model: a script that calls `obj:__gc()` itself, and failures of
memory allocation.

### BsonEncode

`heap` is any graph of tables with at most `MaxEntries` entries each; values
other than tables are distinguished by how the encoder treats them.  `frames`
are the activations of `appendTable`, with the stack top each found; `refs` is
the refs table; `errs` are the keys put in front of the message, by their
position; `native` is the fate of the document.  A metamethod is assumed not
to modify the tables being encoded.  Passing a string is not modelled.

### BsonRoundTrip

`unpackTable` is called once for each document and array, and makes one table
of it; `appendTable` is called once for each table.  So the nested documents
are numbered, the outermost is `Root`, and a table has the number of the
document it was made of: `doc` is a function from numbers to `[array, fields]`,
`value` one from numbers to Lua tables `[list, dict]`, and `UnpackTable` and
`PackTable` are what one call does.  The recursion of the code is the
quantifier over the numbers, and its depth is in `Ways`, the paths from the
root: `Top` is what `appendTable` finds on the Lua stack at the end of one, and
`Refused` says where it gives up, so that `Pack` destroys the document when
some call does.  `Orders` are the orders in which `lua_next` may find the keys,
for each table its own, and `Pack` tries them all.

Numbers have a type and a value, strings and other values a type only; of the
names of array elements only the first is told apart, because `isArray` looks
for it.  Integers do not overflow in a trip: `isInt32` selects the wider type.
Field names are unique in a document.  A document that the server sends is not
nested deeper than castBSON has stack for (`RoundTripAssumption`; a level takes
up to two places of `MAXSTACK`).  No handler is given.

### MongoOpen

The two tables of the library, the one on top of the stack, and the registry.

### Cursors

One cursor, or the cursor inside of a list of GridFS files.  `total` are the
documents of the result, `sent` how many of them the server has sent, `cursor`
is what `mongoc_cursor_t` keeps: the state of its loop, the documents of the
batch that are still ahead, whether the server has given an id for more, and
the error.  A document is its number in the result.  `calls` is the stack of
calls in progress: a handler is called from inside of `unpackTable` and can
call `next`, `value` or an iterator of the same cursor, so that only the
innermost call acts.

| Action | Code |
|---|---|
| `Call` | `m_next`, `m_value`, `iterator`; `m_next` of a list |
| `Enter`, `Report` | `mongoc_cursor_next` outside of its loop, and where it gives up on a second empty batch |
| `Fetch`, `FetchFails` | `_prime` and `_get_next_batch` of the find command with `_mongoc_cursor_response_refresh`, which frees the reply there was |
| `EndBatch`, `Pop` | `_pop_from_batch`; `Pop` returns a copy or a file, or starts to unpack |
| `NextEnds` | the rest of `iterateCursor`: nil, an error as a result, or an error that is raised |
| `UnpackTable`, `HandlerReturns`, `HandlerRaises` | `unpackTable`, for each table of the document, inner ones first; an error goes through any number of the calls around it |

`stale` marks a call whose reply was freed while it unpacks.  That can happen
(`value(h)` with an `h` that calls `next` on the last document of a batch):
`KeptWhileUnpacked` says that it takes such a handler, and that no earlier
document of the batch is affected.  Nothing in the code prevents it.
`NilMeansEnd` allows nil when the cursor says that there is more: after an
empty batch, and for a document of `fs.files` that describes no file, which
ends an iteration over the list.

Outside of the model: the legacy protocol and exhaust cursors, a client that
was reset, two cursors at a time (each has its own reply), and what `findOne`
does with a temporary cursor.

### GridFSFile

One handle at a time on one file.  `chunks` and `stored` are what the server
keeps: the chunks by number, and the length in the files document.  `file` is
`mongoc_gridfs_file_t`: position, length, `n`, `is_dirty`, the page
(`data`, `offset`, and `written` for "has a buffer of its own") and the cursor
(`cursor_range` as `next` and `last`, the documents it has received as
`ahead`).  A call of `gridfsfile.c` starts with `Read`, `Write`, `Seek`,
`Save` or `Remove` and goes on, one function of the driver or one round trip
to the server at a time, at the step `pc`; `refresh_page` and `flush_page` go
back to `call.back`.

| Step | Code |
|---|---|
| `Readv`, `PageRead`, `ReadBehindPage` | `m_read` (`gridfsfile.c:79-101`) and `mongoc_gridfs_file_readv` |
| `Writev`, `PageWrite`, `NeedPage`, `Fill` | `mongoc_gridfs_file_writev`, `_mongoc_gridfs_file_extend` |
| `Refresh`, `Fetch`, `NextChunk`, `NoChunk` | `_mongoc_gridfs_file_refresh_page`, `missing_chunk`, the cursor |
| `FlushBeforeSeek`, `SeekPage` | `mongoc_gridfs_file_seek` |
| `UpdateChunk`, `InnerSaveClean`, `UpdateFile` | `_mongoc_gridfs_file_flush_page`, `mongoc_gridfs_file_save` |
| `RemoveFile`, `RemoveChunks` | `mongoc_gridfs_file_remove` |
| `ServerFails` | any of the round trips fails, before or after it had its effect |
| `Reopen` | the collector took the handle, or the process ended, and the file is opened again |

A byte is a number that tells which write it comes from, `Junk` one that was
never set.  `content`, `lost`, `stale`, `torn`, `unsaved` and `removed` are
history: the sequence of bytes the file should be, and why it may not be.

`stale` is set when a page comes from an old reply.  The driver's comment says
that "the page is queried from the database" every time
(`mongoc-gridfs-file.c:757`), but a cursor is kept while the position stays in
its range, with the documents it has received (`:695-716`), and the range ends
at the length over the chunk size (`:833`).  If there was a chunk at or behind
the end when they were sent, one that a process that died left there or one of
an empty write at a chunk boundary, and it is stored again meanwhile, the next
page has what it was before.  A write to a page that is too short then stores
a chunk that is too short, and a read behind the end of such a page copies
memory that is not the page's, because what is left of it is counted without a
sign (`mongoc-gridfs-file-page.c:80`): `pc` is `"crashed"`.  The model follows
all of it; the properties of the contents are about files without a stale page.

Not modelled:
the setters of the other fields, `create_file_from`, two handles on one file,
anything but `remove` on a file that was removed.

### FileSystem

`kind` is the tree: each path is absent, a file, a directory or a symbolic
link.  `pc` is the next system call, or `"returned"` when a result is there, `frames` the open directories of
`_compat_rmdir`.  `OtherProcess` changes the tree between any two steps of a
call.  `readdir` returns what there was when the directory was opened.  Not
modelled: Windows, permissions, paths that lead through a link, cycles of
links, the contents of files, failure to allocate.  All links lead to one place (`Link`).

### BulkWrite

`commands` is the bulk: commands of one type each with their documents, merged
as `_mongoc_bulk_operation_insert` does (`Add`).  `execute` goes through `pc`:
a stream for the command (`GetStream`, `NoStream`), a batch of documents
(`Ship`, `TooLarge`, `EndsBatch`), the answer (`Receive`), a retry
(`Retry`), and the merging of the reply (`Settle`, `Merged`), then the next
command (`EndCommand`).

| Definition | Code |
|---|---|
| `Add` | `mongoc_bulk_operation_insert_with_opts` and its siblings |
| `Execute`, `GetStream`, `NoStream`, `EndCommand` | `mongoc_bulk_operation_execute` |
| `Ship`, `TooLarge`, `Retry`, `Settle` | the loop of `_mongoc_write_opmsg` |
| `Receive`, `Answered`, `Failed`, `Lost` | `mongoc_cluster_run_opmsg`, `mongoc_cluster_run_command_monitored` and the error handlers they call; in each of the three outcomes the connection may be closed |
| `Merged`, `FinalError` | `_mongoc_write_result_merge`, `_mongoc_write_result_complete` |
| `Serve`, `ServeLate` | external: a server works on the request, document by document |

A server may go on with a request after its connection broke (`late`), at any
later time; a request with a transaction number that was executed already has
no effect.  `txn` stands for the pair of session and number, `0` for none.

Assumed: acknowledged write concerns, servers that support retryable writes,
and a server that refuses a document always does.

What the code does and the properties leave room for:

- An ordered bulk goes on with the *next batch* of a command when the server
  refused a document of this one (`must_stop` is only set when the command
  itself failed, `mongoc-write-command.c:630`).
- A document that is too large ends the loop: documents that were collected
  for the batch before it are not sent in an ordered bulk.
- Whether the loop goes on depends on the validity of the first stream, but
  later batches use the stream of the last retry, which may be broken or
  released by then (`mongoc-write-command.c:632`).  The model goes to the state
  `crashed` there.
- It also depends on whether the batch failed.  `_handle_not_primary_error` is
  called for every reply (`mongoc-cluster.c:615`) and looks at its
  `writeConcernError` as well (`mongoc-topology.c:1744`, `mongoc-rpc.c:1237`);
  if that comes from a server that shuts down (or, with wire versions up to
  4.0, has any state-change code), the pool is cleared and the node is
  disconnected, which frees the stream.  The write itself succeeded, so
  `mongoc-write-command.c:628-636` does not ask whether the stream "has been
  properly invalidated", and the next batch goes out on freed memory, be the
  bulk ordered or not.  `Answered` closes the connection in these cases, and
  the model goes to the state `crashed`.  `FailedStreamIsDropped` is what does
  hold: if the stream that a command began with is used after it was closed,
  the last reply was a success with a failed write concern.  So a stream on
  which a batch failed is dropped, as the comment at `:630` says.
- On success of the last batch the error is cleared ("if a retry succeeded,
  clear the initial error", `mongoc-write-command.c:664`), whoever set it: an
  unordered bulk can fail without a message.  `FailureExplained` is stated for
  ordered bulks.
- A second `execute` sends every command again.

### TopologyDescription and Topology

A description is a record; the operators of `TopologyDescription` are the
static functions of `mongoc-topology-description.c` and keep their names.
`Transition` is the table `gSDAMTransitionTable`.

`Topology` is a single-threaded client, as vklib makes them.  `td` is the
description, `nodes` the list of the scanner in its order, `op` and `pc` the
call in progress.

| Action | Code |
|---|---|
| `Begin`, `ScanToSelect`, `NoneEligible`, `Select`, `SelectNone`, `NoScanner` | `mongoc_topology_select_server_id` |
| `Check`, `CheckClosed` | `mongoc_cluster_check_interval` |
| `Fetch`, `FetchScanned`, `Lose` | `_cluster_fetch_stream_single`, `_mongoc_cluster_stream_for_server` |
| `StartScan`, `FinishScan`, `CooldownEnds` | `mongoc_topology_scan_once`, `mongoc_topology_scanner_start` and `_finish` |
| `Answer`, `HandleReply`, `CheckFails` | `_async_success`, `_async_error_or_timeout`, `_mongoc_topology_scanner_cb`, with `Reconcile` |
| `RunDone`, `RunRefused`, `RunBreaks` | the end of a command, `_handle_not_primary_error`, `_handle_network_error` |
| `Elect`, `Learn`, `Reconfigure` | external: a replica set |

`Answer` writes the reply, `HandleReply` processes it, so that replies are late
and in any order.  `cleared` of a call says that the pool of its server was
cleared after the generation for its stream was read.

The replica set is one whose terms and configs come from majorities, and whose
primary installs only configs that it is in.  `Reconfigure` installs a config at
a majority in one step.  A real primary stores it first and then sends it to
the others; if it loses its term in between, a config that no majority had is
known to it and to who asks it, and `(setVersion, electionId)` of two primaries
may be ordered one way by the config and the other way by the term.  `NeverBack`
and `Recovers` say nothing of such a set.  Servers do not restart, so
`topologyVersion` is its counter and the `processId` stays; and no server
answers that it is shutting down, so `RunRefused` never clears a pool (a server
that goes away is a broken stream, `RunBreaks`, which does).  Assumed of the client:
`serverSelectionTryOnce` as it is by default, host names that resolve, no
authentication, servers that report `topologyVersion`.  Not modelled: SRV
polling, load balancers, background monitoring, tags, staleness, the latency
window, wire versions.

What the code does and the properties leave room for:

- `last_error` of a node is never cleared.  A scan for one server is then a
  failure because some other check failed long ago, and the stream is given
  up.  It is the same test that keeps `ErrorsAreCurrent` true.
- The loss of any stream marks its server unknown, whatever the reason (the
  comment at `mongoc-cluster.c:2284` says so).
- When the last server is removed, the scanner is invalid for good
  (`NoScanner`).
- `setVersion` is compared before `electionId`
  (`mongoc-topology-description.c:330-340`).  `NeverBack` holds because a config
  is installed with a majority and at once; a forced reconfiguration, or one
  that only its primary has stored, could break it.
- A node that fails to connect at once modifies the description from inside of
  another modification (`mongoc-topology.c:129`).  That takes names that do
  not resolve.

## 3. Runs

`tlc -config <cfg> <module>` runs each.  Of the passing runs, deadlock is checked for `topology`
only: the other systems may stop (a script ends, an encoder returns).

| Run | Configuration | Checks | Bounds |
|---|---|---|---|
| `handles` | `Handles.cfg` | `CallableIsSafe`, `NoLeakAtClose`, `EventuallyReleased`, and the refinement `DriverProtocol` | 4 handles (307,000 states) |
| `handles_script` | `HandlesScript.cfg` | `UnsafeOnlyIfResurrected` | 4 handles, script objects among them (907,000 states) |
| `bson_encode` | `BsonEncode.cfg` | `RefsArePath`, `DocumentAccounted`, `BuiltIffEncodable`, `ErrorNamesPath`, `Terminates` | 2 tables of 2 entries with every value and metatable, and 3 tables of 2 entries with every shape |
| `bson_round_trip` | `BsonRoundTrip.cfg` | `StandsForSent`, `AcceptedAgain`, `StableAfterOneTrip` | 2 fields, up to two levels of nesting, 3 trips (276,000 states) |
| `file_system` | `FileSystem.cfg` | `RemoveDirTellsTheTruth`, `OnlyAsAsked`, `CallsEnd` | 6 paths, 2 changes by others |
| `cursors` | `Cursors.cfg` | `KeptWhileUnpacked`, `NilMeansEnd`, `CallsEnd`, and the refinement `DeliversStream` | results of up to 3 documents, each with up to 2 tables; 5 calls, 3 of them nested |
| `gridfs_file` | `GridFSFile.cfg` | `FileHoldsContent`, `ReadReturnsContent`, `SavedIsStored`, `StoredIsReadable`, `CallsEnd` | 5 bytes in chunks of 2, 2 writes of 0 or 2 bytes, 1 failure (704,000 states) |
| `bulk_write` | `BulkWrite.cfg` | `AtMostOnce`, `InOrder`, `SuccessMeansApplied`, `CountIsComplete`, `RefusedAreBad`, `LaterCommandsStay`, `FailureExplained`, `FailedStreamIsDropped`, `CallsEnd` | 3 documents of 4 kinds in batches of 2, 2 types, 2 calls of `execute` (1,122,000 states) |
| `topology` | `Topology.cfg` | `OnePrimary`, `OneSet`, `AssertionsHold`, `ErrorsAreCurrent`, `NeverBack`, `Recovers` | 3 addresses, 14 deployments, 2 terms, up to 2 failures (326,000 states) |

Three more runs check what a comment of the code says and find it violated.

| Run | The comment | What the code does |
|---|---|---|
| `mongo_open` | `vklib.c:109`, "Cache BSON type constructors" | caches nil: wrong table, wrong names |
| `gridfs_lost` | `mongoc-gridfs-file-page.c:97-99`, the buffer of the first write "becomes authoritative from then on" | a read that leaves a page that was written drops it, and the bytes with it |
| `lost_node` | `mongoc-topology-scanner.c:636`, "Return the scanner node with the given id" | the search stops at the first larger id; a host that is removed and added again within one scan gets a node behind larger ids, and every call for that server fails |

Other places where the code does not do what its comments say are part of the
models, and the properties are stated so that they leave room for them:
`create_dir` ignores the result of `mkdir`, and `dir_exists` is true for a file
(`vklib_fs.c:121`, `:175`); `writev` tests the result of `_extend` for 0 where
-1 means failure (`mongoc-gridfs-file.c:516`, `:574`), and the bytes go into
the gap; a handle opened on a file whose last writer did not save may read
forever (`mongoc-gridfs-file.c:475`); a page can come from an old reply, as
told under GridFSFile; and those listed under BulkWrite and Topology.

Why the bounds are enough.  Four handles are a client, a GridFS, one of its
files or collections and one object beside them, the longest chain of
environments there is (an environment leads to the parent's, and a client has
none); two batches of finalizers interleave in all ways.  With finalizers of
the script's own they are a client, a GridFS, its chunks and the script object
that brings any of these back.  What holds for
every number of handles is proved.  In the encoder two tables make cycles of length one and two,
sharing and transformation into each other, and `MaxStack = 7` is two levels
below the root; with three tables shared subgraphs occur on and off the
current path.  A trip of a document is determined by its value, so that three
trips show the fixed point.  A GridFS file of
5 bytes in chunks of 2 has a first, a middle and a last, partial chunk; two
writes can overlap, append, be empty, or leave a gap of more than one chunk;
files to begin with come from writes that were saved, or not, and opened again; a read of
3 with a buffer of 2 takes two calls of `readv`, and with the position odd
each of them two pages.  `ChunksPerBatch` stands for the batch size of the
cursor; 2 is enough for it to be refilled and to be ahead of a chunk that is
written.  `MaxFailures` is 1; the safety invariants were checked with 2 as
well.  Six paths give a directory with a file, a
subdirectory with a file, and a second directory; two changes by others can
replace an entry by one of another kind between two system calls; the path
outside of the tree is absent, a file, or a directory with one file.  Three
documents make batches of one, of several and empty ones in any sequence; a
document of two tables calls its handler inside and at the end; three nested
calls are one that unpacks around one that unpacks around one that replaces
the reply of both.

In `BulkWrite` three documents in batches of two make a full batch, a part of
one, and two commands; with two calls of `execute` requests of the first can be
executed in the second; each batch may be retried once, so that several
requests are under way at a time.  A set of two is the smallest in which a primary can
lose an election that it does not hear of and a reply of it be processed after
the one of its successor; three members make a majority that does not need the
third, and a config that loses one.  One failure takes a stream or a check
down, the second hits the retry.  `lost_node` needs a fourth address, the one
whose id comes between.

The type invariants and the inductive invariants (`IInv`) of the modules with
proofs are proved, and not checked again by the runs.

Every property of a passing run has a mutant, an operator that changes one
definition the way a plausible bug would (`PROJECT.json`, "mutants"; the
operators stand in the modules before the definitions they replace).

### Fairness

- `Handles`: the collector completes a cycle again and again, and the marks of
  such a cycle can be exact, because a script that allocates drives
  `singlestep`, and `fullinc` runs a cycle at once; a pending finalizer is
  called, because every step after the atomic one, and `lua_close`, call some;
  a script finalizer returns.  Nothing is assumed of the script itself: it need
  not drop anything nor end.
- `BsonEncode`, `Cursors`, `FileSystem` and `GridFSFile`: the thread in the
  call goes on, and metamethods and handlers return or raise; the server answers or the driver gives up,
  because its sockets have timeouts.  Other processes need not do anything.
- `BulkWrite`: the thread in `execute` goes on, and a socket answers, breaks or
  times out.  A server need never work on a request whose connection broke.
- `Topology`: the thread in a call goes on, and checks are answered or time
  out.  The fairness of the scanner is written with its guard (`[]<>(pc #
  "scan")`) because TLC is much faster with it.  A script that writes goes on
  writing, and the cooldown of a node ends; both are possible only between
  calls or scans, so that weak fairness would not do.  Elections need never
  end: `Recovers` speaks of a set that keeps having a primary.

## 4. Proofs

There is a module of proofs for each state machine but `MongoOpen`.  Every invariant
named below was model-checked on the run of its module before it was proved.

`tlapm HandlesProofs.tla` checks the theorems about `Handles`.  For every
number of handles:

- `Invariance`: `IInv` is invariant.
- `Typing`, `Resurrection`, `SingleDestruction`: `TypeOK`,
  `UnsafeOnlyIfResurrected` and `DestroyedAtMostOnce` are invariant, for scripts
  with and without finalizers of their own.
- `CallSafety`, `Completeness`, `NoDangling`: `CallableIsSafe`, `NoLeakAtClose`
  and `NoDanglingPointer` are invariant, under the assumption
  `~ScriptObjects`.
- `Refinement`: `Spec => DriverProtocol`, under the same assumption.

The assumption is needed, as told in section 2.  A finalizer of the script can
bring back the chunks collection of a GridFS, a reference handle that keeps its
metatable, after the GridFS was destroyed; it can also make a child of a handle
that is about to be destroyed.  `Resurrection` is what is left without it.

None of the properties is inductive.  That an object a method receives is
alive follows from where the collector has it: what is typed and not a
reference is live (`Owned`).  That its parents are alive needs that whatever
keeps the handle from being collected keeps the parents too: the pointers of
an object lead only to owners of environments its own environment leads to
(`Covered`), which are one or two steps away because only clients and GridFS
handles own an environment with children (`Environments`).  So a separation
that takes a parent takes the child as well (`Ordered`), and since the parent
got its metatable first, the finalizer of the child comes first.  `Fresh` says
that a handle not created yet has left no trace.  Of `Ordered` one part does
not depend on what finalizers do: what an object points to is not separated
before its own handle, unless it was so already when the handle was made
(`Together`).  `Resurrection` rests on that and on `Owned`: an object whose
handle is in `finobj` is live.

`tlapm CursorsProofs.tla` checks the theorems about `Cursors`, for results
and documents of any size and calls nested to any depth:

- `Invariance`: `IInv` is invariant.
- `Order` and `Kept`: `InOrder` and `KeptWhileUnpacked` are invariant.
- `NilIsTheEnd`: `Spec => NilMeansEnd`.
- `Refinement`: `Spec => DeliversStream`.
- `Progress`: `Spec => [][Progresses]_vars`.

`InOrder` alone is not inductive, because which document `Pop` hands out is
computed from what the server sent and what is still ahead: `Counted` says
that these differ by what was handed out.  That a call may return nil needs
`Ended` (a cursor without an id has sent everything, one that is done without
an error has handed out everything) and `Located` (a call has nothing to hand
out only if the batch ended or there is an error).  `KeptWhileUnpacked` needs
`Nested`: all calls but the innermost wait for a handler that made another
call; and the reply is replaced only when nothing of it is ahead, so that by
`Counted` its last document was handed out.  The lemmas `TopChanges`,
`CallsEndKeeps` and `ReplacedKeeps` are about the stack: the innermost call
changes, calls are left, the reply is replaced under all of them.  The proofs
use that the bounds are numbers (`CursorAssumption`).

In `DocumentStream` there are no batches, replies or calls: the status is open
while the cursor has no error and is not done, ended when it is done, failed
when its error is one of the server or of the options (`Status`).  `Pop` is
`Give`, `FetchFails` is `Fail`, the last `EndBatch` is `End`, and every other
step stutters; that asking a completed cursor is an error of its own
(`Enter`) does not show.  The point is `AdvancesOpen`: whoever is in the loop of
the driver found the cursor open, and no other call can have ended it since,
because calls come only from handlers and those are called outside of the loop.

`Progress` gives the variant of a call, `Ahead`: what the loop of the driver may
still do (`Rounds`: the batch that was there or is the first, and one more), and
two steps for each table of the document.  Every step of the code makes it less
or leaves the call; only a call that a handler makes adds to it.  It needs
`AdvancesOpen` as well, since a call whose cursor was done could go round
without an end.

`tlapm BsonEncodeProofs.tla` checks, for every set of graphs of tables, of any
size, and every bound on the Lua stack:

- `Invariance` and `Typing`: `IInv` and `TypeOK` are invariant.
- `RefsTrackPath`, `DocumentIsAccounted`: `RefsArePath` and
  `DocumentAccounted` are invariant.
- `BuiltExactly`: `BuiltIffEncodable` is invariant; the encoder, with its
  stack, its table of references and its early ends, decides the declarative
  `Encodable`.
- `ErrorsNamePath`: `ErrorNamesPath` is invariant.

`BuiltIffEncodable` relates the end of a traversal to what can be reached from
the root.  The invariant says of each activation that the entries it has done
are fine, that what was nested there can be encoded, and that no table under
way is reachable from there (`Encoded`); the tables under way are a path
without repetition (`OnPath`, `Apart`).  So a table that is entered again is a
cycle, and a table that is finished has none.  Reachability is the least
closed set, for which no induction over paths is needed.  `Judged` keeps the
verdict while the encoder unwinds.  For the messages, `Keys` joins the keys of
the activations that remain with those already in front of the message: that
sequence does not change while the encoder unwinds, and `Cause` says what each
message claims of the value it leads to.

`tlapm FileSystemProofs.tla` checks, for every set of paths, every trees to
start from and any number of changes by other processes:

- `Typing`: `TypeOK` is invariant; with it, that no step makes a tree something
  else, such as a file with entries.
- `ChangesOnlyAsAsked`: `OnlyAsAsked` is invariant.
- `RemoveDirTruthful`: `RemoveDirTellsTheTruth` is invariant.

`OnlyAsAsked` bounds what a call changed by what others did meanwhile
(`Counted`, on sets of paths); it needs that without links `_compat_rmdir`
never leaves the directory it was given (`Local`), and that there is no link
unless there was one before (`NoNewLinks`).  That a recursive removal left
alone removes everything needs the stack of open directories: each is inside
the one before, and what is left of it is what is still to be read and the
entry that is being removed (`Chain`, `Doing`, `Swept`).  `FileSystemAssumption`
says of paths that they are non-empty sequences of names whose parents are
paths.

`tlapm BulkWriteProofs.tla` checks the theorems about `BulkWrite`, for bulks
of any size, any number of calls of `execute`, batches and broken connections:

- `Invariance` and `TypeCorrect`: `IInv` and `TypeOK` are invariant.
- `WrittenAtMostOnce`, `SuccessIsComplete`, `OrderedFailureExplained` and
  `FailedStreamDropped`: `AtMostOnce`, `SuccessMeansApplied`, `FailureExplained`
  and `FailedStreamIsDropped` are invariant.
- `ExecutedInOrder`: `InOrder` is invariant.
- `CountComplete`, `RefusedPlacedRight`, `LaterStay`: `CountIsComplete`,
  `RefusedAreBad` and `LaterCommandsStay` are invariant.

`AtMostOnce` needs to know of every request in flight, the late ones too.
`Placed` says where the loop is and that the request is the batch it has
reached, `Located` that nothing behind that place is executed or in flight,
and `Numbered` that a document belongs to one transaction number, or, without
one, to a single request that has passed it when it is executed.
`SuccessMeansApplied` needs `Accounted`, what was executed while nothing has
failed; `FailureExplained` needs `Explained`, where the error is until it is
reported; `FailedStreamIsDropped` needs `Streams`: the first stream is open
whenever a batch is to be sent on it, or the last reply closed it with a failed
write concern (`ClosedByConcern`).

`InOrder` needs `Sequential`: what was executed of a request of an ordered
bulk is a first part of it (`FirstPart`), and nothing is executed or sent
behind a request that could still do something (`GoesOn`).

What the result says of documents is proved with `Totals`: the offset is the
number of documents of the commands before, the index of a batch and the count
follow from it (`Sums`), and an ordered bulk leaves a command only when every
document of it can be written, also for the requests that a server works on
late (`Cleared`).  `Start`, which adds up the commands, is a recursive
function; `StartNext` and what follows from it is proved with
`NatSetInduction`.

`tlapm TopologyProofs.tla` checks, for every set of deployments, any number of
servers, terms, configs and failures:

- `Invariance`: `Good(td)` is invariant.
- `BelievesInOnePrimary`: `OnePrimary` is invariant.
- `ScanningInvariance`: `Scanning` is invariant.
- `NoAssertionFails`, `ErrorsCount`: `AssertionsHold` and `ErrorsAreCurrent`
  are invariant.
- `OneSetOnly`: `OneSet` is invariant.

`OnePrimary` is not inductive: a topology of type `Single` changes its one
server without looking at the others, so `Good` adds that there is one, and a
shape that `EXCEPT` needs.  Between the moment the type of a server is stored
and the transition that follows there may be two primaries; `GoodBut(t, a)` is
`Good` but for the server `a`.  Most changes are *calm*: they keep the type of
the topology and make no server primary (`RemoveCalm`, `AddCalm`,
`LabelCalm`, ...), so that only `UpdateRsFromPrimary`, `UpdateRsType` and
`Invalidate` need an argument of their own, and the table one line per entry.
The proof uses of `TopologyAssumption` that a URI with `directConnection` has
one host.  It uses nothing of the replica set: the property holds whatever
servers answer.

The other theorems relate the description to the scanner.  `Turned` says what
any reply or failure makes of a description: servers keep their ids, or go, or
come with ids that were never used.  So a node stays the node of the server
that has its id (`Fine`), even when the host went and came back, and only a
scan has commands under way or nodes that are retired; a node that has a stream
has shaken hands, which is what the driver asserts.  `Calling` says when a call
may have seen its pool cleared: the node of a failed check keeps its error, so
that the call gives the stream up.  `OneSet` is the first property that needs
the replica set: a reply is what a member said at some time (`Tells`), with the
name and the members that its set has then, and `Consistent` says that the
servers of the description are at home in the set of its name, and, while there
is a primary, reported by it.  The lemmas follow a reply through the functions
of `TopologyDescription`.

`ElectionsNeverGoBack` is `NeverBack`, the property that depends on how a set
elects.  The code compares `setVersion` before `electionId`, so a late reply
of a primary with a later config could bring back an earlier term.  `Orderly`
shows why it does not: two majorities of a config have a member in common
(`Overlap`), a config is followed by another only after a majority has it, and
so who has a later config than a primary has a later term as well.  `Past` says
of a config and a term that some primary had them once, in a form that the
steps of the set keep; `Timely` says it of what the description has and of
every reply that waits, and that any two of them are ordered by term as by
config (`InOrder`).  `Led` adds that the description keeps the latest, and that
its primary is not of an earlier one.  The steps of the set are `Elects`,
`Installs` and `Learns`, with two lemmas each: they keep `Orderly` and `Past`.
A forced reconfiguration, which needs no majority, and a config that its primary
has stored and no majority has yet, are not in the model: they break the
argument.

`tlapm GridFSFileProofs.tla` checks, for chunks, buffers and batches of any
size, files of any length, and any number of writes, failures and processes
that die:

- `Typing` and `TypesHold`: `Typed`, `Control` and `TypeOK` are invariant.
- `NothingMissing`: `StoredIsReadable` is invariant.
- `ReadsInPage`: `pc` is not `"crashed"` unless a page was stale.
- `WhatWasWritten`, `WhatIsRead`, `WhatIsSaved`: `FileHoldsContent`,
  `ReadReturnsContent` and `SavedIsStored` are invariant.

`Typed` has the types, and that a page is where the position is.  `Control` says
where a call can be and with what: the step it goes back to (`Course`), the gap
that a write fills first (`Gap`), which steps have a page, and that the length
in the files document is never more than the file's (`Paging`).  `Sound` is what
`StoredIsReadable` needs: the chunks, with the page that was written to in front
of one of them, have every byte below the length (`Enough`); a page that was
written to is as long as the chunk that it replaces, or is the last one
(`PageSound`); when a write fills a page, all the chunks before it are full
(`FullBehind`), so that the length may grow over them.  A read that leaves a
page that was written to drops it, and the chunk of that page has as much,
because the read did not end at the end of the file (`DroppedCovered`,
`Within`).  `Overlaid` is the step that puts bytes in a page, the only one at
which the length grows.  The proof attempt is what found the stale pages: with
an older form of `StoredIsReadable`, and bounds that were too small to show it,
the case of a page that is shorter than its chunk could not be closed.

The three theorems about the bytes rest on `Faithful`, which speaks of the
moments at which it is known what the file should be.  `Holds`: every chunk
has exactly the size that the length gives it (`Exact`), with a written page in
front of its chunk, and every byte is the one that `content` has there
(`Bytes`), except in the part from `From` to `To` that a write has still to
put.  `Expected` says what `content` is meanwhile: as long as the file, or as
the file will be when the write is done, with the bytes that are still to be
put at their places and zeros in the gap.  `content` is set when a write
begins and the file follows, page by page, with a flush between two pages, so
this is the form in which the two agree at every step.  While a gap is filled
the chunks are ahead of `file.length`, and the bytes that count end at the
position (`Reach`, `Filling`).  `Saved` says that a file that is not dirty is
stored, and `Reads` that what a read has so far is the part of `content` that
begins where the read began.  `Faithful` uses `Sound`: a page that was not
written to has the bytes of its chunk, which makes it safe to put some of them
over it (`PagePart`, `LayIn`) and to read from it.  It also uses that a cursor
which received a chunk before it was stored again makes the page stale
(`NextChunkFaithful`): then nothing is claimed.

`tlapm BsonRoundTripProofs.tla` checks, for documents of any size and nesting
and any number of trips:

- `Invariance`: `Travelling` is invariant.
- `NeverRejected`, `TablesStand`, `TripsSettle`: `AcceptedAgain`,
  `StandsForSent` and `StableAfterOneTrip` are invariant.

`Travelling` speaks of `Unpacked(doc)`, which is the Lua value whether it has
been made already or not, so that `Unpack` changes nothing of it.  The proof of
`Pack` climbs from values over tables to documents.  A value settles at once:
`Again`, packing and unpacking, is idempotent (`AgainAgain`).  A table that
`unpackTable` makes has one of two shapes (`Made`): a list with the tag of its
length, or string keys without a nil.  Only the shapes matter for
`getArrayLength`: the tag gives an array its length back, holes included, and
everything else has length -1 unless a field named `__array` says otherwise.
After one trip a table is `Settled`: it is an array with its tag, or it keeps
its fields whatever the order of `lua_next`.  What it stands for is kept by a
further trip (`TripStands`).

Two facts are about all tables together.  The root is the one table of which
the next `unpackTable` guesses from a name whether it is an array; `Plain` says
that a root which is none does not have the field `0`, which holds from the
first unpacking on unless the document is `Ambiguous`.  A root of length 0
packs to an empty document, of which nothing says any more that it was an
array; that can happen in the first trip, and `Travelling` says that it cannot
afterwards.  For
`AcceptedAgain`, `Descends` says that no trip nests a table in another one that
it was not in; so every path is one that the document that was sent has, and
`NeverRefused` bounds the stack on it.

Every safety property that a passing run checks is stated by a theorem above.
Only model-checked are the liveness properties (`EventuallyReleased`,
`Terminates`, `CallsEnd`, `Recovers`), which are out of reach of the prover (of
`CallsEnd` of `Cursors`, `Progress` proves what does not need fairness), and
the violations of section 3, which are about single executions.  For `MongoOpen`
there is nothing to prove: it is a sequence of assignments, run once.

What the proofs do not use of the configurations: no theorem assumes anything
of the bounds but that they are numbers.  What they do use is named: the
assumptions on the constants in the modules, and `~ScriptObjects` where it says
so.

## 5. Plan

1. Model next: the constructors of the BSON types that decoding calls, servers
   of `Topology` that restart or shut down and configs that spread member by
   member, `read_file` and `get_files` with interference,
   `create_file_from` and the metadata of GridFS files, connections of
   `BulkWrite` that come from `Topology`.
2. Prove next: that `BsonEncode`, which has the recursion, the metamethods and
   the stack, implements `PackTable` of `BsonRoundTrip` on tables without
   metatables; and an abstract specification of a GridFS file, the bytes alone,
   with `GridFSFile` shown to implement it.
3. Then the optional parts: SQLite handles as a protocol, URL parsing and the
   receive loop.

## 6. Not modelled, and why

Most of the lines of the repository are third-party code that is vendored: the
driver, the Lua interpreter, SQLite.  Of these only what the binding depends on
is modelled, from the sources in `dep/`: the collector, cursors, GridFS files,
bulk writes, and how a client finds its servers.  Encryption, connection
pools, background monitoring, change streams, sessions and transactions are
never used by the binding.  Effects of commands on the server are the server's.

`vklib_requests.c` and `vklib_sqlite.c` are not built by default; the receive
loop of the former reads `bytes_received` before it is set.  The BSON types and
object ids are immutable values.  `get_error` is one undefined behaviour
without branches.  `dirent_compat.h` is a third-party header for Windows.

Hazards that no property covers, besides those in `PROJECT.json`: a `__toBSON`
that adds fields to the table under traversal (`bson.c:383`); use of a GridFS
file after `remove`; `st` in `_compat_mkdir`, a pointer that `stat` writes a
structure over (`vklib_fs.c:47`); a file that another process truncates between
`ftell` and `fread` of `read_file` (`vklib_fs.c:278`); constructors that
allocate before they check their arguments (`readprefs.c:65`).
