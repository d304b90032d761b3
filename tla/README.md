# Verification of remote-backup-m1-server

TLA+ models of the backup server, the TLC runs that check them on small
instances, and proofs (TLAPS) of the properties that matter most for every
instance. Line numbers refer to the files under `src/`.

## The system

A client keeps a copy of a directory on the server. It opens a TLS connection,
logs in (AUTH), asks which files the server has (SYNC), and then sends CREATE,
UPDATE and ERASE requests. A file travels in chunks, one request each; every
request carries the path and the digest the whole file will have, and the last
one ends in an END segment.

| part | source | state it keeps | operations | modelled in |
|---|---|---|---|---|
| request handler | `core/request_handler.*` | none of its own but the stream table | one handler per type of request | `RequestHandler`, `UploadRace`, `BackupStore`, `BackupClient` |
| open streams | `core/open_streams.*` | user id -> ofstream | `get_stream`, `erase_stream` | `RequestHandler`, `UploadRace` |
| user session | `core/user.h` | id, `is_auth_`, `is_synced_`, view | setters | `RequestHandler` |
| directory view | `directory/` | path -> (synced, digest) | `insert_or_assign`, `erase`, `rsrc`, `clear` | `Directory`, `RequestHandler` |
| connection | `core/connection.*` | socket, timer, `timed_out`, replies | a chain of asynchronous operations | `Connection` |
| message queue | `communication/message_queue.*` | the messages of one answer | `add_TLV`, `front`, `pop` | `MessageQueue` |
| message, TLV view | `communication/message.*`, `tlv_view.*` | bytes, a cursor | `add_TLV`, `next_tlv`, `verify_end` | `Message`, `MessageQueue` |
| server | `core/server.*` | acceptor, signal set, queue of handlers, pool of threads | accept loop, stop on a signal, `run` | `Server` |
| credentials, digests | `utilities/tools.*` | the credentials file | `verify_password`, `create_sign`, `split_sign`, `MD5_hash` | `Tools`; `MD5_hash` by effect in `RequestHandler` |
| options, start-up | `main.cpp` | the `variables_map` | `parse_options`, construction, `run` | `StartUp`; the return of `run` in `Server` |
| logger | `utilities/logger.*` | | | not modelled |

How they interact: `server` accepts and starts a `connection`; the connection
reads a request, calls `request_handler::handle_request` on its strand and
writes the answer. The handler changes four things: the session (owned by the
connection), the view (owned by the session), the stream table (shared by all
connections, behind a mutex) and the folder of the user (shared with
everything). `connection::shutdown` erases the stream of its user. Threads of
the pool run handlers of different connections at the same time.

What is hard here:

* the four pieces of state are changed one after the other, with early returns
  and exits between them, and later requests rely on their agreeing;
* the stream table is keyed by user and not by file, and a request for any file
  uses the stream that is there;
* a user may have two connections, with one stream and two views;
* a temporary file is an ordinary file of the folder to everyone else;
* a timer, a blocking shutdown and asynchronous operations race;
* the process may be stopped between any two steps of an upload, and several
  errors end it;
* every blocking call, the shutdown that waits for a client above all, occupies
  one of the few threads that run everything else.

`PROJECT.json` lists the hazards line by line with the properties aimed at each.

## Modules

Values and data:

* `Directory`: contents, digests, views and folders as values, and the
  operators on them. A digest is the content it stands for.
* `Message`: bytes of messages, encoding and iteration.

One module per component:

* `RequestHandler` (EXTENDS `Directory`): one step per request, with the calls
  of the file system that may fail. `MCRequestHandler` has its instances.
* `UploadRace` (EXTENDS `Directory`): the three file handlers again, one step per
  access to what connections share. `MCUploadRace` has its instances.
* `Connection`: one connection, one step per completion, expiry or handler.
  `MCConnection` is its instance.
* `MessageQueue` (EXTENDS `Message`): an answer being written and read again.
  `MCMessageQueue` holds its instances.
* `Server`: clients, accept loop, queue of handlers, threads, signal.
* `StartUp`: `main` before `run`.
* `Tools`: the searches in the credentials file and in signs. `MCTools` has its
  instance.

Compositions and specifications:

* `BackupStore`: what a user is promised: a map of complete files and the uploads
  in progress. `RequestHandlerStore` (EXTENDS `RequestHandler`, INSTANCE
  `BackupStore` WITH ...) is the refinement mapping, `MCRequestHandlerStore` its
  instance.
* `BackupClient` (EXTENDS `RequestHandler`): the request handler together with an
  orderly client. `MCBackupClient` is its instance.

Proofs, each of the module in its name: `RequestHandlerProofs` (which EXTENDS
`RequestHandlerStore` and has the refinement too), `UploadRaceProofs`,
`BackupClientProofs`, `MessageQueueProofs`, `ConnectionProofs`, `ServerProofs`,
`StartUpProofs`, `ToolsProofs`.

Operators whose comment says "A mutant" are plausible bugs of the operator that
follows; they are used only to see that a property notices them.

### RequestHandler and the code

| state | code |
|---|---|
| `running` | the process |
| `conn[c]` | the connection in slot `c` and its `user`: open, `is_auth_`, `is_synced_`, `id_` (`user.h`) |
| `dir[c]` | `*user.dir_ptr_`; a session with `id = None` has a null pointer |
| `streams` | `open_streams::streams_`; a stream is the name it writes to, `FailedStream`, or `Unlinked` when its file lost its name |
| `disk[u]` | the folder `backup_root/id`; temporaries are names like others |
| `reply` | the answer to the last request, for the properties; `LOST` when the request ended the process |

| action | code |
|---|---|
| `Accept` | `server::handle_accept`, a `user` whose two flags have any of the values `FreshFlag` |
| `Shutdown` | `connection::shutdown`, whatever called it |
| `HandleOther` | `ERR_NO_CONTENT` and `ERR_MSG_TYPE_REJECTED` of `handle_request` |
| `HandleAuth`, `HandleSync`, `KeepAlive` | the handlers of those names |
| `HandleCreate` | `handle_create`, with `Verify` for lines 204-226 |
| `HandleUpdate` | `handle_update`, with `Swap` (remove, rename) and `Verify` for lines 302-328 |
| `HandleErase` | `handle_erase` |
| `HandleMalformed` | `..._NO_ITEM`, `..._NO_CONTENT`, and the uncaught exception of `split_sign` |
| `Stop`, `Restart` | `handle_stop` or a kill, and a new process on the same folders |

Abstractions. Error codes are grouped by what they say of the request
(`FAILED`, `NO_MATCH`, and `NO_EFFECT` for refusals and the OK of KEEP_ALIVE). MD5 is collision free and compared for one
path at a time. Sub-directories are not separate objects: a directory that
cannot be made is the fault `mkdir`, one that is missing fails the open.
A folder that is missing or breaks off the listing is the fault `sync`. An
update's stream is not flushed before its last chunk; here its data is on disk
at once, which matters only for the length of a temporary after a crash. A
write fault loses its whole chunk. The fault `rename` is a rename that fails with
the temporary in place; it fails in any case when the temporary is gone. The reply ITEMs of SYNC are not part of
`reply`. Two branches of the code cannot be taken and have no counterpart: the
duplicate branch of `handle_sync` (104-110; the view is empty) and the catch
clauses at 218 and 321 (`MD5_hash` never throws `filesystem_error`; what it
throws, `length_error` for a file it cannot read, is caught by nobody and ends
the process, as in `Verify`). Paths are compared as the client writes them; the
ones in use start with `/`, which is what SYNC lists.

A request is one step, from its first check to its answer. For connections of
different users that hides nothing but a process that ends in the middle of a
handler and the table they share, which are both in `UploadRace`: a handler touches
the session, the folder and the entry of its own user only. Two connections of one user do
interleave inside a handler, and `UploadRace` shows that they lose each other's
files and end the process. So every run of `RequestHandler` but the counterexample
MCStaleView has one connection per user, and every theorem about what its requests
do assumes it (`OneSessionEach`).

### Connection and the code

`op` is the one socket operation in progress, `result` its completion. A
handler is the lambda or bound function that takes the result: `ReadRequest` and
`ReadBody` are `read_request` and its lambda, `HandleRequest` is
`handle_request` with the first half of `write_response`, `WriteBody` the lambda
of `write_response`, `NextReply` is `handle_completion` or the recursive
`write_response`. `ReturnEarly` and `Broken` are the two guards each of them
starts with. The timer is separate: `Expire` queues its handler, `Timeout` runs
it at any later moment, and cancelling or rescheduling stops a wait in progress
only. `Shutdown` leaves the socket `closing`, with the strand blocked, until
`ShutdownReturns`, which need not come: a client that lives and does not answer the
close_notify is found by nothing. `Scheduled` is `schedule_timeout` with its catch:
where the timer cannot be set (`TimerFails`) the read starts without a wait.
`MessageFailed` is the catch of `handle_request` (154-157).

The handler of a cancelled wait does nothing and is left out. The timer's
handler does not own the connection; when the connection is gone its access is
undefined behaviour, modelled by `TimeoutTooLate` as an access nobody notices.

### UploadRace and the code

`RequestHandler` takes a request in one step. Here a handler is cut at every
access to what connections share: `pc[c]` says which one comes next and `req[c]`
has the locals (`result.first` is `iter`, `ofs_ptr` is `ptr`, `is_first` is
`first`).

| action | code (line numbers of `request_handler.cpp`) |
|---|---|
| `Begin` | AUTH and SYNC: a session with a view of its folder |
| `Ask` | a request that `handle_create` (141-162), `handle_update` or `handle_erase` does not refuse |
| `CreateDirectories` | 164-170 |
| `GetStream` | `open_streams::get_stream`, under its lock: the argument of `emplace` opens the file whether or not it is needed |
| `Take` | `ofs_ptr = result.first->second` and the check of the stream (175-181), after the lock is gone |
| `BeginWrite`, `EndWrite` | the write (182-184) as an interval, and the entry of the view |
| `Close`, `EraseStream`, `Remove`, `Rename` | 302-309, one step each |
| `Hash`, `DropFile` | 204-226, 310-329 |
| `Unlink`, `IsEmpty`, `RemoveDirectory` | 364-381 |
| `Return` | `ofs_ptr` goes out of scope |
| `Shutdown` | `connection::shutdown` of an idle session (its strand) |
| `Kill` | the end of the process at any step |

Undefined behaviour is a choice: through an iterator whose element was erased
(`Dangling`) `Take` may find a bad stream or die. An `emplace` that inserts may make
the table rehash, which invalidates the iterators of all users' handlers (`Rehash`,
the field `stale`). The nodes of an `unordered_map` stay where they are, so that
`Take` through a stale iterator finds the element, or, the standard promising
nothing, dies. A stream object lives while the
table or an `ofs_ptr` has it (`Release`); the last owner's destructor flushes it.
Data of an update stays in the buffer or goes to the file at any chunk, and a
kill loses buffers. `told[u]` is a history variable: the files a user was told
are stored and has not withdrawn. No call fails by itself here (that is what
`RequestHandler` has), and the files of a user are in one directory, `subdir`.

### BackupStore and RequestHandlerStore

`BackupStore` has no chunks, streams, temporaries or views: `store[u][p]` is the
complete file or `None`, `busy[u]` the uploads in progress, `answer` what the last
step told a user. The mapping: a file of a user with a session is complete if the
session's view has its digest, and without a session if it is on disk (the next
SYNC lists it); an upload is in progress if the view has an entry that is not
synced. The abstract server may lose the file named by a request that takes it
down, and nothing else. The implementation is claimed for one connection per
user, no path that is another's temporary, and flags that start false
(`FlagsStartFalse`); MCStaleView, MCTempClash and MCFreshFlags show what happens
without each.

### BackupClient

The client is not part of the repository. It is modelled by what the requests are
for: log in, SYNC, CREATE or UPDATE each file whose digest the server lacks, chunk
by chunk, ERASE what is no longer there, believe the answers, and hang up and start
again after a FAILED. Server actions are those of `RequestHandler`; the client
chooses their arguments. `Break` is a broken connection or a server that stops, `Edit`
a change of the client's files. The fault `write` is left out: a chunk that is
written in part is found by the digest, as any other wrong content.

### Server and the code

| action | code |
|---|---|
| `Accepted`, `NotAccepted` | the completion of `async_accept`, which queues `handle_accept` |
| `HandleAccept` | `handle_accept` and `start_accept`; `remote_endpoint` in `connection::start` throws when the client is gone, and the exception leaves `io_context::run` and the thread: the process is `died` |
| `HandleRequest`, `Shutdown`, `ShutdownReturns` | a handler of a connection, and the one that blocks in `socket_.shutdown` |
| `Signal`, `HandleStop` | the signal set, and `io_context::stop` |
| `ThreadExits`, `RunReturns` | `io_context::run` returns in a thread; `server::run` after joining them, then `main` |

The `io_context` is a queue of ready handlers. Of a connection only what occupies
a thread is kept; the rest is in `Connection`. A request whose handler throws
ends the process too; that is `Halt` of `RequestHandler` and is not repeated here.

### StartUp and the code

One action per stage of `parse_options`, in the order of `Order`. The value of an
option is where it came from: command line, config file, default. Whether a path
exists is found out when it is looked at: `Fail` may happen at every stage.

### Tools and the code

A text is a sequence of characters. `SkipLine`, `FoundLine`, `EndOfFile` and
`NotOpened` are the loop of `verify_password`, with `find`, `substr` and the
comparison of digests; `SplitSign` is `split_sign` with its greedy expression and its
exception, `Sync` is the sign that `handle_sync` makes of what was split.

### MessageQueue and the code

`AddTLV` is `message_queue::add_TLV` on bytes. `Pop` and `Read` are the writing
of the messages: `connection.cpp` pops each one and prints it with the
`operator<<` of `message.cpp`, a loop over a `tlv_view`; the receiver iterates
in the same way. `FitAssumption` says that every single segment fits in a chunk:
an ITEM echoes a sign that itself came in a chunk of the same size, and the
other segments are a few bytes.

## Runs

| run | cfg | shows | states |
|---|---|---|---|
| session | `MCSession` | `RequestHandler` implements `BackupStore`: two files, one connection at a time, any order of chunks, removals and renames that may fail | 28,071 |
| faults | `MCFaults` | view, streams and disk agree in every order of chunks, with every file system call free to fail and the flags of a session arbitrary | 56,634 |
| threads | `MCThreads` | two users on two threads, a step per access and a kill at any of them: what was stored stays, no handler loses what it has prepared, no stream is shared and no element erased under a handler | 5,574,796 |
| same_user | `MCSameUser` | two connections of one user, one uploads and one erases: no directory is removed under a file, no stream left behind | 561,441 |
| client | `MCBackupClient` | faults and edits at any point: the client knows what is stored, is never refused, and ends backed up (liveness) | 146,500 |
| connection | `MCConnection` | reads are guarded, streams not leaked, nothing is handled after a timeout; a silent client loses its session and its stream (liveness) | 308 |
| message_queue | `MCMessageQueue` | segments arrive once, whole and in order, within the chunk | 48,041 |
| server | `MCServer` | always one accept; if some thread comes back again and again all clients are taken and all requests handled, if all do a signal ends the process (liveness) | 9,524 |
| tools | `MCTools` | a registered user is found; signs are split into what they were made of | 59,046 |
| start_up | `MCStartUp` | the server works with the values that were asked for and the paths that were checked | 29,634 |
| timer_gone | `MCTimerGone` | violated: the handler of an expired wait runs on a connection that is gone | |
| silent_peers | `MCSilentPeers` | violated: as many live clients that do not answer close_notify as threads, and nobody is accepted any more | |

The last two are the findings in `PROJECT.json`, with the comments they contradict.

### Counterexamples

These configurations are not among the runs; `tlc -config X.cfg M` finds each
violated. They show why a condition of a run or theorem is needed, or what the code
does where its comments promise more.

| cfg | module | violated | what happens |
|---|---|---|---|
| `MCStaleView` | `MCRequestHandler` | `EntryBacked` | two connections of a user: the view of one does not follow the other |
| `MCTempClash` | `MCRequestHandler` | `EntryBacked` | a file whose name is the temporary of another is written through |
| `MCWrongFile` | `MCRequestHandler` | `WritesWhereNamed` | chunks of two alternating uploads end in one file |
| `MCFreshFlags` | `MCRequestHandler` | `EveryRequestAnswered` | flags of `user` nobody initialised lead to a null view |
| `MCIteratorRace` | `MCUploadRace` | `ElementStays` | the end of one connection erases the element another's iterator is on |
| `MCWriteRace` | `MCUploadRace` | `OneWriter` | two connections of a user write through one ofstream at a time |
| `MCToldRace` | `MCUploadRace` | `ToldKept` | two connections of a user: one changes a file the other has just confirmed |
| `MCRaceDies` | `MCUploadRace` | `HandlersSurvive` | a request of one connection takes away the file another connection of the user is about to hash or rename, which ends the process |
| `MCRehash` | `MCUploadRace` | `IteratorValid` | an insertion for one user makes the table rehash while a handler of another holds an iterator |
| `MCDirectoryRace` | `MCUploadRace` | `DirectoryThere` | an ERASE removes the directory a CREATE has just made sure of |
| `MCStuck` | `MCBackupClient` | `EventuallyBackedUp` | after an open that failed, a client that stays on its connection gets no file stored |
| `MCNoTimer` | `MCConnection` | `ReadGuarded` | the timer cannot be set and the read starts all the same |
| `MCLateTimeout` | `MCConnection` | `TimeoutOnlyWhileReading` | an expired wait closes a connection that is answering |
| `MCUnread` | `MCConnection` | `UnreadAnswerDropped` | no timer runs while an answer is written |
| `MCEndLikeContent` | `MCMessageQueue` | `OnlyEndRecognised` | content that ends like an END segment |
| `MCAcceptDies` | `Server` | `AcceptsAgain` | a client that leaves between accept and start ends the process |
| `MCNoThreads` | `Server` | `RunsUntilStopped` | with `threads` = 0 `run` returns at once |
| `MCDefaults` | `StartUp` | `DefaultsAnnounced` | the message for the logger file follows the credentials file |
| `MCOtherLine` | `MCTools` | `EachUserByItsLine` | the line of a user whose name contains the searched one is found first |

### The properties

Properties of `RequestHandler`, in words:

* `EntryBacked`: a digest in a view is that of the file, a complete entry has a
  digest. This is what the refusals and ERASE rely on.
* `UploadUnfinished`: the file that chunks are appended to is one the session
  holds to be unfinished, though the stream is chosen without its name.
* `NoOrphanStream`: a stream belongs to a live session of its user.
* `FinalOkStored`, `NoMatchLeavesNothing`: what OK and NO_MATCH after a last
  chunk say of disk, view and stream table.
* `EveryRequestAnswered`: no request ends the process (a theorem only, with the faults
  that do end it excluded).
* `VanishOnlyAsReported`: a file disappears only as its owner was told, or in
  the window of an update in which the process exits.
* `CompleteFileKept`: a complete file changes only in an UPDATE or ERASE that
  names it.

Properties of the others:

* `ImplementsStore`: every step is a step of `BackupStore` or a stutter.
* `ToldKept`, `HandlersSurvive`: what a user was told is stored is on disk with
  that content; a handler that comes to rename or hash finds the file there.
* `IdleViewBacked`, `ElementStays`, `OneWriter`: handlers of different users do not
  disturb each other's view, element of the table or stream.
* `FilesInDirectory`, `TableOfSessions`: the same-user counterparts that do hold.
* `KnownIsStored`, `NeverRefused`, `EventuallyBackedUp`: the client's side.
* `ReadGuarded`: no read without a wait. `StreamNotLeaked`: a chain of handlers that
  has ended has left no stream. `NothingAfterTimeout`.
* `SilentClientDropped`: a read ends, or is being shut down with its stream given back.
  `TimeoutCloses`: after a timeout the connection goes away, if shutdown returns.
* `OneAccept`, `RunsUntilStopped`; `ServedUnlessBlocked`: one thread that comes back
  from shutdown again and again is enough for all clients and requests;
  `ExitsUnlessBlocked`: a signal ends the process if every thread comes back.
* `RegisteredNotRefused`, `PartsKept`: `Tools`. `ServesWhatWasAsked`: `StartUp`.
* `WithinChunk`, `NoBareMessage`, `ShownInOrder`, `ViewInside`, `EndRecognised`:
  the messages.

`ToldKept`, `HandlersSurvive`, `IdleViewBacked`, `ElementStays` and `OneWriter` are checked
for connections of two users only; with two connections of one user each is false.

### Bounds

`RequestHandler`: `Path` has two files, enough for a chunk of one upload to meet the stream of
the other; each has a temporary. The two are alike, and `Symmetric` exchanges them
together with their temporaries. `Chunk` has one value: contents differ in length,
which is enough for two digests to differ and for a wrong file to be noticed.
`MaxLen` bounds the contents a step may leave (`FilesFit`) and the digests a client
announces. With 1 an upload has a first chunk and a last one, an empty one
included, and a file that grew too long is beyond any digest. `Faults` of a run
names the calls that may fail in it.

`UploadRace`: two connections, one path and its temporary, `MaxLen = 1`. In threads
the first connection sends CREATE and UPDATE and the second CREATE, in same_user
the second sends ERASE: each race needs one of each. Four stream objects are more
than are ever alive; `GetStream` is not taken while all are in use (`StreamId`).

`BackupClient`: two files of up to two chunks, `MaxFaults = 3` and `MaxEdits = 2`: a
fault in an upload, in the retry that meets its leftovers, and one more.

`Connection`: `MaxReplies = 3` has a first, a middle and a last reply;
`MaxFired = 2` a stale expiry beside a fresh one. `MessageQueue`: `CHUNK_SIZE = 16`
with segments of 5, 6, 8 and 15 bytes has messages that are exactly full, one byte
short and overflowing.

`Server`: three clients on two threads: two that close at once leave none for the
third. `Tools`: three lines, names of one or two characters so that one contains
the other, signs of up to five. `StartUp` has no bound.

### Fairness

* `Connection`: the pool runs what is queued (`WF` on the handlers:
  `io_context::run` in every thread), the clock goes on (`Expire`), and an operation on a
  socket that was shut down fails (`Fail`). Nothing is asked of the client: neither
  `Complete` nor `ShutdownReturns` is fair, for keep-alive (`connection.cpp:211`) finds
  a dead peer and not a live one that stays silent. What depends on the return says so:
  `TimeoutCloses` is conditional on it, and `SilentClientDropped` promises what is done
  before it.
* `Server`: weak fairness of each thread (the scheduler of the system), strong
  fairness of `Accepted` (an accept may fail, but not always), weak fairness of the
  return of `run` once its threads are joined. `ShutdownReturns` has none;
  `ServedUnlessBlocked` and `ExitsUnlessBlocked` have as a premise which threads come
  back, and silent_peers is what happens without it.
* `BackupClient`: weak fairness of the client's next step and of a restart. Faults
  are bounded and not fair.

`CHECK_DEADLOCK FALSE` where the modelled thing ends: a connection that is gone, a
server that has exited, start-up that is over, a search that is over, a client
whose files are all stored.

## Proofs

Every property of the passing runs that is not a liveness property is a theorem, for
every value of the constants that satisfies the ASSUMEs of the modules and the
hypotheses below; what TLC finds without them is said with each. Theorems that come out
of one invariant have its hypotheses: to `NeverRefused`, for instance, which comes out of
the one of `KnownIsStored`, TLC found no counterexample by itself.

| theorem | property | hypotheses |
|---|---|---|
| `TypeCorrect` | `TypeOK` of `RequestHandler` | |
| `OkMeansStored`, `RejectedLeavesNothing` | `FinalOkStored`, `NoMatchLeavesNothing` | `OneSessionEach` |
| `NothingVanishes` | `VanishOnlyAsReported` | `OneSessionEach`, `TempsApart` |
| `ViewsAreBacked`, `AppendsToUnfinished`, `StreamsHaveSessions` | `EntryBacked`, `UploadUnfinished`, `NoOrphanStream` | `OneSessionEach`, `TempsApart` |
| `CompleteFilesStay` | `CompleteFileKept` | `OneSessionEach`, `TempsApart` |
| `ServerSurvives` | `EveryRequestAnswered` | `OneSessionEach`, no fault of `FatalFaults`, flags start false |
| `KeepsThePromise` | `ImplementsStore` | `OneSessionEach`, `TempsApart`, `FlagsStartFalse` |
| `KnowsWhatIsStored`, `GoesUnrefused` | `KnownIsStored`, `NeverRefused` | `TempsApart`, `FlagsFalse`, `Reconnects` |
| `FilesKeepDirectory`, `TableHasSessions` | `FilesInDirectory`, `TableOfSessions` | |
| `IteratorsStay`, `WritersApart` | `ElementStays`, `OneWriter` | `OneConnectionEach`, `TempsApart` |
| `PromisesKept`, `HandlersGoOn` | `ToldKept`, `HandlersSurvive` | `OneConnectionEach`, `TempsApart` |
| `ViewsBacked`, `DirectoryWaits` | `IdleViewBacked`, `DirectoryThere` | `OneConnectionEach`, `TempsApart` |
| `ReadsAreGuarded` | `ReadGuarded` | `~TimerFails` |
| `NoStreamLeaks`, `SilentAfterTimeout` | `StreamNotLeaked`, `NothingAfterTimeout` | |
| `AlwaysOneAccept`, `ExitsOnSignal` | `OneAccept`, `RunsUntilStopped` | the second: a thread |
| `MessagesFit`, `NoneBare` | `WithinChunk`, `NoBareMessage` | |
| `SeenInOrder`, `ViewsStayInside`, `EndsFound` | `ShownInOrder`, `ViewInside`, `EndRecognised` | `LengthsFit` |
| `RegisteredGetIn`, `SignsComeApart` | `RegisteredNotRefused`, `PartsKept` | |
| `ServesAsAsked` | `ServesWhatWasAsked` | |

The hypotheses, in terms of the code:

* `OneSessionEach`, `OneConnectionEach`: a user has one connection at a time. The code
  does not see to it; a client that keeps to it gets these guarantees. `MCStaleView`,
  `MCIteratorRace`, `MCWriteRace`, `MCToldRace`, `MCRaceDies` and `MCDirectoryRace` are
  without it. For `OkMeansStored`, `RejectedLeavesNothing`, `NothingVanishes` and
  `ServerSurvives` the proof does not use it: it says where the model, whose requests are
  one step, speaks for the code.
* `TempsApart`: no file the clients name is the temporary of another (`request_handler.cpp`
  makes the name of a temporary from that of the file). `MCTempClash` is without it.
* `FlagsStartFalse`, `FlagsFalse`: the flags of a new `user`, which `user.h` does not
  initialise, happen to be false. `MCFreshFlags` is without it.
* `FatalFaults`: an open that fails, a file that cannot be read, removed or renamed, an
  ITEM that is not a sign. With any one of the five TLC finds a request that ends the process; the
  faults `mkdir`, `write` and `sync` are answered.
* `Reconnects`: after a FAILED the client hangs up and begins with a new SYNC.
* `LengthsFit`: a chunk is shorter than the 2^32 bytes a length field can say.

### RequestHandlerProofs

None of `EntryBacked`, `UploadUnfinished` and `NoOrphanStream` is inductive by itself. A
CREATE that appends
through the stream of the table keeps the views backed only if that stream is on
no complete file (`UploadUnfinished`); a first chunk, found by the absence of a
stream, meets a file with no entry or an unfinished one; the stream of a user
without a live session could be on anything at the next SYNC (`NoOrphanStream`);
and a session can only be told from another by the id it logged in with
(`IdOwned`). `IInv` is their conjunction with `TypeOK`. The proof has one lemma
for each kind of step: a request that ends the process, one that leaves all
alone, a session step, and for file requests one lemma for each way a handler
may end.

What a final answer says (`TrueReply`) is made true by the step that gives the answer,
whatever the state was. `NothingVanishes` and `CompleteFilesStay` are proved of the step, from
`TypeOK` and `IInv`: which files of a folder a handler may remove or write (those of its
item and its temporary, or what the stream is on). `ServerSurvives` needs that a session
that is authenticated knows its user (`AuthKnowsUser`), and for each handler that the
open of the file comes before what reads or removes it.

`KeepsThePromise` adds to `IInv` that a session that has not logged in is not synced
(`SyncedAfterAuth`). The store of a user is read off the view while there is a session
and off the disk otherwise; the lemmas show first that a step that changes folder and
view for one path changes the store for that path alone, and then, for each action and
each way it may end, which action of `BackupStore` it is or that it stutters. Where a
session begins or ends, the two readings of the store agree because of `EntryBacked` and
because what the view holds to be unfinished is lost to the user anyway.

### UploadRaceProofs

`FilesInDirectory` and `TableOfSessions`, with any number of connections of a user: each
step is one of a few kinds, and most create no file in an empty
folder, add no entry and end no session (`QuietIInv`); what is left is `GetStream`,
which opens a file only in a directory that is there and makes the entry for its own
session, `RemoveDirectory`, which asks again whether the directory is empty,
`Shutdown`, which takes the entry with it whoever else uses it, and the kill.

The others come from `UInv`. It says for each program point what the handler has in its
locals (`Locals`), that its stream is the one in the table (`Entry`) or a closed one
(`Closed`), that no stream is shared between users (`StreamsApart`), that a stream on a
file itself is on one its user knows to be unfinished (`Marked`), that the file being
written is there (`Placed`), what the view says (`Viewed`) and that what is being
replaced is not promised (`Withdrawn`). The conjuncts of a handler speak of the folder, the entry
and the stream of its own user only. So a proof of a step has two parts: the handler
that moves is shown to satisfy them at its next point, and all others keep theirs, as
their users are others and the step has changed nothing of theirs. This is where
`OneConnectionEach` is used, and it is exactly what fails when two handlers of a user
meet.

### BackupClientProofs

`KInv` relates what the client believes to the view of its session (`ViewKnown`) and to
the disk (`DiskKnown`), with the file that is being sent left out of both; of that file
it says that its entry does not refuse the next chunk (`Sending`) and that the stream of
the user is on it, on its temporary, or has failed (`OnStream`). The last is what the
client gains by reconnecting: with a stream left from another upload its chunks would go
there, and be answered OK. TLC checked `KInv` with all seven faults, `write` included,
which the run leaves out; so is the theorem for every set of faults.

### MessageQueueProofs

`WithinChunk` and `NoBareMessage`, for every chunk size and every set of segments that
satisfies `FitAssumption`: `IInv` says the queue is one bare message until something
is added and filled messages afterwards; without the first half the first
segment could start a second message and leave a bare one.

For what the receiver sees `QInv` adds how the queue holds what was added: there is a
division of the segments among the messages (`Divided`), each message is cut into
segments at offsets (`Cut`, `Piece`), and the view stands at the offset behind the last
segment seen (`ViewAt`). `AddTLV` extends the last message or starts another;
a step of the view moves one offset on, because the four bytes of the length give the
length back (`LengthRoundTrip`). No induction over the bytes is needed: the
offsets are part of the invariant.

### The others

`ConnectionProofs`: `ReadGuarded` needs that a socket is open until the timer has
fired (`OpenUntilTimedOut`), for a handler that goes on after a shutdown would start
a read on a socket that is closed; and a message is popped only if there is one
(`ReplyToWrite`). `NothingAfterTimeout` is a property of each step from there.

`ServerProofs`: the invariant says
where each client is for each handler in the queue (`HandlerInStep`), that no handler
is queued and no client waits twice (`Separate`, which makes "one handler" the same as
"one kind of handler"), that of the accept there is the operation or its handler
(`AcceptPosted`), and that whatever stops a thread was a signal (`StopBySignal`).
`Client` and the two words for a thread without one are told apart by
`ClientAssumption`.

`StartUpProofs`: the stages that have been passed say where each value comes from and
which paths were looked at (`SInv`); each stage comes once in `Order`.

`ToolsProofs`: for texts and signs of any length. The last NUL of a sign is the
separator (`LastNulIsLast`, from the well-foundedness of the positions above), since a
digest has none; and the loop that has passed a line has found the name in it or not.

### Only model-checked

* Liveness, which is beyond the prover: `SilentClientDropped`, `TimeoutCloses`,
  `ServedUnlessBlocked`, `ExitsUnlessBlocked`, `EventuallyBackedUp`.
* What the two violation runs and the counterexamples show.
* The type invariant of `MessageQueue` is part of `IInv` there; the part of
  `UploadRace` whose streams are bounded by `StreamId` is part of `UInv`.

## Not modelled

* The log: its text, and the races of threads on its stream. No state depends on it.
* TLS, certificates, the options of the acceptor; the hash functions and their text
  form. A digest is the content it stands for.
* The bytes of headers and buffers of a connection: a header with a length beyond the
  buffer is not one the client sends.
* Calls that fail between the steps of `UploadRace`, and the `write` fault in
  `BackupClient`; both are in `RequestHandler` alone.
* Handlers that throw are in `RequestHandler` and not in `Server`, and `Connection`
  has one connection with the pool behind it: the two are not composed.
* Operations without a caller: `dir::contains`, `dir::for_each`, `message::resize`,
  `operator==` of messages.

## Plan

Modelled and checked: all of the above; proved: every safety property of the passing
runs. What is left:

1. What holds of `UploadRace` with several connections of a user beyond
   `FilesInDirectory` and `TableOfSessions`: which of `UInv` survives, for instance that
   streams of different users stay apart.
2. `SyncedAfterAuth` and the store of `RequestHandlerStore` with flags of any value: what
   is left of the promise.
3. `Server` composed with several `Connection`s.
