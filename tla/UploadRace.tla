----------------------------- MODULE UploadRace -----------------------------
(***************************************************************************)
(* The file handlers of core/request_handler.cpp on the threads of the     *)
(* pool, one step per access to what connections share: the stream table,  *)
(* the streams in it and the folders.  Handlers of one connection follow   *)
(* each other (its strand); those of two connections interleave at every   *)
(* step, and the process may be killed between any two steps.              *)
(*                                                                         *)
(* An iterator of the stream table is used without the lock.  Where the    *)
(* standard leaves open what that does, a step has the outcomes that an    *)
(* unordered_map of nodes has, and the end of the process.                 *)
(*                                                                         *)
(* RequestHandler has the refusals, the faults and several files; here no  *)
(* call fails by itself.  All the files of a user are in one subdirectory. *)
(***************************************************************************)
EXTENDS Directory

CONSTANTS
    Conn,           \* connections, each with the thread that runs its handler
    User,
    Owner,          \* [Conn -> User]
    Path,
    Temp,           \* [Path -> Name]
    Asks,           \* [Conn -> set of types]: the requests a client sends
    StreamId,       \* bound: stream objects alive at a time
    Unlinked,       \* an ofstream whose file has lost its name
    FailedStream,   \* an ofstream whose open failed
    Dangling,       \* an iterator whose element has been erased
    None

ASSUME ConnAssumption == Owner \in [Conn -> User]
ASSUME AskAssumption  == Asks \in [Conn -> SUBSET {"CREATE", "UPDATE", "ERASE"}]
ASSUME NameAssumption == Path \subseteq Name /\ Temp \in [Path -> Name]
ASSUME MarkAssumption ==
    /\ None \notin StreamId /\ Dangling \notin StreamId \cup {None}
    /\ Unlinked \notin Name /\ FailedStream \notin Name

VARIABLES
    pc,         \* where the handler of a connection is; "away" without a session
    req,        \* the request it handles, with the locals of the handler
    view,       \* *user.dir_ptr_
    table,      \* open_streams::streams_: from users to stream objects
    stream,     \* the stream objects that are alive
    disk,       \* [User -> folder]
    subdir,     \* [User -> BOOLEAN]: is the parent directory of the files there?
    told        \* what a user has been told is stored, and has not withdrawn

vars == <<pc, req, view, table, stream, disk, subdir, told>>

Point == {"away", "idle", "mkdir", "get", "take", "write", "writing", "close", "forget",
          "remove", "rename", "hash", "drop", "unlink", "prune", "rmdir", "return"}

\* The locals: result.first, invalid but on its element when stale, ofs_ptr and is_first.
Request == [type : {"CREATE", "UPDATE", "ERASE", "NONE"}, item : Path \cup {None},
            data : Data, digest : Digest, last : BOOLEAN, first : BOOLEAN,
            iter : StreamId \cup {None, Dangling}, stale : BOOLEAN, ptr : StreamId \cup {None}]
Stream  == [name : Name \cup {FailedStream, Unlinked}, buffer : Content, open : BOOLEAN]

NoRequest == [type |-> "NONE", item |-> None, data |-> <<>>, digest |-> <<>>, last |-> FALSE,
              first |-> FALSE, iter |-> None, stale |-> FALSE, ptr |-> None]

TypeOK ==
    /\ pc \in [Conn -> Point]
    /\ req \in [Conn -> Request]
    /\ \A c \in Conn : IsView(view[c])
    /\ IsMap(table, User, StreamId)
    /\ IsMap(stream, StreamId, Stream)
    /\ \A u \in User : IsFolder(disk[u]) /\ IsMap(told[u], Path, Content)
    /\ subdir \in [User -> BOOLEAN]

Init ==
    /\ pc = [c \in Conn |-> "away"]
    /\ req = [c \in Conn |-> NoRequest]
    /\ view = [c \in Conn |-> Empty]
    /\ table = Empty
    /\ stream = Empty
    /\ disk = [u \in User |-> Empty]
    /\ subdir = [u \in User |-> FALSE]
    /\ told = [u \in User |-> Empty]

-----------------------------------------------------------------------------
At(c, point) == pc[c] = point
Go(c, point) == pc' = [pc EXCEPT ![c] = point]

\* The bound of the model, as FilesFit of RequestHandler.
Fits(files) == \A f \in DOMAIN files : Len(files[f]) <= MaxLen

\* What the names of a folder come to mean for the streams open on it.
Renamed(s, from, to) == IF s.name = from THEN [s EXCEPT !.name = to] ELSE s
StreamsOf(u) == {i \in DOMAIN stream : u \in DOMAIN table /\ table[u] = i}
                  \cup {req[c].ptr : c \in {e \in Conn : Owner[e] = u}}
RenameStreams(u, from, to) ==
    stream' = [i \in DOMAIN stream |->
                 IF i \in StreamsOf(u) THEN Renamed(stream[i], from, to) ELSE stream[i]]

Flush(files, s) == IF s.open THEN WriteTo(files, s.name, s.buffer) ELSE files

\* The last shared_ptr to a stream object goes: the destructor closes the file.
Release(u, i, tab, reqs) ==
    IF i = None \/ i \in Range(tab) \/ \E c \in Conn : reqs[c].ptr = i
    THEN UNCHANGED <<stream, disk>>
    ELSE /\ stream' = Drop(stream, i)
         /\ disk' = [disk EXCEPT ![u] = Flush(@, stream[i])]

\* The handler returns: ofs_ptr is destroyed.
Leave(c) ==
    /\ Go(c, "idle")
    /\ req' = [req EXCEPT ![c] = NoRequest]
    /\ Release(Owner[c], req[c].ptr, table, req')

\* The process ends; the kernel closes its files and their buffers are lost.
Kill ==
    /\ pc' = [c \in Conn |-> "away"]
    /\ req' = [c \in Conn |-> NoRequest]
    /\ view' = [c \in Conn |-> Empty]
    /\ table' = Empty
    /\ stream' = Empty
    /\ UNCHANGED <<disk, subdir, told>>

\* Mutants: the table is cleared, or not touched.
ForgetAll(u) == Empty
KeepEntry(u) == table

\* erase_stream leaves no entry of the user, ...
Forget(u) == Drop(table, u)

\* ... and iterators to it are invalid.
ForgetStream(c, after) ==
    LET u == Owner[c]
        tab == Forget(u)
        reqs == [e \in Conn |->
                   IF req[e].iter \in StreamId /\ req[e].iter \notin Range(tab)
                   THEN [req[e] EXCEPT !.iter = Dangling] ELSE req[e]]
    IN /\ table' = tab
       /\ req' = reqs
       /\ Release(u, IF u \in DOMAIN table THEN table[u] ELSE None, tab, reqs)
       /\ Go(c, after)

-----------------------------------------------------------------------------
(***************************************************************************)
(* Sessions, and the checks a handler makes in the view of its own.        *)
(***************************************************************************)
\* AUTH and SYNC
Begin(c) ==
    /\ At(c, "away")
    /\ Go(c, "idle")
    /\ view' = [view EXCEPT ![c] = Listing(disk[Owner[c]])]
    /\ UNCHANGED <<req, table, stream, disk, subdir, told>>

\* connection::shutdown, on the strand of the connection
Shutdown(c) ==
    /\ At(c, "idle")
    /\ ForgetStream(c, "away")
    /\ view' = [view EXCEPT ![c] = Empty]
    /\ UNCHANGED <<subdir, told>>

Accepts(c, type, p, d) ==
    LET known == p \in DOMAIN view[c] IN
    CASE type = "CREATE" -> ~(known /\ view[c][p].synced)
      [] type = "UPDATE" -> known /\ view[c][p].digest # d
      [] type = "ERASE"  -> known /\ view[c][p].digest = d

\* A request that is not refused.  Who sends a CREATE no longer counts on the file.
Ask(c) ==
    /\ At(c, "idle")
    /\ \E type \in Asks[c], p \in Path, d \in Digest, data \in Data, last \in BOOLEAN :
         /\ Accepts(c, type, p, d)
         /\ type = "ERASE" => data = <<>> /\ ~last
         /\ req' = [req EXCEPT ![c] = [NoRequest EXCEPT !.type = type, !.item = p,
                                         !.data = data, !.digest = d, !.last = last]]
         /\ told' = IF type = "CREATE" THEN [told EXCEPT ![Owner[c]] = Drop(@, p)] ELSE told
         /\ Go(c, CASE type = "CREATE" -> "mkdir" [] type = "UPDATE" -> "get"
                    [] type = "ERASE" -> "unlink")
    /\ UNCHANGED <<view, table, stream, disk, subdir>>

-----------------------------------------------------------------------------
(***************************************************************************)
(* CREATE and UPDATE.                                                      *)
(***************************************************************************)
CreateDirectories(c) ==
    /\ At(c, "mkdir")
    /\ subdir' = [subdir EXCEPT ![Owner[c]] = TRUE]
    /\ Go(c, "get")
    /\ UNCHANGED <<req, view, table, stream, disk, told>>

\* A mutant: an update is written in place.
InPlace(r) == r.item

Target(r) == IF r.type = "CREATE" THEN r.item ELSE Temp[r.item]

\* A mutant: any stream will do.
AnyStream(u) == IF DOMAIN table = {} THEN {} ELSE {table[v] : v \in DOMAIN table}

StreamFor(u) == {table[v] : v \in DOMAIN table \cap {u}}

\* An emplace that makes the table rehash invalidates the iterators that were handed
\* out, of whatever user; the elements they point to stay where they are.
Rehash == [e \in Conn |-> IF req[e].iter \in StreamId THEN [req[e] EXCEPT !.stale = TRUE]
                          ELSE req[e]]

\* get_stream holds its lock while the file is opened and the pair emplaced.
GetStream(c) ==
    LET u == Owner[c]
        f == Target(req[c])
    IN
    /\ At(c, "get")
    /\ disk' = IF subdir[u] THEN [disk EXCEPT ![u] = Touch(@, f)] ELSE disk
    /\ \/ \E i \in StreamFor(u) :
            /\ req' = [req EXCEPT ![c].iter = i]
            /\ UNCHANGED <<table, stream>>
       \/ /\ StreamFor(u) = {}
          /\ DOMAIN stream # StreamId         \* the bound
          /\ LET i == CHOOSE j \in StreamId : j \notin DOMAIN stream IN
             /\ \E reqs \in {req, Rehash} :
                  req' = [reqs EXCEPT ![c].iter = i, ![c].first = TRUE]
             /\ table' = Put(table, u, i)
             /\ stream' = Put(stream, i, [name |-> IF subdir[u] THEN f ELSE FailedStream,
                                          buffer |-> <<>>, open |-> TRUE])
    /\ Go(c, "take")
    /\ UNCHANGED <<view, subdir, told>>

Healthy(i) == i # Dangling /\ stream[i].name # FailedStream

\* ofs_ptr = result.first->second, and the check of the stream.  Through an iterator
\* that is invalid the process may die; or it finds what is still there after a rehash,
\* and after an erase something that is no open stream.
Take(c) ==
    LET i == req[c].iter IN
    /\ At(c, "take")
    /\ \/ /\ Healthy(i)
          /\ req' = [req EXCEPT ![c].ptr = i, ![c].iter = None, ![c].stale = FALSE]
          /\ Go(c, "write")
          /\ UNCHANGED <<view, table, stream, disk, subdir, told>>
       \/ /\ ~Healthy(i)
          /\ Leave(c)
          /\ UNCHANGED <<view, table, subdir, told>>
       \/ (i = Dangling \/ req[c].stale) /\ Kill

BeginWrite(c) ==
    /\ At(c, "write")
    /\ Go(c, "writing")
    /\ UNCHANGED <<req, view, table, stream, disk, subdir, told>>

\* The data is in the buffer; a create flushes it, an update's may be flushed or not.
\* What is written after the stream was closed is lost.
Written(s, data) == IF s.open THEN [s EXCEPT !.buffer = @ \o data] ELSE s

EndWrite(c) ==
    LET r == req[c]
        u == Owner[c]
        s == Written(stream[r.ptr], r.data)
    IN
    /\ At(c, "writing")
    /\ \/ /\ stream' = [stream EXCEPT ![r.ptr] = [s EXCEPT !.buffer = <<>>]]
          /\ disk' = [disk EXCEPT ![u] = Flush(@, s)]
       \/ /\ r.type = "UPDATE"
          /\ stream' = [stream EXCEPT ![r.ptr] = s]
          /\ UNCHANGED disk
    /\ Fits(Flush(disk[u], s)) /\ Len(s.buffer) <= MaxLen
    /\ view' = [view EXCEPT ![c] = Progress(@, r.item, r.first, r.last, r.digest,
                    IF r.type = "CREATE" THEN TEMP ELSE @[r.item].digest)]
    /\ Go(c, IF r.last THEN "close" ELSE "return")
    /\ UNCHANGED <<req, table, subdir, told>>

Return(c) ==
    /\ At(c, "return")
    /\ Leave(c)
    /\ UNCHANGED <<view, table, subdir, told>>

\* After the last chunk: ofs_ptr->close(), ...
Close(c) ==
    LET i == req[c].ptr IN
    /\ At(c, "close")
    /\ disk' = [disk EXCEPT ![Owner[c]] = Flush(@, stream[i])]
    /\ stream' = [stream EXCEPT ![i].open = FALSE, ![i].buffer = <<>>]
    /\ Go(c, "forget")
    /\ UNCHANGED <<req, view, table, subdir, told>>

\* ... erase_stream, ...
EraseStream(c) ==
    /\ At(c, "forget")
    /\ ForgetStream(c, IF req[c].type = "CREATE" THEN "hash" ELSE "remove")
    /\ UNCHANGED <<view, subdir, told>>

\* ... and for an update remove and rename.
Remove(c) ==
    LET u == Owner[c]
        p == req[c].item
    IN
    /\ At(c, "remove")
    /\ disk' = [disk EXCEPT ![u] = Drop(@, p)]
    /\ RenameStreams(u, p, Unlinked)
    /\ told' = [told EXCEPT ![u] = Drop(@, p)]
    /\ Go(c, "rename")
    /\ UNCHANGED <<req, view, table, subdir>>

\* A rename that fails ends the process (std::exit).
Rename(c) ==
    LET u == Owner[c]
        p == req[c].item
    IN
    /\ At(c, "rename")
    /\ IF Temp[p] \in DOMAIN disk[u]
       THEN /\ disk' = [disk EXCEPT ![u] = Put(Drop(@, Temp[p]), p, @[Temp[p]])]
            /\ RenameStreams(u, Temp[p], p)
            /\ Go(c, "hash")
            /\ UNCHANGED <<req, view, table, subdir, told>>
       ELSE Kill

\* A mutant: the digests are not compared.
SameAsAnything(files, r) == TRUE

SameDigest(files, r) == files[r.item] = r.digest

\* MD5_hash of a file that is not there throws, and nobody catches it.
Hash(c) ==
    LET u == Owner[c]
        r == req[c]
    IN
    /\ At(c, "hash")
    /\ IF r.item \notin DOMAIN disk[u] THEN Kill
       ELSE /\ IF SameDigest(disk[u], r)
               THEN told' = [told EXCEPT ![u] = Put(@, r.item, r.digest)] /\ Go(c, "return")
               ELSE UNCHANGED told /\ Go(c, "drop")
            /\ UNCHANGED <<req, view, table, stream, disk, subdir>>

\* The file is not what was announced.
DropFile(c) ==
    LET u == Owner[c]
        p == req[c].item
    IN
    /\ At(c, "drop")
    /\ disk' = [disk EXCEPT ![u] = Drop(@, p)]
    /\ RenameStreams(u, p, Unlinked)
    /\ view' = [view EXCEPT ![c] = Drop(@, p)]
    /\ Go(c, "return")
    /\ UNCHANGED <<req, table, subdir, told>>

-----------------------------------------------------------------------------
(***************************************************************************)
(* ERASE: the file, then the directories it leaves empty.                  *)
(***************************************************************************)
Unlink(c) ==
    LET u == Owner[c]
        p == req[c].item
    IN
    /\ At(c, "unlink")
    /\ disk' = [disk EXCEPT ![u] = Drop(@, p)]
    /\ RenameStreams(u, p, Unlinked)
    /\ view' = [view EXCEPT ![c] = Drop(@, p)]
    /\ told' = [told EXCEPT ![u] = Drop(@, p)]
    /\ Go(c, "prune")
    /\ UNCHANGED <<req, table, subdir>>

IsEmpty(c) ==
    /\ At(c, "prune")
    /\ Go(c, IF subdir[Owner[c]] /\ disk[Owner[c]] = Empty THEN "rmdir" ELSE "return")
    /\ UNCHANGED <<req, view, table, stream, disk, subdir, told>>

\* A mutant: remove_all, which removes what is in the directory too.
RemoveTree(u) == TRUE

\* remove leaves a directory alone that is not empty any more.
Removable(u) == disk[u] = Empty

RemoveDirectory(c) ==
    LET u == Owner[c] IN
    /\ At(c, "rmdir")
    /\ subdir' = [subdir EXCEPT ![u] = @ /\ ~Removable(u)]
    /\ Go(c, "return")
    /\ UNCHANGED <<req, view, table, stream, disk, told>>

-----------------------------------------------------------------------------
Step(c) ==
    \/ Begin(c) \/ Shutdown(c) \/ Ask(c)
    \/ CreateDirectories(c) \/ GetStream(c) \/ Take(c) \/ BeginWrite(c) \/ EndWrite(c)
    \/ Close(c) \/ EraseStream(c) \/ Remove(c) \/ Rename(c) \/ Hash(c) \/ DropFile(c)
    \/ Unlink(c) \/ IsEmpty(c) \/ RemoveDirectory(c) \/ Return(c)

Next == (\E c \in Conn : Step(c)) \/ Kill

Spec == Init /\ [][Next]_vars

-----------------------------------------------------------------------------
(***************************************************************************)
(* Properties.                                                             *)
(***************************************************************************)
\* What a user was told is stored is on disk with that content until the user
\* withdraws it or the remove of an update's last chunk: neither chunks of an update
\* in progress, nor another user's handlers, nor a kill at any point change it.
ToldKept ==
    \A u \in User : \A p \in DOMAIN told[u] : p \in DOMAIN disk[u] /\ disk[u][p] = told[u][p]

\* What a handler has prepared is there when it comes back to it: the temporary at the
\* rename, whose failure exits, and the file at the hash, which throws without it.  No
\* other handler or shutdown has taken it away, and no chunk went elsewhere.
HandlersSurvive ==
    \A c \in Conn :
        LET p == req[c].item
            files == disk[Owner[c]]
        IN /\ At(c, "rename") => Temp[p] \in DOMAIN files
           /\ At(c, "hash") => p \in DOMAIN files

\* Between its requests the view of a session is right about the files, whatever the
\* handlers of other users are doing.
IdleViewBacked ==
    \A c \in Conn : At(c, "idle") =>
      \A p \in Path \cap DOMAIN view[c] :
         /\ p \in DOMAIN disk[Owner[c]]
         /\ view[c][p].digest # TEMP => disk[Owner[c]][p] = view[c][p].digest

\* The element that get_stream has returned an iterator to is not erased before the
\* handler has made its own pointer from it, though the lock of open_streams has been
\* given back and sessions of other users end meanwhile.
ElementStays == \A c \in Conn : req[c].iter # Dangling

\* The iterator itself is valid until it is used: it is "an interator to the opened
\* stream".
IteratorValid == ElementStays /\ \A c \in Conn : ~req[c].stale

\* No two threads write to one stream at the same time: the class "allows handle open
\* streams in a cuncurrent way", but its lock does not cover the use of a stream.
OneWriter ==
    \A c, e \in Conn : c # e /\ At(c, "writing") /\ At(e, "writing") => req[c].ptr # req[e].ptr

\* A handle_create that is past "creating necessary directories for containing the
\* file that has to be created" finds them when it opens the file.
DirectoryThere == \A c \in Conn : At(c, "get") /\ req[c].type = "CREATE" => subdir[Owner[c]]

\* However the handlers of a user interleave, the removal of empty directories takes
\* no file away: what is_empty said may be old, but remove asks again.
FilesInDirectory == \A u \in User : DOMAIN disk[u] # {} => subdir[u]

\* A stream is not left in the table without a session of its user, though a session
\* that ends may erase the stream of another one in between.
TableOfSessions ==
    \A u \in DOMAIN table : \E c \in Conn : Owner[c] = u /\ ~At(c, "away")

-----------------------------------------------------------------------------
(***************************************************************************)
(* The inductive invariant behind the last two, for any bound of streams.  *)
(***************************************************************************)
Shape ==
    /\ pc \in [Conn -> Point]
    /\ DOMAIN disk = User
    /\ subdir \in [User -> BOOLEAN]

IInv == Shape /\ FilesInDirectory /\ TableOfSessions

-----------------------------------------------------------------------------
(***************************************************************************)
(* The inductive invariant behind the others, which need that a user has   *)
(* one connection at a time and that no temporary has the name of a file.  *)
(***************************************************************************)
OneConnectionEach == \A c, e \in Conn : Owner[c] = Owner[e] => c = e
TempsApart == \A p \in Path : Temp[p] \notin Path

Typed ==
    /\ req \in [Conn -> Request]
    /\ DOMAIN view = Conn /\ DOMAIN told = User
    /\ IsMap(table, User, StreamId) /\ IsMap(stream, StreamId, Stream)

\* A live stream belongs to one user, in the table and in the handlers.
StreamsApart ==
    /\ \A u \in DOMAIN table : table[u] \in DOMAIN stream
    /\ \A c \in Conn : req[c].ptr \in DOMAIN stream \cup {None}
    /\ \A u, v \in DOMAIN table : table[u] = table[v] => u = v
    /\ \A c \in Conn, u \in DOMAIN table : req[c].ptr = table[u] => Owner[c] = u
    /\ \A c, e \in Conn : req[c].ptr = req[e].ptr /\ req[c].ptr # None => Owner[c] = Owner[e]

\* What the handler of c has in its locals ...
Locals(c) ==
    LET r == req[c] IN
    /\ pc[c] \in {"away", "idle"} => r = NoRequest
    /\ pc[c] \notin {"away", "idle"} => r.item \in Path
    /\ pc[c] = "mkdir" => r.type = "CREATE"
    /\ pc[c] \in {"get", "take", "write", "writing", "close", "forget"}
         => r.type \in {"CREATE", "UPDATE"}
    /\ pc[c] \in {"remove", "rename"} => r.type = "UPDATE"
    /\ pc[c] # "take" => r.iter = None
    /\ pc[c] \in {"away", "idle", "mkdir", "get", "take", "unlink", "prune", "rmdir"}
         => r.ptr = None

\* ... and in the table: while it writes, its stream is the one of its user.
Entry(c) ==
    LET r == req[c]
        known == Owner[c] \in DOMAIN table
    IN
    /\ pc[c] = "take" => known /\ r.iter = table[Owner[c]]
    /\ pc[c] \in {"write", "writing", "close", "forget"} => known /\ r.ptr = table[Owner[c]]
    /\ pc[c] \in {"away", "remove", "rename", "hash", "drop"} => ~known

\* Only a closed stream is in a handler and no longer in the table.
Closed(c) ==
    LET r == req[c] IN
    /\ r.ptr # None => \/ ~stream[r.ptr].open
                       \/ Owner[c] \in DOMAIN table /\ table[Owner[c]] = r.ptr
    /\ pc[c] \in {"forget", "remove", "rename"} =>
         r.ptr # None /\ ~stream[r.ptr].open /\ stream[r.ptr].buffer = <<>>

\* A stream on a file itself, not on a temporary: its user knows that it is unfinished.
Marked(c) ==
    LET r == req[c]
        u == Owner[c]
        n == stream[table[u]].name
    IN
    u \in DOMAIN table /\ n \in Path =>
      /\ n \notin DOMAIN told[u]
      /\ n \in DOMAIN view[c] =>
           \/ view[c][n].digest = TEMP
           \/ n = r.item /\ pc[c] \in {"close", "forget"}
           \/ n = r.item /\ pc[c] \in {"take", "write", "writing"} /\ r.first /\ r.type = "CREATE"

\* The file a handler works on is there, and before it the directory.
Placed(c) ==
    /\ pc[c] = "get" => subdir[Owner[c]]
    /\ pc[c] \in {"take", "write", "writing", "close", "forget", "remove", "rename"}
         => Target(req[c]) \in DOMAIN disk[Owner[c]]
    /\ pc[c] = "hash" => req[c].item \in DOMAIN disk[Owner[c]]

Backed(c, q) ==
    /\ q \in DOMAIN disk[Owner[c]]
    /\ view[c][q].digest # TEMP => disk[Owner[c]][q] = view[c][q].digest

\* The view is right but for the file whose last chunk is being handled.
Viewed(c) ==
    LET r == req[c] IN
    /\ \A q \in Path \cap DOMAIN view[c] :
         \/ Backed(c, q)
         \/ q = r.item /\ pc[c] \in {"close", "forget", "remove", "rename", "hash", "drop"}
    /\ pc[c] \in {"close", "forget", "remove", "rename", "hash"} => view[c][r.item].digest = r.digest
    /\ pc[c] \in {"get", "take", "write", "writing"} /\ r.type = "UPDATE"
         => r.item \in DOMAIN view[c]

\* What is being replaced is not promised.
Withdrawn(c) ==
    LET r == req[c] IN
    (r.type = "CREATE" /\ pc[c] # "return") \/ pc[c] \in {"rename", "hash", "drop"}
      => r.item \notin DOMAIN told[Owner[c]]

Handler(c) == Locals(c) /\ Entry(c) /\ Closed(c) /\ Marked(c) /\ Placed(c) /\ Viewed(c)
                /\ Withdrawn(c)

ToldPaths == \A u \in User : DOMAIN told[u] \subseteq Path

UInv == /\ IInv /\ Typed /\ StreamsApart /\ ToldPaths /\ ToldKept
        /\ \A c \in Conn : Handler(c)
=============================================================================
