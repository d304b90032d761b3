--------------------------- MODULE RequestHandler ---------------------------
(***************************************************************************)
(* core/request_handler.cpp with core/open_streams.cpp, core/user.h and    *)
(* directory/: what the server does to its sessions and to the backup      *)
(* folders, one step per request.                                          *)
(*                                                                         *)
(* A connection slot c belongs to one client, whose account is Owner[c].   *)
(* Two slots with one owner are two connections of one user (two devices,  *)
(* or a dead connection the timer has not closed yet and the new one).     *)
(*                                                                         *)
(* A handler is one step.  Handlers of connections of different users      *)
(* share no file, view or stream; but the pool interleaves the handlers of *)
(* two connections of one user, and what becomes of that is the subject of *)
(* UploadRace.  A behaviour of this module in which a user has two         *)
(* connections is one of the code, where no two handlers of the user       *)
(* overlapped, but the code has others: what is claimed for all of its     *)
(* behaviours is claimed for one connection per user (OneSessionEach).     *)
(***************************************************************************)
EXTENDS Directory

CONSTANTS
    Conn,           \* connection slots
    User,           \* user ids, the MD5 of the user names
    Owner,          \* [Conn -> User]: the account the client of a slot logs in with
    Path,           \* relative paths the clients name in their requests
    Temp,           \* [Path -> Name]: temp_path of handle_update, the path plus ".temp"
    FreshFlag,      \* the values an uninitialised bool of class user can have
    Faults,         \* what may go wrong: the file system calls that may fail, and
                    \* "sign", an ITEM that split_sign does not accept
    FailedStream,   \* an ofstream whose open or write failed
    Unlinked,       \* an ofstream whose file has been removed
    None            \* no user, no item, no connection

ASSUME OwnerAssumption == Owner \in [Conn -> User]
ASSUME NameAssumption  == Path \subseteq Name /\ Temp \in [Path -> Name]
ASSUME FlagAssumption  == FreshFlag \subseteq BOOLEAN
ASSUME FaultAssumption == Faults \subseteq {"sync", "mkdir", "open", "write", "read", "remove",
                                                "rename", "sign"}
ASSUME TokenAssumption == /\ None \notin Conn \cup User \cup Path
                          /\ {FailedStream, Unlinked} \cap Name = {}
                          /\ FailedStream # Unlinked

VARIABLES
    running,    \* is the server process up?
    conn,       \* [Conn -> Session]: class user, and whether the connection is open
    dir,        \* [Conn -> View]: what user.dir() holds
    streams,    \* open_streams::streams_, one stream per user id
    disk,       \* [User -> Folder]: the folders under the backup root
    reply       \* the reply of the last request, NoReply after any other step

vars == <<running, conn, dir, streams, disk, reply>>

MsgType == {"NONE", "CREATE", "UPDATE", "ERASE", "SYNC", "AUTH", "KEEP_ALIVE"}
\* The OK tag and the error codes by what they say of the request: NO_EFFECT, nothing
\* was done (KEEP_ALIVE's OK, and the refusals: ..._NO_ITEM, ..._NO_CONTENT,
\* ..._ALREADY_EXIST, ERASE_NO_MATCH and so on); OK, what was asked for was done;
\* FAILED, the file system did not comply (..._FAILED, and the bare ERROR of ERASE);
\* NO_MATCH, the file is not what was announced.  NONE is no reply and LOST a
\* request that took the process down.
Result  == {"NONE", "OK", "NO_EFFECT", "FAILED", "NO_MATCH", "LOST"}

Session == [open : BOOLEAN, auth : BOOLEAN, synced : BOOLEAN, id : User \cup {None}]
Stream  == Name \cup {FailedStream, Unlinked}
Reply   == [to : Conn \cup {None}, type : MsgType, item : Path \cup {None},
            final : BOOLEAN, res : Result]

Closed  == [open |-> FALSE, auth |-> FALSE, synced |-> FALSE, id |-> None]
NoReply == [to |-> None, type |-> "NONE", item |-> None, final |-> FALSE, res |-> "NONE"]

TypeOK ==
    /\ running \in BOOLEAN
    /\ conn \in [Conn -> Session]
    /\ DOMAIN dir = Conn /\ \A c \in Conn : IsView(dir[c])
    /\ IsMap(streams, User, Stream)
    /\ DOMAIN disk = User /\ \A u \in User : IsFolder(disk[u])
    /\ reply \in Reply

Init ==
    /\ running = TRUE
    /\ conn = [c \in Conn |-> Closed]
    /\ dir = [c \in Conn |-> Empty]
    /\ streams = Empty
    /\ disk = [u \in User |-> Empty]
    /\ reply = NoReply

-----------------------------------------------------------------------------
(***************************************************************************)
(* The stream table, and the ends a handler can come to.                   *)
(***************************************************************************)
Outcome(op) == IF op \in Faults THEN BOOLEAN ELSE {TRUE}

\* get_stream: the stream of the user id if there is one, whatever its file ...
GetStream(u, f, opened) ==
    IF u \in DOMAIN streams THEN streams[u] ELSE IF opened THEN f ELSE FailedStream

\* A mutant: the file is opened only when there is no stream.
OpenFileIfNoStream(u, f, opened) ==
    IF opened /\ u \notin DOMAIN streams THEN Touch(disk[u], f) ELSE disk[u]

\* ... but the argument of emplace, an ofstream on f, is made in either case.
OpenFile(u, f, opened) == IF opened THEN Touch(disk[u], f) ELSE disk[u]

\* Mutants: the table keeps the stream, or the key with a null stream.
KeepStream(u)  == streams
ResetStream(u) == [v \in DOMAIN streams |-> IF v = u THEN None ELSE streams[v]]

EraseStream(u) == Drop(streams, u)

Answer(c, type, p, final, res) ==
    reply' = [to |-> c, type |-> type, item |-> p, final |-> final, res |-> res]

Commit(c, files, view, slots) ==
    /\ disk' = [disk EXCEPT ![conn[c].id] = files]
    /\ dir' = [dir EXCEPT ![c] = view]
    /\ streams' = slots
    /\ UNCHANGED <<running, conn>>

\* The reply that follows no change is alike for every type and item.
NoEffect(c) ==
    /\ reply' = [NoReply EXCEPT !.to = c, !.res = "NO_EFFECT"]
    /\ UNCHANGED <<running, conn, dir, streams, disk>>

Fail(c, type, p) ==
    /\ Answer(c, type, p, FALSE, "FAILED")
    /\ UNCHANGED <<running, conn, dir, streams, disk>>

\* The process ends and its memory is gone; the folders stay.
Halt ==
    /\ running' = FALSE
    /\ conn' = [c \in Conn |-> Closed]
    /\ dir' = [c \in Conn |-> Empty]
    /\ streams' = Empty

\* std::exit, an exception nobody catches, or a null user::dir_ptr_
Abort(c, type, p, folders) ==
    /\ Halt
    /\ disk' = folders
    /\ Answer(c, type, p, FALSE, "LOST")

-----------------------------------------------------------------------------
(***************************************************************************)
(* Connections, and requests before the session is synced.                 *)
(***************************************************************************)
\* class user initialises neither of its flags.
Accept(c) ==
    /\ running /\ ~conn[c].open
    /\ \E a, s \in FreshFlag :
          conn' = [conn EXCEPT ![c] = [open |-> TRUE, auth |-> a, synced |-> s, id |-> None]]
    /\ reply' = NoReply
    /\ UNCHANGED <<running, dir, streams, disk>>

\* The timer, an error of the socket or the client ends the connection.
Shutdown(c) ==
    /\ running /\ conn[c].open
    /\ conn' = [conn EXCEPT ![c] = Closed]
    /\ dir' = [dir EXCEPT ![c] = Empty]
    /\ streams' = EraseStream(conn[c].id)
    /\ reply' = NoReply
    /\ UNCHANGED <<running, disk>>

Serving(c, auth, synced) ==
    /\ running /\ conn[c].open
    /\ conn[c].auth = auth /\ (auth => conn[c].synced = synced)

\* No TLV in the message, or a type that is not for this state of the session.
HandleOther(c, type) ==
    /\ running /\ conn[c].open
    /\ \/ NoEffect(c)                      \* ERR_NO_CONTENT
       \/ /\ ~ \/ Serving(c, FALSE, TRUE) /\ type = "AUTH"
               \/ Serving(c, TRUE, FALSE) /\ type = "SYNC"
               \/ Serving(c, TRUE, TRUE) /\ type \in {"CREATE", "UPDATE", "ERASE", "KEEP_ALIVE"}
          /\ NoEffect(c)                  \* ERR_MSG_TYPE_REJECTED

HandleAuth(c) ==
    /\ Serving(c, FALSE, TRUE)
    /\ \/ NoEffect(c)                      \* ERR_AUTH_NO_USRN, _NO_PSWD, _FAILED
       \/ /\ conn' = [conn EXCEPT ![c].auth = TRUE, ![c].id = Owner[c]]
          /\ dir' = [dir EXCEPT ![c] = Empty]
          /\ Answer(c, "AUTH", None, FALSE, "OK")
          /\ UNCHANGED <<running, streams, disk>>

\* The folder is listed in an empty view.  A folder that is missing or breaks off
\* the listing is the fault "sync"; a file that cannot be read makes MD5_hash throw.
HandleSync(c) ==
    /\ Serving(c, TRUE, FALSE)
    /\ IF conn[c].id = None THEN Abort(c, "SYNC", None, disk)
       ELSE \/ \E listed \in Outcome("sync") :
                 /\ conn' = [conn EXCEPT ![c].synced = listed]
                 /\ dir' = [dir EXCEPT ![c] = IF listed THEN Listing(disk[conn[c].id]) ELSE Empty]
                 /\ Answer(c, "SYNC", None, FALSE, IF listed THEN "OK" ELSE "FAILED")
                 /\ UNCHANGED <<running, streams, disk>>
            \/ /\ "read" \in Faults /\ DOMAIN disk[conn[c].id] # {}
               /\ Abort(c, "SYNC", None, disk)

KeepAlive(c) ==
    /\ Serving(c, TRUE, TRUE)
    /\ NoEffect(c)

\* A CREATE, UPDATE or ERASE whose segments are not the ones the handler wants.
HandleMalformed(c, type) ==
    /\ Serving(c, TRUE, TRUE)
    /\ \/ NoEffect(c)                      \* ERR_..._NO_ITEM, ERR_..._NO_CONTENT
       \/ "sign" \in Faults /\ Abort(c, type, None, disk)

-----------------------------------------------------------------------------
(***************************************************************************)
(* Requests about a file: a chunk of data for p, whose digest the client   *)
(* announces as d, and last (verify_end) when no more chunks follow.       *)
(***************************************************************************)
\* user.dir() is dereferenced: a session whose flags were TRUE by accident has none.
WithDir(c, type, p, Handler) ==
    IF conn[c].id = None THEN Abort(c, type, p, disk) ELSE Handler

\* A mutant: handle_create does not ask whether the file is there.
NeverSynced(c, p) == FALSE

IsSynced(c, p)     == p \in DOMAIN dir[c] /\ dir[c][p].synced
HasDigest(c, p, d) == p \in DOMAIN dir[c] /\ dir[c][p].digest = d

\* A mutant: the digests are not compared.
MatchesAnything(files, p, d) == TRUE

Matches(files, p, d) == files[p] = d

\* The stream has been closed and erased.  The file is hashed (MD5_hash throws
\* length_error when it cannot be read) and removed if it is not what was announced.
Verify(c, type, p, d, files, view) ==
    LET u == conn[c].id IN
    \/ /\ p \in DOMAIN files => \/ "read" \in Faults
                                \/ "remove" \in Faults /\ ~Matches(files, p, d)
       /\ Abort(c, type, p, [disk EXCEPT ![u] = files])
    \/ /\ p \in DOMAIN files
       /\ IF Matches(files, p, d)
          THEN Commit(c, files, view, EraseStream(u)) /\ Answer(c, type, p, TRUE, "OK")
          ELSE /\ Commit(c, Drop(files, p), Drop(view, p), EraseStream(u))
               /\ Answer(c, type, p, TRUE, "NO_MATCH")

\* A mutant: the temporary is copied, not renamed.
ReplaceByCopy(files, p) == Put(Drop(files, p), p, files[Temp[p]])

\* What remove and rename make of the folder: the temporary takes the place of p.
Replace(files, p) == Put(Drop(Drop(files, p), Temp[p]), p, files[Temp[p]])

\* The view after a chunk; it is the first of an upload if get_stream made the stream.
ViewAfter(c, p, last, d, placeholder) ==
    Progress(dir[c], p, conn[c].id \notin DOMAIN streams, last, d, placeholder)

\* flush marks a create's stream as failed when data could not be written.
StreamAfterWrite(s, written) == IF written THEN s ELSE FailedStream

HandleCreate(c, p, d, data, last) ==
    LET u == conn[c].id
        view == ViewAfter(c, p, last, d, TEMP)
        Store(s, files) ==
            IF last THEN Verify(c, "CREATE", p, d, files, view)
            ELSE Commit(c, files, view, Put(streams, u, s)) /\ Answer(c, "CREATE", p, FALSE, "OK")
    IN
    IF IsSynced(c, p) THEN NoEffect(c)      \* ERR_CREATE_ALREADY_EXIST
    ELSE \/ "mkdir" \in Faults /\ Fail(c, "CREATE", p)
         \/ \E opened \in Outcome("open"), written \in Outcome("write") :
              LET s == GetStream(u, p, opened)
                  files == OpenFile(u, p, opened)
              IN IF s = FailedStream
                 THEN /\ Commit(c, files, dir[c], Put(streams, u, s))
                      /\ Answer(c, "CREATE", p, FALSE, "FAILED")
                 ELSE Store(StreamAfterWrite(s, written),
                            IF written THEN WriteTo(files, s, data) ELSE files)

\* The end of an update, once the temporary is complete.  A remove or a rename that
\* fails ends the process, before the file is gone or after.
Swap(c, p, d, files, view) ==
    LET u == conn[c].id IN
    \E removed \in Outcome("remove"), renamed \in Outcome("rename") :
      IF ~removed THEN Abort(c, "UPDATE", p, [disk EXCEPT ![u] = files])
      ELSE IF ~renamed \/ Temp[p] \notin DOMAIN files
      THEN Abort(c, "UPDATE", p, [disk EXCEPT ![u] = Drop(files, p)])
      ELSE Verify(c, "UPDATE", p, d, Replace(files, p), view)

\* Nothing flushes here, and an ostreambuf_iterator does not mark the stream: a
\* chunk that could not be written goes unnoticed until the digests are compared.
HandleUpdate(c, p, d, data, last) ==
    LET u == conn[c].id
        view == ViewAfter(c, p, last, d, dir[c][p].digest)
        Store(s, files) ==
            IF last THEN Swap(c, p, d, files, view)
            ELSE Commit(c, files, view, Put(streams, u, s)) /\ Answer(c, "UPDATE", p, FALSE, "OK")
    IN
    IF p \notin DOMAIN dir[c] THEN NoEffect(c)      \* ERR_UPDATE_NOT_EXIST
    ELSE IF HasDigest(c, p, d) THEN NoEffect(c)      \* ERR_UPDATE_ALREADY_UPDATED
    ELSE \E opened \in Outcome("open"), written \in Outcome("write") :
           LET s == GetStream(u, Temp[p], opened)
               files == OpenFile(u, Temp[p], opened)
           IN IF s = FailedStream
              THEN /\ Commit(c, files, dir[c], Put(streams, u, s))
                   /\ Answer(c, "UPDATE", p, FALSE, "FAILED")
              ELSE Store(s, IF written THEN WriteTo(files, s, data) ELSE files)

\* A mutant: the clean-up of the parent directories does not ask if they are empty.
UnlinkTree(files, p) == Empty

\* The file goes, and with it the parent directories that are left empty.
Unlink(files, p) == Drop(files, p)

\* An open stream on the file goes on writing to the inode that lost its name.
\* remove does not mind a file that is not there.
HandleErase(c, p, d) ==
    LET u == conn[c].id
        slots == [v \in DOMAIN streams |->
                    IF v = u /\ streams[v] = p THEN Unlinked ELSE streams[v]]
    IN
    IF ~HasDigest(c, p, d) THEN NoEffect(c)      \* ERR_ERASE_NO_MATCH
    ELSE \/ "remove" \in Faults /\ Fail(c, "ERASE", p)
         \/ /\ Commit(c, Unlink(disk[u], p), Drop(dir[c], p), slots)
            /\ Answer(c, "ERASE", p, FALSE, "OK")

\* The bound of the model.
FilesFit == \A u \in User : \A f \in DOMAIN disk[u] : Len(disk[u][f]) <= MaxLen

-----------------------------------------------------------------------------
\* The signal handler stops the io_context, or the process is killed.
Stop ==
    /\ running
    /\ Halt
    /\ reply' = NoReply
    /\ UNCHANGED disk

Restart ==
    /\ ~running
    /\ running' = TRUE
    /\ reply' = NoReply
    /\ UNCHANGED <<conn, dir, streams, disk>>

FileRequest(c) ==
    \E p \in Path, d \in Digest :
      \/ \E data \in Data, last \in BOOLEAN :
           /\ Serving(c, TRUE, TRUE)
           /\ \/ WithDir(c, "CREATE", p, HandleCreate(c, p, d, data, last))
              \/ WithDir(c, "UPDATE", p, HandleUpdate(c, p, d, data, last))
           /\ FilesFit'
      \/ /\ Serving(c, TRUE, TRUE)
         /\ WithDir(c, "ERASE", p, HandleErase(c, p, d))

Request(c) ==
    \/ HandleAuth(c)
    \/ HandleSync(c)
    \/ FileRequest(c)
    \/ KeepAlive(c)
    \/ \E type \in {"CREATE", "UPDATE", "ERASE"} : HandleMalformed(c, type)
    \/ \E type \in MsgType \ {"NONE"} : HandleOther(c, type)

Next ==
    \/ \E c \in Conn : Accept(c) \/ Shutdown(c) \/ Request(c)
    \/ Stop
    \/ Restart

Spec == Init /\ [][Next]_vars

-----------------------------------------------------------------------------
(***************************************************************************)
(* Properties.                                                             *)
(***************************************************************************)
\* A session that may send file requests: logged in and synced, with a view.
Live(c) == conn[c].open /\ conn[c].auth /\ conn[c].synced /\ conn[c].id # None

\* What an entry for p promises of the files.
Backed(files, p, entry) ==
    /\ p \in DOMAIN files
    /\ entry.digest # TEMP => files[p] = entry.digest
    /\ entry.synced => entry.digest # TEMP

\* An entry of a session's view that carries a digest is backed by a file with
\* that digest, and a synced entry carries one: resource.h calls it "digest value
\* of resource".  ERR_CREATE_ALREADY_EXIST, ERR_UPDATE_ALREADY_UPDATED and the
\* check of handle_erase all answer from the view without looking at the disk.
EntryBacked ==
    \A c \in Conn : Live(c) =>
      \A p \in Path \cap DOMAIN dir[c] : Backed(disk[conn[c].id], p, dir[c][p])

\* The file an upload is appended to is one the user's session holds to be
\* unfinished: get_stream hands out the open stream whatever file the request
\* names, and what it appends must not reach a finished backup.
UploadUnfinished ==
    \A c \in Conn : Live(c) /\ conn[c].id \in DOMAIN streams =>
      LET s == streams[conn[c].id]
      IN s \in Path =>
           s \in DOMAIN dir[c] /\ dir[c][s] = [synced |-> FALSE, digest |-> TEMP]

\* A stream does not outlive the session that opened it: connection::shutdown
\* erases it, so that the first chunk of the next session is a first chunk.
NoOrphanStream ==
    \A u \in DOMAIN streams : \E c \in Conn : Live(c) /\ conn[c].id = u

\* A final chunk answered OK leaves on disk exactly the content announced, in
\* the view the same digest, and no stream that a later request could append
\* to: the compare of handle_create and handle_update comes last.
FinalOkStored ==
    reply.final /\ reply.res = "OK" =>
      LET c == reply.to
          u == conn[c].id
          p == reply.item
      IN /\ p \in DOMAIN disk[u] /\ p \in DOMAIN dir[c]
         /\ dir[c][p] = [synced |-> TRUE, digest |-> disk[u][p]]
         /\ u \notin DOMAIN streams

\* A final chunk answered NO_MATCH leaves neither file nor entry nor stream, so
\* that the client can create the file afresh; after an update it leaves no
\* temporary either.
NoMatchLeavesNothing ==
    reply.res = "NO_MATCH" =>
      LET c == reply.to
          u == conn[c].id
          p == reply.item
      IN /\ p \notin DOMAIN disk[u] /\ p \notin DOMAIN dir[c]
         /\ u \notin DOMAIN streams
         /\ reply.type = "UPDATE" => Temp[p] \notin DOMAIN disk[u]

\* No request takes the server down: handle_request is there to "Handle all
\* incoming request".  It depends on what the file system does and on the values the
\* flags of a session start with.
EveryRequestAnswered == reply.res # "LOST"

\* A file disappears only in a request of its owner that names it and that is
\* answered with the OK of an ERASE or a NO_MATCH, or that took the process
\* down between the remove and the rename of an update.
VanishOnlyAsReported ==
    [][\A u \in User : \A p \in Path :
         p \in DOMAIN disk[u] /\ p \notin DOMAIN disk'[u] =>
           /\ reply'.to # None /\ conn[reply'.to].id = u /\ reply'.item = p
           /\ \/ reply'.type = "ERASE" /\ reply'.res = "OK"
              \/ reply'.res \in {"NO_MATCH", "LOST"}]_vars

\* What a session holds to be complete changes on disk only in a request that
\* names the file, and never in a CREATE: the chunks of other uploads of the
\* user do not reach it.
CompleteFileKept ==
    [][\A c \in Conn : Live(c) =>
         LET u == conn[c].id
         IN \A p \in Path \cap DOMAIN dir[c] : dir[c][p].synced =>
              \/ p \in DOMAIN disk'[u] /\ disk'[u][p] = disk[u][p]
              \/ reply'.item = p /\ reply'.type \in {"UPDATE", "ERASE"}]_vars

\* A chunk goes to the file its request names or to its temporary: get_stream
\* has "path the path referring to the file the user wants to handle".
WritesWhereNamed ==
    [][\A u \in User : \A f \in DOMAIN disk[u] \cap DOMAIN disk'[u] :
         disk'[u][f] # disk[u][f] =>
           reply'.item # None /\ f \in {reply'.item, Temp[reply'.item]}]_vars

-----------------------------------------------------------------------------
(***************************************************************************)
(* The inductive invariant behind EntryBacked and UploadUnfinished, and    *)
(* the two conditions it needs: a user has at most one connection, and no  *)
(* client path is the temporary of another.                                *)
(***************************************************************************)
OneSessionEach == \A c, e \in Conn : Owner[c] = Owner[e] => c = e
TempsApart     == \A p, q \in Path : Temp[p] # q

IdOwned == \A c \in Conn : conn[c].id \in {None, Owner[c]}

IInv == TypeOK /\ IdOwned /\ NoOrphanStream /\ UploadUnfinished /\ EntryBacked
=============================================================================
