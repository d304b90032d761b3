------------------------ MODULE RequestHandlerProofs ------------------------
(***************************************************************************)
(* What RequestHandler guarantees for any number of users, files and       *)
(* chunks, and that it implements BackupStore.  The theorems are about     *)
(* users with one connection at a time (OneSessionEach), also where the    *)
(* proofs do not use it: the handlers of two connections of one user are   *)
(* not the single steps that they are here.                                *)
(***************************************************************************)
EXTENDS RequestHandlerStore, TLAPS

-----------------------------------------------------------------------------
(***************************************************************************)
(* The operators on partial maps.                                          *)
(***************************************************************************)
\* insert_or_assign keeps a map within its keys and values, and changes one key.
LEMMA PutMap ==
    ASSUME NEW Key, NEW Value, NEW m, IsMap(m, Key, Value), NEW k \in Key, NEW v \in Value
    PROVE  /\ IsMap(Put(m, k, v), Key, Value)
           /\ DOMAIN Put(m, k, v) = DOMAIN m \cup {k}
           /\ Put(m, k, v)[k] = v
           /\ \A j \in DOMAIN m \ {k} : Put(m, k, v)[j] = m[j]
BY DEF IsMap, Put

\* erase keeps a map within its keys and values, and removes one key.
LEMMA DropMap ==
    ASSUME NEW Key, NEW Value, NEW m, IsMap(m, Key, Value), NEW k
    PROVE  /\ IsMap(Drop(m, k), Key, Value)
           /\ DOMAIN Drop(m, k) = DOMAIN m \ {k}
           /\ \A j \in DOMAIN m \ {k} : Drop(m, k)[j] = m[j]
BY DEF IsMap, Drop, Restrict

LEMMA EmptyMap == ASSUME NEW Key, NEW Value PROVE IsMap(Empty, Key, Value)
BY DEF IsMap, Empty

\* The view a SYNC builds has the files of the folder, with their digests.
LEMMA ListingView ==
    ASSUME NEW files, IsFolder(files)
    PROVE  /\ IsView(Listing(files))
           /\ DOMAIN Listing(files) = DOMAIN files
           /\ \A p \in DOMAIN files :
                Listing(files)[p] = [synced |-> TRUE, digest |-> files[p]]
BY DEF IsMap, IsFolder, IsView, Listing, Resource

\* Opening a stream on f makes f exist and changes no content.
LEMMA TouchFolder ==
    ASSUME NEW files, IsFolder(files), NEW f \in Name
    PROVE  /\ IsFolder(Touch(files, f))
           /\ DOMAIN Touch(files, f) = DOMAIN files \cup {f}
           /\ \A g \in DOMAIN files : Touch(files, f)[g] = files[g]
<1>1. <<>> \in Content
  BY DEF Content
<1>2. QED BY <1>1 DEF IsFolder, IsMap, Touch, Put

\* Writing to s changes no other file, and makes or unmakes none.
LEMMA WriteFolder ==
    ASSUME NEW files, IsFolder(files), NEW s, NEW data \in Data
    PROVE  /\ IsFolder(WriteTo(files, s, data))
           /\ DOMAIN WriteTo(files, s, data) = DOMAIN files
           /\ \A g \in DOMAIN files \ {s} : WriteTo(files, s, data)[g] = files[g]
<1>1. data \in Content
  <2>1. \A k \in Chunk : <<k>> \in Content
    BY DEF Content
  <2>2. <<>> \in Content
    BY DEF Content
  <2>3. QED BY <2>1, <2>2 DEF Data
<1>2. \A e \in Content : e \o data \in Content
  BY <1>1 DEF Content
<1>3. QED BY <1>2 DEF IsFolder, IsMap, WriteTo

\* The digests a client sends have the type of the digests of the views.
LEMMA DigestType == Digest \subseteq Content \cup {TEMP}
<1>1. ASSUME NEW n \in 0 .. MaxLen PROVE [1 .. n -> Chunk] \subseteq Content
  <2>1. n \in Nat
    BY MaxLenAssumption
  <2>2. QED BY <2>1 DEF Content
<1>2. QED BY <1>1 DEF Digest

-----------------------------------------------------------------------------
(***************************************************************************)
(* Type correctness.                                                       *)
(***************************************************************************)
LEMMA AnswerType ==
    ASSUME NEW c \in Conn, NEW type \in MsgType, NEW p \in Path \cup {None},
           NEW final \in BOOLEAN, NEW res \in Result, Answer(c, type, p, final, res)
    PROVE  reply' \in Reply
BY DEF Answer, Reply

LEMMA NoReplyType == NoReply \in Reply
BY DEF NoReply, Reply, MsgType, Result

\* A handler that commits well typed data.
LEMMA CommitType ==
    ASSUME TypeOK, NEW c \in Conn, conn[c].id \in User,
           NEW files, IsFolder(files), NEW view, IsView(view),
           NEW slots, IsMap(slots, User, Stream),
           Commit(c, files, view, slots), reply' \in Reply
    PROVE  TypeOK'
<1>1. running' \in BOOLEAN /\ conn' \in [Conn -> Session]
  BY DEF TypeOK, Commit
<1>2. DOMAIN dir' = Conn /\ \A i \in Conn : IsView(dir'[i])
  BY DEF TypeOK, Commit
<1>3. IsMap(streams', User, Stream)
  BY DEF Commit
<1>4. DOMAIN disk' = User /\ \A u \in User : IsFolder(disk'[u])
  BY DEF TypeOK, Commit
<1>5. QED BY <1>1, <1>2, <1>3, <1>4 DEF TypeOK, IsView, IsFolder

\* A handler that leaves everything as it was.
LEMMA SameType ==
    ASSUME TypeOK, UNCHANGED <<running, conn, dir, streams, disk>>, reply' \in Reply
    PROVE  TypeOK'
BY DEF TypeOK, IsView, IsFolder

LEMMA ClosedType == Closed \in Session
BY DEF Closed, Session

\* The end of the process.
LEMMA HaltType ==
    ASSUME TypeOK, Halt, DOMAIN disk' = User, \A u \in User : IsFolder(disk'[u]),
           reply' \in Reply
    PROVE  TypeOK'
<1>1. running' \in BOOLEAN /\ conn' \in [Conn -> Session]
  BY ClosedType DEF Halt
<1>2. DOMAIN dir' = Conn /\ \A i \in Conn : IsView(dir'[i])
  BY EmptyMap DEF Halt, IsView
<1>3. IsMap(streams', User, Stream)
  BY EmptyMap DEF Halt
<1>4. QED BY <1>1, <1>2, <1>3 DEF TypeOK, IsView, IsFolder

LEMMA AbortType ==
    ASSUME TypeOK, NEW c \in Conn, NEW type \in MsgType, NEW p \in Path \cup {None},
           NEW folders, DOMAIN folders = User, \A u \in User : IsFolder(folders[u]),
           Abort(c, type, p, folders)
    PROVE  TypeOK'
<1>1. reply' \in Reply
  BY AnswerType DEF Abort, Result
<1>2. QED BY <1>1, HaltType DEF Abort

LEMMA AbortFolderType ==
    ASSUME TypeOK, NEW c \in Conn, NEW type \in MsgType, NEW p \in Path \cup {None},
           conn[c].id \in User, NEW files, IsFolder(files),
           Abort(c, type, p, [disk EXCEPT ![conn[c].id] = files])
    PROVE  TypeOK'
<1> DEFINE folders == [disk EXCEPT ![conn[c].id] = files]
<1>1. DOMAIN folders = User /\ \A u \in User : IsFolder(folders[u])
  BY DEF TypeOK
<1>2. QED BY <1>1, AbortType

\* The stream table after a request of user u.
LEMMA SlotTypes ==
    ASSUME TypeOK, NEW u \in User
    PROVE  /\ IsMap(EraseStream(u), User, Stream)
           /\ \A s \in Stream : IsMap(Put(streams, u, s), User, Stream)
           /\ \A f \in Name, opened \in BOOLEAN : GetStream(u, f, opened) \in Stream
           /\ \A f \in Name, opened \in BOOLEAN : IsFolder(OpenFile(u, f, opened))
<1>1. IsMap(EraseStream(u), User, Stream)
  BY DropMap DEF EraseStream, TypeOK
<1>2. \A s \in Stream : IsMap(Put(streams, u, s), User, Stream)
  BY PutMap DEF TypeOK
<1>3. \A f \in Name, opened \in BOOLEAN : GetStream(u, f, opened) \in Stream
  BY DEF GetStream, TypeOK, IsMap, Stream
<1>4. \A f \in Name, opened \in BOOLEAN : IsFolder(OpenFile(u, f, opened))
  BY TouchFolder DEF OpenFile, TypeOK
<1>5. QED BY <1>1, <1>2, <1>3, <1>4

LEMMA VerifyType ==
    ASSUME TypeOK, NEW c \in Conn, conn[c].id \in User,
           NEW type \in MsgType, NEW p \in Path, NEW d,
           NEW files, IsFolder(files), NEW view, IsView(view),
           Verify(c, type, p, d, files, view)
    PROVE  TypeOK'
<1> DEFINE u == conn[c].id
<1>1. CASE Abort(c, type, p, [disk EXCEPT ![u] = files])
  BY <1>1, AbortFolderType
<1>2. CASE Commit(c, files, view, EraseStream(u)) /\ Answer(c, type, p, TRUE, "OK")
  <2>1. reply' \in Reply
    BY <1>2, AnswerType DEF Result
  <2>2. QED BY <1>2, <2>1, SlotTypes, CommitType
<1>3. CASE /\ Commit(c, Drop(files, p), Drop(view, p), EraseStream(u))
           /\ Answer(c, type, p, TRUE, "NO_MATCH")
  <2>1. reply' \in Reply
    BY <1>3, AnswerType DEF Result
  <2>2. IsFolder(Drop(files, p)) /\ IsView(Drop(view, p))
    BY DropMap DEF IsFolder, IsView
  <2>3. QED BY <1>3, <2>1, <2>2, SlotTypes, CommitType
<1>4. QED BY <1>1, <1>2, <1>3 DEF Verify

LEMMA NoEffectType ==
    ASSUME TypeOK, NEW c \in Conn, NoEffect(c)
    PROVE  TypeOK'
<1>1. reply' \in Reply
  BY DEF NoEffect, NoReply, Reply, MsgType, Result
<1>2. QED BY <1>1, SameType DEF NoEffect

LEMMA FailType ==
    ASSUME TypeOK, NEW c \in Conn, NEW type \in MsgType, NEW p \in Path, Fail(c, type, p)
    PROVE  TypeOK'
<1>1. reply' \in Reply
  BY AnswerType DEF Fail, Result
<1>2. QED BY <1>1, SameType DEF Fail

\* A chunk changes the entry of its file only.
LEMMA ChunkView ==
    ASSUME TypeOK, NEW c \in Conn, NEW p \in Path, NEW d \in Digest, NEW last \in BOOLEAN,
           NEW placeholder \in Content \cup {TEMP}
    PROVE  LET new == ViewAfter(c, p, last, d, placeholder)
           IN /\ IsView(new)
              /\ \A q \in Path \ {p} :
                   /\ q \in DOMAIN new <=> q \in DOMAIN dir[c]
                   /\ q \in DOMAIN dir[c] => new[q] = dir[c][q]
              /\ last => p \in DOMAIN new /\ new[p] = [synced |-> TRUE, digest |-> d]
              /\ ~last /\ conn[c].id \notin DOMAIN streams =>
                   p \in DOMAIN new /\ new[p] = [synced |-> FALSE, digest |-> placeholder]
              /\ ~last /\ conn[c].id \in DOMAIN streams => new = dir[c]
<1>1. IsView(dir[c]) /\ p \in Name /\ Path \subseteq Name /\ d \in Content \cup {TEMP}
  BY DigestType, NameAssumption DEF TypeOK
<1>2. CASE last
  BY <1>1, <1>2 DEF ViewAfter, Progress, Put, IsView, IsMap, Resource
<1>3. CASE ~last /\ conn[c].id \notin DOMAIN streams
  BY <1>1, <1>3 DEF ViewAfter, Progress, Put, IsView, IsMap, Resource
<1>4. CASE ~last /\ conn[c].id \in DOMAIN streams
  BY <1>1, <1>4 DEF ViewAfter, Progress
<1>5. QED BY <1>2, <1>3, <1>4

\* The end of a chunk that is not the last one, and of one that meets a failed stream.
LEMMA StoreType ==
    ASSUME TypeOK, NEW c \in Conn, conn[c].id \in User,
           NEW type \in MsgType, NEW p \in Path, NEW res \in Result, NEW s \in Stream,
           NEW files, IsFolder(files), NEW view, IsView(view),
           Commit(c, files, view, Put(streams, conn[c].id, s)), Answer(c, type, p, FALSE, res)
    PROVE  TypeOK'
<1>1. reply' \in Reply
  BY AnswerType
<1>2. QED BY <1>1, SlotTypes, CommitType

LEMMA CreateType ==
    ASSUME TypeOK, NEW c \in Conn, conn[c].id \in User,
           NEW p \in Path, NEW d \in Digest, NEW data \in Data, NEW last \in BOOLEAN,
           HandleCreate(c, p, d, data, last)
    PROVE  TypeOK'
<1> DEFINE u == conn[c].id
           view == ViewAfter(c, p, last, d, TEMP)
           Kept(s, files, written) == IF written THEN WriteTo(files, s, data) ELSE files
<1>0. "CREATE" \in MsgType /\ "OK" \in Result /\ "FAILED" \in Result /\ p \in Name
  BY NameAssumption DEF MsgType, Result
<1>1. CASE NoEffect(c)
  BY <1>1, NoEffectType
<1>2. CASE Fail(c, "CREATE", p)
  BY <1>0, <1>2, FailType
<1>3. ASSUME NEW opened \in BOOLEAN, NEW written \in BOOLEAN,
             NEW s, s = GetStream(u, p, opened), NEW files, files = OpenFile(u, p, opened)
      PROVE  /\ s \in Stream /\ StreamAfterWrite(s, written) \in Stream
             /\ IsFolder(files) /\ IsFolder(Kept(s, files, written))
  <2>1. s \in Stream /\ IsFolder(files)
    BY <1>0, <1>3, SlotTypes
  <2>2. StreamAfterWrite(s, written) \in Stream
    BY <2>1 DEF StreamAfterWrite, Stream
  <2>3. IsFolder(Kept(s, files, written))
    BY <2>1, WriteFolder
  <2>4. QED BY <2>1, <2>2, <2>3
<1>4. ASSUME NEW opened \in BOOLEAN, NEW written \in BOOLEAN,
             NEW s, s = GetStream(u, p, opened), NEW files, files = OpenFile(u, p, opened),
             IF s = FailedStream
             THEN /\ Commit(c, files, dir[c], Put(streams, u, s))
                  /\ Answer(c, "CREATE", p, FALSE, "FAILED")
             ELSE IF last THEN Verify(c, "CREATE", p, d, Kept(s, files, written), view)
             ELSE /\ Commit(c, Kept(s, files, written), view,
                            Put(streams, u, StreamAfterWrite(s, written)))
                  /\ Answer(c, "CREATE", p, FALSE, "OK")
      PROVE  TypeOK'
  <2>1. IsView(dir[c]) /\ IsView(view)
    BY ChunkView DEF TypeOK
  <2>2. CASE s = FailedStream
    BY <1>0, <1>3, <1>4, <2>1, <2>2, StoreType
  <2>3. CASE s # FailedStream /\ last
    BY <1>0, <1>3, <1>4, <2>1, <2>3, VerifyType
  <2>4. CASE s # FailedStream /\ ~last
    BY <1>0, <1>3, <1>4, <2>1, <2>4, StoreType
  <2>5. QED BY <2>2, <2>3, <2>4
<1>5. \A op : Outcome(op) \subseteq BOOLEAN
  BY DEF Outcome
<1>6. QED BY <1>1, <1>2, <1>4, <1>5 DEF HandleCreate

LEMMA SwapType ==
    ASSUME TypeOK, NEW c \in Conn, conn[c].id \in User, NEW p \in Path, NEW d,
           NEW files, IsFolder(files), NEW view, IsView(view), Swap(c, p, d, files, view)
    PROVE  TypeOK'
<1> DEFINE u == conn[c].id
<1>0. "UPDATE" \in MsgType /\ Temp[p] \in Name /\ p \in Name
  BY NameAssumption DEF MsgType
<1>1. IsFolder(Drop(files, p))
  BY DropMap DEF IsFolder
<1>2. CASE Abort(c, "UPDATE", p, [disk EXCEPT ![u] = files])
  BY <1>0, <1>2, AbortFolderType
<1>3. CASE Abort(c, "UPDATE", p, [disk EXCEPT ![u] = Drop(files, p)])
  BY <1>0, <1>1, <1>3, AbortFolderType
<1>4. CASE /\ Temp[p] \in DOMAIN files
           /\ Verify(c, "UPDATE", p, d, Replace(files, p), view)
  <2>1. IsFolder(Drop(Drop(files, p), Temp[p])) /\ files[Temp[p]] \in Content
    BY <1>1, <1>4, DropMap DEF IsFolder, IsMap
  <2>2. IsFolder(Replace(files, p))
    BY <1>0, <2>1, PutMap DEF IsFolder, Replace
  <2>3. QED BY <1>0, <1>4, <2>2, VerifyType
<1>5. QED BY <1>2, <1>3, <1>4 DEF Swap

LEMMA UpdateType ==
    ASSUME TypeOK, NEW c \in Conn, conn[c].id \in User,
           NEW p \in Path, NEW d \in Digest, NEW data \in Data, NEW last \in BOOLEAN,
           HandleUpdate(c, p, d, data, last)
    PROVE  TypeOK'
<1> DEFINE u == conn[c].id
           view == ViewAfter(c, p, last, d, dir[c][p].digest)
           Kept(s, files, written) == IF written THEN WriteTo(files, s, data) ELSE files
<1>0. "UPDATE" \in MsgType /\ "OK" \in Result /\ "FAILED" \in Result /\ Temp[p] \in Name
      /\ p \in Name
  BY NameAssumption DEF MsgType, Result
<1>1. CASE NoEffect(c)
  BY <1>1, NoEffectType
<1>2. ASSUME p \in DOMAIN dir[c] PROVE IsView(dir[c]) /\ IsView(view)
  <2>1. dir[c][p].digest \in Content \cup {TEMP}
    BY <1>2 DEF TypeOK, IsView, IsMap, Resource
  <2>2. QED BY <2>1, ChunkView DEF TypeOK
<1>3. ASSUME NEW opened \in BOOLEAN, NEW written \in BOOLEAN, p \in DOMAIN dir[c],
             NEW s, s = GetStream(u, Temp[p], opened),
             NEW files, files = OpenFile(u, Temp[p], opened),
             IF s = FailedStream
             THEN /\ Commit(c, files, dir[c], Put(streams, u, s))
                  /\ Answer(c, "UPDATE", p, FALSE, "FAILED")
             ELSE IF last THEN Swap(c, p, d, Kept(s, files, written), view)
             ELSE /\ Commit(c, Kept(s, files, written), view, Put(streams, u, s))
                  /\ Answer(c, "UPDATE", p, FALSE, "OK")
      PROVE  TypeOK'
  <2>1. s \in Stream /\ IsFolder(files)
    BY <1>0, <1>3, SlotTypes
  <2>2. IsFolder(Kept(s, files, written))
    BY <2>1, WriteFolder
  <2>3. CASE s = FailedStream
    BY <1>0, <1>2, <1>3, <2>1, <2>3, StoreType
  <2>4. CASE s # FailedStream /\ last
    BY <1>2, <1>3, <2>2, <2>4, SwapType
  <2>5. CASE s # FailedStream /\ ~last
    BY <1>0, <1>2, <1>3, <2>1, <2>2, <2>5, StoreType
  <2>6. QED BY <2>3, <2>4, <2>5
<1>4. \A op : Outcome(op) \subseteq BOOLEAN
  BY DEF Outcome
<1>5. QED BY <1>1, <1>3, <1>4 DEF HandleUpdate

LEMMA EraseType ==
    ASSUME TypeOK, NEW c \in Conn, conn[c].id \in User, NEW p \in Path, NEW d,
           HandleErase(c, p, d)
    PROVE  TypeOK'
<1> DEFINE u == conn[c].id
           slots == [v \in DOMAIN streams |->
                       IF v = u /\ streams[v] = p THEN Unlinked ELSE streams[v]]
<1>0. "ERASE" \in MsgType /\ "OK" \in Result
  BY DEF MsgType, Result
<1>1. CASE NoEffect(c)
  BY <1>1, NoEffectType
<1>2. CASE Fail(c, "ERASE", p)
  BY <1>0, <1>2, FailType
<1>3. CASE /\ Commit(c, Unlink(disk[u], p), Drop(dir[c], p), slots)
           /\ Answer(c, "ERASE", p, FALSE, "OK")
  <2>1. IsFolder(Unlink(disk[u], p)) /\ IsView(Drop(dir[c], p))
    BY DropMap DEF TypeOK, IsFolder, IsView, Unlink
  <2>2. IsMap(slots, User, Stream)
    BY DEF TypeOK, IsMap, Stream
  <2>3. reply' \in Reply
    BY <1>0, <1>3, AnswerType
  <2>4. QED BY <1>3, <2>1, <2>2, <2>3, CommitType
<1>4. QED BY <1>1, <1>2, <1>3 DEF HandleErase

\* Connections come and go.
LEMMA AcceptType == ASSUME TypeOK, NEW c \in Conn, Accept(c) PROVE TypeOK'
<1>1. conn' \in [Conn -> Session]
  BY FlagAssumption DEF Accept, TypeOK, Session
<1>2. QED BY <1>1, NoReplyType DEF Accept, TypeOK, IsView, IsFolder

LEMMA ShutdownType == ASSUME TypeOK, NEW c \in Conn, Shutdown(c) PROVE TypeOK'
<1>1. conn' \in [Conn -> Session]
  BY ClosedType DEF Shutdown, TypeOK
<1>2. DOMAIN dir' = Conn /\ \A i \in Conn : IsView(dir'[i])
  BY EmptyMap DEF Shutdown, TypeOK, IsView
<1>3. IsMap(streams', User, Stream)
  BY DropMap DEF Shutdown, TypeOK, EraseStream
<1>4. QED BY <1>1, <1>2, <1>3, NoReplyType DEF Shutdown, TypeOK, IsView, IsFolder

LEMMA AuthType == ASSUME TypeOK, NEW c \in Conn, HandleAuth(c) PROVE TypeOK'
<1>1. CASE NoEffect(c)
  BY <1>1, NoEffectType
<1>2. CASE /\ conn' = [conn EXCEPT ![c].auth = TRUE, ![c].id = Owner[c]]
           /\ dir' = [dir EXCEPT ![c] = Empty]
           /\ Answer(c, "AUTH", None, FALSE, "OK")
           /\ UNCHANGED <<running, streams, disk>>
  <2>1. conn' \in [Conn -> Session]
    BY <1>2, OwnerAssumption DEF TypeOK, Session
  <2>2. DOMAIN dir' = Conn /\ \A i \in Conn : IsView(dir'[i])
    BY <1>2, EmptyMap DEF TypeOK, IsView
  <2>3. reply' \in Reply
    BY <1>2 DEF Answer, Reply, MsgType, Result
  <2>4. QED BY <1>2, <2>1, <2>2, <2>3 DEF TypeOK, IsView, IsFolder
<1>3. QED BY <1>1, <1>2 DEF HandleAuth

LEMMA SyncType == ASSUME TypeOK, NEW c \in Conn, HandleSync(c) PROVE TypeOK'
<1>0. "SYNC" \in MsgType /\ "OK" \in Result /\ "FAILED" \in Result
  BY DEF MsgType, Result
<1>1. CASE Abort(c, "SYNC", None, disk)
  BY <1>0, <1>1, AbortType DEF TypeOK
<1>2. ASSUME conn[c].id # None, NEW listed \in BOOLEAN,
             conn' = [conn EXCEPT ![c].synced = listed],
             dir' = [dir EXCEPT ![c] = IF listed THEN Listing(disk[conn[c].id]) ELSE Empty],
             Answer(c, "SYNC", None, FALSE, IF listed THEN "OK" ELSE "FAILED"),
             UNCHANGED <<running, streams, disk>>
      PROVE  TypeOK'
  <2>1. conn' \in [Conn -> Session]
    BY <1>2 DEF TypeOK, Session
  <2>2. conn[c].id \in User
    BY <1>2 DEF TypeOK, Session
  <2>3. IsView(Listing(disk[conn[c].id])) /\ IsView(Empty)
    BY <2>2, ListingView, EmptyMap DEF TypeOK, IsView
  <2>4. DOMAIN dir' = Conn /\ \A i \in Conn : IsView(dir'[i])
    BY <1>2, <2>3 DEF TypeOK
  <2>5. reply' \in Reply
    BY <1>0, <1>2, AnswerType
  <2>6. QED BY <1>2, <2>1, <2>4, <2>5 DEF TypeOK, IsView, IsFolder
<1>3. Outcome("sync") \subseteq BOOLEAN
  BY DEF Outcome
<1>4. QED BY <1>1, <1>2, <1>3 DEF HandleSync

\* The requests that name a file.
LEMMA FileRequestType == ASSUME TypeOK, NEW c \in Conn, FileRequest(c) PROVE TypeOK'
<1>0. {"CREATE", "UPDATE", "ERASE"} \subseteq MsgType
  BY DEF MsgType
<1>1. ASSUME NEW p \in Path, NEW type \in {"CREATE", "UPDATE", "ERASE"}, NEW Handler,
             Handler => conn[c].id \notin User \/ TypeOK',
             WithDir(c, type, p, Handler)
      PROVE  TypeOK'
  <2>1. CASE conn[c].id = None
    BY <1>0, <1>1, <2>1, AbortType DEF WithDir, TypeOK
  <2>2. CASE conn[c].id # None
    <3>1. conn[c].id \in User
      BY <2>2 DEF TypeOK, Session
    <3>2. QED BY <1>1, <2>2, <3>1 DEF WithDir
  <2>3. QED BY <2>1, <2>2
<1>2. PICK p \in Path, d \in Digest :
        \/ \E data \in Data, last \in BOOLEAN :
             \/ WithDir(c, "CREATE", p, HandleCreate(c, p, d, data, last))
             \/ WithDir(c, "UPDATE", p, HandleUpdate(c, p, d, data, last))
        \/ WithDir(c, "ERASE", p, HandleErase(c, p, d))
  BY DEF FileRequest
<1>3. ASSUME NEW data \in Data, NEW last \in BOOLEAN,
             WithDir(c, "CREATE", p, HandleCreate(c, p, d, data, last))
      PROVE  TypeOK'
  BY <1>1, <1>3, CreateType
<1>4. ASSUME NEW data \in Data, NEW last \in BOOLEAN,
             WithDir(c, "UPDATE", p, HandleUpdate(c, p, d, data, last))
      PROVE  TypeOK'
  BY <1>1, <1>4, UpdateType
<1>5. CASE WithDir(c, "ERASE", p, HandleErase(c, p, d))
  BY <1>1, <1>5, EraseType
<1>6. QED BY <1>2, <1>3, <1>4, <1>5

LEMMA RequestType == ASSUME TypeOK, NEW c \in Conn, Request(c) PROVE TypeOK'
<1>0. {"CREATE", "UPDATE", "ERASE", "KEEP_ALIVE"} \subseteq MsgType /\ "OK" \in Result
  BY DEF MsgType, Result
<1>1. CASE KeepAlive(c)
  BY <1>1, NoEffectType DEF KeepAlive
<1>2. ASSUME NEW type \in {"CREATE", "UPDATE", "ERASE"}, HandleMalformed(c, type)
      PROVE  TypeOK'
  <2>1. CASE NoEffect(c)
    BY <2>1, NoEffectType
  <2>2. CASE Abort(c, type, None, disk)
    BY <1>0, <2>2, AbortType DEF TypeOK
  <2>3. QED BY <1>2, <2>1, <2>2 DEF HandleMalformed
<1>3. ASSUME NEW type \in MsgType, HandleOther(c, type) PROVE TypeOK'
  BY <1>3, NoEffectType DEF HandleOther
<1>4. QED BY <1>1, <1>2, <1>3, AuthType, SyncType, FileRequestType DEF Request

LEMMA StopType == ASSUME TypeOK, Stop PROVE TypeOK'
<1>1. DOMAIN disk' = User /\ \A u \in User : IsFolder(disk'[u])
  BY DEF Stop, TypeOK, IsFolder
<1>2. QED BY <1>1, HaltType, NoReplyType DEF Stop

LEMMA RestartType == ASSUME TypeOK, Restart PROVE TypeOK'
BY NoReplyType DEF Restart, TypeOK, IsView, IsFolder

LEMMA InitType == Init => TypeOK
<1> SUFFICES ASSUME Init PROVE TypeOK
  OBVIOUS
<1>1. conn \in [Conn -> Session]
  BY ClosedType DEF Init
<1>2. DOMAIN dir = Conn /\ \A i \in Conn : IsView(dir[i])
  BY EmptyMap DEF Init, IsView
<1>3. IsMap(streams, User, Stream)
  BY EmptyMap DEF Init
<1>4. DOMAIN disk = User /\ \A u \in User : IsFolder(disk[u])
  BY EmptyMap DEF Init, IsFolder
<1>5. QED BY <1>1, <1>2, <1>3, <1>4, NoReplyType DEF Init, TypeOK

LEMMA NextType == TypeOK /\ [Next]_vars => TypeOK'
<1> SUFFICES ASSUME TypeOK, [Next]_vars PROVE TypeOK'
  OBVIOUS
<1>1. CASE UNCHANGED vars
  BY <1>1 DEF vars, TypeOK, IsView, IsFolder
<1>2. CASE Next
  BY <1>2, AcceptType, ShutdownType, RequestType, StopType, RestartType DEF Next
<1>3. QED BY <1>1, <1>2

\* Whatever the clients send and whatever fails, every view, folder and stream
\* table is a map of the classes' types, and every reply one of the protocol's.
THEOREM TypeCorrect == Spec => []TypeOK
<1>1. QED BY InitType, NextType, PTL DEF Spec

-----------------------------------------------------------------------------
(***************************************************************************)
(* The views are right about the folders.                                  *)
(***************************************************************************)
AllBacked(files, view) == \A p \in Path \cap DOMAIN view : Backed(files, p, view[p])

\* UploadUnfinished for one user and view
Unfinished(slots, u, view) ==
    u \in DOMAIN slots /\ slots[u] \in Path =>
      slots[u] \in DOMAIN view /\ view[slots[u]] = [synced |-> FALSE, digest |-> TEMP]

LEMMA LiveUser == ASSUME TypeOK, NEW c \in Conn, Live(c) PROVE conn[c].id \in User
BY DEF TypeOK, Live, Session

\* A handler that commits a view that is right about the files it commits.
LEMMA CommitInv ==
    ASSUME IInv, OneSessionEach, TypeOK', NEW c \in Conn, Live(c),
           NEW files, NEW view, AllBacked(files, view),
           NEW slots, Unfinished(slots, conn[c].id, view),
           \A v \in DOMAIN slots \ {conn[c].id} : v \in DOMAIN streams /\ slots[v] = streams[v],
           Commit(c, files, view, slots)
    PROVE  IInv'
<1> DEFINE u == conn[c].id
<1> USE DEF IInv, Live
<1>1. IdOwned'
  BY DEF IdOwned, Commit
<1>2. NoOrphanStream'
  BY DEF NoOrphanStream, Commit
<1>3. \A e \in Conn \ {c} : Live(e) => conn[e].id # u
  BY DEF IdOwned, OneSessionEach
<1>4. u \in User /\ DOMAIN dir = Conn /\ DOMAIN disk = User
  BY LiveUser DEF TypeOK
<1>5. \A e \in Conn \ {c} :
        /\ dir'[e] = dir[e]
        /\ Live(e) => /\ disk'[conn[e].id] = disk[conn[e].id]
                      /\ conn[e].id \in DOMAIN slots =>
                           /\ conn[e].id \in DOMAIN streams
                           /\ slots[conn[e].id] = streams[conn[e].id]
  BY <1>3, <1>4 DEF Commit
<1>6. dir'[c] = view /\ disk'[u] = files /\ streams' = slots /\ conn' = conn
  BY <1>4 DEF Commit
<1>7. UploadUnfinished'
  <2> SUFFICES ASSUME NEW e \in Conn, Live(e), conn[e].id \in DOMAIN slots,
                      slots[conn[e].id] \in Path
               PROVE  /\ slots[conn[e].id] \in DOMAIN dir'[e]
                      /\ dir'[e][slots[conn[e].id]] = [synced |-> FALSE, digest |-> TEMP]
    BY <1>6 DEF UploadUnfinished
  <2>1. CASE e = c
    BY <1>6, <2>1 DEF Unfinished
  <2>2. CASE e # c
    <3>1. /\ dir'[e] = dir[e]
          /\ conn[e].id \in DOMAIN streams
          /\ slots[conn[e].id] = streams[conn[e].id]
      BY <1>5, <2>2
    <3> DEFINE s == streams[conn[e].id]
    <3>2. s \in Path => s \in DOMAIN dir[e] /\ dir[e][s] = [synced |-> FALSE, digest |-> TEMP]
      BY <3>1 DEF UploadUnfinished
    <3>3. QED BY <3>1, <3>2
  <2>3. QED BY <2>1, <2>2
<1>8. EntryBacked'
  <2> SUFFICES ASSUME NEW e \in Conn, Live(e), NEW p \in Path \cap DOMAIN dir'[e]
               PROVE  Backed(disk'[conn[e].id], p, dir'[e][p])
    BY <1>6 DEF EntryBacked, Backed
  <2>1. CASE e = c
    BY <1>6, <2>1 DEF AllBacked
  <2>2. CASE e # c
    BY <1>5, <2>2 DEF EntryBacked
  <2>3. QED BY <2>1, <2>2
<1>9. QED BY <1>1, <1>2, <1>7, <1>8

LEMMA SameInv ==
    ASSUME IInv, TypeOK', UNCHANGED <<running, conn, dir, streams, disk>>
    PROVE  IInv'
BY DEF IInv, IdOwned, NoOrphanStream, UploadUnfinished, EntryBacked, Live, Backed

LEMMA HaltInv == ASSUME TypeOK', Halt PROVE IInv'
<1>1. \A c \in Conn : conn'[c].id = None /\ ~conn'[c].open
  BY DEF Halt, Closed
<1>2. DOMAIN streams' = {}
  BY DEF Halt, Empty
<1>3. QED BY <1>1, <1>2
       DEF IInv, IdOwned, NoOrphanStream, UploadUnfinished, EntryBacked, Live

\* The end of an upload: every other entry is right, the one of p claims d.
LEMMA VerifyInv ==
    ASSUME IInv, OneSessionEach, TypeOK', NEW c \in Conn, Live(c),
           NEW type, NEW p \in Path, NEW d,
           NEW files, IsFolder(files), NEW view, IsView(view),
           p \in DOMAIN view, view[p] = [synced |-> TRUE, digest |-> d],
           \A q \in (Path \cap DOMAIN view) \ {p} : Backed(files, q, view[q]),
           Verify(c, type, p, d, files, view)
    PROVE  IInv'
<1> DEFINE u == conn[c].id
           slots == EraseStream(u)
<1>1. CASE Abort(c, type, p, [disk EXCEPT ![u] = files])
  BY <1>1, HaltInv DEF Abort
<1>2. /\ DOMAIN slots = DOMAIN streams \ {u}
      /\ \A v \in DOMAIN slots \ {u} : v \in DOMAIN streams /\ slots[v] = streams[v]
  BY DEF EraseStream, Drop, Restrict
<1>3. \A w : Unfinished(slots, u, w)
  BY <1>2 DEF Unfinished
<1>4. CASE /\ p \in DOMAIN files /\ Matches(files, p, d)
           /\ Commit(c, files, view, slots)
  <2>1. files[p] \in Content
    BY <1>4 DEF IsFolder, IsMap
  <2>2. d # TEMP
    BY <1>4, <2>1, TempAssumption DEF Matches, Content
  <2>3. Backed(files, p, view[p])
    BY <1>4, <2>2 DEF Backed, Matches
  <2>4. AllBacked(files, view)
    BY <2>3 DEF AllBacked
  <2>5. QED BY <1>2, <1>3, <1>4, <2>4, CommitInv
<1>5. CASE Commit(c, Drop(files, p), Drop(view, p), slots)
  <2>1. /\ DOMAIN Drop(files, p) = DOMAIN files \ {p}
        /\ \A q \in DOMAIN files \ {p} : Drop(files, p)[q] = files[q]
        /\ DOMAIN Drop(view, p) = DOMAIN view \ {p}
        /\ \A q \in DOMAIN view \ {p} : Drop(view, p)[q] = view[q]
    BY DEF Drop, Restrict
  <2>2. AllBacked(Drop(files, p), Drop(view, p))
    BY <2>1 DEF AllBacked, Backed
  <2>3. QED BY <1>2, <1>3, <1>5, <2>2, CommitInv
<1>6. QED BY <1>1, <1>4, <1>5 DEF Verify

\* get_stream makes the file exist and changes no content.
LEMMA OpenFolder ==
    ASSUME TypeOK, NEW u \in User, NEW f \in Name, NEW opened \in BOOLEAN,
           NEW files, files = OpenFile(u, f, opened)
    PROVE  /\ IsFolder(files)
           /\ DOMAIN disk[u] \subseteq DOMAIN files
           /\ opened => f \in DOMAIN files
           /\ \A g \in DOMAIN disk[u] : files[g] = disk[u][g]
<1>1. IsFolder(disk[u])
  BY DEF TypeOK
<1>2. CASE opened
  <2>1. files = Touch(disk[u], f)
    BY <1>2 DEF OpenFile
  <2>2. /\ IsFolder(Touch(disk[u], f))
        /\ DOMAIN Touch(disk[u], f) = DOMAIN disk[u] \cup {f}
        /\ \A g \in DOMAIN disk[u] : Touch(disk[u], f)[g] = disk[u][g]
    BY <1>1, TouchFolder
  <2>3. QED BY <2>1, <2>2
<1>3. CASE ~opened
  BY <1>1, <1>3 DEF OpenFile
<1>4. QED BY <1>2, <1>3

\* A chunk for f reaches no file whose entry carries a digest, f excepted when
\* the stream has just been opened on it.
LEMMA ChunkInv ==
    ASSUME IInv, NEW c \in Conn, Live(c), NEW f \in Name, NEW data \in Data,
           NEW opened \in BOOLEAN, NEW written \in BOOLEAN,
           NEW s, s = GetStream(conn[c].id, f, opened),
           NEW kept, kept = IF written THEN WriteTo(OpenFile(conn[c].id, f, opened), s, data)
                            ELSE OpenFile(conn[c].id, f, opened)
    PROVE  /\ IsFolder(kept)
           /\ DOMAIN disk[conn[c].id] \subseteq DOMAIN kept
           /\ opened => f \in DOMAIN kept
           /\ \A q \in Path \cap DOMAIN dir[c] :
                q # f \/ conn[c].id \in DOMAIN streams => Backed(kept, q, dir[c][q])
<1> DEFINE u == conn[c].id
           files == OpenFile(u, f, opened)
<1>1. u \in User
  BY LiveUser DEF IInv
<1>2. /\ IsFolder(files)
      /\ DOMAIN disk[u] \subseteq DOMAIN files
      /\ opened => f \in DOMAIN files
      /\ \A g \in DOMAIN disk[u] : files[g] = disk[u][g]
  BY <1>1, OpenFolder DEF IInv
<1>3. /\ IsFolder(kept)
      /\ DOMAIN kept = DOMAIN files
      /\ \A g \in DOMAIN files \ {s} : kept[g] = files[g]
  BY <1>2, WriteFolder
<1>4. ASSUME NEW q \in Path \cap DOMAIN dir[c], q # f \/ u \in DOMAIN streams
      PROVE  Backed(kept, q, dir[c][q])
  <2>1. Backed(disk[u], q, dir[c][q])
    BY DEF IInv, EntryBacked
  <2>2. CASE q # s
    BY <1>2, <1>3, <2>1, <2>2 DEF Backed
  <2>3. CASE q = s
    <3>1. q \in Name /\ q # FailedStream
      BY NameAssumption, TokenAssumption
    <3>2. u \in DOMAIN streams /\ s = streams[u]
      BY <1>4, <2>3, <3>1 DEF GetStream
    <3>3. dir[c][q] = [synced |-> FALSE, digest |-> TEMP]
      BY <2>3, <3>2 DEF IInv, UploadUnfinished
    <3>4. QED BY <1>2, <1>3, <2>1, <3>3 DEF Backed
  <2>4. QED BY <2>2, <2>3
<1>5. QED BY <1>2, <1>3, <1>4

\* A chunk that meets a failed stream changes no file and no entry.
LEMMA FailedInv ==
    ASSUME IInv, OneSessionEach, TypeOK', NEW c \in Conn, Live(c),
           NEW f \in Name, NEW opened \in BOOLEAN,
           Commit(c, OpenFile(conn[c].id, f, opened), dir[c],
                  Put(streams, conn[c].id, FailedStream))
    PROVE  IInv'
<1> DEFINE u == conn[c].id
           files == OpenFile(u, f, opened)
           slots == Put(streams, u, FailedStream)
<1>1. u \in User
  BY LiveUser DEF IInv
<1>2. DOMAIN disk[u] \subseteq DOMAIN files /\ \A g \in DOMAIN disk[u] : files[g] = disk[u][g]
  BY <1>1, OpenFolder DEF IInv
<1>3. AllBacked(files, dir[c])
  BY <1>2 DEF AllBacked, Backed, IInv, EntryBacked
<1>4. slots[u] = FailedStream /\ \A v \in DOMAIN slots \ {u} : v \in DOMAIN streams
                                                           /\ slots[v] = streams[v]
  BY DEF Put
<1>5. Unfinished(slots, u, dir[c])
  BY <1>4, NameAssumption, TokenAssumption DEF Unfinished
<1>6. QED BY <1>3, <1>4, <1>5, CommitInv

LEMMA CreateInv ==
    ASSUME IInv, OneSessionEach, TypeOK', NEW c \in Conn, Live(c),
           NEW p \in Path, NEW d \in Digest, NEW data \in Data, NEW last \in BOOLEAN,
           HandleCreate(c, p, d, data, last)
    PROVE  IInv'
<1> DEFINE u == conn[c].id
           first == u \notin DOMAIN streams
           view == ViewAfter(c, p, last, d, TEMP)
           Kept(s, files, written) == IF written THEN WriteTo(files, s, data) ELSE files
<1>0. p \in Name /\ FailedStream \notin Path /\ IsView(dir[c])
  BY NameAssumption, TokenAssumption DEF IInv, TypeOK
<1>1. CASE NoEffect(c) \/ Fail(c, "CREATE", p)
  BY <1>1, SameInv DEF NoEffect, Fail
<1>2. ASSUME NEW opened \in BOOLEAN, NEW written \in BOOLEAN,
             NEW s, s = GetStream(u, p, opened), NEW files, files = OpenFile(u, p, opened),
             IF s = FailedStream
             THEN /\ Commit(c, files, dir[c], Put(streams, u, s))
                  /\ Answer(c, "CREATE", p, FALSE, "FAILED")
             ELSE IF last THEN Verify(c, "CREATE", p, d, Kept(s, files, written), view)
             ELSE /\ Commit(c, Kept(s, files, written), view,
                            Put(streams, u, StreamAfterWrite(s, written)))
                  /\ Answer(c, "CREATE", p, FALSE, "OK")
      PROVE  IInv'
  <2> DEFINE kept == Kept(s, files, written)
             slots == Put(streams, u, StreamAfterWrite(s, written))
  <2>1. CASE s = FailedStream
    BY <1>0, <1>2, <2>1, FailedInv
  <2>2. /\ IsFolder(kept)
        /\ opened => p \in DOMAIN kept
        /\ \A q \in Path \cap DOMAIN dir[c] : q # p \/ ~first => Backed(kept, q, dir[c][q])
    BY <1>0, <1>2, ChunkInv
  <2>3. /\ IsView(view)
        /\ \A q \in Path \ {p} :
             /\ q \in DOMAIN view <=> q \in DOMAIN dir[c]
             /\ q \in DOMAIN dir[c] => view[q] = dir[c][q]
        /\ last => p \in DOMAIN view /\ view[p] = [synced |-> TRUE, digest |-> d]
        /\ ~last /\ first =>
             p \in DOMAIN view /\ view[p] = [synced |-> FALSE, digest |-> TEMP]
        /\ ~last /\ ~first => view = dir[c]
    BY <1>0, ChunkView DEF IInv
  <2> HIDE DEF view, kept
  <2>4. \A q \in (Path \cap DOMAIN view) \ {p} : Backed(kept, q, view[q])
    BY <2>2, <2>3
  <2>5. CASE s # FailedStream /\ last
    BY <1>2, <2>2, <2>3, <2>4, <2>5, VerifyInv DEF kept, view
  <2>6. CASE s # FailedStream /\ ~last
    <3>1. ASSUME first PROVE AllBacked(kept, view) /\ Unfinished(slots, u, view)
      <4>1. opened /\ s = p
        BY <1>2, <2>6, <3>1 DEF GetStream
      <4>2. Backed(kept, p, view[p])
        BY <2>2, <2>3, <2>6, <3>1, <4>1 DEF Backed
      <4>3. AllBacked(kept, view)
        BY <2>4, <4>2 DEF AllBacked
      <4>4. Unfinished(slots, u, view)
        BY <1>0, <2>3, <2>6, <3>1, <4>1 DEF Unfinished, Put, StreamAfterWrite
      <4>5. QED BY <4>3, <4>4
    <3>2. ASSUME ~first PROVE AllBacked(kept, view) /\ Unfinished(slots, u, view)
      <4>1. AllBacked(kept, view)
        BY <2>2, <2>3, <2>6, <3>2 DEF AllBacked
      <4>2. s = streams[u]
        BY <1>2, <3>2 DEF GetStream
      <4>3. s \in Path => s \in DOMAIN dir[c] /\ dir[c][s] = [synced |-> FALSE, digest |-> TEMP]
        BY <3>2, <4>2 DEF IInv, UploadUnfinished
      <4>4. Unfinished(slots, u, view)
        BY <1>0, <2>3, <2>6, <3>2, <4>3 DEF Unfinished, Put, StreamAfterWrite
      <4>5. QED BY <4>1, <4>4
    <3>3. AllBacked(kept, view) /\ Unfinished(slots, u, view)
      BY <3>1, <3>2
    <3>4. \A v \in DOMAIN slots \ {u} : v \in DOMAIN streams /\ slots[v] = streams[v]
      BY DEF Put
    <3>5. Commit(c, kept, view, slots)
      BY <1>2, <2>6 DEF kept, view
    <3>6. QED BY <3>3, <3>4, <3>5, CommitInv
  <2>7. QED BY <2>1, <2>5, <2>6
<1>3. \A op : Outcome(op) \subseteq BOOLEAN
  BY DEF Outcome
<1>4. QED BY <1>1, <1>2, <1>3 DEF HandleCreate

\* The temporary takes the place of p, and of nothing else a client names.
LEMMA SwapInv ==
    ASSUME IInv, OneSessionEach, TempsApart, TypeOK', NEW c \in Conn, Live(c),
           NEW p \in Path, NEW d,
           NEW files, IsFolder(files), NEW view, IsView(view),
           p \in DOMAIN view, view[p] = [synced |-> TRUE, digest |-> d],
           \A q \in (Path \cap DOMAIN view) \ {p} : Backed(files, q, view[q]),
           Swap(c, p, d, files, view)
    PROVE  IInv'
<1> DEFINE u == conn[c].id
<1>1. CASE \/ Abort(c, "UPDATE", p, [disk EXCEPT ![u] = files])
           \/ Abort(c, "UPDATE", p, [disk EXCEPT ![u] = Drop(files, p)])
  BY <1>1, HaltInv DEF Abort
<1>2. CASE /\ Temp[p] \in DOMAIN files
           /\ Verify(c, "UPDATE", p, d, Replace(files, p), view)
  <2>1. /\ DOMAIN Replace(files, p) = (DOMAIN files \ {Temp[p]}) \cup {p}
        /\ \A q \in DOMAIN files \ {p, Temp[p]} : Replace(files, p)[q] = files[q]
    BY DEF Replace, Put, Drop, Restrict
  <2>2. \A q \in (Path \cap DOMAIN view) \ {p} : Backed(Replace(files, p), q, view[q])
    BY <2>1 DEF TempsApart, Backed
  <2>3. IsFolder(Replace(files, p))
    <3>1. p \in Name /\ files[Temp[p]] \in Content
      BY <1>2, NameAssumption DEF IsFolder, IsMap
    <3>2. IsFolder(Drop(Drop(files, p), Temp[p]))
      BY DropMap DEF IsFolder
    <3>3. QED BY <3>1, <3>2, PutMap DEF IsFolder, Replace
  <2>4. QED BY <1>2, <2>2, <2>3, VerifyInv
<1>3. QED BY <1>1, <1>2 DEF Swap

LEMMA UpdateInv ==
    ASSUME IInv, OneSessionEach, TempsApart, TypeOK', NEW c \in Conn, Live(c),
           NEW p \in Path, NEW d \in Digest, NEW data \in Data, NEW last \in BOOLEAN,
           HandleUpdate(c, p, d, data, last)
    PROVE  IInv'
<1> DEFINE u == conn[c].id
           first == u \notin DOMAIN streams
           view == ViewAfter(c, p, last, d, dir[c][p].digest)
           Kept(s, files, written) == IF written THEN WriteTo(files, s, data) ELSE files
<1>0. Temp[p] \in Name /\ Temp[p] \notin Path /\ FailedStream \notin Path /\ IsView(dir[c])
  BY NameAssumption, TokenAssumption DEF IInv, TypeOK, TempsApart
<1>1. CASE NoEffect(c)
  BY <1>1, SameInv DEF NoEffect
<1>2. ASSUME NEW opened \in BOOLEAN, NEW written \in BOOLEAN, p \in DOMAIN dir[c],
             NEW s, s = GetStream(u, Temp[p], opened),
             NEW files, files = OpenFile(u, Temp[p], opened),
             IF s = FailedStream
             THEN /\ Commit(c, files, dir[c], Put(streams, u, s))
                  /\ Answer(c, "UPDATE", p, FALSE, "FAILED")
             ELSE IF last THEN Swap(c, p, d, Kept(s, files, written), view)
             ELSE /\ Commit(c, Kept(s, files, written), view, Put(streams, u, s))
                  /\ Answer(c, "UPDATE", p, FALSE, "OK")
      PROVE  IInv'
  <2> DEFINE kept == Kept(s, files, written)
             slots == Put(streams, u, s)
  <2>1. CASE s = FailedStream
    BY <1>0, <1>2, <2>1, FailedInv
  <2>2. /\ IsFolder(kept)
        /\ \A q \in Path \cap DOMAIN dir[c] : q # Temp[p] \/ ~first => Backed(kept, q, dir[c][q])
    BY <1>0, <1>2, ChunkInv
  <2>3. dir[c][p].digest \in Content \cup {TEMP}
    BY <1>0, <1>2 DEF IsView, IsMap, Resource
  <2>4. /\ IsView(view)
        /\ \A q \in Path \ {p} :
             /\ q \in DOMAIN view <=> q \in DOMAIN dir[c]
             /\ q \in DOMAIN dir[c] => view[q] = dir[c][q]
        /\ last => p \in DOMAIN view /\ view[p] = [synced |-> TRUE, digest |-> d]
        /\ ~last /\ first =>
             p \in DOMAIN view /\ view[p] = [synced |-> FALSE, digest |-> dir[c][p].digest]
        /\ ~last /\ ~first => view = dir[c]
    BY <2>3, ChunkView DEF IInv
  <2> HIDE DEF view, kept
  <2>5. \A q \in Path \cap DOMAIN dir[c] : Backed(kept, q, dir[c][q])
    BY <1>0, <2>2
  <2>6. \A q \in (Path \cap DOMAIN view) \ {p} : Backed(kept, q, view[q])
    BY <2>4, <2>5
  <2>7. CASE s # FailedStream /\ last
    BY <1>2, <2>2, <2>4, <2>6, <2>7, SwapInv DEF kept, view
  <2>8. CASE s # FailedStream /\ ~last
    <3>1. Backed(kept, p, view[p])
      BY <1>2, <2>4, <2>5, <2>8 DEF Backed
    <3>2. AllBacked(kept, view)
      BY <2>6, <3>1 DEF AllBacked
    <3>3. ASSUME first PROVE Unfinished(slots, u, view)
      <4>1. s = Temp[p]
        BY <1>2, <2>8, <3>3 DEF GetStream
      <4>2. QED BY <1>0, <4>1 DEF Unfinished, Put
    <3>4. ASSUME ~first PROVE Unfinished(slots, u, view)
      <4>1. s = streams[u]
        BY <1>2, <3>4 DEF GetStream
      <4>2. s \in Path => s \in DOMAIN dir[c] /\ dir[c][s] = [synced |-> FALSE, digest |-> TEMP]
        BY <3>4, <4>1 DEF IInv, UploadUnfinished
      <4>3. QED BY <2>4, <2>8, <3>4, <4>2 DEF Unfinished, Put
    <3>5. \A v \in DOMAIN slots \ {u} : v \in DOMAIN streams /\ slots[v] = streams[v]
      BY DEF Put
    <3>6. Commit(c, kept, view, slots)
      BY <1>2, <2>8 DEF kept, view
    <3>7. QED BY <3>2, <3>3, <3>4, <3>5, <3>6, CommitInv
  <2>9. QED BY <2>1, <2>7, <2>8
<1>3. \A op : Outcome(op) \subseteq BOOLEAN
  BY DEF Outcome
<1>4. QED BY <1>1, <1>2, <1>3 DEF HandleUpdate

LEMMA EraseInv ==
    ASSUME IInv, OneSessionEach, TypeOK', NEW c \in Conn, Live(c), NEW p \in Path, NEW d,
           HandleErase(c, p, d)
    PROVE  IInv'
<1> DEFINE u == conn[c].id
           files == Unlink(disk[u], p)
           view == Drop(dir[c], p)
           slots == [v \in DOMAIN streams |->
                       IF v = u /\ streams[v] = p THEN Unlinked ELSE streams[v]]
<1>1. CASE NoEffect(c) \/ Fail(c, "ERASE", p)
  BY <1>1, SameInv DEF NoEffect, Fail
<1>2. CASE Commit(c, files, view, slots)
  <2>1. /\ DOMAIN view = DOMAIN dir[c] \ {p}
        /\ \A q \in DOMAIN dir[c] \ {p} : view[q] = dir[c][q]
        /\ DOMAIN files = DOMAIN disk[u] \ {p}
        /\ \A q \in DOMAIN disk[u] \ {p} : files[q] = disk[u][q]
    BY DEF Unlink, Drop, Restrict
  <2>2. AllBacked(files, view)
    BY <2>1 DEF AllBacked, Backed, IInv, EntryBacked
  <2>3. ASSUME u \in DOMAIN streams, slots[u] \in Path PROVE streams[u] # p
    BY <2>3, NameAssumption, TokenAssumption
  <2>4. Unfinished(slots, u, view)
    <3> SUFFICES ASSUME u \in DOMAIN streams, slots[u] \in Path
                 PROVE  /\ slots[u] \in DOMAIN view
                        /\ view[slots[u]] = [synced |-> FALSE, digest |-> TEMP]
      BY DEF Unfinished
    <3>1. slots[u] = streams[u] /\ streams[u] # p
      BY <2>3
    <3> HIDE DEF slots, view
    <3>2. QED BY <2>1, <3>1 DEF IInv, UploadUnfinished
  <2>5. QED BY <1>2, <2>2, <2>4, CommitInv
<1>3. QED BY <1>1, <1>2 DEF HandleErase

\* A user without a session has no stream.
LEMMA NoStreamYet ==
    ASSUME IInv, OneSessionEach, NEW c \in Conn, ~Live(c)
    PROVE  Owner[c] \notin DOMAIN streams
BY DEF IInv, IdOwned, NoOrphanStream, OneSessionEach, Live

\* A step that changes one session and neither streams nor folders.
LEMMA SessionInv ==
    ASSUME IInv, OneSessionEach, TypeOK', NEW c \in Conn, ~Live(c),
           \A e \in Conn \ {c} : conn'[e] = conn[e] /\ dir'[e] = dir[e],
           conn'[c].id \in {None, Owner[c]},
           Live(c)' => AllBacked(disk[conn'[c].id], dir'[c]),
           UNCHANGED <<streams, disk>>
    PROVE  IInv'
<1>1. IdOwned'
  BY DEF IInv, IdOwned
<1>2. NoOrphanStream'
  BY DEF IInv, NoOrphanStream, Live
<1>3. Live(c)' => conn'[c].id \notin DOMAIN streams
  BY NoStreamYet DEF Live
<1>4. UploadUnfinished'
  BY <1>3 DEF IInv, UploadUnfinished, Live
<1>5. EntryBacked'
  BY DEF IInv, EntryBacked, AllBacked, Backed, Live
<1>6. QED BY <1>1, <1>2, <1>4, <1>5 DEF IInv

LEMMA AcceptInv ==
    ASSUME IInv, OneSessionEach, TypeOK', NEW c \in Conn, Accept(c)
    PROVE  IInv'
<1>1. /\ ~Live(c) /\ conn'[c].id = None /\ ~Live(c)'
      /\ \A e \in Conn \ {c} : conn'[e] = conn[e] /\ dir'[e] = dir[e]
  BY DEF Accept, Live, IInv, TypeOK
<1>2. QED BY <1>1, SessionInv DEF Accept

LEMMA AuthInv ==
    ASSUME IInv, OneSessionEach, TypeOK', NEW c \in Conn, HandleAuth(c)
    PROVE  IInv'
<1>1. CASE NoEffect(c)
  BY <1>1, SameInv DEF NoEffect
<1>2. CASE /\ conn' = [conn EXCEPT ![c].auth = TRUE, ![c].id = Owner[c]]
           /\ dir' = [dir EXCEPT ![c] = Empty]
           /\ UNCHANGED <<running, streams, disk>>
  <2>1. ~Live(c)
    BY DEF HandleAuth, Serving, Live
  <2>2. /\ conn'[c].id = Owner[c]
        /\ \A e \in Conn \ {c} : conn'[e] = conn[e] /\ dir'[e] = dir[e]
        /\ DOMAIN dir'[c] = {}
    BY <1>2 DEF IInv, TypeOK, Session, Empty
  <2>3. QED BY <1>2, <2>1, <2>2, SessionInv DEF AllBacked
<1>3. QED BY <1>1, <1>2 DEF HandleAuth

LEMMA SyncInv ==
    ASSUME IInv, OneSessionEach, TypeOK', NEW c \in Conn, HandleSync(c)
    PROVE  IInv'
<1>1. CASE Abort(c, "SYNC", None, disk)
  BY <1>1, HaltInv DEF Abort
<1>2. ASSUME conn[c].id # None, NEW listed \in BOOLEAN,
             conn' = [conn EXCEPT ![c].synced = listed],
             dir' = [dir EXCEPT ![c] = IF listed THEN Listing(disk[conn[c].id]) ELSE Empty],
             UNCHANGED <<running, streams, disk>>
      PROVE  IInv'
  <2> DEFINE files == disk[conn[c].id]
  <2>1. ~Live(c)
    BY DEF HandleSync, Serving, Live
  <2>2. /\ conn'[c].id = conn[c].id /\ conn'[c].synced = listed
        /\ \A e \in Conn \ {c} : conn'[e] = conn[e] /\ dir'[e] = dir[e]
        /\ listed => dir'[c] = Listing(files)
    BY <1>2 DEF IInv, TypeOK, Session
  <2>3. IsFolder(files)
    BY <1>2 DEF IInv, TypeOK, Session
  <2>4. AllBacked(files, Listing(files))
    <3> SUFFICES ASSUME NEW p \in Path \cap DOMAIN Listing(files)
                 PROVE  Backed(files, p, Listing(files)[p])
      BY DEF AllBacked
    <3>1. p \in DOMAIN files /\ Listing(files)[p] = [synced |-> TRUE, digest |-> files[p]]
      BY <2>3, ListingView
    <3>2. files[p] # TEMP
      BY <2>3, <3>1, TempAssumption DEF IsFolder, IsMap, Content
    <3>3. QED BY <3>1, <3>2 DEF Backed
  <2>5. conn'[c].id \in {None, Owner[c]}
    BY <2>2 DEF IInv, IdOwned
  <2>6. Live(c)' => AllBacked(disk[conn'[c].id], dir'[c])
    BY <2>2, <2>4 DEF Live
  <2>7. QED BY <1>2, <2>1, <2>2, <2>5, <2>6, SessionInv
<1>3. Outcome("sync") \subseteq BOOLEAN
  BY DEF Outcome
<1>4. QED BY <1>1, <1>2, <1>3 DEF HandleSync

LEMMA ShutdownInv ==
    ASSUME IInv, OneSessionEach, TypeOK', NEW c \in Conn, Shutdown(c)
    PROVE  IInv'
<1>1. /\ DOMAIN streams' = DOMAIN streams \ {conn[c].id}
      /\ \A v \in DOMAIN streams' : streams'[v] = streams[v]
  BY DEF Shutdown, EraseStream, Drop, Restrict
<1>2. /\ ~Live(c)' /\ conn'[c].id = None
      /\ \A e \in Conn \ {c} : conn'[e] = conn[e] /\ dir'[e] = dir[e]
      /\ disk' = disk
  BY DEF Shutdown, Live, Closed, IInv, TypeOK
<1>3. IdOwned'
  BY <1>2 DEF IInv, IdOwned
<1>4. NoOrphanStream'
  <2> SUFFICES ASSUME NEW u \in DOMAIN streams' PROVE \E e \in Conn : Live(e)' /\ conn'[e].id = u
    BY DEF NoOrphanStream
  <2>1. PICK e \in Conn : Live(e) /\ conn[e].id = u
    BY <1>1 DEF IInv, NoOrphanStream
  <2>2. e # c
    BY <1>1, <2>1
  <2>3. QED BY <1>2, <2>1, <2>2 DEF Live
<1>5. UploadUnfinished'
  <2> SUFFICES ASSUME NEW e \in Conn, Live(e)', conn'[e].id \in DOMAIN streams',
                      streams'[conn'[e].id] \in Path
               PROVE  LET s == streams'[conn'[e].id]
                      IN s \in DOMAIN dir'[e] /\ dir'[e][s] = [synced |-> FALSE, digest |-> TEMP]
    BY DEF UploadUnfinished
  <2>1. e # c /\ Live(e) /\ conn'[e] = conn[e] /\ dir'[e] = dir[e]
    BY <1>2 DEF Live
  <2>2. conn[e].id \in DOMAIN streams /\ streams'[conn[e].id] = streams[conn[e].id]
    BY <1>1, <2>1
  <2>3. QED BY <2>1, <2>2 DEF IInv, UploadUnfinished
<1>6. EntryBacked'
  BY <1>2 DEF IInv, EntryBacked, Backed, Live
<1>7. QED BY <1>3, <1>4, <1>5, <1>6 DEF IInv

LEMMA FileRequestInv ==
    ASSUME IInv, OneSessionEach, TempsApart, TypeOK', NEW c \in Conn, FileRequest(c)
    PROVE  IInv'
<1>1. PICK p \in Path, d \in Digest :
        \/ \E data \in Data, last \in BOOLEAN :
             \/ WithDir(c, "CREATE", p, HandleCreate(c, p, d, data, last))
             \/ WithDir(c, "UPDATE", p, HandleUpdate(c, p, d, data, last))
        \/ WithDir(c, "ERASE", p, HandleErase(c, p, d))
  BY DEF FileRequest
<1>2. CASE conn[c].id = None
  BY <1>1, <1>2, HaltInv DEF WithDir, Abort
<1>3. CASE conn[c].id # None
  <2>1. Live(c)
    BY <1>3 DEF FileRequest, Serving, Live
  <2>2. ASSUME NEW data \in Data, NEW last \in BOOLEAN, HandleCreate(c, p, d, data, last)
        PROVE  IInv'
    BY <2>1, <2>2, CreateInv
  <2>3. ASSUME NEW data \in Data, NEW last \in BOOLEAN, HandleUpdate(c, p, d, data, last)
        PROVE  IInv'
    BY <2>1, <2>3, UpdateInv
  <2>4. CASE HandleErase(c, p, d)
    BY <2>1, <2>4, EraseInv
  <2>5. QED BY <1>1, <1>3, <2>2, <2>3, <2>4 DEF WithDir
<1>4. QED BY <1>2, <1>3

LEMMA RequestInv ==
    ASSUME IInv, OneSessionEach, TempsApart, TypeOK', NEW c \in Conn, Request(c)
    PROVE  IInv'
<1>1. CASE KeepAlive(c)
  BY <1>1, SameInv DEF KeepAlive, NoEffect
<1>2. ASSUME NEW type, HandleMalformed(c, type) PROVE IInv'
  BY <1>2, SameInv, HaltInv DEF HandleMalformed, NoEffect, Abort
<1>3. ASSUME NEW type, HandleOther(c, type) PROVE IInv'
  BY <1>3, SameInv DEF HandleOther, NoEffect
<1>4. QED BY <1>1, <1>2, <1>3, AuthInv, SyncInv, FileRequestInv DEF Request

LEMMA InitInv == Init => IInv
<1> SUFFICES ASSUME Init PROVE IInv
  OBVIOUS
<1>1. \A c \in Conn : conn[c].id = None /\ ~conn[c].open
  BY DEF Init, Closed
<1>2. DOMAIN streams = {}
  BY DEF Init, Empty
<1>3. QED BY <1>1, <1>2, InitType
       DEF IInv, IdOwned, NoOrphanStream, UploadUnfinished, EntryBacked, Live

LEMMA NextInv ==
    ASSUME OneSessionEach, TempsApart
    PROVE  IInv /\ [Next]_vars => IInv'
<1> SUFFICES ASSUME IInv, [Next]_vars PROVE IInv'
  OBVIOUS
<1>1. TypeOK'
  BY NextType DEF IInv
<1>2. CASE UNCHANGED vars
  BY <1>1, <1>2, SameInv DEF vars
<1>3. CASE Stop
  BY <1>1, <1>3, HaltInv DEF Stop
<1>4. CASE Restart
  BY <1>1, <1>4, HaltInv DEF Restart, IInv, IdOwned, NoOrphanStream, UploadUnfinished,
                             EntryBacked, Live, Backed
<1>5. ASSUME NEW c \in Conn, Accept(c) \/ Shutdown(c) \/ Request(c) PROVE IInv'
  BY <1>1, <1>5, AcceptInv, ShutdownInv, RequestInv
<1>6. QED BY <1>2, <1>3, <1>4, <1>5 DEF Next

-----------------------------------------------------------------------------
\* When a user has at most one connection and no path is the temporary of another,
\* the answers a session gets from its view are true of the folder: a complete
\* entry has the digest of the file on disk, whatever calls fail and whenever the
\* server stops.
THEOREM ViewsAreBacked ==
    ASSUME OneSessionEach, TempsApart
    PROVE  Spec => []EntryBacked
<1>1. IInv => EntryBacked
  BY DEF IInv
<1>2. QED BY <1>1, InitInv, NextInv, PTL DEF Spec

\* Under the same conditions a chunk sent for any file is appended to an upload
\* that is still unfinished, or to a file that is no client path: never to a
\* complete one.
THEOREM AppendsToUnfinished ==
    ASSUME OneSessionEach, TempsApart
    PROVE  Spec => []UploadUnfinished
<1>1. IInv => UploadUnfinished
  BY DEF IInv
<1>2. QED BY <1>1, InitInv, NextInv, PTL DEF Spec

\* Under the same conditions no stream outlives the session that opened it.
THEOREM StreamsHaveSessions ==
    ASSUME OneSessionEach, TempsApart
    PROVE  Spec => []NoOrphanStream
<1>1. IInv => NoOrphanStream
  BY DEF IInv
<1>2. QED BY <1>1, InitInv, NextInv, PTL DEF Spec

-----------------------------------------------------------------------------
(***************************************************************************)
(* What a reply says is true when it is sent.                              *)
(***************************************************************************)
TrueReply == FinalOkStored /\ NoMatchLeavesNothing

\* Most replies claim neither a stored file nor a removed one.
LEMMA PlainReply ==
    ASSUME reply'.final => reply'.res # "OK", reply'.res # "NO_MATCH"
    PROVE  TrueReply'
BY DEF TrueReply, FinalOkStored, NoMatchLeavesNothing

LEMMA NoEffectReply == ASSUME NEW c, NoEffect(c) PROVE TrueReply'
<1>1. reply'.res = "NO_EFFECT"
  BY DEF NoEffect, NoReply
<1>2. QED BY <1>1, PlainReply

LEMMA AbortReply ==
    ASSUME NEW c, NEW type, NEW p, NEW folders, Abort(c, type, p, folders)
    PROVE  TrueReply'
<1>1. reply'.res = "LOST"
  BY DEF Abort, Answer
<1>2. QED BY <1>1, PlainReply

LEMMA UnfinishedReply ==
    ASSUME NEW c, NEW type, NEW p, NEW res, res # "NO_MATCH", Answer(c, type, p, FALSE, res)
    PROVE  TrueReply'
<1>1. reply'.final = FALSE /\ reply'.res = res
  BY DEF Answer
<1>2. QED BY <1>1, PlainReply

\* The end of an upload: the compare comes last, and both its outcomes leave
\* folder, view and stream table as the reply says.
LEMMA VerifyReply ==
    ASSUME TypeOK, NEW c \in Conn, conn[c].id \in User, NEW type, NEW p \in Path, NEW d,
           NEW files, NEW view, p \in DOMAIN view, view[p] = [synced |-> TRUE, digest |-> d],
           type = "UPDATE" => Temp[p] = p \/ Temp[p] \notin DOMAIN files,
           Verify(c, type, p, d, files, view)
    PROVE  TrueReply'
<1> DEFINE u == conn[c].id
           slots == EraseStream(u)
<1>1. u \in DOMAIN disk /\ c \in DOMAIN dir /\ u \notin DOMAIN slots
  BY DEF TypeOK, EraseStream, Drop, Restrict
<1>2. CASE Abort(c, type, p, [disk EXCEPT ![u] = files])
  BY <1>2, AbortReply
<1>3. CASE /\ p \in DOMAIN files /\ Matches(files, p, d)
           /\ Commit(c, files, view, slots) /\ Answer(c, type, p, TRUE, "OK")
  <2>1. /\ reply'.to = c /\ reply'.item = p /\ reply'.res = "OK"
        /\ conn'[c].id = u /\ disk'[u] = files /\ dir'[c] = view /\ streams' = slots
    BY <1>1, <1>3 DEF Answer, Commit
  <2>2. files[p] = d
    BY <1>3 DEF Matches
  <2>3. QED BY <1>1, <1>3, <2>1, <2>2 DEF TrueReply, FinalOkStored, NoMatchLeavesNothing
<1>4. CASE /\ Commit(c, Drop(files, p), Drop(view, p), slots)
           /\ Answer(c, type, p, TRUE, "NO_MATCH")
  <2>1. /\ reply'.to = c /\ reply'.item = p /\ reply'.res = "NO_MATCH" /\ reply'.type = type
        /\ conn'[c].id = u /\ disk'[u] = Drop(files, p) /\ dir'[c] = Drop(view, p)
        /\ streams' = slots
    BY <1>1, <1>4 DEF Answer, Commit
  <2>2. DOMAIN Drop(files, p) = DOMAIN files \ {p} /\ DOMAIN Drop(view, p) = DOMAIN view \ {p}
    BY DEF Drop, Restrict
  <2>3. QED BY <1>1, <2>1, <2>2 DEF TrueReply, FinalOkStored, NoMatchLeavesNothing
<1>5. QED BY <1>2, <1>3, <1>4 DEF Verify

LEMMA SwapReply ==
    ASSUME TypeOK, NEW c \in Conn, conn[c].id \in User, NEW p \in Path, NEW d,
           NEW files, NEW view, p \in DOMAIN view, view[p] = [synced |-> TRUE, digest |-> d],
           Swap(c, p, d, files, view)
    PROVE  TrueReply'
<1>1. Temp[p] = p \/ Temp[p] \notin DOMAIN Replace(files, p)
  BY DEF Replace, Put, Drop, Restrict
<1>2. CASE Verify(c, "UPDATE", p, d, Replace(files, p), view)
  BY <1>1, <1>2, VerifyReply
<1>3. QED BY <1>2, AbortReply DEF Swap

LEMMA CreateReply ==
    ASSUME TypeOK, NEW c \in Conn, conn[c].id \in User,
           NEW p \in Path, NEW d \in Digest, NEW data \in Data, NEW last \in BOOLEAN,
           HandleCreate(c, p, d, data, last)
    PROVE  TrueReply'
<1> DEFINE view == ViewAfter(c, p, last, d, TEMP)
<1>1. CASE NoEffect(c)
  BY <1>1, NoEffectReply
<1>2. CASE \E res \in {"OK", "FAILED"} : Answer(c, "CREATE", p, FALSE, res)
  BY <1>2, UnfinishedReply
<1>3. last => p \in DOMAIN view /\ view[p] = [synced |-> TRUE, digest |-> d]
  BY DEF ViewAfter, Progress, Put
<1>4. ASSUME last, NEW files, Verify(c, "CREATE", p, d, files, view)
      PROVE  TrueReply'
  BY <1>3, <1>4, VerifyReply
<1>5. QED BY <1>1, <1>2, <1>4 DEF HandleCreate, Fail

LEMMA UpdateReply ==
    ASSUME TypeOK, NEW c \in Conn, conn[c].id \in User,
           NEW p \in Path, NEW d \in Digest, NEW data \in Data, NEW last \in BOOLEAN,
           HandleUpdate(c, p, d, data, last)
    PROVE  TrueReply'
<1> DEFINE view == ViewAfter(c, p, last, d, dir[c][p].digest)
<1>1. CASE NoEffect(c)
  BY <1>1, NoEffectReply
<1>2. CASE \E res \in {"OK", "FAILED"} : Answer(c, "UPDATE", p, FALSE, res)
  BY <1>2, UnfinishedReply
<1>3. last => p \in DOMAIN view /\ view[p] = [synced |-> TRUE, digest |-> d]
  BY DEF ViewAfter, Progress, Put
<1>4. ASSUME last, NEW files, Swap(c, p, d, files, view)
      PROVE  TrueReply'
  BY <1>3, <1>4, SwapReply
<1>5. QED BY <1>1, <1>2, <1>4 DEF HandleUpdate

LEMMA FileRequestReply == ASSUME TypeOK, NEW c \in Conn, FileRequest(c) PROVE TrueReply'
<1>1. PICK p \in Path, d \in Digest :
        \/ \E data \in Data, last \in BOOLEAN :
             \/ WithDir(c, "CREATE", p, HandleCreate(c, p, d, data, last))
             \/ WithDir(c, "UPDATE", p, HandleUpdate(c, p, d, data, last))
        \/ WithDir(c, "ERASE", p, HandleErase(c, p, d))
  BY DEF FileRequest
<1>2. CASE conn[c].id = None
  BY <1>1, <1>2, AbortReply DEF WithDir
<1>3. CASE conn[c].id # None
  <2>1. conn[c].id \in User
    BY <1>3 DEF TypeOK, Session
  <2>2. CASE HandleErase(c, p, d)
    BY <2>2, NoEffectReply, UnfinishedReply DEF HandleErase, Fail
  <2>3. QED BY <1>1, <1>3, <2>1, <2>2, CreateReply, UpdateReply DEF WithDir
<1>4. QED BY <1>2, <1>3

LEMMA NextReply == TypeOK /\ TrueReply /\ [Next]_vars => TrueReply'
<1> SUFFICES ASSUME TypeOK, TrueReply, [Next]_vars PROVE TrueReply'
  OBVIOUS
<1>1. CASE UNCHANGED vars
  BY <1>1 DEF vars, TrueReply, FinalOkStored, NoMatchLeavesNothing
<1>2. ASSUME reply' = NoReply PROVE TrueReply'
  BY <1>2, PlainReply DEF NoReply
<1>3. CASE Stop \/ Restart \/ \E c \in Conn : Accept(c) \/ Shutdown(c)
  BY <1>2, <1>3 DEF Stop, Restart, Accept, Shutdown
<1>4. ASSUME NEW c \in Conn, Request(c) PROVE TrueReply'
  <2>1. CASE HandleAuth(c)
    BY <2>1, NoEffectReply, UnfinishedReply DEF HandleAuth
  <2>2. CASE HandleSync(c)
    BY <2>2, AbortReply, UnfinishedReply DEF HandleSync
  <2>3. CASE FileRequest(c)
    BY <2>3, FileRequestReply
  <2>4. CASE KeepAlive(c)
    BY <2>4, NoEffectReply DEF KeepAlive
  <2>5. ASSUME NEW type, HandleMalformed(c, type) PROVE TrueReply'
    BY <2>5, NoEffectReply, AbortReply DEF HandleMalformed
  <2>6. ASSUME NEW type, HandleOther(c, type) PROVE TrueReply'
    BY <2>6, NoEffectReply DEF HandleOther
  <2>7. QED BY <1>4, <2>1, <2>2, <2>3, <2>4, <2>5, <2>6 DEF Request
<1>5. QED BY <1>1, <1>3, <1>4 DEF Next

LEMMA RepliesAreTrue == Spec => []TrueReply
<1>1. Init => TrueReply
  BY DEF Init, NoReply, TrueReply, FinalOkStored, NoMatchLeavesNothing
<1>2. QED BY <1>1, InitType, NextType, NextReply, PTL DEF Spec

\* When a user has one connection at a time, a last chunk is answered OK only if the
\* file on disk is what was announced, the view says so and the user has no stream left,
\* whatever calls fail, however the uploads of the connection overlap and whichever
\* paths are temporaries of one another.
THEOREM OkMeansStored == ASSUME OneSessionEach PROVE Spec => []FinalOkStored
<1>1. TrueReply => FinalOkStored
  BY DEF TrueReply
<1>2. QED BY <1>1, RepliesAreTrue, PTL

\* Under the same condition, after a NO_MATCH there is neither file, nor entry, nor
\* stream, nor temporary: the client can always begin afresh.
THEOREM RejectedLeavesNothing == ASSUME OneSessionEach PROVE Spec => []NoMatchLeavesNothing
<1>1. TrueReply => NoMatchLeavesNothing
  BY DEF TrueReply
<1>2. QED BY <1>1, RepliesAreTrue, PTL

-----------------------------------------------------------------------------
(***************************************************************************)
(* What a request for a file does to the files of the folders.             *)
(***************************************************************************)
\* The files of the folder with which a request of user u may end: those of paths
\* other than p are there as they were, but for the one the open stream is on.
Keeps(files, u, p) ==
    \A q \in (Path \cap DOMAIN disk[u]) \ {p} :
       /\ q \in DOMAIN files
       /\ (u \in DOMAIN streams /\ streams[u] = q) \/ files[q] = disk[u][q]

\* A request changes one folder, and there the file it names, which goes only as
\* the reply says.
FileEffect(c, type, p) ==
    LET u == conn[c].id
    IN /\ \A v \in User \ {u} : disk'[v] = disk[v]
       /\ Keeps(disk'[u], u, p)
       /\ disk' = disk \/ (reply'.to = c /\ reply'.item = p /\ reply'.type = type)
       /\ p \in DOMAIN disk[u] /\ p \notin DOMAIN disk'[u] =>
            (type = "ERASE" /\ reply'.res = "OK") \/ reply'.res \in {"NO_MATCH", "LOST"}

LEMMA QuietEffect ==
    ASSUME NEW c, NEW type, NEW p, disk' = disk
    PROVE  FileEffect(c, type, p)
BY DEF FileEffect, Keeps

LEMMA FolderEffect ==
    ASSUME TypeOK, NEW c, conn[c].id \in User, NEW type, NEW p, NEW final, NEW res,
           NEW files, Keeps(files, conn[c].id, p),
           disk' = [disk EXCEPT ![conn[c].id] = files], Answer(c, type, p, final, res),
           \/ p \in DOMAIN disk[conn[c].id] => p \in DOMAIN files
           \/ type = "ERASE" /\ res = "OK"
           \/ res \in {"NO_MATCH", "LOST"}
    PROVE  FileEffect(c, type, p)
<1>1. /\ disk'[conn[c].id] = files
      /\ \A v \in User \ {conn[c].id} : disk'[v] = disk[v]
  BY DEF TypeOK
<1>2. reply'.to = c /\ reply'.item = p /\ reply'.type = type /\ reply'.res = res
  BY DEF Answer
<1>3. QED BY <1>1, <1>2 DEF FileEffect

\* The folder after a chunk that could or could not be written.
Chunked(files, s, data, written) == IF written THEN WriteTo(files, s, data) ELSE files

\* A chunk for f is written to the file of the stream, and f is made if need be.
LEMMA ChunkFolder ==
    ASSUME TypeOK, NEW u \in User, NEW f \in Name, NEW data \in Data,
           NEW opened \in BOOLEAN, NEW written \in BOOLEAN, NEW s,
           NEW files, files = OpenFile(u, f, opened)
    PROVE  LET kept == Chunked(files, s, data, written)
           IN /\ IsFolder(kept)
              /\ DOMAIN disk[u] \subseteq DOMAIN kept
              /\ opened => f \in DOMAIN kept
              /\ \A g \in DOMAIN disk[u] \ {s} : kept[g] = disk[u][g]
<1> DEFINE kept == Chunked(files, s, data, written)
<1>1. /\ IsFolder(files)
      /\ DOMAIN disk[u] \subseteq DOMAIN files
      /\ opened => f \in DOMAIN files
      /\ \A g \in DOMAIN disk[u] : files[g] = disk[u][g]
  BY OpenFolder
<1>2. CASE written
  <2>1. kept = WriteTo(files, s, data)
    BY <1>2 DEF Chunked
  <2>2. DOMAIN kept = DOMAIN files /\ \A g \in DOMAIN files \ {s} : kept[g] = files[g]
    BY <1>1, <2>1, WriteFolder
  <2>3. IsFolder(kept)
    BY <1>1, <2>1, WriteFolder
  <2>4. QED BY <1>1, <2>2, <2>3
<1>3. CASE ~written
  BY <1>1, <1>3 DEF Chunked
<1>4. QED BY <1>2, <1>3

\* A chunk for p keeps the other files. f is p or its temporary; a stream that is there
\* already is not the one on f.
LEMMA ChunkKeeps ==
    ASSUME TypeOK, NEW u \in User, NEW p, NEW f \in Name,
           f \notin Path \ {p} \/ u \in DOMAIN streams, NEW data \in Data,
           NEW opened \in BOOLEAN, NEW written \in BOOLEAN, NEW s, s = GetStream(u, f, opened),
           NEW files, files = OpenFile(u, f, opened)
    PROVE  LET kept == Chunked(files, s, data, written)
           IN IsFolder(kept) /\ Keeps(kept, u, p) /\ DOMAIN disk[u] \subseteq DOMAIN kept
<1> DEFINE kept == Chunked(files, s, data, written)
<1>1. /\ IsFolder(kept)
      /\ DOMAIN disk[u] \subseteq DOMAIN kept
      /\ \A g \in DOMAIN disk[u] \ {s} : kept[g] = disk[u][g]
  BY ChunkFolder
<1>2. \A q \in Path \ {p} : s = q => u \in DOMAIN streams /\ streams[u] = q
  BY NameAssumption, TokenAssumption DEF GetStream
<1>3. QED BY <1>1, <1>2 DEF Keeps

LEMMA VerifyEffect ==
    ASSUME TypeOK, NEW c, conn[c].id \in User, NEW type, NEW p \in Path, NEW d,
           NEW files, Keeps(files, conn[c].id, p),
           p \in DOMAIN disk[conn[c].id] => p \in DOMAIN files,
           NEW view, Verify(c, type, p, d, files, view)
    PROVE  FileEffect(c, type, p)
<1>1. CASE Abort(c, type, p, [disk EXCEPT ![conn[c].id] = files])
  BY <1>1, FolderEffect DEF Abort
<1>2. CASE Commit(c, files, view, EraseStream(conn[c].id)) /\ Answer(c, type, p, TRUE, "OK")
  BY <1>2, FolderEffect DEF Commit
<1>3. CASE /\ Commit(c, Drop(files, p), Drop(view, p), EraseStream(conn[c].id))
           /\ Answer(c, type, p, TRUE, "NO_MATCH")
  <2>1. Keeps(Drop(files, p), conn[c].id, p)
    BY DEF Keeps, Drop, Restrict
  <2>2. QED BY <1>3, <2>1, FolderEffect DEF Commit
<1>4. QED BY <1>1, <1>2, <1>3 DEF Verify

LEMMA SwapEffect ==
    ASSUME TypeOK, TempsApart, NEW c, conn[c].id \in User, NEW p \in Path, NEW d,
           NEW files, Keeps(files, conn[c].id, p),
           p \in DOMAIN disk[conn[c].id] => p \in DOMAIN files,
           NEW view, Swap(c, p, d, files, view)
    PROVE  FileEffect(c, "UPDATE", p)
<1>1. CASE Abort(c, "UPDATE", p, [disk EXCEPT ![conn[c].id] = files])
  BY <1>1, FolderEffect DEF Abort
<1>2. CASE Abort(c, "UPDATE", p, [disk EXCEPT ![conn[c].id] = Drop(files, p)])
  <2>1. Keeps(Drop(files, p), conn[c].id, p)
    BY DEF Keeps, Drop, Restrict
  <2>2. QED BY <1>2, <2>1, FolderEffect DEF Abort
<1>3. CASE Verify(c, "UPDATE", p, d, Replace(files, p), view)
  <2>1. /\ DOMAIN Replace(files, p) = (DOMAIN files \ {Temp[p]}) \cup {p}
        /\ \A q \in DOMAIN files \ {p, Temp[p]} : Replace(files, p)[q] = files[q]
    BY DEF Replace, Put, Drop, Restrict
  <2>2. Keeps(Replace(files, p), conn[c].id, p)
    BY <2>1 DEF Keeps, TempsApart
  <2>3. QED BY <1>3, <2>1, <2>2, VerifyEffect
<1>4. QED BY <1>1, <1>2, <1>3 DEF Swap

LEMMA CreateEffect ==
    ASSUME TypeOK, NEW c \in Conn, conn[c].id \in User,
           NEW p \in Path, NEW d, NEW data \in Data, NEW last \in BOOLEAN,
           HandleCreate(c, p, d, data, last)
    PROVE  FileEffect(c, "CREATE", p) /\ (IsSynced(c, p) => disk' = disk)
<1> DEFINE u == conn[c].id
<1>1. CASE NoEffect(c) \/ Fail(c, "CREATE", p)
  BY <1>1, QuietEffect DEF NoEffect, Fail
<1>2. ASSUME ~IsSynced(c, p),
             NEW opened \in BOOLEAN, NEW written \in BOOLEAN,
             NEW s, s = GetStream(u, p, opened), NEW files, files = OpenFile(u, p, opened),
             IF s = FailedStream
             THEN /\ Commit(c, files, dir[c], Put(streams, u, s))
                  /\ Answer(c, "CREATE", p, FALSE, "FAILED")
             ELSE IF last THEN Verify(c, "CREATE", p, d, Chunked(files, s, data, written),
                                      ViewAfter(c, p, last, d, TEMP))
             ELSE /\ Commit(c, Chunked(files, s, data, written), ViewAfter(c, p, last, d, TEMP),
                            Put(streams, u, StreamAfterWrite(s, written)))
                  /\ Answer(c, "CREATE", p, FALSE, "OK")
      PROVE  FileEffect(c, "CREATE", p)
  <2>0. p \in Name /\ Chunked(files, s, data, FALSE) = files
    BY NameAssumption DEF Chunked
  <2>1. \A w \in BOOLEAN : /\ Keeps(Chunked(files, s, data, w), u, p)
                           /\ p \in DOMAIN disk[u] => p \in DOMAIN Chunked(files, s, data, w)
    BY <1>2, <2>0, ChunkKeeps
  <2>2. Keeps(files, u, p) /\ (p \in DOMAIN disk[u] => p \in DOMAIN files)
    BY <2>0, <2>1
  <2>3. CASE s = FailedStream
    BY <1>2, <2>2, <2>3, FolderEffect DEF Commit
  <2>4. CASE s # FailedStream /\ last
    BY <1>2, <2>1, <2>4, VerifyEffect
  <2>5. CASE s # FailedStream /\ ~last
    BY <1>2, <2>1, <2>5, FolderEffect DEF Commit
  <2>6. QED BY <2>3, <2>4, <2>5
<1>3. \A op : Outcome(op) \subseteq BOOLEAN
  BY DEF Outcome
<1>4. FileEffect(c, "CREATE", p)
  BY <1>1, <1>2, <1>3 DEF HandleCreate, Chunked
<1>5. IsSynced(c, p) => disk' = disk
  BY DEF HandleCreate, NoEffect
<1>6. QED BY <1>4, <1>5

LEMMA UpdateEffect ==
    ASSUME TypeOK, TempsApart, NEW c \in Conn, conn[c].id \in User,
           NEW p \in Path, NEW d, NEW data \in Data, NEW last \in BOOLEAN,
           HandleUpdate(c, p, d, data, last)
    PROVE  FileEffect(c, "UPDATE", p)
<1> DEFINE u == conn[c].id
           view == ViewAfter(c, p, last, d, dir[c][p].digest)
<1>1. CASE NoEffect(c)
  BY <1>1, QuietEffect DEF NoEffect
<1>2. ASSUME NEW opened \in BOOLEAN, NEW written \in BOOLEAN,
             NEW s, s = GetStream(u, Temp[p], opened),
             NEW files, files = OpenFile(u, Temp[p], opened),
             IF s = FailedStream
             THEN /\ Commit(c, files, dir[c], Put(streams, u, s))
                  /\ Answer(c, "UPDATE", p, FALSE, "FAILED")
             ELSE IF last THEN Swap(c, p, d, Chunked(files, s, data, written), view)
             ELSE /\ Commit(c, Chunked(files, s, data, written), view, Put(streams, u, s))
                  /\ Answer(c, "UPDATE", p, FALSE, "OK")
      PROVE  FileEffect(c, "UPDATE", p)
  <2>0. Temp[p] \in Name /\ Chunked(files, s, data, FALSE) = files
    BY NameAssumption DEF Chunked
  <2>1. \A w \in BOOLEAN : /\ Keeps(Chunked(files, s, data, w), u, p)
                           /\ p \in DOMAIN disk[u] => p \in DOMAIN Chunked(files, s, data, w)
    BY <1>2, <2>0, ChunkKeeps DEF TempsApart
  <2>2. Keeps(files, u, p) /\ (p \in DOMAIN disk[u] => p \in DOMAIN files)
    BY <2>0, <2>1
  <2>3. CASE s = FailedStream
    BY <1>2, <2>2, <2>3, FolderEffect DEF Commit
  <2>4. CASE s # FailedStream /\ last
    BY <1>2, <2>1, <2>4, SwapEffect
  <2>5. CASE s # FailedStream /\ ~last
    BY <1>2, <2>1, <2>5, FolderEffect DEF Commit
  <2>6. QED BY <2>3, <2>4, <2>5
<1>3. \A op : Outcome(op) \subseteq BOOLEAN
  BY DEF Outcome
<1>4. QED BY <1>1, <1>2, <1>3 DEF HandleUpdate, Chunked

LEMMA EraseEffect ==
    ASSUME TypeOK, NEW c \in Conn, conn[c].id \in User, NEW p \in Path, NEW d,
           HandleErase(c, p, d)
    PROVE  FileEffect(c, "ERASE", p)
<1>1. CASE NoEffect(c) \/ Fail(c, "ERASE", p)
  BY <1>1, QuietEffect DEF NoEffect, Fail
<1>2. ASSUME NEW slots, Commit(c, Unlink(disk[conn[c].id], p), Drop(dir[c], p), slots),
             Answer(c, "ERASE", p, FALSE, "OK")
      PROVE  FileEffect(c, "ERASE", p)
  <2>1. Keeps(Unlink(disk[conn[c].id], p), conn[c].id, p)
    BY DEF Keeps, Unlink, Drop, Restrict
  <2>2. QED BY <1>2, <2>1, FolderEffect DEF Commit
<1>3. QED BY <1>1, <1>2 DEF HandleErase

LEMMA FileRequestEffect ==
    ASSUME TypeOK, TempsApart, NEW c \in Conn, FileRequest(c)
    PROVE  \E p \in Path, type \in {"CREATE", "UPDATE", "ERASE"} :
             /\ FileEffect(c, type, p)
             /\ type = "CREATE" /\ IsSynced(c, p) => disk' = disk
<1>1. PICK p \in Path, d \in Digest :
        \/ \E data \in Data, last \in BOOLEAN :
             \/ WithDir(c, "CREATE", p, HandleCreate(c, p, d, data, last))
             \/ WithDir(c, "UPDATE", p, HandleUpdate(c, p, d, data, last))
        \/ WithDir(c, "ERASE", p, HandleErase(c, p, d))
  BY DEF FileRequest
<1>2. CASE conn[c].id = None
  BY <1>1, <1>2, QuietEffect DEF WithDir, Abort
<1>3. CASE conn[c].id # None
  <2>1. conn[c].id \in User
    BY <1>3 DEF TypeOK, Session
  <2>2. ASSUME NEW data \in Data, NEW last \in BOOLEAN, HandleCreate(c, p, d, data, last)
        PROVE  FileEffect(c, "CREATE", p) /\ (IsSynced(c, p) => disk' = disk)
    BY <2>1, <2>2, CreateEffect
  <2>3. ASSUME NEW data \in Data, NEW last \in BOOLEAN, HandleUpdate(c, p, d, data, last)
        PROVE  FileEffect(c, "UPDATE", p)
    BY <2>1, <2>3, UpdateEffect
  <2>4. CASE HandleErase(c, p, d)
    BY <2>1, <2>4, EraseEffect
  <2>5. QED BY <1>1, <1>3, <2>2, <2>3, <2>4 DEF WithDir
<1>4. QED BY <1>2, <1>3

\* No other step touches a folder.
LEMMA NextEffect ==
    ASSUME TypeOK, TempsApart, [Next]_vars
    PROVE  \/ disk' = disk
           \/ \E c \in Conn, p \in Path, type \in {"CREATE", "UPDATE", "ERASE"} :
                /\ FileEffect(c, type, p)
                /\ type = "CREATE" /\ IsSynced(c, p) => disk' = disk
<1>1. CASE UNCHANGED vars \/ Stop \/ Restart \/ \E c \in Conn : Accept(c) \/ Shutdown(c)
  BY <1>1 DEF vars, Stop, Restart, Accept, Shutdown
<1>2. ASSUME NEW c \in Conn, Request(c), ~FileRequest(c) PROVE disk' = disk
  BY <1>2 DEF Request, HandleAuth, HandleSync, KeepAlive, HandleMalformed, HandleOther,
              NoEffect, Abort
<1>3. QED BY <1>1, <1>2, FileRequestEffect DEF Next

LEMMA VanishStep ==
    ASSUME TypeOK, TempsApart, [Next]_vars
    PROVE  \A u \in User : \A p \in Path :
             p \in DOMAIN disk[u] /\ p \notin DOMAIN disk'[u] =>
               /\ reply'.to # None /\ conn[reply'.to].id = u /\ reply'.item = p
               /\ \/ reply'.type = "ERASE" /\ reply'.res = "OK"
                  \/ reply'.res \in {"NO_MATCH", "LOST"}
<1> SUFFICES ASSUME NEW u \in User, NEW p \in Path, p \in DOMAIN disk[u], p \notin DOMAIN disk'[u]
             PROVE  /\ reply'.to # None /\ conn[reply'.to].id = u /\ reply'.item = p
                    /\ \/ reply'.type = "ERASE" /\ reply'.res = "OK"
                       \/ reply'.res \in {"NO_MATCH", "LOST"}
  OBVIOUS
<1>1. disk' # disk
  OBVIOUS
<1>2. PICK c \in Conn, q \in Path, type \in {"CREATE", "UPDATE", "ERASE"} : FileEffect(c, type, q)
  BY <1>1, NextEffect
<1>3. conn[c].id = u
  BY <1>2 DEF FileEffect
<1>4. q = p
  BY <1>2, <1>3 DEF FileEffect, Keeps
<1>5. c # None
  BY TokenAssumption
<1>6. QED BY <1>1, <1>2, <1>3, <1>4, <1>5 DEF FileEffect

\* When a user has one connection at a time and no path is the temporary of another, a
\* file a client named disappears only in a request of its owner that names it and says
\* so, or that brought the process down, whatever calls fail: also when the rename of an
\* update fails with the temporary in place.
THEOREM NothingVanishes ==
    ASSUME OneSessionEach, TempsApart
    PROVE  Spec => VanishOnlyAsReported
<1>1. TypeOK /\ [Next]_vars =>
        [\A u \in User : \A p \in Path :
           p \in DOMAIN disk[u] /\ p \notin DOMAIN disk'[u] =>
             /\ reply'.to # None /\ conn[reply'.to].id = u /\ reply'.item = p
             /\ \/ reply'.type = "ERASE" /\ reply'.res = "OK"
                \/ reply'.res \in {"NO_MATCH", "LOST"}]_vars
  BY VanishStep
<1>2. QED BY <1>1, InitType, NextType, PTL DEF Spec, VanishOnlyAsReported

LEMMA CompleteStep ==
    ASSUME IInv, OneSessionEach, TempsApart, [Next]_vars
    PROVE  \A c \in Conn : Live(c) =>
             LET u == conn[c].id
             IN \A p \in Path \cap DOMAIN dir[c] : dir[c][p].synced =>
                  \/ p \in DOMAIN disk'[u] /\ disk'[u][p] = disk[u][p]
                  \/ reply'.item = p /\ reply'.type \in {"UPDATE", "ERASE"}
<1> SUFFICES ASSUME NEW c \in Conn, Live(c), NEW p \in Path \cap DOMAIN dir[c], dir[c][p].synced
             PROVE  \/ p \in DOMAIN disk'[conn[c].id]
                       /\ disk'[conn[c].id][p] = disk[conn[c].id][p]
                    \/ reply'.item = p /\ reply'.type \in {"UPDATE", "ERASE"}
  OBVIOUS
<1> DEFINE u == conn[c].id
<1>1. u \in User /\ p \in DOMAIN disk[u]
  BY LiveUser DEF IInv, EntryBacked, Backed
<1>2. u \in DOMAIN streams => streams[u] # p
  <2>1. ASSUME u \in DOMAIN streams, streams[u] = p PROVE FALSE
    <3>1. dir[c][p] = [synced |-> FALSE, digest |-> TEMP]
      BY <2>1 DEF IInv, UploadUnfinished
    <3>2. QED BY <3>1
  <2>2. QED BY <2>1
<1>3. CASE disk' = disk
  BY <1>1, <1>3
<1>4. ASSUME disk' # disk,
             NEW e \in Conn, NEW q \in Path, NEW type \in {"CREATE", "UPDATE", "ERASE"},
             FileEffect(e, type, q), type = "CREATE" /\ IsSynced(e, q) => disk' = disk
      PROVE  \/ p \in DOMAIN disk'[u] /\ disk'[u][p] = disk[u][p]
             \/ reply'.item = p /\ reply'.type \in {"UPDATE", "ERASE"}
  <2>1. CASE conn[e].id # u
    BY <1>1, <1>4, <2>1 DEF FileEffect
  <2>2. CASE conn[e].id = u
    <3>1. e = c
      BY <2>2 DEF IInv, IdOwned, OneSessionEach, Live
    <3>2. CASE q # p
      BY <1>1, <1>2, <1>4, <3>1, <3>2 DEF FileEffect, Keeps
    <3>3. CASE q = p
      BY <1>4, <3>1, <3>3 DEF FileEffect, IsSynced
    <3>4. QED BY <3>2, <3>3
  <2>3. QED BY <2>1, <2>2
<1>5. QED BY <1>3, <1>4, NextEffect DEF IInv

\* When a user has one connection at a time and no path is the temporary of another, a
\* complete file changes only in an UPDATE or an ERASE that names it: the chunks of the
\* user's other uploads never reach it, although they share one stream.
THEOREM CompleteFilesStay ==
    ASSUME OneSessionEach, TempsApart
    PROVE  Spec => CompleteFileKept
<1>1. IInv /\ [Next]_vars =>
        [\A c \in Conn : Live(c) =>
           LET u == conn[c].id
           IN \A p \in Path \cap DOMAIN dir[c] : dir[c][p].synced =>
                \/ p \in DOMAIN disk'[u] /\ disk'[u][p] = disk[u][p]
                \/ reply'.item = p /\ reply'.type \in {"UPDATE", "ERASE"}]_vars
  BY CompleteStep
<1>2. QED BY <1>1, InitInv, NextInv, PTL DEF Spec, CompleteFileKept

-----------------------------------------------------------------------------
(***************************************************************************)
(* What does not take the server down.                                     *)
(***************************************************************************)
\* The calls whose failure a handler does not survive, and an ITEM without a NUL.
FatalFaults == {"open", "read", "remove", "rename", "sign"}

\* A session that has logged in knows its user.
AuthKnowsUser == \A c \in Conn : conn[c].auth => conn[c].id # None

Answered == TypeOK /\ AuthKnowsUser /\ EveryRequestAnswered

LEMMA FaultsApart ==
    ASSUME FatalFaults \cap Faults = {}
    PROVE  /\ \A op \in FatalFaults : op \notin Faults /\ Outcome(op) = {TRUE}
           /\ "open" \in FatalFaults /\ "read" \in FatalFaults
           /\ "remove" \in FatalFaults /\ "rename" \in FatalFaults /\ "sign" \in FatalFaults
BY DEF Outcome, FatalFaults

LEMMA NoEffectAnswered ==
    ASSUME NEW c, NoEffect(c)
    PROVE  reply'.res # "LOST" /\ conn' = conn
<1>1. reply'.res = "NO_EFFECT"
  BY DEF NoEffect, NoReply
<1>2. QED BY <1>1 DEF NoEffect

LEMMA AnswerAnswered ==
    ASSUME NEW c, NEW type, NEW p, NEW final, NEW res, res # "LOST", Answer(c, type, p, final, res)
    PROVE  reply'.res # "LOST"
BY DEF Answer

LEMMA VerifyAnswered ==
    ASSUME FatalFaults \cap Faults = {}, NEW c, NEW type, NEW p, NEW d,
           NEW files, p \in DOMAIN files, NEW view, Verify(c, type, p, d, files, view)
    PROVE  reply'.res # "LOST" /\ conn' = conn
<1>1. "read" \notin Faults /\ "remove" \notin Faults
  BY FaultsApart
<1>2. \E res \in {"OK", "NO_MATCH"} : \E folder, seen, slots :
        Answer(c, type, p, TRUE, res) /\ Commit(c, folder, seen, slots)
  BY <1>1 DEF Verify
<1>3. QED BY <1>2, AnswerAnswered DEF Commit

LEMMA CreateAnswered ==
    ASSUME TypeOK, FatalFaults \cap Faults = {}, NEW c \in Conn, conn[c].id \in User,
           NEW p \in Path, NEW d, NEW data \in Data, NEW last \in BOOLEAN,
           HandleCreate(c, p, d, data, last)
    PROVE  reply'.res # "LOST" /\ conn' = conn
<1> DEFINE u == conn[c].id
<1>1. CASE NoEffect(c) \/ Fail(c, "CREATE", p)
  BY <1>1, NoEffectAnswered, AnswerAnswered DEF Fail
<1>2. ASSUME NEW res \in {"OK", "FAILED"}, Answer(c, "CREATE", p, FALSE, res), conn' = conn
      PROVE  reply'.res # "LOST" /\ conn' = conn
  BY <1>2 DEF Answer
<1>3. ASSUME NEW opened \in BOOLEAN, opened, NEW written \in BOOLEAN, NEW s, NEW view,
             NEW files, files = OpenFile(u, p, opened),
             Verify(c, "CREATE", p, d, Chunked(files, s, data, written), view)
      PROVE  reply'.res # "LOST" /\ conn' = conn
  <2>1. p \in DOMAIN Chunked(files, s, data, written)
    BY <1>3, NameAssumption, ChunkFolder
  <2>2. QED BY <1>3, <2>1, VerifyAnswered
<1>4. Outcome("open") = {TRUE} /\ Outcome("write") \subseteq BOOLEAN
  BY FaultsApart DEF Outcome
<1>5. QED BY <1>1, <1>2, <1>3, <1>4 DEF HandleCreate, Commit, Chunked

LEMMA UpdateAnswered ==
    ASSUME TypeOK, FatalFaults \cap Faults = {}, NEW c \in Conn, conn[c].id \in User,
           NEW p \in Path, NEW d, NEW data \in Data, NEW last \in BOOLEAN,
           HandleUpdate(c, p, d, data, last)
    PROVE  reply'.res # "LOST" /\ conn' = conn
<1> DEFINE u == conn[c].id
<1>1. CASE NoEffect(c)
  BY <1>1, NoEffectAnswered
<1>2. ASSUME NEW res \in {"OK", "FAILED"}, Answer(c, "UPDATE", p, FALSE, res), conn' = conn
      PROVE  reply'.res # "LOST" /\ conn' = conn
  BY <1>2 DEF Answer
<1>3. ASSUME NEW opened \in BOOLEAN, opened, NEW written \in BOOLEAN, NEW s, NEW view,
             NEW files, files = OpenFile(u, Temp[p], opened),
             Swap(c, p, d, Chunked(files, s, data, written), view)
      PROVE  reply'.res # "LOST" /\ conn' = conn
  <2> DEFINE kept == Chunked(files, s, data, written)
  <2>0. PICK f \in Name : f = Temp[p]
    BY NameAssumption
  <2>1. files = OpenFile(u, f, opened)
    BY <1>3, <2>0
  <2>2. IsFolder(kept) /\ (opened => f \in DOMAIN kept)
    BY <2>1, ChunkFolder
  <2>3. Outcome("remove") = {TRUE} /\ Outcome("rename") = {TRUE}
    BY FaultsApart
  <2>4. Verify(c, "UPDATE", p, d, Replace(kept, p), view)
    BY <1>3, <2>0, <2>2, <2>3 DEF Swap
  <2>5. p \in DOMAIN Replace(kept, p)
    BY DEF Replace, Put
  <2>6. QED BY <2>4, <2>5, VerifyAnswered
<1>4. Outcome("open") = {TRUE} /\ Outcome("write") \subseteq BOOLEAN
  BY FaultsApart DEF Outcome
<1>5. QED BY <1>1, <1>2, <1>3, <1>4 DEF HandleUpdate, Commit, Chunked

LEMMA RequestAnswered ==
    ASSUME Answered, FatalFaults \cap Faults = {}, NEW c \in Conn, Request(c)
    PROVE  reply'.res # "LOST" /\ AuthKnowsUser'
<1>1. CASE HandleAuth(c)
  <2>1. CASE NoEffect(c)
    BY <2>1, NoEffectAnswered DEF Answered, AuthKnowsUser
  <2>2. CASE /\ conn' = [conn EXCEPT ![c].auth = TRUE, ![c].id = Owner[c]]
             /\ Answer(c, "AUTH", None, FALSE, "OK")
    <3>1. Owner[c] # None /\ conn \in [Conn -> Session]
      BY OwnerAssumption, TokenAssumption DEF Answered, TypeOK
    <3>2. conn'[c].id = Owner[c] /\ \A e \in Conn \ {c} : conn'[e] = conn[e]
      BY <2>2, <3>1 DEF Session
    <3>3. AuthKnowsUser'
      BY <3>1, <3>2 DEF Answered, AuthKnowsUser
    <3>4. QED BY <2>2, <3>3, AnswerAnswered
  <2>3. QED BY <1>1, <2>1, <2>2 DEF HandleAuth
<1>2. CASE HandleSync(c)
  <2>1. conn[c].id # None
    BY <1>2 DEF HandleSync, Serving, Answered, AuthKnowsUser
  <2>2. PICK listed \in Outcome("sync") :
          /\ conn' = [conn EXCEPT ![c].synced = listed]
          /\ Answer(c, "SYNC", None, FALSE, IF listed THEN "OK" ELSE "FAILED")
    BY <1>2, <2>1, FaultsApart DEF HandleSync
  <2>3. AuthKnowsUser'
    BY <2>2 DEF Answered, TypeOK, AuthKnowsUser, Session
  <2>4. QED BY <2>2, <2>3 DEF Answer
<1>3. CASE FileRequest(c)
  <2>1. conn[c].id # None /\ conn[c].id \in User
    BY <1>3 DEF FileRequest, Serving, Answered, AuthKnowsUser, TypeOK, Session
  <2>2. ASSUME NEW p, NEW d, HandleErase(c, p, d) PROVE reply'.res # "LOST" /\ conn' = conn
    BY <2>2, NoEffectAnswered, AnswerAnswered DEF HandleErase, Fail, Commit
  <2>3. reply'.res # "LOST" /\ conn' = conn
    BY <1>3, <2>1, <2>2, CreateAnswered, UpdateAnswered DEF FileRequest, WithDir, Answered
  <2>4. QED BY <2>3 DEF Answered, AuthKnowsUser
<1>4. CASE NoEffect(c)
  BY <1>4, NoEffectAnswered DEF Answered, AuthKnowsUser
<1>5. QED BY <1>1, <1>2, <1>3, <1>4, FaultsApart
       DEF Request, KeepAlive, HandleMalformed, HandleOther

LEMMA NextAnswered ==
    ASSUME FatalFaults \cap Faults = {}, FreshFlag \subseteq {FALSE}
    PROVE  Answered /\ [Next]_vars => Answered'
<1> SUFFICES ASSUME Answered, [Next]_vars PROVE Answered'
  OBVIOUS
<1>1. TypeOK'
  BY NextType DEF Answered
<1>2. CASE UNCHANGED vars
  BY <1>1, <1>2 DEF vars, Answered, AuthKnowsUser, EveryRequestAnswered
<1>3. ASSUME NEW c \in Conn, Accept(c) \/ Shutdown(c) PROVE Answered'
  <2>1. \A e \in Conn : conn'[e] = conn[e] \/ ~conn'[e].auth
    <3>1. CASE Accept(c)
      <4>1. PICK a \in FreshFlag, s \in FreshFlag :
              conn' = [conn EXCEPT ![c] = [open |-> TRUE, auth |-> a, synced |-> s, id |-> None]]
        BY <3>1 DEF Accept
      <4>2. a = FALSE
        OBVIOUS
      <4>3. QED BY <4>1, <4>2 DEF Answered, TypeOK
    <3>2. CASE Shutdown(c)
      BY <3>2 DEF Shutdown, Closed, Answered, TypeOK
    <3>3. QED BY <1>3, <3>1, <3>2
  <2>2. QED BY <1>1, <1>3, <2>1
         DEF Accept, Shutdown, NoReply, Answered, AuthKnowsUser, EveryRequestAnswered
<1>4. ASSUME NEW c \in Conn, Request(c) PROVE Answered'
  BY <1>1, <1>4, RequestAnswered DEF Answered, EveryRequestAnswered
<1>5. CASE Stop
  BY <1>1, <1>5 DEF Stop, Halt, Closed, NoReply, Answered, AuthKnowsUser, EveryRequestAnswered
<1>6. CASE Restart
  BY <1>1, <1>6 DEF Restart, NoReply, Answered, AuthKnowsUser, EveryRequestAnswered
<1>7. QED BY <1>2, <1>3, <1>4, <1>5, <1>6 DEF Next

\* When a user has one connection at a time and the flags of a new session are false, no
\* request takes the server down but for a file that cannot be opened, read, removed or
\* renamed and an ITEM that is not a sign: neither a failing listing, directory or write,
\* nor uploads that overlap, nor paths that are temporaries of one another.
THEOREM ServerSurvives ==
    ASSUME OneSessionEach, FatalFaults \cap Faults = {}, FreshFlag \subseteq {FALSE}
    PROVE  Spec => []EveryRequestAnswered
<1>1. Init => Answered
  BY InitType DEF Init, Closed, NoReply, Answered, AuthKnowsUser, EveryRequestAnswered
<1>2. Answered => EveryRequestAnswered
  BY DEF Answered
<1>3. QED BY <1>1, <1>2, NextAnswered, PTL DEF Spec

-----------------------------------------------------------------------------
\* A session that has not logged in is not synced.
SyncedAfterAuth == \A c \in Conn : conn[c].synced => conn[c].auth

RInv == IInv /\ SyncedAfterAuth

-----------------------------------------------------------------------------
(***************************************************************************)
(* The store of one user, with a session that has a view and without one.  *)
(***************************************************************************)
Seen(files, view) ==
    [p \in Path |-> IF p \in DOMAIN files /\ p \in DOMAIN view /\ view[p].digest # TEMP
                    THEN files[p] ELSE None]

All(files) == [p \in Path |-> IF p \in DOMAIN files THEN files[p] ELSE None]

Pending(view) == {p \in Path \cap DOMAIN view : ~view[p].synced}

\* A user's session is the one that CHOOSE finds, so the complete files are those of
\* its view.
StoreOfUser ==
    /\ \A c \in Conn : Live(c) =>
         /\ conn[c].id \in User => Stored[conn[c].id] = Seen(disk[conn[c].id], dir[c])
         /\ conn[c].id \in User => Uploading[conn[c].id] = Pending(dir[c])
    /\ \A u \in User : ~HasSession(u) => Stored[u] = All(disk[u]) /\ Uploading[u] = {}

LEMMA StoreIsOfUser == ASSUME OneSessionEach PROVE IdOwned => StoreOfUser
<1> SUFFICES ASSUME IdOwned PROVE StoreOfUser
  OBVIOUS
<1>1. ASSUME NEW c \in Conn, Live(c), conn[c].id \in User
      PROVE  /\ Stored[conn[c].id] = Seen(disk[conn[c].id], dir[c])
             /\ Uploading[conn[c].id] = Pending(dir[c])
  <2> DEFINE u == conn[c].id
  <2>1. HasSession(u)
    BY <1>1 DEF HasSession
  <2>2. SessionOf(u) \in Conn /\ Live(SessionOf(u)) /\ conn[SessionOf(u)].id = u
    BY <2>1 DEF HasSession, SessionOf
  <2>3. SessionOf(u) = c
    BY <1>1, <2>2 DEF IdOwned, OneSessionEach, Live
  <2>4. \A p \in Path :
          Complete(u, p) <=>
            p \in DOMAIN disk[u] /\ p \in DOMAIN dir[c] /\ dir[c][p].digest # TEMP
    BY <2>1, <2>3 DEF Complete
  <2>5. Stored[u] = Seen(disk[u], dir[c])
    BY <1>1, <2>4 DEF Stored, Seen
  <2>6. Uploading[u] = Pending(dir[c])
    BY <1>1, <2>1, <2>3 DEF Uploading, Pending
  <2>7. QED BY <2>5, <2>6
<1>2. ASSUME NEW u \in User, ~HasSession(u)
      PROVE  Stored[u] = All(disk[u]) /\ Uploading[u] = {}
  BY <1>2 DEF Stored, Complete, Uploading, All
<1>3. QED BY <1>1, <1>2 DEF StoreOfUser

LEMMA StoreIsOfUserNext == ASSUME OneSessionEach PROVE IdOwned' => StoreOfUser'
<1>1. IdOwned => StoreOfUser
  BY StoreIsOfUser
<1>2. QED BY <1>1, PTL

\* Two maps of the users are equal if they are for each user.
LEMMA StoreDomains ==
    /\ Stored = [u \in User |-> Stored[u]] /\ Uploading = [u \in User |-> Uploading[u]]
    /\ Stored' = [u \in User |-> Stored'[u]] /\ Uploading' = [u \in User |-> Uploading'[u]]
BY DEF Stored, Uploading

-----------------------------------------------------------------------------
(***************************************************************************)
(* What the steps of the request handler do to the stores.                 *)
(***************************************************************************)
\* A user whose session, view and folder stay as they are has the same store.
LEMMA UserKept ==
    ASSUME IdOwned, IdOwned', OneSessionEach, NEW v \in User, disk'[v] = disk[v],
           \A e \in Conn : Live(e) \/ Live(e)' =>
             \/ conn[e].id # v /\ conn'[e].id # v
             \/ conn'[e] = conn[e] /\ dir'[e] = dir[e]
    PROVE  Stored'[v] = Stored[v] /\ Uploading'[v] = Uploading[v]
<1>0. StoreOfUser /\ StoreOfUser'
  BY StoreIsOfUser, StoreIsOfUserNext
<1>1. CASE HasSession(v)
  <2>1. PICK e \in Conn : Live(e) /\ conn[e].id = v
    BY <1>1 DEF HasSession
  <2>2. conn'[e] = conn[e] /\ dir'[e] = dir[e] /\ Live(e)'
    BY <2>1 DEF Live
  <2>3. /\ Stored[v] = Seen(disk[v], dir[e]) /\ Uploading[v] = Pending(dir[e])
        /\ Stored'[v] = Seen(disk'[v], dir'[e]) /\ Uploading'[v] = Pending(dir'[e])
    BY <1>0, <2>1, <2>2 DEF StoreOfUser, Seen, Pending
  <2>4. QED BY <2>2, <2>3
<1>2. CASE ~HasSession(v)
  <2>1. ~HasSession(v)'
    BY <1>2 DEF HasSession, Live
  <2>2. Stored'[v] = All(disk'[v]) /\ Uploading'[v] = {}
    BY <1>0, <2>1 DEF StoreOfUser, All
  <2>3. QED BY <1>0, <1>2, <2>2 DEF StoreOfUser
<1>3. QED BY <1>1, <1>2

LEMMA SameStore ==
    ASSUME IdOwned, IdOwned', OneSessionEach, UNCHANGED <<conn, dir, disk>>
    PROVE  UNCHANGED <<Stored, Uploading>>
<1>1. \A v \in User : Stored'[v] = Stored[v] /\ Uploading'[v] = Uploading[v]
  BY UserKept
<1>2. QED BY <1>1, StoreDomains

\* A handler that commits files and a view for its user.
LEMMA CommitStore ==
    ASSUME IInv, IdOwned', OneSessionEach, NEW c \in Conn, Live(c), NEW u, u = conn[c].id,
           NEW files, NEW view, NEW slots, Commit(c, files, view, slots)
    PROVE  /\ Stored' = [Stored EXCEPT ![u] = Seen(files, view)]
           /\ Uploading' = [Uploading EXCEPT ![u] = Pending(view)]
<1>1. u \in User /\ DOMAIN dir = Conn /\ DOMAIN disk = User
  BY LiveUser DEF IInv, TypeOK
<1>2. /\ conn' = conn /\ dir'[c] = view /\ disk'[u] = files
      /\ \A e \in Conn \ {c} : dir'[e] = dir[e]
      /\ \A v \in User \ {u} : disk'[v] = disk[v]
  BY <1>1 DEF Commit
<1>3. StoreOfUser'
  BY StoreIsOfUserNext
<1>4. Stored'[u] = Seen(files, view) /\ Uploading'[u] = Pending(view)
  <2>1. Live(c)' /\ conn'[c].id = u
    BY <1>2 DEF Live
  <2>2. Stored'[u] = Seen(disk'[u], dir'[c]) /\ Uploading'[u] = Pending(dir'[c])
    BY <1>1, <1>3, <2>1 DEF StoreOfUser, Seen, Pending
  <2>3. QED BY <1>2, <2>2
<1>5. ASSUME NEW v \in User \ {u}
      PROVE  Stored'[v] = Stored[v] /\ Uploading'[v] = Uploading[v]
  <2>1. \A e \in Conn : conn[e].id # v \/ e # c
    OBVIOUS
  <2>2. QED BY <1>2, <2>1, UserKept DEF IInv
<1>6. QED BY <1>1, <1>4, <1>5, StoreDomains

\* The end of the process: every file that is there will be taken for complete.
LEMMA HaltStore ==
    ASSUME IdOwned', OneSessionEach, Halt
    PROVE  /\ Stored' = [v \in User |-> All(disk'[v])]
           /\ Uploading' = [v \in User |-> {}]
<1>1. \A c \in Conn : ~Live(c)'
  BY DEF Halt, Closed, Live
<1>2. StoreOfUser'
  BY StoreIsOfUserNext
<1>3. \A v \in User : Stored'[v] = All(disk'[v]) /\ Uploading'[v] = {}
  BY <1>1, <1>2 DEF StoreOfUser, HasSession, All
<1>4. QED BY <1>3, StoreDomains

\* What a session holds to be complete is the file on disk, and not the one the
\* stream is on.
LEMMA StoredMeans ==
    ASSUME IInv, OneSessionEach, NEW v \in User, NEW q \in Path, Stored[v][q] # None
    PROVE  /\ q \in DOMAIN disk[v] /\ Stored[v][q] = disk[v][q]
           /\ ~(v \in DOMAIN streams /\ streams[v] = q)
<1>1. Complete(v, q) /\ Stored[v][q] = disk[v][q]
  BY DEF Stored
<1>2. ASSUME v \in DOMAIN streams, streams[v] = q PROVE FALSE
  <2>1. PICK e \in Conn : Live(e) /\ conn[e].id = v
    BY <1>2 DEF IInv, NoOrphanStream
  <2>2. dir[e][q] = [synced |-> FALSE, digest |-> TEMP]
    BY <1>2, <2>1 DEF IInv, UploadUnfinished
  <2>3. Stored[v] = Seen(disk[v], dir[e])
    BY <2>1, StoreIsOfUser DEF IInv, StoreOfUser
  <2>4. QED BY <2>2, <2>3 DEF Seen
<1>3. QED BY <1>1, <1>2 DEF Complete

\* The views differ in the entry of p only.
SameBut(view, old, p) ==
    \A q \in Path \ {p} : /\ q \in DOMAIN view <=> q \in DOMAIN old
                          /\ q \in DOMAIN old => view[q] = old[q]

\* The store of user u with files and view differs from what it was for p only.
StoreSameBut(files, view, u, p) ==
    \A q \in Path \ {p} : /\ Seen(files, view)[q] = Stored[u][q]
                          /\ q \in Pending(view) <=> q \in Uploading[u]

\* A request for p leaves the other files of the store as they are.
LEMMA OthersKept ==
    ASSUME IInv, OneSessionEach, NEW c \in Conn, Live(c), NEW p,
           NEW files, Keeps(files, conn[c].id, p), NEW view, SameBut(view, dir[c], p)
    PROVE  StoreSameBut(files, view, conn[c].id, p)
<1> DEFINE u == conn[c].id
<1> SUFFICES ASSUME NEW q \in Path \ {p}
             PROVE  /\ Seen(files, view)[q] = Stored[u][q]
                    /\ q \in Pending(view) <=> q \in Uploading[u]
  BY DEF StoreSameBut
<1>1. u \in User /\ Stored[u] = Seen(disk[u], dir[c]) /\ Uploading[u] = Pending(dir[c])
  BY LiveUser, StoreIsOfUser DEF IInv, StoreOfUser
<1>2. q \in Pending(view) <=> q \in Uploading[u]
  BY <1>1 DEF SameBut, Pending
<1> DEFINE Kept == Seen(files, view)[q] = Seen(disk[u], dir[c])[q]
<1>3. ASSUME q \notin DOMAIN dir[c] PROVE Kept
  BY <1>3 DEF SameBut, Seen
<1>4. ASSUME q \in DOMAIN dir[c] PROVE Kept
  <2>1. q \in DOMAIN disk[u]
    BY <1>4 DEF IInv, EntryBacked, Backed
  <2>2. u \in DOMAIN streams /\ streams[u] = q => dir[c][q].digest = TEMP
    BY <1>4 DEF IInv, UploadUnfinished
  <2>3. QED BY <1>4, <2>1, <2>2 DEF SameBut, Seen, Keeps
<1>5. QED BY <1>1, <1>2, <1>3, <1>4

-----------------------------------------------------------------------------
(***************************************************************************)
(* What the replies tell the users.                                        *)
(***************************************************************************)
SaysOf(type, final, res) ==
    CASE res = "LOST"                    -> "LOST"
      [] res = "NO_MATCH"                -> "REJECTED"
      [] res = "OK" /\ final             -> "STORED"
      [] res = "OK" /\ type = "ERASE"    -> "ERASED"
      [] OTHER                           -> "NONE"

LEMMA SaysCases ==
    ASSUME NEW type, NEW final \in BOOLEAN
    PROVE  /\ SaysOf(type, final, "LOST") = "LOST"
           /\ SaysOf(type, final, "NO_MATCH") = "REJECTED"
           /\ type # "ERASE" => SaysOf(type, TRUE, "OK") = "STORED"
           /\ SaysOf("ERASE", FALSE, "OK") = "ERASED"
           /\ type # "ERASE" => SaysOf(type, FALSE, "OK") = "NONE"
<1>1. SaysOf(type, final, "LOST") = "LOST"
  BY DEF SaysOf
<1>2. SaysOf(type, final, "NO_MATCH") = "REJECTED"
  BY DEF SaysOf
<1>3. type # "ERASE" => SaysOf(type, TRUE, "OK") = "STORED"
  BY DEF SaysOf
<1>4. SaysOf("ERASE", FALSE, "OK") = "ERASED"
  BY DEF SaysOf
<1>5. type # "ERASE" => SaysOf(type, FALSE, "OK") = "NONE"
  BY DEF SaysOf
<1>6. QED BY <1>1, <1>2, <1>3, <1>4, <1>5

LEMMA SaidAfter ==
    ASSUME NEW c \in Conn, NEW type, NEW p, NEW final, NEW res, Answer(c, type, p, final, res)
    PROVE  Store!Tell(Owner[c], p, SaysOf(type, final, res))
<1>1. reply' = [to |-> c, type |-> type, item |-> p, final |-> final, res |-> res]
  BY DEF Answer
<1>2. Says' = SaysOf(type, final, res)
  BY <1>1 DEF Says, SaysOf
<1>3. c # None
  BY TokenAssumption
<1>4. QED BY <1>1, <1>2, <1>3 DEF Store!Tell, Said

LEMMA SaidNothing ==
    ASSUME reply' = NoReply
    PROVE  Store!Tell(None, None, "NONE") /\ Says' = "NONE"
<1>1. Says' = "NONE"
  BY DEF NoReply, Says
<1>2. QED BY <1>1 DEF NoReply, Said, Store!Tell

\* A step that says nothing of a file and leaves the stores alone.
LEMMA QuietStep ==
    ASSUME TypeOK', UNCHANGED <<Stored, Uploading>>, Says' = "NONE"
    PROVE  Store!Next
<1>1. Said' \in Store!Answer
  BY OwnerAssumption DEF TypeOK, Reply, Said, Store!Answer
<1>2. Said'.says = "NONE"
  BY DEF Said
<1>3. Store!Quiet
  BY <1>1, <1>2 DEF Store!Quiet
<1>4. QED BY <1>3 DEF Store!Next

LEMMA NoEffectStep ==
    ASSUME IInv, IInv', OneSessionEach, NEW c \in Conn, NoEffect(c)
    PROVE  Store!Next
<1>1. Says' = "NONE"
  BY DEF NoEffect, NoReply, Says
<1>2. UNCHANGED <<Stored, Uploading>>
  BY SameStore DEF NoEffect, IInv
<1>3. QED BY <1>1, <1>2, QuietStep DEF IInv

LEMMA UnfinishedSays ==
    ASSUME NEW c \in Conn, NEW type, NEW p, NEW res \in {"OK", "FAILED"},
           Answer(c, type, p, FALSE, res), type = "ERASE" => res = "FAILED"
    PROVE  Says' = "NONE"
BY DEF Answer, Says

LEMMA FailStep ==
    ASSUME IInv, IInv', OneSessionEach, NEW c \in Conn, NEW type, NEW p, Fail(c, type, p)
    PROVE  Store!Next
<1>1. Says' = "NONE"
  BY UnfinishedSays DEF Fail
<1>2. UNCHANGED <<Stored, Uploading>>
  BY SameStore DEF Fail, IInv
<1>3. QED BY <1>1, <1>2, QuietStep DEF IInv

-----------------------------------------------------------------------------
(***************************************************************************)
(* The end of the process.                                                 *)
(***************************************************************************)
\* Files that are kept survive a step after which all that is there is complete.
LEMMA Survives ==
    ASSUME IInv, IInv', OneSessionEach, NEW v \in User, NEW p, Keeps(disk'[v], v, p),
           Stored'[v] = All(disk'[v])
    PROVE  Store!Survive(v, {p})
<1>1. IsFolder(disk'[v])
  BY DEF IInv, TypeOK, IsFolder
<1>2. Stored'[v] \in [Path -> Content \cup {None}]
  BY <1>1 DEF All, IsFolder, IsMap
<1>3. ASSUME NEW q \in Path \ {p}, Stored[v][q] # None PROVE Stored'[v][q] = Stored[v][q]
  <2>1. q \in DOMAIN disk[v] /\ Stored[v][q] = disk[v][q]
        /\ ~(v \in DOMAIN streams /\ streams[v] = q)
    BY <1>3, StoredMeans
  <2>2. q \in DOMAIN disk'[v] /\ disk'[v][q] = disk[v][q]
    BY <2>1 DEF Keeps
  <2>3. QED BY <2>1, <2>2 DEF All
<1>4. QED BY <1>2, <1>3 DEF Store!Survive

\* Nothing is lost of a folder that is left alone.
LEMMA SurvivesWhole ==
    ASSUME IInv, IInv', OneSessionEach, NEW v \in User, disk'[v] = disk[v],
           Stored'[v] = All(disk'[v])
    PROVE  Store!Survive(v, {})
<1>1. Keeps(disk'[v], v, None)
  BY DEF Keeps
<1>2. Store!Survive(v, {None})
  BY <1>1, Survives
<1>3. Path \ {None} = Path
  BY TokenAssumption
<1>4. QED BY <1>2, <1>3 DEF Store!Survive

\* A request of c takes the process down.
LEMMA AbortStep ==
    ASSUME IInv, IInv', OneSessionEach, NEW c \in Conn, NEW type, NEW p \in Path \cup {None},
           NEW folders, \A v \in User \ {Owner[c]} : folders[v] = disk[v],
           Keeps(folders[Owner[c]], Owner[c], p), Abort(c, type, p, folders)
    PROVE  Store!Next
<1> DEFINE u == Owner[c]
<1>1. u \in User /\ disk' = folders
  BY OwnerAssumption DEF Abort
<1>2. /\ Stored' = [v \in User |-> All(disk'[v])]
      /\ Uploading' = [v \in User |-> {}]
  BY HaltStore DEF Abort, IInv
<1>3. \A v \in User : Store!Survive(v, IF v = u THEN {p} ELSE {})
  BY <1>1, <1>2, Survives, SurvivesWhole
<1>4. Store!Halt(u, p)
  BY <1>2, <1>3, StoreDomains DEF Store!Halt
<1>5. Store!Tell(u, p, "LOST")
  <2>1. Store!Tell(u, p, SaysOf(type, FALSE, "LOST"))
    BY SaidAfter DEF Abort
  <2>2. SaysOf(type, FALSE, "LOST") = "LOST"
    BY SaysCases
  <2>3. QED BY <2>1, <2>2
<1>6. QED BY <1>1, <1>4, <1>5 DEF Store!Next

LEMMA StopStep ==
    ASSUME IInv, IInv', OneSessionEach, Stop
    PROVE  Store!Next
<1>1. /\ Stored' = [v \in User |-> All(disk'[v])]
      /\ Uploading' = [v \in User |-> {}]
  BY HaltStore DEF Stop, IInv
<1>2. \A v \in User : Store!Survive(v, {})
  BY <1>1, SurvivesWhole DEF Stop
<1>3. None \notin User
  BY TokenAssumption
<1>4. Store!Halt(None, None)
  BY <1>1, <1>2, <1>3, StoreDomains DEF Store!Halt
<1>5. Store!Tell(None, None, "NONE")
  BY SaidNothing DEF Stop
<1>6. QED BY <1>4, <1>5 DEF Store!Next

-----------------------------------------------------------------------------
(***************************************************************************)
(* The requests for a file.                                                *)
(***************************************************************************)
LEMMA LiveOwner ==
    ASSUME IInv, NEW c \in Conn, Live(c)
    PROVE  conn[c].id = Owner[c] /\ conn[c].id \in User
BY LiveUser DEF IInv, IdOwned, Live

\* A handler that changes folder and view for p changes the store for p.
LEMMA CommitOne ==
    ASSUME IInv, IInv', OneSessionEach, NEW c \in Conn, Live(c),
           NEW p \in Path, NEW files, Keeps(files, conn[c].id, p),
           NEW view, SameBut(view, dir[c], p),
           NEW slots, Commit(c, files, view, slots)
    PROVE  /\ Stored' = [Stored EXCEPT ![conn[c].id][p] = Seen(files, view)[p]]
           /\ Stored'[conn[c].id][p] = Seen(files, view)[p]
           /\ p \in Pending(view) => Uploading' = [Uploading EXCEPT ![conn[c].id] = @ \cup {p}]
           /\ p \notin Pending(view) => Uploading' = [Uploading EXCEPT ![conn[c].id] = @ \ {p}]
<1> DEFINE u == conn[c].id
<1>1. /\ Stored' = [Stored EXCEPT ![u] = Seen(files, view)]
      /\ Uploading' = [Uploading EXCEPT ![u] = Pending(view)]
  BY CommitStore DEF IInv
<1>2. StoreSameBut(files, view, u, p)
  BY OthersKept
<1>3. u \in User /\ Stored[u] = Seen(disk[u], dir[c]) /\ Uploading[u] = Pending(dir[c])
  BY LiveUser, StoreIsOfUser DEF IInv, StoreOfUser
<1>4. Seen(files, view) = [Stored[u] EXCEPT ![p] = Seen(files, view)[p]]
  BY <1>2, <1>3 DEF StoreSameBut, Seen
<1>5. /\ p \in Pending(view) => Pending(view) = Uploading[u] \cup {p}
      /\ p \notin Pending(view) => Pending(view) = Uploading[u] \ {p}
  BY <1>2, <1>3 DEF StoreSameBut, Pending
<1>6. Stored' = [Stored EXCEPT ![u][p] = Seen(files, view)[p]]
  BY <1>1, <1>4
<1>7. Stored'[u][p] = Seen(files, view)[p]
  BY <1>1, <1>3, StoreDomains
<1>8. QED BY <1>1, <1>5, <1>6, <1>7

\* One that keeps every file and every entry changes nothing.
LEMMA CommitNone ==
    ASSUME IInv, IInv', OneSessionEach, NEW c \in Conn, Live(c),
           NEW files, Keeps(files, conn[c].id, None), NEW slots, Commit(c, files, dir[c], slots)
    PROVE  UNCHANGED <<Stored, Uploading>>
<1> DEFINE u == conn[c].id
<1>1. /\ Stored' = [Stored EXCEPT ![u] = Seen(files, dir[c])]
      /\ Uploading' = [Uploading EXCEPT ![u] = Pending(dir[c])]
  BY CommitStore DEF IInv
<1>2. StoreSameBut(files, dir[c], u, None)
  <2>1. SameBut(dir[c], dir[c], None)
    BY DEF SameBut
  <2>2. QED BY <2>1, OthersKept
<1>3. u \in User /\ Stored[u] = Seen(disk[u], dir[c]) /\ Uploading[u] = Pending(dir[c])
  BY LiveUser, StoreIsOfUser DEF IInv, StoreOfUser
<1>4. None \notin Path
  BY TokenAssumption
<1>5. Seen(files, dir[c]) = Stored[u]
  BY <1>2, <1>3, <1>4 DEF StoreSameBut, Seen
<1>6. /\ Stored' = [Stored EXCEPT ![u] = Stored[u]]
      /\ Uploading' = [Uploading EXCEPT ![u] = Uploading[u]]
  BY <1>1, <1>3, <1>5
<1>7. Stored' = Stored
  BY <1>6, StoreDomains
<1>8. Uploading' = Uploading
  BY <1>6, StoreDomains
<1>9. QED BY <1>7, <1>8

\* The last chunk: the file is stored or removed, or the server is lost.
LEMMA VerifyStep ==
    ASSUME IInv, IInv', OneSessionEach, NEW c \in Conn, Live(c),
           NEW type, type # "ERASE", NEW p \in Path, NEW d, NEW files, IsFolder(files),
           Keeps(files, conn[c].id, p), NEW view, SameBut(view, dir[c], p),
           p \in DOMAIN view, view[p] = [synced |-> TRUE, digest |-> d],
           Verify(c, type, p, d, files, view)
    PROVE  Store!Next
<1> DEFINE u == conn[c].id
<1>0. u = Owner[c] /\ u \in User /\ u \in DOMAIN disk
  BY LiveOwner DEF IInv, TypeOK
<1>1. CASE Abort(c, type, p, [disk EXCEPT ![u] = files])
  <2> DEFINE folders == [disk EXCEPT ![u] = files]
  <2>1. folders[u] = files /\ \A v \in User \ {u} : folders[v] = disk[v]
    BY <1>0 DEF IInv, TypeOK
  <2> HIDE DEF folders
  <2>2. Abort(c, type, p, folders)
    BY <1>1 DEF folders
  <2>3. QED BY <1>0, <2>1, <2>2, AbortStep
<1>2. CASE /\ p \in DOMAIN files /\ Matches(files, p, d)
           /\ Commit(c, files, view, EraseStream(u)) /\ Answer(c, type, p, TRUE, "OK")
  <2>1. files[p] \in Content /\ files[p] = d /\ d # TEMP
    BY <1>2, TempAssumption DEF IsFolder, IsMap, Matches, Content
  <2>2. Seen(files, view)[p] = files[p] /\ p \notin Pending(view)
    BY <1>2, <2>1 DEF Seen, Pending
  <2>3. /\ Stored' = [Stored EXCEPT ![u][p] = Seen(files, view)[p]]
        /\ Stored'[u][p] = Seen(files, view)[p]
        /\ Uploading' = [Uploading EXCEPT ![u] = @ \ {p}]
    BY <1>2, <2>2, CommitOne
  <2>4. Store!Tell(u, p, SaysOf(type, TRUE, "OK"))
    BY <1>0, <1>2, SaidAfter
  <2>5. SaysOf(type, TRUE, "OK") = "STORED"
    BY SaysCases
  <2>6. Store!Store(u, p)
    BY <2>1, <2>2, <2>3, <2>4, <2>5 DEF Store!Store
  <2>7. QED BY <1>0, <2>6 DEF Store!Next
<1>3. CASE /\ Commit(c, Drop(files, p), Drop(view, p), EraseStream(u))
           /\ Answer(c, type, p, TRUE, "NO_MATCH")
  <2> DEFINE left == Drop(files, p)
             rest == Drop(view, p)
  <2>1. Keeps(left, u, p) /\ SameBut(rest, dir[c], p)
    BY DEF Keeps, SameBut, Drop, Restrict
  <2>2. Seen(left, rest)[p] = None /\ p \notin Pending(rest)
    BY DEF Seen, Pending, Drop, Restrict
  <2> HIDE DEF left, rest
  <2>0. Commit(c, left, rest, EraseStream(u))
    BY <1>3 DEF left, rest
  <2>3. /\ Stored' = [Stored EXCEPT ![u][p] = Seen(left, rest)[p]]
        /\ Uploading' = [Uploading EXCEPT ![u] = @ \ {p}]
    BY <2>0, <2>1, <2>2, CommitOne
  <2>4. Store!Tell(u, p, SaysOf(type, TRUE, "NO_MATCH"))
    BY <1>0, <1>3, SaidAfter
  <2>5. SaysOf(type, TRUE, "NO_MATCH") = "REJECTED"
    BY SaysCases
  <2>6. Store!Remove(u, p)
    BY <2>2, <2>3, <2>4, <2>5 DEF Store!Remove
  <2>7. QED BY <1>0, <2>6 DEF Store!Next
<1>4. QED BY <1>1, <1>2, <1>3 DEF Verify

\* The temporary takes the place of p, or the server is lost on the way.
LEMMA SwapStep ==
    ASSUME IInv, IInv', OneSessionEach, TempsApart, NEW c \in Conn, Live(c),
           NEW p \in Path, NEW d, NEW files, IsFolder(files),
           Keeps(files, conn[c].id, p), NEW view, SameBut(view, dir[c], p),
           p \in DOMAIN view, view[p] = [synced |-> TRUE, digest |-> d],
           Swap(c, p, d, files, view)
    PROVE  Store!Next
<1> DEFINE u == conn[c].id
<1>0. u = Owner[c] /\ u \in User /\ DOMAIN disk = User
  BY LiveOwner DEF IInv, TypeOK
<1>1. ASSUME NEW kept, Keeps(kept, u, p), Abort(c, "UPDATE", p, [disk EXCEPT ![u] = kept])
      PROVE  Store!Next
  <2> DEFINE folders == [disk EXCEPT ![u] = kept]
  <2>1. folders[u] = kept /\ \A v \in User \ {u} : folders[v] = disk[v]
    BY <1>0
  <2> HIDE DEF folders
  <2>2. Abort(c, "UPDATE", p, folders)
    BY <1>1 DEF folders
  <2>3. QED BY <1>0, <1>1, <2>1, <2>2, AbortStep
<1>2. Keeps(Drop(files, p), u, p)
  BY DEF Keeps, Drop, Restrict
<1>3. CASE /\ Temp[p] \in DOMAIN files
           /\ Verify(c, "UPDATE", p, d, Replace(files, p), view)
  <2>1. /\ DOMAIN Replace(files, p) = (DOMAIN files \ {Temp[p]}) \cup {p}
        /\ \A q \in DOMAIN files \ {p, Temp[p]} : Replace(files, p)[q] = files[q]
    BY DEF Replace, Put, Drop, Restrict
  <2>2. Keeps(Replace(files, p), u, p)
    BY <2>1 DEF Keeps, TempsApart
  <2>3. IsFolder(Replace(files, p))
    <3>1. p \in Name /\ files[Temp[p]] \in Content
      BY <1>3, NameAssumption DEF IsFolder, IsMap
    <3>2. IsFolder(Drop(Drop(files, p), Temp[p]))
      BY DropMap DEF IsFolder
    <3>3. QED BY <3>1, <3>2, PutMap DEF IsFolder, Replace
  <2>4. QED BY <1>3, <2>2, <2>3, VerifyStep
<1>4. QED BY <1>1, <1>2, <1>3 DEF Swap

\* With these files and this view, the file p of user u is as it was, or is not taken
\* for complete because its upload goes on.
NoSafer(files, view, u, p) ==
    \/ Seen(files, view)[p] = Stored[u][p]
    \/ Seen(files, view)[p] = None /\ p \in Uploading[u]

\* The first chunk of an upload: the file is no longer safe.
LEMMA BeginStep ==
    ASSUME IInv, IInv', OneSessionEach, NEW c \in Conn, Live(c),
           NEW type, type # "ERASE", NEW p \in Path,
           NEW files, Keeps(files, conn[c].id, p), NEW view, SameBut(view, dir[c], p),
           p \in DOMAIN view, ~view[p].synced, NoSafer(files, view, conn[c].id, p),
           NEW slots, Commit(c, files, view, slots), Answer(c, type, p, FALSE, "OK")
    PROVE  Store!Next
<1> DEFINE u == conn[c].id
<1>0. u = Owner[c] /\ u \in User
  BY LiveOwner
<1>1. p \in Pending(view)
  BY DEF Pending
<1>2. /\ Stored' = [Stored EXCEPT ![u][p] = Seen(files, view)[p]]
      /\ Uploading' = [Uploading EXCEPT ![u] = @ \cup {p}]
  BY <1>1, CommitOne
<1>3. Store!Tell(u, p, "NONE")
  <2>1. Store!Tell(u, p, SaysOf(type, FALSE, "OK"))
    BY <1>0, SaidAfter
  <2>2. SaysOf(type, FALSE, "OK") = "NONE"
    BY SaysCases
  <2>3. QED BY <2>1, <2>2
<1>4. \/ UNCHANGED Stored
      \/ p \in Uploading[u] /\ Stored' = [Stored EXCEPT ![u][p] = None]
  <2>1. Stored = [v \in User |-> [q \in Path |-> Stored[v][q]]]
    BY DEF Stored
  <2>2. CASE Seen(files, view)[p] = Stored[u][p]
    <3>1. Stored' = [Stored EXCEPT ![u][p] = Stored[u][p]]
      BY <1>2, <2>2
    <3>2. QED BY <1>0, <2>1, <3>1
  <2>3. QED BY <1>2, <2>2 DEF NoSafer
<1>5. Store!Receive(u, p)
  BY <1>2, <1>3, <1>4 DEF Store!Receive
<1>6. QED BY <1>0, <1>5 DEF Store!Next

\* A chunk that finds neither the first nor the last, or a failed stream.
LEMMA ChunkStep ==
    ASSUME IInv, IInv', OneSessionEach, NEW c \in Conn, Live(c),
           NEW type, type # "ERASE", NEW p \in Path, NEW files, Keeps(files, conn[c].id, None),
           NEW slots, Commit(c, files, dir[c], slots),
           NEW res \in {"OK", "FAILED"}, Answer(c, type, p, FALSE, res)
    PROVE  Store!Next
<1>1. UNCHANGED <<Stored, Uploading>>
  BY CommitNone
<1>2. Says' = "NONE"
  BY UnfinishedSays
<1>3. QED BY <1>1, <1>2, QuietStep DEF IInv

LEMMA CreateStep ==
    ASSUME IInv, IInv', OneSessionEach, NEW c \in Conn, Live(c),
           NEW p \in Path, NEW d \in Digest, NEW data \in Data, NEW last \in BOOLEAN,
           HandleCreate(c, p, d, data, last)
    PROVE  Store!Next
<1> DEFINE u == conn[c].id
           view == ViewAfter(c, p, last, d, TEMP)
<1>0. u \in User /\ TypeOK /\ p \in Name
  BY LiveUser, NameAssumption DEF IInv
<1>1. CASE NoEffect(c)
  BY <1>1, NoEffectStep
<1>2. CASE Fail(c, "CREATE", p)
  BY <1>2, FailStep
<1>3. ASSUME ~IsSynced(c, p),
             NEW opened \in BOOLEAN, NEW written \in BOOLEAN,
             NEW s, s = GetStream(u, p, opened), NEW files, files = OpenFile(u, p, opened),
             IF s = FailedStream
             THEN /\ Commit(c, files, dir[c], Put(streams, u, s))
                  /\ Answer(c, "CREATE", p, FALSE, "FAILED")
             ELSE IF last
             THEN Verify(c, "CREATE", p, d, Chunked(files, s, data, written), view)
             ELSE /\ Commit(c, Chunked(files, s, data, written), view,
                            Put(streams, u, StreamAfterWrite(s, written)))
                  /\ Answer(c, "CREATE", p, FALSE, "OK")
      PROVE  Store!Next
  <2> DEFINE kept == Chunked(files, s, data, written)
  <2>1. IsFolder(kept) /\ Keeps(kept, u, p)
    BY <1>0, <1>3, ChunkKeeps
  <2>2. Keeps(files, u, None)
    BY <1>0, <1>3, OpenFolder DEF Keeps
  <2>3. /\ SameBut(view, dir[c], p)
        /\ last => p \in DOMAIN view /\ view[p] = [synced |-> TRUE, digest |-> d]
        /\ ~last /\ u \notin DOMAIN streams =>
             p \in DOMAIN view /\ view[p] = [synced |-> FALSE, digest |-> TEMP]
        /\ ~last /\ u \in DOMAIN streams => view = dir[c]
    BY <1>0, ChunkView DEF SameBut
  <2> HIDE DEF kept, view
  <2>4. CASE s = FailedStream
    BY <1>3, <2>2, <2>4, ChunkStep
  <2>5. CASE s # FailedStream /\ last
    <3>1. Verify(c, "CREATE", p, d, kept, view)
      BY <1>3, <2>5 DEF kept
    <3>2. QED BY <2>1, <2>3, <2>5, <3>1, VerifyStep
  <2>6. CASE s # FailedStream /\ ~last /\ u \notin DOMAIN streams
    <3>1. \/ Seen(kept, view)[p] = Stored[u][p]
          \/ Seen(kept, view)[p] = None /\ p \in Uploading[u]
      <4>1. Stored[u] = Seen(disk[u], dir[c]) /\ Uploading[u] = Pending(dir[c])
        BY <1>0, StoreIsOfUser DEF IInv, StoreOfUser
      <4>2. Seen(kept, view)[p] = None
        BY <2>3, <2>6 DEF Seen
      <4>3. CASE p \notin DOMAIN dir[c]
        BY <4>1, <4>2, <4>3 DEF Seen
      <4>4. CASE p \in DOMAIN dir[c]
        BY <1>3, <4>1, <4>2, <4>4 DEF Pending, IsSynced
      <4>5. QED BY <4>3, <4>4
    <3>2. PICK slots : Commit(c, kept, view, slots) /\ Answer(c, "CREATE", p, FALSE, "OK")
      BY <1>3, <2>6 DEF kept
    <3>3. p \in DOMAIN view /\ ~view[p].synced
      BY <2>3, <2>6
    <3>4. NoSafer(kept, view, u, p)
      BY <3>1 DEF NoSafer
    <3>5. QED BY <2>1, <2>3, <3>2, <3>3, <3>4, BeginStep
  <2>7. CASE s # FailedStream /\ ~last /\ u \in DOMAIN streams
    <3>1. Keeps(kept, u, None)
      BY <1>0, <1>3, <2>7, ChunkKeeps DEF kept
    <3>2. \E slots : Commit(c, kept, dir[c], slots) /\ Answer(c, "CREATE", p, FALSE, "OK")
      BY <1>3, <2>3, <2>7 DEF kept
    <3>3. QED BY <3>1, <3>2, ChunkStep
  <2>8. QED BY <2>4, <2>5, <2>6, <2>7
<1>4. \A op : Outcome(op) \subseteq BOOLEAN
  BY DEF Outcome
<1>5. QED BY <1>1, <1>2, <1>3, <1>4 DEF HandleCreate, Chunked

LEMMA UpdateStep ==
    ASSUME IInv, IInv', OneSessionEach, TempsApart, NEW c \in Conn, Live(c),
           NEW p \in Path, NEW d \in Digest, NEW data \in Data, NEW last \in BOOLEAN,
           HandleUpdate(c, p, d, data, last)
    PROVE  Store!Next
<1> DEFINE u == conn[c].id
           view == ViewAfter(c, p, last, d, dir[c][p].digest)
<1>0. u \in User /\ TypeOK
  BY LiveUser DEF IInv
<1>1. CASE NoEffect(c)
  BY <1>1, NoEffectStep
<1>2. ASSUME p \in DOMAIN dir[c],
             NEW opened \in BOOLEAN, NEW written \in BOOLEAN,
             NEW s, s = GetStream(u, Temp[p], opened),
             NEW files, files = OpenFile(u, Temp[p], opened),
             IF s = FailedStream
             THEN /\ Commit(c, files, dir[c], Put(streams, u, s))
                  /\ Answer(c, "UPDATE", p, FALSE, "FAILED")
             ELSE IF last
             THEN Swap(c, p, d, Chunked(files, s, data, written), view)
             ELSE /\ Commit(c, Chunked(files, s, data, written), view, Put(streams, u, s))
                  /\ Answer(c, "UPDATE", p, FALSE, "OK")
      PROVE  Store!Next
  <2> DEFINE kept == Chunked(files, s, data, written)
  <2>0. PICK f \in Name : f = Temp[p]
    BY NameAssumption
  <2>1. f \notin Path /\ s = GetStream(u, f, opened) /\ files = OpenFile(u, f, opened)
    BY <1>2, <2>0 DEF TempsApart
  <2>2. IsFolder(kept) /\ Keeps(kept, u, p)
    BY <1>0, <2>1, ChunkKeeps
  <2>3. Keeps(kept, u, None)
    BY <1>0, <2>1, ChunkKeeps
  <2>4. Keeps(files, u, None)
    BY <1>0, <2>1, OpenFolder DEF Keeps
  <2>5. p \in DOMAIN disk[u] /\ dir[c][p].digest \in Content \cup {TEMP}
    BY <1>0, <1>2 DEF IInv, EntryBacked, Backed, TypeOK, IsView, IsMap, Resource
  <2>6. /\ SameBut(view, dir[c], p)
        /\ last => p \in DOMAIN view /\ view[p] = [synced |-> TRUE, digest |-> d]
        /\ ~last /\ u \notin DOMAIN streams =>
             p \in DOMAIN view /\ view[p] = [synced |-> FALSE, digest |-> dir[c][p].digest]
        /\ ~last /\ u \in DOMAIN streams => view = dir[c]
    BY <1>0, <2>5, ChunkView DEF SameBut
  <2> HIDE DEF kept, view
  <2>7. CASE s = FailedStream
    BY <1>2, <2>4, <2>7, ChunkStep
  <2>8. CASE s # FailedStream /\ last
    <3>1. Swap(c, p, d, kept, view)
      BY <1>2, <2>8 DEF kept
    <3>2. QED BY <2>2, <2>6, <2>8, <3>1, SwapStep
  <2>9. CASE s # FailedStream /\ ~last /\ u \notin DOMAIN streams
    <3>1. Stored[u] = Seen(disk[u], dir[c])
      BY <1>0, StoreIsOfUser DEF IInv, StoreOfUser
    <3>2. p \in DOMAIN kept /\ kept[p] = disk[u][p]
      BY <2>3, <2>5, <2>9, TokenAssumption DEF Keeps
    <3>3. NoSafer(kept, view, u, p)
      BY <1>2, <2>5, <2>6, <2>9, <3>1, <3>2 DEF Seen, NoSafer
    <3>4. PICK slots : Commit(c, kept, view, slots) /\ Answer(c, "UPDATE", p, FALSE, "OK")
      BY <1>2, <2>9 DEF kept
    <3>5. p \in DOMAIN view /\ ~view[p].synced
      BY <2>6, <2>9
    <3>6. QED BY <2>2, <2>6, <3>3, <3>4, <3>5, BeginStep
  <2>10. CASE s # FailedStream /\ ~last /\ u \in DOMAIN streams
    <3>1. PICK slots : Commit(c, kept, dir[c], slots) /\ Answer(c, "UPDATE", p, FALSE, "OK")
      BY <1>2, <2>6, <2>10 DEF kept
    <3>2. QED BY <2>3, <3>1, ChunkStep
  <2>11. QED BY <2>7, <2>8, <2>9, <2>10
<1>3. \A op : Outcome(op) \subseteq BOOLEAN
  BY DEF Outcome
<1>4. QED BY <1>1, <1>2, <1>3 DEF HandleUpdate, Chunked

LEMMA EraseStep ==
    ASSUME IInv, IInv', OneSessionEach, NEW c \in Conn, Live(c), NEW p \in Path, NEW d,
           HandleErase(c, p, d)
    PROVE  Store!Next
<1> DEFINE u == conn[c].id
           files == Unlink(disk[u], p)
           view == Drop(dir[c], p)
<1>0. u = Owner[c] /\ u \in User
  BY LiveOwner
<1>1. CASE NoEffect(c)
  BY <1>1, NoEffectStep
<1>2. CASE Fail(c, "ERASE", p)
  BY <1>2, FailStep
<1>3. ASSUME NEW slots, Commit(c, files, view, slots), Answer(c, "ERASE", p, FALSE, "OK")
      PROVE  Store!Next
  <2>1. Keeps(files, u, p) /\ SameBut(view, dir[c], p)
    BY DEF Keeps, SameBut, Unlink, Drop, Restrict
  <2>2. Seen(files, view)[p] = None /\ p \notin Pending(view)
    BY DEF Seen, Pending, Drop, Restrict
  <2> HIDE DEF files, view
  <2>3. /\ Stored' = [Stored EXCEPT ![u][p] = Seen(files, view)[p]]
        /\ Uploading' = [Uploading EXCEPT ![u] = @ \ {p}]
    BY <1>3, <2>1, <2>2, CommitOne
  <2>4. Store!Tell(u, p, SaysOf("ERASE", FALSE, "OK"))
    BY <1>0, <1>3, SaidAfter
  <2>5. SaysOf("ERASE", FALSE, "OK") = "ERASED"
    BY SaysCases
  <2>6. Store!Remove(u, p)
    BY <2>2, <2>3, <2>4, <2>5 DEF Store!Remove
  <2>7. QED BY <1>0, <2>6 DEF Store!Next
<1>4. QED BY <1>1, <1>2, <1>3 DEF HandleErase

\* A request that takes the process down before it has touched a folder.
LEMMA AbortQuietly ==
    ASSUME IInv, IInv', OneSessionEach, NEW c \in Conn, NEW type, NEW p \in Path \cup {None},
           Abort(c, type, p, disk)
    PROVE  Store!Next
<1>1. Keeps(disk[Owner[c]], Owner[c], p)
  BY DEF Keeps
<1>2. QED BY <1>1, AbortStep

LEMMA FileRequestStep ==
    ASSUME IInv, IInv', OneSessionEach, TempsApart, NEW c \in Conn, FileRequest(c)
    PROVE  Store!Next
<1>1. PICK p \in Path, d \in Digest :
        \/ \E data \in Data, last \in BOOLEAN :
             \/ WithDir(c, "CREATE", p, HandleCreate(c, p, d, data, last))
             \/ WithDir(c, "UPDATE", p, HandleUpdate(c, p, d, data, last))
        \/ WithDir(c, "ERASE", p, HandleErase(c, p, d))
  BY DEF FileRequest
<1>2. CASE conn[c].id = None
  BY <1>1, <1>2, AbortQuietly DEF WithDir
<1>3. CASE conn[c].id # None
  <2>1. Live(c)
    BY <1>3 DEF FileRequest, Serving, Live
  <2>2. ASSUME NEW data \in Data, NEW last \in BOOLEAN, HandleCreate(c, p, d, data, last)
        PROVE  Store!Next
    BY <2>1, <2>2, CreateStep
  <2>3. ASSUME NEW data \in Data, NEW last \in BOOLEAN, HandleUpdate(c, p, d, data, last)
        PROVE  Store!Next
    BY <2>1, <2>3, UpdateStep
  <2>4. CASE HandleErase(c, p, d)
    BY <2>1, <2>4, EraseStep
  <2>5. QED BY <1>1, <1>3, <2>2, <2>3, <2>4 DEF WithDir
<1>4. QED BY <1>2, <1>3

-----------------------------------------------------------------------------
(***************************************************************************)
(* Sessions begin and end.                                                 *)
(***************************************************************************)
\* Sessions that may not send requests for files do not count.
LEMMA IdleStep ==
    ASSUME IInv, IInv', OneSessionEach, disk' = disk, Says' = "NONE",
           \A e \in Conn : Live(e) \/ Live(e)' => conn'[e] = conn[e] /\ dir'[e] = dir[e]
    PROVE  Store!Next
<1>1. \A v \in User : Stored'[v] = Stored[v] /\ Uploading'[v] = Uploading[v]
  BY UserKept DEF IInv
<1>2. UNCHANGED <<Stored, Uploading>>
  BY <1>1, StoreDomains
<1>3. QED BY <1>2, QuietStep DEF IInv

LEMMA AcceptStep ==
    ASSUME IInv, IInv', OneSessionEach, FlagsStartFalse, NEW c \in Conn, Accept(c)
    PROVE  Store!Next
<1>1. PICK a \in FreshFlag, s \in FreshFlag :
        conn' = [conn EXCEPT ![c] = [open |-> TRUE, auth |-> a, synced |-> s, id |-> None]]
  BY DEF Accept
<1>2. ~Live(c) /\ ~Live(c)' /\ \A e \in Conn \ {c} : conn'[e] = conn[e]
  BY <1>1 DEF Accept, Live, IInv, TypeOK
<1>3. Says' = "NONE"
  BY SaidNothing DEF Accept
<1>4. QED BY <1>2, <1>3, IdleStep DEF Accept

LEMMA ShutdownStep ==
    ASSUME IInv, IInv', OneSessionEach, NEW c \in Conn, Shutdown(c)
    PROVE  Store!Next
<1>1. /\ disk' = disk /\ ~Live(c)' /\ conn'[c].id = None
      /\ \A e \in Conn \ {c} : conn'[e] = conn[e] /\ dir'[e] = dir[e]
  BY DEF Shutdown, Closed, Live, IInv, TypeOK
<1>2. CASE ~Live(c)
  <2>1. Says' = "NONE"
    BY SaidNothing DEF Shutdown
  <2>2. QED BY <1>1, <1>2, <2>1, IdleStep
<1>3. CASE Live(c)
  <2>1. PICK u \in User : u = conn[c].id /\ u = Owner[c]
    BY <1>3, LiveOwner
  <2>2. ASSUME NEW v \in User \ {u}
        PROVE  Stored'[v] = Stored[v] /\ Uploading'[v] = Uploading[v]
    <3>1. conn[c].id # v /\ conn'[c].id # v
      BY <1>1, <2>1, TokenAssumption
    <3>2. QED BY <1>1, <3>1, UserKept DEF IInv
  <2>3. ~HasSession(u)'
    <3>1. ASSUME NEW e \in Conn, Live(e)', conn'[e].id = u PROVE FALSE
      <4>1. e # c
        BY <1>1, <3>1
      <4>2. Live(e) /\ conn[e].id = u
        BY <1>1, <3>1, <4>1 DEF Live
      <4>3. QED BY <2>1, <4>1, <4>2 DEF IInv, IdOwned, OneSessionEach, Live
    <3>2. QED BY <3>1 DEF HasSession
  <2>4. Stored'[u] = All(disk'[u]) /\ Uploading'[u] = {}
    BY <2>1, <2>3, StoreIsOfUserNext DEF IInv, StoreOfUser, All
  <2>5. Store!Survive(u, {})
    BY <1>1, <2>1, <2>4, SurvivesWhole
  <2>6. /\ Stored' = [Stored EXCEPT ![u] = Stored'[u]]
        /\ Uploading' = [Uploading EXCEPT ![u] = {}]
    BY <2>1, <2>2, <2>4, StoreDomains
  <2>7. Store!Tell(None, None, "NONE")
    BY SaidNothing DEF Shutdown
  <2>8. Store!End(u)
    BY <2>5, <2>6, <2>7 DEF Store!End
  <2>9. QED BY <2>1, <2>8 DEF Store!Next
<1>4. QED BY <1>2, <1>3

LEMMA AuthStep ==
    ASSUME IInv, IInv', SyncedAfterAuth, OneSessionEach, NEW c \in Conn, HandleAuth(c)
    PROVE  Store!Next
<1>1. CASE NoEffect(c)
  BY <1>1, NoEffectStep
<1>2. CASE /\ conn' = [conn EXCEPT ![c].auth = TRUE, ![c].id = Owner[c]]
           /\ dir' = [dir EXCEPT ![c] = Empty]
           /\ Answer(c, "AUTH", None, FALSE, "OK")
           /\ UNCHANGED <<running, streams, disk>>
  <2>1. ~conn[c].synced
    BY DEF HandleAuth, Serving, SyncedAfterAuth, IInv, TypeOK, Session
  <2>2. ~Live(c) /\ ~Live(c)'
    BY <1>2, <2>1 DEF Live, IInv, TypeOK, Session
  <2>3. \A e \in Conn \ {c} : conn'[e] = conn[e] /\ dir'[e] = dir[e]
    BY <1>2 DEF IInv, TypeOK
  <2>4. Says' = "NONE"
    BY <1>2, UnfinishedSays
  <2>5. QED BY <1>2, <2>2, <2>3, <2>4, IdleStep
<1>3. QED BY <1>1, <1>2 DEF HandleAuth

\* The files the next session finds are those that count without one.
LEMMA ListingSeen ==
    ASSUME NEW files, IsFolder(files)
    PROVE  Seen(files, Listing(files)) = All(files) /\ Pending(Listing(files)) = {}
<1>1. \A q \in DOMAIN files : files[q] # TEMP
  BY TempAssumption DEF IsFolder, IsMap, Content
<1>2. /\ DOMAIN Listing(files) = DOMAIN files
      /\ \A p \in DOMAIN files : Listing(files)[p] = [synced |-> TRUE, digest |-> files[p]]
  BY ListingView
<1>3. Seen(files, Listing(files)) = All(files)
  BY <1>1, <1>2 DEF Seen, All
<1>4. Pending(Listing(files)) = {}
  BY <1>2 DEF Pending
<1>5. QED BY <1>3, <1>4

LEMMA SyncStep ==
    ASSUME IInv, IInv', OneSessionEach, NEW c \in Conn, HandleSync(c)
    PROVE  Store!Next
<1> DEFINE u == conn[c].id
<1>1. CASE Abort(c, "SYNC", None, disk)
  BY <1>1, AbortQuietly
<1>2. ASSUME u # None, NEW listed \in BOOLEAN,
             conn' = [conn EXCEPT ![c].synced = listed],
             dir' = [dir EXCEPT ![c] = IF listed THEN Listing(disk[u]) ELSE Empty],
             Answer(c, "SYNC", None, FALSE, IF listed THEN "OK" ELSE "FAILED"),
             UNCHANGED <<running, streams, disk>>
      PROVE  Store!Next
  <2>1. u \in User /\ u = Owner[c] /\ ~Live(c)
    BY <1>2 DEF HandleSync, Serving, Live, IInv, IdOwned, TypeOK, Session
  <2>2. /\ conn'[c].id = u /\ Live(c)' = listed
        /\ dir'[c] = IF listed THEN Listing(disk[u]) ELSE Empty
        /\ \A e \in Conn \ {c} : conn'[e] = conn[e] /\ dir'[e] = dir[e]
    BY <1>2 DEF HandleSync, Serving, Live, IInv, TypeOK, Session
  <2>3. Says' = "NONE"
    BY <1>2, UnfinishedSays
  <2>4. CASE ~listed
    BY <1>2, <2>1, <2>2, <2>3, <2>4, IdleStep
  <2>5. CASE listed
    <3>1. ASSUME NEW v \in User \ {u}
          PROVE  Stored'[v] = Stored[v] /\ Uploading'[v] = Uploading[v]
      BY <1>2, <2>2, UserKept DEF IInv
    <3>2. ~HasSession(u)
      BY <2>1 DEF HasSession, IInv, IdOwned, OneSessionEach, Live
    <3>3. Stored[u] = All(disk[u]) /\ Uploading[u] = {}
      BY <2>1, <3>2, StoreIsOfUser DEF IInv, StoreOfUser
    <3>4. IsFolder(disk[u])
      BY <2>1 DEF IInv, TypeOK
    <3>5. Stored'[u] = Seen(disk'[u], dir'[c]) /\ Uploading'[u] = Pending(dir'[c])
      BY <2>1, <2>2, <2>5, StoreIsOfUserNext DEF IInv, StoreOfUser, Seen, Pending
    <3>6. Stored'[u] = Stored[u] /\ Uploading'[u] = Uploading[u]
      BY <1>2, <2>2, <2>5, <3>3, <3>4, <3>5, ListingSeen
    <3>7. UNCHANGED <<Stored, Uploading>>
      BY <2>1, <3>1, <3>6, StoreDomains
    <3>8. QED BY <2>3, <3>7, QuietStep DEF IInv
  <2>6. QED BY <2>4, <2>5
<1>3. \A op : Outcome(op) \subseteq BOOLEAN
  BY DEF Outcome
<1>4. QED BY <1>1, <1>2, <1>3 DEF HandleSync

LEMMA RequestStep ==
    ASSUME IInv, IInv', SyncedAfterAuth, OneSessionEach, TempsApart, NEW c \in Conn, Request(c)
    PROVE  Store!Next
<1>1. ASSUME NEW type, HandleMalformed(c, type) PROVE Store!Next
  BY <1>1, NoEffectStep, AbortQuietly DEF HandleMalformed
<1>2. ASSUME NEW type, HandleOther(c, type) PROVE Store!Next
  BY <1>2, NoEffectStep DEF HandleOther
<1>3. CASE KeepAlive(c)
  BY <1>3, NoEffectStep DEF KeepAlive
<1>4. QED BY <1>1, <1>2, <1>3, AuthStep, SyncStep, FileRequestStep DEF Request

-----------------------------------------------------------------------------
(***************************************************************************)
(* The refinement.                                                         *)
(***************************************************************************)
\* What a request does to the flags of the sessions: nothing, one that has logged in
\* is synced or not, or all sessions end.
LEMMA RequestFlags ==
    ASSUME TypeOK, SyncedAfterAuth, NEW c \in Conn, Request(c)
    PROVE  SyncedAfterAuth'
<1>1. CASE conn' = conn
  BY <1>1 DEF SyncedAfterAuth
<1>2. CASE Halt
  BY <1>2 DEF Halt, Closed, SyncedAfterAuth
<1>3. CASE conn' = [conn EXCEPT ![c].auth = TRUE, ![c].id = Owner[c]]
  BY <1>3 DEF TypeOK, SyncedAfterAuth, Session
<1>4. ASSUME Serving(c, TRUE, FALSE), NEW listed, conn' = [conn EXCEPT ![c].synced = listed]
      PROVE  SyncedAfterAuth'
  BY <1>4 DEF TypeOK, SyncedAfterAuth, Session, Serving
<1>5. HandleAuth(c) => SyncedAfterAuth'
  BY <1>1, <1>3 DEF HandleAuth, NoEffect
<1>6. HandleSync(c) => SyncedAfterAuth'
  BY <1>2, <1>4 DEF HandleSync, Abort
<1>7. ASSUME NEW type, NEW p \in Path, NEW d, NEW files, NEW view,
             Verify(c, type, p, d, files, view)
      PROVE  SyncedAfterAuth'
  BY <1>1, <1>2, <1>7 DEF Verify, Commit, Abort
<1>8. ASSUME NEW p \in Path, NEW d, NEW files, NEW view, Swap(c, p, d, files, view)
      PROVE  SyncedAfterAuth'
  BY <1>2, <1>7, <1>8 DEF Swap, Abort
<1>9. ASSUME NEW p \in Path, NEW d, NEW data, NEW last \in BOOLEAN
      PROVE  /\ HandleCreate(c, p, d, data, last) => SyncedAfterAuth'
             /\ HandleUpdate(c, p, d, data, last) => SyncedAfterAuth'
             /\ HandleErase(c, p, d) => SyncedAfterAuth'
  <2>1. HandleCreate(c, p, d, data, last) => SyncedAfterAuth'
    BY <1>1, <1>7 DEF HandleCreate, NoEffect, Fail, Commit
  <2>2. HandleUpdate(c, p, d, data, last) => SyncedAfterAuth'
    BY <1>1, <1>8 DEF HandleUpdate, NoEffect, Commit
  <2>3. HandleErase(c, p, d) => SyncedAfterAuth'
    BY <1>1 DEF HandleErase, NoEffect, Fail, Commit
  <2>4. QED BY <2>1, <2>2, <2>3
<1>10. FileRequest(c) => SyncedAfterAuth'
  BY <1>2, <1>9 DEF FileRequest, WithDir, Abort
<1>11. KeepAlive(c) => SyncedAfterAuth'
  BY <1>1 DEF KeepAlive, NoEffect
<1>12. ASSUME NEW type
       PROVE  HandleMalformed(c, type) \/ HandleOther(c, type) => SyncedAfterAuth'
  BY <1>1, <1>2 DEF HandleMalformed, HandleOther, NoEffect, Abort
<1>13. QED BY <1>5, <1>6, <1>10, <1>11, <1>12 DEF Request

LEMMA NextFlags ==
    ASSUME FlagsStartFalse
    PROVE  TypeOK /\ SyncedAfterAuth /\ [Next]_vars => SyncedAfterAuth'
<1> SUFFICES ASSUME TypeOK, SyncedAfterAuth, [Next]_vars PROVE SyncedAfterAuth'
  OBVIOUS
<1>1. ASSUME NEW c \in Conn, Accept(c) PROVE SyncedAfterAuth'
  <2>1. PICK a \in FreshFlag, s \in FreshFlag :
          conn' = [conn EXCEPT ![c] = [open |-> TRUE, auth |-> a, synced |-> s, id |-> None]]
    BY <1>1 DEF Accept
  <2>2. s = FALSE
    BY DEF FlagsStartFalse
  <2>3. QED BY <2>1, <2>2 DEF TypeOK, SyncedAfterAuth
<1>2. ASSUME NEW c \in Conn, Shutdown(c) PROVE SyncedAfterAuth'
  BY <1>2 DEF Shutdown, Closed, TypeOK, SyncedAfterAuth
<1>3. CASE Stop
  BY <1>3 DEF Stop, Halt, Closed, SyncedAfterAuth
<1>4. CASE Restart \/ UNCHANGED vars
  BY <1>4 DEF Restart, vars, SyncedAfterAuth
<1>5. QED BY <1>1, <1>2, <1>3, <1>4, RequestFlags DEF Next

LEMMA NextRInv ==
    ASSUME OneSessionEach, TempsApart, FlagsStartFalse
    PROVE  RInv /\ [Next]_vars => RInv'
BY NextInv, NextFlags DEF RInv, IInv

\* Every step of the request handler is a step of the store, or none.
LEMMA NextStore ==
    ASSUME OneSessionEach, TempsApart, FlagsStartFalse
    PROVE  RInv /\ RInv' /\ [Next]_vars => [Store!Next]_Store!vars
<1> SUFFICES ASSUME RInv, RInv', [Next]_vars PROVE [Store!Next]_Store!vars
  OBVIOUS
<1>0. IInv /\ IInv' /\ SyncedAfterAuth
  BY DEF RInv
<1>1. CASE UNCHANGED vars
  <2>1. UNCHANGED <<Stored, Uploading>>
    BY <1>0, <1>1, SameStore DEF vars, IInv
  <2>2. UNCHANGED Said
    BY <1>1 DEF vars, Said, Says
  <2>3. QED BY <2>1, <2>2 DEF Store!vars
<1>2. CASE Restart
  <2>1. UNCHANGED <<Stored, Uploading>>
    BY <1>0, <1>2, SameStore DEF Restart, IInv
  <2>2. Says' = "NONE"
    BY <1>2, SaidNothing DEF Restart
  <2>3. QED BY <1>0, <2>1, <2>2, QuietStep DEF IInv
<1>3. CASE Stop
  BY <1>0, <1>3, StopStep
<1>4. ASSUME NEW c \in Conn, Accept(c) \/ Shutdown(c) \/ Request(c) PROVE Store!Next
  BY <1>0, <1>4, AcceptStep, ShutdownStep, RequestStep
<1>5. QED BY <1>1, <1>2, <1>3, <1>4 DEF Next

LEMMA InitStore == Init => Store!Init
<1> SUFFICES ASSUME Init PROVE Store!Init
  OBVIOUS
<1>1. \A c \in Conn : ~Live(c)
  BY DEF Init, Closed, Live
<1>2. \A u \in User : ~HasSession(u)
  BY <1>1 DEF HasSession
<1>3. \A u \in User : DOMAIN disk[u] = {}
  BY DEF Init, Empty
<1>4. Stored = [u \in User |-> [p \in Path |-> None]]
  BY <1>3 DEF Stored, Complete
<1>5. Uploading = [u \in User |-> {}]
  BY <1>2 DEF Uploading
<1>6. Said = [user |-> None, item |-> None, says |-> "NONE"]
  BY DEF Init, NoReply, Said, Says
<1>7. QED BY <1>4, <1>5, <1>6 DEF Store!Init

\* The request handler keeps the promise of BackupStore, for any number of users, files
\* and chunks, whatever calls fail and whenever sessions and the server end: a user's
\* complete files change as the replies say and in no other way, if the user has one
\* connection at a time, no path is the temporary of another and a new session is not
\* taken for one that has logged in.
THEOREM KeepsThePromise ==
    ASSUME OneSessionEach, TempsApart, FlagsStartFalse
    PROVE  Spec => ImplementsStore
<1>1. Init => RInv /\ Store!Init
  <2>1. Init => SyncedAfterAuth
    BY DEF Init, Closed, SyncedAfterAuth
  <2>2. QED BY <2>1, InitInv, InitStore DEF RInv
<1>2. RInv /\ [Next]_vars => RInv'
  BY NextRInv
<1>3. RInv /\ RInv' /\ [Next]_vars => [Store!Next]_Store!vars
  BY NextStore
<1>4. QED BY <1>1, <1>2, <1>3, PTL DEF Spec, ImplementsStore, Store!Spec
=============================================================================
