-------------------------- MODULE UploadRaceProofs --------------------------
(***************************************************************************)
(* What UploadRace guarantees for any number of connections of a user,     *)
(* however their handlers interleave.                                      *)
(***************************************************************************)
EXTENDS UploadRace, TLAPS

-----------------------------------------------------------------------------
(***************************************************************************)
(* What a step may do to the folders and to the table.                     *)
(***************************************************************************)
\* No folder that was empty has a file, and no directory goes.
NoNewFile ==
    /\ DOMAIN disk' = DOMAIN disk
    /\ \A u \in User : DOMAIN disk'[u] # {} => DOMAIN disk[u] # {}

NoNewEntry == DOMAIN table' \subseteq DOMAIN table

\* No session ends.
NoneLeaves == /\ pc' \in [Conn -> Point]
              /\ \A c \in Conn : pc[c] # "away" => pc'[c] # "away"

LEMMA GoesOn ==
    ASSUME Shape, NEW c \in Conn, NEW p \in Point \ {"away"}, Go(c, p)
    PROVE  NoneLeaves
BY DEF Shape, Go, NoneLeaves

LEMMA FlushKeepsNames == ASSUME NEW files, NEW s PROVE DOMAIN Flush(files, s) = DOMAIN files
BY DEF Flush, WriteTo

LEMMA SameDisk == UNCHANGED disk => NoNewFile
BY DEF NoNewFile

\* The destructor of a stream writes to the file it has, and creates none.
LEMMA ReleaseNoNewFile ==
    ASSUME Shape, NEW u \in User, NEW i, NEW tab, NEW reqs, Release(u, i, tab, reqs)
    PROVE  NoNewFile
<1>1. CASE UNCHANGED <<stream, disk>>
  BY <1>1, SameDisk
<1>2. CASE disk' = [disk EXCEPT ![u] = Flush(@, stream[i])]
  BY <1>2, FlushKeepsNames DEF Shape, NoNewFile
<1>3. QED BY <1>1, <1>2 DEF Release

LEMMA DropNoNewFile ==
    ASSUME Shape, NEW u \in User, NEW p, disk' = [disk EXCEPT ![u] = Drop(@, p)]
    PROVE  NoNewFile
BY DEF Shape, NoNewFile, Drop, Restrict

LEMMA FlushNoNewFile ==
    ASSUME Shape, NEW u \in User, NEW s, disk' = [disk EXCEPT ![u] = Flush(@, s)]
    PROVE  NoNewFile
BY FlushKeepsNames DEF Shape, NoNewFile

\* A step with none of the three effects keeps the invariant.
LEMMA QuietIInv ==
    ASSUME IInv, NoNewFile, NoNewEntry, NoneLeaves, UNCHANGED subdir
    PROVE  IInv'
<1>1. Shape'
  BY DEF IInv, Shape, NoNewFile, NoneLeaves
<1>2. FilesInDirectory'
  BY DEF IInv, FilesInDirectory, NoNewFile
<1>3. TableOfSessions'
  BY DEF IInv, TableOfSessions, NoNewEntry, NoneLeaves, At
<1>4. QED BY <1>1, <1>2, <1>3 DEF IInv

LEMMA KillIInv == ASSUME IInv, Kill PROVE IInv'
<1>1. Shape'
  BY DEF IInv, Shape, Kill, Point
<1>2. FilesInDirectory'
  BY DEF IInv, FilesInDirectory, Kill
<1>3. TableOfSessions'
  BY DEF TableOfSessions, Kill, Empty
<1>4. QED BY <1>1, <1>2, <1>3 DEF IInv

\* What ForgetStream does to the table: the user has no entry, and the others keep theirs.
LEMMA ForgetEntries ==
    ASSUME Shape, NEW c \in Conn, NEW after, ForgetStream(c, after)
    PROVE  /\ DOMAIN table' = DOMAIN table \ {Owner[c]}
           /\ NoNewFile /\ Go(c, after)
<1>1. Owner[c] \in User
  BY ConnAssumption
<1>2. DOMAIN Forget(Owner[c]) = DOMAIN table \ {Owner[c]}
  BY DEF Forget, Drop, Restrict
<1>3. PICK i, tab, reqs : Release(Owner[c], i, tab, reqs)
  BY DEF ForgetStream
<1>4. NoNewFile
  BY <1>1, <1>3, ReleaseNoNewFile
<1>5. QED BY <1>2, <1>4 DEF ForgetStream

\* The end of a session takes the entry of its user with it, also if another session of
\* the user goes on.
LEMMA ShutdownIInv == ASSUME IInv, NEW c \in Conn, Shutdown(c) PROVE IInv'
<1>1. ForgetStream(c, "away") /\ UNCHANGED subdir
  BY DEF Shutdown
<1>2. /\ DOMAIN table' = DOMAIN table \ {Owner[c]}
      /\ NoNewFile /\ pc' = [pc EXCEPT ![c] = "away"]
  BY <1>1, ForgetEntries DEF IInv, Go
<1>3. Shape'
  BY <1>1, <1>2 DEF IInv, Shape, NoNewFile, Point
<1>4. FilesInDirectory'
  BY <1>1, <1>2 DEF IInv, FilesInDirectory, NoNewFile
<1>5. TableOfSessions'
  BY <1>2 DEF IInv, TableOfSessions, Shape, At
<1>6. QED BY <1>3, <1>4, <1>5 DEF IInv

LEMMA LeaveIInv ==
    ASSUME IInv, NEW c \in Conn, Leave(c), UNCHANGED <<table, subdir>>
    PROVE  IInv'
<1>1. Owner[c] \in User
  BY ConnAssumption
<1>2. NoNewFile
  BY <1>1, ReleaseNoNewFile DEF IInv, Leave
<1>3. NoneLeaves
  BY GoesOn DEF IInv, Leave, Point
<1>4. QED BY <1>2, <1>3, QuietIInv DEF NoNewEntry

\* The stream is made for a session, and the file only in a directory that is there.
LEMMA GetStreamIInv == ASSUME IInv, NEW c \in Conn, GetStream(c) PROVE IInv'
<1> DEFINE u == Owner[c]
<1>1. u \in User
  BY ConnAssumption
<1>2. /\ pc[c] = "get" /\ pc' = [pc EXCEPT ![c] = "take"]
      /\ disk' = IF subdir[u] THEN [disk EXCEPT ![u] = Touch(@, Target(req[c]))] ELSE disk
      /\ UNCHANGED subdir
  BY DEF GetStream, At, Go
<1>3. DOMAIN table' \subseteq DOMAIN table \cup {u}
  BY DEF GetStream, Put
<1>4. Shape'
  BY <1>2 DEF IInv, Shape, Point
<1>5. FilesInDirectory'
  BY <1>1, <1>2 DEF IInv, Shape, FilesInDirectory
<1>6. TableOfSessions'
  BY <1>2, <1>3 DEF IInv, Shape, TableOfSessions, At
<1>7. QED BY <1>4, <1>5, <1>6 DEF IInv

LEMMA CreateDirectoriesIInv == ASSUME IInv, NEW c \in Conn, CreateDirectories(c) PROVE IInv'
<1>1. /\ pc[c] = "mkdir" /\ pc' = [pc EXCEPT ![c] = "get"]
      /\ subdir' = [subdir EXCEPT ![Owner[c]] = TRUE]
      /\ UNCHANGED <<table, disk>>
  BY DEF CreateDirectories, At, Go
<1>2. Owner[c] \in User
  BY ConnAssumption
<1>3. QED
  BY <1>1, <1>2 DEF IInv, Shape, FilesInDirectory, TableOfSessions, At, Point

\* remove asks again whether the directory is empty.
LEMMA RemoveDirectoryIInv == ASSUME IInv, NEW c \in Conn, RemoveDirectory(c) PROVE IInv'
<1>1. /\ pc' = [pc EXCEPT ![c] = "return"]
      /\ subdir' = [subdir EXCEPT ![Owner[c]] = @ /\ ~Removable(Owner[c])]
      /\ UNCHANGED <<table, disk>>
  BY DEF RemoveDirectory, Go
<1>2. Owner[c] \in User
  BY ConnAssumption
<1>3. \A u \in User : DOMAIN disk[u] # {} => ~Removable(u)
  BY DEF Removable, Empty
<1>4. Shape'
  BY <1>1, <1>2 DEF IInv, Shape, Point
<1>5. FilesInDirectory'
  BY <1>1, <1>2, <1>3 DEF IInv, Shape, FilesInDirectory
<1>6. TableOfSessions'
  BY <1>1 DEF IInv, Shape, TableOfSessions, At
<1>7. QED BY <1>4, <1>5, <1>6 DEF IInv

-----------------------------------------------------------------------------
(***************************************************************************)
(* The actions that make no file, no entry and end no session.             *)
(***************************************************************************)
LEMMA BeginIInv == ASSUME IInv, NEW c \in Conn, Begin(c) PROVE IInv'
<1>1. NoneLeaves
  BY GoesOn DEF IInv, Begin, Point
<1>2. QED BY <1>1, SameDisk, QuietIInv DEF Begin, NoNewEntry

LEMMA AskIInv == ASSUME IInv, NEW c \in Conn, Ask(c) PROVE IInv'
<1>1. PICK type \in Asks[c] :
        Go(c, CASE type = "CREATE" -> "mkdir" [] type = "UPDATE" -> "get"
                [] type = "ERASE" -> "unlink")
  BY DEF Ask
<1>2. type \in {"CREATE", "UPDATE", "ERASE"}
  BY AskAssumption
<1>3. \E p \in Point \ {"away"} : Go(c, p)
  BY <1>1, <1>2 DEF Point
<1>4. NoneLeaves
  BY <1>3, GoesOn DEF IInv
<1>5. QED BY <1>4, SameDisk, QuietIInv DEF Ask, NoNewEntry

LEMMA TakeIInv == ASSUME IInv, NEW c \in Conn, Take(c) PROVE IInv'
<1>1. CASE Healthy(req[c].iter) /\ Go(c, "write") /\ UNCHANGED <<table, disk, subdir>>
  <2>1. NoneLeaves
    BY <1>1, GoesOn DEF IInv, Point
  <2>2. QED BY <1>1, <2>1, SameDisk, QuietIInv DEF NoNewEntry
<1>2. CASE Leave(c) /\ UNCHANGED <<table, subdir>>
  BY <1>2, LeaveIInv
<1>3. CASE Kill
  BY <1>3, KillIInv
<1>4. QED BY <1>1, <1>2, <1>3 DEF Take

LEMMA BeginWriteIInv == ASSUME IInv, NEW c \in Conn, BeginWrite(c) PROVE IInv'
<1>1. NoneLeaves
  BY GoesOn DEF IInv, BeginWrite, Point
<1>2. QED BY <1>1, SameDisk, QuietIInv DEF BeginWrite, NoNewEntry

LEMMA EndWriteIInv == ASSUME IInv, NEW c \in Conn, EndWrite(c) PROVE IInv'
<1>1. Owner[c] \in User
  BY ConnAssumption
<1>2. UNCHANGED <<table, subdir>> /\ Go(c, IF req[c].last THEN "close" ELSE "return")
  BY DEF EndWrite
<1>3. \/ UNCHANGED disk
      \/ \E s : disk' = [disk EXCEPT ![Owner[c]] = Flush(@, s)]
  BY DEF EndWrite
<1>4. NoNewFile
  BY <1>1, <1>3, SameDisk, FlushNoNewFile DEF IInv
<1>5. \E p \in Point \ {"away"} : Go(c, p)
  BY <1>2 DEF Point
<1>6. NoneLeaves
  BY <1>5, GoesOn DEF IInv
<1>7. QED BY <1>2, <1>4, <1>6, QuietIInv DEF NoNewEntry

LEMMA ReturnIInv == ASSUME IInv, NEW c \in Conn, Return(c) PROVE IInv'
BY LeaveIInv DEF Return

LEMMA CloseIInv == ASSUME IInv, NEW c \in Conn, Close(c) PROVE IInv'
<1>1. Owner[c] \in User
  BY ConnAssumption
<1>2. NoNewFile
  BY <1>1, FlushNoNewFile DEF IInv, Close
<1>3. NoneLeaves
  BY GoesOn DEF IInv, Close, Point
<1>4. QED BY <1>2, <1>3, QuietIInv DEF Close, NoNewEntry

LEMMA EraseStreamIInv == ASSUME IInv, NEW c \in Conn, EraseStream(c) PROVE IInv'
<1> DEFINE after == IF req[c].type = "CREATE" THEN "hash" ELSE "remove"
<1>1. ForgetStream(c, after) /\ UNCHANGED subdir
  BY DEF EraseStream
<1>2. DOMAIN table' = DOMAIN table \ {Owner[c]} /\ NoNewFile /\ Go(c, after)
  BY <1>1, ForgetEntries DEF IInv
<1>3. after \in Point \ {"away"}
  BY DEF Point
<1>4. NoneLeaves
  BY <1>2, <1>3, GoesOn DEF IInv
<1>5. QED BY <1>1, <1>2, <1>4, QuietIInv DEF NoNewEntry

LEMMA RemoveIInv == ASSUME IInv, NEW c \in Conn, Remove(c) PROVE IInv'
<1>1. Owner[c] \in User
  BY ConnAssumption
<1>2. NoNewFile
  BY <1>1, DropNoNewFile DEF IInv, Remove
<1>3. NoneLeaves
  BY GoesOn DEF IInv, Remove, Point
<1>4. QED BY <1>2, <1>3, QuietIInv DEF Remove, NoNewEntry

\* The file takes a new name in a directory that had it under another.
LEMMA RenameIInv == ASSUME IInv, NEW c \in Conn, Rename(c) PROVE IInv'
<1> DEFINE u == Owner[c]
           t == Temp[req[c].item]
           files == Put(Drop(disk[u], t), req[c].item, disk[u][t])
<1>1. u \in User
  BY ConnAssumption
<1>2. CASE t \in DOMAIN disk[u] /\ disk' = [disk EXCEPT ![u] = files]
           /\ Go(c, "hash") /\ UNCHANGED <<table, subdir>>
  <2>1. NoNewFile
    BY <1>1, <1>2 DEF IInv, Shape, NoNewFile
  <2>2. NoneLeaves
    BY <1>2, GoesOn DEF IInv, Point
  <2>3. QED BY <1>2, <2>1, <2>2, QuietIInv DEF NoNewEntry
<1>3. CASE Kill
  BY <1>3, KillIInv
<1>4. QED BY <1>2, <1>3 DEF Rename

LEMMA HashIInv == ASSUME IInv, NEW c \in Conn, Hash(c) PROVE IInv'
<1>1. CASE Kill
  BY <1>1, KillIInv
<1>2. CASE (Go(c, "return") \/ Go(c, "drop")) /\ UNCHANGED <<table, disk, subdir>>
  <2>1. NoneLeaves
    BY <1>2, GoesOn DEF IInv, Point
  <2>2. QED BY <1>2, <2>1, SameDisk, QuietIInv DEF NoNewEntry
<1>3. QED BY <1>1, <1>2 DEF Hash

LEMMA DropFileIInv == ASSUME IInv, NEW c \in Conn, DropFile(c) PROVE IInv'
<1>1. Owner[c] \in User
  BY ConnAssumption
<1>2. NoNewFile
  BY <1>1, DropNoNewFile DEF IInv, DropFile
<1>3. NoneLeaves
  BY GoesOn DEF IInv, DropFile, Point
<1>4. QED BY <1>2, <1>3, QuietIInv DEF DropFile, NoNewEntry

LEMMA UnlinkIInv == ASSUME IInv, NEW c \in Conn, Unlink(c) PROVE IInv'
<1>1. Owner[c] \in User
  BY ConnAssumption
<1>2. NoNewFile
  BY <1>1, DropNoNewFile DEF IInv, Unlink
<1>3. NoneLeaves
  BY GoesOn DEF IInv, Unlink, Point
<1>4. QED BY <1>2, <1>3, QuietIInv DEF Unlink, NoNewEntry

LEMMA IsEmptyIInv == ASSUME IInv, NEW c \in Conn, IsEmpty(c) PROVE IInv'
<1>1. UNCHANGED <<table, disk, subdir>> /\ (Go(c, "rmdir") \/ Go(c, "return"))
  BY DEF IsEmpty
<1>2. NoneLeaves
  BY <1>1, GoesOn DEF IInv, Point
<1>3. QED BY <1>1, <1>2, SameDisk, QuietIInv DEF NoNewEntry

-----------------------------------------------------------------------------
LEMMA InitIInv == ASSUME Init PROVE IInv
BY DEF Init, IInv, Shape, FilesInDirectory, TableOfSessions, Empty, Point

LEMMA NextIInv == ASSUME IInv, [Next]_vars PROVE IInv'
<1>1. CASE UNCHANGED vars
  BY <1>1, SMT DEF vars, IInv, Shape, FilesInDirectory, TableOfSessions, At
<1>2. CASE Kill
  BY <1>2, KillIInv
<1>3. ASSUME NEW c \in Conn, Step(c) PROVE IInv'
  BY <1>3, BeginIInv, ShutdownIInv, AskIInv, CreateDirectoriesIInv, GetStreamIInv, TakeIInv,
     BeginWriteIInv, EndWriteIInv, CloseIInv, EraseStreamIInv, RemoveIInv, RenameIInv,
     HashIInv, DropFileIInv, UnlinkIInv, IsEmptyIInv, RemoveDirectoryIInv, ReturnIInv
  DEF Step
<1>4. QED BY <1>1, <1>2, <1>3 DEF Next

\* However many connections of a user remove directories while others make files in
\* them (handle_create and handle_erase), a file is always in a directory that is there.
THEOREM FilesKeepDirectory == Spec => []FilesInDirectory
<1>1. IInv => FilesInDirectory
  BY DEF IInv
<1>2. QED BY <1>1, InitIInv, NextIInv, PTL DEF Spec

\* However the sessions of a user begin and end (connection::shutdown erases the stream
\* of all of them), no entry of the table of open streams outlives them.
THEOREM TableHasSessions == Spec => []TableOfSessions
<1>1. IInv => TableOfSessions
  BY DEF IInv
<1>2. QED BY <1>1, InitIInv, NextIInv, PTL DEF Spec

-----------------------------------------------------------------------------
(***************************************************************************)
(* One connection of each user: what its steps leave to the others.        *)
(***************************************************************************)
\* A rehash has made the iterator of e stale.
Staled(e) == req[e].iter \in StreamId /\ req'[e] = [req[e] EXCEPT !.stale = TRUE]

\* The handlers of the others, what they have in the table and the folders of their users
\* are as before, but for iterators that have become stale.
Others(c) ==
    /\ \A e \in Conn \ {c} : /\ pc'[e] = pc[e] /\ view'[e] = view[e]
                             /\ req'[e] = req[e] \/ Staled(e)
    /\ \A u \in User \ {Owner[c]} :
         /\ disk'[u] = disk[u] /\ told'[u] = told[u] /\ subdir'[u] = subdir[u]
         /\ u \in DOMAIN table' <=> u \in DOMAIN table
         /\ u \in DOMAIN table => table'[u] = table[u]
    /\ \A i \in DOMAIN stream \ StreamsOf(Owner[c]) : i \in DOMAIN stream' /\ stream'[i] = stream[i]

\* What the user of c has been told is on disk.
ToldOf(c) ==
    LET u == Owner[c] IN
    /\ DOMAIN told'[u] \subseteq Path
    /\ \A p \in DOMAIN told'[u] : p \in DOMAIN disk'[u] /\ disk'[u][p] = told'[u][p]

Kept(c) == Typed' /\ StreamsApart' /\ Handler(c)' /\ Others(c) /\ ToldOf(c)

\* The streams of one user are not those of another.
LEMMA NotShared ==
    ASSUME UInv, OneConnectionEach, NEW c \in Conn, NEW e \in Conn \ {c}
    PROVE  /\ Owner[e] \in User \ {Owner[c]}
           /\ Owner[e] \in DOMAIN table =>
                table[Owner[e]] \in DOMAIN stream \ StreamsOf(Owner[c])
           /\ req[e].ptr # None => req[e].ptr \in DOMAIN stream \ StreamsOf(Owner[c])
<1>1. Owner[e] \in User /\ Owner[e] # Owner[c]
  BY ConnAssumption DEF OneConnectionEach
<1>2. ASSUME Owner[e] \in DOMAIN table
      PROVE  table[Owner[e]] \in DOMAIN stream \ StreamsOf(Owner[c])
  BY <1>1, <1>2 DEF UInv, StreamsApart, StreamsOf
<1>3. ASSUME req[e].ptr # None
      PROVE  req[e].ptr \in DOMAIN stream \ StreamsOf(Owner[c])
  BY <1>1, <1>3 DEF UInv, StreamsApart, StreamsOf
<1>4. QED BY <1>1, <1>2, <1>3

\* What the invariant says of a handler speaks of nothing another connection changes.
LEMMA OthersHandler ==
    ASSUME UInv, OneConnectionEach, NEW c \in Conn, NEW e \in Conn \ {c}, Others(c)
    PROVE  Handler(e)'
<1> DEFINE u == Owner[e]
<1>1. u \in User \ {Owner[c]}
  BY NotShared
<1>0. /\ req'[e].type = req[e].type /\ req'[e].item = req[e].item
      /\ req'[e].digest = req[e].digest /\ req'[e].first = req[e].first
      /\ req'[e].iter = req[e].iter /\ req'[e].ptr = req[e].ptr
      /\ req[e] = NoRequest => req'[e] = NoRequest
  <2>1. CASE req'[e] = req[e]
    BY <2>1
  <2>2. CASE Staled(e)
    <3>1. req[e] \in Request /\ req[e] # NoRequest
      BY <2>2, MarkAssumption DEF UInv, Typed, Staled, NoRequest
    <3>2. QED BY <2>2, <3>1 DEF Staled, Request
  <2>3. QED BY <2>1, <2>2 DEF Others
<1>2. /\ pc'[e] = pc[e] /\ view'[e] = view[e]
      /\ disk'[u] = disk[u] /\ told'[u] = told[u] /\ subdir'[u] = subdir[u]
      /\ u \in DOMAIN table' <=> u \in DOMAIN table
      /\ u \in DOMAIN table => table'[u] = table[u]
  BY <1>1 DEF Others
<1>3. u \in DOMAIN table => stream'[table[u]] = stream[table[u]]
  BY NotShared DEF Others
<1>4. req[e].ptr # None => stream'[req[e].ptr] = stream[req[e].ptr]
  BY NotShared DEF Others
<1>5. Handler(e)
  BY DEF UInv
<1>6. Locals(e)' /\ Entry(e)'
  BY <1>0, <1>2, <1>5 DEF Handler, Locals, Entry
<1>7. Closed(e)'
  BY <1>0, <1>2, <1>4, <1>5 DEF Handler, Closed
<1>8. Marked(e)'
  BY <1>0, <1>2, <1>3, <1>5 DEF Handler, Marked
<1>9. Placed(e)' /\ Withdrawn(e)'
  BY <1>0, <1>2, <1>5 DEF Handler, Placed, Withdrawn, Target
<1>10. Viewed(e)'
  BY <1>0, <1>2, <1>5 DEF Handler, Viewed, Backed
<1>11. QED BY <1>6, <1>7, <1>8, <1>9, <1>10 DEF Handler

LEMMA KeptUInv ==
    ASSUME UInv, IInv', OneConnectionEach, NEW c \in Conn, Kept(c)
    PROVE  UInv'
<1>1. \A e \in Conn : Handler(e)'
  BY OthersHandler DEF Kept
<1>2. Owner[c] \in User
  BY ConnAssumption
<1>3. ToldPaths'
  BY <1>2 DEF Kept, Others, ToldOf, UInv, ToldPaths
<1>4. ToldKept'
  BY <1>2 DEF Kept, Others, ToldOf, UInv, ToldKept
<1>5. QED BY <1>1, <1>3, <1>4 DEF UInv, Kept

LEMMA NoRequestTyped == NoRequest \in Request
<1>1. <<>> \in [1 .. 0 -> Chunk]
  OBVIOUS
<1>2. 0 \in 0 .. MaxLen
  BY MaxLenAssumption
<1>3. <<>> \in Digest
  BY <1>1, <1>2 DEF Digest
<1>4. <<>> \in Data
  BY DEF Data
<1>5. QED BY <1>3, <1>4 DEF NoRequest, Request

LEMMA KillUInv == ASSUME UInv, IInv', Kill PROVE UInv'
<1>2. Typed'
  BY NoRequestTyped DEF UInv, Typed, Kill, IsMap, Empty
<1>3. StreamsApart'
  BY DEF StreamsApart, Kill, Empty, NoRequest
<1>4. ToldPaths' /\ ToldKept'
  BY DEF UInv, ToldPaths, ToldKept, Kill
<1>5. ASSUME NEW c \in Conn PROVE Handler(c)'
  BY DEF Handler, Locals, Entry, Closed, Marked, Placed, Viewed, Withdrawn, Kill, Empty,
         NoRequest
<1>6. QED BY <1>2, <1>3, <1>4, <1>5 DEF UInv

-----------------------------------------------------------------------------
(***************************************************************************)
(* The effects the actions have on streams and folders.                    *)
(***************************************************************************)
\* A write changes the file it is for and no other; a closed stream writes nothing.
LEMMA FlushOnly ==
    ASSUME NEW files, NEW s, NEW q \in DOMAIN files, q # s.name \/ ~s.open
    PROVE  Flush(files, s)[q] = files[q]
BY DEF Flush, WriteTo

LEMMA ReleaseEffect ==
    ASSUME Shape, IsMap(stream, StreamId, Stream),
           NEW u \in User, NEW i, NEW tab, NEW reqs, Release(u, i, tab, reqs)
    PROVE  /\ IsMap(stream', StreamId, Stream)
           /\ \A j \in DOMAIN stream :
                j # i \/ j \in Range(tab) \/ (\E e \in Conn : reqs[e].ptr = j)
                  => j \in DOMAIN stream' /\ stream'[j] = stream[j]
           /\ \A v \in User \ {u} : disk'[v] = disk[v]
           /\ \/ disk'[u] = disk[u]
              \/ i # None /\ i \notin Range(tab) /\ disk'[u] = Flush(disk[u], stream[i])
<1>1. CASE UNCHANGED <<stream, disk>>
  BY <1>1
<1>2. CASE /\ stream' = Drop(stream, i)
           /\ disk' = [disk EXCEPT ![u] = Flush(@, stream[i])]
           /\ i # None /\ i \notin Range(tab) /\ ~\E e \in Conn : reqs[e].ptr = i
  <2>1. DOMAIN stream' = DOMAIN stream \ {i} /\ \A j \in DOMAIN stream \ {i} : stream'[j] = stream[j]
    BY <1>2 DEF Drop, Restrict
  <2>2. stream' = [j \in DOMAIN stream \ {i} |-> stream[j]]
    BY <1>2 DEF Drop, Restrict
  <2>3. IsMap(stream', StreamId, Stream)
    BY <2>1, <2>2 DEF IsMap
  <2>4. QED BY <1>2, <2>1, <2>3 DEF Shape
<1>3. QED BY <1>1, <1>2 DEF Release

LEMMA RenameEffect ==
    ASSUME IsMap(stream, StreamId, Stream), NEW u, NEW from, NEW to \in Name \cup {Unlinked},
           RenameStreams(u, from, to)
    PROVE  /\ IsMap(stream', StreamId, Stream) /\ DOMAIN stream' = DOMAIN stream
           /\ \A i \in DOMAIN stream :
                /\ stream'[i].open = stream[i].open /\ stream'[i].buffer = stream[i].buffer
                /\ i \notin StreamsOf(u) => stream'[i] = stream[i]
                /\ \/ stream'[i].name = stream[i].name /\ (i \notin StreamsOf(u) \/ stream[i].name # from)
                   \/ stream'[i].name = to
<1>1. ASSUME NEW i \in DOMAIN stream
      PROVE  /\ stream'[i] \in Stream
             /\ stream'[i].open = stream[i].open /\ stream'[i].buffer = stream[i].buffer
             /\ i \notin StreamsOf(u) => stream'[i] = stream[i]
             /\ \/ stream'[i].name = stream[i].name /\ (i \notin StreamsOf(u) \/ stream[i].name # from)
                \/ stream'[i].name = to
  <2>1. stream[i] \in Stream
    BY DEF IsMap
  <2>2. stream'[i] = IF i \in StreamsOf(u) THEN Renamed(stream[i], from, to) ELSE stream[i]
    BY DEF RenameStreams
  <2>3. QED BY <2>1, <2>2 DEF Renamed, Stream
<1>2. DOMAIN stream' = DOMAIN stream
  BY DEF RenameStreams
<1>3. stream' = [i \in DOMAIN stream |-> stream'[i]]
  BY DEF RenameStreams
<1>4. IsMap(stream', StreamId, Stream)
  BY <1>1, <1>2, <1>3 DEF IsMap
<1>5. QED BY <1>1, <1>2, <1>4

\* The streams stay apart where none is made and none changes hands.
LEMMA ApartStays ==
    ASSUME UInv, UNCHANGED table, DOMAIN stream' = DOMAIN stream,
           \A e \in Conn : req'[e].ptr = req[e].ptr
    PROVE  StreamsApart'
BY DEF UInv, StreamsApart

-----------------------------------------------------------------------------
(***************************************************************************)
(* The steps that move on without touching a stream or a file.             *)
(***************************************************************************)
LEMMA BeginKept == ASSUME UInv, NEW c \in Conn, Begin(c) PROVE Kept(c)
<1> DEFINE u == Owner[c]
<1>1. u \in User
  BY ConnAssumption
<1>2. /\ pc[c] = "away" /\ pc' = [pc EXCEPT ![c] = "idle"]
      /\ view' = [view EXCEPT ![c] = Listing(disk[u])]
      /\ UNCHANGED <<req, table, stream, disk, subdir, told>>
  BY DEF Begin, At, Go
<1>3. pc'[c] = "idle" /\ view'[c] = Listing(disk[u]) /\ Handler(c)
  BY <1>2 DEF UInv, IInv, Shape, Typed
<1>4. Typed'
  BY <1>2 DEF UInv, Typed
<1>5. StreamsApart'
  BY <1>2, ApartStays
<1>6. Others(c) /\ ToldOf(c)
  BY <1>1, <1>2 DEF Others, ToldOf, UInv, IInv, Shape, Typed, ToldKept, ToldPaths
<1>7. Handler(c)'
  BY <1>2, <1>3 DEF Handler, Locals, Entry, Closed, Marked, Placed, Viewed, Backed, Withdrawn,
     Listing, NoRequest
<1>8. QED BY <1>4, <1>5, <1>6, <1>7 DEF Kept

LEMMA BeginWriteKept == ASSUME UInv, NEW c \in Conn, BeginWrite(c) PROVE Kept(c)
<1>1. /\ pc[c] = "write" /\ pc' = [pc EXCEPT ![c] = "writing"]
      /\ UNCHANGED <<req, view, table, stream, disk, subdir, told>>
  BY DEF BeginWrite, At, Go
<1>2. pc'[c] = "writing" /\ Handler(c) /\ Owner[c] \in User
  BY <1>1, ConnAssumption DEF UInv, IInv, Shape
<1>3. Typed' /\ StreamsApart'
  BY <1>1, ApartStays DEF UInv, Typed
<1>4. Others(c) /\ ToldOf(c)
  BY <1>1, <1>2 DEF Others, ToldOf, UInv, IInv, Shape, Typed, ToldKept, ToldPaths
<1>5. Handler(c)'
  BY <1>1, <1>2 DEF Handler, Locals, Entry, Closed, Marked, Placed, Viewed, Backed, Withdrawn,
     Target
<1>6. QED BY <1>3, <1>4, <1>5 DEF Kept

LEMMA CreateDirectoriesKept ==
    ASSUME UInv, NEW c \in Conn, CreateDirectories(c) PROVE Kept(c)
<1>1. /\ pc[c] = "mkdir" /\ pc' = [pc EXCEPT ![c] = "get"]
      /\ subdir' = [subdir EXCEPT ![Owner[c]] = TRUE]
      /\ UNCHANGED <<req, view, table, stream, disk, told>>
  BY DEF CreateDirectories, At, Go
<1>2. pc'[c] = "get" /\ Handler(c) /\ Owner[c] \in User /\ subdir'[Owner[c]]
  BY <1>1, ConnAssumption DEF UInv, IInv, Shape
<1>3. Typed' /\ StreamsApart'
  BY <1>1, ApartStays DEF UInv, Typed
<1>4. Others(c) /\ ToldOf(c)
  BY <1>1, <1>2 DEF Others, ToldOf, UInv, IInv, Shape, Typed, ToldKept, ToldPaths
<1>5. Handler(c)'
  BY <1>1, <1>2 DEF Handler, Locals, Entry, Closed, Marked, Placed, Viewed, Backed, Withdrawn
<1>6. QED BY <1>3, <1>4, <1>5 DEF Kept

LEMMA IsEmptyKept == ASSUME UInv, NEW c \in Conn, IsEmpty(c) PROVE Kept(c)
<1>1. /\ pc[c] = "prune" /\ \E p \in {"rmdir", "return"} : pc' = [pc EXCEPT ![c] = p]
      /\ UNCHANGED <<req, view, table, stream, disk, subdir, told>>
  BY DEF IsEmpty, At, Go
<1>2. pc'[c] \in {"rmdir", "return"} /\ Handler(c) /\ Owner[c] \in User
  BY <1>1, ConnAssumption DEF UInv, IInv, Shape
<1>3. Typed' /\ StreamsApart'
  BY <1>1, ApartStays DEF UInv, Typed
<1>4. Others(c) /\ ToldOf(c)
  BY <1>1, <1>2 DEF Others, ToldOf, UInv, IInv, Shape, Typed, ToldKept, ToldPaths
<1>5. Handler(c)'
  BY <1>1, <1>2 DEF Handler, Locals, Entry, Closed, Marked, Placed, Viewed, Backed, Withdrawn
<1>6. QED BY <1>3, <1>4, <1>5 DEF Kept

LEMMA RemoveDirectoryKept ==
    ASSUME UInv, NEW c \in Conn, RemoveDirectory(c) PROVE Kept(c)
<1>1. /\ pc[c] = "rmdir" /\ pc' = [pc EXCEPT ![c] = "return"]
      /\ \E b : subdir' = [subdir EXCEPT ![Owner[c]] = b]
      /\ UNCHANGED <<req, view, table, stream, disk, told>>
  BY DEF RemoveDirectory, At, Go
<1>2. pc'[c] = "return" /\ Handler(c) /\ Owner[c] \in User
  BY <1>1, ConnAssumption DEF UInv, IInv, Shape
<1>3. Typed' /\ StreamsApart'
  BY <1>1, ApartStays DEF UInv, Typed
<1>4. Others(c) /\ ToldOf(c)
  BY <1>1, <1>2 DEF Others, ToldOf, UInv, IInv, Shape, Typed, ToldKept, ToldPaths
<1>5. Handler(c)'
  BY <1>1, <1>2 DEF Handler, Locals, Entry, Closed, Marked, Placed, Viewed, Backed, Withdrawn
<1>6. QED BY <1>3, <1>4, <1>5 DEF Kept

\* An update is accepted of a file the view has, and that file is in the directory.
LEMMA AskKept == ASSUME UInv, NEW c \in Conn, Ask(c) PROVE Kept(c)
<1> DEFINE u == Owner[c]
<1>1. u \in User
  BY ConnAssumption
<1>2. PICK type \in Asks[c], p \in Path, d \in Digest, data \in Data, last \in BOOLEAN :
        /\ Accepts(c, type, p, d)
        /\ type = "ERASE" => data = <<>> /\ ~last
        /\ req' = [req EXCEPT ![c] = [NoRequest EXCEPT !.type = type, !.item = p,
                                        !.data = data, !.digest = d, !.last = last]]
        /\ told' = IF type = "CREATE" THEN [told EXCEPT ![u] = Drop(@, p)] ELSE told
        /\ Go(c, CASE type = "CREATE" -> "mkdir" [] type = "UPDATE" -> "get"
                   [] type = "ERASE" -> "unlink")
  BY ZenonT(60) DEF Ask
<1>3. type \in {"CREATE", "UPDATE", "ERASE"}
  BY AskAssumption
<1> DEFINE r == [NoRequest EXCEPT !.type = type, !.item = p, !.data = data, !.digest = d,
                                  !.last = last]
<1>4. /\ r \in Request /\ r.type = type /\ r.item = p /\ r.iter = None /\ r.ptr = None
      /\ r.digest = d /\ r.first = FALSE
  BY <1>3, NoRequestTyped DEF NoRequest, Request
<1> HIDE DEF r
<1>5. /\ pc[c] = "idle" /\ UNCHANGED <<view, table, stream, disk, subdir>>
      /\ req' = [req EXCEPT ![c] = r]
      /\ \E q \in {"mkdir", "get", "unlink"} : pc' = [pc EXCEPT ![c] = q]
  BY <1>2, <1>3 DEF Ask, At, Go, r
<1>6. /\ req'[c] = r /\ Handler(c)
      /\ \/ type = "CREATE" /\ pc'[c] = "mkdir"
         \/ type = "UPDATE" /\ pc'[c] = "get"
         \/ type = "ERASE" /\ pc'[c] = "unlink"
  BY <1>2, <1>3, <1>5 DEF UInv, IInv, Shape, Typed, Go
<1>7. DOMAIN told' = User /\ \A v \in User \ {u} : told'[v] = told[v]
  BY <1>1, <1>2 DEF UInv, Typed
<1>8. /\ DOMAIN told'[u] \subseteq DOMAIN told[u]
      /\ \A q \in DOMAIN told'[u] : told'[u][q] = told[u][q]
      /\ type = "CREATE" => p \notin DOMAIN told'[u]
  BY <1>1, <1>2 DEF UInv, Typed, Drop, Restrict
<1>9. Typed'
  BY <1>4, <1>5, <1>7 DEF UInv, Typed
<1>10. req[c].ptr = None
  BY <1>5, <1>6 DEF Handler, Locals
<1>11. StreamsApart'
  BY <1>4, <1>5, <1>10, ApartStays DEF UInv, Typed
<1>12. Others(c)
  BY <1>5, <1>7 DEF Others, UInv, IInv, Shape, Typed
<1>13. ToldOf(c)
  BY <1>1, <1>5, <1>8 DEF ToldOf, UInv, ToldKept, ToldPaths
<1>14. type = "UPDATE" => p \in DOMAIN view[c] /\ subdir[u]
  <2>1. ASSUME type = "UPDATE" PROVE p \in DOMAIN view[c]
    BY <1>2, <2>1 DEF Accepts
  <2>2. ASSUME type = "UPDATE" PROVE p \in DOMAIN disk[u]
    BY <1>5, <1>6, <2>1, <2>2 DEF Handler, Viewed, Backed
  <2>3. QED BY <1>1, <2>1, <2>2 DEF UInv, IInv, FilesInDirectory
<1>15. Locals(c)' /\ Entry(c)' /\ Closed(c)'
  BY <1>4, <1>5, <1>6 DEF Handler, Locals, Entry, Closed
<1>16. Marked(c)'
  BY <1>5, <1>6, <1>8 DEF Handler, Marked
<1>17. Placed(c)' /\ Withdrawn(c)'
  BY <1>4, <1>5, <1>6, <1>8, <1>14 DEF Placed, Withdrawn
<1>18. Viewed(c)'
  BY <1>4, <1>5, <1>6, <1>14 DEF Handler, Viewed, Backed
<1>19. QED BY <1>9, <1>11, <1>12, <1>13, <1>15, <1>16, <1>17, <1>18 DEF Kept, Handler

LEMMA HashKept ==
    ASSUME UInv, NEW c \in Conn, Hash(c), ~Kill PROVE Kept(c)
<1> DEFINE u == Owner[c]
           p == req[c].item
<1>1. u \in User
  BY ConnAssumption
<1>2. /\ pc[c] = "hash" /\ p \in DOMAIN disk[u]
      /\ UNCHANGED <<req, view, table, stream, disk, subdir>>
      /\ \/ /\ disk[u][p] = req[c].digest
            /\ told' = [told EXCEPT ![u] = Put(@, p, req[c].digest)]
            /\ pc' = [pc EXCEPT ![c] = "return"]
         \/ UNCHANGED told /\ pc' = [pc EXCEPT ![c] = "drop"]
  BY DEF Hash, At, Go, SameDigest
<1>3. pc'[c] \in {"return", "drop"} /\ Handler(c)
  BY <1>2 DEF UInv, IInv, Shape
<1>4. p \in Path
  BY <1>2, <1>3 DEF Handler, Locals
<1>5. Typed' /\ StreamsApart'
  BY <1>2, ApartStays DEF UInv, Typed
<1>6. Others(c)
  BY <1>1, <1>2 DEF Others, UInv, IInv, Shape, Typed
<1>7. CASE /\ disk[u][p] = req[c].digest
           /\ told' = [told EXCEPT ![u] = Put(@, p, req[c].digest)]
           /\ pc' = [pc EXCEPT ![c] = "return"]
  <2>1. pc'[c] = "return" /\ told'[u] = Put(told[u], p, req[c].digest)
    BY <1>1, <1>7 DEF UInv, IInv, Shape, Typed
  <2>2. ToldOf(c)
    BY <1>1, <1>2, <1>4, <1>7, <2>1 DEF ToldOf, UInv, ToldKept, ToldPaths, Put
  <2>3. Handler(c)'
    BY <1>2, <1>3, <1>7, <2>1 DEF Handler, Locals, Entry, Closed, Marked, Placed, Viewed, Backed,
       Withdrawn
  <2>4. QED BY <1>5, <1>6, <2>2, <2>3 DEF Kept
<1>8. CASE UNCHANGED told /\ pc' = [pc EXCEPT ![c] = "drop"]
  <2>1. pc'[c] = "drop"
    BY <1>8 DEF UInv, IInv, Shape
  <2>2. ToldOf(c)
    BY <1>1, <1>2, <1>8 DEF ToldOf, UInv, ToldKept, ToldPaths
  <2>3. Handler(c)'
    BY <1>2, <1>3, <1>8, <2>1 DEF Handler, Locals, Entry, Closed, Marked, Placed, Viewed, Backed,
       Withdrawn
  <2>4. QED BY <1>5, <1>6, <2>2, <2>3 DEF Kept
<1>9. QED BY <1>2, <1>7, <1>8

-----------------------------------------------------------------------------
(***************************************************************************)
(* The steps that remove and rename files.                                 *)
(***************************************************************************)
\* A file that goes takes with it what the view and the promises say of it.
LEMMA DropFileKept == ASSUME UInv, NEW c \in Conn, DropFile(c) PROVE Kept(c)
<1> DEFINE u == Owner[c]
           p == req[c].item
<1>1. u \in User /\ pc[c] = "drop" /\ UNCHANGED <<req, table, subdir, told>>
  BY ConnAssumption DEF DropFile, At
<1>2. pc' = [pc EXCEPT ![c] = "return"] /\ pc'[c] = "return" /\ Handler(c)
  BY DEF DropFile, Go, UInv, IInv, Shape
<1>3. disk' = [disk EXCEPT ![u] = Drop(@, p)] /\ view' = [view EXCEPT ![c] = Drop(@, p)]
  BY DEF DropFile
<1>4. /\ \A q \in DOMAIN disk[u] \ {p} : q \in DOMAIN disk'[u] /\ disk'[u][q] = disk[u][q]
      /\ DOMAIN view'[c] = DOMAIN view[c] \ {p}
      /\ \A q \in DOMAIN view'[c] : view'[c][q] = view[c][q]
  BY <1>1, <1>3 DEF UInv, IInv, Shape, Typed, Drop, Restrict
<1>5. /\ IsMap(stream', StreamId, Stream) /\ DOMAIN stream' = DOMAIN stream
      /\ \A i \in DOMAIN stream :
           stream'[i].open = stream[i].open /\ (i \notin StreamsOf(u) => stream'[i] = stream[i])
  BY RenameEffect DEF DropFile, UInv, Typed
<1>6. Typed' /\ StreamsApart'
  BY <1>1, <1>3, <1>5, ApartStays DEF UInv, Typed
<1>7. Others(c)
  BY <1>1, <1>2, <1>3, <1>5 DEF Others, UInv, IInv, Shape, Typed
<1>8. ToldOf(c)
  BY <1>1, <1>2, <1>4 DEF ToldOf, UInv, ToldKept, ToldPaths, Handler, Withdrawn
<1>9. Closed(c)'
  BY <1>1, <1>2, <1>5 DEF Handler, Closed, UInv, StreamsApart
<1>10. Viewed(c)'
  BY <1>1, <1>2, <1>4 DEF Handler, Viewed, Backed
<1>11. Locals(c)' /\ Entry(c)' /\ Marked(c)' /\ Placed(c)' /\ Withdrawn(c)'
  BY <1>1, <1>2 DEF Handler, Locals, Entry, Marked, Placed, Withdrawn
<1>12. QED BY <1>6, <1>7, <1>8, <1>9, <1>10, <1>11 DEF Kept, Handler

LEMMA UnlinkKept == ASSUME UInv, NEW c \in Conn, Unlink(c) PROVE Kept(c)
<1> DEFINE u == Owner[c]
           p == req[c].item
<1>1. u \in User /\ pc[c] = "unlink" /\ UNCHANGED <<req, table, subdir>>
  BY ConnAssumption DEF Unlink, At
<1>2. pc' = [pc EXCEPT ![c] = "prune"] /\ pc'[c] = "prune" /\ Handler(c)
  BY DEF Unlink, Go, UInv, IInv, Shape
<1>3. /\ disk' = [disk EXCEPT ![u] = Drop(@, p)] /\ view' = [view EXCEPT ![c] = Drop(@, p)]
      /\ told' = [told EXCEPT ![u] = Drop(@, p)]
  BY DEF Unlink
<1>4. /\ \A q \in DOMAIN disk[u] \ {p} : q \in DOMAIN disk'[u] /\ disk'[u][q] = disk[u][q]
      /\ DOMAIN view'[c] = DOMAIN view[c] \ {p} /\ DOMAIN told'[u] = DOMAIN told[u] \ {p}
      /\ \A q \in DOMAIN view'[c] : view'[c][q] = view[c][q]
      /\ \A q \in DOMAIN told'[u] : told'[u][q] = told[u][q]
  BY <1>1, <1>3 DEF UInv, IInv, Shape, Typed, Drop, Restrict
<1>5. /\ IsMap(stream', StreamId, Stream) /\ DOMAIN stream' = DOMAIN stream
      /\ \A i \in DOMAIN stream :
           /\ stream'[i].open = stream[i].open /\ (i \notin StreamsOf(u) => stream'[i] = stream[i])
           /\ stream'[i].name = stream[i].name \/ stream'[i].name = Unlinked
  BY RenameEffect DEF Unlink, UInv, Typed
<1>6. Typed' /\ StreamsApart'
  BY <1>1, <1>3, <1>5, ApartStays DEF UInv, Typed
<1>7. Others(c)
  BY <1>1, <1>2, <1>3, <1>5 DEF Others, UInv, IInv, Shape, Typed
<1>8. ToldOf(c)
  BY <1>1, <1>4 DEF ToldOf, UInv, ToldKept, ToldPaths
<1>9. Closed(c)'
  BY <1>1, <1>2, <1>5 DEF Handler, Closed, Locals, UInv, StreamsApart
<1>10. Viewed(c)'
  BY <1>1, <1>2, <1>4 DEF Handler, Viewed, Backed
<1>11. Marked(c)'
  BY <1>1, <1>2, <1>4, <1>5, MarkAssumption, NameAssumption
  DEF Handler, Marked, UInv, StreamsApart
<1>12. Locals(c)' /\ Entry(c)' /\ Placed(c)' /\ Withdrawn(c)'
  BY <1>1, <1>2, <1>4 DEF Handler, Locals, Entry, Placed, Withdrawn
<1>13. QED BY <1>6, <1>7, <1>8, <1>9, <1>10, <1>11, <1>12 DEF Kept, Handler

\* Between remove and rename the complete temporary is there.
LEMMA RemoveKept == ASSUME UInv, TempsApart, NEW c \in Conn, Remove(c) PROVE Kept(c)
<1> DEFINE u == Owner[c]
           p == req[c].item
<1>1. u \in User /\ pc[c] = "remove" /\ UNCHANGED <<req, view, table, subdir>>
  BY ConnAssumption DEF Remove, At
<1>2. pc' = [pc EXCEPT ![c] = "rename"] /\ pc'[c] = "rename" /\ Handler(c)
  BY DEF Remove, Go, UInv, IInv, Shape
<1>3. disk' = [disk EXCEPT ![u] = Drop(@, p)] /\ told' = [told EXCEPT ![u] = Drop(@, p)]
  BY DEF Remove
<1>4. /\ \A q \in DOMAIN disk[u] \ {p} : q \in DOMAIN disk'[u] /\ disk'[u][q] = disk[u][q]
      /\ DOMAIN told'[u] = DOMAIN told[u] \ {p}
      /\ \A q \in DOMAIN told'[u] : told'[u][q] = told[u][q]
  BY <1>1, <1>3 DEF UInv, IInv, Shape, Typed, Drop, Restrict
<1>5. /\ IsMap(stream', StreamId, Stream) /\ DOMAIN stream' = DOMAIN stream
      /\ \A i \in DOMAIN stream :
           /\ stream'[i].open = stream[i].open /\ (i \notin StreamsOf(u) => stream'[i] = stream[i])
           /\ stream'[i].buffer = stream[i].buffer
  BY RenameEffect DEF Remove, UInv, Typed
<1>6. Typed' /\ StreamsApart'
  BY <1>1, <1>3, <1>5, ApartStays DEF UInv, Typed
<1>7. Others(c)
  BY <1>1, <1>2, <1>3, <1>5 DEF Others, UInv, IInv, Shape, Typed
<1>8. ToldOf(c)
  BY <1>1, <1>4 DEF ToldOf, UInv, ToldKept, ToldPaths
<1>9. Closed(c)'
  BY <1>1, <1>2, <1>5 DEF Handler, Closed, UInv, StreamsApart
<1>10. Viewed(c)'
  BY <1>1, <1>2, <1>4 DEF Handler, Viewed, Backed
<1>11. Locals(c)' /\ Entry(c)' /\ Marked(c)' /\ Withdrawn(c)'
  BY <1>1, <1>2, <1>4 DEF Handler, Locals, Entry, Marked, Withdrawn
<1>12. Placed(c)'
  <2>1. p \in Path /\ req[c].type = "UPDATE" /\ Target(req[c]) \in DOMAIN disk[u]
    BY <1>1, <1>2 DEF Handler, Locals, Placed
  <2>2. Target(req[c]) # p
    BY <2>1 DEF Target, TempsApart
  <2>3. Target(req[c]) \in DOMAIN disk'[u]
    BY <1>4, <2>1, <2>2
  <2>4. QED BY <1>1, <1>2, <2>3 DEF Placed, Target
<1>13. QED BY <1>6, <1>7, <1>8, <1>9, <1>10, <1>11, <1>12 DEF Kept, Handler

LEMMA RenameKept == ASSUME UInv, TempsApart, NEW c \in Conn, Rename(c), ~Kill PROVE Kept(c)
<1> DEFINE u == Owner[c]
           p == req[c].item
           t == Temp[p]
<1>1. u \in User /\ pc[c] = "rename" /\ UNCHANGED <<req, view, table, subdir, told>>
  BY ConnAssumption DEF Rename, At
<1>2. pc' = [pc EXCEPT ![c] = "hash"] /\ pc'[c] = "hash" /\ Handler(c)
  BY DEF Rename, Go, UInv, IInv, Shape
<1>3. p \in Path /\ t \notin Path /\ p \in Name
  BY <1>1, <1>2, NameAssumption DEF Handler, Locals, TempsApart
<1>4. disk' = [disk EXCEPT ![u] = Put(Drop(@, t), p, @[t])] /\ RenameStreams(u, t, p)
  BY DEF Rename
<1>5. \A q \in DOMAIN disk[u] \ {p, t} : q \in DOMAIN disk'[u] /\ disk'[u][q] = disk[u][q]
  BY <1>1, <1>4 DEF UInv, IInv, Shape, Drop, Restrict, Put
<1>6. /\ IsMap(stream', StreamId, Stream) /\ DOMAIN stream' = DOMAIN stream
      /\ \A i \in DOMAIN stream :
           stream'[i].open = stream[i].open /\ (i \notin StreamsOf(u) => stream'[i] = stream[i])
  BY <1>3, <1>4, RenameEffect DEF UInv, Typed
<1>7. Typed' /\ StreamsApart'
  BY <1>1, <1>6, ApartStays DEF UInv, Typed
<1>8. Others(c)
  BY <1>1, <1>2, <1>4, <1>6 DEF Others, UInv, IInv, Shape, Typed
<1>9. p \notin DOMAIN told[u]
  BY <1>1, <1>2 DEF Handler, Withdrawn
<1>10. ToldOf(c)
  BY <1>1, <1>3, <1>5, <1>9 DEF ToldOf, UInv, ToldKept, ToldPaths
<1>11. Closed(c)'
  BY <1>1, <1>2, <1>6 DEF Handler, Closed, UInv, StreamsApart
<1>12. Viewed(c)'
  BY <1>1, <1>2, <1>3, <1>5 DEF Handler, Viewed, Backed
<1>13. Locals(c)' /\ Entry(c)' /\ Marked(c)' /\ Withdrawn(c)'
  BY <1>1, <1>2 DEF Handler, Locals, Entry, Marked, Withdrawn
<1>14. Placed(c)'
  <2>1. p \in DOMAIN disk'[u]
    BY <1>1, <1>4 DEF UInv, IInv, Shape, Put
  <2>2. QED BY <1>1, <1>2, <2>1 DEF Placed
<1>15. QED BY <1>7, <1>8, <1>10, <1>11, <1>12, <1>13, <1>14 DEF Kept, Handler

-----------------------------------------------------------------------------
(***************************************************************************)
(* The steps that write to a stream.                                       *)
(***************************************************************************)
\* What is written goes to a file that is not promised and that the view knows to be
\* unfinished, or to the one whose upload is being handled.
LEMMA CloseKept == ASSUME UInv, NEW c \in Conn, Close(c) PROVE Kept(c)
<1> DEFINE u == Owner[c]
           i == req[c].ptr
           n == stream[i].name
<1>1. u \in User /\ pc[c] = "close" /\ UNCHANGED <<req, view, table, subdir, told>>
  BY ConnAssumption DEF Close, At
<1>2. pc' = [pc EXCEPT ![c] = "forget"] /\ pc'[c] = "forget" /\ Handler(c)
  BY DEF Close, Go, UInv, IInv, Shape
<1>3. /\ disk' = [disk EXCEPT ![u] = Flush(@, stream[i])]
      /\ stream' = [stream EXCEPT ![i].open = FALSE, ![i].buffer = <<>>]
  BY DEF Close
<1>4. i \in DOMAIN stream /\ i # None /\ u \in DOMAIN table /\ table[u] = i
  BY <1>1, <1>2, MarkAssumption DEF Handler, Entry, UInv, StreamsApart, Typed, IsMap
<1>5. /\ DOMAIN disk'[u] = DOMAIN disk[u]
      /\ \A q \in DOMAIN disk[u] \ {n} : disk'[u][q] = disk[u][q]
  BY <1>1, <1>3, FlushOnly, FlushKeepsNames DEF UInv, IInv, Shape
<1>6. /\ IsMap(stream', StreamId, Stream) /\ DOMAIN stream' = DOMAIN stream
      /\ \A j \in DOMAIN stream : j # i => stream'[j] = stream[j]
      /\ stream'[i].name = n /\ ~stream'[i].open /\ stream'[i].buffer = <<>>
  <2>1. stream[i] \in Stream /\ <<>> \in Content
    BY <1>4 DEF UInv, Typed, IsMap, Content
  <2>2. stream'[i] = [stream[i] EXCEPT !.open = FALSE, !.buffer = <<>>]
    BY <1>3, <1>4
  <2>3. /\ stream'[i] \in Stream
        /\ stream'[i].name = n /\ ~stream'[i].open /\ stream'[i].buffer = <<>>
    BY <2>1, <2>2 DEF Stream
  <2>4. DOMAIN stream' = DOMAIN stream /\ \A j \in DOMAIN stream : j # i => stream'[j] = stream[j]
    BY <1>3
  <2>5. stream' = [j \in DOMAIN stream |-> stream'[j]]
    BY <1>3
  <2>6. QED BY <2>3, <2>4, <2>5 DEF UInv, Typed, IsMap
<1>7. Typed' /\ StreamsApart'
  BY <1>1, <1>6, ApartStays DEF UInv, Typed
<1>8. i \in StreamsOf(u)
  BY <1>4 DEF StreamsOf
<1>9. Others(c)
  BY <1>1, <1>2, <1>3, <1>6, <1>8 DEF Others, UInv, IInv, Shape, Typed
<1>10. n \notin DOMAIN told[u]
  BY <1>1, <1>2, <1>4 DEF Handler, Marked, UInv, ToldPaths
<1>11. ToldOf(c)
  BY <1>1, <1>5, <1>10 DEF ToldOf, UInv, ToldKept, ToldPaths
<1>12. Closed(c)' /\ Marked(c)'
  BY <1>1, <1>2, <1>4, <1>6 DEF Handler, Closed, Marked
<1>13. Viewed(c)'
  BY <1>1, <1>2, <1>4, <1>5 DEF Handler, Viewed, Backed, Marked
<1>14. Locals(c)' /\ Entry(c)' /\ Placed(c)' /\ Withdrawn(c)'
  BY <1>1, <1>2, <1>5 DEF Handler, Locals, Entry, Placed, Withdrawn, Target
<1>15. QED BY <1>7, <1>9, <1>11, <1>12, <1>13, <1>14 DEF Kept, Handler

LEMMA DataType == Data \subseteq Seq(Chunk)
<1>1. <<>> \in Seq(Chunk)
  OBVIOUS
<1>2. ASSUME NEW k \in Chunk PROVE <<k>> \in Seq(Chunk)
  OBVIOUS
<1>3. QED BY <1>1, <1>2 DEF Data

\* What EndWrite does to its stream and its file, whether the buffer is flushed or not.
LEMMA EndWriteEffect ==
    ASSUME UInv, NEW c \in Conn, EndWrite(c)
    PROVE  LET i == req[c].ptr
               u == Owner[c]
           IN /\ i \in DOMAIN stream /\ i # None /\ u \in DOMAIN table /\ table[u] = i
              /\ IsMap(stream', StreamId, Stream) /\ DOMAIN stream' = DOMAIN stream
              /\ \A j \in DOMAIN stream : j # i => stream'[j] = stream[j]
              /\ stream'[i].name = stream[i].name /\ stream'[i].open = stream[i].open
              /\ \A v \in User \ {u} : disk'[v] = disk[v]
              /\ DOMAIN disk'[u] = DOMAIN disk[u]
              /\ \A q \in DOMAIN disk[u] \ {stream[i].name} : disk'[u][q] = disk[u][q]
<1> DEFINE i == req[c].ptr
           u == Owner[c]
           s == Written(stream[i], req[c].data)
<1>1. u \in User /\ pc[c] = "writing" /\ Handler(c)
  BY ConnAssumption DEF EndWrite, At, UInv
<1>2. i \in DOMAIN stream /\ i # None /\ u \in DOMAIN table /\ table[u] = i
  BY <1>1, MarkAssumption DEF Handler, Entry, UInv, StreamsApart, Typed, IsMap
<1>3. stream[i] \in Stream /\ req[c] \in Request
  BY <1>2 DEF UInv, Typed, IsMap
<1>4. req[c].data \in Seq(Chunk) /\ stream[i].buffer \in Seq(Chunk)
  BY <1>3, DataType DEF Request, Stream, Content
<1>5. stream[i].buffer \o req[c].data \in Content
  BY <1>4 DEF Content
<1>6. s \in Stream /\ s.name = stream[i].name /\ s.open = stream[i].open
  BY <1>3, <1>5 DEF Written, Stream
<1>7. \E t \in Stream : /\ t.name = s.name /\ t.open = s.open
                        /\ stream' = [stream EXCEPT ![i] = t]
  <2>1. [s EXCEPT !.buffer = <<>>] \in Stream
    <3>1. <<>> \in Content
      BY DEF Content
    <3>2. QED BY <1>6, <3>1 DEF Stream
  <2>2. [s EXCEPT !.buffer = <<>>].name = s.name /\ [s EXCEPT !.buffer = <<>>].open = s.open
    BY <1>6 DEF Stream
  <2>3. \/ stream' = [stream EXCEPT ![i] = [s EXCEPT !.buffer = <<>>]]
        \/ stream' = [stream EXCEPT ![i] = s]
    BY DEF EndWrite
  <2>4. QED BY <1>6, <2>1, <2>2, <2>3
<1>8. /\ IsMap(stream', StreamId, Stream) /\ DOMAIN stream' = DOMAIN stream
      /\ \A j \in DOMAIN stream : j # i => stream'[j] = stream[j]
      /\ stream'[i].name = stream[i].name /\ stream'[i].open = stream[i].open
  BY <1>2, <1>6, <1>7 DEF UInv, Typed, IsMap
<1>9. disk' = [disk EXCEPT ![u] = Flush(@, s)] \/ UNCHANGED disk
  BY DEF EndWrite
<1>10. /\ \A v \in User \ {u} : disk'[v] = disk[v]
       /\ DOMAIN disk'[u] = DOMAIN disk[u]
       /\ \A q \in DOMAIN disk[u] \ {stream[i].name} : disk'[u][q] = disk[u][q]
  BY <1>1, <1>6, <1>9, FlushOnly, FlushKeepsNames DEF UInv, IInv, Shape
<1>11. QED BY <1>2, <1>8, <1>10

LEMMA EndWriteKept == ASSUME UInv, NEW c \in Conn, EndWrite(c) PROVE Kept(c)
<1> DEFINE u == Owner[c]
           r == req[c]
           i == r.ptr
           n == stream[i].name
<1>1. /\ i \in DOMAIN stream /\ i # None /\ u \in DOMAIN table /\ table[u] = i
      /\ IsMap(stream', StreamId, Stream) /\ DOMAIN stream' = DOMAIN stream
      /\ \A j \in DOMAIN stream : j # i => stream'[j] = stream[j]
      /\ stream'[i].name = n /\ stream'[i].open = stream[i].open
      /\ \A v \in User \ {u} : disk'[v] = disk[v]
      /\ DOMAIN disk'[u] = DOMAIN disk[u]
      /\ \A q \in DOMAIN disk[u] \ {n} : disk'[u][q] = disk[u][q]
  BY EndWriteEffect
<1>2. /\ u \in User /\ pc[c] = "writing" /\ UNCHANGED <<req, table, subdir, told>>
      /\ Handler(c)
  BY ConnAssumption DEF EndWrite, At, UInv
<1>3. \E p \in {"close", "return"} : pc' = [pc EXCEPT ![c] = p]
  BY DEF EndWrite, Go
<1>4. pc'[c] = IF r.last THEN "close" ELSE "return"
  BY DEF EndWrite, Go, UInv, IInv, Shape
<1>5. /\ \E V : view' = [view EXCEPT ![c] = V]
      /\ view'[c] = Progress(view[c], r.item, r.first, r.last, r.digest,
                             IF r.type = "CREATE" THEN TEMP ELSE view[c][r.item].digest)
  BY DEF EndWrite, UInv, Typed
<1>6. /\ r.item \in Path /\ r.type \in {"CREATE", "UPDATE"} /\ r.iter = None
      /\ r.type = "UPDATE" => r.item \in DOMAIN view[c]
      /\ Target(r) \in DOMAIN disk[u]
  BY <1>2 DEF Handler, Locals, Viewed, Placed
<1>7. Typed' /\ StreamsApart'
  BY <1>1, <1>2, <1>5, ApartStays DEF UInv, Typed
<1>8. i \in StreamsOf(u)
  BY <1>1 DEF StreamsOf
<1>9. Others(c)
  BY <1>1, <1>2, <1>3, <1>5, <1>8 DEF Others, UInv, IInv, Shape, Typed
<1>10. /\ n \notin DOMAIN told[u]
       /\ n \in Path /\ n \in DOMAIN view[c] =>
            view[c][n].digest = TEMP \/ (n = r.item /\ r.first /\ r.type = "CREATE")
  BY <1>1, <1>2 DEF Handler, Marked, UInv, ToldPaths
<1>11. ToldOf(c)
  BY <1>1, <1>2, <1>10 DEF ToldOf, UInv, ToldKept, ToldPaths
<1>12. Closed(c)'
  BY <1>1, <1>2, <1>4 DEF Closed
<1>13. Locals(c)' /\ Entry(c)' /\ Placed(c)' /\ Withdrawn(c)'
  BY <1>1, <1>2, <1>4, <1>6 DEF Handler, Locals, Entry, Placed, Withdrawn, Target
<1>14. \A q \in Path \cap DOMAIN view[c] : Backed(c, q)
  BY <1>2 DEF Handler, Viewed
<1>15. CASE r.last
  <2>1. view'[c] = Put(view[c], r.item, [synced |-> TRUE, digest |-> r.digest])
    BY <1>5, <1>15 DEF Progress
  <2>2. /\ DOMAIN view'[c] = DOMAIN view[c] \cup {r.item} /\ view'[c][r.item].digest = r.digest
        /\ \A q \in DOMAIN view[c] : q # r.item => view'[c][q] = view[c][q]
    BY <2>1 DEF Put
  <2>3. Marked(c)'
    BY <1>1, <1>2, <1>4, <1>10, <1>15, <2>2 DEF Marked
  <2>4. Viewed(c)'
    BY <1>1, <1>2, <1>4, <1>10, <1>14, <1>15, <2>2 DEF Viewed, Backed
  <2>5. QED BY <1>7, <1>9, <1>11, <1>12, <1>13, <2>3, <2>4 DEF Kept, Handler
<1>16. CASE ~r.last /\ r.first
  <2> DEFINE d == IF r.type = "CREATE" THEN TEMP ELSE view[c][r.item].digest
  <2>1. view'[c] = Put(view[c], r.item, [synced |-> FALSE, digest |-> d])
    BY <1>5, <1>16 DEF Progress
  <2>2. /\ DOMAIN view'[c] = DOMAIN view[c] \cup {r.item} /\ view'[c][r.item].digest = d
        /\ \A q \in DOMAIN view[c] : q # r.item => view'[c][q] = view[c][q]
    BY <2>1 DEF Put
  <2>3. r.item \in DOMAIN disk[u]
    BY <1>6, <1>14 DEF Target, Backed
  <2>4. Marked(c)'
    BY <1>1, <1>2, <1>4, <1>6, <1>10, <1>16, <2>2 DEF Marked
  <2>5. ASSUME NEW q \in Path \cap DOMAIN view'[c] PROVE Backed(c, q)'
    <3>1. CASE q # r.item
      BY <1>1, <1>2, <1>10, <1>14, <2>2, <2>5, <3>1 DEF Backed
    <3>2. CASE q = r.item /\ r.type = "CREATE"
      BY <1>1, <2>2, <2>3, <3>2 DEF Backed
    <3>3. CASE q = r.item /\ r.type = "UPDATE"
      BY <1>1, <1>6, <1>10, <1>14, <2>2, <2>3, <3>3 DEF Backed
    <3>4. QED BY <1>6, <3>1, <3>2, <3>3
  <2>6. Viewed(c)'
    BY <1>2, <1>4, <1>16, <2>5 DEF Viewed
  <2>7. QED BY <1>7, <1>9, <1>11, <1>12, <1>13, <2>4, <2>6 DEF Kept, Handler
<1>17. CASE ~r.last /\ ~r.first
  <2>1. view'[c] = view[c]
    BY <1>5, <1>17 DEF Progress
  <2>2. Marked(c)'
    BY <1>1, <1>2, <1>4, <1>10, <1>17, <2>1 DEF Marked
  <2>3. Viewed(c)'
    BY <1>1, <1>2, <1>4, <1>10, <1>14, <1>17, <2>1 DEF Viewed, Backed
  <2>4. QED BY <1>7, <1>9, <1>11, <1>12, <1>13, <2>2, <2>3 DEF Kept, Handler
<1>18. QED BY <1>15, <1>16, <1>17

-----------------------------------------------------------------------------
(***************************************************************************)
(* The steps that take a stream and give it back.                          *)
(***************************************************************************)
\* The stream is the one the user has, or a new one on the file or its temporary.
LEMMA GetStreamKept ==
    ASSUME UInv, TempsApart, NEW c \in Conn, GetStream(c) PROVE Kept(c)
<1> DEFINE u == Owner[c]
           f == Target(req[c])
<1>1. /\ u \in User /\ pc[c] = "get" /\ Handler(c)
      /\ UNCHANGED <<view, subdir, told>>
  BY ConnAssumption DEF GetStream, At, UInv
<1>2. pc' = [pc EXCEPT ![c] = "take"] /\ pc'[c] = "take"
  BY DEF GetStream, Go, UInv, IInv, Shape
<1>3. /\ req[c].type \in {"CREATE", "UPDATE"} /\ req[c].item \in Path /\ subdir[u]
      /\ req[c].ptr = None /\ req[c].iter = None
      /\ req[c].type = "UPDATE" => req[c].item \in DOMAIN view[c]
      /\ req[c].type = "CREATE" => req[c].item \notin DOMAIN told[u]
  BY <1>1 DEF Handler, Locals, Placed, Viewed, Withdrawn
<1>4. /\ f \in Name /\ (req[c].type = "CREATE" => f = req[c].item)
      /\ f \in Path => req[c].type = "CREATE"
  BY <1>3, NameAssumption DEF Target, TempsApart
<1>5. disk' = [disk EXCEPT ![u] = Touch(@, f)]
  BY <1>3 DEF GetStream
<1>6. /\ f \in DOMAIN disk'[u]
      /\ \A q \in DOMAIN disk[u] : q \in DOMAIN disk'[u] /\ disk'[u][q] = disk[u][q]
  BY <1>1, <1>5 DEF Touch, Put, UInv, IInv, Shape
<1>7. ToldOf(c)
  BY <1>1, <1>6 DEF ToldOf, UInv, ToldKept, ToldPaths
<1>8. \A q \in Path \cap DOMAIN view[c] : Backed(c, q) /\ Backed(c, q)'
  BY <1>1, <1>6 DEF Handler, Viewed, Backed
<1>9. CASE /\ u \in DOMAIN table /\ req' = [req EXCEPT ![c].iter = table[u]]
           /\ UNCHANGED <<table, stream>>
  <2>1. req[c] \in Request /\ table[u] \in StreamId
    BY <1>9 DEF UInv, Typed, IsMap
  <2>2. req'[c] = [req[c] EXCEPT !.iter = table[u]]
    BY <1>9 DEF UInv, Typed
  <2>3. /\ req'[c] \in Request /\ req'[c].iter = table[u] /\ req'[c].type = req[c].type
        /\ req'[c].item = req[c].item /\ req'[c].ptr = None /\ Target(req'[c]) = f
    BY <1>3, <2>1, <2>2 DEF Request, Target
  <2>4. \A e \in Conn \ {c} : req'[e] = req[e]
    BY <1>9 DEF UInv, Typed
  <2>5. Typed' /\ StreamsApart'
    BY <1>1, <1>3, <1>9, <2>3, <2>4, ApartStays DEF UInv, Typed
  <2>6. Others(c)
    BY <1>1, <1>2, <1>5, <1>9, <2>4 DEF Others, UInv, IInv, Shape, Typed
  <2>7. Locals(c)' /\ Entry(c)' /\ Closed(c)' /\ Placed(c)' /\ Withdrawn(c)'
    BY <1>1, <1>2, <1>3, <1>6, <1>9, <2>3
    DEF Locals, Entry, Closed, Placed, Withdrawn
  <2>8. Marked(c)' /\ Viewed(c)'
    BY <1>1, <1>2, <1>3, <1>8, <1>9, <2>3 DEF Handler, Marked, Viewed
  <2>9. QED BY <1>7, <2>5, <2>6, <2>7, <2>8 DEF Kept, Handler
<1>10. ASSUME u \notin DOMAIN table, NEW i \in StreamId, i \notin DOMAIN stream,
              NEW reqs \in {req, Rehash},
              req' = [reqs EXCEPT ![c].iter = i, ![c].first = TRUE],
              table' = Put(table, u, i),
              stream' = Put(stream, i, [name |-> f, buffer |-> <<>>, open |-> TRUE])
       PROVE  Kept(c)
  <2>0. /\ reqs \in [Conn -> Request] /\ reqs[c] = req[c]
        /\ \A e \in Conn : \/ reqs[e] = req[e]
                           \/ /\ req[e].iter \in StreamId
                              /\ reqs[e] = [req[e] EXCEPT !.stale = TRUE]
    <3>1. req \in [Conn -> Request] /\ req[c].iter \notin StreamId
      BY <1>3, MarkAssumption DEF UInv, Typed
    <3>2. \A q \in Request : [q EXCEPT !.stale = TRUE] \in Request
      BY DEF Request
    <3>3. CASE reqs = Rehash
      BY <3>1, <3>2, <3>3 DEF Rehash
    <3>4. QED BY <3>1, <3>3
  <2>1. req[c] \in Request
    BY DEF UInv, Typed
  <2>2. req'[c] = [req[c] EXCEPT !.iter = i, !.first = TRUE]
    BY <1>10, <2>0
  <2>3. /\ req'[c] \in Request /\ req'[c].iter = i /\ req'[c].type = req[c].type
        /\ req'[c].item = req[c].item /\ req'[c].ptr = None /\ Target(req'[c]) = f
        /\ req'[c].first = TRUE
    <3>1. req'[c] \in Request
      <4> DEFINE q == [req[c] EXCEPT !.iter = i]
      <4>1. q \in Request
        BY <1>10, <2>1 DEF Request
      <4>2. [q EXCEPT !.first = TRUE] \in Request
        <5> HIDE DEF q
        <5>1. QED BY <4>1 DEF Request
      <4>3. QED BY <2>2, <4>2
    <3>2. /\ req'[c].iter = i /\ req'[c].type = req[c].type
          /\ req'[c].item = req[c].item /\ req'[c].ptr = req[c].ptr
          /\ req'[c].first = TRUE
      BY <2>1, <2>2 DEF Request
    <3>3. Target(req'[c]) = f
      BY <3>2 DEF Target
    <3>4. QED BY <1>3, <3>1, <3>2, <3>3
  <2>4. /\ req' \in [Conn -> Request]
        /\ \A e \in Conn \ {c} : /\ req'[e] = req[e] \/ Staled(e)
                                 /\ req'[e].ptr = req[e].ptr
    <3>1. req' \in [Conn -> Request] /\ \A e \in Conn \ {c} : req'[e] = reqs[e]
      BY <1>10, <2>0, <2>3
    <3>2. \A e \in Conn \ {c} : req'[e] = req[e] \/ Staled(e)
      BY <2>0, <3>1 DEF Staled
    <3>3. ASSUME NEW e \in Conn, Staled(e) PROVE req'[e].ptr = req[e].ptr
      <4>1. req[e] \in Request
        BY DEF UInv, Typed
      <4>2. QED BY <3>3, <4>1 DEF Staled, Request
    <3>4. QED BY <3>1, <3>2, <3>3
  <2>5. /\ IsMap(table', User, StreamId) /\ DOMAIN table' = DOMAIN table \cup {u}
        /\ table'[u] = i /\ \A v \in DOMAIN table : table'[v] = table[v]
    BY <1>1, <1>10 DEF UInv, Typed, IsMap, Put
  <2>6. /\ IsMap(stream', StreamId, Stream) /\ DOMAIN stream' = DOMAIN stream \cup {i}
        /\ stream'[i].name = f /\ \A j \in DOMAIN stream : stream'[j] = stream[j]
    <3>1. <<>> \in Content
      BY DEF Content
    <3>2. [name |-> f, buffer |-> <<>>, open |-> TRUE] \in Stream
      BY <1>4, <3>1 DEF Stream
    <3>3. QED BY <1>10, <3>2 DEF UInv, Typed, IsMap, Put
  <2>7. Typed'
    BY <1>1, <2>4, <2>5, <2>6 DEF UInv, Typed
  <2>8. \A e \in Conn : req'[e].ptr = req[e].ptr /\ req[e].ptr \in DOMAIN stream \cup {None}
    BY <1>3, <2>3, <2>4 DEF UInv, StreamsApart
  <2>9. \A v \in DOMAIN table : table[v] \in DOMAIN stream
    BY DEF UInv, StreamsApart
  <2>10. StreamsApart'
    <3>1. /\ \A v \in DOMAIN table' : table'[v] \in DOMAIN stream'
          /\ \A e \in Conn : req'[e].ptr \in DOMAIN stream' \cup {None}
      BY <2>5, <2>6, <2>8, <2>9
    <3>2. \A v, w \in DOMAIN table' : table'[v] = table'[w] => v = w
      BY <1>10, <2>5, <2>9 DEF UInv, StreamsApart
    <3>3. \A e \in Conn, v \in DOMAIN table' : req'[e].ptr = table'[v] => Owner[e] = v
      BY <1>10, <2>5, <2>8, MarkAssumption DEF UInv, StreamsApart
    <3>4. \A d, e \in Conn : req'[d].ptr = req'[e].ptr /\ req'[d].ptr # None => Owner[d] = Owner[e]
      BY <2>8 DEF UInv, StreamsApart
    <3>5. QED BY <3>1, <3>2, <3>3, <3>4 DEF StreamsApart
  <2>11. Others(c)
    BY <1>1, <1>2, <1>5, <2>4, <2>5, <2>6 DEF Others, UInv, IInv, Shape, Typed
  <2>12. Locals(c)' /\ Entry(c)' /\ Closed(c)' /\ Placed(c)' /\ Withdrawn(c)'
    BY <1>1, <1>2, <1>3, <1>6, <2>3, <2>5
    DEF Locals, Entry, Closed, Placed, Withdrawn
  <2>13. Marked(c)'
    BY <1>1, <1>2, <1>3, <1>4, <2>3, <2>5, <2>6 DEF Marked
  <2>14. Viewed(c)'
    BY <1>1, <1>2, <1>3, <1>8, <2>3 DEF Viewed
  <2>15. QED BY <1>7, <2>7, <2>10, <2>11, <2>12, <2>13, <2>14 DEF Kept, Handler
<1>11. StreamFor(u) = IF u \in DOMAIN table THEN {table[u]} ELSE {}
  BY DEF StreamFor
<1>12. CASE \E i \in StreamFor(u) : req' = [req EXCEPT ![c].iter = i] /\ UNCHANGED <<table, stream>>
  BY <1>9, <1>11, <1>12
<1>13. CASE /\ StreamFor(u) = {} /\ DOMAIN stream # StreamId
            /\ LET i == CHOOSE j \in StreamId : j \notin DOMAIN stream IN
               /\ \E reqs \in {req, Rehash} :
                    req' = [reqs EXCEPT ![c].iter = i, ![c].first = TRUE]
               /\ table' = Put(table, u, i)
               /\ stream' = Put(stream, i, [name |-> f, buffer |-> <<>>, open |-> TRUE])
  <2>1. \E j \in StreamId : j \notin DOMAIN stream
    BY <1>13 DEF UInv, Typed, IsMap
  <2> DEFINE i == CHOOSE j \in StreamId : j \notin DOMAIN stream
  <2>2. i \in StreamId /\ i \notin DOMAIN stream
    BY <2>1
  <2>3. /\ \E reqs \in {req, Rehash} :
             req' = [reqs EXCEPT ![c].iter = i, ![c].first = TRUE]
        /\ table' = Put(table, u, i)
        /\ stream' = Put(stream, i, [name |-> f, buffer |-> <<>>, open |-> TRUE])
    BY <1>13
  <2>4. u \notin DOMAIN table
    BY <1>11, <1>13
  <2> HIDE DEF i
  <2>5. QED BY <1>10, <2>2, <2>3, <2>4
<1>14. QED BY <1>3, <1>12, <1>13 DEF GetStream

\* The handler gives back a stream that is in the table, or that is closed.
LEMMA LeaveKept ==
    ASSUME UInv, NEW c \in Conn, Leave(c), UNCHANGED <<view, table, subdir, told>>,
           \/ pc[c] = "return"
           \/ pc[c] = "take" /\ ~Healthy(req[c].iter)
    PROVE  Kept(c)
<1> DEFINE u == Owner[c]
           i == req[c].ptr
<1>1. u \in User /\ Handler(c)
  BY ConnAssumption DEF UInv
<1>2. pc' = [pc EXCEPT ![c] = "idle"] /\ pc'[c] = "idle"
  BY DEF Leave, Go, UInv, IInv, Shape
<1>3. /\ req' \in [Conn -> Request] /\ req'[c] = NoRequest
      /\ \A e \in Conn \ {c} : req'[e] = req[e]
  BY NoRequestTyped DEF Leave, UInv, Typed
<1>4. /\ IsMap(stream', StreamId, Stream)
      /\ \A j \in DOMAIN stream :
           j # i \/ j \in Range(table) \/ (\E e \in Conn : req'[e].ptr = j)
             => j \in DOMAIN stream' /\ stream'[j] = stream[j]
      /\ \A v \in User \ {u} : disk'[v] = disk[v]
      /\ \/ disk'[u] = disk[u]
         \/ i # None /\ i \notin Range(table) /\ disk'[u] = Flush(disk[u], stream[i])
  <2>1. Release(u, i, table, req')
    BY DEF Leave
  <2>2. Shape /\ IsMap(stream, StreamId, Stream)
    BY DEF UInv, IInv, Typed
  <2> HIDE DEF u, i
  <2>3. \A x, tab, reqs : Release(u, x, tab, reqs) =>
          /\ IsMap(stream', StreamId, Stream)
          /\ \A j \in DOMAIN stream :
               j # x \/ j \in Range(tab) \/ (\E e \in Conn : reqs[e].ptr = j)
                 => j \in DOMAIN stream' /\ stream'[j] = stream[j]
          /\ \A v \in User \ {u} : disk'[v] = disk[v]
          /\ \/ disk'[u] = disk[u]
             \/ x # None /\ x \notin Range(tab) /\ disk'[u] = Flush(disk[u], stream[x])
    BY <1>1, <2>2, ReleaseEffect DEF u
  <2>4. QED BY <2>1, <2>3
<1>5. disk'[u] = disk[u]
  <2>1. CASE i # None /\ i \notin Range(table)
    <3>1. ~stream[i].open
      BY <1>1, <2>1 DEF Handler, Closed, Range
    <3>2. QED BY <1>4, <3>1 DEF Flush
  <2>2. QED BY <1>4, <2>1
<1>6. \A v \in DOMAIN table : table[v] \in Range(table)
  BY DEF Range
<1>7. Typed'
  BY <1>3, <1>4 DEF UInv, Typed
<1>8. \A e \in Conn : req'[e].ptr = req[e].ptr \/ req'[e].ptr = None
  BY <1>3 DEF NoRequest
<1>9. StreamsApart'
  <2>1. /\ \A v \in DOMAIN table' : table'[v] \in DOMAIN stream'
        /\ \A e \in Conn : req'[e].ptr \in DOMAIN stream' \cup {None}
    BY <1>4, <1>6, <1>8 DEF UInv, StreamsApart
  <2>2. /\ \A v, w \in DOMAIN table' : table'[v] = table'[w] => v = w
        /\ \A e \in Conn, v \in DOMAIN table' : req'[e].ptr = table'[v] => Owner[e] = v
        /\ \A d, e \in Conn : req'[d].ptr = req'[e].ptr /\ req'[d].ptr # None => Owner[d] = Owner[e]
    BY <1>8, MarkAssumption DEF UInv, StreamsApart, Typed, IsMap
  <2>3. QED BY <2>1, <2>2 DEF StreamsApart
<1>10. i \in StreamsOf(u)
  BY DEF StreamsOf
<1>11. Others(c)
  BY <1>1, <1>2, <1>3, <1>4, <1>10 DEF Others, UInv, IInv, Shape, Typed
<1>12. ToldOf(c)
  BY <1>1, <1>5 DEF ToldOf, UInv, ToldKept, ToldPaths
<1>13. Locals(c)' /\ Entry(c)' /\ Closed(c)' /\ Placed(c)' /\ Withdrawn(c)'
  BY <1>2, <1>3 DEF Locals, Entry, Closed, Placed, Withdrawn, NoRequest
<1>14. Marked(c)'
  <2>1. ASSUME u \in DOMAIN table PROVE stream'[table[u]] = stream[table[u]]
    BY <1>4, <1>6, <2>1 DEF UInv, StreamsApart
  <2>2. ASSUME u \in DOMAIN table, pc[c] = "take" PROVE stream[table[u]].name \notin Path
    BY <1>1, <2>2, MarkAssumption, NameAssumption
    DEF Handler, Entry, Healthy, UInv, Typed, IsMap
  <2>3. QED BY <1>1, <1>2, <1>3, <2>1, <2>2 DEF Handler, Marked
<1>15. Viewed(c)'
  BY <1>1, <1>2, <1>3, <1>5 DEF Handler, Viewed, Backed
<1>16. QED BY <1>7, <1>9, <1>11, <1>12, <1>13, <1>14, <1>15 DEF Kept, Handler

LEMMA ReturnKept == ASSUME UInv, NEW c \in Conn, Return(c) PROVE Kept(c)
BY LeaveKept DEF Return, At

LEMMA TakeKept == ASSUME UInv, NEW c \in Conn, Take(c), ~Kill PROVE Kept(c)
<1> DEFINE u == Owner[c]
           i == req[c].iter
<1>1. u \in User /\ Handler(c) /\ pc[c] = "take"
  BY ConnAssumption DEF UInv, Take, At
<1>2. CASE /\ req' = [req EXCEPT ![c].ptr = i, ![c].iter = None, ![c].stale = FALSE]
           /\ Go(c, "write")
           /\ UNCHANGED <<view, table, stream, disk, subdir, told>>
  <2>1. pc' = [pc EXCEPT ![c] = "write"] /\ pc'[c] = "write"
    BY <1>2 DEF Go, UInv, IInv, Shape
  <2>2. /\ u \in DOMAIN table /\ i = table[u] /\ i \in StreamId /\ i \in DOMAIN stream
        /\ i # None
    BY <1>1, MarkAssumption DEF Handler, Entry, UInv, StreamsApart, Typed, IsMap
  <2>3. req[c] \in Request /\ req'[c] = [req[c] EXCEPT !.ptr = i, !.iter = None, !.stale = FALSE]
    BY <1>2 DEF UInv, Typed
  <2>4. /\ req'[c] \in Request /\ req'[c].iter = None /\ req'[c].ptr = i
        /\ req'[c].type = req[c].type /\ req'[c].item = req[c].item
        /\ req'[c].first = req[c].first /\ req'[c].digest = req[c].digest
        /\ Target(req'[c]) = Target(req[c])
    <3>1. req'[c] \in Request
      <4> DEFINE q1 == [req[c] EXCEPT !.ptr = i]
                 q2 == [q1 EXCEPT !.iter = None]
      <4>1. req'[c] = [q2 EXCEPT !.stale = FALSE]
        BY <2>3
      <4>2. q1 \in Request
        BY <2>2, <2>3 DEF Request
      <4>3. q2 \in Request
        <5> HIDE DEF q1
        <5>1. QED BY <4>2 DEF Request
      <4>4. [q2 EXCEPT !.stale = FALSE] \in Request
        <5> HIDE DEF q2
        <5>1. QED BY <4>3 DEF Request
      <4>5. QED BY <4>1, <4>4
    <3>2. /\ req'[c].iter = None /\ req'[c].ptr = i
          /\ req'[c].type = req[c].type /\ req'[c].item = req[c].item
          /\ req'[c].first = req[c].first /\ req'[c].digest = req[c].digest
      BY <2>3 DEF Request
    <3>3. QED BY <3>1, <3>2 DEF Target
  <2>5. req' \in [Conn -> Request] /\ \A e \in Conn \ {c} : req'[e] = req[e]
    BY <1>2, <2>4 DEF UInv, Typed
  <2>6. Typed'
    BY <1>2, <2>5 DEF UInv, Typed
  <2>7. \A e \in Conn : \/ req'[e].ptr = req[e].ptr
                        \/ Owner[e] \in DOMAIN table /\ req'[e].ptr = table[Owner[e]]
    BY <2>2, <2>4, <2>5
  <2>8. StreamsApart'
    <3>1. /\ \A v \in DOMAIN table' : table'[v] \in DOMAIN stream'
          /\ \A e \in Conn : req'[e].ptr \in DOMAIN stream' \cup {None}
          /\ \A v, w \in DOMAIN table' : table'[v] = table'[w] => v = w
      BY <1>2, <2>7 DEF UInv, StreamsApart
    <3>2. \A e \in Conn, v \in DOMAIN table' : req'[e].ptr = table'[v] => Owner[e] = v
      BY <1>2, <2>7 DEF UInv, StreamsApart
    <3>3. \A d, e \in Conn : req'[d].ptr = req'[e].ptr /\ req'[d].ptr # None => Owner[d] = Owner[e]
      BY <2>7 DEF UInv, StreamsApart
    <3>4. QED BY <3>1, <3>2, <3>3 DEF StreamsApart
  <2>9. Others(c)
    BY <1>1, <1>2, <2>1, <2>5 DEF Others, UInv, IInv, Shape, Typed
  <2>10. ToldOf(c)
    BY <1>1, <1>2 DEF ToldOf, UInv, ToldKept, ToldPaths
  <2>11. Handler(c)'
    BY <1>1, <1>2, <2>1, <2>2, <2>4
    DEF Handler, Locals, Entry, Closed, Marked, Placed, Viewed, Backed, Withdrawn
  <2>12. QED BY <2>6, <2>8, <2>9, <2>10, <2>11 DEF Kept
<1>3. CASE ~Healthy(i) /\ Leave(c) /\ UNCHANGED <<view, table, subdir, told>>
  BY <1>1, <1>3, LeaveKept
<1>4. QED BY <1>2, <1>3 DEF Take

\* What erase_stream does where each user has one connection: no iterator of another
\* handler was to the entry that goes.
LEMMA ForgetEffect ==
    ASSUME UInv, OneConnectionEach, NEW c \in Conn, NEW after, ForgetStream(c, after),
           pc[c] \in {"idle", "forget"}
    PROVE  LET u == Owner[c]
           IN /\ Typed' <=> (DOMAIN view' = Conn /\ DOMAIN told' = User)
              /\ \A e \in Conn : req'[e] = req[e]
              /\ DOMAIN table' = DOMAIN table \ {u} /\ \A v \in DOMAIN table' : table'[v] = table[v]
              /\ \A j \in DOMAIN stream :
                   j \notin StreamsOf(u) \/ (\E e \in Conn : req[e].ptr = j)
                     => j \in DOMAIN stream' /\ stream'[j] = stream[j]
              /\ \A v \in User \ {u} : disk'[v] = disk[v]
              /\ \/ disk'[u] = disk[u]
                 \/ u \in DOMAIN table /\ disk'[u] = Flush(disk[u], stream[table[u]])
              /\ StreamsApart'
              /\ pc' = [pc EXCEPT ![c] = after]
<1> DEFINE u == Owner[c]
           i == IF u \in DOMAIN table THEN table[u] ELSE None
<1>1. u \in User /\ Handler(c)
  BY ConnAssumption DEF UInv
<1>2. table' = Drop(table, u) /\ pc' = [pc EXCEPT ![c] = after] /\ Release(u, i, table', req')
  BY DEF ForgetStream, Forget, Go
<1>3. DOMAIN table' = DOMAIN table \ {u} /\ \A v \in DOMAIN table' : table'[v] = table[v]
  BY <1>2 DEF Drop, Restrict
<1>4. IsMap(table', User, StreamId)
  <2>1. table' = [v \in DOMAIN table \ {u} |-> table[v]]
    BY <1>2 DEF Drop, Restrict
  <2>2. QED BY <1>3, <2>1 DEF UInv, Typed, IsMap
<1>5. \A v \in DOMAIN table' : table'[v] \in Range(table')
  BY DEF Range
<1>6. ASSUME NEW e \in Conn PROVE req[e].iter \in StreamId => req[e].iter \in Range(table')
  <2>1. CASE pc[e] # "take"
    BY <2>1, MarkAssumption DEF UInv, Handler, Locals
  <2>2. CASE pc[e] = "take"
    <3>1. Owner[e] # u
      BY <2>2 DEF OneConnectionEach
    <3>2. Owner[e] \in DOMAIN table /\ req[e].iter = table[Owner[e]]
      BY <2>2 DEF UInv, Handler, Entry
    <3>3. QED BY <1>3, <1>5, <3>1, <3>2
  <2>3. QED BY <2>1, <2>2
<1>7. req' \in [Conn -> Request] /\ \A e \in Conn : req'[e] = req[e]
  <2>1. req' = [e \in Conn |->
                  IF req[e].iter \in StreamId /\ req[e].iter \notin Range(table')
                  THEN [req[e] EXCEPT !.iter = Dangling] ELSE req[e]]
    BY <1>2 DEF ForgetStream, Forget
  <2>2. \A e \in Conn : req'[e] = req[e]
    BY <1>6, <2>1
  <2>3. req' = [e \in Conn |-> req'[e]]
    BY <2>1
  <2>4. QED BY <2>2, <2>3 DEF UInv, Typed
<1>8. /\ IsMap(stream', StreamId, Stream)
      /\ \A j \in DOMAIN stream :
           j # i \/ j \in Range(table') \/ (\E e \in Conn : req'[e].ptr = j)
             => j \in DOMAIN stream' /\ stream'[j] = stream[j]
      /\ \A v \in User \ {u} : disk'[v] = disk[v]
      /\ \/ disk'[u] = disk[u]
         \/ i # None /\ i \notin Range(table') /\ disk'[u] = Flush(disk[u], stream[i])
  <2>1. Shape /\ IsMap(stream, StreamId, Stream)
    BY DEF UInv, IInv, Typed
  <2> HIDE DEF u, i
  <2>2. \A x, tab, reqs : Release(u, x, tab, reqs) =>
          /\ IsMap(stream', StreamId, Stream)
          /\ \A j \in DOMAIN stream :
               j # x \/ j \in Range(tab) \/ (\E e \in Conn : reqs[e].ptr = j)
                 => j \in DOMAIN stream' /\ stream'[j] = stream[j]
          /\ \A v \in User \ {u} : disk'[v] = disk[v]
          /\ \/ disk'[u] = disk[u]
             \/ x # None /\ x \notin Range(tab) /\ disk'[u] = Flush(disk[u], stream[x])
    BY <1>1, <2>1, ReleaseEffect
  <2>3. QED BY <1>2, <2>2
<1>9. Typed' <=> (DOMAIN view' = Conn /\ DOMAIN told' = User)
  BY <1>4, <1>7, <1>8 DEF Typed
<1>10. \A j \in DOMAIN stream :
         j \notin StreamsOf(u) \/ (\E e \in Conn : req[e].ptr = j)
           => j \in DOMAIN stream' /\ stream'[j] = stream[j]
  BY <1>7, <1>8, MarkAssumption DEF StreamsOf, UInv, Typed, IsMap
<1>11. \/ disk'[u] = disk[u]
       \/ u \in DOMAIN table /\ disk'[u] = Flush(disk[u], stream[table[u]])
  BY <1>8
<1>12. StreamsApart'
  <2>1. /\ \A v \in DOMAIN table' : table'[v] \in DOMAIN stream'
        /\ \A e \in Conn : req'[e].ptr \in DOMAIN stream' \cup {None}
    BY <1>3, <1>5, <1>7, <1>8 DEF UInv, StreamsApart
  <2>2. \A v, w \in DOMAIN table' : table'[v] = table'[w] => v = w
    BY <1>3 DEF UInv, StreamsApart
  <2>3. \A e \in Conn, v \in DOMAIN table' : req'[e].ptr = table'[v] => Owner[e] = v
    BY <1>3, <1>7 DEF UInv, StreamsApart
  <2>4. \A d, e \in Conn : req'[d].ptr = req'[e].ptr /\ req'[d].ptr # None => Owner[d] = Owner[e]
    BY <1>7 DEF UInv, StreamsApart
  <2>5. QED BY <2>1, <2>2, <2>3, <2>4 DEF StreamsApart
<1>13. QED BY <1>2, <1>3, <1>7, <1>8, <1>9, <1>10, <1>11, <1>12

\* The stream a handler forgets it has closed: there is nothing left to write.
LEMMA EraseStreamKept ==
    ASSUME UInv, OneConnectionEach, NEW c \in Conn, EraseStream(c) PROVE Kept(c)
<1> DEFINE u == Owner[c]
           after == IF req[c].type = "CREATE" THEN "hash" ELSE "remove"
<1>1. /\ u \in User /\ Handler(c) /\ pc[c] = "forget" /\ UNCHANGED <<view, subdir, told>>
      /\ ForgetStream(c, after)
  BY ConnAssumption DEF UInv, EraseStream, At
<1> HIDE DEF after
<1>2. /\ Typed' <=> (DOMAIN view' = Conn /\ DOMAIN told' = User)
      /\ \A e \in Conn : req'[e] = req[e]
      /\ DOMAIN table' = DOMAIN table \ {u} /\ \A v \in DOMAIN table' : table'[v] = table[v]
      /\ \A j \in DOMAIN stream :
           j \notin StreamsOf(u) \/ (\E e \in Conn : req[e].ptr = j)
             => j \in DOMAIN stream' /\ stream'[j] = stream[j]
      /\ \A v \in User \ {u} : disk'[v] = disk[v]
      /\ \/ disk'[u] = disk[u]
         \/ u \in DOMAIN table /\ disk'[u] = Flush(disk[u], stream[table[u]])
      /\ StreamsApart'
      /\ pc' = [pc EXCEPT ![c] = after]
  BY <1>1, ForgetEffect
<1>3. pc'[c] = after /\ after \in {"hash", "remove"}
  BY <1>2 DEF after, UInv, IInv, Shape
<1>4. /\ req[c].ptr \in DOMAIN stream /\ u \in DOMAIN table /\ req[c].ptr = table[u]
      /\ ~stream[req[c].ptr].open /\ stream[req[c].ptr].buffer = <<>>
  BY <1>1 DEF Handler, Entry, Closed, UInv, StreamsApart
<1>5. /\ disk'[u] = disk[u]
      /\ stream'[req[c].ptr] = stream[req[c].ptr]
  BY <1>1, <1>2, <1>4 DEF Flush
<1>6. Typed'
  BY <1>1, <1>2 DEF UInv, Typed
<1>7. Others(c)
  BY <1>1, <1>2 DEF Others, UInv, IInv, Shape
<1>8. ToldOf(c)
  BY <1>1, <1>5 DEF ToldOf, UInv, ToldKept, ToldPaths
<1>9. Locals(c)' /\ Placed(c)' /\ Withdrawn(c)'
  BY <1>1, <1>2, <1>3, <1>5 DEF Handler, Locals, Placed, Withdrawn, Target, after
<1>10. Entry(c)' /\ Marked(c)'
  BY <1>2, <1>3 DEF Entry, Marked
<1>11. Closed(c)'
  BY <1>1, <1>2, <1>3, <1>4, <1>5 DEF Closed, Handler
<1>12. Viewed(c)'
  BY <1>1, <1>2, <1>3, <1>5 DEF Handler, Viewed, Backed
<1>13. QED BY <1>2, <1>6, <1>7, <1>8, <1>9, <1>10, <1>11, <1>12 DEF Kept, Handler

\* A session that ends in the middle of an upload flushes a stream, to a file that nobody
\* was told of.
LEMMA ShutdownKept ==
    ASSUME UInv, OneConnectionEach, NEW c \in Conn, Shutdown(c) PROVE Kept(c)
<1> DEFINE u == Owner[c]
<1>1. /\ u \in User /\ Handler(c) /\ pc[c] = "idle" /\ UNCHANGED <<subdir, told>>
      /\ view' = [view EXCEPT ![c] = Empty] /\ ForgetStream(c, "away")
  BY ConnAssumption DEF UInv, Shutdown, At
<1>2. /\ Typed' <=> (DOMAIN view' = Conn /\ DOMAIN told' = User)
      /\ \A e \in Conn : req'[e] = req[e]
      /\ DOMAIN table' = DOMAIN table \ {u} /\ \A v \in DOMAIN table' : table'[v] = table[v]
      /\ \A j \in DOMAIN stream :
           j \notin StreamsOf(u) \/ (\E e \in Conn : req[e].ptr = j)
             => j \in DOMAIN stream' /\ stream'[j] = stream[j]
      /\ \A v \in User \ {u} : disk'[v] = disk[v]
      /\ \/ disk'[u] = disk[u]
         \/ u \in DOMAIN table /\ disk'[u] = Flush(disk[u], stream[table[u]])
      /\ StreamsApart'
      /\ pc' = [pc EXCEPT ![c] = "away"]
  BY <1>1, ForgetEffect
<1>3. pc'[c] = "away" /\ view'[c] = Empty
  BY <1>1, <1>2 DEF UInv, IInv, Shape, Typed
<1>4. Typed'
  BY <1>1, <1>2 DEF UInv, Typed
<1>5. Others(c)
  BY <1>1, <1>2 DEF Others, UInv, IInv, Shape, Typed
<1>6. ASSUME NEW q \in DOMAIN told[u] PROVE q \in DOMAIN disk'[u] /\ disk'[u][q] = told[u][q]
  <2>1. q \in Path /\ q \in DOMAIN disk[u] /\ disk[u][q] = told[u][q]
    BY <1>1 DEF UInv, ToldKept, ToldPaths
  <2>2. u \in DOMAIN table => stream[table[u]].name # q
    BY <1>1, <2>1 DEF Handler, Marked
  <2>3. QED BY <1>2, <2>1, <2>2, FlushOnly, FlushKeepsNames
<1>7. ToldOf(c)
  BY <1>1, <1>6 DEF ToldOf, UInv, ToldPaths
<1>8. req[c] = NoRequest
  BY <1>1 DEF Handler, Locals
<1>9. Handler(c)'
  BY <1>2, <1>3, <1>8
  DEF Handler, Locals, Entry, Closed, Marked, Placed, Viewed, Withdrawn, NoRequest, Empty
<1>10. QED BY <1>2, <1>4, <1>5, <1>7, <1>9 DEF Kept

-----------------------------------------------------------------------------
(***************************************************************************)
(* The invariant of users with one connection each.                        *)
(***************************************************************************)
LEMMA InitUInv == ASSUME Init PROVE UInv
<1>1. Typed
  BY NoRequestTyped DEF Init, Typed, IsMap, Empty
<1>2. StreamsApart
  BY DEF Init, StreamsApart, NoRequest, Empty
<1>3. ToldPaths /\ ToldKept
  BY DEF Init, ToldPaths, ToldKept, Empty
<1>4. ASSUME NEW c \in Conn PROVE Handler(c)
  BY DEF Init, Handler, Locals, Entry, Closed, Marked, Placed, Viewed, Withdrawn, NoRequest, Empty
<1>5. QED BY <1>1, <1>2, <1>3, <1>4, InitIInv DEF UInv

LEMMA StutterUInv == ASSUME UInv, UNCHANGED vars PROVE UInv'
<1>1. Typed' /\ ToldPaths' /\ ToldKept'
  BY DEF UInv, Typed, ToldPaths, ToldKept, vars
<1>2. StreamsApart'
  BY DEF UInv, StreamsApart, vars
<1>3. IInv'
  BY NextIInv DEF UInv
<1>4. ASSUME NEW c \in Conn PROVE Handler(c)'
  <2>1. Handler(c)
    BY DEF UInv
  <2>2. Locals(c)' /\ Entry(c)' /\ Closed(c)'
    BY <2>1 DEF Handler, Locals, Entry, Closed, vars
  <2>3. Marked(c)' /\ Placed(c)'
    BY <2>1 DEF Handler, Marked, Placed, Target, vars
  <2>4. Viewed(c)' /\ Withdrawn(c)'
    BY <2>1 DEF Handler, Viewed, Backed, Withdrawn, vars
  <2>5. QED BY <2>2, <2>3, <2>4 DEF Handler
<1>5. QED BY <1>1, <1>2, <1>3, <1>4 DEF UInv

LEMMA NextUInv ==
    ASSUME UInv, OneConnectionEach, TempsApart, [Next]_vars PROVE UInv'
<1>1. IInv'
  BY NextIInv DEF UInv
<1>2. CASE UNCHANGED vars
  BY <1>2, StutterUInv
<1>3. CASE Kill
  BY <1>1, <1>3, KillUInv
<1>4. ASSUME NEW c \in Conn, Step(c), ~Kill PROVE UInv'
  <2>1. Kept(c)
    BY <1>4, BeginKept, ShutdownKept, AskKept, CreateDirectoriesKept, GetStreamKept, TakeKept,
       BeginWriteKept, EndWriteKept, CloseKept, EraseStreamKept, RemoveKept, RenameKept,
       HashKept, DropFileKept, UnlinkKept, IsEmptyKept, RemoveDirectoryKept, ReturnKept
    DEF Step
  <2>2. QED BY <1>1, <2>1, KeptUInv
<1>5. QED BY <1>2, <1>3, <1>4 DEF Next

\* Where each user has one connection, the element that get_stream returned an iterator to
\* is there until handle_create and handle_update have made their pointer from it, whatever
\* the connections of other users erase in between.  The iterator itself may be invalid
\* by then: an emplace for another user may rehash the table.
THEOREM IteratorsStay ==
    ASSUME OneConnectionEach, TempsApart PROVE Spec => []ElementStays
<1>1. UInv => ElementStays
  <2> SUFFICES ASSUME UInv, NEW c \in Conn PROVE req[c].iter # Dangling
    BY DEF ElementStays
  <2>1. CASE pc[c] # "take"
    BY <2>1, MarkAssumption DEF UInv, Handler, Locals
  <2>2. CASE pc[c] = "take"
    BY <2>2, MarkAssumption DEF UInv, Handler, Entry, Typed, IsMap
  <2>3. QED BY <2>1, <2>2
<1>2. QED BY <1>1, InitUInv, NextUInv, PTL DEF Spec

\* No two threads are inside a write to the same stream object.
THEOREM WritersApart ==
    ASSUME OneConnectionEach, TempsApart PROVE Spec => []OneWriter
<1>1. UInv => OneWriter
  <2> SUFFICES ASSUME UInv, NEW c \in Conn, NEW e \in Conn, c # e, At(c, "writing"),
                      At(e, "writing"), req[c].ptr = req[e].ptr
               PROVE  FALSE
    BY DEF OneWriter
  <2>1. req[c].ptr # None
    BY MarkAssumption DEF UInv, Handler, Entry, Typed, IsMap, At
  <2>2. Owner[c] = Owner[e]
    BY <2>1 DEF UInv, StreamsApart
  <2>3. QED BY <2>2 DEF OneConnectionEach
<1>2. QED BY <1>1, InitUInv, NextUInv, PTL DEF Spec

\* What a client was told is stored is on disk, whatever the other users do and wherever
\* the process is killed, until the client withdraws it.
THEOREM PromisesKept ==
    ASSUME OneConnectionEach, TempsApart PROVE Spec => []ToldKept
<1>1. UInv => ToldKept
  BY DEF UInv
<1>2. QED BY <1>1, InitUInv, NextUInv, PTL DEF Spec

\* Where each user has one connection, what a handler has prepared is there when it comes
\* back to it: the temporary that handle_update renames, the file that MD5_hash reads.  No
\* handler ends the process because of what the others, or shutdowns, did meanwhile.
THEOREM HandlersGoOn ==
    ASSUME OneConnectionEach, TempsApart PROVE Spec => []HandlersSurvive
<1>1. UInv => HandlersSurvive
  BY DEF UInv, Handler, Locals, Placed, HandlersSurvive, At, Target
<1>2. QED BY <1>1, InitUInv, NextUInv, PTL DEF Spec

\* A session that waits for a request has a view that the files on disk agree with.
THEOREM ViewsBacked ==
    ASSUME OneConnectionEach, TempsApart PROVE Spec => []IdleViewBacked
<1>1. UInv => IdleViewBacked
  BY DEF UInv, Handler, Viewed, Backed, IdleViewBacked, At
<1>2. QED BY <1>1, InitUInv, NextUInv, PTL DEF Spec

\* With one connection each the directory that handle_create has made is there when it
\* opens the file: only a handle_erase of the same user could have removed it.
THEOREM DirectoryWaits ==
    ASSUME OneConnectionEach, TempsApart PROVE Spec => []DirectoryThere
<1>1. UInv => DirectoryThere
  BY DEF UInv, Handler, Placed, DirectoryThere, At
<1>2. QED BY <1>1, InitUInv, NextUInv, PTL DEF Spec
=============================================================================
