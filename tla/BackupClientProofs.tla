------------------------- MODULE BackupClientProofs -------------------------
(***************************************************************************)
(* A client that goes by the answers knows what is stored, whatever calls  *)
(* fail, whenever the connection breaks and however its files change.      *)
(***************************************************************************)
EXTENDS BackupClient, TLAPS

LEMMA OfMe == Me \in Conn /\ I \in User /\ Me # None /\ I # None
BY ClientAssumption, OwnerAssumption, TokenAssumption DEF I

LEMMA DropAt ==
    ASSUME NEW m, NEW k
    PROVE  /\ DOMAIN Drop(m, k) = DOMAIN m \ {k}
           /\ \A n \in DOMAIN m \ {k} : Drop(m, k)[n] = m[n]
BY DEF Drop, Restrict

LEMMA EmptyAt == DOMAIN Empty = {}
BY DEF Empty

-----------------------------------------------------------------------------
(***************************************************************************)
(* What the handlers do to the folder and the view of the client.          *)
(***************************************************************************)
\* The files the clients name and the entries of the view are what they were, but for p.
SameFiles(p, files) ==
    \A q \in Path \ {p} : /\ q \in DOMAIN files <=> q \in DOMAIN disk[I]
                          /\ q \in DOMAIN files => files[q] = disk[I][q]

SameEntries(p, view) ==
    \A n \in Name \ {p} : /\ n \in DOMAIN view <=> n \in DOMAIN dir[Me]
                          /\ n \in DOMAIN view => view[n].digest = dir[Me][n].digest

Only(p, files, view) == SameFiles(p, files) /\ SameEntries(p, view)

LEMMA DropSame ==
    ASSUME NEW p, NEW files, SameFiles(p, files), NEW view, SameEntries(p, view)
    PROVE  Only(p, Drop(files, p), Drop(view, p))
<1>1. DOMAIN Drop(files, p) = DOMAIN files \ {p} /\ DOMAIN Drop(view, p) = DOMAIN view \ {p}
  BY DropAt
<1>2. \A q \in DOMAIN files \ {p} : Drop(files, p)[q] = files[q]
  BY DropAt
<1>3. \A n \in DOMAIN view \ {p} : Drop(view, p)[n] = view[n]
  BY DropAt
<1>4. SameFiles(p, Drop(files, p))
  BY <1>1, <1>2 DEF SameFiles
<1>5. SameEntries(p, Drop(view, p))
  BY <1>1, <1>3 DEF SameEntries
<1>6. QED BY <1>4, <1>5 DEF Only

LEMMA PutSame ==
    ASSUME NEW p, NEW entry PROVE SameEntries(p, Put(dir[Me], p, entry))
<1>1. /\ DOMAIN Put(dir[Me], p, entry) = DOMAIN dir[Me] \cup {p}
      /\ \A n \in DOMAIN dir[Me] \ {p} : Put(dir[Me], p, entry)[n] = dir[Me][n]
  BY DEF Put
<1>2. QED BY <1>1 DEF SameEntries

\* The handler commits these, and answers res.
Done(files, view, slots, res) ==
    /\ disk'[I] = files /\ dir'[Me] = view /\ streams' = slots
    /\ conn' = conn /\ DOMAIN dir' = Conn /\ DOMAIN disk' = User
    /\ running' = running /\ reply'.res = res

LEMMA CommitDone ==
    ASSUME Sessions, Live(Me), NEW files, NEW view, NEW slots, NEW type, NEW p, NEW final, NEW res,
           Commit(Me, files, view, slots), Answer(Me, type, p, final, res)
    PROVE  Done(files, view, slots, res)
<1>1. conn[Me].id = I
  BY DEF Sessions, Live
<1>2. disk' = [disk EXCEPT ![I] = files] /\ dir' = [dir EXCEPT ![Me] = view]
  BY <1>1 DEF Commit
<1>3. disk'[I] = files /\ dir'[Me] = view /\ DOMAIN dir' = Conn /\ DOMAIN disk' = User
  BY <1>2, OfMe DEF Sessions
<1>4. streams' = slots /\ conn' = conn /\ running' = running
  BY DEF Commit
<1>5. reply'.res = res
  BY DEF Answer
<1>6. QED BY <1>3, <1>4, <1>5 DEF Done

\* The ways in which a request for a file can end, for p with digest d.
Lost == Halt /\ DOMAIN disk' = User /\ reply'.res = "LOST"

FailedFor(p) ==
    \E files, slots : /\ Done(files, dir[Me], slots, "FAILED") /\ SameFiles(p, files)
                      /\ current = None => files = disk[I]

StoredAs(p, d) ==
    \E files, view : /\ Done(files, view, EraseStream(I), "OK") /\ Only(p, files, view)
                     /\ p \in DOMAIN files /\ files[p] = d
                     /\ p \in DOMAIN view /\ view[p].digest = d

RejectedFor(p) ==
    \E files, view : /\ Done(files, view, EraseStream(I), "NO_MATCH") /\ Only(p, files, view)
                     /\ p \notin DOMAIN files /\ p \notin DOMAIN view

LEMMA VerifyEnds ==
    ASSUME Sessions, Live(Me), NEW type, NEW p \in Path, NEW d, NEW files, NEW view,
           Only(p, files, view), p \in DOMAIN view, view[p].digest = d,
           Verify(Me, type, p, d, files, view)
    PROVE  Lost \/ StoredAs(p, d) \/ RejectedFor(p)
<1>1. conn[Me].id = I
  BY DEF Sessions, Live
<1>2. CASE Abort(Me, type, p, [disk EXCEPT ![I] = files])
  BY <1>2 DEF Abort, Answer, Lost, Sessions
<1>3. CASE /\ p \in DOMAIN files /\ files[p] = d
           /\ Commit(Me, files, view, EraseStream(I)) /\ Answer(Me, type, p, TRUE, "OK")
  <2>1. Done(files, view, EraseStream(I), "OK")
    BY <1>3, CommitDone
  <2>2. QED BY <1>3, <2>1 DEF StoredAs
<1>4. CASE /\ Commit(Me, Drop(files, p), Drop(view, p), EraseStream(I))
           /\ Answer(Me, type, p, TRUE, "NO_MATCH")
  <2>1. Done(Drop(files, p), Drop(view, p), EraseStream(I), "NO_MATCH")
    BY <1>4, CommitDone
  <2>2. Only(p, Drop(files, p), Drop(view, p))
    BY DropSame DEF Only
  <2>3. p \notin DOMAIN Drop(files, p) /\ p \notin DOMAIN Drop(view, p)
    BY DropAt
  <2>4. QED BY <2>1, <2>2, <2>3 DEF RejectedFor
<1>5. QED BY <1>1, <1>2, <1>3, <1>4 DEF Verify, Matches

LEMMA SwapEnds ==
    ASSUME TempsApart, Sessions, Live(Me), NEW p \in Path, NEW d, NEW files, NEW view,
           Only(p, files, view), p \in DOMAIN view, view[p].digest = d,
           Swap(Me, p, d, files, view)
    PROVE  Lost \/ StoredAs(p, d) \/ RejectedFor(p)
<1>2. CASE Verify(Me, "UPDATE", p, d, Replace(files, p), view)
  <2>1. /\ DOMAIN Replace(files, p) = (DOMAIN files \ {Temp[p]}) \cup {p}
        /\ \A q \in DOMAIN files \ {p, Temp[p]} : Replace(files, p)[q] = files[q]
    BY DEF Replace, Put, Drop, Restrict
  <2>2. Only(p, Replace(files, p), view)
    <3>1. SameFiles(p, Replace(files, p))
      BY <2>1 DEF Only, SameFiles, TempsApart
    <3>2. QED BY <3>1 DEF Only
  <2> DEFINE replaced == Replace(files, p)
  <2>3. Only(p, replaced, view) /\ Verify(Me, "UPDATE", p, d, replaced, view)
    BY <1>2, <2>2
  <2> HIDE DEF replaced
  <2>4. QED BY <2>3, VerifyEnds
<1>3. conn[Me].id = I
  BY DEF Sessions, Live
<1>4. ASSUME NEW g, Abort(Me, "UPDATE", p, [disk EXCEPT ![I] = g]) PROVE Lost
  <2>1. DOMAIN [disk EXCEPT ![I] = g] = User
    BY DEF Sessions
  <2>2. QED BY <1>4, <2>1 DEF Abort, Answer, Lost
<1>5. \/ \E g : Abort(Me, "UPDATE", p, [disk EXCEPT ![I] = g])
      \/ Verify(Me, "UPDATE", p, d, Replace(files, p), view)
  BY <1>3 DEF Swap
<1>6. QED BY <1>2, <1>4, <1>5

\* A chunk of a longer upload.
Continued(p) ==
    \E files, view, s : /\ Done(files, view, Put(streams, I, s), "OK") /\ Only(p, files, view)
                        /\ s \in {p, Temp[p], FailedStream}
                        /\ p \in DOMAIN view /\ IF p \in DOMAIN known THEN view[p].digest = known[p]
                                                ELSE ~view[p].synced

\* What KInv says to a request for p, which is being sent or may be the next.
Ready(p) ==
    /\ current \in {None, p}
    /\ current = None => I \notin DOMAIN streams
    /\ current = p => I \in DOMAIN streams /\ streams[I] \in {p, Temp[p], FailedStream}

\* The folder after a chunk has come on stream s.
LEMMA ChunkOnly ==
    ASSUME TempsApart, NEW p \in Path, Ready(p), NEW f \in {p, Temp[p]},
           NEW opened \in BOOLEAN, NEW written \in BOOLEAN, NEW data,
           NEW s, s = GetStream(I, f, opened), NEW files, files = OpenFile(I, f, opened)
    PROVE  /\ s \in {p, Temp[p], FailedStream}
           /\ SameFiles(p, files) /\ SameFiles(p, WriteTo(files, s, data))
           /\ current = None /\ s = FailedStream => files = disk[I]
<1>1. p # None /\ f \in Name /\ f # FailedStream
  BY TokenAssumption, NameAssumption
<1>2. s \in {p, Temp[p], FailedStream} /\ (s = f \/ current = p \/ (s = FailedStream /\ ~opened))
  BY <1>1 DEF Ready, GetStream
<1>3. current = None /\ s = FailedStream => files = disk[I]
  BY <1>1, <1>2 DEF OpenFile
<1>4. files = disk[I] \/ files = Put(disk[I], f, <<>>)
  BY DEF OpenFile, Touch
<1>5. /\ DOMAIN Put(disk[I], f, <<>>) = DOMAIN disk[I] \cup {f}
      /\ \A q \in DOMAIN disk[I] \ {f} : Put(disk[I], f, <<>>)[q] = disk[I][q]
  BY DEF Put
<1>6. SameFiles(p, files)
  BY <1>4, <1>5 DEF SameFiles, TempsApart
<1>7. \A q \in Path \ {p} : q # s
  BY <1>2, TokenAssumption, NameAssumption DEF TempsApart
<1>8. /\ DOMAIN WriteTo(files, s, data) = DOMAIN files
      /\ \A q \in DOMAIN files \ {s} : WriteTo(files, s, data)[q] = files[q]
  BY DEF WriteTo
<1>9. SameFiles(p, WriteTo(files, s, data))
  BY <1>6, <1>7, <1>8 DEF SameFiles
<1>10. QED BY <1>2, <1>3, <1>6, <1>9

\* A CREATE or UPDATE the client sends is never refused.
Ended(p, d, last) ==
    \/ Lost
    \/ FailedFor(p)
    \/ last /\ (StoredAs(p, d) \/ RejectedFor(p))
    \/ ~last /\ Continued(p)

\* What the two handlers do once they have a stream.
LEMMA FailedEnds ==
    ASSUME Sessions, Live(Me), NEW type, NEW p, NEW files, NEW s, SameFiles(p, files),
           current = None => files = disk[I],
           Commit(Me, files, dir[Me], Put(streams, I, s)), Answer(Me, type, p, FALSE, "FAILED")
    PROVE  FailedFor(p)
<1> DEFINE slots == Put(streams, I, s)
<1>1. Done(files, dir[Me], slots, "FAILED")
  <2> HIDE DEF slots
  <2>1. Commit(Me, files, dir[Me], slots)
    BY DEF slots
  <2>2. QED BY <2>1, CommitDone
<1>2. QED BY <1>1 DEF FailedFor

LEMMA NextChunkEnds ==
    ASSUME Sessions, Live(Me), NEW type, NEW p \in Path, NEW files, NEW s, NEW view,
           SameFiles(p, files), SameEntries(p, view), s \in {p, Temp[p], FailedStream},
           p \in DOMAIN view,
           IF p \in DOMAIN known THEN view[p].digest = known[p] ELSE ~view[p].synced,
           Commit(Me, files, view, Put(streams, I, s)), Answer(Me, type, p, FALSE, "OK")
    PROVE  Continued(p)
<1> DEFINE slots == Put(streams, I, s)
<1>1. Done(files, view, slots, "OK")
  <2> HIDE DEF slots
  <2>1. Commit(Me, files, view, slots)
    BY DEF slots
  <2>2. QED BY <2>1, CommitDone
<1>2. QED BY <1>1 DEF Continued, Only

\* The view after a chunk for p: with the last one the digest d; with the first the
\* placeholder, and after that what is there.
LEMMA ViewEntries ==
    ASSUME Sessions, Live(Me), NEW p \in Path, Ready(p), NEW d, NEW placeholder, NEW last \in BOOLEAN,
           NEW view, view = ViewAfter(Me, p, last, d, placeholder)
    PROVE  /\ SameEntries(p, view)
           /\ last => p \in DOMAIN view /\ view[p].digest = d
           /\ ~last => \/ p \in DOMAIN view /\ view[p] = [synced |-> FALSE, digest |-> placeholder]
                       \/ current = p /\ view = dir[Me]
<1>1. conn[Me].id = I
  BY DEF Sessions, Live
<1>2. \/ last /\ view = Put(dir[Me], p, [synced |-> TRUE, digest |-> d])
      \/ ~last /\ view = Put(dir[Me], p, [synced |-> FALSE, digest |-> placeholder])
      \/ ~last /\ I \in DOMAIN streams /\ view = dir[Me]
  BY <1>1 DEF ViewAfter, Progress
<1>3. SameEntries(p, dir[Me])
  BY DEF SameEntries
<1>4. SameEntries(p, view)
  BY <1>2, <1>3, PutSame
<1>5. \A e : p \in DOMAIN Put(dir[Me], p, e) /\ Put(dir[Me], p, e)[p] = e
  BY DEF Put
<1>6. last => p \in DOMAIN view /\ view[p].digest = d
  <2>1. SUFFICES ASSUME last PROVE p \in DOMAIN view /\ view[p].digest = d
    OBVIOUS
  <2>2. view = Put(dir[Me], p, [synced |-> TRUE, digest |-> d])
    BY <1>2, <2>1
  <2>3. p \in DOMAIN view /\ view[p] = [synced |-> TRUE, digest |-> d]
    BY <1>5, <2>2
  <2>4. QED BY <2>3
<1>7. ~last => \/ p \in DOMAIN view /\ view[p] = [synced |-> FALSE, digest |-> placeholder]
               \/ current = p /\ view = dir[Me]
  BY <1>2, <1>5 DEF Ready
<1>8. QED BY <1>4, <1>6, <1>7

LEMMA CreateEnds ==
    ASSUME TempsApart, Sessions, Live(Me), NEW p \in Path, Ready(p), p \notin DOMAIN known,
           ~IsSynced(Me, p), current = p => p \in DOMAIN dir[Me],
           NEW d, NEW data, NEW last \in BOOLEAN, HandleCreate(Me, p, d, data, last)
    PROVE  Ended(p, d, last)
<1> DEFINE view == ViewAfter(Me, p, last, d, TEMP)
<1>1. conn[Me].id = I
  BY DEF Sessions, Live
<1>2. CASE Fail(Me, "CREATE", p)
  <2>1. Done(disk[I], dir[Me], streams, "FAILED")
    BY <1>2 DEF Fail, Answer, Done, Sessions
  <2>2. SameFiles(p, disk[I])
    BY DEF SameFiles
  <2>3. QED BY <2>1, <2>2 DEF Ended, FailedFor
<1>3. ASSUME NEW opened \in BOOLEAN, NEW written \in BOOLEAN,
             NEW s, s = GetStream(I, p, opened), NEW files, files = OpenFile(I, p, opened),
             NEW kept, kept \in {files, WriteTo(files, s, data)},
             IF s = FailedStream
             THEN /\ Commit(Me, files, dir[Me], Put(streams, I, s))
                  /\ Answer(Me, "CREATE", p, FALSE, "FAILED")
             ELSE IF last THEN Verify(Me, "CREATE", p, d, kept, view)
             ELSE /\ Commit(Me, kept, view, Put(streams, I, StreamAfterWrite(s, written)))
                  /\ Answer(Me, "CREATE", p, FALSE, "OK")
      PROVE  Ended(p, d, last)
  <2>1. /\ s \in {p, Temp[p], FailedStream}
        /\ SameFiles(p, files) /\ SameFiles(p, kept)
        /\ current = None /\ s = FailedStream => files = disk[I]
    BY <1>3, ChunkOnly
  <2>2. /\ SameEntries(p, view)
        /\ last => p \in DOMAIN view /\ view[p].digest = d
        /\ ~last => \/ p \in DOMAIN view /\ view[p] = [synced |-> FALSE, digest |-> TEMP]
                    \/ current = p /\ view = dir[Me]
    BY ViewEntries
  <2> HIDE DEF view
  <2>3. CASE s = FailedStream
    BY <1>3, <2>1, <2>3, FailedEnds DEF Ended
  <2>4. CASE s # FailedStream /\ last
    <3>1. Only(p, kept, view)
      BY <2>1, <2>2 DEF Only
    <3>2. Verify(Me, "CREATE", p, d, kept, view)
      BY <1>3, <2>4
    <3>3. Lost \/ StoredAs(p, d) \/ RejectedFor(p)
      BY <2>2, <2>4, <3>1, <3>2, VerifyEnds
    <3>4. QED BY <2>4, <3>3 DEF Ended
  <2>5. CASE s # FailedStream /\ ~last
    <3> DEFINE t == StreamAfterWrite(s, written)
    <3>1. t \in {p, Temp[p], FailedStream}
      BY <2>1 DEF StreamAfterWrite
    <3>2. p \in DOMAIN view /\ ~view[p].synced
      BY <2>2, <2>5 DEF IsSynced
    <3>3. Commit(Me, kept, view, Put(streams, I, t)) /\ Answer(Me, "CREATE", p, FALSE, "OK")
      BY <1>3, <2>5
    <3> HIDE DEF t
    <3>4. Continued(p)
      BY <2>1, <2>2, <3>1, <3>2, <3>3, NextChunkEnds
    <3>5. QED BY <2>5, <3>4 DEF Ended
  <2>6. QED BY <2>3, <2>4, <2>5
<1>4. \A op : Outcome(op) \subseteq BOOLEAN
  BY DEF Outcome
<1>5. QED BY <1>1, <1>2, <1>3, <1>4 DEF HandleCreate

LEMMA UpdateEnds ==
    ASSUME TempsApart, Sessions, Live(Me), NEW p \in Path, Ready(p), p \in DOMAIN known,
           p \in DOMAIN dir[Me], dir[Me][p].digest = known[p],
           NEW d, d # known[p], NEW data, NEW last \in BOOLEAN, HandleUpdate(Me, p, d, data, last)
    PROVE  Ended(p, d, last)
<1> DEFINE view == ViewAfter(Me, p, last, d, dir[Me][p].digest)
<1>1. conn[Me].id = I /\ ~HasDigest(Me, p, d)
  BY DEF Sessions, Live, HasDigest
<1>2. ASSUME NEW opened \in BOOLEAN, NEW written \in BOOLEAN,
             NEW s, s = GetStream(I, Temp[p], opened),
             NEW files, files = OpenFile(I, Temp[p], opened),
             NEW kept, kept \in {files, WriteTo(files, s, data)},
             IF s = FailedStream
             THEN /\ Commit(Me, files, dir[Me], Put(streams, I, s))
                  /\ Answer(Me, "UPDATE", p, FALSE, "FAILED")
             ELSE IF last THEN Swap(Me, p, d, kept, view)
             ELSE /\ Commit(Me, kept, view, Put(streams, I, s))
                  /\ Answer(Me, "UPDATE", p, FALSE, "OK")
      PROVE  Ended(p, d, last)
  <2>1. /\ s \in {p, Temp[p], FailedStream}
        /\ SameFiles(p, files) /\ SameFiles(p, kept)
        /\ current = None /\ s = FailedStream => files = disk[I]
    BY <1>2, ChunkOnly
  <2>2. /\ SameEntries(p, view)
        /\ last => p \in DOMAIN view /\ view[p].digest = d
        /\ ~last => \/ p \in DOMAIN view /\ view[p] = [synced |-> FALSE, digest |-> dir[Me][p].digest]
                    \/ current = p /\ view = dir[Me]
    BY ViewEntries
  <2> HIDE DEF view
  <2>3. CASE s = FailedStream
    BY <1>2, <2>1, <2>3, FailedEnds DEF Ended
  <2>4. CASE s # FailedStream /\ last
    <3>1. Only(p, kept, view)
      BY <2>1, <2>2 DEF Only
    <3>2. Swap(Me, p, d, kept, view)
      BY <1>2, <2>4
    <3>3. Lost \/ StoredAs(p, d) \/ RejectedFor(p)
      BY <2>2, <2>4, <3>1, <3>2, SwapEnds
    <3>4. QED BY <2>4, <3>3 DEF Ended
  <2>5. CASE s # FailedStream /\ ~last
    <3>1. p \in DOMAIN view /\ view[p].digest = known[p]
      BY <2>2, <2>5
    <3>2. Commit(Me, kept, view, Put(streams, I, s)) /\ Answer(Me, "UPDATE", p, FALSE, "OK")
      BY <1>2, <2>5
    <3>3. Continued(p)
      BY <2>1, <2>2, <3>1, <3>2, NextChunkEnds
    <3>4. QED BY <2>5, <3>3 DEF Ended
  <2>6. QED BY <2>3, <2>4, <2>5
<1>3. \A op : Outcome(op) \subseteq BOOLEAN
  BY DEF Outcome
<1>4. PICK opened \in BOOLEAN, written \in BOOLEAN :
        LET s == GetStream(I, Temp[p], opened)
            files == OpenFile(I, Temp[p], opened)
            kept == IF written THEN WriteTo(files, s, data) ELSE files
        IN IF s = FailedStream
           THEN /\ Commit(Me, files, dir[Me], Put(streams, I, s))
                /\ Answer(Me, "UPDATE", p, FALSE, "FAILED")
           ELSE IF last THEN Swap(Me, p, d, kept, view)
           ELSE /\ Commit(Me, kept, view, Put(streams, I, s))
                /\ Answer(Me, "UPDATE", p, FALSE, "OK")
  BY <1>1, <1>3 DEF HandleUpdate
<1>5. QED BY <1>2, <1>4

-----------------------------------------------------------------------------
(***************************************************************************)
(* The steps of the client.                                                *)
(***************************************************************************)
LEMMA NotLiveInv ==
    ASSUME Sessions', reply'.res # "NO_EFFECT", ~Live(Me)', current' = None, I \notin DOMAIN streams'
    PROVE  KInv'
BY DEF KInv

LEMMA ClosedType == Closed \in Session /\ ~Closed.open /\ Closed.id = None
                    /\ ~Closed.synced
BY DEF Closed, Session

LEMMA HaltClient ==
    ASSUME Halt, DOMAIN disk' = User, reply'.res # "NO_EFFECT", Forgets
    PROVE  KInv'
<1>1. conn' = [c \in Conn |-> Closed] /\ conn'[Me] = Closed
  BY OfMe DEF Halt
<1>2. DOMAIN dir' = Conn /\ DOMAIN streams' = {}
  BY EmptyAt DEF Halt
<1>3. Sessions'
  BY <1>1, <1>2, ClosedType DEF Sessions
<1>4. ~Live(Me)'
  BY <1>1, ClosedType DEF Live
<1>5. QED BY <1>2, <1>3, <1>4, NotLiveInv DEF Forgets

LEMMA ShutdownClient ==
    ASSUME KInv, Shutdown(Me), Forgets
    PROVE  KInv'
<1>1. conn' = [conn EXCEPT ![Me] = Closed] /\ dir' = [dir EXCEPT ![Me] = Empty] /\ disk' = disk
      /\ streams' = EraseStream(conn[Me].id) /\ reply' = NoReply
  BY DEF Shutdown
<1>2. Sessions'
  BY <1>1, OfMe, ClosedType DEF KInv, Sessions
<1>3. ~Live(Me)'
  BY <1>1, OfMe, ClosedType DEF KInv, Sessions, Live
<1>4. I \notin DOMAIN streams'
  <2>1. DOMAIN streams' = DOMAIN streams \ {conn[Me].id}
    BY <1>1, DropAt DEF EraseStream
  <2>2. Live(Me) => conn[Me].id = I
    BY DEF KInv, Sessions, Live
  <2>3. QED BY <2>1, <2>2 DEF KInv
<1>5. reply'.res # "NO_EFFECT"
  BY <1>1 DEF NoReply
<1>6. QED BY <1>2, <1>3, <1>4, <1>5, NotLiveInv DEF Forgets

LEMMA ConnectClient ==
    ASSUME KInv, FlagsFalse, Connect
    PROVE  KInv'
<1>1. ~conn[Me].open /\ ~Live(Me)
  BY DEF Connect, Accept, Live
<1>2. PICK a \in FreshFlag, s \in FreshFlag :
        conn' = [conn EXCEPT ![Me] = [open |-> TRUE, auth |-> a, synced |-> s, id |-> None]]
  BY DEF Connect, Accept
<1>3. a = FALSE /\ s = FALSE
  BY DEF FlagsFalse
<1>4. conn'[Me] = [open |-> TRUE, auth |-> FALSE, synced |-> FALSE, id |-> None]
  BY <1>2, <1>3, OfMe DEF KInv, Sessions
<1>5. conn' \in [Conn -> Session]
  BY <1>2, <1>3 DEF KInv, Sessions, Session
<1>6. dir' = dir /\ disk' = disk /\ streams' = streams /\ reply' = NoReply /\ current' = current
  BY DEF Connect, Accept, Nothing, client
<1>7. Sessions'
  BY <1>4, <1>5, <1>6 DEF KInv, Sessions
<1>8. ~Live(Me)' /\ reply'.res # "NO_EFFECT"
  BY <1>4, <1>6 DEF Live, NoReply
<1>9. QED BY <1>1, <1>6, <1>7, <1>8, NotLiveInv DEF KInv

LEMMA LoginClient ==
    ASSUME KInv, Login
    PROVE  KInv'
<1>1. HandleAuth(Me) /\ reply'.res = "OK" /\ current' = current
  BY DEF Login, Nothing, client
<1>2. ~conn[Me].auth /\ ~conn[Me].synced /\ ~Live(Me)
  BY <1>1 DEF HandleAuth, Serving, KInv, Sessions, Live
<1>3. ~NoEffect(Me)
  BY <1>1 DEF NoEffect, NoReply
<1>4. /\ conn' = [conn EXCEPT ![Me].auth = TRUE, ![Me].id = Owner[Me]]
      /\ dir' = [dir EXCEPT ![Me] = Empty] /\ streams' = streams /\ disk' = disk
  BY <1>1, <1>3 DEF HandleAuth
<1>5. conn[Me] \in Session /\ conn \in [Conn -> Session]
  BY OfMe DEF KInv, Sessions
<1>6. conn'[Me] = [conn[Me] EXCEPT !.auth = TRUE, !.id = I]
  BY <1>4, <1>5, OfMe DEF I
<1>7. conn'[Me] \in Session /\ conn'[Me].id = I /\ conn'[Me].auth /\ ~conn'[Me].synced
  BY <1>2, <1>5, <1>6, OfMe DEF Session
<1>8. \A c \in Conn \ {Me} : conn'[c] = conn[c]
  BY <1>4, <1>5
<1>9. conn' \in [Conn -> Session]
  BY <1>4, <1>5, <1>7, <1>8
<1>10. Sessions'
  BY <1>4, <1>7, <1>9 DEF KInv, Sessions
<1>11. ~Live(Me)'
  BY <1>7 DEF Live
<1>12. QED BY <1>1, <1>2, <1>4, <1>10, <1>11, NotLiveInv DEF KInv

LEMMA SyncClient ==
    ASSUME KInv, Sync
    PROVE  KInv'
<1>1. HandleSync(Me) /\ running /\ ~conn[Me].synced /\ conn[Me].auth
      /\ (IF running' THEN /\ known' = Digests(dir'[Me])
                           /\ UNCHANGED <<local, current, sent>>
          ELSE Forgets)
  BY DEF Sync, HandleSync, Serving
<1>2. ~Live(Me) /\ current = None /\ I \notin DOMAIN streams
  BY <1>1 DEF Live, KInv
<1>3. CASE Abort(Me, "SYNC", None, disk)
  <2>1. Halt /\ disk' = disk /\ reply'.res = "LOST" /\ ~running'
    BY <1>3 DEF Abort, Halt, Answer
  <2>2. Forgets
    BY <1>1, <2>1
  <2>3. QED BY <2>1, <2>2, HaltClient DEF KInv, Sessions
<1>4. ASSUME NEW listed \in BOOLEAN, conn[Me].id # None,
             conn' = [conn EXCEPT ![Me].synced = listed],
             dir' = [dir EXCEPT ![Me] = IF listed THEN Listing(disk[conn[Me].id]) ELSE Empty],
             Answer(Me, "SYNC", None, FALSE, IF listed THEN "OK" ELSE "FAILED"),
             UNCHANGED <<running, streams, disk>>
      PROVE  KInv'
  <2>1. conn[Me] \in Session /\ conn \in [Conn -> Session] /\ conn[Me].id = I
    BY <1>4, OfMe DEF KInv, Sessions
  <2>2. conn'[Me] = [conn[Me] EXCEPT !.synced = listed]
    BY <1>4, <2>1, OfMe
  <2>3. /\ conn'[Me] \in Session /\ conn'[Me].id = I /\ conn'[Me].auth
        /\ conn'[Me].synced = listed
    BY <1>1, <2>1, <2>2 DEF Session
  <2>4. conn' \in [Conn -> Session]
    BY <1>4, <2>1, <2>3
  <2>5. /\ dir'[Me] = IF listed THEN Listing(disk[I]) ELSE Empty
        /\ DOMAIN dir' = Conn
    BY <1>4, <2>1, OfMe DEF KInv, Sessions
  <2>6. Sessions'
    BY <1>4, <2>3, <2>4, <2>5 DEF KInv, Sessions
  <2>7. reply'.res # "NO_EFFECT"
    BY <1>4 DEF Answer
  <2>8. running' /\ current' = None /\ known' = Digests(dir'[Me]) /\ I \notin DOMAIN streams'
    BY <1>1, <1>2, <1>4
  <2>9. CASE ~listed
    BY <2>3, <2>6, <2>7, <2>8, <2>9, NotLiveInv DEF Live
  <2>10. CASE listed
    <3>1. /\ DOMAIN dir'[Me] = DOMAIN disk[I]
          /\ \A n \in DOMAIN disk[I] : dir'[Me][n] = [synced |-> TRUE, digest |-> disk[I][n]]
      BY <2>5, <2>10 DEF Listing
    <3>2. /\ DOMAIN known' = DOMAIN disk[I] /\ \A n \in DOMAIN disk[I] : known'[n] = dir'[Me][n].digest
      BY <2>8, <3>1 DEF Digests
    <3>3. ASSUME NEW n \in DOMAIN disk[I] PROVE known'[n] = disk[I][n]
      <4>1. dir'[Me][n] = [synced |-> TRUE, digest |-> disk[I][n]]
        BY <3>1
      <4>2. dir'[Me][n].digest = disk[I][n]
        BY <4>1
      <4>3. QED BY <3>2, <4>2
    <3>4. ViewKnown' /\ DiskKnown'
      BY <1>4, <3>1, <3>2, <3>3 DEF ViewKnown, DiskKnown
    <3>5. Live(Me)'
      <4>1. conn'[Me].open
        BY <1>1, <2>1, <2>2 DEF HandleSync, Serving, Session
      <4>2. QED BY <2>3, <2>10, <4>1, OfMe DEF Live
    <3>6. QED BY <2>6, <2>7, <2>8, <3>4, <3>5 DEF KInv, OnStream
  <2>11. QED BY <2>9, <2>10
<1>5. \A op : Outcome(op) \subseteq BOOLEAN
  BY DEF Outcome
<1>6. QED BY <1>1, <1>3, <1>4, <1>5 DEF HandleSync

\* A session goes on after a step of its handler.
LEMMA DoneSession ==
    ASSUME Sessions, Live(Me), NEW files, NEW view, NEW slots, NEW res, Done(files, view, slots, res)
    PROVE  Sessions' /\ Live(Me)'
BY DEF Done, Sessions, Live

\* A request failed: the client closes the connection next.
LEMMA FailedClient ==
    ASSUME KInv, Reconnects, Live(Me), NEW p \in Path, current \in {None, p}, FailedFor(p), Retry
    PROVE  KInv'
<1>1. PICK files, slots : /\ Done(files, dir[Me], slots, "FAILED") /\ SameFiles(p, files)
                          /\ current = None => files = disk[I]
  BY DEF FailedFor
<1>2. Sessions' /\ Live(Me)'
  BY <1>1, DoneSession DEF KInv
<1>3. disk'[I] = files /\ dir'[Me] = dir[Me] /\ reply'.res = "FAILED"
  BY <1>1 DEF Done
<1>4. hangup' /\ known' = known /\ current' = current /\ local' = local
  BY DEF Retry
<1>5. ViewKnown' /\ (current' # None => Sending')
  BY <1>3, <1>4 DEF KInv, ViewKnown, Sending, Missing
<1>6. DiskKnown'
  BY <1>1, <1>3, <1>4 DEF KInv, DiskKnown, SameFiles
<1>7. QED BY <1>2, <1>3, <1>4, <1>5, <1>6 DEF KInv

\* The upload of p has ended: folder and view have d for it, or nothing.
LEMMA StoredClient ==
    ASSUME KInv, Live(Me), NEW p \in Path, current \in {None, p}, NEW d, StoredAs(p, d),
           current' = None, known' = Put(known, p, d)
    PROVE  KInv'
<1>1. PICK files, view : /\ Done(files, view, EraseStream(I), "OK") /\ Only(p, files, view)
                         /\ p \in DOMAIN files /\ files[p] = d
                         /\ p \in DOMAIN view /\ view[p].digest = d
  BY DEF StoredAs
<1>2. Sessions' /\ Live(Me)'
  BY <1>1, DoneSession DEF KInv
<1>3. disk'[I] = files /\ dir'[Me] = view /\ streams' = EraseStream(I) /\ reply'.res = "OK"
  BY <1>1 DEF Done
<1>4. /\ DOMAIN known' = DOMAIN known \cup {p} /\ known'[p] = d
      /\ \A n \in DOMAIN known \ {p} : known'[n] = known[n]
  BY DEF Put
<1>5. ViewKnown'
  <2>1. \A n \in Name \ {p} : /\ n \in DOMAIN known <=> n \in DOMAIN dir[Me]
                              /\ n \in DOMAIN known => dir[Me][n].digest = known[n]
    BY TokenAssumption DEF KInv, ViewKnown
  <2>2. SameEntries(p, view)
    BY <1>1 DEF Only
  <2>3. QED BY <1>1, <1>3, <1>4, <2>1, <2>2 DEF SameEntries, ViewKnown
<1>6. DiskKnown'
  <2>1. \A q \in Path \ {p} : /\ q \in DOMAIN known <=> q \in DOMAIN disk[I]
                              /\ q \in DOMAIN known => disk[I][q] = known[q]
    BY TokenAssumption DEF KInv, DiskKnown
  <2>2. SameFiles(p, files)
    BY <1>1 DEF Only
  <2>3. QED BY <1>1, <1>3, <1>4, <2>1, <2>2 DEF SameFiles, DiskKnown
<1>7. I \notin DOMAIN streams'
  BY <1>3, DropAt DEF EraseStream
<1>8. QED BY <1>2, <1>3, <1>5, <1>6, <1>7 DEF KInv, OnStream

LEMMA RejectedClient ==
    ASSUME KInv, Live(Me), NEW p \in Path, current \in {None, p}, RejectedFor(p),
           current' = None, known' = Drop(known, p)
    PROVE  KInv'
<1>1. PICK files, view : /\ Done(files, view, EraseStream(I), "NO_MATCH") /\ Only(p, files, view)
                         /\ p \notin DOMAIN files /\ p \notin DOMAIN view
  BY DEF RejectedFor
<1>2. Sessions' /\ Live(Me)'
  BY <1>1, DoneSession DEF KInv
<1>3. disk'[I] = files /\ dir'[Me] = view /\ streams' = EraseStream(I) /\ reply'.res = "NO_MATCH"
  BY <1>1 DEF Done
<1>4. /\ DOMAIN known' = DOMAIN known \ {p}
      /\ \A n \in DOMAIN known \ {p} : known'[n] = known[n]
  BY DropAt
<1>5. ViewKnown'
  <2>1. \A n \in Name \ {p} : /\ n \in DOMAIN known <=> n \in DOMAIN dir[Me]
                              /\ n \in DOMAIN known => dir[Me][n].digest = known[n]
    BY TokenAssumption DEF KInv, ViewKnown
  <2>2. SameEntries(p, view)
    BY <1>1 DEF Only
  <2>3. QED BY <1>1, <1>3, <1>4, <2>1, <2>2 DEF SameEntries, ViewKnown
<1>6. DiskKnown'
  <2>1. \A q \in Path \ {p} : /\ q \in DOMAIN known <=> q \in DOMAIN disk[I]
                              /\ q \in DOMAIN known => disk[I][q] = known[q]
    BY TokenAssumption DEF KInv, DiskKnown
  <2>2. SameFiles(p, files)
    BY <1>1 DEF Only
  <2>3. QED BY <1>1, <1>3, <1>4, <2>1, <2>2 DEF SameFiles, DiskKnown
<1>7. I \notin DOMAIN streams'
  BY <1>3, DropAt DEF EraseStream
<1>8. QED BY <1>2, <1>3, <1>5, <1>6, <1>7 DEF KInv, OnStream

\* A chunk of a longer upload has been taken.
LEMMA ContinuedClient ==
    ASSUME KInv, Live(Me), NEW p \in Path, Missing(p), current \in {None, p}, Continued(p),
           current' = p, known' = known, local' = local
    PROVE  KInv'
<1>1. PICK files, view, s : /\ Done(files, view, Put(streams, I, s), "OK") /\ Only(p, files, view)
                            /\ s \in {p, Temp[p], FailedStream}
                            /\ p \in DOMAIN view /\ IF p \in DOMAIN known THEN view[p].digest = known[p]
                                                    ELSE ~view[p].synced
  BY DEF Continued
<1>2. Sessions' /\ Live(Me)'
  BY <1>1, DoneSession DEF KInv
<1>3. disk'[I] = files /\ dir'[Me] = view /\ streams' = Put(streams, I, s) /\ reply'.res = "OK"
  BY <1>1 DEF Done
<1>4. ViewKnown'
  <2>1. \A n \in Name \ {p} : /\ n \in DOMAIN known <=> n \in DOMAIN dir[Me]
                              /\ n \in DOMAIN known => dir[Me][n].digest = known[n]
    BY TokenAssumption DEF KInv, ViewKnown
  <2>2. SameEntries(p, view)
    BY <1>1 DEF Only
  <2>3. QED BY <1>3, <2>1, <2>2 DEF SameEntries, ViewKnown
<1>5. DiskKnown'
  <2>1. \A q \in Path \ {p} : /\ q \in DOMAIN known <=> q \in DOMAIN disk[I]
                              /\ q \in DOMAIN known => disk[I][q] = known[q]
    BY TokenAssumption DEF KInv, DiskKnown
  <2>2. SameFiles(p, files)
    BY <1>1 DEF Only
  <2>3. QED BY <1>3, <2>1, <2>2 DEF SameFiles, DiskKnown
<1>6. Sending'
  BY <1>1, <1>3 DEF Sending, Missing
<1>7. OnStream'
  <2>1. I \in DOMAIN streams' /\ streams'[I] = s
    BY <1>3 DEF Put
  <2>2. p # None
    BY TokenAssumption
  <2>3. QED BY <1>1, <2>1, <2>2 DEF OnStream
<1>8. QED BY <1>2, <1>3, <1>4, <1>5, <1>6, <1>7 DEF KInv

LEMMA UploadClient ==
    ASSUME TempsApart, Reconnects, KInv, NEW p \in Path, Upload(p)
    PROVE  KInv'
<1> DEFINE d == local[p]
           data == IF d = <<>> THEN <<>> ELSE <<d[sent + 1]>>
           last == sent + 1 >= Len(d)
<1>1. /\ Live(Me) /\ ~hangup /\ Missing(p) /\ current \in {None, p} /\ Sessions
      /\ ViewKnown /\ (current # None => Sending) /\ OnStream
  BY DEF Upload, MayAsk, KInv
<1>2. p # None /\ p \in Name
  BY TokenAssumption, NameAssumption
<1>3. Ready(p)
  BY <1>1, <1>2 DEF Ready, OnStream
<1>4. last \in BOOLEAN
  OBVIOUS
<1>5. Ended(p, d, last)
  <2>1. CASE p \in DOMAIN known
    <3>1. HandleUpdate(Me, p, d, data, last)
      BY <2>1 DEF Upload
    <3>2. p \in DOMAIN dir[Me] /\ dir[Me][p].digest = known[p]
      BY <1>1, <1>2, <2>1 DEF ViewKnown, Sending
    <3>3. d # known[p]
      BY <1>1, <2>1 DEF Missing
    <3> HIDE DEF d, data, last
    <3>4. QED BY <1>1, <1>3, <1>4, <2>1, <3>1, <3>2, <3>3, UpdateEnds
  <2>2. CASE p \notin DOMAIN known
    <3>1. HandleCreate(Me, p, d, data, last)
      BY <2>2 DEF Upload
    <3>2. ~IsSynced(Me, p) /\ (current = p => p \in DOMAIN dir[Me])
      BY <1>1, <1>2, <2>2 DEF ViewKnown, Sending, IsSynced
    <3> HIDE DEF d, data, last
    <3>3. QED BY <1>1, <1>3, <1>4, <2>2, <3>1, <3>2, CreateEnds
  <2>3. QED BY <2>1, <2>2
<1>6. /\ reply'.res = "LOST" => Forgets
      /\ reply'.res = "FAILED" => Retry
      /\ reply'.res \in {"OK", "NO_MATCH"} =>
           /\ current' = IF last THEN None ELSE p
           /\ known' = IF ~last THEN known
                       ELSE IF reply'.res = "OK" THEN Put(known, p, d) ELSE Drop(known, p)
           /\ local' = local
  BY DEF Upload
<1> HIDE DEF d, data, last
<1>7. CASE Lost
  BY <1>6, <1>7, HaltClient DEF Lost
<1>8. CASE FailedFor(p)
  <2>1. reply'.res = "FAILED"
    BY <1>8 DEF FailedFor, Done
  <2>2. QED BY <1>1, <1>6, <1>8, <2>1, FailedClient
<1>9. CASE last /\ StoredAs(p, d)
  <2>1. reply'.res = "OK"
    BY <1>9 DEF StoredAs, Done
  <2>2. QED BY <1>1, <1>6, <1>9, <2>1, StoredClient
<1>10. CASE last /\ RejectedFor(p)
  <2>1. reply'.res = "NO_MATCH"
    BY <1>10 DEF RejectedFor, Done
  <2>2. QED BY <1>1, <1>6, <1>10, <2>1, RejectedClient
<1>11. CASE ~last /\ Continued(p)
  <2>1. reply'.res = "OK"
    BY <1>11 DEF Continued, Done
  <2>2. QED BY <1>1, <1>6, <1>11, <2>1, ContinuedClient
<1>12. QED BY <1>5, <1>7, <1>8, <1>9, <1>10, <1>11 DEF Ended

LEMMA EraseClient ==
    ASSUME Reconnects, KInv, NEW n \in Name, Erase(n)
    PROVE  KInv'
<1>1. /\ Live(Me) /\ ~hangup /\ current = None /\ n \in DOMAIN known /\ Sessions
      /\ ViewKnown /\ DiskKnown /\ I \notin DOMAIN streams
      /\ HandleErase(Me, n, known[n])
      /\ IF Faulty THEN Retry
         ELSE /\ known' = Drop(known, n)
              /\ hangup' = (reply'.res = "NO_EFFECT")
              /\ UNCHANGED <<local, current, sent>>
  BY DEF Erase, MayAsk, KInv, OnStream
<1>2. conn[Me].id = I /\ None \notin Path
  BY <1>1, TokenAssumption DEF Sessions, Live
<1>3. HasDigest(Me, n, known[n])
  BY <1>1, <1>2 DEF ViewKnown, HasDigest
<1>4. CASE Fail(Me, "ERASE", n)
  <2>1. /\ reply'.res = "FAILED" /\ UNCHANGED <<conn, dir, streams, disk>>
    BY <1>4 DEF Fail, Answer
  <2>2. hangup' /\ known' = known /\ current' = current /\ local' = local
    BY <1>1, <2>1 DEF Faulty, Retry
  <2>3. Sessions' /\ ViewKnown' /\ DiskKnown' /\ Live(Me)'
    BY <1>1, <2>1, <2>2 DEF Sessions, ViewKnown, DiskKnown, Live
  <2>4. QED BY <1>1, <2>1, <2>2, <2>3 DEF KInv
<1>5. ASSUME NEW slots, DOMAIN slots = DOMAIN streams,
             Commit(Me, Unlink(disk[I], n), Drop(dir[Me], n), slots),
             Answer(Me, "ERASE", n, FALSE, "OK")
      PROVE  KInv'
  <2>1. Done(Drop(disk[I], n), Drop(dir[Me], n), slots, "OK")
    BY <1>1, <1>5, CommitDone DEF Unlink
  <2>2. Sessions' /\ Live(Me)'
    BY <1>1, <2>1, DoneSession
  <2>3. /\ disk'[I] = Drop(disk[I], n) /\ dir'[Me] = Drop(dir[Me], n) /\ streams' = slots
        /\ reply'.res = "OK"
    BY <2>1 DEF Done
  <2>4. known' = Drop(known, n) /\ current' = None
    BY <1>1, <2>3 DEF Faulty
  <2>5. /\ DOMAIN known' = DOMAIN known \ {n}
        /\ \A k \in DOMAIN known \ {n} : known'[k] = known[k]
    BY <2>4, DropAt
  <2>6. /\ DOMAIN disk'[I] = DOMAIN disk[I] \ {n}
        /\ \A k \in DOMAIN disk[I] \ {n} : disk'[I][k] = disk[I][k]
    BY <2>3 DEF Drop, Restrict
  <2>7. /\ DOMAIN dir'[Me] = DOMAIN dir[Me] \ {n}
        /\ \A k \in DOMAIN dir[Me] \ {n} : dir'[Me][k] = dir[Me][k]
    BY <2>3 DEF Drop, Restrict
  <2>8. ViewKnown'
    BY <1>1, <1>2, <2>4, <2>5, <2>7 DEF ViewKnown
  <2>9. DiskKnown'
    BY <1>1, <1>2, <2>4, <2>5, <2>6 DEF DiskKnown
  <2>10. OnStream'
    BY <1>1, <1>5, <2>3, <2>4 DEF OnStream
  <2>11. QED BY <2>2, <2>3, <2>4, <2>8, <2>9, <2>10 DEF KInv
<1> DEFINE erased == [v \in DOMAIN streams |->
                     IF v = I /\ streams[v] = n THEN Unlinked ELSE streams[v]]
<1>6. \/ Fail(Me, "ERASE", n)
      \/ /\ Commit(Me, Unlink(disk[I], n), Drop(dir[Me], n), erased)
         /\ Answer(Me, "ERASE", n, FALSE, "OK")
  BY <1>1, <1>2, <1>3 DEF HandleErase
<1>7. DOMAIN erased = DOMAIN streams
  OBVIOUS
<1> HIDE DEF erased
<1>8. QED BY <1>4, <1>5, <1>6, <1>7

\* The client's own files change, or nothing does.
LEMMA EditClient ==
    ASSUME KInv, current = None, UNCHANGED <<vars, known, current, hangup>>
    PROVE  KInv'
<1>1. Sessions' /\ (Live(Me)' <=> Live(Me)) /\ reply' = reply /\ streams' = streams
  BY DEF KInv, Sessions, Live, vars
<1>2. ViewKnown => ViewKnown'
  BY DEF ViewKnown, vars
<1>3. DiskKnown => DiskKnown'
  BY DEF DiskKnown, vars
<1>4. OnStream => OnStream'
  BY <1>1 DEF OnStream
<1>5. QED BY <1>1, <1>2, <1>3, <1>4 DEF KInv

LEMMA StutterClient ==
    ASSUME KInv, UNCHANGED all
    PROVE  KInv'
<1>1. UNCHANGED <<vars, known, current, hangup, local>>
  BY DEF all, client
<1>2. Sessions' /\ (Live(Me)' <=> Live(Me)) /\ reply' = reply /\ streams' = streams
  BY <1>1 DEF KInv, Sessions, Live, vars
<1>3. /\ ViewKnown => ViewKnown'
      /\ DiskKnown => DiskKnown'
      /\ Sending => Sending'
      /\ OnStream => OnStream'
  BY <1>1 DEF ViewKnown, DiskKnown, Sending, Missing, OnStream, vars
<1>4. QED BY <1>1, <1>2, <1>3 DEF KInv

LEMMA InitClient == ClientInit => KInv
<1> SUFFICES ASSUME ClientInit PROVE KInv
  OBVIOUS
<1>1. /\ conn = [c \in Conn |-> Closed] /\ DOMAIN dir = Conn /\ DOMAIN disk = User
      /\ DOMAIN streams = {} /\ reply.res = "NONE" /\ current = None
  BY EmptyAt DEF ClientInit, Init, NoReply
<1>2. conn[Me] = Closed
  BY <1>1, OfMe
<1>3. Sessions
  BY <1>1, <1>2, ClosedType DEF Sessions
<1>4. ~Live(Me)
  BY <1>2, ClosedType DEF Live
<1>5. QED BY <1>1, <1>3, <1>4 DEF KInv

LEMMA NextClient ==
    ASSUME TempsApart, FlagsFalse, Reconnects
    PROVE  KInv /\ [ClientNext]_all => KInv'
<1> SUFFICES ASSUME KInv, [ClientNext]_all PROVE KInv'
  OBVIOUS
<1>1. CASE HangUp
  BY <1>1, ShutdownClient DEF HangUp
<1>2. CASE Edit
  BY <1>2, EditClient DEF Edit
<1>3. CASE Break
  <2>1. CASE Stop
    <3>1. Halt /\ disk' = disk /\ reply' = NoReply
      BY <2>1 DEF Stop
    <3>2. QED BY <1>3, <3>1, HaltClient DEF Break, NoReply, KInv, Sessions
  <2>2. QED BY <1>3, <2>1, ShutdownClient DEF Break
<1>4. CASE StartAgain
  <2>1. /\ UNCHANGED <<conn, dir, streams, disk>> /\ reply' = NoReply
        /\ UNCHANGED <<known, current, hangup, local>>
    BY <1>4 DEF StartAgain, Restart, Nothing, client
  <2>2. Sessions' /\ (Live(Me)' <=> Live(Me)) /\ reply'.res # "NO_EFFECT"
    BY <2>1 DEF KInv, Sessions, Live, NoReply
  <2>3. /\ ViewKnown => ViewKnown'
        /\ DiskKnown => DiskKnown'
        /\ Sending => Sending'
        /\ OnStream => OnStream'
    BY <2>1 DEF ViewKnown, DiskKnown, Sending, Missing, OnStream
  <2>4. QED BY <2>1, <2>2, <2>3 DEF KInv
<1>5. CASE Work
  BY <1>1, <1>5, ConnectClient, LoginClient, SyncClient, UploadClient, EraseClient DEF Work
<1>6. CASE UNCHANGED all
  BY <1>6, StutterClient
<1>7. QED BY <1>2, <1>3, <1>4, <1>5, <1>6 DEF ClientNext

LEMMA KInvMeans == KInv => KnownIsStored /\ NeverRefused
BY DEF KInv, DiskKnown, KnownIsStored, NeverRefused

\* What a client that reconnects after a failure knows is what is stored, for any files
\* and chunks and whatever calls fail, when no path is the temporary of another.
THEOREM KnowsWhatIsStored ==
    ASSUME TempsApart, FlagsFalse, Reconnects
    PROVE  ClientSpec => []KnownIsStored
<1>1. KInv /\ [ClientNext]_all => KInv'
  BY NextClient
<1>2. QED BY <1>1, InitClient, KInvMeans, PTL DEF ClientSpec

\* Nor is such a client ever refused.
THEOREM GoesUnrefused ==
    ASSUME TempsApart, FlagsFalse, Reconnects
    PROVE  ClientSpec => []NeverRefused
<1>1. KInv /\ [ClientNext]_all => KInv'
  BY NextClient
<1>2. QED BY <1>1, InitClient, KInvMeans, PTL DEF ClientSpec
=============================================================================
