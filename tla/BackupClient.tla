---------------------------- MODULE BackupClient ----------------------------
(***************************************************************************)
(* The request handler with a client that keeps its files backed up: it    *)
(* logs in, syncs, sends each file whose digest the server does not have,  *)
(* chunk by chunk, erases what it no longer has, and starts again after a  *)
(* connection that broke.  The client is not part of the repository; here  *)
(* it does what the requests are for, and meets a bounded number of faults *)
(* and edits at any point.                                                 *)
(***************************************************************************)
EXTENDS RequestHandler

CONSTANTS
    Me,             \* the connection of the client
    File,           \* the contents its files can have
    MaxFaults,      \* bound: broken connections, stops and calls that fail
    MaxEdits,       \* bound: changes of a local file
    Reconnects      \* does the client hang up after a FAILED?

ASSUME ClientAssumption == Me \in Conn /\ Reconnects \in BOOLEAN
ASSUME FileAssumption   == File \subseteq Seq(Chunk)

VARIABLES
    local,      \* the files of the client
    known,      \* the digests it takes the server to have
    current,    \* the file it is sending, None if none
    sent,       \* the chunks of it that were answered OK
    hangup,     \* will it close the connection next?
    faults,     \* faults so far
    edits       \* edits so far

client == <<local, known, current, sent, hangup>>
all    == <<vars, client, faults, edits>>

I == Owner[Me]

ClientInit ==
    /\ Init
    /\ \E D \in SUBSET Path : local \in [D -> File]
    /\ known = Empty /\ current = None /\ sent = 0
    /\ hangup = FALSE
    /\ faults = 0 /\ edits = 0

-----------------------------------------------------------------------------
Nothing == UNCHANGED client

\* What the client knew is void when the connection is.
Forgets ==
    /\ known' = Empty /\ current' = None /\ sent' = 0
    /\ hangup' = FALSE
    /\ UNCHANGED local

\* A request that failed is a fault, unless it found a stream that had failed before.
Faulty == reply'.res \in {"FAILED", "LOST"}
StuckStream == I \in DOMAIN streams /\ streams[I] = FailedStream /\ reply'.type # "ERASE"
CountFault ==
    /\ faults' = IF Faulty /\ ~StuckStream THEN faults + 1 ELSE faults
    /\ faults' <= MaxFaults
    /\ UNCHANGED edits

Connect == Accept(Me) /\ Nothing /\ UNCHANGED <<faults, edits>>

Login ==
    /\ HandleAuth(Me) /\ reply'.res = "OK"
    /\ Nothing /\ UNCHANGED <<faults, edits>>

Digests(view) == [n \in DOMAIN view |-> view[n].digest]

Sync ==
    /\ HandleSync(Me)
    /\ CountFault
    /\ IF running' THEN /\ known' = Digests(dir'[Me])
                        /\ hangup' = Faulty
                        /\ UNCHANGED <<local, current, sent>>
       ELSE Forgets

MayAsk == Live(Me) /\ ~hangup

\* Closes the connection after a FAILED, or tries again on it.
Retry == hangup' = Reconnects /\ UNCHANGED <<local, known, current, sent>>

Missing(p) == p \in DOMAIN local /\ ~(p \in DOMAIN known /\ known[p] = local[p])

Upload(p) ==
    LET d    == local[p]
        data == IF d = <<>> THEN <<>> ELSE <<d[sent + 1]>>
        last == sent + 1 >= Len(d)
        Answered ==
            CASE reply'.res = "LOST"   -> Forgets
              [] reply'.res = "FAILED" -> Retry
              [] reply'.res = "NO_EFFECT" -> hangup' = TRUE /\ UNCHANGED <<local, known, current, sent>>
              [] reply'.res \in {"OK", "NO_MATCH"} ->
                   /\ current' = IF last THEN None ELSE p
                   /\ sent' = IF last THEN 0 ELSE sent + 1
                   /\ known' = IF ~last THEN known
                               ELSE IF reply'.res = "OK" THEN Put(known, p, d) ELSE Drop(known, p)
                   /\ UNCHANGED <<local, hangup>>
    IN
    /\ MayAsk /\ Missing(p) /\ current \in {None, p}
    /\ IF p \in DOMAIN known THEN HandleUpdate(Me, p, d, data, last)
                             ELSE HandleCreate(Me, p, d, data, last)
    /\ CountFault
    /\ Answered

\* Files of the server that are not local, old temporaries among them.
Erase(n) ==
    /\ MayAsk /\ current = None
    /\ n \in DOMAIN known \ DOMAIN local
    /\ HandleErase(Me, n, known[n])
    /\ CountFault
    /\ IF Faulty THEN Retry
       ELSE /\ known' = Drop(known, n)
            /\ hangup' = (reply'.res = "NO_EFFECT")
            /\ UNCHANGED <<local, current, sent>>

HangUp == hangup /\ Shutdown(Me) /\ Forgets /\ UNCHANGED <<faults, edits>>

\* The files of the client change while none is being sent.
Edit ==
    /\ edits < MaxEdits /\ current = None
    /\ edits' = edits + 1
    /\ \E p \in Path : \/ \E d \in File : local' = Put(local, p, d)
                       \/ local' = Drop(local, p)
    /\ UNCHANGED <<vars, known, current, sent, hangup, faults>>

\* The connection breaks, or the server is stopped.
Break ==
    /\ faults < MaxFaults /\ faults' = faults + 1
    /\ Shutdown(Me) \/ Stop
    /\ Forgets
    /\ UNCHANGED edits

StartAgain == Restart /\ Nothing /\ UNCHANGED <<faults, edits>>

-----------------------------------------------------------------------------
Work ==
    \/ Connect \/ Login \/ Sync \/ HangUp
    \/ \E p \in Path : Upload(p)
    \/ \E n \in Name : Erase(n)

ClientNext == Work \/ Edit \/ Break \/ StartAgain

\* The client goes on, the server answers, and is started again.
ClientSpec ==
    ClientInit /\ [][ClientNext]_all /\ WF_all(Work) /\ WF_all(StartAgain)

-----------------------------------------------------------------------------
(***************************************************************************)
(* Properties.                                                             *)
(***************************************************************************)
\* What a client knows from SYNC and from the answers it got is what the disk has,
\* whatever broken uploads have left there.
KnownIsStored ==
    Live(Me) => \A p \in Path \ {current} :
        (p \in DOMAIN known <=> p \in DOMAIN disk[I])
          /\ (p \in DOMAIN known => disk[I][p] = known[p])

\* A client that goes by the answers is never refused: the view of its session and
\* what it knows do not drift apart.
NeverRefused ==
    Live(Me) /\ reply.to = Me => reply.res # "NO_EFFECT"

\* Once faults and edits are over, the files of the client are on the server, and
\* stay: leftovers of broken uploads cost attempts, not the backup.
EventuallyBackedUp ==
    <>[](\A p \in Path : (p \in DOMAIN local <=> p \in DOMAIN disk[I])
                           /\ (p \in DOMAIN local => disk[I][p] = local[p]))

-----------------------------------------------------------------------------
(***************************************************************************)
(* The inductive invariant behind KnownIsStored and NeverRefused, and the  *)
(* conditions it needs: no path is the temporary of another (TempsApart),  *)
(* the flags of a new session are false, and the client reconnects.        *)
(***************************************************************************)
FlagsFalse == FreshFlag \subseteq {FALSE}

Sessions ==
    /\ conn \in [Conn -> Session] /\ DOMAIN dir = Conn /\ DOMAIN disk = User
    /\ conn[Me].id \in {None, I}
    /\ conn[Me].synced => conn[Me].auth

\* The view has what the client knows, but for the file that is being sent.
ViewKnown ==
    \A n \in Name \ ({current} \cap Path) :
        /\ n \in DOMAIN known <=> n \in DOMAIN dir[Me]
        /\ n \in DOMAIN known => dir[Me][n].digest = known[n]

\* So has the disk, for the files the clients name.
DiskKnown ==
    \A p \in Path \ {current} :
        /\ p \in DOMAIN known <=> p \in DOMAIN disk[I]
        /\ p \in DOMAIN known => disk[I][p] = known[p]

\* The file that is being sent is not known to be there, and its entry does not refuse
\* the next chunk.
Sending ==
    /\ current \in Path /\ Missing(current)
    /\ current \in DOMAIN dir[Me]
    /\ IF current \in DOMAIN known THEN dir[Me][current].digest = known[current]
       ELSE ~dir[Me][current].synced

\* The stream is on that file or on its temporary, or has failed.
OnStream ==
    IF current = None THEN I \notin DOMAIN streams
    ELSE I \in DOMAIN streams /\ streams[I] \in {current, Temp[current], FailedStream}

KInv ==
    /\ Sessions
    /\ reply.res # "NO_EFFECT"
    /\ Live(Me) => /\ ViewKnown /\ DiskKnown
                   /\ current # None => Sending
                   /\ ~hangup => OnStream
    /\ ~Live(Me) => current = None /\ I \notin DOMAIN streams
=============================================================================
