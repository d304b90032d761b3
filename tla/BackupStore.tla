---------------------------- MODULE BackupStore ----------------------------
(***************************************************************************)
(* What the server promises its users, whatever it does with chunks,       *)
(* streams, temporaries and views: a map from paths to complete files for  *)
(* each user, which changes only as the user is told.                      *)
(***************************************************************************)
EXTENDS Naturals

CONSTANTS
    User,
    Path,
    Content,    \* of files
    None        \* no user, no path, no file

VARIABLES
    store,      \* [User -> [Path -> Content]]: the complete files, None where there is none
    busy,       \* [User -> SUBSET Path]: the files with an upload in progress
    answer      \* what the last step told a user

vars == <<store, busy, answer>>

Answer == [user : User \cup {None}, item : Path \cup {None},
           says : {"NONE", "STORED", "ERASED", "REJECTED", "LOST"}]

TypeOK ==
    /\ store \in [User -> [Path -> Content \cup {None}]]
    /\ busy \in [User -> SUBSET Path]
    /\ answer \in Answer

Init ==
    /\ store = [u \in User |-> [p \in Path |-> None]]
    /\ busy = [u \in User |-> {}]
    /\ answer = [user |-> None, item |-> None, says |-> "NONE"]

Tell(u, p, what) == answer' = [user |-> u, item |-> p, says |-> what]

\* A refusal, a session that begins, a server that starts.
Quiet ==
    /\ answer' \in Answer /\ answer'.says = "NONE"
    /\ UNCHANGED <<store, busy>>

\* A chunk that is not the last one: the upload of p is in progress.  A file whose
\* update has begun is no longer safe from a later chunk that names it.
Receive(u, p) ==
    /\ Tell(u, p, "NONE")
    /\ busy' = [busy EXCEPT ![u] = @ \cup {p}]
    /\ \/ UNCHANGED store
       \/ p \in busy[u] /\ store' = [store EXCEPT ![u][p] = None]

\* The last chunk of an upload that is what was announced.
Store(u, p) ==
    /\ Tell(u, p, "STORED")
    /\ store'[u][p] \in Content
    /\ store' = [store EXCEPT ![u][p] = store'[u][p]]
    /\ busy' = [busy EXCEPT ![u] = @ \ {p}]

\* An ERASE, or the last chunk of an upload that is not what was announced.
Remove(u, p) ==
    /\ Tell(u, p, "ERASED") \/ Tell(u, p, "REJECTED")
    /\ store' = [store EXCEPT ![u][p] = None]
    /\ busy' = [busy EXCEPT ![u] = @ \ {p}]

\* The files of u survive, with what its broken uploads left beside them.
Survive(u, lost) ==
    /\ store'[u] \in [Path -> Content \cup {None}]
    /\ \A p \in Path \ lost : store[u][p] # None => store'[u][p] = store[u][p]

\* A session ends.
End(u) ==
    /\ Tell(None, None, "NONE")
    /\ Survive(u, {})
    /\ store' = [store EXCEPT ![u] = store'[u]]
    /\ busy' = [busy EXCEPT ![u] = {}]

\* The server ends, on a signal or in a request of u for p that it could not finish.
Halt(u, p) ==
    /\ \A v \in User : Survive(v, IF v = u THEN {p} ELSE {})
    /\ store' = [v \in User |-> store'[v]]
    /\ busy' = [v \in User |-> {}]

Next ==
    \/ Quiet
    \/ \E u \in User, p \in Path : Receive(u, p) \/ Store(u, p) \/ Remove(u, p)
    \/ \E u \in User : End(u)
    \/ Tell(None, None, "NONE") /\ Halt(None, None)
    \/ \E u \in User, p \in Path \cup {None} : Tell(u, p, "LOST") /\ Halt(u, p)

Spec == Init /\ [][Next]_vars
=============================================================================
