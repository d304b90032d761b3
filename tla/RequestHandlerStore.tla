------------------------- MODULE RequestHandlerStore -------------------------
(***************************************************************************)
(* The request handler implements BackupStore, when each user has one      *)
(* connection at a time, no path is the temporary of another and the flags *)
(* of a new session are false.                                             *)
(***************************************************************************)
EXTENDS RequestHandler

HasSession(u) == \E c \in Conn : Live(c) /\ conn[c].id = u
SessionOf(u)  == CHOOSE c \in Conn : Live(c) /\ conn[c].id = u

\* A file of a user with a session is complete if the view has its digest; the next
\* session of a user without one will take every file for complete.
Complete(u, p) ==
    /\ p \in DOMAIN disk[u]
    /\ HasSession(u) => LET view == dir[SessionOf(u)]
                        IN p \in DOMAIN view /\ view[p].digest # TEMP

Stored == [u \in User |-> [p \in Path |-> IF Complete(u, p) THEN disk[u][p] ELSE None]]

Uploading ==
    [u \in User |->
       IF HasSession(u)
       THEN LET view == dir[SessionOf(u)]
            IN {p \in Path \cap DOMAIN view : ~view[p].synced}
       ELSE {}]

Says ==
    CASE reply.res = "LOST"                          -> "LOST"
      [] reply.res = "NO_MATCH"                      -> "REJECTED"
      [] reply.res = "OK" /\ reply.final             -> "STORED"
      [] reply.res = "OK" /\ reply.type = "ERASE"    -> "ERASED"
      [] OTHER                                       -> "NONE"

Said ==
    [user |-> IF reply.to = None THEN None ELSE Owner[reply.to],
     item |-> reply.item, says |-> Says]

Store == INSTANCE BackupStore WITH store <- Stored, busy <- Uploading, answer <- Said

FlagsStartFalse == FreshFlag \subseteq {FALSE}

\* The handlers do to the complete files of a user what the user is told and
\* nothing else: a file that is complete and not being updated changes only in a
\* last chunk or an ERASE that names it; chunks, refusals, the end of a session
\* and of the server leave it alone, but for an update that takes the server down.
ImplementsStore == Store!Spec
=============================================================================
