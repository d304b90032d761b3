------------------------------ MODULE Directory ------------------------------
(***************************************************************************)
(* The data of the backup server: the content of a file, the digest that   *)
(* stands for it, the view of a user's directory that a session keeps in   *)
(* memory (directory/dir.cpp, directory/resource.cpp) and the files of the *)
(* user's folder on disk.                                                  *)
(*                                                                         *)
(* A file is the sequence of the chunks written to it.  MD5_hash of a file *)
(* mixes its relative path and its bytes; digests are compared for one     *)
(* path at a time and MD5 is taken to be collision free, so the digest of  *)
(* a file IS its content here.  TEMP is the string handle_create stores as *)
(* the digest of a file whose chunks have not all arrived.                 *)
(***************************************************************************)
EXTENDS Naturals, Sequences, Functions

CONSTANTS
    Name,       \* names of files in a user's folder, with the names of temporaries
    Chunk,      \* pieces of file content, one per CONTENT segment
    MaxLen,     \* bound: chunks in a digest a client sends and in a file
    TEMP        \* the placeholder digest of an unfinished upload

ASSUME MaxLenAssumption == MaxLen \in Nat
ASSUME TempAssumption   == TEMP \notin Seq(Chunk)

\* m is a partial map, the model of std::unordered_map and of a folder.
IsMap(m, Key, Value) == DOMAIN m \subseteq Key /\ m \in [DOMAIN m -> Value]

Content  == Seq(Chunk)
Resource == [synced : BOOLEAN, digest : Content \cup {TEMP}]

IsView(m)   == IsMap(m, Name, Resource)
IsFolder(m) == IsMap(m, Name, Content)

\* What one request can carry: at most a chunk, and the digest of a bounded file
\* or the placeholder, a string like another for the handlers.
Data   == {<<>>} \cup {<<k>> : k \in Chunk}
Digest == (UNION {[1 .. n -> Chunk] : n \in 0 .. MaxLen}) \cup {TEMP}

Empty == [x \in {} |-> x]

\* dir::insert_or_assign, and the same update of any other map
Put(m, k, v) == [x \in DOMAIN m \cup {k} |-> IF x = k THEN v ELSE m[x]]

\* dir::erase, and the same removal from any other map
Drop(m, k) == Restrict(m, DOMAIN m \ {k})

\* What handle_sync enters in an empty view: every file, complete, with the
\* digest of the bytes it has.
Listing(files) == [n \in DOMAIN files |-> [synced |-> TRUE, digest |-> files[n]]]

\* A mutant: the announced digest is entered before the content has arrived.
ProgressEarly(view, p, first, last, digest, placeholder) ==
    IF first \/ last THEN Put(view, p, [synced |-> last, digest |-> digest]) ELSE view

\* What a chunk changes in the view of the file it belongs to: the first chunk
\* of a longer upload leaves a placeholder, the last one the digest announced
\* for the file, a chunk in between nothing.
Progress(view, p, first, last, digest, placeholder) ==
    IF last THEN Put(view, p, [synced |-> TRUE, digest |-> digest])
    ELSE IF first THEN Put(view, p, [synced |-> FALSE, digest |-> placeholder])
    ELSE view

\* The folder once a stream has been opened on f with ios::app.
Touch(files, f) == IF f \in DOMAIN files THEN files ELSE Put(files, f, <<>>)

\* The folder once data has been written to stream s.  A stream that is not on a
\* name of the folder (its open failed, its file was unlinked) leaves no trace.
WriteTo(files, s, data) ==
    IF s \in DOMAIN files THEN [files EXCEPT ![s] = @ \o data] ELSE files
=============================================================================
