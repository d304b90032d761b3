------------------------------- MODULE Tools -------------------------------
(***************************************************************************)
(* The two searches of utilities/tools.cpp.  verify_password, called by    *)
(* handle_auth, looks in the credentials file for the line of a user.      *)
(* split_sign takes the value of an ITEM segment apart, a path and a       *)
(* digest with a NUL between them; the server makes signs in handle_sync   *)
(* and splits those of CREATE, UPDATE and ERASE.                           *)
(*                                                                         *)
(* A text is a sequence of characters.  SHA512_hash is not modelled: a     *)
(* call has the digest of the password it was given.                       *)
(***************************************************************************)
EXTENDS Naturals, Sequences, SequencesExt, FiniteSetsExt

CONSTANTS
    Text,       \* user names and digests in the file, texts without a tab
    Tab,
    MaxLines,   \* bound: lines of the file
    Char,       \* the characters of a sign but NUL
    NUL,
    MaxSign     \* bound: length of a sign

ASSUME TextAssumption  == \A s \in Text : s \in Seq(Range(s)) /\ Tab \notin Range(s)
ASSUME NulAssumption   == NUL \notin Char
ASSUME BoundAssumption == MaxLines \in Nat /\ MaxSign \in Nat

VARIABLES
    call,       \* the function that was called
    file,       \* verify_password: the lines
    username,
    digest,     \* c_digest; of split_sign, the second part it returned last
    next,       \* the line that getline reads next
    stored,     \* s_digest, <<>> until a line is found
    sign,       \* split_sign: the value of the segment
    path,       \* the first part it returned last
    state       \* where the call is, or how it ended

vars == <<call, file, username, digest, next, stored, sign, path, state>>

Account(name, d) == name \o <<Tab>> \o d

\* What an administrator writes: accounts, and lines without a tab.
Line == Text \cup {Account(n, d) : n, d \in Text}

Sign == BoundedSeq(Char \cup {NUL}, MaxSign)

CallVerifyPassword ==
    /\ call = "verify_password" /\ state = "searching"
    /\ file \in BoundedSeq(Line, MaxLines)
    /\ username \in Text /\ digest \in Text
    /\ next = 1 /\ stored = <<>>
    /\ sign = <<>> /\ path = <<>>

CallSplitSign ==
    /\ call = "split_sign" /\ state = "received"
    /\ sign \in Sign
    /\ path = <<>> /\ digest = <<>>
    /\ file = <<>> /\ username = <<>> /\ next = 1 /\ stored = <<>>

Init == CallVerifyPassword \/ CallSplitSign

-----------------------------------------------------------------------------
(***************************************************************************)
(* verify_password                                                         *)
(***************************************************************************)
\* A mutant: any line will do.
FindAnything(line, text) == TRUE

\* line.find(text) != npos
Find(line, text) ==
    \E i \in 0 .. Len(line) - Len(text) : SubSeq(line, i + 1, i + Len(text)) = text

\* line.substr(line.find('\t') + 1)
AfterTab(line) == SubSeq(line, SelectInSeq(line, LAMBDA ch : ch = Tab) + 1, Len(line))

\* getline has a line to give.
LineLeft == state = "searching" /\ next <= Len(file)

Decide(verdict) == state' = verdict /\ UNCHANGED <<call, file, username, digest, next, sign, path>>

\* The file cannot be opened.
NotOpened ==
    /\ state = "searching" /\ next = 1
    /\ Decide("unreadable")
    /\ UNCHANGED stored

EndOfFile ==
    /\ state = "searching" /\ next > Len(file)
    /\ Decide("rejected")
    /\ UNCHANGED stored

SkipLine ==
    /\ LineLeft
    /\ ~Find(file[next], username)
    /\ next' = next + 1
    /\ UNCHANGED <<call, file, username, digest, stored, sign, path, state>>

\* The first line with the name in it decides.
FoundLine ==
    /\ LineLeft
    /\ Find(file[next], username)
    /\ \/ /\ Find(file[next], <<Tab>>)
          /\ stored' = AfterTab(file[next])
          /\ Decide(IF stored' = digest THEN "accepted" ELSE "rejected")
       \/ /\ ~Find(file[next], <<Tab>>)
          /\ Decide("rejected")
          /\ UNCHANGED stored

-----------------------------------------------------------------------------
(***************************************************************************)
(* split_sign and create_sign                                              *)
(***************************************************************************)
Nuls(s) == {i \in 1 .. Len(s) : s[i] = NUL}

\* The first group of (.*)\x00(.*) takes as much as it can.
LastNul(s) == Max(Nuls(s))

searchVars == <<file, username, next, stored>>

\* match_and_parse, and the exception of split_sign when there is no match
SplitSign ==
    /\ state \in {"received", "made"}
    /\ \/ /\ Nuls(sign) # {}
          /\ path' = SubSeq(sign, 1, LastNul(sign) - 1)
          /\ digest' = SubSeq(sign, LastNul(sign) + 1, Len(sign))
          /\ state' = "split"
       \/ /\ Nuls(sign) = {}
          /\ state' = "thrown"
          /\ UNCHANGED <<path, digest>>
    /\ UNCHANGED <<call, sign, searchVars>>

\* A mutant: nothing between the two.
Joined(p, d) == p \o d

CreateSign(p, d) == p \o <<NUL>> \o d

\* The next session's handle_sync makes the sign of the file again.
Sync ==
    /\ state = "split"
    /\ sign' = CreateSign(path, digest)
    /\ state' = "made"
    /\ UNCHANGED <<call, path, digest, searchVars>>

Next == NotOpened \/ EndOfFile \/ SkipLine \/ FoundLine \/ SplitSign \/ Sync

Spec == Init /\ [][Next]_vars

-----------------------------------------------------------------------------
(***************************************************************************)
(* Properties.                                                             *)
(***************************************************************************)
Own(line)        == \E d \in Text : line = Account(username, d)
Registered(i)    == file[i] = Account(username, digest)
NameOccurs(line) ==
    \E i \in 1 .. Len(line) + 1, j \in 0 .. Len(line) : SubSeq(line, i, j) = username

\* A user whose line has the digest that was sent is not refused, if the name occurs
\* nowhere else in the file.
RegisteredNotRefused ==
    state = "rejected" =>
      \A i \in 1 .. Len(file) :
         Registered(i) => \E j \in 1 .. Len(file) : j # i /\ NameOccurs(file[j])

\* The file is "the user credentials file path to authenticate them": a user is judged
\* by the first line of its own, not by that of another user.
EachUserByItsLine ==
    state = "rejected" =>
      \A i \in 1 .. Len(file) : Registered(i) => \E j \in 1 .. i - 1 : Own(file[j])

\* A sign that was made of a path and a digest is not thrown at, and gives them back as
\* they were, even if the path has a NUL in it: the digest has none.
PartsKept == [][state = "made" => state' = "split" /\ path' = path /\ digest' = digest]_vars
=============================================================================
