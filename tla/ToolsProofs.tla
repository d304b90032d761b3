---------------------------- MODULE ToolsProofs ----------------------------
(***************************************************************************)
(* What the searches of Tools guarantee for files of any length and signs  *)
(* of any length.                                                          *)
(***************************************************************************)
EXTENDS Tools, SequenceTheorems, FiniteSetTheorems, TLAPS

-----------------------------------------------------------------------------
(***************************************************************************)
(* Parts of sequences.                                                     *)
(***************************************************************************)
\* A set of positions that is not empty has a last one: the positions above them are
\* well-founded.
LEMMA MaxIsLast ==
    ASSUME NEW n \in Nat, NEW S, S \subseteq 1 .. n, S # {}
    PROVE  Max(S) \in S /\ \A y \in S : y <= Max(S)
<1> DEFINE Above(i) == {k \in 1 .. n : k > i}
           T == {Above(i) : i \in S}
<1>1. IsFiniteSet(1 .. n)
  BY FS_Interval
<1>2. T \subseteq FiniteSubsetsOf(1 .. n)
  BY <1>1, FS_FiniteSubsetsOfFinite
<1>3. T # {}
  OBVIOUS
<1> HIDE DEF T
<1>4. PICK x \in T : \A y \in T : ~(<<y, x>> \in StrictSubsetOrdering(1 .. n))
  BY <1>2, <1>3, FS_StrictSubsetOrderingWellFounded, WFMin
<1>5. PICK i \in S : x = Above(i)
  BY DEF T
<1>6. ASSUME NEW y \in S PROVE i >= y
  <2>1. SUFFICES ASSUME y > i PROVE FALSE
    OBVIOUS
  <2>2. Above(y) \in T
    BY DEF T
  <2>3. Above(y) \subseteq Above(i) /\ Above(y) # Above(i)
    <3>1. y \in Above(i) /\ y \notin Above(y)
      BY <2>1
    <3>2. Above(y) \subseteq Above(i)
      BY <2>1
    <3>3. QED BY <3>1, <3>2
  <2>4. <<Above(y), x>> \in StrictSubsetOrdering(1 .. n)
    BY <1>5, <2>3 DEF StrictSubsetOrdering
  <2>5. QED BY <1>4, <2>2, <2>4
<1>7. \E x2 \in S : \A y \in S : x2 >= y
  BY <1>6
<1>8. Max(S) \in S /\ \A y \in S : Max(S) >= y
  BY <1>7 DEF Max
<1>9. QED BY <1>8

\* The parts of a sequence that is made of two with a mark between them.
LEMMA PartsOf ==
    ASSUME NEW S, NEW p \in Seq(S), NEW m \in S, NEW d \in Seq(S)
    PROVE  LET s == p \o <<m>> \o d
           IN /\ s \in Seq(S) /\ Len(s) = Len(p) + 1 + Len(d)
              /\ \A i \in 1 .. Len(p) : s[i] = p[i]
              /\ s[Len(p) + 1] = m
              /\ \A i \in 1 .. Len(d) : s[Len(p) + 1 + i] = d[i]
              /\ SubSeq(s, 1, Len(p)) = p
              /\ SubSeq(s, Len(p) + 2, Len(s)) = d
<1> DEFINE s == p \o <<m>> \o d
<1>1. <<m>> \in Seq(S) /\ Len(<<m>>) = 1 /\ <<m>>[1] = m
  OBVIOUS
<1>2. /\ p \o <<m>> \in Seq(S) /\ Len(p \o <<m>>) = Len(p) + 1
      /\ \A i \in 1 .. Len(p) : (p \o <<m>>)[i] = p[i]
      /\ (p \o <<m>>)[Len(p) + 1] = m
  BY <1>1, ConcatProperties, LenProperties
<1>3. s \in Seq(S) /\ Len(s) = Len(p) + 1 + Len(d)
  BY <1>2, ConcatProperties
<1>4. /\ \A i \in 1 .. Len(p) : s[i] = p[i]
      /\ s[Len(p) + 1] = m
      /\ \A i \in 1 .. Len(d) : s[Len(p) + 1 + i] = d[i]
  BY <1>2, ConcatProperties, LenProperties
<1> HIDE DEF s
<1>5. Len(p) \in Nat /\ Len(d) \in Nat
  BY LenProperties
<1>6. SubSeq(s, 1, Len(p)) = p
  <2>1. \A i \in 1 .. Len(p) : s[i] \in S
    BY <1>3, <1>5, ElementOfSeq
  <2>2. /\ SubSeq(s, 1, Len(p)) \in Seq(S)
        /\ Len(SubSeq(s, 1, Len(p))) = Len(p)
        /\ \A i \in 1 .. Len(p) : SubSeq(s, 1, Len(p))[i] = s[i]
    BY <1>5, <2>1, SubSeqProperties
  <2>3. QED BY <1>4, <2>2, SeqEqual
<1>7. SubSeq(s, Len(p) + 2, Len(s)) = d
  <2>1. \A i \in Len(p) + 2 .. Len(s) : s[i] \in S
    BY <1>3, <1>5, ElementOfSeq
  <2>2. /\ SubSeq(s, Len(p) + 2, Len(s)) \in Seq(S)
        /\ Len(SubSeq(s, Len(p) + 2, Len(s))) = Len(d)
        /\ \A i \in 1 .. Len(d) : SubSeq(s, Len(p) + 2, Len(s))[i] = s[Len(p) + 1 + i]
    BY <1>3, <1>5, <2>1, SubSeqProperties
  <2>3. QED BY <1>4, <2>2, SeqEqual
<1>8. QED BY <1>3, <1>4, <1>6, <1>7 DEF s

-----------------------------------------------------------------------------
(***************************************************************************)
(* split_sign and create_sign.                                             *)
(***************************************************************************)
SignText == Seq(Char \cup {NUL})

\* The group takes as much as it can: no NUL follows the last one.
LEMMA LastNulIsLast ==
    ASSUME NEW s \in SignText, Nuls(s) # {}
    PROVE  /\ LastNul(s) \in 1 .. Len(s) /\ s[LastNul(s)] = NUL
           /\ \A i \in LastNul(s) + 1 .. Len(s) : s[i] # NUL
<1>1. Len(s) \in Nat
  BY DEF SignText
<1>2. Nuls(s) \subseteq 1 .. Len(s)
  BY DEF Nuls
<1>3. LastNul(s) \in Nuls(s) /\ \A y \in Nuls(s) : y <= LastNul(s)
  BY <1>1, <1>2, MaxIsLast DEF LastNul
<1>4. ASSUME NEW i \in LastNul(s) + 1 .. Len(s) PROVE s[i] # NUL
  BY <1>1, <1>3 DEF Nuls
<1>5. QED BY <1>3, <1>4 DEF Nuls

\* The parts of a sign: any text, and a text without a NUL.
LEMMA SplitParts ==
    ASSUME NEW s \in SignText, Nuls(s) # {}
    PROVE  /\ SubSeq(s, 1, LastNul(s) - 1) \in SignText
           /\ SubSeq(s, LastNul(s) + 1, Len(s)) \in Seq(Char)
<1> DEFINE k == LastNul(s)
<1>1. /\ k \in 1 .. Len(s) /\ \A i \in k + 1 .. Len(s) : s[i] # NUL
  BY LastNulIsLast
<1>2. Len(s) \in Nat /\ \A i \in 1 .. Len(s) : s[i] \in Char \cup {NUL}
  BY LenProperties, ElementOfSeq DEF SignText
<1> HIDE DEF k
<1>3. \A i \in 1 .. k - 1 : s[i] \in Char \cup {NUL}
  BY <1>1, <1>2
<1>4. \A i \in k + 1 .. Len(s) : s[i] \in Char
  BY <1>1, <1>2
<1>5. SubSeq(s, 1, k - 1) \in SignText
  BY <1>1, <1>2, <1>3, SubSeqProperties DEF SignText
<1>6. SubSeq(s, k + 1, Len(s)) \in Seq(Char)
  BY <1>1, <1>2, <1>4, SubSeqProperties
<1>7. QED BY <1>5, <1>6 DEF k

\* A sign that is made of two such parts gives them back.
LEMMA MadeSplits ==
    ASSUME NEW p \in SignText, NEW d \in Seq(Char)
    PROVE  LET s == CreateSign(p, d)
           IN /\ s \in SignText /\ Nuls(s) # {}
              /\ SubSeq(s, 1, LastNul(s) - 1) = p
              /\ SubSeq(s, LastNul(s) + 1, Len(s)) = d
<1> DEFINE s == CreateSign(p, d)
<1>1. d \in SignText /\ Len(p) \in Nat /\ Len(d) \in Nat
  BY SeqMonotonic DEF SignText
<1>2. /\ s \in SignText /\ Len(s) = Len(p) + 1 + Len(d)
      /\ s[Len(p) + 1] = NUL
      /\ \A i \in 1 .. Len(d) : s[Len(p) + 1 + i] = d[i]
      /\ SubSeq(s, 1, Len(p)) = p
      /\ SubSeq(s, Len(p) + 2, Len(s)) = d
  BY <1>1, PartsOf DEF SignText, CreateSign
<1> HIDE DEF s
<1>3. Len(p) + 1 \in Nuls(s)
  BY <1>1, <1>2 DEF Nuls
<1>4. \A i \in 1 .. Len(d) : d[i] \in Char
  BY ElementOfSeq
<1>5. \A i \in Len(p) + 2 .. Len(s) : s[i] # NUL
  <2>1. ASSUME NEW i \in Len(p) + 2 .. Len(s) PROVE s[i] # NUL
    <3>1. PICK j \in 1 .. Len(d) : i = Len(p) + 1 + j
      BY <1>1, <1>2
    <3>2. QED BY <1>2, <1>4, <3>1, NulAssumption
  <2>2. QED BY <2>1
<1>6. LastNul(s) \in 1 .. Len(s) /\ s[LastNul(s)] = NUL
      /\ \A i \in LastNul(s) + 1 .. Len(s) : s[i] # NUL
  BY <1>2, <1>3, LastNulIsLast
<1>7. LastNul(s) = Len(p) + 1
  BY <1>1, <1>2, <1>5, <1>6
<1>8. LastNul(s) - 1 = Len(p) /\ LastNul(s) + 1 = Len(p) + 2
  BY <1>1, <1>7
<1>9. QED BY <1>2, <1>3, <1>8 DEF s

\* What split_sign returned are two such parts, and a sign that was made is made of them.
SplitInv ==
    /\ sign \in SignText
    /\ state \in {"split", "made"} => path \in SignText /\ digest \in Seq(Char)
    /\ state = "made" => sign = CreateSign(path, digest)

LEMMA InitSplit == Init => SplitInv
<1>1. Sign \subseteq SignText /\ <<>> \in SignText
  <2>1. ASSUME NEW n \in 0 .. MaxSign PROVE [1 .. n -> Char \cup {NUL}] \subseteq SignText
    BY BoundAssumption DEF SignText
  <2>2. QED BY <2>1 DEF Sign, BoundedSeq, SeqOf, SignText
<1>2. QED BY <1>1 DEF Init, CallVerifyPassword, CallSplitSign, SplitInv

LEMMA NextSplit == SplitInv /\ [Next]_vars => SplitInv'
<1> SUFFICES ASSUME SplitInv, [Next]_vars PROVE SplitInv'
  OBVIOUS
<1>1. CASE UNCHANGED vars
  BY <1>1 DEF vars, SplitInv
<1>2. CASE NotOpened \/ EndOfFile \/ SkipLine \/ FoundLine
  <2>1. UNCHANGED <<sign, path, digest>> /\ state' \notin {"split", "made"}
    BY <1>2 DEF NotOpened, EndOfFile, SkipLine, FoundLine, LineLeft, Decide
  <2>2. QED BY <2>1 DEF SplitInv
<1>3. CASE SplitSign
  <2>1. CASE Nuls(sign) # {}
    <3>1. sign' = sign /\ state' = "split"
          /\ path' = SubSeq(sign, 1, LastNul(sign) - 1)
          /\ digest' = SubSeq(sign, LastNul(sign) + 1, Len(sign))
      BY <1>3, <2>1 DEF SplitSign
    <3>2. path' \in SignText /\ digest' \in Seq(Char)
      BY <2>1, <3>1, SplitParts DEF SplitInv
    <3>3. QED BY <3>1, <3>2 DEF SplitInv
  <2>2. CASE Nuls(sign) = {}
    BY <1>3, <2>2 DEF SplitSign, SplitInv
  <2>3. QED BY <2>1, <2>2
<1>4. CASE Sync
  <2>1. path \in SignText /\ digest \in Seq(Char)
    BY <1>4 DEF Sync, SplitInv
  <2>2. CreateSign(path, digest) \in SignText
    BY <2>1, MadeSplits
  <2>3. QED BY <1>4, <2>1, <2>2 DEF Sync, SplitInv
<1>5. QED BY <1>1, <1>2, <1>3, <1>4 DEF Next

LEMMA PartsStep ==
    ASSUME SplitInv, Next, state = "made"
    PROVE  state' = "split" /\ path' = path /\ digest' = digest
<1>1. SplitSign
  BY DEF Next, NotOpened, EndOfFile, SkipLine, FoundLine, LineLeft, Sync
<1>2. sign = CreateSign(path, digest) /\ path \in SignText /\ digest \in Seq(Char)
  BY DEF SplitInv
<1>3. /\ Nuls(sign) # {}
      /\ SubSeq(sign, 1, LastNul(sign) - 1) = path
      /\ SubSeq(sign, LastNul(sign) + 1, Len(sign)) = digest
  BY <1>2, MadeSplits
<1>4. QED BY <1>1, <1>3 DEF SplitSign

\* A sign made of what split_sign has returned is split into the same parts, however long
\* they are and however many NULs the path has.
THEOREM SignsComeApart == Spec => PartsKept
<1>1. SplitInv /\ [Next]_vars =>
        [state = "made" => state' = "split" /\ path' = path /\ digest' = digest]_vars
  BY PartsStep
<1>2. QED BY <1>1, InitSplit, NextSplit, PTL DEF Spec, PartsKept

-----------------------------------------------------------------------------
(***************************************************************************)
(* verify_password.                                                        *)
(***************************************************************************)
\* The characters of the credentials file.
TextChar == {Tab} \cup UNION {Range(s) : s \in Text}

LEMMA TextChars ==
    /\ Text \subseteq Seq(TextChar) /\ Tab \in TextChar
    /\ \A s \in Text : \A i \in 1 .. Len(s) : s[i] # Tab
<1>1. ASSUME NEW s \in Text
      PROVE  s \in Seq(TextChar) /\ \A i \in 1 .. Len(s) : s[i] # Tab
  <2>1. s \in Seq(Range(s)) /\ Tab \notin Range(s)
    BY TextAssumption
  <2>2. Range(s) \subseteq TextChar
    BY DEF TextChar
  <2>3. DOMAIN s = 1 .. Len(s)
    BY <2>1, LenProperties
  <2>4. QED BY <2>1, <2>2, <2>3, SeqMonotonic DEF Range
<1>2. QED BY <1>1 DEF TextChar

\* A line of a user has the name, a tab, and the digest behind it.
LEMMA AccountLine ==
    ASSUME NEW u \in Text, NEW d \in Text
    PROVE  LET line == Account(u, d)
           IN /\ line \in Seq(TextChar)
              /\ Find(line, u) /\ Find(line, <<Tab>>)
              /\ AfterTab(line) = d
<1> DEFINE line == Account(u, d)
<1>1. /\ u \in Seq(TextChar) /\ d \in Seq(TextChar) /\ Tab \in TextChar
      /\ Len(u) \in Nat /\ Len(d) \in Nat
      /\ \A i \in 1 .. Len(u) : u[i] # Tab
      /\ \A i \in 1 .. Len(d) : d[i] # Tab
  BY TextChars, LenProperties
<1>2. /\ line \in Seq(TextChar) /\ Len(line) = Len(u) + 1 + Len(d)
      /\ \A i \in 1 .. Len(u) : line[i] = u[i]
      /\ line[Len(u) + 1] = Tab
      /\ \A i \in 1 .. Len(d) : line[Len(u) + 1 + i] = d[i]
      /\ SubSeq(line, 1, Len(u)) = u
      /\ SubSeq(line, Len(u) + 2, Len(line)) = d
  BY <1>1, PartsOf DEF Account
<1> HIDE DEF line
<1>3. Find(line, u)
  <2>1. 0 \in 0 .. Len(line) - Len(u) /\ 0 + 1 = 1 /\ 0 + Len(u) = Len(u)
    BY <1>1, <1>2
  <2>2. SubSeq(line, 0 + 1, 0 + Len(u)) = u
    BY <1>2, <2>1
  <2>3. QED BY <2>1, <2>2 DEF Find
<1>4. Find(line, <<Tab>>)
  <2>1. Len(u) \in 0 .. Len(line) - Len(<<Tab>>) /\ Len(<<Tab>>) = 1
    BY <1>1, <1>2
  <2>2. SubSeq(line, Len(u) + 1, Len(u) + 1) = <<Tab>>
    <3>1. \A i \in Len(u) + 1 .. Len(u) + 1 : line[i] \in TextChar
      BY <1>1, <1>2
    <3>2. /\ SubSeq(line, Len(u) + 1, Len(u) + 1) \in Seq(TextChar)
          /\ Len(SubSeq(line, Len(u) + 1, Len(u) + 1)) = 1
          /\ SubSeq(line, Len(u) + 1, Len(u) + 1)[1] = Tab
      BY <1>1, <1>2, <3>1, SubSeqProperties
    <3>3. <<Tab>> \in Seq(TextChar) /\ <<Tab>>[1] = Tab
      BY <1>1
    <3> DEFINE part == SubSeq(line, Len(u) + 1, Len(u) + 1)
    <3>4. \A i \in 1 .. Len(part) : part[i] = <<Tab>>[i]
      BY <3>2, <3>3
    <3> HIDE DEF part
    <3>5. part = <<Tab>>
      BY <2>1, <3>2, <3>3, <3>4, SeqEqual DEF part
    <3>6. QED BY <3>5 DEF part
  <2>3. QED BY <2>1, <2>2 DEF Find
<1>5. AfterTab(line) = d
  <2> DEFINE I == {i \in 1 .. Len(line) : line[i] = Tab}
  <2>1. I = {Len(u) + 1}
    <3>1. ASSUME NEW i \in 1 .. Len(line), line[i] = Tab PROVE i = Len(u) + 1
      <4>1. CASE i \in 1 .. Len(u)
        BY <1>1, <1>2, <3>1, <4>1
      <4>2. CASE i > Len(u) + 1
        <5>1. Len(u) \in Nat /\ Len(d) \in Nat /\ Len(line) = Len(u) + 1 + Len(d)
          BY <1>1, <1>2
        <5> DEFINE j == i - (Len(u) + 1)
        <5>2. j \in 1 .. Len(d) /\ i = Len(u) + 1 + j
          BY <3>1, <4>2, <5>1
        <5>3. line[i] = d[j]
          BY <1>2, <5>2
        <5>4. QED BY <1>1, <3>1, <5>2, <5>3
      <4>3. QED BY <1>1, <4>1, <4>2
    <3>2. Len(u) + 1 \in 1 .. Len(line)
      BY <1>1, <1>2
    <3>3. QED BY <1>2, <3>1, <3>2
  <2>2. Min(I) = Len(u) + 1
    BY <1>1, <2>1 DEF Min
  <2>3. SelectInSeq(line, LAMBDA ch : ch = Tab) = Len(u) + 1
    BY <2>1, <2>2 DEF SelectInSeq
  <2>4. Len(u) + 1 + 1 = Len(u) + 2
    BY <1>1
  <2>5. QED BY <1>2, <2>3, <2>4 DEF AfterTab
<1>6. QED BY <1>2, <1>3, <1>4, <1>5 DEF line

\* What is found in a line occurs in it.
LEMMA FoundOccurs ==
    ASSUME NEW line \in Seq(TextChar), username \in Text, Find(line, username)
    PROVE  NameOccurs(line)
<1>1. Len(line) \in Nat /\ Len(username) \in Nat
  BY TextChars, LenProperties
<1>2. PICK i \in 0 .. Len(line) - Len(username) : SubSeq(line, i + 1, i + Len(username)) = username
  BY DEF Find
<1>3. i + 1 \in 1 .. Len(line) + 1 /\ i + Len(username) \in 0 .. Len(line)
  BY <1>1
<1>4. QED BY <1>2, <1>3 DEF NameOccurs

\* The search has met no line with the name in it, and if it was given up the user's
\* line was not the one that it met.
SearchInv ==
    /\ next \in Nat \ {0} /\ Len(file) \in Nat
    /\ \A j \in 1 .. Len(file) : file[j] \in Seq(TextChar)
    /\ state = "searching" =>
         /\ username \in Text /\ digest \in Text
         /\ \A j \in 1 .. Len(file) : j < next => ~Find(file[j], username)
    /\ RegisteredNotRefused

LEMMA InitSearch == Init => SearchInv
<1>1. Line \subseteq Seq(TextChar)
  <2>1. \A n, d \in Text : Account(n, d) \in Seq(TextChar)
    BY AccountLine
  <2>2. QED BY <2>1, TextChars DEF Line
<1>2. ASSUME CallVerifyPassword PROVE SearchInv
  <2>1. PICK n \in 0 .. MaxLines : file \in [1 .. n -> Line]
    BY <1>2 DEF CallVerifyPassword, BoundedSeq, SeqOf
  <2>2. n \in Nat
    BY BoundAssumption
  <2>3. file \in Seq(Line)
    BY <2>1, <2>2
  <2>4. \A j \in 1 .. Len(file) : file[j] \in Seq(TextChar)
    BY <1>1, <2>3, ElementOfSeq
  <2>5. Len(file) \in Nat
    BY <2>3, LenProperties
  <2>6. QED BY <1>2, <2>4, <2>5 DEF CallVerifyPassword, SearchInv, RegisteredNotRefused
<1>3. ASSUME CallSplitSign PROVE SearchInv
  BY <1>3 DEF CallSplitSign, SearchInv, RegisteredNotRefused
<1>4. QED BY <1>2, <1>3 DEF Init

\* The search is given up at the end of the file, or at a line that has the name and
\* another digest.
LEMMA RejectedSearch ==
    ASSUME SearchInv, state = "searching", UNCHANGED <<file, username, digest>>,
           \/ next > Len(file)
           \/ /\ next \in 1 .. Len(file) /\ Find(file[next], username)
              /\ file[next] # Account(username, digest)
    PROVE  RegisteredNotRefused'
<1> SUFFICES ASSUME NEW i \in 1 .. Len(file), file[i] = Account(username, digest)
             PROVE  \E j \in 1 .. Len(file) : j # i /\ NameOccurs(file[j])
  BY DEF RegisteredNotRefused, Registered, NameOccurs
<1>1. Find(file[i], username)
  BY AccountLine DEF SearchInv
<1>2. CASE next > Len(file)
  BY <1>1, <1>2 DEF SearchInv
<1>3. CASE /\ next \in 1 .. Len(file) /\ Find(file[next], username)
           /\ file[next] # Account(username, digest)
  BY <1>3, FoundOccurs DEF SearchInv
<1>4. QED BY <1>2, <1>3

LEMMA NextSearch == SearchInv /\ [Next]_vars => SearchInv'
<1> SUFFICES ASSUME SearchInv, [Next]_vars PROVE SearchInv'
  OBVIOUS
<1>1. CASE UNCHANGED vars
  BY <1>1 DEF vars, SearchInv, RegisteredNotRefused, Registered, NameOccurs
<1>2. ASSUME state' \notin {"searching", "rejected"}, UNCHANGED <<file, next>> PROVE SearchInv'
  BY <1>2 DEF SearchInv, RegisteredNotRefused
<1>3. CASE NotOpened \/ SplitSign \/ Sync
  BY <1>2, <1>3 DEF NotOpened, SplitSign, Sync, Decide, searchVars
<1>4. CASE EndOfFile
  <2>1. RegisteredNotRefused'
    BY <1>4, RejectedSearch DEF EndOfFile, Decide
  <2>2. QED BY <1>4, <2>1 DEF EndOfFile, Decide, SearchInv
<1>5. CASE SkipLine
  <2>1. state' = "searching" /\ next' = next + 1 /\ ~Find(file[next], username)
        /\ UNCHANGED <<file, username, digest>>
    BY <1>5 DEF SkipLine, LineLeft
  <2>2. \A j \in 1 .. Len(file) : j < next + 1 => j < next \/ j = next
    BY DEF SearchInv
  <2>3. QED BY <1>5, <2>1, <2>2 DEF SkipLine, LineLeft, SearchInv, RegisteredNotRefused
<1>6. CASE FoundLine
  <2>1. /\ state = "searching" /\ next <= Len(file) /\ Find(file[next], username)
        /\ UNCHANGED <<file, username, digest, next>>
        /\ state' \in {"accepted", "rejected"}
    BY <1>6 DEF FoundLine, LineLeft, Decide
  <2>2. ASSUME state' = "rejected" PROVE RegisteredNotRefused'
    <3>1. next \in 1 .. Len(file)
      BY <2>1 DEF SearchInv
    <3>2. ASSUME file[next] = Account(username, digest) PROVE FALSE
      <4>1. Find(file[next], <<Tab>>) /\ AfterTab(file[next]) = digest
        BY <2>1, <3>2, AccountLine DEF SearchInv
      <4>2. state' = "accepted"
        BY <1>6, <4>1 DEF FoundLine, Decide
      <4>3. QED BY <2>2, <4>2
    <3>3. QED BY <2>1, <3>1, <3>2, RejectedSearch
  <2>3. state' = "rejected" => SearchInv'
    BY <2>1, <2>2 DEF SearchInv
  <2>4. QED BY <1>2, <2>1, <2>3
<1>7. QED BY <1>1, <1>3, <1>4, <1>5, <1>6 DEF Next

\* However long the file is and whatever lines it has, a user whose line has the digest
\* that was sent is refused only if the name occurs in another line.
THEOREM RegisteredGetIn == Spec => []RegisteredNotRefused
<1>1. SearchInv => RegisteredNotRefused
  BY DEF SearchInv
<1>2. QED BY <1>1, InitSearch, NextSearch, PTL DEF Spec
=============================================================================
