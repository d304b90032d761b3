--------------------------- MODULE StartUpProofs ---------------------------
(***************************************************************************)
(* What StartUp guarantees for every command line and config file.         *)
(***************************************************************************)
EXTENDS StartUp, TLAPS

-----------------------------------------------------------------------------
(***************************************************************************)
(* The order of the stages.                                                *)
(***************************************************************************)
\* Start-up is on its way and has done stage s.
Passed(s) == \E i, j \in 1 .. Len(Order) : i < j /\ Order[i] = s /\ Order[j] = stage

\* Each stage comes once.
LEMMA OrderOnce ==
    /\ Len(Order) = 9
    /\ \A i, j \in 1 .. 9 : Order[i] = Order[j] => i = j
<1>1. Len(Order) = 9
  BY DEF Order
<1>2. ASSUME NEW i \in 1 .. 9, NEW j \in 1 .. 9, Order[i] = Order[j] PROVE i = j
  BY <1>2 DEF Order
<1>3. QED BY <1>1, <1>2

LEMMA OrderEnds ==
    /\ Order[1] = "command" /\ Order[2] = "config" /\ Order[3] = "notify"
    /\ Order[9] = "serving"
    /\ \A i \in 1 .. 9 : Order[i] \notin {"helped", "failed"}
    /\ \A o \in PathOption : \E i \in 1 .. 8 : Order[i] = o
BY DEF Order, PathOption

\* A stage is done when the next one begins, and no other.
LEMMA ProceedPassed ==
    ASSUME Proceed, NEW s
    PROVE  Passed(s)' <=> Passed(s) \/ s = stage
<1>1. PICK k \in 1 .. 8 : stage = Order[k] /\ stage' = Order[k + 1]
  BY OrderOnce DEF Proceed
<1>2. Passed(s) <=> \E i \in 1 .. 9 : i < k /\ Order[i] = s
  BY <1>1, OrderOnce DEF Passed
<1>3. Passed(s)' <=> \E i \in 1 .. 9 : i < k + 1 /\ Order[i] = s
  BY <1>1, OrderOnce DEF Passed
<1>4. QED BY <1>1, <1>2, <1>3

\* Nothing has been done at the first stage, and nothing counts after the end.
LEMMA NothingPassed ==
    ASSUME NEW s, stage \in {"command", "helped", "failed"}
    PROVE  ~Passed(s)
<1>1. CASE stage = "command"
  BY <1>1, OrderOnce, OrderEnds DEF Passed
<1>2. CASE stage # "command"
  BY <1>2, OrderOnce, OrderEnds DEF Passed
<1>3. QED BY <1>1, <1>2

\* The command line has been read once the config file is, and nothing else.
LEMMA PassedAtConfig ==
    ASSUME NEW s, stage = "config"
    PROVE  Passed(s) <=> s = "command"
BY OrderOnce, OrderEnds DEF Passed

\* The stage after the first two.
LEMMA AfterConfig ==
    ASSUME Proceed
    PROVE  /\ stage = "command" => stage' = "config"
           /\ stage = "config" => stage' = "notify"
<1>1. PICK i \in 1 .. 8 : stage = Order[i] /\ stage' = Order[i + 1]
  <2>1. Len(Order) = 9
    BY OrderOnce
  <2>2. QED BY <2>1 DEF Proceed
<1>2. \A j \in 1 .. 9 : Order[i] = Order[j] => i = j
  BY OrderOnce
<1>3. stage = "command" => i = 1
  BY <1>1, <1>2, OrderEnds
<1>4. stage = "config" => i = 2
  BY <1>1, <1>2, OrderEnds
<1>5. Order[1 + 1] = "config" /\ Order[2 + 1] = "notify"
  BY OrderEnds
<1>6. QED BY <1>1, <1>3, <1>4, <1>5

LEMMA PassedAtServing ==
    ASSUME stage = "serving"
    PROVE  Passed("command") /\ Passed("notify") /\ \A o \in PathOption : Passed(o)
<1>1. ASSUME NEW i \in 1 .. 8 PROVE Passed(Order[i])
  BY OrderOnce, OrderEnds DEF Passed
<1>2. QED BY <1>1, OrderEnds

-----------------------------------------------------------------------------
(***************************************************************************)
(* The inductive invariant.                                                *)
(***************************************************************************)
\* Where the value of an option comes from, before it is known to have one.
Held(o) ==
    IF o \in command THEN "command"
    ELSE IF o \in config THEN "config"
    ELSE IF o \in Defaulted THEN "default" ELSE "none"

\* The map holds what the sources that have been read give, the first of them first,
\* the required options have a value after notify, and what has been checked of a path
\* is the value it has.
SInv ==
    /\ DOMAIN checked = PathOption
    /\ stage = "command" => command = {} /\ config = {} /\ vm = [o \in Option |-> "none"]
    /\ stage = "config" => config = {}
    /\ Passed("command") => vm = [o \in Option |-> Held(o)]
    /\ Passed("notify") => \A o \in Required : vm[o] # "none"
    /\ \A o \in PathOption : Passed(o) => checked[o] = vm[o]

LEMMA InitSInv == Init => SInv
<1> SUFFICES ASSUME Init PROVE SInv
  OBVIOUS
<1>1. \A s : ~Passed(s)
  BY NothingPassed DEF Init
<1>2. QED BY <1>1 DEF Init, SInv

\* An end is no stage.
LEMMA EndSInv ==
    ASSUME SInv, stage' \in {"helped", "failed"}, checked' = checked
    PROVE  SInv'
<1>1. \A s : ~Passed(s)'
  BY OrderOnce, OrderEnds DEF Passed
<1>2. QED BY <1>1 DEF SInv

LEMMA CommandSInv == ASSUME SInv, ReadCommandLine PROVE SInv'
<1>1. CASE stage' = "helped"
  BY <1>1, EndSInv DEF ReadCommandLine
<1>2. CASE Proceed
  <2>1. \A s : Passed(s)' <=> s = "command"
    BY <1>2, ProceedPassed, NothingPassed DEF ReadCommandLine, At
  <2>2. stage' = "config"
    BY <1>2, AfterConfig DEF ReadCommandLine, At
  <2>3. vm' = [o \in Option |-> Held(o)']
    BY DEF ReadCommandLine, At, SInv, Store, WithDefaults, Held
  <2>4. ~Passed("notify")' /\ \A o \in PathOption : ~Passed(o)'
    BY <2>1 DEF PathOption
  <2>5. config' = {} /\ checked' = checked
    BY DEF ReadCommandLine, SInv, At
  <2>6. QED BY <2>2, <2>3, <2>4, <2>5 DEF SInv
<1>3. QED BY <1>1, <1>2 DEF ReadCommandLine

LEMMA ConfigSInv == ASSUME SInv, ReadConfigFile PROVE SInv'
<1>1. \A s : Passed(s)' <=> s \in {"command", "config"}
  BY ProceedPassed, PassedAtConfig DEF ReadConfigFile, At
<1>2. stage' = "notify"
  BY AfterConfig DEF ReadConfigFile, At
<1>3. vm = [o \in Option |-> Held(o)] /\ config = {}
  BY PassedAtConfig DEF ReadConfigFile, At, SInv
<1>4. vm' = [o \in Option |-> Held(o)']
  BY <1>3 DEF ReadConfigFile, Store, WithDefaults, Held
<1>5. PathOption \cap {"command", "config"} = {}
  BY DEF PathOption
<1>6. QED BY <1>1, <1>2, <1>4, <1>5 DEF ReadConfigFile, SInv, Held

\* The other stages do nothing to the map.
LEMMA LaterSInv ==
    ASSUME SInv, Proceed, stage \notin {"command", "config"}, UNCHANGED <<command, config, vm>>,
           DOMAIN checked' = PathOption,
           stage = "notify" => \A o \in Required : vm[o] # "none",
           \A o \in PathOption : checked'[o] = IF o = stage THEN vm[o] ELSE checked[o]
    PROVE  SInv'
<1>1. \A s : Passed(s)' <=> Passed(s) \/ s = stage
  BY ProceedPassed
<1>2. stage' \notin {"command", "config"}
  BY OrderOnce, OrderEnds DEF Proceed
<1>3. QED BY <1>1, <1>2 DEF SInv, Held

LEMMA NextSInv == SInv /\ [Next]_vars => SInv'
<1> SUFFICES ASSUME SInv, [Next]_vars PROVE SInv'
  OBVIOUS
<1>1. CASE UNCHANGED vars
  BY <1>1 DEF vars, SInv, Passed, Held
<1>2. CASE Notify \/ AnnounceThreads \/ Construct
  <2>1. stage \notin PathOption
    BY <1>2 DEF Notify, AnnounceThreads, Construct, At, PathOption
  <2>2. QED BY <1>2, <2>1, LaterSInv DEF Notify, AnnounceThreads, Construct, At, SInv
<1>3. ASSUME NEW o \in PathOption, CheckPath(o) PROVE SInv'
  <2>1. stage = o /\ o \notin {"command", "config", "notify"}
    BY <1>3 DEF CheckPath, At, PathOption
  <2>2. QED BY <1>3, <2>1, LaterSInv DEF CheckPath, SInv
<1>4. CASE Fail
  BY <1>4, EndSInv DEF Fail
<1>5. QED BY <1>1, <1>2, <1>3, <1>4, CommandSInv, ConfigSInv DEF Next

-----------------------------------------------------------------------------
\* Whatever the command line and the config file give, a server that runs works with
\* what was asked for, and the paths it was given are the ones that were checked.
THEOREM ServesAsAsked == Spec => []ServesWhatWasAsked
<1>1. SInv => ServesWhatWasAsked
  <2> SUFFICES ASSUME SInv, Serving PROVE /\ \A o \in Option : vm[o] = Wanted(o)
                                          /\ \A o \in PathOption : checked[o] = vm[o]
    BY DEF ServesWhatWasAsked
  <2>1. Passed("command") /\ Passed("notify") /\ \A o \in PathOption : Passed(o)
    BY PassedAtServing DEF Serving, At
  <2>2. ASSUME NEW o \in Option PROVE vm[o] = Wanted(o)
    BY <2>1 DEF SInv, Held, Wanted, Option
  <2>3. QED BY <2>1, <2>2 DEF SInv
<1>2. QED BY <1>1, InitSInv, NextSInv, PTL DEF Spec
=============================================================================
