------------------------------ MODULE StartUp ------------------------------
(***************************************************************************)
(* main.cpp: from the command line and ./CONFIG.txt to a server that runs. *)
(*                                                                         *)
(* The value of an option is known by where it came from.  Whether a path  *)
(* exists, and as what, is found out when it is looked at.                 *)
(***************************************************************************)
EXTENDS Naturals, Sequences

VARIABLES
    stage,      \* what start-up does next, "serving", or how the process ended
    command,    \* the options the command line gives
    config,     \* those ./CONFIG.txt gives
    vm,         \* the variables_map: "none", or where the value of each option
                \* comes from, "default", "command" or "config"
    checked,    \* which value of a path was found to exist and to be of its kind
    announced   \* the options said to be "set to default value"

vars == <<stage, command, config, vm, checked, announced>>

Required   == {"address", "service"}
PathOption == {"backup-root", "credentials-file", "logger-file"}
Defaulted  == PathOption \cup {"threads"}
Option     == Required \cup Defaulted

\* A mutant: the paths are checked before the file is read.
OrderPathsFirst == <<"command", "backup-root", "credentials-file", "logger-file", "config",
                     "notify", "threads", "server", "serving">>

Order == <<"command", "config", "notify", "backup-root", "credentials-file", "logger-file",
           "threads", "server", "serving">>

Over   == {"serving", "helped", "failed"}

Init ==
    /\ stage = "command"
    /\ command = {} /\ config = {}
    /\ vm = [o \in Option |-> "none"]
    /\ checked = [o \in PathOption |-> "none"]
    /\ announced = {}

-----------------------------------------------------------------------------
WithDefaults(map) ==
    [o \in Option |-> IF map[o] = "none" /\ o \in Defaulted THEN "default" ELSE map[o]]

\* po::store keeps what an earlier call has stored, unless it is a default.
Store(map, given, source) ==
    WithDefaults([o \in Option |->
        IF o \in given /\ map[o] \in {"none", "default"} THEN source ELSE map[o]])

At(s)   == stage = s
Proceed == \E i \in 1 .. Len(Order) - 1 : stage = Order[i] /\ stage' = Order[i + 1]

\* An exception that parse_options or main catches, or std::exit(EXIT_FAILURE): an
\* option that is unknown or has no value, no config file, a path that is not there
\* or of the wrong kind, an address in use, no certificate.
Fail ==
    /\ stage \notin Over
    /\ stage' = "failed"
    /\ UNCHANGED <<command, config, vm, checked, announced>>

\* parse_command_line, and --help
ReadCommandLine ==
    /\ At("command")
    /\ command' \in SUBSET Option
    /\ vm' = Store(vm, command', "command")
    /\ Proceed \/ stage' = "helped"
    /\ UNCHANGED <<config, checked, announced>>

ReadConfigFile ==
    /\ At("config")
    /\ config' \in SUBSET Option
    /\ vm' = Store(vm, config', "config")
    /\ Proceed
    /\ UNCHANGED <<command, checked, announced>>

\* po::notify throws if a required option is missing.
Notify ==
    /\ At("notify") /\ \A o \in Required : vm[o] # "none"
    /\ Proceed
    /\ UNCHANGED <<command, config, vm, checked, announced>>

\* The option that is asked about before the message for o.
AskedFor(o) == IF o = "logger-file" THEN "credentials-file" ELSE o

Announce(o) ==
    announced' = IF vm[AskedFor(o)] = "default" THEN announced \cup {o} ELSE announced

\* canonical, is_directory or is_regular_file, and the message
CheckPath(o) ==
    /\ At(o)
    /\ checked' = [checked EXCEPT ![o] = vm[o]]
    /\ Announce(o)
    /\ Proceed
    /\ UNCHANGED <<command, config, vm>>

AnnounceThreads ==
    /\ At("threads")
    /\ Announce("threads")
    /\ Proceed
    /\ UNCHANGED <<command, config, vm, checked>>

\* The constructor of server, and run
Construct ==
    /\ At("server")
    /\ Proceed
    /\ UNCHANGED <<command, config, vm, checked, announced>>

Next ==
    \/ ReadCommandLine \/ ReadConfigFile \/ Notify \/ AnnounceThreads \/ Construct \/ Fail
    \/ \E o \in PathOption : CheckPath(o)

Spec == Init /\ [][Next]_vars

-----------------------------------------------------------------------------
(***************************************************************************)
(* Properties.                                                             *)
(***************************************************************************)
Serving == At("serving")

\* What the command line gives is what is wanted, the config file is next, and a default
\* where both are silent.
Wanted(o) ==
    IF o \in command THEN "command" ELSE IF o \in config THEN "config" ELSE "default"

\* The server works with what is wanted, and its paths are the ones that were checked:
\* nothing read later replaces one.
ServesWhatWasAsked ==
    Serving => /\ \A o \in Option : vm[o] = Wanted(o)
               /\ \A o \in PathOption : checked[o] = vm[o]

\* A path is said to be "set to default value" if that is what it is.
DefaultsAnnounced ==
    Serving => \A o \in Defaulted : o \in announced <=> vm[o] = "default"
=============================================================================
