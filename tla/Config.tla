-------------------------------- MODULE Config -------------------------------
(***************************************************************************)
(* How a command gets its settings: from the YAML file named by --config,  *)
(* from its flags, from defaults (commands/config/builder.go, main.go), and*)
(* what a create makes of them: the context of its requests to a registry  *)
(* and the command line of the clean it starts (groot/async_cleaner.go).   *)
(*                                                                         *)
(* A command line is a function from the flags given to their values, a    *)
(* file one from the keys it has.  Log levels are taken without case.      *)
(***************************************************************************)
EXTENDS Integers

CONSTANTS
  Files,  \* content of the readable files, by path
  Flags   \* command lines of create

\* The flags of every command, and those of create.
GlobalFlags == {"config", "store", "level", "log", "tardis", "uidmap", "gidmap", "metron"}
CreateFlags ==
  {"limit", "insecure", "exclude", "skip", "withClean", "withoutClean", "threshold",
   "withMount", "withoutMount", "login", "cleanLog"}

\* What a string or list flag has for a value when it is not given.
FlagDefaults ==
  [config |-> "", store |-> "/var/lib/grootfs", level |-> "fatal", log |-> "",
   tardis |-> "tardis", uidmap |-> "newuidmap", gidmap |-> "newgidmap", metron |-> "",
   insecure |-> {}, login |-> "", cleanLog |-> ""]

\* config.Config with its zero values.
ZeroConfig ==
  [store |-> "", tardis |-> "", uidmap |-> "", gidmap |-> "", metron |-> "", level |-> "",
   log |-> "", exclude |-> FALSE, skip |-> FALSE, clean |-> FALSE, cleanLog |-> "",
   withoutMount |-> FALSE, limit |-> 0, insecure |-> {}, certs |-> "", threshold |-> 0]

\* Flags and keys that are given have values that are not empty.
Given(settings) ==
  \A n \in DOMAIN settings :
    /\ n \in {"config", "store", "level", "log", "tardis", "uidmap", "gidmap", "metron",
             "login", "cleanLog"} => settings[n] # ""
    /\ n = "insecure" => settings[n] # {}
    /\ n \in {"limit", "threshold"} => settings[n] \in Int
    /\ n \in {"exclude", "skip", "clean"} => settings[n] \in BOOLEAN

ASSUME ConfigAssumption ==
  /\ \A f \in Flags : DOMAIN f \subseteq GlobalFlags \cup CreateFlags /\ Given(f)
  /\ \A path \in DOMAIN Files : DOMAIN Files[path] \subseteq DOMAIN ZeroConfig /\ Given(Files[path])

IsSet(flags, n) == n \in DOMAIN flags
Value(flags, n) == IF IsSet(flags, n) THEN flags[n] ELSE FlagDefaults[n]

\* load: a file that is missing or not YAML is an error.
Loads(path) == path = "" \/ path \in DOMAIN Files

\* NewBuilder: keys that the file does not have are zero.
NewBuilder(path) ==
  [n \in DOMAIN ZeroConfig |->
     IF path # "" /\ n \in DOMAIN Files[path] THEN Files[path][n] ELSE ZeroConfig[n]]

\* WithDiskLimitSizeBytes and its like: a flag that is set wins.
Overridden(flags, n, value) == IF IsSet(flags, n) THEN flags[n] ELSE value

\* Mutant of Defaulted: the file wins.
DefaultedFileFirst(flags, n, value) == IF value = "" THEN Value(flags, n) ELSE value

\* WithStorePath and its like: the flag, which has a default, also fills in
\* for a value the file does not give.
Defaulted(flags, n, value) ==
  IF IsSet(flags, n) \/ value = "" THEN Value(flags, n) ELSE value

\* WithLogFile and its like: an empty flag is no flag.
NonEmpty(flags, n, value) == IF Value(flags, n) = "" THEN value ELSE Value(flags, n)
WithMetronEndpoint(flags, value) == NonEmpty(flags, "metron", value)

\* Mutant of WithInsecureRegistries: the file's list wins.
WithInsecureRegistriesFileFirst(flags, value) ==
  IF value = {} THEN Value(flags, "insecure") ELSE value

\* An empty list is no list; the two lists are not merged.
WithInsecureRegistries(flags, value) ==
  IF Value(flags, "insecure") = {} THEN value ELSE Value(flags, "insecure")

\* WithClean, WithMount: the negative flag is looked at last.
Paired(on, off, value) == ~off /\ (on \/ value)

\* Mutant of Build: a negative limit is accepted.
BuildUnchecked(c) == c.threshold >= 0

\* Builder.Build
Build(c) == c.limit >= 0 /\ c.threshold >= 0

\* main's Before: the flags that every command has.
Before(flags) ==
  LET c == NewBuilder(Value(flags, "config"))
  IN [n \in DOMAIN c |->
        CASE n \in {"store", "tardis", "uidmap", "gidmap"} -> Defaulted(flags, n, c[n])
          [] n = "metron" -> WithMetronEndpoint(flags, c[n])
          [] n = "log" -> NonEmpty(flags, n, c[n])
          [] n = "level" -> Overridden(flags, n, c[n])
          [] OTHER -> c[n]]

\* CreateCommand.Action: the flags of create.
WithCreateFlags(c, flags) ==
  [n \in DOMAIN c |->
     CASE n \in {"limit", "exclude", "skip", "threshold"} -> Overridden(flags, n, c[n])
       [] n = "insecure" -> WithInsecureRegistries(flags, c[n])
       [] n = "cleanLog" -> NonEmpty(flags, n, c[n])
       [] n = "clean" -> Paired(IsSet(flags, "withClean"), IsSet(flags, "withoutClean"), c[n])
       [] n = "withoutMount" ->
            ~Paired(IsSet(flags, "withMount"), IsSet(flags, "withoutMount"), ~c[n])
       [] OTHER -> c[n]]

\* validateOptions
ValidOptions(flags) == ~(IsSet(flags, "withClean") /\ IsSet(flags, "withoutClean"))

\* A create goes on after the builds in main and in its action, on the file's
\* values and on all of them.
Accepted(flags) ==
  /\ Loads(Value(flags, "config"))
  /\ Build(Before(flags))
  /\ Build(WithCreateFlags(Before(flags), flags))
  /\ ValidOptions(flags)

Settings(flags) == WithCreateFlags(Before(flags), flags)

\* CleanCommand.Action: clean has one flag of its own.
CleanSettings(flags) ==
  [Before(flags) EXCEPT !.threshold = Overridden(flags, "threshold", @)]

TranslateLogLevel(level) == IF level \in {"debug", "info", "error"} THEN level ELSE "fatal"

\* Where a command logs, and from which level on.
ConfigureLogger(c) ==
  LET level == TranslateLogLevel(c.level)
  IN IF c.log = "" THEN [sink |-> "stderr", level |-> level]
     ELSE [sink |-> c.log, level |-> IF level = "fatal" THEN "info" ELSE level]

------------------------------------------------------------------------------

\* Mutant of SkipTLSValidation: any list will do.
SkipTLSValidationAny(host, registries) == registries # {}

SkipTLSValidation(host, registries) == host \in registries

\* createSystemContext
CreateSystemContext(scheme, host, c, login) ==
  [skipTLS |-> scheme = "docker" /\ SkipTLSValidation(host, c.insecure),
   login |-> IF scheme = "docker" THEN login ELSE "",
   certs |-> IF scheme = "oci" THEN c.certs ELSE ""]

\* Mutant of CleanArgs: the clean logs where the create does.
CleanArgsSameLog(c) ==
  [n \in {n \in GlobalFlags \ {"config"} : c[n] # ""} \cup {"threshold"} |-> c[n]]

\* asyncCleaner.Clean: the settings of the create, the empty ones left out,
\* as flags of a clean that is not told of the create's configuration file.
CleanArgs(c) ==
  LET passed == [c EXCEPT !.log = c.cleanLog]
  IN [n \in {n \in GlobalFlags \ {"config"} : passed[n] # ""} \cup {"threshold"} |-> passed[n]]
==============================================================================
