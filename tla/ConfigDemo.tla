------------------------------ MODULE ConfigDemo ------------------------------
(***************************************************************************)
(* src/linux-c/config-demo: config_load fills a configuration from the     *)
(* built-in defaults, a file, the environment and the command line, the    *)
(* later source overriding the earlier one.  The file is to be known       *)
(* before the command line is parsed, so that this is scanned twice.       *)
(*                                                                         *)
(* A source is a function from the settings it has to their values, argv a *)
(* sequence of words, a file the source that its lines make up.            *)
(***************************************************************************)
EXTENDS Integers, SequencesExt

CONSTANTS Words,         \* the words of a command line
          MaxWords,      \* bound on their number
          Environments,  \* environments the program may find
          Contents,      \* per file name: its settings
          FileSystems    \* sets of files that may exist

Settings == {"address", "port", "log_level", "debug", "config_file"}

\* uint16_t port.
PortSize == 65536
Ports == 0 .. PortSize - 1

\* CONFIG_DEFAULT_CONFIG_FILE and, under HOME, CONFIG_USER_CONFIG_FILE.
DefaultFile == "/etc/config-demo.conf"
UserFile == "~/.config/config-demo.conf"

\* "none" stands for NULL and is the name of no file; atoi gives an integer.
ASSUME ConfigAssumption ==
  /\ MaxWords \in Nat
  /\ \A e \in Environments : DOMAIN e \subseteq Settings
  /\ {DefaultFile, UserFile} \subseteq DOMAIN Contents
  /\ \A f \in DOMAIN Contents : DOMAIN Contents[f] \subseteq Settings \ {"config_file"}
  /\ \A fs \in FileSystems : fs \subseteq DOMAIN Contents
  /\ \A source \in Environments \cup {Contents[f] : f \in DOMAIN Contents} :
       "port" \in DOMAIN source => source.port \in Int
  /\ "none" \notin Words \cup DOMAIN Contents

VARIABLES
  argv, env, files,   \* what the program finds
  cfg,                \* the configuration
  loaded,             \* the file that was read, or "none"
  optind,             \* the word that getopt_long looks at next
  next                \* the next call of config_load, or how it ended

inputs == <<argv, env, files>>
vars == <<inputs, cfg, loaded, optind, next>>

Unset == [address |-> "none", port |-> 0, log_level |-> 0, debug |-> FALSE,
          config_file |-> "none"]

Init ==
  /\ argv \in UNION {[1 .. n -> Words] : n \in 0 .. MaxWords}
  /\ env \in Environments
  /\ files \in FileSystems
  /\ cfg = Unset
  /\ loaded = "none"
  /\ optind = 1
  /\ next = "defaults"

Call(this, following) == next = this /\ next' = following /\ UNCHANGED <<inputs, optind>>

-------------------------------------------------------------------------------
(* The sources.                                                            *)

Defaults == [address |-> "localhost", port |-> 8080, log_level |-> 3]

apply_defaults ==
  /\ Call("defaults", "prescan")
  /\ cfg' = [s \in Settings |-> IF s \in DOMAIN Defaults /\ cfg[s] = Unset[s]
                                THEN Defaults[s] ELSE cfg[s]]
  /\ UNCHANGED loaded

\* Mutant: the port is not cut to its width.
Unbounded(s, v) == IF s = "debug" THEN v \in {"1", "true"} ELSE v

\* (uint16_t)atoi, and the words for true.
Convert(s, v) == CASE s = "port" -> v % PortSize
                   [] s = "debug" -> v \in {"1", "true"}
                   [] OTHER -> v

\* The configuration c with the settings of a source.
Override(c, source) ==
  [s \in Settings |-> IF s \in DOMAIN source THEN Convert(s, source[s]) ELSE c[s]]

\* Mutant: a value that is there stays.
FillsIn(c, source) ==
  [s \in Settings |-> IF s \in DOMAIN source /\ c[s] = Unset[s]
                      THEN Convert(s, source[s]) ELSE c[s]]

\* The environment does not look at what is there.
FromEnvironment(c, source) == Override(c, source)

apply_env_config ==
  /\ Call("env", "cli")
  /\ cfg' = FromEnvironment(cfg, env)
  /\ UNCHANGED loaded

\* find_config_file: the one that was asked for, existing or not, or the first that
\* exists of the two well-known ones.
ConfigFile ==
  CASE cfg.config_file # "none" -> cfg.config_file
    [] cfg.config_file = "none" /\ DefaultFile \in files -> DefaultFile
    [] cfg.config_file = "none" /\ DefaultFile \notin files /\ UserFile \in files -> UserFile
    [] OTHER -> "none"

apply_file_config ==
  /\ Call("file", "env")
  /\ LET asked == [cfg EXCEPT !.config_file = ConfigFile]
     IN IF ConfigFile \in files
        THEN cfg' = Override(asked, Contents[ConfigFile]) /\ loaded' = ConfigFile
        ELSE cfg' = asked /\ UNCHANGED loaded

-------------------------------------------------------------------------------
(* The command line.                                                       *)

\* Positions at which the first scan sees a file name: any word after "-c".  strncmp with a
\* length of 10 looks at the NUL that ends "--config=" too, so that this word alone is a
\* hit, and --config=FILE is not.
PrescanHits == {i \in DOMAIN argv : argv[i] = "--config=" \/ (argv[i] = "-c" /\ i < Len(argv))}

\* The name it sees.  argv[i] + 10 is behind the end of "--config=": what exec has put
\* there, the next word, or the first string of the environment.
NameAt(i) == IF i < Len(argv) THEN argv[i + 1] ELSE "HOME=~"

\* The last one wins.
Hit == Max(PrescanHits)

apply_cli_args_for_config_file ==
  /\ Call("prescan", "file")
  /\ cfg' = IF PrescanHits = {} THEN cfg ELSE [cfg EXCEPT !.config_file = NameAt(Hit)]
  /\ UNCHANGED loaded

\* The options that take the next word: "s:p:l:dch" and long_options.
TakesWord == [w \in {"-s", "-p", "-l", "--config"} |->
                CASE w = "-s" -> "address" [] w = "-p" -> "port"
                  [] w = "-l" -> "log_level" [] w = "--config" -> "config_file"]

\* The options that do not.  "-c" has no argument in the option string: optarg is NULL.
Flags == [w \in {"-c", "-d", "--config=a.conf", "--config="} |->
            CASE w = "-d" -> [debug |-> "1"]
              [] w = "-c" -> [config_file |-> "none"]
              [] w = "--config=a.conf" -> [config_file |-> "a.conf"]
              [] w = "--config=" -> [config_file |-> ""]]

\* atoi of a word that is a number.
Numbers == [w \in {"2", "70000"} |-> IF w = "2" THEN 2 ELSE 70000]
Number(w) == IF w \in DOMAIN Numbers THEN Numbers[w] ELSE 0

\* An option's own word, as a source.
Argument(s, w) == [x \in {s} |-> IF s \in {"port", "log_level"} THEN Number(w) ELSE w]

\* getopt_long steps over n words, which are the given source.
Scanned(n, source) ==
  /\ optind' = optind + n
  /\ cfg' = Override(cfg, source)
  /\ UNCHANGED next

Nothing == [s \in {} |-> "none"]

\* One iteration of the loop: what is no option, or lacks its word, is stepped over;
\* -h prints the usage and ends the program.
apply_cli_args ==
  /\ next = "cli"
  /\ IF optind > Len(argv)
     THEN next' = "print" /\ UNCHANGED <<cfg, optind>>
     ELSE LET w == argv[optind]
          IN \/ /\ w \in DOMAIN TakesWord /\ optind < Len(argv)
                /\ Scanned(2, Argument(TakesWord[w], argv[optind + 1]))
             \/ w \in DOMAIN Flags /\ Scanned(1, Flags[w])
             \/ w = "-h" /\ next' = "exit" /\ UNCHANGED <<cfg, optind>>
             \/ /\ w \notin DOMAIN Flags \cup {"-h"}
                /\ w \in DOMAIN TakesWord => optind = Len(argv)
                /\ Scanned(1, Nothing)
  /\ UNCHANGED <<inputs, loaded>>

\* config_print and config_destroy.
Finish ==
  /\ Call("print", "exit")
  /\ cfg' = Unset
  /\ UNCHANGED loaded

config_load == \/ apply_defaults \/ apply_cli_args_for_config_file \/ apply_file_config
               \/ apply_env_config \/ apply_cli_args

Next == config_load \/ Finish

Spec == Init /\ [][Next]_vars

-------------------------------------------------------------------------------
(* Properties.                                                             *)

TypeOK ==
  /\ DOMAIN cfg = Settings
  /\ cfg.port \in Ports
  /\ cfg.debug \in BOOLEAN
  /\ loaded \in DOMAIN Contents \cup {"none"}
  /\ optind \in 1 .. Len(argv) + 1
  /\ next \in {"defaults", "prescan", "file", "env", "cli", "print", "exit"}

\* Does the command line give every option its own word?  Otherwise the two scans may
\* read it differently.
WellFormed ==
  /\ \A i \in DOMAIN argv : argv[i] # "--config="
  /\ \A i \in DOMAIN argv : argv[i] \in DOMAIN TakesWord \cup {"-c"} =>
       /\ i < Len(argv)
       /\ argv[i + 1] \notin DOMAIN TakesWord \cup DOMAIN Flags \cup {"-h"}

\* What a source that gives setting s says, as a set of at most one value.
Says(source, s) == IF s \in DOMAIN source THEN {Convert(s, source[s])} ELSE {}

\* What the first n words say, the last time they do.
FirstWordsSay(s, n) ==
  LET at == {i \in 1 .. n : argv[i] \in DOMAIN TakesWord /\ TakesWord[argv[i]] = s}
  IN CASE s = "debug" -> {TRUE : i \in {i \in 1 .. n : argv[i] = "-d"}}
       [] s # "debug" /\ at = {} -> {}
       [] s # "debug" /\ at # {} -> Says(Argument(s, argv[Max(at) + 1]), s)

InFile(s) == IF loaded = "none" THEN {} ELSE Says(Contents[loaded], s)

\* "CLI Options > Environment Variables > Config Files > Built-in Defaults": each setting
\* has its value from the first of the four that gives it, whatever else is set.
PriorityOrder ==
  next = "print" /\ WellFormed =>
    \A s \in Settings \ {"config_file"} :
      LET cli == FirstWordsSay(s, Len(argv))
          environment == Says(env, s)
          default == IF s = "debug" THEN FALSE ELSE Defaults[s]
      IN cfg[s] \in CASE cli # {} -> cli
                      [] cli = {} /\ environment # {} -> environment
                      [] cli = {} /\ environment = {} /\ InFile(s) # {} -> InFile(s)
                      [] OTHER -> {default}

\* The file that is read is the last one that the command line asks for with -c FILE, and
\* no other one instead of it; without one a well-known one.
AskedFileIsRead ==
  next = "print" /\ WellFormed =>
    LET asked == {i \in DOMAIN argv : argv[i] = "-c"}
        file == argv[Max(asked) + 1]
    IN IF asked = {} THEN loaded \in {DefaultFile, UserFile, "none"}
       ELSE loaded = IF file \in files THEN file ELSE "none"

\* The option table of the README, and the usage, for the file itself: -c FILE, --config
\* FILE or --config=FILE on the command line before CONFIG_DEMO_CONFIG; the file it names
\* is the one that is read and shown.
FileOptionHonoured ==
  next = "print" /\ WellFormed =>
    LET asked == {i \in DOMAIN argv : argv[i] \in {"-c", "--config", "--config=a.conf"}}
        file == CASE asked # {} /\ argv[Max(asked)] = "--config=a.conf" -> "a.conf"
                  [] asked # {} /\ argv[Max(asked)] # "--config=a.conf" -> argv[Max(asked) + 1]
                  [] asked = {} /\ "config_file" \in DOMAIN env -> env.config_file
                  [] OTHER -> "none"
    IN file \in files => loaded = file /\ cfg.config_file = file
===============================================================================
