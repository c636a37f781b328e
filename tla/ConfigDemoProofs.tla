--------------------------- MODULE ConfigDemoProofs ---------------------------
(***************************************************************************)
(* Proofs about ConfigDemo, for every set of words, every length of the    *)
(* command line and every environment and file system: each setting comes  *)
(* from the first source that gives it (PriorityOrder), and the file that  *)
(* -c FILE asks for is the one that is read (AskedFileIsRead).             *)
(*                                                                         *)
(* The argument follows the calls of config_load: before each of them the  *)
(* settings are those of the sources applied so far, and while the options *)
(* are parsed, those of the first optind - 1 words on top of them.  What   *)
(* the last word of a kind is has to be defined at all (HasMax) and        *)
(* changes by one option at a time (OptionSays, OthersSay).                *)
(***************************************************************************)
EXTENDS ConfigDemo, WellFoundedInduction, TLAPS

Plain == Settings \ {"config_file"}

\* What the program finds when it starts.
Inputs == argv \in Seq(Words) /\ env \in Environments /\ files \in FileSystems

\* The values that a setting may have after each source: those of the source if it
\* gives any, otherwise those of before.
OrElse(S, T) == IF S # {} THEN S ELSE T

BuiltIn(s) == {IF s = "debug" THEN FALSE ELSE Defaults[s]}
WithFile(s) == OrElse(InFile(s), BuiltIn(s))
WithEnv(s) == OrElse(Says(env, s), WithFile(s))
WithWords(s, n) == OrElse(FirstWordsSay(s, n), WithEnv(s))

\* The file that the first scan finds, and the one that is looked for then.
AskedFor == IF PrescanHits = {} THEN "none" ELSE NameAt(Hit)
LookedFor == CASE AskedFor # "none" -> AskedFor
               [] AskedFor = "none" /\ DefaultFile \in files -> DefaultFile
               [] AskedFor = "none" /\ DefaultFile \notin files /\ UserFile \in files -> UserFile
               [] OTHER -> "none"

\* The words are parsed last.
Parsing == /\ next \in {"defaults", "prescan", "file", "env"} => optind = 1
           /\ next = "print" => optind = Len(argv) + 1

\* The file, before and after it is read.
FileRead ==
  /\ next \in {"defaults", "prescan", "file"} => loaded = "none"
  /\ next \in {"defaults", "prescan"} => cfg.config_file = "none"
  /\ next = "file" => cfg.config_file = AskedFor
  /\ next \in {"env", "cli", "print"} =>
       loaded = IF LookedFor \in files THEN LookedFor ELSE "none"

\* The other settings.
Applied ==
  /\ next = "defaults" => cfg = Unset
  /\ \A s \in Plain :
       /\ next \in {"prescan", "file"} => cfg[s] \in BuiltIn(s)
       /\ next = "env" => cfg[s] \in WithFile(s)
       /\ next \in {"cli", "print"} /\ WellFormed => cfg[s] \in WithWords(s, optind - 1)

ConfigInv == Inputs /\ TypeOK /\ Parsing /\ FileRead /\ Applied

-------------------------------------------------------------------------------
(* The last of a set of positions.                                         *)

\* A set of positions that is not empty has a last one: of the numbers that none of the
\* positions exceeds, the least one is itself a position.
LEMMA HasMax ==
  ASSUME NEW n \in Nat, NEW S \in SUBSET (1 .. n), S # {}
  PROVE  \E m \in S : \A k \in S : m >= k
<1> DEFINE R == OpToRel(<, Nat)
           T == {k \in Nat : \A j \in S : j <= k}
<1>1. n \in T
  OBVIOUS
<1>2. PICK m \in T : \A k \in T : ~(<<k, m>> \in R)
  BY <1>1, NatLessThanWellFounded, WFMin
<1>3. \A k \in T : m <= k
  <2>1. \A a, b \in Nat : <<a, b>> \in R <=> a < b
    BY DEF OpToRel
  <2>2. \A k \in T : ~(k < m)
    BY <1>2, <2>1
  <2> QED BY <2>2
<1>4. m \in S
  <2> SUFFICES ASSUME m \notin S PROVE FALSE
    OBVIOUS
  <2>1. m \in Nat /\ \A j \in S : j \in Nat /\ j >= 1 /\ j <= m /\ j # m
    OBVIOUS
  <2>2. m - 1 \in Nat /\ \A j \in S : j <= m - 1
    <3> PICK i \in S : TRUE
      OBVIOUS
    <3> QED BY <2>1
  <2>3. m - 1 \in T
    BY <2>2
  <2> QED BY <2>3, <1>3
<1> QED BY <1>4

LEMMA MaxIsLast ==
  ASSUME NEW n \in Nat, NEW S \in SUBSET (1 .. n), S # {}
  PROVE  Max(S) \in S /\ \A k \in S : Max(S) >= k
BY HasMax DEF Max

\* A position that no other one exceeds is the last.
LEMMA LastIsMax ==
  ASSUME NEW n \in Nat, NEW S \in SUBSET (1 .. n), NEW m \in S, \A k \in S : m >= k
  PROVE  Max(S) = m
<1> DEFINE last == Max(S)
<1>1. last \in S /\ \A k \in S : last >= k
  BY MaxIsLast
<1> HIDE DEF last
<1>2. last >= m /\ m >= last /\ last \in Nat /\ m \in Nat
  BY <1>1
<1>3. last = m
  BY <1>2
<1> QED BY <1>3 DEF last

-------------------------------------------------------------------------------
(* What one more option says.                                              *)

LEMMA ArgvShape ==
  ASSUME argv \in Seq(Words)
  PROVE  /\ Len(argv) \in Nat /\ DOMAIN argv = 1 .. Len(argv)
         /\ \A i \in DOMAIN argv : argv[i] \in Words
OBVIOUS

\* The positions of the options for setting s among the first n words.
OptionsFor(s, n) == {i \in 1 .. n : argv[i] \in DOMAIN TakesWord /\ TakesWord[argv[i]] = s}
Debugs(n) == {i \in 1 .. n : argv[i] = "-d"}

LEMMA TakesWordRange ==
  \A w \in DOMAIN TakesWord : TakesWord[w] \in {"address", "port", "log_level", "config_file"}
BY DEF TakesWord

\* Words that are no option for s add nothing to what is said of it.
LEMMA NothingMoreSaid ==
  ASSUME NEW s \in Plain, NEW m \in Nat, NEW n \in Nat, m <= n,
         \A i \in m + 1 .. n : /\ argv[i] \in DOMAIN TakesWord => TakesWord[argv[i]] # s
                               /\ s = "debug" => argv[i] # "-d"
  PROVE  FirstWordsSay(s, n) = FirstWordsSay(s, m)
<1>1. OptionsFor(s, n) = OptionsFor(s, m)
  BY DEF OptionsFor
<1>2. s = "debug" => Debugs(n) = Debugs(m)
  BY DEF Debugs
<1>3. CASE s = "debug"
  <2>1. \A k : FirstWordsSay(s, k) = {TRUE : i \in Debugs(k)}
    BY <1>3 DEF FirstWordsSay, Debugs
  <2> QED BY <2>1, <1>2, <1>3
<1>4. CASE s # "debug"
  <2>1. \A k : FirstWordsSay(s, k) = IF OptionsFor(s, k) = {} THEN {}
                              ELSE Says(Argument(s, argv[Max(OptionsFor(s, k)) + 1]), s)
    BY <1>4 DEF FirstWordsSay, OptionsFor
  <2> QED BY <2>1, <1>1
<1> QED BY <1>3, <1>4

\* An option for s, and its word, is the last one that says something of it.
LEMMA OptionSays ==
  ASSUME NEW n \in Nat \ {0}, argv[n] \in DOMAIN TakesWord,
         argv[n + 1] \notin DOMAIN TakesWord
  PROVE  LET s == TakesWord[argv[n]]
         IN FirstWordsSay(s, n + 1) = Says(Argument(s, argv[n + 1]), s)
<1> DEFINE s == TakesWord[argv[n]]
<1> HIDE DEF s
<1>1. /\ n + 1 \in Nat /\ OptionsFor(s, n + 1) \in SUBSET (1 .. n + 1)
      /\ n \in OptionsFor(s, n + 1)
  BY DEF s, OptionsFor
<1>2. \A k \in OptionsFor(s, n + 1) : n >= k
  BY DEF OptionsFor
<1>3. Max(OptionsFor(s, n + 1)) = n
  BY <1>1, <1>2, LastIsMax
<1>4. s # "debug"
  BY TakesWordRange DEF s
<1> QED BY <1>1, <1>3, <1>4 DEF s, FirstWordsSay, OptionsFor

\* So does -d.
LEMMA DebugSays ==
  ASSUME NEW n \in Nat \ {0}, argv[n] = "-d"
  PROVE  FirstWordsSay("debug", n) = {TRUE}
<1>1. n \in Debugs(n)
  BY DEF Debugs
<1>2. FirstWordsSay("debug", n) = {TRUE : i \in Debugs(n)}
  BY DEF FirstWordsSay, Debugs
<1> QED BY <1>1, <1>2

-------------------------------------------------------------------------------
(* The steps.                                                              *)

\* The three variables of a configuration that TypeOK looks at.
Configuration(c) == DOMAIN c = Settings /\ c.port \in Ports /\ c.debug \in BOOLEAN

LEMMA PortFits == 0 \in Ports /\ 8080 \in Ports /\ \A n \in Int : n % PortSize \in Ports
<1>1. PortSize \in Nat /\ 8080 < PortSize
  BY DEF PortSize
<1> QED BY <1>1 DEF Ports

\* Whatever number a source has for the port, it is cut to its width.
LEMMA OverrideTypes ==
  ASSUME NEW c, Configuration(c), NEW source, "port" \in DOMAIN source => source.port \in Int
  PROVE  Configuration(Override(c, source))
<1> DEFINE d == Override(c, source)
<1>1. /\ DOMAIN d = Settings
      /\ \A s \in Settings : d[s] = IF s \in DOMAIN source THEN Convert(s, source[s]) ELSE c[s]
  BY DEF Override
<1>2. {"port", "debug"} \subseteq Settings
  BY DEF Settings
<1> HIDE DEF d
<1>3. d.port \in Ports
  <2>1. CASE "port" \in DOMAIN source
    <3>1. d.port = source.port % PortSize
      BY <1>1, <1>2, <2>1 DEF Convert
    <3>2. source.port \in Int
      BY <2>1
    <3> QED BY <3>1, <3>2, PortFits
  <2>2. CASE "port" \notin DOMAIN source
    BY <1>1, <1>2, <2>2 DEF Configuration
  <2> QED BY <2>1, <2>2
<1>4. d.debug \in BOOLEAN
  <2>1. CASE "debug" \in DOMAIN source
    <3>1. d.debug = Convert("debug", source["debug"])
      BY <1>1, <1>2, <2>1
    <3>2. Convert("debug", source["debug"]) \in BOOLEAN
      BY DEF Convert
    <3> QED BY <3>1, <3>2
  <2>2. CASE "debug" \notin DOMAIN source
    BY <1>1, <1>2, <2>2 DEF Configuration
  <2> QED BY <2>1, <2>2
<1> QED BY <1>1, <1>3, <1>4 DEF d, Configuration

\* What the program found stays; what is said of a setting changes only with the file.
LEMMA SourcesKept ==
  ASSUME UNCHANGED inputs
  PROVE  /\ WellFormed' = WellFormed
         /\ \A s \in Plain : \A n \in Nat : FirstWordsSay(s, n)' = FirstWordsSay(s, n)
         /\ AskedFor' = AskedFor /\ LookedFor' = LookedFor
BY DEF inputs, WellFormed, FirstWordsSay, AskedFor, LookedFor, PrescanHits, NameAt, Hit

LEMMA InputsKept == [Next]_vars => UNCHANGED inputs
BY DEF Next, config_load, vars, apply_defaults, apply_cli_args_for_config_file,
       apply_file_config, apply_env_config, apply_cli_args, Finish, Call

\* In every source that is there the port is a number.
LEMMA PortIsNumber ==
  /\ \A e \in Environments : "port" \in DOMAIN e => e.port \in Int
  /\ \A f \in DOMAIN Contents : "port" \in DOMAIN Contents[f] => Contents[f].port \in Int
  /\ \A s \in Settings, w \in Words :
       "port" \in DOMAIN Argument(s, w) => Argument(s, w).port \in Int
  /\ \A w \in DOMAIN Flags : "port" \notin DOMAIN Flags[w]
  /\ "port" \notin DOMAIN Nothing
<1>1. \A w : Number(w) \in Int
  BY DEF Number, Numbers
<1>2. \A s \in Settings, w \in Words :
        "port" \in DOMAIN Argument(s, w) => Argument(s, w).port \in Int
  BY <1>1 DEF Argument
<1>3. \A w \in DOMAIN Flags : "port" \notin DOMAIN Flags[w]
  BY DEF Flags
<1>4. "port" \notin DOMAIN Nothing
  BY DEF Nothing
<1> QED BY <1>2, <1>3, <1>4, ConfigAssumption

\* What one iteration of the loop over the options may do.
LEMMA IterationTypes ==
  ASSUME Inputs, TypeOK, apply_cli_args
  PROVE  TypeOK'
<1>1. Configuration(cfg)
  BY DEF TypeOK, Configuration
<1>2. UNCHANGED <<argv, loaded>> /\ Len(argv) \in Nat /\ optind \in 1 .. Len(argv) + 1
  BY DEF apply_cli_args, inputs, Inputs, TypeOK
<1>3. CASE optind > Len(argv)
  BY <1>3, <1>2 DEF apply_cli_args, TypeOK
<1>4. CASE optind <= Len(argv)
  <2> DEFINE w == argv[optind]
  <2>1. ASSUME w \in DOMAIN TakesWord, optind < Len(argv),
               Scanned(2, Argument(TakesWord[w], argv[optind + 1]))
        PROVE  TypeOK'
    <3>1. argv[optind + 1] \in Words /\ TakesWord[w] \in Settings
      BY <1>2, <2>1, TakesWordRange DEF Inputs, Settings
    <3>2. Configuration(cfg')
      BY <1>1, <2>1, <3>1, PortIsNumber, OverrideTypes DEF Scanned
    <3> QED BY <1>2, <2>1, <3>2 DEF Scanned, TypeOK, Configuration
  <2>2. ASSUME w \in DOMAIN Flags, Scanned(1, Flags[w]) PROVE TypeOK'
    <3>1. Configuration(cfg')
      BY <1>1, <2>2, PortIsNumber, OverrideTypes DEF Scanned
    <3> QED BY <1>2, <1>4, <2>2, <3>1 DEF Scanned, TypeOK, Configuration
  <2>3. ASSUME Scanned(1, Nothing) PROVE TypeOK'
    <3>1. Configuration(cfg')
      BY <1>1, <2>3, PortIsNumber, OverrideTypes DEF Scanned
    <3> QED BY <1>2, <1>4, <2>3, <3>1 DEF Scanned, TypeOK, Configuration
  <2>4. ASSUME next' = "exit", UNCHANGED <<cfg, optind>> PROVE TypeOK'
    BY <1>2, <2>4 DEF TypeOK
  <2> QED BY <1>2, <1>4, <2>1, <2>2, <2>3, <2>4 DEF apply_cli_args
<1> QED BY <1>2, <1>3, <1>4

LEMMA TypesPreserved ==
  ASSUME Inputs, TypeOK, [Next]_vars
  PROVE  TypeOK'
<1>1. Configuration(cfg)
  BY DEF TypeOK, Configuration
<1>2. UNCHANGED argv
  BY InputsKept DEF inputs
<1>3. ASSUME apply_defaults PROVE TypeOK'
  <2>1. Configuration(cfg')
    BY <1>1, <1>3, PortFits DEF apply_defaults, Defaults, Configuration, Settings
  <2> QED BY <1>2, <1>3, <2>1 DEF apply_defaults, Call, TypeOK, Configuration
<1>4. ASSUME apply_cli_args_for_config_file PROVE TypeOK'
  <2>1. Configuration(cfg')
    BY <1>1, <1>4 DEF apply_cli_args_for_config_file, Configuration, Settings
  <2> QED BY <1>2, <1>4, <2>1 DEF apply_cli_args_for_config_file, Call, TypeOK, Configuration
<1>5. ASSUME apply_file_config PROVE TypeOK'
  <2> DEFINE asked == [cfg EXCEPT !.config_file = ConfigFile]
  <2>1. Configuration(asked)
    BY <1>1 DEF Configuration, Settings
  <2>2. CASE ConfigFile \in files
    <3>1. ConfigFile \in DOMAIN Contents
      BY <2>2, ConfigAssumption DEF Inputs
    <3>2. cfg' = Override(asked, Contents[ConfigFile]) /\ loaded' = ConfigFile
      BY <1>5, <2>2 DEF apply_file_config
    <3>3. Configuration(cfg')
      BY <2>1, <3>1, <3>2, PortIsNumber, OverrideTypes
    <3> QED BY <1>2, <1>5, <3>1, <3>2, <3>3 DEF apply_file_config, Call, TypeOK, Configuration
  <2>3. CASE ConfigFile \notin files
    <3>1. Configuration(cfg') /\ loaded' = loaded
      BY <1>5, <2>1, <2>3 DEF apply_file_config
    <3> QED BY <1>2, <1>5, <3>1 DEF apply_file_config, Call, TypeOK, Configuration
  <2> QED BY <2>2, <2>3
<1>6. ASSUME apply_env_config PROVE TypeOK'
  <2>1. Configuration(cfg')
    BY <1>1, <1>6, PortIsNumber, OverrideTypes DEF apply_env_config, FromEnvironment, Inputs
  <2> QED BY <1>2, <1>6, <2>1 DEF apply_env_config, Call, TypeOK, Configuration
<1>7. ASSUME Finish PROVE TypeOK'
  <2>1. Configuration(cfg')
    BY <1>7, PortFits DEF Finish, Unset, Configuration, Settings
  <2> QED BY <1>2, <1>7, <2>1 DEF Finish, Call, TypeOK, Configuration
<1>8. CASE UNCHANGED vars
  BY <1>8 DEF vars, inputs, TypeOK
<1> QED BY <1>3, <1>4, <1>5, <1>6, <1>7, <1>8, IterationTypes DEF Next, config_load

\* The command line is left alone until it is parsed, and parsed to its end.
LEMMA ParsingPreserved ==
  ASSUME Inputs, TypeOK, Parsing, [Next]_vars
  PROVE  Parsing'
<1>1. UNCHANGED argv /\ Len(argv) \in Nat
  BY InputsKept DEF inputs, Inputs
<1>2. CASE apply_cli_args
  BY <1>1, <1>2 DEF apply_cli_args, Scanned, Parsing, TypeOK
<1>3. CASE ~apply_cli_args
  BY <1>1, <1>3 DEF Next, config_load, vars, apply_defaults, apply_file_config,
     apply_cli_args_for_config_file, apply_env_config, Finish, Call, Parsing
<1> QED BY <1>2, <1>3

\* The name that the first scan leaves is the one that is read.
LEMMA FileReadPreserved ==
  ASSUME Inputs, TypeOK, FileRead, [Next]_vars
  PROVE  FileRead'
<1>1. UNCHANGED inputs /\ files' = files /\ AskedFor' = AskedFor /\ LookedFor' = LookedFor
  BY InputsKept, SourcesKept DEF inputs
<1>2. "config_file" \in DOMAIN cfg /\ "config_file" \in Settings
  BY DEF TypeOK, Settings
<1>3. ASSUME apply_defaults PROVE FileRead'
  <2>1. cfg'.config_file = cfg.config_file
    BY <1>2, <1>3 DEF apply_defaults, Defaults
  <2> QED BY <1>3, <2>1 DEF apply_defaults, Call, FileRead
<1>4. ASSUME apply_cli_args_for_config_file PROVE FileRead'
  <2>1. cfg'.config_file = AskedFor
    BY <1>2, <1>4 DEF apply_cli_args_for_config_file, Call, FileRead, AskedFor
  <2> QED BY <1>1, <1>4, <2>1 DEF apply_cli_args_for_config_file, Call, FileRead
<1>5. ASSUME apply_file_config PROVE FileRead'
  <2>1. ConfigFile = LookedFor
    BY <1>5 DEF apply_file_config, Call, FileRead, ConfigFile, LookedFor
  <2> QED BY <1>1, <1>5, <2>1 DEF apply_file_config, Call, FileRead
<1>6. ASSUME apply_env_config PROVE FileRead'
  BY <1>1, <1>6 DEF apply_env_config, Call, FileRead
<1>7. ASSUME apply_cli_args PROVE FileRead'
  BY <1>1, <1>7 DEF apply_cli_args, Scanned, FileRead
<1>8. ASSUME Finish PROVE FileRead'
  BY <1>8 DEF Finish, Call, FileRead
<1>9. CASE UNCHANGED vars
  BY <1>1, <1>9 DEF vars, FileRead
<1> QED BY <1>3, <1>4, <1>5, <1>6, <1>7, <1>8, <1>9 DEF Next, config_load

-------------------------------------------------------------------------------
(* What the command line says.                                             *)

\* A setting is what a source says of it, or what it was.
LEMMA OverrideSays ==
  ASSUME NEW c, NEW source, NEW s \in Settings, NEW T, c[s] \in T
  PROVE  Override(c, source)[s] \in OrElse(Says(source, s), T)
BY DEF Override, OrElse, Says

\* An option and its word.
LEMMA OptionScanned ==
  ASSUME Inputs, WellFormed, NEW n \in DOMAIN argv, argv[n] \in DOMAIN TakesWord,
         NEW s \in Plain
  PROVE  FirstWordsSay(s, n + 1) =
           OrElse(Says(Argument(TakesWord[argv[n]], argv[n + 1]), s), FirstWordsSay(s, n - 1))
<1>1. /\ n \in Nat \ {0}
      /\ argv[n + 1] \notin DOMAIN TakesWord
      /\ argv[n + 1] # "-d"
  BY ArgvShape DEF Inputs, WellFormed, Flags
<1>2. argv[n] # "-d"
  BY DEF TakesWord
<1>3. CASE s = TakesWord[argv[n]]
  <2>1. FirstWordsSay(s, n + 1) = Says(Argument(s, argv[n + 1]), s)
    BY <1>1, <1>3, OptionSays
  <2>2. Says(Argument(s, argv[n + 1]), s) # {}
    BY DEF Says, Argument
  <2> QED BY <1>3, <2>1, <2>2 DEF OrElse
<1>4. CASE s # TakesWord[argv[n]]
  <2>1. FirstWordsSay(s, n + 1) = FirstWordsSay(s, n - 1)
    <3>1. \A i \in (n - 1) + 1 .. n + 1 : i = n \/ i = n + 1
      BY <1>1
    <3>2. n - 1 \in Nat /\ n + 1 \in Nat /\ n - 1 <= n + 1
      BY <1>1
    <3> QED BY <1>1, <1>2, <1>4, <3>1, <3>2, NothingMoreSaid
  <2>2. Says(Argument(TakesWord[argv[n]], argv[n + 1]), s) = {}
    BY <1>4 DEF Says, Argument
  <2> QED BY <2>1, <2>2 DEF OrElse
<1> QED BY <1>3, <1>4

\* A word that takes no other one.
LEMMA FlagScanned ==
  ASSUME Inputs, NEW n \in DOMAIN argv, argv[n] \in DOMAIN Flags, NEW s \in Plain
  PROVE  FirstWordsSay(s, n) = OrElse(Says(Flags[argv[n]], s), FirstWordsSay(s, n - 1))
<1>1. n \in Nat \ {0} /\ n - 1 \in Nat /\ n - 1 <= n /\ argv[n] \notin DOMAIN TakesWord
  BY ArgvShape DEF Inputs, Flags, TakesWord
<1>2. CASE s = "debug" /\ argv[n] = "-d"
  <2>1. Says(Flags["-d"], "debug") = {TRUE}
    <3>1. Flags["-d"] = [debug |-> "1"]
      BY DEF Flags
    <3>2. Convert("debug", "1") = ("1" \in {"1", "true"})
      BY DEF Convert
    <3>3. ("1" \in {"1", "true"}) = TRUE
      BY Zenon
    <3>4. Convert("debug", "1") = TRUE
      BY <3>2, <3>3, Zenon
    <3>5. Says(Flags["-d"], "debug") = {Convert("debug", "1")}
      BY <3>1 DEF Says
    <3> QED BY <3>4, <3>5, Zenon
  <2> QED BY <1>1, <1>2, <2>1, DebugSays DEF OrElse
<1>3. CASE ~(s = "debug" /\ argv[n] = "-d")
  <2>1. Says(Flags[argv[n]], s) = {}
    BY <1>3 DEF Says, Flags, Plain
  <2>2. FirstWordsSay(s, n) = FirstWordsSay(s, n - 1)
    <3>1. \A i \in (n - 1) + 1 .. n : i = n
      BY <1>1
    <3> QED BY <1>1, <1>3, <3>1, NothingMoreSaid
  <2> QED BY <2>1, <2>2 DEF OrElse
<1> QED BY <1>2, <1>3

\* A word that is no option.
LEMMA NothingScanned ==
  ASSUME Inputs, NEW n \in DOMAIN argv, argv[n] \notin DOMAIN TakesWord \cup DOMAIN Flags,
         NEW s \in Plain
  PROVE  FirstWordsSay(s, n) = OrElse(Says(Nothing, s), FirstWordsSay(s, n - 1))
<1>1. n \in Nat /\ n - 1 \in Nat /\ n - 1 <= n /\ argv[n] # "-d"
  BY ArgvShape DEF Inputs, Flags
<1>2. Says(Nothing, s) = {}
  BY DEF Says, Nothing
<1>3. \A i \in (n - 1) + 1 .. n : i = n
  BY <1>1
<1>4. FirstWordsSay(s, n) = FirstWordsSay(s, n - 1)
  BY <1>1, <1>3, NothingMoreSaid
<1> QED BY <1>2, <1>4 DEF OrElse

-------------------------------------------------------------------------------
(* Each call applies its source on top of the earlier ones.                *)

LEMMA WithWordsKept ==
  ASSUME UNCHANGED inputs, UNCHANGED loaded
  PROVE  \A s \in Plain : \A n \in Nat : WithWords(s, n)' = WithWords(s, n)
BY DEF inputs, WithWords, OrElse, FirstWordsSay, WithEnv, Says, WithFile, InFile, BuiltIn

\* A source that is applied after n words, and is what the next words say.
LEMMA OneMore ==
  ASSUME NEW s \in Plain, NEW m \in Nat, NEW n \in Nat, NEW source,
         FirstWordsSay(s, n) = OrElse(Says(source, s), FirstWordsSay(s, m)),
         cfg[s] \in WithWords(s, m), cfg' = Override(cfg, source)
  PROVE  cfg'[s] \in WithWords(s, n)
<1>1. cfg'[s] \in OrElse(Says(source, s), WithWords(s, m))
  BY OverrideSays DEF Plain
<1> QED BY <1>1 DEF WithWords, OrElse

LEMMA IterationApplied ==
  ASSUME Inputs, TypeOK, Applied, apply_cli_args, WellFormed, next' \in {"cli", "print"},
         NEW s \in Plain
  PROVE  (cfg[s] \in WithWords(s, optind - 1))'
<1>1. /\ UNCHANGED inputs /\ UNCHANGED loaded /\ next = "cli"
      /\ Len(argv) \in Nat /\ optind \in Nat \ {0}
      /\ cfg[s] \in WithWords(s, optind - 1) /\ optind - 1 \in Nat
  BY DEF apply_cli_args, inputs, Inputs, TypeOK, Applied
<1>2. \A n \in Nat : WithWords(s, n)' = WithWords(s, n)
  BY <1>1, WithWordsKept
<1>3. CASE optind > Len(argv)
  <2>1. cfg' = cfg /\ optind' = optind
    BY <1>3 DEF apply_cli_args
  <2> QED BY <1>1, <1>2, <2>1
<1>4. CASE optind <= Len(argv)
  <2> DEFINE w == argv[optind]
  <2>1. optind \in DOMAIN argv
    BY <1>1, <1>4, ArgvShape DEF Inputs
  <2>2. ASSUME w \in DOMAIN TakesWord,
               Scanned(2, Argument(TakesWord[w], argv[optind + 1]))
        PROVE  (cfg[s] \in WithWords(s, optind - 1))'
    <3>1. optind' = optind + 2 /\ optind' - 1 = optind + 1 /\ optind + 1 \in Nat
      BY <1>1, <2>2 DEF Scanned
    <3>2. cfg'[s] \in WithWords(s, optind + 1)
      BY <1>1, <2>1, <2>2, <3>1, OptionScanned, OneMore DEF Scanned
    <3> QED BY <1>2, <3>1, <3>2
  <2>3. ASSUME w \in DOMAIN Flags, Scanned(1, Flags[w])
        PROVE  (cfg[s] \in WithWords(s, optind - 1))'
    <3>1. optind' = optind + 1 /\ optind' - 1 = optind /\ optind \in Nat
      BY <1>1, <2>3 DEF Scanned
    <3>2. cfg'[s] \in WithWords(s, optind)
      BY <1>1, <2>1, <2>3, <3>1, FlagScanned, OneMore DEF Scanned
    <3> QED BY <1>2, <3>1, <3>2
  <2>4. ASSUME w \notin DOMAIN TakesWord \cup DOMAIN Flags, Scanned(1, Nothing)
        PROVE  (cfg[s] \in WithWords(s, optind - 1))'
    <3>1. optind' = optind + 1 /\ optind' - 1 = optind /\ optind \in Nat
      BY <1>1, <2>4 DEF Scanned
    <3>2. cfg'[s] \in WithWords(s, optind)
      BY <1>1, <2>1, <2>4, <3>1, NothingScanned, OneMore DEF Scanned
    <3> QED BY <1>2, <3>1, <3>2
  <2>5. w \in DOMAIN TakesWord => optind < Len(argv)
    BY <2>1 DEF WellFormed
  <2> QED BY <1>1, <1>4, <2>2, <2>3, <2>4, <2>5 DEF apply_cli_args
<1> QED BY <1>1, <1>3, <1>4

LEMMA AppliedPreserved ==
  ASSUME Inputs, TypeOK, Parsing, FileRead, Applied, [Next]_vars
  PROVE  Applied'
<1>1. UNCHANGED inputs /\ files' = files /\ env' = env /\ WellFormed' = WellFormed
  BY InputsKept, SourcesKept DEF inputs
<1>2. Plain \subseteq Settings /\ "config_file" \notin Plain
  BY DEF Plain
<1>3. ASSUME apply_defaults PROVE Applied'
  <2>1. \A s \in Plain : cfg'[s] \in BuiltIn(s)
    <3>1. /\ cfg = Unset
          /\ cfg' = [s \in Settings |-> IF s \in DOMAIN Defaults /\ cfg[s] = Unset[s]
                                        THEN Defaults[s] ELSE cfg[s]]
      BY <1>3 DEF apply_defaults, Call, Applied
    <3>2. /\ DOMAIN Defaults = Plain \ {"debug"}
          /\ Unset["debug"] = FALSE
      BY DEF Defaults, Unset, Plain, Settings
    <3>3. \A s \in Plain \ {"debug"} : cfg'[s] = Defaults[s]
      BY <1>2, <3>1, <3>2
    <3>4. "debug" \in Plain => cfg'["debug"] = FALSE
      BY <1>2, <3>1, <3>2
    <3> QED BY <3>3, <3>4 DEF BuiltIn
  <2> QED BY <1>3, <2>1 DEF apply_defaults, Call, Applied
<1>4. ASSUME apply_cli_args_for_config_file PROVE Applied'
  <2>1. \A s \in Plain : cfg'[s] = cfg[s]
    BY <1>2, <1>4 DEF apply_cli_args_for_config_file, TypeOK
  <2> QED BY <1>4, <2>1 DEF apply_cli_args_for_config_file, Call, Applied
<1>5. ASSUME apply_file_config PROVE Applied'
  <2> DEFINE asked == [cfg EXCEPT !.config_file = ConfigFile]
  <2>1. \A s \in Plain : asked[s] \in BuiltIn(s)
    BY <1>2, <1>5 DEF apply_file_config, Call, Applied, TypeOK
  <2>2. \A s \in Plain : (cfg[s] \in WithFile(s))'
    <3>1. CASE ConfigFile \in files
      <4>1. cfg' = Override(asked, Contents[ConfigFile]) /\ loaded' = ConfigFile
        BY <1>5, <3>1 DEF apply_file_config
      <4>2. ConfigFile # "none"
        BY <3>1, ConfigAssumption DEF Inputs
      <4>3. \A s \in Plain : InFile(s)' = Says(Contents[ConfigFile], s)
        BY <4>1, <4>2 DEF InFile, Says
      <4>4. \A s \in Plain : cfg'[s] \in OrElse(Says(Contents[ConfigFile], s), BuiltIn(s))
        BY <1>2, <2>1, <4>1, OverrideSays
      <4> QED BY <4>3, <4>4 DEF WithFile, OrElse, BuiltIn
    <3>2. CASE ConfigFile \notin files
      <4>1. cfg' = asked /\ loaded' = "none"
        BY <1>5, <3>2 DEF apply_file_config, Call, FileRead
      <4>2. \A s \in Plain : InFile(s)' = {}
        BY <4>1 DEF InFile
      <4> QED BY <2>1, <4>1, <4>2 DEF WithFile, OrElse, BuiltIn
    <3> QED BY <3>1, <3>2
  <2> QED BY <1>5, <2>2 DEF apply_file_config, Call, Applied
<1>6. ASSUME apply_env_config PROVE Applied'
  <2>1. optind' - 1 = 0 /\ optind - 1 = 0 /\ loaded' = loaded /\ next = "env"
    BY <1>6 DEF apply_env_config, Call, Parsing
  <2>2. \A s \in Plain : cfg'[s] \in WithEnv(s)
    BY <1>2, <1>6, <2>1, OverrideSays
       DEF apply_env_config, FromEnvironment, Call, Applied, WithEnv
  <2>3. \A s \in Plain : FirstWordsSay(s, 0) = {}
    BY DEF FirstWordsSay
  <2>4. \A s \in Plain : cfg'[s] \in WithWords(s, 0)
    BY <2>2, <2>3 DEF WithWords, OrElse
  <2>5. \A s \in Plain : WithWords(s, 0)' = WithWords(s, 0)
    BY <1>1, <2>1, WithWordsKept
  <2>6. \A s \in Plain : (cfg[s] \in WithWords(s, optind - 1))'
    BY <2>1, <2>4, <2>5
  <2> QED BY <1>6, <2>6 DEF apply_env_config, Call, Applied
<1>7. ASSUME apply_cli_args PROVE Applied'
  <2>1. next' \in {"cli", "print", "exit"}
    BY <1>7 DEF apply_cli_args, Scanned
  <2>2. ASSUME next' \in {"cli", "print"}, WellFormed, NEW s \in Plain
        PROVE  (cfg[s] \in WithWords(s, optind - 1))'
    BY <1>7, <2>2, IterationApplied
  <2> QED BY <1>1, <2>1, <2>2 DEF Applied
<1>8. ASSUME Finish PROVE Applied'
  BY <1>8 DEF Finish, Call, Applied
<1>9. CASE UNCHANGED vars
  <2>1. \A s \in Plain : /\ WithFile(s)' = WithFile(s)
                         /\ WithWords(s, optind - 1)' = WithWords(s, optind - 1)
    BY <1>9 DEF vars, inputs, WithWords, OrElse, FirstWordsSay, WithEnv, Says, WithFile,
                InFile, BuiltIn
  <2> QED BY <1>1, <1>9, <2>1 DEF vars, Applied
<1> QED BY <1>3, <1>4, <1>5, <1>6, <1>7, <1>8, <1>9 DEF Next, config_load

-------------------------------------------------------------------------------
(* The results.                                                            *)

LEMMA InitConfigInv == Init => ConfigInv
<1> SUFFICES ASSUME Init PROVE ConfigInv
  OBVIOUS
<1>1. argv \in Seq(Words)
  BY ConfigAssumption DEF Init
<1>2. /\ cfg = Unset /\ DOMAIN cfg = Settings /\ cfg.port \in Ports /\ cfg.debug \in BOOLEAN
      /\ cfg.config_file = "none"
  BY PortFits DEF Init, Unset, Settings
<1>3. TypeOK
  BY <1>1, <1>2 DEF Init, TypeOK
<1> QED BY <1>1, <1>2, <1>3 DEF Init, ConfigInv, Inputs, Parsing, FileRead, Applied

\* ConfigInv is an inductive invariant of config_load.
THEOREM ConfigInvariant == Spec => []ConfigInv
<1>1. ConfigInv /\ [Next]_vars => ConfigInv'
  <2> SUFFICES ASSUME ConfigInv, [Next]_vars PROVE ConfigInv'
    OBVIOUS
  <2>1. Inputs'
    BY InputsKept DEF ConfigInv, Inputs, inputs
  <2> QED BY <2>1, TypesPreserved, ParsingPreserved, FileReadPreserved, AppliedPreserved
          DEF ConfigInv
<1> QED BY <1>1, InitConfigInv, PTL DEF Spec

\* Every variable keeps its type; whatever number a source gives, the port is one of 16 bits.
THEOREM ConfigTypeOK == Spec => []TypeOK
<1>1. ConfigInv => TypeOK
  BY DEF ConfigInv
<1> QED BY <1>1, ConfigInvariant, PTL

\* README of config-demo: for command lines of any length, in which every option has its
\* word, each setting has the value of the first of command line, environment, file and
\* defaults that gives it, and of an option that is repeated the last one.
THEOREM ConfigPriorityOrder == Spec => []PriorityOrder
<1>1. ConfigInv => PriorityOrder
  <2> SUFFICES ASSUME ConfigInv, next = "print", WellFormed, NEW s \in Plain
               PROVE  LET cli == FirstWordsSay(s, Len(argv))
                          environment == Says(env, s)
                          default == IF s = "debug" THEN FALSE ELSE Defaults[s]
                      IN cfg[s] \in CASE cli # {} -> cli
                           [] cli = {} /\ environment # {} -> environment
                           [] cli = {} /\ environment = {} /\ InFile(s) # {} -> InFile(s)
                           [] OTHER -> {default}
    BY DEF PriorityOrder, Plain
  <2>1. optind - 1 = Len(argv)
    <3>1. Len(argv) \in Nat
      BY DEF ConfigInv, Inputs
    <3> QED BY <3>1 DEF ConfigInv, Parsing
  <2>2. cfg[s] \in WithWords(s, Len(argv))
    BY <2>1 DEF ConfigInv, Applied
  <2> QED BY <2>2 DEF WithWords, WithEnv, WithFile, BuiltIn, OrElse
<1> QED BY <1>1, ConfigInvariant, PTL

\* apply_cli_args_for_config_file and find_config_file: with any number of -c FILE the last
\* one is read, or no file if it does not exist; without one a well-known file or none.
THEOREM ConfigAskedFileIsRead == Spec => []AskedFileIsRead
<1>1. ConfigInv => AskedFileIsRead
  <2> DEFINE asked == {i \in DOMAIN argv : argv[i] = "-c"}
  <2> SUFFICES ASSUME ConfigInv, next = "print", WellFormed
               PROVE  IF asked = {} THEN loaded \in {DefaultFile, UserFile, "none"}
                      ELSE loaded = IF argv[Max(asked) + 1] \in files
                                    THEN argv[Max(asked) + 1] ELSE "none"
    BY DEF AskedFileIsRead
  <2>1. /\ Len(argv) \in Nat /\ DOMAIN argv = 1 .. Len(argv)
        /\ \A i \in DOMAIN argv : argv[i] \in Words
    BY ArgvShape DEF ConfigInv, Inputs
  <2>2. PrescanHits = asked /\ \A i \in asked : i < Len(argv)
    BY DEF WellFormed, PrescanHits
  <2>3. loaded = IF LookedFor \in files THEN LookedFor ELSE "none"
    BY DEF ConfigInv, FileRead
  <2>4. CASE asked = {}
    BY <2>2, <2>3, <2>4 DEF AskedFor, LookedFor
  <2>5. CASE asked # {}
    <3> DEFINE last == Max(asked)
    <3>1. last \in asked
      BY <2>1, <2>5, MaxIsLast
    <3>2. last \in DOMAIN argv /\ last < Len(argv) /\ last + 1 \in DOMAIN argv
      BY <2>1, <2>2, <3>1
    <3>3. AskedFor = argv[last + 1]
      BY <2>2, <2>5, <3>2 DEF AskedFor, Hit, NameAt
    <3>4. argv[last + 1] # "none"
      BY <2>1, <3>2, ConfigAssumption
    <3>5. LookedFor = argv[last + 1]
      BY <3>3, <3>4 DEF LookedFor
    <3> QED BY <2>3, <2>5, <3>5
  <2> QED BY <2>4, <2>5
<1> QED BY <1>1, ConfigInvariant, PTL
===============================================================================
