---------------------------- MODULE ConfigProofs ----------------------------
(***************************************************************************)
(* Whatever the user provides, in every build and with the options in      *)
(* every order, a node starts with the texts, modes and TLS settings it    *)
(* was asked for, within the exceptions the properties name.               *)
(***************************************************************************)
EXTENDS Config, TLAPS

\* Which of the two command line parsers is at work, and what clap has made sure
\* of once it has let the arguments through.
RightParser ==
    /\ place = "getopt" => ~ Rust
    /\ place \in {"clap", "flags", "cert", "key", "rest", "file", "tls_env", "tls_cli",
                  "panicked", "crashed"} => Rust
    /\ Rust /\ ~ err /\ place \notin {"env", "clap", "exit"} => ClapAccepts(input.args)

\* process_cli has not got to the end of this.
Early == {"env", "clap", "flags"}

\* The texts of config at every place of start-up.
CTextsSoFar ==
    \A s \in CTexts :
        /\ place = "env" => text[s] = "default"
        /\ ~ Rust /\ place \notin {"env", "exit"} =>
               text[s] = Preferred(s, Fitting(input.args \ todo, "cli"),
                                   Fitting(input.env, "env"), "default")
        /\ Rust /\ place \in {"clap", "flags"} =>
               text[s] = Preferred(s, {}, Fitting(input.env, "env"), "default")
        /\ Rust /\ place \notin Early \cup {"exit"} /\ ~ err =>
               text[s] = Preferred(s, input.args, Fitting(input.env, "env"), "default")

\* Where parse_args has not set this TLS text yet.
Before(s) ==
    CASE s = "tls_cert_file" -> Early \cup {"cert"}
      [] s = "tls_key_file" -> Early \cup {"cert", "key"}
      [] OTHER -> Early \cup {"cert", "key", "rest"}

TlsTextsSoFar ==
    Rust /\ ~ err /\ place # "exit" =>
        \A s \in TlsTexts :
            text[s] = IF s \in input.args /\ place \notin Before(s) THEN "cli" ELSE "null"

\* What was asked for by a set of variables or options.
Asked(S) == (S \cap Switches) \cup TurnedOn(S)

\* The flags after process_env_vars.
EnvModes == Asked(input.env) \ {"new_off"}

\* The flags at every place of start-up.
ModesSoFar ==
    /\ place = "env" => modes = {}
    /\ ~ Rust /\ place \notin {"env", "exit"} =>
           modes = EnvModes \cup Asked(input.args \ todo)
    /\ Rust /\ place \in {"clap", "flags"} => modes = EnvModes
    /\ Rust /\ place \notin Early \cup {"exit"} /\ ~ err =>
           modes = (EnvModes \ Assigned) \cup Asked(input.args)

\* The options are all there at the start and all gone at the end.
OptionsSoFar ==
    /\ place = "env" => todo = input.args
    /\ ~ Rust /\ place \in {"main", "up"} => todo = {}

\* The TLS settings at every place of load_all_configs.
TlsSoFar ==
    /\ place = "tls_env" => \A s \in TlsTexts : tls[s] = "file"
    /\ place = "tls_cli" =>
           \A s \in TlsTexts : tls[s] = IF s \in input.env THEN "env" ELSE "file"
    /\ place \notin {"tls_env", "tls_cli", "up", "crashed"} =>
           \A s \in TlsTexts : tls[s] = "none"
    /\ place = "up" /\ ~ err =>
           \A s \in TlsTexts : tls[s] \in {"none", Preferred(s, input.args, input.env, "file")}

\* The inductive invariant.
IInv ==
    /\ TypeOK
    /\ input \in Inputs
    /\ RightParser
    /\ OptionsSoFar
    /\ CTextsSoFar
    /\ TlsTextsSoFar
    /\ ModesSoFar
    /\ TlsSoFar
    /\ TlsTogether

-----------------------------------------------------------------------------
(* The operators the model is built from.                                  *)

\* A text turns on one of three flags, none of which parse_args assigns.
LEMMA TurnedOnFlags ==
    ASSUME NEW S
    PROVE  TurnedOn(S) \subseteq {"json_log_mode", "webhook_mode", "oauth2_mode"}
BY DEF TurnedOn, TurnsOn

LEMMA TurnedOnModes ==
    ASSUME NEW S
    PROVE  /\ TurnedOn(S) \subseteq Modes
           /\ TurnedOn(S) \cap (Assigned \cup {"new_off"}) = {}
BY TurnedOnFlags DEF Modes, Switches, Assigned

\* Options add up, in whatever order getopt returns them.
LEMMA AskedAddsUp ==
    ASSUME NEW S, NEW o
    PROVE  Asked(S) \cup ({o} \cap Switches) \cup TurnedOn({o}) = Asked(S \cup {o})
BY DEF Asked, TurnedOn

\* The reference for precedence, as nested conditionals.
LEMMA PreferredCases ==
    ASSUME NEW s, NEW cli, NEW env, NEW default
    PROVE  Preferred(s, cli, env, default) =
             IF s \in cli THEN "cli" ELSE IF s \in env THEN "env" ELSE default
BY DEF Preferred

\* Options clap has let through: the TLS options come together.
LEMMA TlsOptionsTogether ==
    ASSUME NEW args, ClapAccepts(args), NEW s \in TlsTexts, s \in args
    PROVE  TlsTexts \subseteq args
<1>1. s \in DOMAIN Requires /\ Requires[s] = TlsTexts
  BY DEF TlsTexts, Requires
<1> QED BY <1>1 DEF ClapAccepts

\* The parts of config are different things.
LEMMA TextKinds ==
    /\ CTexts \subseteq Texts /\ TlsTexts \subseteq Texts
    /\ CTexts \cap (TlsTexts \cup {"config_file"}) = {}
BY DEF Texts, CTexts, TlsTexts

LEMMA InputType ==
    ASSUME IInv
    PROVE  /\ input.env \subseteq Modes \cup Texts
           /\ input.args \subseteq Switches \cup Texts \cup {"help"}
           /\ input.long \subseteq {"env", "cli"} \X CTexts
           /\ input.missing \subseteq TlsTexts
           /\ input.relative \in BOOLEAN /\ input.badfile \in BOOLEAN
BY ConfigAssumption DEF IInv

\* What util_copy_string and util_duplicate_string do to the texts.
LEMMA CopyKeepsType ==
    ASSUME TypeOK, NEW S \in SUBSET Texts, NEW source \in {"env", "cli"}
    PROVE  /\ Copied(S, source) \in [Texts -> {"default", "null", "env", "cli"}]
           /\ Duplicated(S, source) \in [Texts -> {"default", "null", "env", "cli"}]
           /\ \A s \in CTexts : Copied(S, source)[s] # "null" /\ Duplicated(S, source)[s] # "null"
BY TextKinds DEF Copied, Duplicated, TypeOK

-----------------------------------------------------------------------------
LEMMA InitIInv == Init => IInv
<1> SUFFICES ASSUME Init PROVE IInv
  OBVIOUS
<1>1. input.missing \subseteq TlsTexts
  BY ConfigAssumption DEF Init
<1>2. TypeOK
  BY <1>1, TextKinds DEF Init, TypeOK, Places, NewText
<1>3. RightParser /\ OptionsSoFar /\ ModesSoFar /\ TlsSoFar /\ TlsTogether
  BY DEF Init, RightParser, OptionsSoFar, ModesSoFar, TlsSoFar, TlsTogether, Early
<1>4. CTextsSoFar /\ TlsTextsSoFar
  BY TextKinds DEF Init, CTextsSoFar, TlsTextsSoFar, NewText, Early, Before
<1> QED BY <1>2, <1>3, <1>4 DEF Init, IInv

LEMMA EnvIInv ==
    ASSUME IInv, ProcessEnvVars
    PROVE  IInv'
<1> USE DEF ProcessEnvVars, Goes
<1>1. /\ text' \in [Texts -> {"default", "null", "env", "cli"}]
      /\ \A s \in CTexts : text'[s] # "null"
      /\ \A s \in Texts : text'[s] = IF s \in Fitting(input.env \cap CTexts, "env")
                                     THEN "env" ELSE text[s]
  <2>1. text' = Copied(input.env \cap CTexts, "env") /\ input.env \cap CTexts \in SUBSET Texts
    BY TextKinds
  <2>2. \A s \in Texts : text'[s] = IF s \in Fitting(input.env \cap CTexts, "env")
                                    THEN "env" ELSE text[s]
    BY <2>1 DEF Copied, Fitting
  <2> QED BY <2>1, <2>2, CopyKeepsType DEF IInv
<1>2. modes' = EnvModes /\ modes' \subseteq Modes
  BY TurnedOnModes DEF IInv, ModesSoFar, EnvModes, Asked, Modes, Switches
<1>3. TypeOK'
  BY <1>1, <1>2 DEF IInv, TypeOK, Places
<1>4. place' \in {"clap", "getopt"} /\ (place' = "clap" <=> Rust) /\ Rust' = Rust
  BY DEF Rust
<1>5. RightParser' /\ OptionsSoFar' /\ TlsSoFar' /\ TlsTogether'
  BY <1>4 DEF IInv, RightParser, OptionsSoFar, TlsSoFar, TlsTogether, ClapAccepts
<1>6. input.args \ todo = {}
  BY DEF IInv, OptionsSoFar
<1>7. CTextsSoFar'
  BY <1>1, <1>4, <1>6, TextKinds DEF IInv, CTextsSoFar, Fitting, Preferred, Early
<1>8. TlsTextsSoFar'
  BY <1>1, <1>4, TextKinds DEF Fitting, IInv, TlsTextsSoFar, Before, Early
<1>9. Asked(input.args \ todo) = {}
  BY <1>6 DEF Asked, TurnedOn
<1>10. ModesSoFar'
  <2>1. EnvModes' = EnvModes
    BY DEF EnvModes, Asked, TurnedOn
  <2> QED BY <1>2, <1>4, <1>9, <2>1 DEF IInv, ModesSoFar, Early, Asked, TurnedOn
<1> QED BY <1>3, <1>5, <1>7, <1>8, <1>10 DEF IInv

LEMMA GetOptIInv ==
    ASSUME IInv, NEW o \in todo, GetOpt(o)
    PROVE  IInv'
<1> USE DEF GetOpt, Goes
<1>0. Rust' = Rust /\ ~ Rust
  BY DEF Rust, IInv, RightParser
<1>1. CASE o = "help" \/ Refused(o)
  <2>1. TypeOK'
    BY <1>1 DEF IInv, TypeOK, Places
  <2>2. RightParser' /\ OptionsSoFar' /\ TlsSoFar' /\ TlsTogether'
    BY <1>0, <1>1 DEF IInv, RightParser, OptionsSoFar, TlsSoFar, TlsTogether
  <2>3. CTextsSoFar' /\ TlsTextsSoFar' /\ ModesSoFar'
    BY <1>0, <1>1 DEF CTextsSoFar, TlsTextsSoFar, ModesSoFar
  <2> QED BY <2>1, <2>2, <2>3 DEF IInv
<1>2. CASE ~ (o = "help" \/ Refused(o))
  <2>1. /\ text' \in [Texts -> {"default", "null", "env", "cli"}]
        /\ \A s \in CTexts : text'[s] # "null"
        /\ \A s \in Texts : text'[s] = IF s \in Fitting({o} \cap CTexts, "cli")
                                       THEN "cli" ELSE text[s]
    <3>1. text' = Copied({o} \cap CTexts, "cli") /\ {o} \cap CTexts \in SUBSET Texts
      BY <1>2, TextKinds
    <3>2. \A s \in Texts : text'[s] = IF s \in Fitting({o} \cap CTexts, "cli")
                                      THEN "cli" ELSE text[s]
      BY <3>1 DEF Copied, Fitting
    <3> QED BY <3>1, <3>2, CopyKeepsType DEF IInv
  <2>2. place' = place /\ modes' = modes \cup ({o} \cap Switches) \cup TurnedOn({o})
    BY <1>2
  <2>3. modes' \subseteq Modes
    BY <2>2, TurnedOnModes DEF IInv, TypeOK, Modes
  <2>4. TypeOK'
    BY <2>1, <2>2, <2>3 DEF IInv, TypeOK
  <2>5. RightParser' /\ OptionsSoFar' /\ TlsSoFar' /\ TlsTogether'
    BY <1>0, <2>2 DEF IInv, RightParser, OptionsSoFar, TlsSoFar, TlsTogether
  <2>6. o \in input.args /\ input.args \ todo' = (input.args \ todo) \cup {o}
    BY DEF IInv, TypeOK
  <2>7. CTextsSoFar'
    <3> SUFFICES ASSUME NEW s \in CTexts
                 PROVE  text'[s] = Preferred(s, Fitting(input.args \ todo', "cli"),
                                             Fitting(input.env, "env"), "default")
      BY <1>0, <2>2 DEF Fitting, CTextsSoFar, Early, Preferred
    <3>1. text[s] = Preferred(s, Fitting(input.args \ todo, "cli"),
                              Fitting(input.env, "env"), "default")
      BY <1>0 DEF IInv, CTextsSoFar
    <3>2. text'[s] = IF s = o /\ <<"cli", s>> \notin input.long THEN "cli" ELSE text[s]
      BY <2>1, TextKinds DEF Fitting
    <3>3. s \in Fitting(input.args \ todo', "cli") <=>
            s \in Fitting(input.args \ todo, "cli") \/ (s = o /\ <<"cli", s>> \notin input.long)
      BY <2>6 DEF Fitting
    <3> QED BY <3>1, <3>2, <3>3, PreferredCases
  <2>8. TlsTextsSoFar'
    BY <1>0 DEF TlsTextsSoFar
  <2>9. modes = EnvModes \cup Asked(input.args \ todo)
    BY <1>0 DEF IInv, ModesSoFar
  <2>10. modes' = EnvModes \cup Asked(input.args \ todo')
    <3>1. Asked(input.args \ todo) \cup ({o} \cap Switches) \cup TurnedOn({o})
            = Asked((input.args \ todo) \cup {o})
      BY AskedAddsUp
    <3> HIDE DEF GetOpt
    <3> QED BY <2>2, <2>6, <2>9, <3>1
  <2>11. EnvModes' = EnvModes /\ Asked(input.args \ todo)' = Asked(input.args \ todo')
    BY DEF EnvModes, Asked, TurnedOn
  <2>12. ModesSoFar'
    BY <1>0, <2>2, <2>10, <2>11 DEF ModesSoFar
  <2> QED BY <2>4, <2>5, <2>7, <2>8, <2>12 DEF IInv
<1> QED BY <1>1, <1>2

\* What the steps need that change neither texts nor flags.
LEMMA SameModes ==
    ASSUME UNCHANGED <<build, input, modes>>
    PROVE  /\ Rust' = Rust
           /\ EnvModes' = EnvModes
           /\ Asked(input.args)' = Asked(input.args)
           /\ ClapAccepts(input.args)' = ClapAccepts(input.args)
BY DEF Rust, EnvModes, Asked, TurnedOn, ClapAccepts

LEMMA ArgumentsIInv ==
    ASSUME IInv, GetOptEnds \/ NotUtf8 \/ ParseFrom
    PROVE  IInv'
<1> USE DEF GetOptEnds, NotUtf8, ParseFrom, ParseError, Goes
<1>0. UNCHANGED <<build, input, todo, modes, text, missing, tls>>
  OBVIOUS
<1>1. TypeOK'
  BY <1>0 DEF IInv, TypeOK, Places
<1>2. RightParser' /\ OptionsSoFar'
  BY <1>0, SameModes DEF IInv, RightParser, OptionsSoFar
<1>3. TlsSoFar' /\ TlsTogether'
  BY <1>0 DEF IInv, TlsSoFar, TlsTogether
<1>4. CTextsSoFar'
  BY <1>0, SameModes DEF IInv, CTextsSoFar, Fitting, Early, RightParser
<1>5. TlsTextsSoFar'
  BY <1>0, SameModes DEF IInv, TlsTextsSoFar, Before, Early, RightParser
<1>6. ModesSoFar'
  <2>1. Asked(input.args \ todo)' = Asked(input.args \ todo)
    BY <1>0 DEF Asked, TurnedOn
  <2> QED BY <1>0, <2>1, SameModes DEF IInv, ModesSoFar, Early, RightParser
<1> QED BY <1>0, <1>1, <1>2, <1>3, <1>4, <1>5, <1>6 DEF IInv

LEMMA FlagsIInv ==
    ASSUME IInv, SetFlags
    PROVE  IInv'
<1> USE DEF SetFlags, Goes
<1>0. Rust /\ Rust' = Rust
  BY DEF Rust, IInv, RightParser
<1>1. /\ text' \in [Texts -> {"default", "null", "env", "cli"}]
      /\ \A s \in CTexts : text'[s] # "null"
      /\ \A s \in Texts : text'[s] = IF s \in input.args \cap CTexts THEN "cli" ELSE text[s]
  <2>1. input.args \cap CTexts \in SUBSET Texts
    BY TextKinds
  <2>2. text' = Duplicated(input.args \cap CTexts, "cli")
    OBVIOUS
  <2>3. \A s \in Texts : text'[s] = IF s \in input.args \cap CTexts THEN "cli" ELSE text[s]
    BY <2>2 DEF Duplicated
  <2> QED BY <2>1, <2>2, <2>3, CopyKeepsType DEF IInv
<1>2. modes' = (EnvModes \ Assigned) \cup Asked(input.args)
  BY <1>0 DEF IInv, ModesSoFar, AfterFlags, Asked
<1>3. modes' \subseteq Modes
  BY TurnedOnModes DEF IInv, TypeOK, AfterFlags, Modes
<1>4. TypeOK'
  BY <1>1, <1>3 DEF IInv, TypeOK, Places
<1>5. RightParser' /\ OptionsSoFar' /\ TlsSoFar' /\ TlsTogether'
  BY <1>0 DEF IInv, RightParser, OptionsSoFar, TlsSoFar, TlsTogether, ClapAccepts
<1>6. CTextsSoFar'
  <2> SUFFICES ASSUME NEW s \in CTexts
               PROVE  text'[s] = Preferred(s, input.args, Fitting(input.env, "env"), "default")
    BY <1>0 DEF CTextsSoFar, Fitting, Early, Preferred
  <2>1. text[s] = Preferred(s, {}, Fitting(input.env, "env"), "default")
    BY <1>0 DEF IInv, CTextsSoFar
  <2>2. text'[s] = IF s \in input.args THEN "cli" ELSE text[s]
    BY <1>1, TextKinds
  <2> QED BY <2>1, <2>2, PreferredCases
<1>7. TlsTextsSoFar'
  BY <1>0, <1>1, TextKinds DEF IInv, TlsTextsSoFar, Before, Early
<1>8. ModesSoFar'
  <2>1. EnvModes' = EnvModes /\ Asked(input.args)' = Asked(input.args)
    BY DEF EnvModes, Asked, TurnedOn
  <2> QED BY <1>0, <1>2, <2>1 DEF ModesSoFar, Early
<1> QED BY <1>4, <1>5, <1>6, <1>7, <1>8 DEF IInv

\* The rest of parse_args: one TLS text after the other, or an Err.
LEMMA TlsTextIInv ==
    ASSUME IInv, SetCert \/ SetKey \/ SetRest
    PROVE  IInv'
<1> USE DEF ParseError, Goes
<1>0. Rust /\ UNCHANGED <<build, input, todo, modes, tls>>
  BY DEF IInv, RightParser, SetCert, SetKey, SetRest
<1> DEFINE T == CASE place = "cert" -> {"tls_cert_file"}
                  [] place = "key" -> {"tls_key_file"}
                  [] OTHER -> {"tls_listen_address", "config_file"}
           after == CASE place = "cert" -> "key" [] place = "key" -> "rest" [] OTHER -> "main"
<1>1. /\ place \in {"cert", "key", "rest"}
      /\ missing' \subseteq missing
      /\ \/ place' = "main" /\ err' = TRUE /\ text' = text
         \/ place' = after /\ err' = err /\ text' = Duplicated(input.args \cap T, "cli")
  BY DEF SetCert, SetKey, SetRest
<1>2. T \subseteq TlsTexts \cup {"config_file"}
  BY DEF TlsTexts
<1>3. /\ text' \in [Texts -> {"default", "null", "env", "cli"}]
      /\ \A s \in CTexts : text'[s] = text[s]
      /\ ~ err' => \A s \in Texts : text'[s] = IF s \in input.args \cap T THEN "cli" ELSE text[s]
  <2>1. CASE text' = text /\ err' = TRUE
    BY <2>1, TextKinds DEF IInv, TypeOK
  <2>2. CASE text' = Duplicated(input.args \cap T, "cli")
    BY <1>2, <2>2, TextKinds DEF IInv, TypeOK, Duplicated, Texts
  <2> QED BY <1>1, <2>1, <2>2
<1>4. place' \in {"key", "rest", "main"}
  BY <1>1
<1>5. TypeOK'
  BY <1>0, <1>1, <1>3, <1>4 DEF IInv, TypeOK, Places
<1>6. RightParser' /\ OptionsSoFar'
  BY <1>0, <1>1, <1>4, SameModes DEF IInv, RightParser, OptionsSoFar
<1>7. TlsSoFar' /\ TlsTogether'
  BY <1>0, <1>1, <1>4 DEF IInv, TlsSoFar, TlsTogether
<1>8. CTextsSoFar'
  BY <1>0, <1>1, <1>3, <1>4, SameModes DEF IInv, CTextsSoFar, Fitting, Early
<1>9. TlsTextsSoFar'
  <2> SUFFICES ASSUME ~ err', NEW s \in TlsTexts
               PROVE  text'[s] = IF s \in input.args /\ place' \notin Before(s)
                                 THEN "cli" ELSE "null"
    BY <1>0 DEF TlsTextsSoFar, Before, Early
  <2>1. ~ err /\ place' = after
    BY <1>1 DEF IInv, TypeOK
  <2>2. text[s] = IF s \in input.args /\ place \notin Before(s) THEN "cli" ELSE "null"
    BY <1>0, <1>1, <2>1 DEF IInv, TlsTextsSoFar
  <2>3. text'[s] = IF s \in input.args \cap T THEN "cli" ELSE text[s]
    BY <1>3, TextKinds
  <2>4. place' \notin Before(s) <=> place \notin Before(s) \/ s \in T
    BY <1>1, <2>1 DEF Before, Early, TlsTexts
  <2> QED BY <2>2, <2>3, <2>4
<1>10. ModesSoFar'
  BY <1>0, <1>1, <1>4, SameModes DEF IInv, ModesSoFar, Early
<1> QED BY <1>0, <1>5, <1>6, <1>7, <1>8, <1>9, <1>10 DEF IInv

\* main, and load_all_configs: the TLS settings are chosen among what there is.
LEMMA LoadIInv ==
    ASSUME IInv, MainGoesOn \/ LoadFile \/ ConfigFromEnv \/ ConfigFromCli
    PROVE  IInv'
<1> USE DEF MainGoesOn, LoadFile, ConfigFromEnv, ConfigFromCli, Goes
<1>0. UNCHANGED <<build, input, todo, modes, text, missing, err>>
  OBVIOUS
<1>1. /\ place \in {"main", "file", "tls_env", "tls_cli"}
      /\ place' \in {"file", "up", "panicked", "tls_env", "tls_cli", "crashed"}
      /\ place # "main" => Rust
      /\ place' # "up" => Rust
  BY DEF IInv, RightParser
<1>2. tls' \in [TlsTexts -> {"none", "file", "env", "cli"}]
  BY DEF IInv, TypeOK
<1>3. TypeOK'
  BY <1>0, <1>1, <1>2 DEF IInv, TypeOK, Places
<1>4. RightParser' /\ OptionsSoFar'
  BY <1>0, <1>1, SameModes DEF IInv, RightParser, OptionsSoFar
<1>5. CTextsSoFar'
  BY <1>0, <1>1, SameModes DEF IInv, CTextsSoFar, Fitting, Early
<1>6. TlsTextsSoFar'
  BY <1>0, <1>1, SameModes DEF IInv, TlsTextsSoFar, Before, Early
<1>7. ModesSoFar'
  <2>1. Asked(input.args \ todo)' = Asked(input.args \ todo)
    BY <1>0 DEF Asked, TurnedOn
  <2> QED BY <1>0, <1>1, <2>1, SameModes DEF IInv, ModesSoFar, Early
<1>8. TlsSoFar' /\ TlsTogether'
  <2>1. CASE MainGoesOn
    <3>1. \A s \in TlsTexts : tls'[s] = "none"
      BY <2>1 DEF IInv, TlsSoFar
    <3> QED BY <1>0, <1>1, <2>1, <3>1 DEF TlsSoFar, TlsTogether
  <2>2. CASE LoadFile
    BY <1>0, <2>2 DEF IInv, TlsSoFar, TlsTogether
  <2>3. CASE ConfigFromEnv
    BY <1>0, <2>3 DEF IInv, TlsSoFar, TlsTogether
  <2>4. CASE ConfigFromCli
    <3>1. \A s \in TlsTexts : tls[s] = IF s \in input.env THEN "env" ELSE "file"
      BY <2>4 DEF IInv, TlsSoFar
    <3>2. ASSUME ~ err
          PROVE  /\ ClapAccepts(input.args)
                 /\ \A s \in TlsTexts : text[s] = IF s \in input.args THEN "cli" ELSE "null"
      BY <1>1, <2>4, <3>2 DEF IInv, RightParser, TlsTextsSoFar, Before, Early
    <3>3. "tls_cert_file" \in TlsTexts
      BY DEF TlsTexts
    <3>4. CASE text["tls_cert_file"] = "null"
      <4>1. place' = "up" /\ tls' = tls
        BY <2>4, <3>4
      <4>2. ASSUME ~ err, NEW s \in TlsTexts
            PROVE  tls[s] = Preferred(s, input.args, input.env, "file")
        BY <3>1, <3>2, <3>3, <3>4, <4>2, TlsOptionsTogether DEF Preferred
      <4> QED BY <1>0, <3>1, <4>1, <4>2 DEF TlsSoFar, TlsTogether
    <3>5. CASE text["tls_cert_file"] # "null" /\ \A s \in TlsTexts : text[s] # "null"
      <4>1. place' = "up" /\ tls' = [s \in TlsTexts |-> "cli"]
        BY <2>4, <3>5
      <4>2. ASSUME ~ err, NEW s \in TlsTexts
            PROVE  Preferred(s, input.args, input.env, "file") = "cli"
        <5>1. s \in input.args
          BY <3>2, <3>5, <4>2
        <5> QED BY <5>1, PreferredCases
      <4> QED BY <1>0, <4>1, <4>2 DEF TlsSoFar, TlsTogether
    <3>6. CASE text["tls_cert_file"] # "null" /\ \E s \in TlsTexts : text[s] = "null"
      <4>1. place' = "crashed" /\ tls' = tls
        BY <2>4, <3>6
      <4>2. err
        BY <3>2, <3>3, <3>6, TlsOptionsTogether
      <4> QED BY <1>0, <3>1, <4>1, <4>2 DEF TlsSoFar, TlsTogether
    <3> QED BY <3>4, <3>5, <3>6
  <2> QED BY <2>1, <2>2, <2>3, <2>4
<1> QED BY <1>0, <1>3, <1>4, <1>5, <1>6, <1>7, <1>8 DEF IInv

LEMMA StepIInv == IInv /\ [Next]_vars => IInv'
<1> SUFFICES ASSUME IInv, [Next]_vars PROVE IInv'
  OBVIOUS
<1>1. CASE UNCHANGED vars
  BY <1>1 DEF vars, IInv, TypeOK, RightParser, OptionsSoFar, CTextsSoFar, TlsTextsSoFar,
     ModesSoFar, TlsSoFar, TlsTogether, Rust, EnvModes, Asked, TurnedOn, ClapAccepts,
     Preferred, Before, Fitting
<1> QED BY <1>1, EnvIInv, GetOptIInv, ArgumentsIInv, FlagsIInv, TlsTextIInv, LoadIInv
        DEF Next

LEMMA AlwaysIInv == Spec => []IInv
BY InitIInv, StepIInv, PTL DEF Spec

\* Configuration is well typed; in particular the buffers config is made with
\* are never lost.
THEOREM TypeCorrect == Spec => []TypeOK
<1>1. IInv => TypeOK
  BY DEF IInv
<1> QED BY <1>1, AlwaysIInv, PTL

\* The command line goes before the environment, and that before the defaults.
THEOREM PrecedenceKept == Spec => []TextsByPrecedence
<1>1. IInv => TextsByPrecedence
  <2> SUFFICES ASSUME IInv, place = "up", ~ err
               PROVE  /\ \A s \in CTexts :
                           text[s] = Preferred(s, IF Rust THEN input.args ELSE Fitting(input.args, "cli"),
                                               Fitting(input.env, "env"), "default")
                      /\ \A s \in TlsTexts :
                           tls[s] \in {"none", Preferred(s, input.args, input.env, "file")}
    BY DEF TextsByPrecedence
  <2>1. ~ Rust => todo = {}
    BY DEF IInv, OptionsSoFar
  <2> QED BY <2>1 DEF IInv, CTextsSoFar, TlsSoFar, Preferred, Early
<1> QED BY <1>1, AlwaysIInv, PTL

\* The modes a node starts with are those that were asked for.
THEOREM ModesKept == Spec => []ModesAsAsked
<1>1. IInv => ModesAsAsked
  <2> SUFFICES ASSUME IInv, place = "up", ~ err
               PROVE  LET lost == IF Rust THEN Assigned \cup {"new_off"} ELSE {"new_off"}
                      IN /\ modes \subseteq Asked(input.args) \cup Asked(input.env)
                         /\ Asked(input.args) \subseteq modes
                         /\ Asked(input.env) \ lost \subseteq modes
    BY DEF ModesAsAsked, Asked
  <2>1. EnvModes \subseteq Asked(input.env) /\ Asked(input.env) \ {"new_off"} \subseteq EnvModes
    BY DEF EnvModes
  <2>2. CASE ~ Rust
    <3>1. input.args \ todo = input.args
      BY <2>2 DEF IInv, OptionsSoFar
    <3>2. modes = EnvModes \cup Asked(input.args)
      BY <2>2, <3>1 DEF IInv, ModesSoFar
    <3> QED BY <2>1, <2>2, <3>2
  <2>3. CASE Rust
    <3>1. modes = (EnvModes \ Assigned) \cup Asked(input.args)
      BY <2>3 DEF IInv, ModesSoFar, Early
    <3> QED BY <2>1, <2>3, <3>1
  <2> QED BY <2>2, <2>3
<1> QED BY <1>1, AlwaysIInv, PTL

\* config_from_cli reads no null pointer as long as parse_args came to its end.
THEOREM TlsKeptTogether == Spec => []TlsTogether
<1>1. IInv => TlsTogether
  BY DEF IInv
<1> QED BY <1>1, AlwaysIInv, PTL
=============================================================================
