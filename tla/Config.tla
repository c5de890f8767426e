------------------------------- MODULE Config -------------------------------
(***************************************************************************)
(* How a node comes by its configuration: sentrypeer_config_new, then      *)
(* process_cli (conf.c), which reads the environment and the command line  *)
(* with getopt or, in a build with Rust, with clap (cli.rs); then, when    *)
(* the SIP server in Rust starts, load_all_configs (config.rs) for TLS.    *)
(*                                                                         *)
(* A text is represented by where it comes from.  Inputs are named after   *)
(* the member of sentrypeer_config they set, not after their letters.      *)
(***************************************************************************)
EXTENDS Naturals

CONSTANTS
    Builds,  \* a subset of AllBuilds
    Inputs   \* what the user may provide: records as described below

AllBuilds == {"c", "c_no_dht", "rust"}

\* config members that are flags.  sip_mode and new_mode are on by default and
\* are represented by their negation.
Assigned == {"api_mode", "debug_mode", "p2p_dht_mode", "sip_responsive_mode",
             "syslog_mode", "verbose_mode"}
Switches == Assigned \cup {"json_log_mode", "sip_off", "new_off"}
Modes == Switches \cup {"webhook_mode", "oauth2_mode"}

\* config members that are texts, and the flags they turn on.
CTexts == {"db_file", "json_log_file", "p2p_bootstrap_node", "oauth2_client_id",
           "oauth2_client_secret", "webhook_url"}
TlsTexts == {"tls_cert_file", "tls_key_file", "tls_listen_address"}
Texts == CTexts \cup TlsTexts \cup {"config_file"}
TurnsOn == [json_log_file |-> "json_log_mode", webhook_url |-> "webhook_mode",
            oauth2_client_id |-> "oauth2_mode", oauth2_client_secret |-> "oauth2_mode"]

\* An input is a record.  env, args: what is set in the environment and given
\* on the command line;  long: texts that exceed the buffers of config, with
\* where they come from;  relative: paths on the command line do not start with a
\* slash;  missing: TLS files that do not exist;  badfile: the configuration file
\* cannot be parsed.
ASSUME ConfigAssumption ==
    /\ Builds \subseteq AllBuilds
    /\ \A i \in Inputs :
           /\ i.env \subseteq Modes \cup Texts
           /\ i.args \subseteq Switches \cup Texts \cup {"help"}
           /\ i.long \subseteq {"env", "cli"} \X CTexts
           /\ i.missing \subseteq TlsTexts
           /\ i.relative \in BOOLEAN /\ i.badfile \in BOOLEAN

VARIABLES
    build, input,
    place,    \* how far start-up has come
    todo,     \* the options getopt has not returned yet
    modes,    \* the flags that are on
    text,     \* text[s]: "default", "null", "env" or "cli"
    missing,  \* the TLS files that do not exist
    err,      \* parse_args has returned an Err
    tls       \* tls[s]: where the SIP server's TLS settings come from

vars == <<build, input, place, todo, modes, text, missing, err, tls>>

\* "env", "getopt", "clap", "flags", "cert", "key", "rest": in process_cli;
\* "main": it has returned;  "file", "tls_env", "tls_cli": in load_all_configs;
\* "up": start-up goes on;  "exit": the process has ended;  "panicked": the
\* thread of the SIP server has;  "crashed": a null pointer was read.
Places == {"env", "getopt", "clap", "flags", "cert", "key", "rest", "main", "file",
           "tls_env", "tls_cli", "up", "exit", "panicked", "crashed"}

TypeOK ==
    /\ build \in Builds
    /\ place \in Places
    /\ todo \subseteq input.args
    /\ modes \subseteq Modes
    /\ text \in [Texts -> {"default", "null", "env", "cli"}]
    /\ \A s \in CTexts : text[s] # "null"
    /\ missing \subseteq TlsTexts
    /\ err \in BOOLEAN
    /\ tls \in [TlsTexts -> {"none", "file", "env", "cli"}]

\* Bug variant: the buffers are not made.
NewTextNull == [s \in Texts |-> "null"]

\* The texts of sentrypeer_config_new.
NewText == [s \in Texts |-> IF s \in CTexts THEN "default" ELSE "null"]

\* sentrypeer_config_new.
Init ==
    /\ build \in Builds
    /\ input \in Inputs
    /\ place = "env"
    /\ todo = input.args
    /\ modes = {}
    /\ text = NewText
    /\ missing = input.missing
    /\ err = FALSE
    /\ tls = [s \in TlsTexts |-> "none"]

-----------------------------------------------------------------------------
Rust == build = "rust"

TurnedOn(S) == {TurnsOn[s] : s \in S \cap DOMAIN TurnsOn}

\* Bug variant: strncpy whatever the length, the text is cut.
CopiedCut(S, source) == [s \in Texts |-> IF s \in S THEN source ELSE text[s]]

\* util_copy_string: a text that is too long is not copied, and nobody looks at
\* the result.
Copied(S, source) ==
    [s \in Texts |-> IF s \in S /\ <<source, s>> \notin input.long THEN source ELSE text[s]]

\* util_duplicate_string.
Duplicated(S, source) == [s \in Texts |-> IF s \in S THEN source ELSE text[s]]

Goes(next) == place' = next

\* process_env_vars.  No variable is read for new_mode, and for webhook_mode only
\* that of its URL.
ProcessEnvVars ==
    /\ place = "env"
    /\ Goes(IF Rust THEN "clap" ELSE "getopt")
    /\ modes' = modes \cup (input.env \cap (Switches \ {"new_off"}))
                      \cup TurnedOn(input.env)
    /\ text' = Copied(input.env \cap CTexts, "env")
    /\ UNCHANGED <<build, input, todo, missing, err, tls>>

-----------------------------------------------------------------------------
(* The command line in C.                                                  *)

\* getopt knows no option for what only Rust has; -p wants OpenDHT; paths have
\* to be absolute.
Refused(o) ==
    \/ o \in TlsTexts \cup {"config_file", "new_off"}
    \/ o = "p2p_dht_mode" /\ build = "c_no_dht"
    \/ o \in {"db_file", "json_log_file"} /\ input.relative

\* One round of the loop: options come in any order.
GetOpt(o) ==
    /\ place = "getopt"
    /\ todo' = todo \ {o}
    /\ IF o = "help" \/ Refused(o)
       THEN Goes("exit") /\ UNCHANGED <<modes, text>>
       ELSE /\ UNCHANGED place
            /\ modes' = modes \cup ({o} \cap Switches) \cup TurnedOn({o})
            /\ text' = Copied({o} \cap CTexts, "cli")
    /\ UNCHANGED <<build, input, missing, err, tls>>

GetOptEnds ==
    /\ place = "getopt"
    /\ todo = {}
    /\ Goes("main")
    /\ UNCHANGED <<build, input, todo, modes, text, missing, err, tls>>

-----------------------------------------------------------------------------
(* The command line in Rust.                                               *)

\* The "requires" of struct Args.
Requires ==
    [p2p_bootstrap_node |-> {"p2p_dht_mode"},
     oauth2_client_id |-> {"oauth2_client_secret"},
     oauth2_client_secret |-> {"oauth2_client_id"},
     json_log_file |-> {"json_log_mode"},
     tls_cert_file |-> TlsTexts, tls_key_file |-> TlsTexts, tls_listen_address |-> TlsTexts]

\* Bug variant: no "requires".
ClapAcceptsAll(args) == "help" \notin args

ClapAccepts(args) ==
    /\ "help" \notin args
    /\ \A s \in args \cap DOMAIN Requires : Requires[s] \subseteq args

\* parse_args returns an Err; process_cli does not look at the result.
ParseError ==
    /\ Goes("main")
    /\ err' = TRUE

\* An argument that is not UTF-8.
NotUtf8 ==
    /\ place = "clap"
    /\ input.args # {}
    /\ ParseError
    /\ UNCHANGED <<build, input, todo, modes, text, missing, tls>>

\* Args::parse_from exits when the arguments are not accepted.
ParseFrom ==
    /\ place = "clap"
    /\ Goes(IF ClapAccepts(input.args) THEN "flags" ELSE "exit")
    /\ UNCHANGED <<build, input, todo, modes, text, missing, err, tls>>

\* Bug variant: every flag is assigned.
AfterFlagsReset(args) == args \cap Switches

\* "Set booleans": Assigned are assigned, the others only ever turned on.
AfterFlags(args) == (modes \ Assigned) \cup (args \cap Switches)

\* The booleans, and the texts that nothing can go wrong with.
SetFlags ==
    /\ place = "flags"
    /\ Goes("cert")
    /\ modes' = AfterFlags(input.args) \cup TurnedOn(input.args)
    /\ text' = Duplicated(input.args \cap CTexts, "cli")
    /\ UNCHANGED <<build, input, todo, missing, err, tls>>

\* The certificate.  If it is not there, create_tls_cert_and_key asks the user:
\* who may decline, or have cert.pem and key.pem made, or meet an error.
SetCert ==
    /\ place = "cert"
    /\ \/ /\ Goes("key")
          /\ text' = Duplicated(input.args \cap {"tls_cert_file"}, "cli")
          /\ \/ UNCHANGED missing
             \/ /\ "tls_cert_file" \in input.args \cap missing
                /\ missing' \in {missing \ {"tls_cert_file"}, missing \ TlsTexts}
          /\ UNCHANGED err
       \/ /\ "tls_cert_file" \in input.args \cap missing
          /\ ParseError
          /\ UNCHANGED <<text, missing>>
    /\ UNCHANGED <<build, input, todo, modes, tls>>

\* "TLS key file does not exist".
SetKey ==
    /\ place = "key"
    /\ IF "tls_key_file" \in input.args \cap missing
       THEN ParseError /\ UNCHANGED text
       ELSE /\ Goes("rest")
            /\ text' = Duplicated(input.args \cap {"tls_key_file"}, "cli")
            /\ UNCHANGED err
    /\ UNCHANGED <<build, input, todo, modes, missing, tls>>

SetRest ==
    /\ place = "rest"
    /\ Goes("main")
    /\ text' = Duplicated(input.args \cap {"tls_listen_address", "config_file"}, "cli")
    /\ UNCHANGED <<build, input, todo, modes, missing, err, tls>>

-----------------------------------------------------------------------------
(* load_all_configs, in the thread of run_sip_server.                      *)

\* main goes on; it starts the SIP server in Rust if that is wanted.
MainGoesOn ==
    /\ place = "main"
    /\ Goes(IF Rust /\ {"sip_off", "new_off"} \cap modes = {} THEN "file" ELSE "up")
    /\ UNCHANGED <<build, input, todo, modes, text, missing, err, tls>>

\* get_config_file_path and load_file; confy makes a file of defaults if there
\* is none.  Which file it is, is not represented.
LoadFile ==
    /\ place = "file"
    /\ IF input.badfile
       THEN Goes("panicked") /\ UNCHANGED tls
       ELSE Goes("tls_env") /\ tls' = [s \in TlsTexts |-> "file"]
    /\ UNCHANGED <<build, input, todo, modes, text, missing, err>>

ConfigFromEnv ==
    /\ place = "tls_env"
    /\ Goes("tls_cli")
    /\ tls' = [s \in TlsTexts |-> IF s \in input.env THEN "env" ELSE tls[s]]
    /\ UNCHANGED <<build, input, todo, modes, text, missing, err>>

\* config_from_cli: "We just test one".
ConfigFromCli ==
    /\ place = "tls_cli"
    /\ \/ /\ text["tls_cert_file"] = "null"
          /\ Goes("up")
          /\ UNCHANGED tls
       \/ /\ text["tls_cert_file"] # "null"
          /\ \A s \in TlsTexts : text[s] # "null"
          /\ Goes("up")
          /\ tls' = [s \in TlsTexts |-> "cli"]
       \/ /\ text["tls_cert_file"] # "null"
          /\ \E s \in TlsTexts : text[s] = "null"
          /\ Goes("crashed")
          /\ UNCHANGED tls
    /\ UNCHANGED <<build, input, todo, modes, text, missing, err>>

Next ==
    \/ ProcessEnvVars
    \/ \E o \in todo : GetOpt(o)
    \/ GetOptEnds
    \/ NotUtf8 \/ ParseFrom \/ SetFlags \/ SetCert \/ SetKey \/ SetRest
    \/ MainGoesOn \/ LoadFile \/ ConfigFromEnv \/ ConfigFromCli

Spec == Init /\ [][Next]_vars

-----------------------------------------------------------------------------
(* Safety.                                                                 *)

\* The reference: the command line before the environment before the default.
Preferred(s, cli, env, default) ==
    CASE s \in cli -> "cli"
      [] s \in env \ cli -> "env"
      [] OTHER -> default

\* The texts of S that fit when they come from this source.
Fitting(S, source) == {s \in S : <<source, s>> \notin input.long}

\* A started node uses the texts of the command line, else those of the
\* environment, else its defaults, in both builds and in every order of the
\* options.  Texts too long for the buffers count as not given, except on a
\* command line read by Rust, which allocates.  (After an Err the TLS texts may
\* be missing, and after one of to_str() the whole command line.)
TextsByPrecedence ==
    place = "up" /\ ~ err =>
        /\ \A s \in CTexts :
               text[s] = Preferred(s, IF Rust THEN input.args ELSE Fitting(input.args, "cli"),
                                   Fitting(input.env, "env"), "default")
        /\ \A s \in TlsTexts : tls[s] \in {"none", Preferred(s, input.args, input.env, "file")}

\* A mode is on only if the user asked for it, or for the text that implies it;
\* what the command line asks for is on; what only the environment asks for is
\* on, too, but for the six flags parse_args assigns and the variable nobody
\* reads, which EnvironmentEnables is about.
ModesAsAsked ==
    place = "up" /\ ~ err =>
        LET asked(S) == (S \cap Switches) \cup TurnedOn(S)
            lost == IF Rust THEN Assigned \cup {"new_off"} ELSE {"new_off"}
        IN /\ modes \subseteq asked(input.args) \cup asked(input.env)
           /\ asked(input.args) \subseteq modes
           /\ asked(input.env) \ lost \subseteq modes

\* config_from_cli tests one pointer and reads three.  Whatever is given on the
\* command line, it reads no null pointer as long as parse_args came to its end.
TlsTogether == place = "crashed" => err

\* "Settings any of these to `0` will also _enable_ the feature.  We _don't care_
\* what you set it to, just that it's set." (README.md:255; likewise "or use ...
\* env" in the help texts): what the environment asks for is on.
EnvironmentEnables ==
    place = "up" /\ ~ err => (input.env \cap Modes) \cup TurnedOn(input.env) \subseteq modes
=============================================================================
