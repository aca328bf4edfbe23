------------------------------ MODULE CommandLine ------------------------------
(***************************************************************************)
(* The command line (main.cpp, cli.cpp, config.cpp): parse_args,             *)
(* build_config, and the order in which dispatch judges them.                *)
(*                                                                         *)
(* An argument is one of                                                    *)
(*   <<"word", w>>        a bare word; --version, --help and -h are the words   *)
(*                        version and help                                   *)
(*   <<"option", k, v>>   k=v                                               *)
(*   <<"flag", f>>        any other word that begins with a dash             *)
(***************************************************************************)
EXTENDS ManifestIO

Word(w) == <<"word", w>>
Option(k, v) == <<"option", k, v>>

Modes == {"auto", "external", "internal"}
Formats == {"json", "yaml"}

(* The options that have an enumeration of values, and the others. *)
Enumerated ==
  [k \in {"transaction-mode", "mode", "manifest-format", "format", "on-unreadable", "scope",
          "signature-verification"} |->
     CASE k \in {"transaction-mode", "mode"}   -> Modes
       [] k \in {"manifest-format", "format"}  -> Formats
       [] k = "on-unreadable"                  -> {"error", "warn"}
       [] k = "scope"                          -> {"etc", "full"}
       [] k = "signature-verification"         -> {"on", "off"}]

FreeKeys == {"manifest-path", "state-path", "root", "out", "repo-lock", "content-store",
             "keep-list", "keyring", "activation-policy", "applied-root"}

KnownKeys == FreeKeys \cup DOMAIN Enumerated

-----------------------------------------------------------------------------
(* parse_args *)

(* Where the bare words are that are not commands of the dispatcher.  An empty   *)
(* one is passed over until there is a verb.                                  *)
Words(argv) ==
  {i \in DOMAIN argv : argv[i][1] = "word" /\ argv[i][2] \notin {"version", "help"}}

Asks(argv, w) == \E i \in DOMAIN argv : argv[i] = Word(w)

Verb_mutant(argv) ==
  IF argv # <<>> /\ argv[1][1] = "word" THEN argv[1][2] ELSE ""

Verb(argv) ==
  LET named == {i \in Words(argv) : argv[i][2] # ""} IN
  IF named = {} THEN "" ELSE argv[CHOOSE i \in named : \A j \in named : i <= j][2]

(* A flag, an unknown option, a word after the verb. *)
ArgsOk(argv) ==
  /\ \A i \in DOMAIN argv : argv[i][1] # "flag" /\ (argv[i][1] = "option" => argv[i][2] \in KnownKeys)
  /\ \A i, j \in Words(argv) : argv[i][2] # "" => j <= i

(* The last of several values of a key counts. *)
Options(argv) ==
  LET At(k) == {i \in DOMAIN argv : argv[i][1] = "option" /\ argv[i][2] = k} IN
  [k \in {k \in KnownKeys : At(k) # {}} |->
     argv[CHOOSE i \in At(k) : \A j \in At(k) : j <= i][3]]

-----------------------------------------------------------------------------
(* build_config *)

ConfigOk(o) == \A k \in DOMAIN o \cap DOMAIN Enumerated : o[k] \in Enumerated[k]

Given(o, k, default) == IF k \in DOMAIN o THEN o[k] ELSE default

(* mode is an alias of transaction-mode, and beats it. *)
BuildConfig(o) ==
  [transaction_mode |-> Given(o, "mode", Given(o, "transaction-mode", "auto")),
   manifest_path    |-> Given(o, "manifest-path", Unset),
   manifest_format  |-> Given(o, "manifest-format", "json"),
   explicit_format  |-> Given(o, "format", Unset),
   on_unreadable    |-> Given(o, "on-unreadable", "error"),
   scope            |-> Given(o, "scope", "etc"),
   state_path       |-> Given(o, "state-path", Unset),
   root             |-> Given(o, "root", "/"),
   out              |-> Given(o, "out", Unset),
   repo_lock        |-> Given(o, "repo-lock", Unset),
   content_store    |-> Given(o, "content-store", Unset),
   keep_list        |-> Given(o, "keep-list", Unset),
   signature_verification |-> Given(o, "signature-verification", "on"),
   keyring          |-> Given(o, "keyring", Unset),
   activation_policy |-> Given(o, "activation-policy", "reboot"),
   applied_root     |-> Given(o, "applied-root", "/")]

-----------------------------------------------------------------------------
(* dispatch: a verb to run with its configuration, or an exit code. *)

VerbNames == {"apply", "diff", "verify", "status", "describe", "init"}

RunVerb(verb, cfg) == [verb |-> verb, cfg |-> cfg, exit |-> Unset]
JustExit(code) == [verb |-> "none", cfg |-> BuildConfig(<<>>), exit |-> code]

(* main drops the word under which zypper knows the program. *)
Arguments(argv) ==
  IF argv # <<>> /\ argv[1] = Word("declarative") THEN Tail(argv) ELSE argv

Dispatch(line) ==
  LET argv == Arguments(line)
      o == Options(argv)
      verb == Verb(argv)
  IN IF Asks(argv, "version") \/ Asks(argv, "help") THEN JustExit(0)
     ELSE IF ~ArgsOk(argv) \/ ~ConfigOk(o) THEN JustExit(2)
     ELSE IF verb = "" THEN JustExit(0)
     ELSE IF verb \notin VerbNames THEN JustExit(2)
     ELSE IF "scope" \in DOMAIN o /\ verb \notin {"describe", "verify"} THEN JustExit(2)
     ELSE RunVerb(verb, BuildConfig(o))
=============================================================================
