---------------------------- MODULE ReadOnlyVerbsMC ----------------------------
(***************************************************************************)
(* Six families of behaviours of the read-only verbs:                       *)
(*   triples    a declaration, a record and an actual state that differ in     *)
(*              one scope, whatever they say of it, in every role              *)
(*   files      a document that is odd in one way, as each of the files         *)
(*   identity   two manifests, each as JSON and as YAML                       *)
(*   revisit    descriptions by two processes, and comparisons with them        *)
(*   faults     the same with a record, and one edit or failing write            *)
(*   words      command lines                                               *)
(***************************************************************************)
EXTENDS ReadOnlyVerbsProperties, TLC

CONSTANTS
  p1, p2,     \* the processes
  Families    \* the families of a run

mc_Symmetry == Permutations(Procs)

mc_Text == STRING
mc_PkgFields == {"version", "release", "arch"}
mc_Release == {"version", "release"}

mc_Decimal == ("0" :> "0") @@ ("1" :> "1") @@ ("2" :> "2") @@ ("99" :> "99")
  @@ ("007" :> "7") @@ ("0644" :> "644") @@ ("644" :> "644") @@ ("3000000000" :> "3000000000")
mc_Wide == {"3000000000"}

mc_Extension == ("m" :> Unset) @@ ("a.json" :> "json") @@ ("b.yaml" :> "yaml")
  @@ ("locked" :> Unset) @@ ("applied.json" :> "json") @@ ("manifest.json" :> "json")

-----------------------------------------------------------------------------
(* Documents *)

mc_Texts(e) == [f \in DOMAIN e |-> <<"string", e[f]>>]
mc_Scope(elements) == [array |-> TRUE, attributes |-> EmptyFunction, elements |-> elements]
mc_Doc(scopes) == [meta |-> [format_version |-> <<"int", "1">>], scopes |-> scopes]
mc_File(syntax, doc) == [syntax |-> syntax, doc |-> doc]
mc_Empty == mc_File("empty", EmptyDocument)

mc_Pkg(n, v) == mc_Texts([name |-> n, version |-> v, arch |-> "noarch",
                          release |-> IF v = "" THEN "" ELSE "1"])
mc_Unit(n, state) == mc_Texts([name |-> n, state |-> state])
mc_Etc(n, type, data, owner) ==
  mc_Texts([name |-> n, type |-> type, mode |-> "0644", package_name |-> owner,
            sha256 |-> IF type = "file" THEN data ELSE "",
            target |-> IF type = "link" THEN data ELSE ""])
mc_Repo(alias, enabled) == [alias |-> <<"string", alias>>, enabled |-> <<"bool", enabled>>]

mc_NoDisk == [path \in DOMAIN mc_Extension |-> NoFile]

mc_InMemory(doc) == JsonToManifest(doc).manifest

mc_Host(doc, findings, unreadable, keep) ==
  [actual |-> [mc_InMemory(doc) EXCEPT !.scopes = Thinned(@, {})], findings |-> findings,
   unreadable |-> unreadable, keep |-> keep]

mc_Scenario(h, d, f, n, m) ==
  [host |-> h, disk |-> d, family |-> f, runs |-> n, events |-> m]

mc_Verb(verb, options) == <<Word(verb)>> \o options

-----------------------------------------------------------------------------
(* triples: a declared unit or one of another state, package a perhaps twice,    *)
(* files of another type, content or owner                                    *)

mc_Elements ==
  [packages |-> <<mc_Pkg("a", "1.10"), mc_Pkg("a", "2"), mc_Pkg("b", "1.10"), mc_Pkg("a", "")>>,
   services |-> <<mc_Unit("a", "enabled"), mc_Unit("a", "disabled"),
                  mc_Unit("b", "enabled"), mc_Unit("b", "disabled")>>,
   config_files |-> <<mc_Etc("a", "file", "x", ""), mc_Etc("a", "link", "x", ""),
                      mc_Etc("a", "file", "y", "b"), mc_Etc("sync", "file", "x", ""),
                      mc_Etc("b", "file", "x", "")>>]

\* <<>> for no scope, or the elements of a scope: at most one of a name, but for packages
mc_Choices(s) ==
  {<<>>} \cup {<<S>> : S \in {S \in SUBSET DOMAIN mc_Elements[s] :
     s = "packages" \/ \A i, j \in S : mc_Elements[s][i].name = mc_Elements[s][j].name => i = j}}

\* only a manifest leaves the version of a package open
mc_Concretes(s) == {x \in mc_Choices(s) : s = "packages" /\ x # <<>> => 4 \notin x[1]}

mc_Written(s, x) ==
  IF x = <<>> THEN mc_Doc(EmptyFunction)
  ELSE LET picked == SelectSeq([i \in DOMAIN mc_Elements[s] |-> i], LAMBDA i : i \in x[1]) IN
       mc_Doc(s :> mc_Scope([k \in DOMAIN picked |-> mc_Elements[s][picked[k]]]))

mc_Triples ==
  UNION {{<<"triples", s, x, y, z>> :
            x \in mc_Choices(s), y \in mc_Concretes(s), z \in mc_Concretes(s)} :
         s \in DOMAIN mc_Elements}

mc_Triple(s, desired, applied, actual) ==
  mc_Scenario(mc_Host(actual, EmptyFunction, {}, {"b"}),
    [mc_NoDisk EXCEPT !["a.json"] = mc_File("json", desired), !["b.yaml"] = mc_File("yaml", desired),
                      !["applied.json"] = mc_File("json", applied), !["m"] = mc_File("yaml", actual)],
    "triples", 1, 0)

mc_TripleLines ==
  {mc_Verb("diff", <<Option("manifest-path", "a.json"), Option("keep-list", "k")>>),
   mc_Verb("diff", <<Option("manifest-path", "b.yaml"), Option("state-path", "m"),
                     Option("manifest-format", "yaml")>>),
   mc_Verb("verify", <<Option("manifest-path", "b.yaml")>>),
   mc_Verb("verify", <<Option("state-path", "m"), Option("format", "yaml"), Option("keep-list", "k")>>),
   mc_Verb("status", <<>>)}
-----------------------------------------------------------------------------
(* files *)

mc_Plain == [packages |-> mc_Scope(<<mc_Pkg("a", "1.10")>>),
             config_files |-> mc_Scope(<<mc_Etc("a", "file", "x", "")>>)]

mc_Findings == [unmanaged_files |-> mc_Scope(<<mc_Texts([name |-> "lib"])>>)]

mc_With(s, x) == mc_Doc(mc_Plain @@ (s :> x))
mc_Package(f, v) == mc_Doc([mc_Plain EXCEPT !.packages.elements[1][f] = v])
mc_Repository(f, v) == mc_With("repositories", mc_Scope(<<[alias |-> <<"string", "r">>, url |-> <<"string", "u">>] @@ (f :> v)>>))

mc_OddDocs ==
  {mc_Doc(mc_Plain), mc_Doc(EmptyFunction),
   mc_With("services", [mc_Scope(<<>>) EXCEPT !.array = FALSE]),
   mc_With("services", [mc_Scope(<<>>) EXCEPT !.attributes = "init" :> <<"composite", "">>]),
   mc_With("services", [mc_Scope(<<>>) EXCEPT !.attributes = "init" :> <<"int", "1">>]),
   mc_With("unmanaged_files", mc_Scope(<<>>)), mc_Doc(mc_Plain @@ mc_Findings)}
  \cup {[mc_Doc(mc_Plain) EXCEPT !.meta.format_version = v] :
          v \in {<<"int", "2">>, <<"int", "3000000000">>, <<"string", "1">>, <<"composite", "">>}}
  \cup {[mc_Doc(mc_Plain) EXCEPT !.meta = [generator |-> v]] :
          v \in {<<"string", "other">>, <<"composite", "">>}}
  \cup {mc_Package("name", v) : v \in {<<"composite", "">>, <<"null", "~">>, <<"bool", "true">>}}
  \cup {mc_Package("version", v) : v \in {<<"string", "007">>, <<"int", "2">>, <<"string", "null">>}}
  \cup {mc_Repository("enabled", v) : v \in {<<"string", "yes">>, <<"int", "1">>, <<"int", "0">>, <<"null", "~">>}}
  \cup {mc_Repository("priority", v) : v \in {<<"int", "3000000000">>, <<"bool", "false">>, <<"int", "1">>}}

mc_OddFiles ==
  {mc_File(syntax, doc) : syntax \in {"json", "yaml"}, doc \in mc_OddDocs}
  \cup {NoFile, mc_Empty, Garbled}

mc_PlainHost == mc_Host(mc_Doc(mc_Plain), EmptyFunction, {}, {})

mc_Odd == {"files"} \X {"m", "a.json", "applied.json"} \X mc_OddFiles

mc_OddOne(path, file) ==
  mc_Scenario(mc_PlainHost,
    [[mc_NoDisk EXCEPT !["m"] = mc_File("yaml", mc_Doc(mc_Plain)),
                       !["a.json"] = mc_File("json", mc_Doc(mc_Plain)),
                       !["applied.json"] = mc_File("json", mc_Doc(mc_Plain))] EXCEPT ![path] = file],
    "files", 1, 0)

mc_FileLines ==
  {mc_Verb(verb, <<Option("manifest-path", "m")>> \o o) : verb \in {"diff", "verify"},
     o \in {<<Option("format", "json")>>, <<Option("format", "yaml"), Option("state-path", "a.json")>>,
            <<Option("manifest-format", "yaml"), Option("state-path", "a.json")>>}}
  \cup {mc_Verb("verify", <<Option("scope", "full"), Option("state-path", "a.json")>>),
        mc_Verb("verify", <<>>), mc_Verb("diff", <<>>), mc_Verb("status", <<>>)}

-----------------------------------------------------------------------------
(* identity *)

mc_Two(x, y) == mc_Doc([packages |-> mc_Scope(<<x, y>>)])

\* a mode that YAML takes for the numeral that it is
mc_Mode(file) == [file EXCEPT !.mode = <<"string", "644">>]
mc_Base == [config_files |-> mc_Scope(<<mc_Mode(mc_Etc("a", "file", "x", "")),
                                        mc_Mode(mc_Etc("b", "link", "x", "b"))>>)]
mc_Turned == [mc_Base EXCEPT !.config_files.elements = <<@[2], @[1]>>]
mc_More(s, x) == mc_Doc(mc_Base @@ (s :> x))

mc_Identities ==
  {mc_Doc(EmptyFunction), mc_Doc(mc_Base), mc_Doc(mc_Turned), mc_Doc([packages |-> mc_Scope(<<>>)]),
   mc_Two(mc_Pkg("a", "1.10"), mc_Pkg("b", "2")), mc_Two(mc_Pkg("b", "2"), mc_Pkg("a", "1.10")),
   mc_Two(mc_Pkg("b", "2"), mc_Pkg("a", "1.1")), mc_Two(mc_Pkg("a", "2"), mc_Pkg("a", "1.10")),
   mc_More("repositories", mc_Scope(<<mc_Repo("r", "true"), mc_Repo("s", "false")>>)),
   mc_More("repositories", mc_Scope(<<mc_Repo("s", "false"), [alias |-> <<"string", "r">>]>>)),
   mc_More("services", mc_Scope(<<mc_Unit("a", "enabled"), mc_Unit("b", "masked")>>)),
   mc_More("services", mc_Scope(<<mc_Unit("b", "masked"), mc_Unit("a", "enabled")>>)),
   mc_More("services", [mc_Scope(<<>>) EXCEPT !.attributes = "init_system" :> <<"string", "systemd">>]),
   mc_More("unmanaged_files", mc_Scope(<<>>)),
   [mc_Doc(mc_Base) EXCEPT !.meta = [created_at |-> <<"string", "today">>]],
   [mc_Doc(mc_Base) EXCEPT !.meta = [generator |-> <<"string", "other">>]]}

mc_Pairs == {"identity"} \X mc_Identities \X mc_Identities

mc_Pair(x, y) ==
  mc_Scenario(mc_PlainHost,
    [mc_NoDisk EXCEPT !["a.json"] = mc_File("json", x), !["b.yaml"] = mc_File("yaml", y)],
    "identity", 2, 0)

mc_PairLines ==
  {mc_Verb("verify", <<Option("manifest-path", path), Option("state-path", "m")>>) :
     path \in {"a.json", "b.yaml"}}

-----------------------------------------------------------------------------
(* revisit *)

mc_Etcs(data) == mc_Scope(<<mc_Etc("a", "file", data, ""), mc_Etc("k", "file", "x", "")>>)
mc_Units == mc_Scope(<<mc_Unit("a", "enabled"), mc_Unit("b", "disabled")>>)
mc_Machine(data, version) == mc_Doc([packages |-> mc_Scope(<<mc_Pkg("a", version), mc_Pkg("b", "2")>>),
                                     services |-> mc_Units, config_files |-> mc_Etcs(data)])
mc_Integrity == [unmanaged_files |-> [attributes |-> EmptyFunction,
  elements |-> <<ParseRecord(RecordType.unmanaged_files, mc_Texts([name |-> "lib"]))>>]]

mc_First == mc_Host(mc_Machine("x", "1.10"), mc_Integrity, {}, {"k"})
mc_Machines ==
  {mc_First, mc_Host(mc_Machine("y", "007"), EmptyFunction, {}, {"k"}),
   mc_Host(mc_Machine("x", "1.10"), EmptyFunction, {"a"}, {"k"}),
   mc_Host(mc_Doc(EmptyFunction), EmptyFunction, {}, {})}

mc_ManyVersions ==
  mc_Host(mc_Two(mc_Pkg("gpg-pubkey", "x"), mc_Pkg("gpg-pubkey", "y")), EmptyFunction, {}, {})

mc_Record == [mc_NoDisk EXCEPT !["applied.json"] = mc_File("json", mc_Machine("x", "1.10"))]

mc_Out(path, more) == mc_Verb("describe", <<Option("out", path)>> \o more)
mc_Against(verb, path, more) == mc_Verb(verb, <<Option("manifest-path", path)>> \o more)

mc_FaultLines ==
  {mc_Out("a.json", <<>>), mc_Out(RecordPath, <<>>), mc_Out("b.yaml", <<Option("on-unreadable", "warn")>>),
   mc_Out("locked", <<>>), mc_Verb("status", <<Option("keep-list", "k")>>),
   mc_Against("diff", "a.json", <<>>), mc_Against("verify", "b.yaml", <<Option("on-unreadable", "warn")>>)}

mc_RevisitLines ==
  mc_FaultLines \cup
  {mc_Out("b.yaml", <<Option("scope", "full")>>), mc_Out("a.json", <<Option("keep-list", "k")>>),
   mc_Against("verify", "a.json", <<Option("state-path", "b.yaml"), Option("keep-list", "k")>>),
   mc_Against("verify", "a.json", <<Option("state-path", "b.yaml"), Option("format", "yaml")>>),
   mc_Against("verify", "b.yaml", <<Option("scope", "full")>>)}

-----------------------------------------------------------------------------
(* words *)

mc_Args == {Word("diff"), Word("describe"), Word("frobnicate"), Word("declarative"), Word(""),
            Word("help"), <<"flag", "--out">>, Option("format", "yaml"), Option("format", "xml"),
            Option("scope", "full"), Option("colour", "red"), Option("mode", "auto"),
            Option("manifest-path", "a.json")}

mc_WordLines == {<<>>} \cup [1..1 -> mc_Args] \cup [1..2 -> mc_Args]
  \cup {<<Option("scope", "full"), x, y>> : x, y \in mc_Args}

-----------------------------------------------------------------------------
mc_Of(f) ==
  CASE f = "triples" -> mc_Triples
    [] f = "files" -> mc_Odd
    [] f = "identity" -> mc_Pairs
    [] f \in {"revisit", "faults"} -> {<<f, h>> : h \in mc_Machines}
    [] OTHER -> {<<f>>}

mc_Scenarios == UNION {mc_Of(f) : f \in Families}

mc_Start(k) ==
  CASE k[1] = "triples" -> mc_Triple(k[2], mc_Written(k[2], k[3]), mc_Written(k[2], k[4]), mc_Written(k[2], k[5]))
    [] k[1] = "files" -> mc_OddOne(k[2], k[3])
    [] k[1] = "identity" -> mc_Pair(k[2], k[3])
    [] k[1] = "revisit" -> mc_Scenario(k[2], mc_NoDisk, "revisit", 3, 0)
    [] k[1] = "faults" -> mc_Scenario(k[2], mc_Record, "faults", 2, 1)
    [] k[1] = "words" -> mc_Scenario(mc_PlainHost, mc_NoDisk, "words", 1, 0)
    [] k[1] = "versions" -> mc_Scenario(mc_ManyVersions, mc_NoDisk, "revisit", 2, 0)

mc_Lines == ("triples" :> mc_TripleLines) @@ ("files" :> mc_FileLines) @@ ("identity" :> mc_PairLines)
  @@ ("revisit" :> mc_RevisitLines) @@ ("faults" :> mc_FaultLines) @@ ("words" :> mc_WordLines)

mc_Hosts == [f \in DOMAIN mc_Lines |-> mc_Machines]
=============================================================================
