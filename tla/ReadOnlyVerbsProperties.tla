------------------------ MODULE ReadOnlyVerbsProperties ------------------------
(***************************************************************************)
(* What describe, diff, verify and status promise, whatever the form of the   *)
(* command line and of the files, and what the two comparisons promise each    *)
(* other over the documents that these verbs load.                          *)
(***************************************************************************)
EXTENDS ReadOnlyVerbs, Functions

CONSTANTS
  Concrete,   \* what the newest version of a package turns out to be
  Text        \* the strings

-----------------------------------------------------------------------------
(* What the constants are *)

(* A switch is true or false, and a number a numeral. *)
Switches(e) ==
  \A f \in DOMAIN RecordType.repositories \cap DOMAIN e :
    LET kind == RecordType.repositories[f].kind IN
    /\ kind = "bool" => e[f] \in {"true", "false"}
    /\ kind = "int" => e[f] \in DOMAIN Decimal

OfItsKind(type, e) ==
  [f \in {f \in DOMAIN type \cap DOMAIN e : e[f][1] = type[f].kind} |-> e[f][2]]

(* A document and a manifest, as far as the properties rely on their form. *)
FormOfDocument(doc) ==
  /\ DOMAIN doc = {"meta", "scopes"} /\ DOMAIN doc.scopes \subseteq Scopes
  /\ \A s \in DOMAIN doc.scopes :
       /\ DOMAIN doc.scopes[s] = {"array", "attributes", "elements"}
       /\ \A i \in DOMAIN doc.scopes[s].elements :
            LET e == doc.scopes[s].elements[i] IN
            /\ s = "packages" => \A f \in DOMAIN e : e[f][2] \in Text
            /\ s = "repositories" => Switches(OfItsKind(RecordType[s], e))

FormOfFile(file) == file # NoFile => FormOfDocument(file.doc)

FormOfManifest(m) ==
  /\ DOMAIN m = {"meta", "scopes"} /\ DOMAIN m.scopes \subseteq Scopes
  /\ \A s \in DOMAIN m.scopes :
       /\ DOMAIN m.scopes[s] = {"attributes", "elements"}
       /\ s \in {"packages", "repositories", "services"} =>
            m.scopes[s].elements \in Seq([DOMAIN RecordType[s] -> Text])
       /\ s = "repositories" =>
            \A i \in DOMAIN m.scopes[s].elements : LET e == m.scopes[s].elements[i] IN
              Switches(e) /\ e.priority \notin Wide

FormOfHost(h) ==
  /\ DOMAIN h = {"actual", "findings", "unreadable", "keep"}
  /\ FormOfManifest(h.actual) /\ DOMAIN h.actual.scopes \cap Observational = {}
  /\ h.actual.meta.format_version = "1"
  /\ DOMAIN h.findings \subseteq Observational
  /\ \A s \in DOMAIN h.findings : DOMAIN h.findings[s] = {"attributes", "elements"}

(* Files and hosts have the form that the readers of the program give them, the   *)
(* arguments are in a sequence, the paths in them are on the disk, and what stands    *)
(* for the absence of a value is none.                                          *)
ASSUME ScenarioAssumption ==
  \A k \in Scenarios :
    /\ Start(k).runs \in Nat /\ Start(k).events \in Nat
    /\ DOMAIN Start(k).disk = DOMAIN Extension /\ FormOfHost(Start(k).host)
    /\ \A path \in DOMAIN Extension : FormOfFile(Start(k).disk[path])
ASSUME FamilyAssumption ==
  \A f \in {Start(k).family : k \in Scenarios} :
    /\ \A h \in Hosts[f] : FormOfHost(h)
    /\ \A line \in Lines[f] : LET cfg == Dispatch(line).cfg IN
         /\ line \in Seq({line[i] : i \in DOMAIN line})
         /\ {cfg.out, cfg.state_path, cfg.manifest_path} \subseteq DOMAIN Extension \cup {Unset}
ASSUME PathAssumption ==
  /\ {RecordPath, DefaultManifest} \subseteq DOMAIN Extension /\ Unset \notin DOMAIN Extension
  /\ \A path \in DOMAIN Extension : Extension[path] \in Formats \cup {Unset}
ASSUME SentinelAssumption ==
  /\ Unset \notin {0, 1, 2, Aborted} /\ Unset \notin Formats
  /\ Absent \notin SUBSET [DOMAIN RecordType.packages -> Text]
ASSUME TextAssumption ==
  /\ PkgFields = DOMAIN RecordType.packages \ {"name"} /\ Release \subseteq PkgFields
  /\ {"", Concrete} \subseteq Text /\ \A t \in DOMAIN Decimal : Decimal[t] \in Text
  /\ {"true", "false"} \cap DOMAIN Decimal = {}
  /\ "1" \in DOMAIN Decimal /\ Decimal["1"] = "1" /\ "1" \notin Wide

(* Exits have a code, and a comparison that was printed an exit of 0 or 1.      *)
TypeOK ==
  /\ runs \in Nat /\ events \in Nat
  /\ \A f \in fresh : f.path \in DOMAIN disk /\ disk[f.path].syntax \in Formats
  /\ \A p \in Procs :
       /\ run[p].pc \in {"idle", "manifest", "record", "actual", "compare", "open", "write", "done"}
       /\ run[p].exit \in {Unset, 0, 1, 2, Aborted}
       /\ run[p].exit # Unset <=> run[p].pc = "done"
       /\ run[p].report # Unset => run[p].exit \in {0, 1}
       /\ run[p].pc \in {"open", "write"} => run[p].cfg.out \in DOMAIN disk

Ends(p) == Alive(p) /\ run'[p].pc = "done"

-----------------------------------------------------------------------------
(* What a document says *)

(* Every value has the kind that the schema gives its field. *)
OfType(type, e) == \A f \in DOMAIN type \cap DOMAIN e : e[f][1] = type[f].kind

Conforms(doc) ==
  /\ OfType(Meta, doc.meta)
  /\ \A s \in DOMAIN doc.scopes :
       /\ doc.scopes[s].array
       /\ \A k \in DOMAIN doc.scopes[s].attributes : doc.scopes[s].attributes[k][1] = "string"
       /\ \A i \in DOMAIN doc.scopes[s].elements : OfType(RecordType[s], doc.scopes[s].elements[i])

Says(type, e) == [f \in DOMAIN type |-> IF f \in DOMAIN e THEN e[f][2] ELSE type[f].default]

Authored(doc) ==
  [meta |-> Says(Meta, doc.meta),
   scopes |-> [s \in DOMAIN doc.scopes |->
     [attributes |-> [k \in DOMAIN doc.scopes[s].attributes |-> doc.scopes[s].attributes[k][2]],
      elements |-> [i \in DOMAIN doc.scopes[s].elements |->
                      Says(RecordType[s], doc.scopes[s].elements[i])]]]]

(* Neither a numeral that is written otherwise, nor a word that stands for null. *)
PlainText(t) == t \notin {"null", "~"} /\ (t \in DOMAIN Decimal => Decimal[t] = t)

PlainBut(file, fields) ==
  /\ file # NoFile /\ file.syntax \in Formats /\ Conforms(file.doc)
  /\ \A f \in DOMAIN file.doc.meta : PlainText(file.doc.meta[f][2])
  /\ \A s \in DOMAIN file.doc.scopes : \A i \in DOMAIN file.doc.scopes[s].elements :
       LET e == file.doc.scopes[s].elements[i] IN
       \A f \in DOMAIN e \ fields : PlainText(e[f][2])

-----------------------------------------------------------------------------
(* Verdicts *)

Declaration(r) == IF r.text # NoFile THEN r.text ELSE disk[RecordPath]

Observed(r) ==
  LET m == IF r.verb # "status" /\ r.cfg.state_path # Unset
             THEN Authored(disk[r.cfg.state_path].doc)
           ELSE DescribeActualState(r.cfg.on_unreadable,
                  IF r.verb = "verify" THEN r.cfg.scope ELSE "etc",
                  LoadKeepList(r.cfg)).manifest
  IN IF r.verb = "verify" /\ r.cfg.scope = "etc" THEN Without(m, Observational) ELSE m

Verdict(p) ==
  LET r == run'[p]
      sources == {Declaration(r)}
        \cup (IF r.verb = "diff" /\ disk[RecordPath] # NoFile THEN {disk[RecordPath]} ELSE {})
        \cup (IF r.verb = "status" \/ r.cfg.state_path = Unset THEN {}
              ELSE {disk[r.cfg.state_path]})
  IN Ends(p) /\ r.report # Unset /\ ~r.disturbed /\ (\A f \in sources : PlainBut(f, {"mode"})) =>
       LET desired == Compared(Without(Authored(Declaration(r).doc),
                                       IF r.text = NoFile THEN {} ELSE Observational))
           drift == ComputeDrift(Compared(Observed(r)), desired, LoadKeepList(r.cfg))
       IN /\ r.report.drift = drift
          /\ r.exit = IF r.verb = "verify" /\ ~DriftEmpty(drift) THEN 1 ELSE 0
          /\ r.verb = "diff" => r.report.plan =
               ComputeIntentDiff(desired, IF disk[RecordPath] = NoFile THEN EmptyManifest
                                          ELSE Compared(Authored(disk[RecordPath].doc)))

(* verb_diff, verb_verify, verb_status: when nothing changes under its hands, a  *)
(* verb that reports reports the drift of what it observed from what the         *)
(* declaration says, whether that is JSON or YAML, a manifest or the record,       *)
(* and whether the host is read live or from a dump; verify exits 0 if and only    *)
(* if there is none, and the plan of diff is that of the documents.  The mode of    *)
(* a file is not compared, so its text may be one that YAML rewrites.              *)
VerdictFaithful == [][\A p \in Procs : Verdict(p)]_vars

Legible(r, f) ==
  LET format == FormatOf(r.cfg, f.path) IN
  format = "yaml" \/ disk[f.path].syntax = format

(* What the run uses for the actual state is the host without a full scan.      *)
SeesDump(r, f) ==
  /\ r.cfg.state_path = f.path /\ Legible(r, f)
  /\ f.cfg.keep_list = r.cfg.keep_list
  /\ f.cfg.scope = "etc" \/ (r.verb = "verify" /\ r.cfg.scope = "etc")

SeesLive(r) ==
  /\ r.cfg.state_path = Unset
  /\ host.unreadable = {} \/ r.cfg.on_unreadable = "warn"
  /\ r.verb = "verify" => r.cfg.scope = "etc"

(* The run compares an unchanged host with a finished description of it, and can    *)
(* read what else it reads.                                                      *)
Revisits(p, Precondition(_)) ==
  LET r == run'[p] IN
  /\ Ends(p) /\ r.verb \in {"diff", "verify"} /\ ~r.disturbed
  /\ r.verb = "diff" => LoadAppliedRecord(disk[RecordPath]).status \in {"ok", "absent"}
  /\ \E f \in fresh : /\ r.cfg.manifest_path = f.path /\ Legible(r, f)
                      /\ f.cfg.scope = "etc" /\ f.cfg.keep_list = r.cfg.keep_list
                      /\ Precondition(disk[f.path])
  /\ SeesLive(r) \/ \E f \in fresh : SeesDump(r, f) /\ Precondition(disk[f.path])

Clean(r) == r.exit = 0 /\ DriftEmpty(r.report.drift)

(* No package is installed in several versions, and no path or unit is there twice. *)
NamesOnce(file) ==
  \A s \in {"packages", "services", "config_files"} \cap DOMAIN file.doc.scopes :
    LET e == file.doc.scopes[s].elements IN
    \A i, j \in DOMAIN e : e[i].name = e[j].name => i = j

(* verb_describe, verb_diff, verb_verify: a host is what it was described to be.    *)
(* A diff or a verify of an unchanged host against a finished description of its     *)
(* /etc, live or with a finished description for the actual state, finds no drift     *)
(* and exits 0, whatever other describers write meanwhile, if no name is there        *)
(* twice, as that of a package in two versions is, nothing but a mode is a text that    *)
(* YAML rewrites, and, for a diff, the record is absent or can be read.               *)
DescribedIsClean ==
  [][\A p \in Procs :
       Revisits(p, LAMBDA f : PlainBut(f, {"mode"}) /\ NamesOnce(f)) => Clean(run'[p])]_vars

-----------------------------------------------------------------------------
(* Identity *)

Elems(m, s) == {m.scopes[s].elements[i] : i \in DOMAIN m.scopes[s].elements}

SameModel(m, n) ==
  /\ m.meta.format_version = n.meta.format_version /\ m.meta.generator = n.meta.generator
  /\ DOMAIN m.scopes = DOMAIN n.scopes
  /\ \A s \in DOMAIN m.scopes : /\ m.scopes[s].attributes = n.scopes[s].attributes
                                /\ Elems(m, s) = Elems(n, s)

(* An identity key names one element. *)
Keyed(m) ==
  \A s \in DOMAIN m.scopes : \A i, j \in DOMAIN m.scopes[s].elements :
    (\A f \in IdentityKey[s] : m.scopes[s].elements[i][f] = m.scopes[s].elements[j][f]) => i = j

PlainAttributes(file) ==
  \A s \in DOMAIN file.doc.scopes : LET a == file.doc.scopes[s].attributes IN
    \A k \in DOMAIN a : PlainText(a[k][2])

(* canonical_hash: two manifests, read from whatever files, have the same        *)
(* identity if and only if they say the same but for the order of elements and      *)
(* the time and hash in meta.                                                  *)
IdentityIsModel ==
  \A p, q \in Procs :
    run[p].sha # Unset /\ run[q].sha # Unset
      /\ (\A f \in {run[p].text, run[q].text} : PlainBut(f, {}) /\ PlainAttributes(f)) =>
        LET m == Without(Authored(run[p].text.doc), Observational)
            n == Without(Authored(run[q].text.doc), Observational) IN
        Keyed(m) /\ Keyed(n) => (run[p].sha = run[q].sha <=> SameModel(m, n))

-----------------------------------------------------------------------------
(* The command line *)

(* print_usage: options in any position.  A command line of options with         *)
(* different keys and one word is understood alike in every order.               *)
Unambiguous(argv) ==
  /\ \A i, j \in DOMAIN argv :
       argv[i][1] = argv[j][1] /\ (argv[i][1] = "option" => argv[i][2] = argv[j][2]) => i = j
  /\ \A i \in DOMAIN argv : argv[i] # Word("declarative")

PositionFree ==
  [][\A p \in Procs : LET argv == run'[p].argv IN
       argv # run[p].argv /\ Unambiguous(argv) =>
         \A perm \in Bijection(DOMAIN argv, DOMAIN argv) :
           Dispatch([i \in DOMAIN argv |-> argv[perm[i]]]) = Dispatch(argv)]_vars

-----------------------------------------------------------------------------
(* The two comparisons, over the documents of a diff or a verify that ended *)

Finished(p, verb) == run[p].verb = verb /\ run[p].report # Unset

(* What carrying out the work of an intent diff makes of a state. *)
Replace(S, T) == {x \in S : x.name \notin NamesOf(T)} \cup T

Newest(x) == [k \in DOMAIN x |->
                IF k \in PkgFields /\ x[k] = Wildcard THEN Concrete ELSE x[k]]

CarriedOut(a, d) ==
  [a EXCEPT
     !.packages = Replace({x \in Elements(@) : x.name \notin d.packages_remove},
                          {Newest(x) : x \in d.packages_install}),
     !.config_files = Replace({x \in Elements(@) : x.name \notin d.files_delete},
                              d.files_write),
     !.services = Replace(Elements(@), d.units_change)]

(* Files are undeclared only of a document that manages them. *)
ManagedDrift(a, m, keep) ==
  LET r == ComputeDrift(a, m, keep) IN
  IF m.config_files = Absent THEN [r EXCEPT !.files_extra = {}] ELSE r

OneOfEach(scope) == \A x, y \in Elements(scope) : x.name = y.name => x = y

(* What the rpmdb reports of most packages, and a record therefore names: one of   *)
(* each, and nothing left open.                                               *)
IsLock(scope) ==
  /\ scope # Absent /\ OneOfEach(scope)
  /\ \A x \in scope, k \in PkgFields : x[k] # Wildcard

(* verb_apply relies on it between converging and post-verify: on a system that  *)
(* is what the record says, the work listed by compute_intent_diff is all that     *)
(* compute_drift will ask for, in every scope the manifest manages, if it names      *)
(* each package, file and unit once.                                           *)
IntentSuffices ==
  \A p \in Procs : Finished(p, "diff") =>
    LET desired == Compared(run[p].desired)
        applied == Compared(run[p].record)
        actual == Compared(Without(run[p].actual, Observational))
        keep == LoadKeepList(run[p].cfg)
    IN (\A s \in {"packages", "config_files", "services"} : OneOfEach(desired[s]))
         /\ DriftEmpty(ComputeDrift(actual, applied, keep)) =>
         DriftEmpty(ManagedDrift(CarriedOut(actual, ComputeIntentDiff(desired, applied)), desired, keep))

(* verify in three languages: against a record of locked packages, and with        *)
(* nothing installed that the record does not name, the C++, Go and Rust programs   *)
(* agree on whether the packages drifted.                                       *)
TranslationsAgreeOnLocks ==
  \A p \in Procs : Finished(p, "verify") /\ run[p].cfg.manifest_path = Unset =>
    LET applied == Compared(run[p].record)
        actual == Compared(run[p].actual) IN
    IsLock(applied.packages) /\ IsLock(actual.packages)
      /\ NamesOf(actual.packages) \subseteq NamesOf(applied.packages) =>
        LET cpp == PackagesDivergent(actual, applied)
            go  == GoPackagesDivergent(actual, applied)
            rs  == RsPackagesDivergent(actual, applied) IN
        (cpp = {}) = (go = {}) /\ (cpp = {}) = (rs = {})

-----------------------------------------------------------------------------
(* What the specification says and the program does not do *)

(* diff: on a freshly described manifest and an unchanged machine, drift is empty.    *)
(* compute_drift looks up a package by its name, and finds the last of several         *)
(* versions.                                                                     *)
FreshlyDescribedHasNoDrift ==
  [][\A p \in Procs :
       run'[p].verb = "diff" /\ Revisits(p, LAMBDA f : TRUE) => Clean(run'[p])]_vars
=============================================================================
