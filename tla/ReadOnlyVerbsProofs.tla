-------------------------- MODULE ReadOnlyVerbsProofs --------------------------
(***************************************************************************)
(* Theorems about the read-only verbs: their types, that a verdict is that   *)
(* of the documents, and what the comparisons promise each other.           *)
(***************************************************************************)
EXTENDS ReadOnlyVerbsProperties, FiniteSetTheorems, SequenceTheorems, TLAPS

-----------------------------------------------------------------------------
(* The comparisons *)

Package == [DOMAIN RecordType.packages -> Text]

LEMMA PackageFields ==
  /\ DOMAIN RecordType.packages = {"name", "version", "release", "arch"}
  /\ PkgFields = {"version", "release", "arch"}
  /\ Release \subseteq PkgFields
BY TextAssumption DEF RecordType

LEMMA NamedOnly ==
  ASSUME NEW S, \A x, y \in S : x.name = y.name => x = y, NEW e \in S
  PROVE  Named(S, e.name) = e
BY DEF Named

LEMMA NamedSame ==
  ASSUME NEW S, NEW T, NEW n, \A e : (e \in S /\ e.name = n) <=> (e \in T /\ e.name = n)
  PROVE  Named(S, n) = Named(T, n)
BY Zenon DEF Named

(* The newest version of a package is one that was asked for. *)
LEMMA NewestMatches ==
  ASSUME NEW x \in Package
  PROVE  Newest(x) \in Package /\ Newest(x).name = x.name /\ PkgMatches(x, Newest(x))
<1> USE PackageFields
<1>1. DOMAIN x = {"name", "version", "release", "arch"} /\ \A k \in DOMAIN x : x[k] \in Text
  BY DEF Package
<1>2. Newest(x) \in Package
  BY <1>1, TextAssumption DEF Newest, Package
<1>3. \A k \in DOMAIN x : Newest(x)[k] = IF k \in PkgFields /\ x[k] = Wildcard THEN Concrete ELSE x[k]
  BY DEF Newest
<1>4. "name" \in DOMAIN x /\ "name" \notin PkgFields /\ PkgFields \subseteq DOMAIN x
  BY <1>1
<1>5. Newest(x).name = x.name
  BY <1>3, <1>4
<1>6. PkgMatches(x, Newest(x))
  BY <1>3, <1>4 DEF PkgMatches
<1> QED
  BY <1>2, <1>5, <1>6

LEMMA NoDrift ==
  ASSUME NEW a, NEW r, NEW keep
  PROVE  DriftEmpty(ComputeDrift(a, r, keep)) <=>
           /\ FilesModified(a, r) = {} /\ FilesExtra(a, r, keep) = {}
           /\ UnitsDivergent(a, r) = {} /\ PackagesDivergent(a, r) = {}
           /\ Integrity(a.changed_managed_files, keep) = {}
           /\ Integrity(a.unmanaged_files, keep) = {}
BY DEF DriftEmpty, ComputeDrift

(* compute_intent_diff, compute_drift: carrying out the work leaves nothing to do. *)
LEMMA WorkSuffices ==
  ASSUME NEW a, NEW applied, NEW desired, NEW keep,
         a = [s \in Scopes |-> a[s]],
         Elements(a.packages) \subseteq Package, Elements(desired.packages) \subseteq Package,
         OneOfEach(desired.packages), OneOfEach(desired.config_files), OneOfEach(desired.services),
         a.changed_managed_files = Absent, a.unmanaged_files = Absent,
         DriftEmpty(ComputeDrift(a, applied, keep))
  PROVE  DriftEmpty(ManagedDrift(CarriedOut(a, ComputeIntentDiff(desired, applied)), desired, keep))
<1> DEFINE d == ComputeIntentDiff(desired, applied)
           b == CarriedOut(a, d)
           N == {Newest(x) : x \in Elements(desired.packages)}
           P == Replace({x \in Elements(a.packages) : x.name \notin d.packages_remove}, N)
           F == Replace({x \in Elements(a.config_files) : x.name \notin d.files_delete},
                        Elements(desired.config_files))
           U == Replace(Elements(a.services), d.units_change)
<1>1. /\ d.packages_install = Elements(desired.packages)
      /\ d.files_write = Elements(desired.config_files)
      /\ d.files_delete = DroppedNames(desired.config_files, applied.config_files)
      /\ d.units_change = {u \in Elements(desired.services) : StateChanged(u, applied.services)}
  BY DEF ComputeIntentDiff
<1>2. /\ b.packages = P /\ b.config_files = F /\ b.services = U
      /\ b.changed_managed_files = Absent /\ b.unmanaged_files = Absent
  <2>1. b = [a EXCEPT !.packages = P, !.config_files = F, !.services = U]
    BY <1>1, Zenon DEF CarriedOut
  <2>2. {"packages", "config_files", "services", "changed_managed_files", "unmanaged_files"}
          \subseteq Scopes
    BY DEF Scopes, RecordType
  <2> HIDE DEF P, F, U, b
  <2> QED
    BY <2>1, <2>2
<1>3. /\ FilesModified(a, applied) = {} /\ FilesExtra(a, applied, keep) = {}
      /\ UnitsDivergent(a, applied) = {} /\ PackagesDivergent(a, applied) = {}
  BY NoDrift
<1> HIDE DEF d, b
<1>4. PackagesDivergent(b, desired) = {}
  <2> SUFFICES ASSUME NEW r \in Elements(desired.packages)
               PROVE  r.name \in NamesOf(Elements(P)) /\ PkgMatches(r, Named(Elements(P), r.name))
    BY <1>2 DEF PackagesDivergent
  <2>1. \A x \in N : x \in Package
    BY NewestMatches
  <2>2. P \subseteq Package
    BY <2>1 DEF Replace
  <2>3. Elements(P) = P
    BY <2>2, SentinelAssumption DEF Elements, Package
  <2>4. Newest(r) \in N /\ Newest(r).name = r.name /\ PkgMatches(r, Newest(r))
    BY NewestMatches
  <2>5. Newest(r) \in P
    BY <2>4 DEF Replace
  <2>6. \A x, y \in N : x.name = y.name => x = y
    BY NewestMatches DEF OneOfEach
  <2>7. \A e : (e \in P /\ e.name = r.name) <=> (e \in N /\ e.name = r.name)
    BY <2>4 DEF Replace, NamesOf
  <2>8. Named(P, r.name) = Newest(r)
    <3>1. Named(P, r.name) = Named(N, r.name)
      BY <2>7, NamedSame
    <3> HIDE DEF N
    <3>2. Named(N, Newest(r).name) = Newest(r)
      BY <2>4, <2>6, NamedOnly
    <3> QED
      BY <3>1, <3>2, <2>4
  <2> QED
    BY <2>3, <2>4, <2>5, <2>8 DEF NamesOf
<1>5. FilesModified(b, desired) = {}
  <2> SUFFICES ASSUME NEW e \in Elements(desired.config_files), e.name \in NamesOf(Elements(F))
               PROVE  ~FileDiffers(e, Named(Elements(F), e.name))
    BY <1>2 DEF FilesModified
  <2> DEFINE W == Elements(desired.config_files)
  <2>1. Elements(F) = F
    BY DEF Elements, NamesOf
  <2>2. \A x : (x \in F /\ x.name = e.name) <=> (x \in W /\ x.name = e.name)
    BY DEF Replace, NamesOf
  <2>3. Named(F, e.name) = Named(W, e.name)
    BY <2>2, NamedSame
  <2>4. Named(W, e.name) = e
    BY NamedOnly DEF OneOfEach
  <2> QED
    BY <2>1, <2>3, <2>4 DEF FileDiffers
<1>6. desired.config_files # Absent => FilesExtra(b, desired, keep) = {}
  <2> SUFFICES ASSUME desired.config_files # Absent, NEW x \in Elements(F),
                      x.name \notin NamesOf(Elements(desired.config_files)),
                      x.package_name = NoPackage, x.name # Syncpoint, x.name \notin keep
               PROVE  FALSE
    BY <1>2 DEF FilesExtra
  <2>1. x \in F
    BY DEF Elements
  <2>2. /\ x \in Elements(a.config_files)
        /\ x.name \notin DroppedNames(desired.config_files, applied.config_files)
    BY <1>1, <2>1 DEF Replace, NamesOf
  <2>3. x.name \notin NamesOf(Elements(applied.config_files))
    BY <2>2 DEF DroppedNames, Elements
  <2> QED
    BY <1>3, <2>2, <2>3 DEF FilesExtra
<1>7. UnitsDivergent(b, desired) = {}
  <2> SUFFICES ASSUME NEW u \in Elements(desired.services), u.name \in NamesOf(Elements(U))
               PROVE  Named(Elements(U), u.name).state = u.state
    BY <1>2 DEF UnitsDivergent
  <2> DEFINE C == d.units_change
  <2>1. Elements(U) = U
    BY DEF Elements, NamesOf
  <2>2. \A x, y \in C : x.name = y.name => x = y
    BY <1>1 DEF OneOfEach
  <2>3. CASE u \in C
    <3>1. \A x : (x \in U /\ x.name = u.name) <=> (x \in C /\ x.name = u.name)
      BY <2>3 DEF Replace, NamesOf
    <3>2. Named(U, u.name) = Named(C, u.name)
      BY <3>1, NamedSame
    <3>3. Named(C, u.name) = u
      BY <2>2, <2>3, NamedOnly
    <3> QED
      BY <2>1, <3>2, <3>3
  <2>4. CASE u \notin C
    <3>1. u.name \notin NamesOf(C)
      BY <1>1, <2>4 DEF OneOfEach, NamesOf
    <3>2. \A x : (x \in U /\ x.name = u.name)
                   <=> (x \in Elements(a.services) /\ x.name = u.name)
      BY <3>1 DEF Replace, NamesOf
    <3>3. Named(U, u.name) = Named(Elements(a.services), u.name)
      BY <3>2, NamedSame
    <3>4. u.name \in NamesOf(Elements(a.services))
      BY <2>1, <3>2 DEF NamesOf
    <3> DEFINE v == Named(Elements(applied.services), u.name)
    <3>5. u.name \in NamesOf(Elements(applied.services)) /\ v.state = u.state
      BY <1>1, <2>4 DEF StateChanged
    <3>6. v \in Elements(applied.services) /\ v.name = u.name
      BY <3>5, Zenon DEF Named, NamesOf
    <3> HIDE DEF v
    <3>7. Named(Elements(a.services), v.name).state = v.state
      BY <1>3, <3>4, <3>6 DEF UnitsDivergent
    <3> QED
      BY <2>1, <3>3, <3>5, <3>6, <3>7
  <2> QED
    BY <2>3, <2>4
<1>8. Integrity(b.changed_managed_files, keep) = {} /\ Integrity(b.unmanaged_files, keep) = {}
  BY <1>2 DEF Integrity, Elements, NamesOf
<1>9. DriftEmpty(ManagedDrift(b, desired, keep))
  <2>1. CASE desired.config_files # Absent
    BY <1>4, <1>5, <1>6, <1>7, <1>8, <2>1, NoDrift DEF ManagedDrift
  <2>2. CASE desired.config_files = Absent
    <3>1. ManagedDrift(b, desired, keep) = [ComputeDrift(b, desired, keep) EXCEPT !.files_extra = {}]
      BY <2>2 DEF ManagedDrift
    <3> QED
      BY <1>4, <1>5, <1>7, <1>8, <3>1 DEF ComputeDrift, DriftEmpty
  <2> QED
    BY <2>1, <2>2
<1> QED
  BY <1>9 DEF b, d

(* The three comparisons of packages agree on locks. *)
LEMMA LocksAgree ==
  ASSUME NEW a, NEW r, IsLock(r.packages), IsLock(a.packages),
         r.packages \subseteq Package, a.packages \subseteq Package,
         NamesOf(a.packages) \subseteq NamesOf(r.packages)
  PROVE  LET cpp == PackagesDivergent(a, r)
             go  == GoPackagesDivergent(a, r)
             rs  == RsPackagesDivergent(a, r) IN
         (cpp = {}) = (go = {}) /\ (cpp = {}) = (rs = {})
<1> DEFINE A == a.packages
           R == r.packages
<1>1. Elements(A) = A /\ Elements(R) = R /\ A # Absent /\ R # Absent
  BY DEF Elements, IsLock
<1>2. /\ \A x, y \in A : x.name = y.name => x = y
      /\ \A x, y \in R : x.name = y.name => x = y
      /\ \A x \in A \cup R, k \in PkgFields : x[k] # Wildcard
  BY <1>1 DEF IsLock, OneOfEach
<1>3. PackagesDivergent(a, r) = {} <=> A = R
  <2>1. PackagesDivergent(a, r) = {} <=>
          \A x \in R : x.name \in NamesOf(A) /\ PkgMatches(x, Named(A, x.name))
    BY <1>1 DEF PackagesDivergent
  <2>2. ASSUME A = R, NEW x \in R PROVE x.name \in NamesOf(A) /\ PkgMatches(x, Named(A, x.name))
    <3>1. Named(A, x.name) = x
      BY <1>2, <2>2, NamedOnly
    <3> QED
      BY <2>2, <3>1 DEF NamesOf, PkgMatches
  <2>3. ASSUME \A x \in R : x.name \in NamesOf(A) /\ PkgMatches(x, Named(A, x.name)) PROVE A = R
    <3>1. ASSUME NEW x \in R PROVE x \in A
      <4>1. PICK y \in A : y.name = x.name
        BY <2>3 DEF NamesOf
      <4>2. Named(A, y.name) = y
        BY <1>2, NamedOnly
      <4>3. PkgMatches(x, y)
        BY <2>3, <4>1, <4>2
      <4>4. \A k \in PkgFields : x[k] = y[k]
        BY <1>2, <4>3 DEF PkgMatches
      <4>5. x = y
        BY <4>1, <4>4, PackageFields DEF Package
      <4> QED
        BY <4>5
    <3>2. ASSUME NEW y \in A PROVE y \in R
      <4>1. PICK x \in R : y.name = x.name
        BY DEF NamesOf
      <4>2. x = y
        BY <1>2, <3>1, <4>1
      <4> QED
        BY <4>2
    <3> QED
      BY <3>1, <3>2
  <2> QED
    BY <2>1, <2>2, <2>3
<1>4. RsPackagesDivergent(a, r) = {} <=> A = R
  BY <1>1 DEF RsPackagesDivergent, Missing, RsKey
<1>5. GoPackagesDivergent(a, r) = {} <=> A = R
  <2>1. ASSUME NEW x \in A \cup R PROVE GoKey(x) = x
    <3>1. CASE Release = {}
      <4>1. x = [k \in DOMAIN x |-> x[k]]
        BY DEF Package
      <4> QED
        BY <3>1, <4>1 DEF GoKey
    <3>2. CASE Release # {}
      BY <1>2, <3>2, PackageFields DEF GoKey
    <3> QED
      BY <3>1, <3>2
  <2>2. {GoKey(x) : x \in A} = A /\ {GoKey(x) : x \in R} = R
    BY <2>1
  <2> QED
    BY <1>1, <2>1, <2>2 DEF GoPackagesDivergent, Missing
<1> QED
  BY <1>3, <1>4, <1>5

-----------------------------------------------------------------------------
(* Types *)

PackagesOK(m) ==
  /\ DOMAIN m = {"meta", "scopes"}
  /\ "packages" \in DOMAIN m.scopes =>
       \A i \in DOMAIN m.scopes.packages.elements : m.scopes.packages.elements[i] \in Package

RunOK(r) ==
  /\ DOMAIN r = DOMAIN Idle
  /\ r.pc \in {"idle", "manifest", "record", "actual", "compare", "open", "write", "done"}
  /\ r.exit \in {Unset, 0, 1, 2, Aborted} /\ (r.exit # Unset <=> r.pc = "done")
  /\ r.report # Unset => r.exit \in {0, 1}
  /\ {r.cfg.out, r.cfg.state_path, r.cfg.manifest_path} \subseteq DOMAIN Extension \cup {Unset}
  /\ r.cfg.manifest_format \in Formats /\ r.cfg.explicit_format \in Formats \cup {Unset}
  /\ r.pc \in {"open", "write"} => r.cfg.out # Unset /\ FormOfManifest(r.actual)
  /\ PackagesOK(r.desired) /\ PackagesOK(r.record) /\ PackagesOK(r.actual)

TInv ==
  /\ runs \in Nat /\ events \in Nat /\ family \in {Start(k).family : k \in Scenarios}
  /\ DOMAIN disk = DOMAIN Extension /\ \A path \in DOMAIN Extension : FormOfFile(disk[path])
  /\ FormOfHost(host)
  /\ run = [p \in Procs |-> run[p]] /\ \A p \in Procs : RunOK(run[p])
  /\ \A f \in fresh : f.path \in DOMAIN disk /\ disk[f.path].syntax \in Formats

LEMMA NothingLoaded == PackagesOK(NoManifest) /\ NoManifest.scopes = EmptyFunction
BY DEF PackagesOK, NoManifest, EmptyFunction

LEMMA IdleOK == RunOK(Idle)
<1>1. BuildConfig(EmptyFunction).out = Unset /\ BuildConfig(EmptyFunction).state_path = Unset
      /\ BuildConfig(EmptyFunction).manifest_path = Unset
      /\ BuildConfig(EmptyFunction).manifest_format = "json"
      /\ BuildConfig(EmptyFunction).explicit_format = Unset
  BY DEF BuildConfig, Given, EmptyFunction
<1> QED
  BY <1>1, NothingLoaded, PathAssumption, SentinelAssumption DEF RunOK, Idle, Formats

LEMMA FormatTyped ==
  ASSUME NEW r, RunOK(r), NEW path \in DOMAIN Extension \cup {Unset}
  PROVE  FormatOf(r.cfg, path) \in Formats
BY PathAssumption DEF RunOK, FormatOf, ResolveFormat

(* build_config: an invocation that passes dispatch has values its options may have. *)
LEMMA DispatchedConfig ==
  ASSUME NEW line, Dispatch(line).verb # "none"
  PROVE  /\ Dispatch(line).verb \in VerbNames
         /\ Dispatch(line).cfg.manifest_format \in Formats
         /\ Dispatch(line).cfg.explicit_format \in Formats \cup {Unset}
<1> DEFINE argv == Arguments(line)
           o == Options(argv)
           verb == Verb(argv)
<1>1. \A code : JustExit(code).verb = "none"
  BY DEF JustExit
<1>0. Dispatch(line) =
        IF Asks(argv, "version") \/ Asks(argv, "help") THEN JustExit(0)
        ELSE IF ~ArgsOk(argv) \/ ~ConfigOk(o) THEN JustExit(2)
        ELSE IF verb = "" THEN JustExit(0)
        ELSE IF verb \notin VerbNames THEN JustExit(2)
        ELSE IF "scope" \in DOMAIN o /\ verb \notin {"describe", "verify"} THEN JustExit(2)
        ELSE RunVerb(verb, BuildConfig(o))
  BY DEF Dispatch
<1> HIDE DEF argv, o, verb
<1>2. ConfigOk(o) /\ verb \in VerbNames /\ Dispatch(line) = RunVerb(verb, BuildConfig(o))
  BY <1>0, <1>1
<1>3. {"manifest-format", "format"} \subseteq DOMAIN Enumerated
      /\ Enumerated["manifest-format"] = Formats /\ Enumerated["format"] = Formats
  BY DEF Enumerated
<1>4. Given(o, "manifest-format", "json") \in Formats /\ Given(o, "format", Unset) \in Formats \cup {Unset}
  BY <1>2, <1>3 DEF ConfigOk, Given, Formats
<1> QED
  BY <1>2, <1>4 DEF RunVerb, BuildConfig

-----------------------------------------------------------------------------
(* What is read and written *)

(* json_to_manifest: a text is read as a text, from JSON and from YAML. *)
LEMMA ConvertText ==
  ASSUME NEW v, v[2] \in Text
  PROVE  Convert("string", v) \in Text /\ YamlValue(v)[2] \in Text
<1>1. v[1] = "null" => Convert("string", v) = "" /\ "" \in Text
  BY TextAssumption DEF Convert
<1>2. v[1] # "null" => Convert("string", v) = v[2]
  BY DEF Convert
<1>3. Typed(v[2])[2] \in Text
  <2>1. Typed(v[2])[2] \in {Decimal[v[2]], v[2]} /\ (v[2] \notin DOMAIN Decimal => Typed(v[2])[2] = v[2])
    BY DEF Typed
  <2> QED
    BY <2>1, TextAssumption
<1> QED
  BY <1>1, <1>2, <1>3 DEF YamlValue

LEMMA ParsedPackage ==
  ASSUME NEW e, \A f \in DOMAIN e : e[f][2] \in Text
  PROVE  /\ ParseRecord(RecordType.packages, e) \in Package
         /\ ParseRecord(RecordType.packages, YamlValues(e)) \in Package
<1> DEFINE type == RecordType.packages
<1>1. \A f \in DOMAIN type : type[f].kind = "string" /\ type[f].default \in Text
  <2>1. \A f \in DOMAIN type : type[f].kind = "string" /\ type[f].default = ""
    BY DEF RecordType, Str
  <2> QED
    BY <2>1, TextAssumption
<1>2. DOMAIN YamlValues(e) = DOMAIN e /\ \A f \in DOMAIN e : YamlValues(e)[f][2] \in Text
  BY ConvertText DEF YamlValues
<1>3. ASSUME NEW d, \A f \in DOMAIN d : d[f][2] \in Text PROVE ParseRecord(type, d) \in Package
  <2>1. \A f \in DOMAIN type : (IF f \in DOMAIN d THEN Convert(type[f].kind, d[f])
                                ELSE type[f].default) \in Text
    BY <1>1, <1>3, ConvertText
  <2> HIDE DEF type
  <2> QED
    BY <2>1 DEF ParseRecord, Package, type
<1> QED
  BY <1>2, <1>3

LEMMA ReadPackages ==
  ASSUME NEW file, file # NoFile, FormOfFile(file), NEW format
  PROVE  PackagesOK(Read(file, format).manifest)
<1> DEFINE doc == file.doc
<1>1. FormOfDocument(doc)
  BY DEF FormOfFile
<1>2. ASSUME NEW d, DOMAIN d.scopes \subseteq Scopes,
             "packages" \in DOMAIN d.scopes =>
               \A i \in DOMAIN d.scopes.packages.elements :
                 ParseRecord(RecordType.packages, d.scopes.packages.elements[i]) \in Package
      PROVE  PackagesOK(JsonToManifest(d).manifest)
  <2>1. CASE JsonToManifest(d).status = "ok"
    <3>1. /\ JsonToManifest(d).manifest.scopes = [s \in DOMAIN d.scopes |-> ParseScope(s, d.scopes[s])]
          /\ DOMAIN JsonToManifest(d).manifest = {"meta", "scopes"}
      BY <2>1 DEF JsonToManifest, Failed
    <3>2. "packages" \in DOMAIN d.scopes =>
            \A i \in DOMAIN ParseScope("packages", d.scopes["packages"]).elements :
              ParseScope("packages", d.scopes["packages"]).elements[i] \in Package
      BY <1>2 DEF ParseScope
    <3> QED
      BY <3>1, <3>2 DEF PackagesOK
  <2>2. CASE JsonToManifest(d).status # "ok"
    BY <2>2, NothingLoaded DEF JsonToManifest, Failed
  <2> QED
    BY <2>1, <2>2
<1>3. PackagesOK(JsonToManifest(doc).manifest)
  BY <1>1, <1>2, ParsedPackage DEF FormOfDocument
<1>4. PackagesOK(JsonToManifest(YamlDocument(doc)).manifest)
  <2> DEFINE y == YamlDocument(doc)
  <2>1. DOMAIN y.scopes = DOMAIN doc.scopes
    BY DEF YamlDocument
  <2>2. ASSUME "packages" \in DOMAIN doc.scopes,
               NEW i \in DOMAIN y.scopes.packages.elements
        PROVE  ParseRecord(RecordType.packages, y.scopes.packages.elements[i]) \in Package
    <3> DEFINE d == doc.scopes["packages"]
    <3>1. DOMAIN d = {"array", "attributes", "elements"}
      BY <1>1, <2>2 DEF FormOfDocument
    <3>2. y.scopes["packages"].elements = [j \in DOMAIN d.elements |-> YamlValues(d.elements[j])]
      <4>1. y.scopes["packages"] = [d EXCEPT !.attributes = YamlValues(@),
                                             !.elements = [j \in DOMAIN @ |-> YamlValues(@[j])]]
        BY <2>2 DEF YamlDocument
      <4> HIDE DEF d
      <4> QED
        BY <3>1, <4>1
    <3>3. \A f \in DOMAIN d.elements[i] : d.elements[i][f][2] \in Text
      BY <1>1, <2>2, <3>2 DEF FormOfDocument
    <3> QED
      BY <2>2, <3>2, <3>3, ParsedPackage
  <2> QED
    BY <1>1, <1>2, <2>1, <2>2 DEF FormOfDocument
<1>5. PackagesOK(JsonToManifest(EmptyDocument).manifest)
  BY <1>2 DEF EmptyDocument, EmptyFunction
<1>6. PackagesOK(Failed("invalid").manifest)
  BY NothingLoaded DEF Failed
<1> QED
  BY <1>3, <1>4, <1>5, <1>6 DEF Read

LEMMA LoadedPackages ==
  ASSUME NEW file, FormOfFile(file), NEW format
  PROVE  /\ PackagesOK(LoadDesiredManifest(file, format).manifest)
         /\ PackagesOK(LoadStateDump(file, format).manifest)
         /\ PackagesOK(LoadAppliedRecord(file).manifest)
<1>1. \A how : PackagesOK(Failed(how).manifest)
  BY NothingLoaded DEF Failed
<1>2. CASE file = NoFile
  BY <1>1, <1>2 DEF LoadDesiredManifest, LoadStateDump, LoadAppliedRecord
<1>3. CASE file # NoFile
  <2>1. PackagesOK(Read(file, format).manifest) /\ PackagesOK(Read(file, "json").manifest)
    BY <1>3, ReadPackages
  <2> DEFINE r == Read(file, format)
  <2>2. DOMAIN r = {"status", "manifest"} /\ DOMAIN r.manifest = {"meta", "scopes"}
    BY DEF Read, JsonToManifest, Failed, NoManifest
  <2> HIDE DEF r
  <2>3. PackagesOK(Without(r.manifest, Observational))
    <3>1. /\ Without(r.manifest, Observational).scopes
               = [s \in (DOMAIN r.manifest.scopes) \ Observational |-> r.manifest.scopes[s]]
          /\ DOMAIN Without(r.manifest, Observational) = DOMAIN r.manifest
      BY <2>2 DEF Without
    <3> QED
      BY <2>1, <2>2, <3>1 DEF PackagesOK, r
  <2>4. [r EXCEPT !.manifest = Without(@, Observational)].manifest = Without(r.manifest, Observational)
    BY <2>2
  <2> QED
    BY <1>1, <1>3, <2>1, <2>3, <2>4 DEF r, LoadDesiredManifest, LoadStateDump, LoadAppliedRecord
<1> QED
  BY <1>2, <1>3

LEMMA FormPackages == ASSUME NEW m, FormOfManifest(m) PROVE PackagesOK(m)
<1>1. "packages" \in DOMAIN m.scopes => m.scopes["packages"].elements \in Seq(Package)
  BY DEF FormOfManifest, Package
<1>2. ASSUME NEW q \in Seq(Package), NEW i \in DOMAIN q PROVE q[i] \in Package
  OBVIOUS
<1>3. DOMAIN m = {"meta", "scopes"}
  BY DEF FormOfManifest
<1> QED
  BY <1>1, <1>2, <1>3 DEF PackagesOK

(* describe_actual_state: what a description has of packages and repositories. *)
LEMMA DescribedForm ==
  ASSUME FormOfHost(host), NEW policy, NEW scope, NEW keep,
         DescribeActualState(policy, scope, keep).status = "ok"
  PROVE  FormOfManifest(DescribeActualState(policy, scope, keep).manifest)
<1> DEFINE files == Only(host.actual.scopes, {"config_files"})
           others == Only(host.actual.scopes, Scopes \ {"config_files"})
           found == IF scope = "full" THEN Thinned(host.findings, keep) ELSE EmptyFunction
           thin == Thinned(files, keep \cup host.unreadable)
           all == Both(Both(others, found), thin)
           m == DescribeActualState(policy, scope, keep).manifest
<1>1. m = [host.actual EXCEPT !.scopes = all]
  <2>1. Failed("unreadable").status = "unreadable"
    BY DEF Failed
  <2> QED
    BY <2>1 DEF DescribeActualState
<1>2. /\ DOMAIN host.actual = {"meta", "scopes"} /\ DOMAIN host.actual.scopes \subseteq Scopes
      /\ DOMAIN host.actual.scopes \cap Observational = {} /\ DOMAIN host.findings \subseteq Observational
  BY DEF FormOfHost, FormOfManifest
<1>3. /\ DOMAIN others = DOMAIN host.actual.scopes \ {"config_files"}
      /\ \A s \in DOMAIN others : others[s] = host.actual.scopes[s]
      /\ DOMAIN files \subseteq DOMAIN host.actual.scopes \cap {"config_files"}
      /\ \A s \in DOMAIN files : files[s] = host.actual.scopes[s]
  BY <1>2 DEF Only
<1> HIDE DEF m, others, files
<1>4. ASSUME NEW f, NEW dropped, \A s \in DOMAIN f : DOMAIN f[s] = {"attributes", "elements"}
      PROVE  /\ DOMAIN Thinned(f, dropped) \subseteq DOMAIN f
             /\ \A s \in DOMAIN Thinned(f, dropped) :
                  DOMAIN Thinned(f, dropped)[s] = {"attributes", "elements"}
  <2> DEFINE Left(s) == SelectSeq(f[s].elements, LAMBDA e : e.name \notin dropped)
             S == {s \in DOMAIN f : Left(s) # <<>>}
  <2>1. Thinned(f, dropped) = [s \in S |-> [f[s] EXCEPT !.elements = Left(s)]]
    BY DEF Thinned
  <2>2. S \subseteq DOMAIN f
    OBVIOUS
  <2> HIDE DEF Left, S
  <2>3. ASSUME NEW s \in S PROVE DOMAIN Thinned(f, dropped)[s] = DOMAIN f[s]
    <3>1. Thinned(f, dropped)[s] = [f[s] EXCEPT !.elements = Left(s)]
      BY <2>1
    <3> QED
      BY <3>1
  <2>4. DOMAIN Thinned(f, dropped) = S
    BY <2>1
  <2> QED
    BY <1>4, <2>2, <2>3, <2>4
<1>5. \A s \in DOMAIN host.actual.scopes : DOMAIN host.actual.scopes[s] = {"attributes", "elements"}
  BY DEF FormOfHost, FormOfManifest
<1>6. /\ DOMAIN thin \subseteq {"config_files"}
      /\ \A s \in DOMAIN thin : DOMAIN thin[s] = {"attributes", "elements"}
  <2>1. \A s \in DOMAIN files : DOMAIN files[s] = {"attributes", "elements"}
    BY <1>3, <1>5
  <2>2. /\ DOMAIN thin \subseteq DOMAIN files
        /\ \A s \in DOMAIN thin : DOMAIN thin[s] = {"attributes", "elements"}
    BY <1>4, <2>1
  <2> QED
    BY <1>3, <2>2
<1>7. /\ DOMAIN found \subseteq Observational
      /\ \A s \in DOMAIN found : DOMAIN found[s] = {"attributes", "elements"}
  BY <1>2, <1>4 DEF EmptyFunction, FormOfHost
<1> HIDE DEF thin, found
<1>8. /\ DOMAIN all = DOMAIN others \cup DOMAIN found \cup DOMAIN thin
      /\ \A s \in DOMAIN others : all[s] = host.actual.scopes[s]
      /\ \A s \in DOMAIN all \ DOMAIN others : s \notin {"packages", "repositories", "services"}
                                             /\ DOMAIN all[s] = {"attributes", "elements"}
  BY <1>2, <1>3, <1>6, <1>7 DEF Both, Observational
<1> HIDE DEF all
<1>9. m.scopes = all /\ DOMAIN m = {"meta", "scopes"}
  BY <1>1, <1>2
<1>10. "config_files" \in Scopes /\ Observational \subseteq Scopes
  BY DEF Scopes, Observational, RecordType
<1>11. \A s \in DOMAIN all : DOMAIN all[s] = {"attributes", "elements"}
  BY <1>3, <1>5, <1>8
<1>12. ASSUME NEW s \in DOMAIN all, s \in {"packages", "repositories", "services"}
       PROVE  s \in DOMAIN host.actual.scopes /\ all[s] = host.actual.scopes[s]
  BY <1>3, <1>8, <1>12
<1>13. FormOfManifest(host.actual)
  BY DEF FormOfHost
<1>14. DOMAIN all \subseteq Scopes
  BY <1>2, <1>3, <1>6, <1>7, <1>8, <1>10
<1>15. ASSUME NEW s \in DOMAIN all, s \in {"packages", "repositories", "services"}
       PROVE  all[s].elements \in Seq([DOMAIN RecordType[s] -> Text])
  BY <1>12, <1>13, <1>15 DEF FormOfManifest
<1>16. ASSUME NEW s \in DOMAIN all, s = "repositories", NEW i \in DOMAIN all[s].elements
       PROVE  Switches(all[s].elements[i]) /\ all[s].elements[i].priority \notin Wide
  BY <1>12, <1>13, <1>16 DEF FormOfManifest
<1> QED
  BY <1>9, <1>11, <1>14, <1>15, <1>16 DEF FormOfManifest, m

LEMMA WrittenPackages ==
  ASSUME NEW q \in Seq(Package), NEW i \in DOMAIN q, NEW f \in DOMAIN RecordType.packages
  PROVE  Fields(RecordType.packages, q[i])[f][2] \in Text
<1>1. q[i] \in Package
  OBVIOUS
<1>2. q[i][f] \in Text
  BY <1>1 DEF Package
<1> QED
  BY <1>2 DEF Fields

LEMMA WrittenRepositories ==
  ASSUME NEW e \in [DOMAIN RecordType.repositories -> Text], Switches(e)
  PROVE  Switches(OfItsKind(RecordType.repositories, Fields(RecordType.repositories, e)))
<1> DEFINE type == RecordType.repositories
           w == Fields(type, e)
           k == OfItsKind(type, w)
<1>1. DOMAIN w = DOMAIN type /\ \A f \in DOMAIN type : w[f][1] = type[f].kind /\ w[f][2] = e[f]
  BY DEF Fields
<1> HIDE DEF w
<1>2. DOMAIN k = DOMAIN type /\ \A f \in DOMAIN type : k[f] = e[f]
  BY <1>1 DEF OfItsKind
<1> HIDE DEF k, type
<1> QED
  BY <1>2 DEF Switches, type, k, w

(* The first elements of a sequence are elements of it.                         *)
LEMMA FirstElements ==
  ASSUME NEW q, NEW n \in Nat, NEW i \in DOMAIN SubSeq(q, 1, n)
  PROVE  i \in 1..n /\ SubSeq(q, 1, n)[i] = q[i]
<1> DEFINE S == {q[k] : k \in 1..n}
<1>1. \A k \in 1..n : q[k] \in S
  OBVIOUS
<1> HIDE DEF S
<1>2. /\ SubSeq(q, 1, n) \in Seq(S) /\ Len(SubSeq(q, 1, n)) = n
      /\ \A k \in 1..n : SubSeq(q, 1, n)[k] = q[k]
  <2>1. /\ SubSeq(q, 1, n) \in Seq(S) /\ Len(SubSeq(q, 1, n)) = IF 1 <= n THEN n - 1 + 1 ELSE 0
        /\ \A k \in 1 .. n - 1 + 1 : SubSeq(q, 1, n)[k] = q[1 + k - 1]
    BY <1>1, SubSeqProperties
  <2> QED
    BY <2>1
<1>3. DOMAIN SubSeq(q, 1, n) = 1..n
  BY <1>2, LenProperties
<1> QED
  BY <1>2, <1>3

(* The writer and a writer that fails: what is on disk then has the form that     *)
(* the assumptions give the files.                                            *)
LEMMA SerializedForm ==
  ASSUME NEW m, FormOfManifest(m), NEW format
  PROVE  /\ FormOfFile(SerializeManifest(m, format))
         /\ \A cut \in Cuts(SerializeManifest(m, format)) : FormOfFile(cut)
<1> DEFINE file == SerializeManifest(m, format)
           doc == file.doc
           Element(s, e) ==
             /\ s = "packages" => \A f \in DOMAIN e : e[f][2] \in Text
             /\ s = "repositories" => Switches(OfItsKind(RecordType[s], e))
<1>1. DOMAIN doc = {"meta", "scopes"} /\ DOMAIN doc.scopes = DOMAIN m.scopes /\ DOMAIN doc.scopes \subseteq Scopes
  BY DEF SerializeManifest, FormOfManifest
<1>2. ASSUME NEW s \in DOMAIN m.scopes
      PROVE  /\ DOMAIN doc.scopes[s] = {"array", "attributes", "elements"}
             /\ doc.scopes[s].elements = [i \in DOMAIN m.scopes[s].elements |->
                                            Fields(RecordType[s], m.scopes[s].elements[i])]
  BY DEF SerializeManifest
<1>3. ASSUME NEW s \in DOMAIN m.scopes, s \in {"packages", "repositories"}
      PROVE  /\ m.scopes[s].elements \in Seq([DOMAIN RecordType[s] -> Text])
             /\ \A i \in DOMAIN m.scopes[s].elements : Element(s, Fields(RecordType[s], m.scopes[s].elements[i]))
  <2> DEFINE q == m.scopes[s].elements
  <2>1. q \in Seq([DOMAIN RecordType[s] -> Text])
    BY <1>3 DEF FormOfManifest
  <2>2. ASSUME NEW i \in DOMAIN q PROVE q[i] \in [DOMAIN RecordType[s] -> Text]
    BY <2>1, ElementOfSeq
  <2>3. CASE s = "packages"
    <3>1. q \in Seq(Package)
      BY <2>1, <2>3 DEF Package
    <3>2. \A i \in DOMAIN q : \A f \in DOMAIN RecordType.packages :
            Fields(RecordType.packages, q[i])[f][2] \in Text
      BY <3>1, WrittenPackages
    <3> QED
      BY <2>1, <2>3, <3>2 DEF Fields
  <2>4. CASE s = "repositories"
    <3>1. \A i \in DOMAIN q : Switches(q[i])
      BY <2>4 DEF FormOfManifest
    <3> QED
      BY <2>1, <2>2, <2>4, <3>1, WrittenRepositories
  <2> QED
    BY <1>3, <2>3, <2>4
<1> HIDE DEF Element
<1>4. FormOfDocument(doc)
  <2>1. ASSUME NEW s \in DOMAIN doc.scopes, NEW i \in DOMAIN doc.scopes[s].elements
        PROVE  Element(s, doc.scopes[s].elements[i])
    <3>1. CASE s \in {"packages", "repositories"}
      <4>1. s \in DOMAIN m.scopes
        BY <1>1
      <4> HIDE DEF doc
      <4>2. /\ i \in DOMAIN m.scopes[s].elements
            /\ doc.scopes[s].elements[i] = Fields(RecordType[s], m.scopes[s].elements[i])
        BY <1>2, <2>1, <4>1
      <4> QED
        BY <1>3, <3>1, <4>1, <4>2
    <3>2. CASE s \notin {"packages", "repositories"}
      BY <3>2 DEF Element
    <3> QED
      BY <3>1, <3>2
  <2> HIDE DEF doc
  <2> QED
    BY <1>1, <1>2, <2>1 DEF FormOfDocument, Element
<1>5. ASSUME NEW n \in DOMAIN KeyOrder,
             NEW i \in 0..(IF KeyOrder[n] \in DOMAIN doc.scopes
                             THEN Len(doc.scopes[KeyOrder[n]].elements) ELSE 0)
      PROVE  FormOfDocument(CutAt(doc, n, i))
  <2> HIDE DEF doc
  <2> DEFINE c == CutAt(doc, n, i)
             whole == {KeyOrder[k] : k \in 1..(n - 1)}
  <2>1. /\ DOMAIN c = {"meta", "scopes"}
        /\ DOMAIN c.scopes = DOMAIN doc.scopes \cap (whole \cup {KeyOrder[n]})
    BY DEF CutAt
  <2>2. ASSUME NEW s \in DOMAIN c.scopes, s \in whole PROVE c.scopes[s] = doc.scopes[s]
    BY <2>2 DEF CutAt
  <2>3. ASSUME NEW s \in DOMAIN c.scopes, s \notin whole
        PROVE  s = KeyOrder[n] /\ c.scopes[s] = [doc.scopes[s] EXCEPT !.elements = SubSeq(@, 1, i)]
    BY <2>3 DEF CutAt
  <2>4. ASSUME NEW s \in DOMAIN doc.scopes, NEW j \in DOMAIN doc.scopes[s].elements
        PROVE  Element(s, doc.scopes[s].elements[j])
    BY <1>4 DEF FormOfDocument, Element
  <2>5. i \in Nat
    OBVIOUS
  <2> HIDE DEF c, whole
  <2>6. ASSUME NEW s \in DOMAIN c.scopes, s \notin whole
        PROVE  /\ DOMAIN c.scopes[s] = {"array", "attributes", "elements"}
               /\ \A j \in DOMAIN c.scopes[s].elements : Element(s, c.scopes[s].elements[j])
    <3> DEFINE q == doc.scopes[s].elements
    <3>1. s \in DOMAIN doc.scopes /\ s \in DOMAIN m.scopes
      BY <1>1, <2>1
    <3>2. /\ DOMAIN doc.scopes[s] = {"array", "attributes", "elements"}
          /\ q = [k \in DOMAIN m.scopes[s].elements |-> Fields(RecordType[s], m.scopes[s].elements[k])]
      BY <1>2, <3>1
    <3>3. s = KeyOrder[n] /\ c.scopes[s] = [doc.scopes[s] EXCEPT !.elements = SubSeq(q, 1, i)]
      BY <2>3, <2>6
    <3>4. DOMAIN c.scopes[s] = {"array", "attributes", "elements"} /\ c.scopes[s].elements = SubSeq(q, 1, i)
      <4> HIDE DEF q
      <4> QED
        BY <3>2, <3>3
    <3>5. ASSUME NEW j \in DOMAIN SubSeq(q, 1, i), s \in {"packages", "repositories"}
          PROVE  Element(s, SubSeq(q, 1, i)[j])
      <4> DEFINE e == m.scopes[s].elements
      <4>1. e \in Seq([DOMAIN RecordType[s] -> Text])
        BY <1>3, <3>1, <3>5
      <4>2. Len(e) \in Nat /\ DOMAIN e = 1..Len(e)
        BY <4>1, LenProperties
      <4> DEFINE N == Len(e)
                 S == {q[k] : k \in 1..N}
      <4> HIDE DEF e, q, N
      <4>3. DOMAIN q = 1..Len(e) /\ Len(q) = Len(e)
        <5>1. q = [k \in 1..N |-> q[k]]
          BY <3>2, <4>2 DEF e, N
        <5>2. \A k \in 1..N : q[k] \in S
          OBVIOUS
        <5> HIDE DEF S
        <5>3. q \in [1..N -> S]
          BY <5>1, <5>2
        <5>4. q \in Seq(S)
          BY <4>2, <5>3, SeqDef DEF N
        <5> QED
          BY <4>2, <5>1, <5>4, LenProperties DEF N
      <4>4. j \in DOMAIN q
        <5>1. j \in 1..i
          BY <2>5, FirstElements
        <5>2. i <= Len(q)
          BY <3>1, <3>3 DEF q
        <5> QED
          BY <2>5, <4>2, <4>3, <5>1, <5>2
      <4>5. SubSeq(q, 1, i)[j] = q[j]
        BY <2>5, FirstElements
      <4> QED
        BY <2>4, <3>1, <4>4, <4>5 DEF q
    <3>6. ASSUME NEW j, s \notin {"packages", "repositories"}
          PROVE  Element(s, SubSeq(q, 1, i)[j])
      BY <3>6 DEF Element
    <3> QED
      BY <3>4, <3>5, <3>6
  <2>7. ASSUME NEW s \in DOMAIN c.scopes
        PROVE  /\ DOMAIN c.scopes[s] = {"array", "attributes", "elements"}
               /\ \A j \in DOMAIN c.scopes[s].elements : Element(s, c.scopes[s].elements[j])
    <3>1. CASE s \in whole
      BY <1>4, <2>1, <2>2, <2>4, <3>1 DEF FormOfDocument
    <3> QED
      BY <2>6, <3>1
  <2> QED
    BY <1>1, <2>1, <2>7 DEF FormOfDocument, Element, c
<1>6. FormOfDocument(EmptyDocument)
  BY DEF FormOfDocument, EmptyDocument, EmptyFunction
<1>7. FormOfFile(Garbled) /\ FormOfFile([syntax |-> "empty", doc |-> EmptyDocument])
  BY <1>6 DEF FormOfFile, Garbled
<1>8. ASSUME NEW cut \in Cuts(file) PROVE FormOfFile(cut)
  <2>1. CASE cut \in {Garbled, [syntax |-> "empty", doc |-> EmptyDocument]}
    BY <1>7, <2>1
  <2>2. CASE cut \notin {Garbled, [syntax |-> "empty", doc |-> EmptyDocument]}
    <3> HIDE DEF file
    <3>1. \E n \in DOMAIN KeyOrder :
            \E i \in 0..(IF KeyOrder[n] \in DOMAIN file.doc.scopes
                          THEN Len(file.doc.scopes[KeyOrder[n]].elements) ELSE 0) :
              cut = [syntax |-> "yaml", doc |-> CutAt(file.doc, n, i)]
      BY <2>2 DEF Cuts
    <3>2. PICK n \in DOMAIN KeyOrder :
            \E i \in 0..(IF KeyOrder[n] \in DOMAIN file.doc.scopes
                          THEN Len(file.doc.scopes[KeyOrder[n]].elements) ELSE 0) :
              cut = [syntax |-> "yaml", doc |-> CutAt(file.doc, n, i)]
      BY <3>1
    <3>3. PICK i \in 0..(IF KeyOrder[n] \in DOMAIN file.doc.scopes
                          THEN Len(file.doc.scopes[KeyOrder[n]].elements) ELSE 0) :
              cut = [syntax |-> "yaml", doc |-> CutAt(file.doc, n, i)]
      BY <3>2
    <3>4. FormOfDocument(CutAt(file.doc, n, i))
      BY <1>5
    <3> QED
      BY <3>3, <3>4 DEF FormOfFile
  <2> QED
    BY <2>1, <2>2
<1> QED
  BY <1>4, <1>8 DEF FormOfFile

-----------------------------------------------------------------------------
(* The steps keep the types *)

LEMMA Silent ==
  ASSUME NEW r, RunOK(r), r.pc # "done" PROVE r.exit = Unset /\ r.report = Unset
BY SentinelAssumption DEF RunOK

LEMMA ExitedOK ==
  ASSUME NEW r, RunOK(r), r.pc # "done", NEW code \in {0, 1, 2, Aborted}
  PROVE  RunOK(Exited(r, code))
<1>1. DOMAIN r = DOMAIN Idle /\ {"pc", "exit"} \subseteq DOMAIN Idle
  BY DEF RunOK, Idle
<1>2. r.report = Unset
  BY Silent
<1>3. DOMAIN Exited(r, code) = DOMAIN r
      /\ \A f \in DOMAIN r : Exited(r, code)[f] = IF f = "pc" THEN "done" ELSE IF f = "exit" THEN code ELSE r[f]
  BY <1>1 DEF Exited
<1>4. DOMAIN Idle = {"pc", "argv", "verb", "cfg", "text", "desired", "sha", "record", "actual",
                     "report", "exit", "disturbed"}
  BY DEF Idle
<1> DEFINE e == Exited(r, code)
<1>5. /\ DOMAIN e = DOMAIN Idle /\ e.pc = "done" /\ e.exit = code /\ e.report = Unset
      /\ e.cfg = r.cfg /\ e.desired = r.desired /\ e.record = r.record /\ e.actual = r.actual
  BY <1>1, <1>2, <1>3, <1>4
<1> HIDE DEF e
<1> QED
  BY <1>5, SentinelAssumption DEF RunOK, e

LEMMA Becomes ==
  ASSUME TInv, NEW p \in Procs, NEW r, RunOK(r), Become(p, r)
  PROVE  TInv'
<1>1. run' = [run EXCEPT ![p] = r] /\ UNCHANGED <<host, disk, fresh, runs, events, family>>
  BY DEF Become
<1>2. run' = [q \in Procs |-> run'[q]] /\ \A q \in Procs : RunOK(run'[q])
  BY <1>1 DEF TInv
<1> QED
  BY <1>1, <1>2 DEF TInv

LEMMA Exits ==
  ASSUME TInv, NEW p \in Procs, run[p].pc # "done", NEW code \in {0, 1, 2, Aborted}, Exit(p, code)
  PROVE  TInv'
<1>1. RunOK(Exited(run[p], code))
  BY ExitedOK DEF TInv
<1> QED
  BY <1>1, Becomes DEF Exit

LEMMA InvokeTyped == ASSUME TInv, NEW p \in Procs, Invoke(p) PROVE TInv'
<1>1. PICK line \in Lines[family] :
        LET d == Dispatch(line) IN
          /\ d.verb \notin {"apply", "init"}
          /\ run' = [run EXCEPT ![p] =
               IF d.verb = "none" THEN Exited([Idle EXCEPT !.argv = line], d.exit)
               ELSE [Idle EXCEPT !.argv = line, !.verb = d.verb, !.cfg = d.cfg,
                                 !.pc = FirstStep(d.verb, d.cfg)]]
  BY DEF Invoke
<1> DEFINE d == Dispatch(line)
           named == [Idle EXCEPT !.argv = line]
           r == IF d.verb = "none" THEN Exited(named, d.exit)
                ELSE [Idle EXCEPT !.argv = line, !.verb = d.verb, !.cfg = d.cfg,
                                  !.pc = FirstStep(d.verb, d.cfg)]
<1>2. {d.cfg.out, d.cfg.state_path, d.cfg.manifest_path} \subseteq DOMAIN Extension \cup {Unset}
  BY FamilyAssumption DEF TInv
<1>3. ASSUME d.verb = "none" PROVE RunOK(r)
  <2>1. d.exit \in {0, 2}
    BY <1>3 DEF Dispatch, JustExit, RunVerb, VerbNames
  <2>2. RunOK(named) /\ named.pc = "idle"
    BY IdleOK DEF RunOK, Idle
  <2> HIDE DEF named, d
  <2>3. RunOK(Exited(named, d.exit))
    BY <2>1, <2>2, ExitedOK
  <2> QED
    BY <1>3, <2>3 DEF r
<1>4. ASSUME d.verb # "none" PROVE RunOK(r)
  <2>1. d.cfg.manifest_format \in Formats /\ d.cfg.explicit_format \in Formats \cup {Unset}
    BY <1>4, DispatchedConfig
  <2>2. d.verb \in VerbNames /\ d.verb \notin {"apply", "init"}
    BY <1>1, <1>4, DispatchedConfig
  <2> DEFINE first == FirstStep(d.verb, d.cfg)
  <2>3. first \in {"manifest", "record", "actual"}
    BY <2>2 DEF FirstStep, VerbNames
  <2> HIDE DEF d, first
  <2>4. r = [Idle EXCEPT !.argv = line, !.verb = d.verb, !.cfg = d.cfg, !.pc = first]
    BY <1>4 DEF r, first
  <2> HIDE DEF r
  <2>5. /\ DOMAIN r = DOMAIN Idle /\ r.pc = first /\ r.cfg = d.cfg
        /\ r.exit = Unset /\ r.report = Unset
        /\ r.desired = Idle.desired /\ r.record = Idle.record /\ r.actual = Idle.actual
    BY <2>4 DEF Idle
  <2> QED
    BY <1>2, <2>1, <2>3, <2>5, IdleOK DEF RunOK
<1> HIDE DEF d, named, r
<1>5. RunOK(r)
  BY <1>3, <1>4
<1>6. runs' \in Nat
  <2>1. runs \in Nat /\ runs > 0 /\ runs' = runs - 1
    BY DEF Invoke, TInv
  <2> QED
    BY <2>1
<1>7. run' = [run EXCEPT ![p] = r]
  BY <1>1 DEF r, d, named
<1>8. run' = [q \in Procs |-> run'[q]] /\ \A q \in Procs : RunOK(run'[q])
  BY <1>5, <1>7 DEF TInv
<1> QED
  BY <1>6, <1>8 DEF TInv, Invoke

(* A run that goes on, with what it loaded. *)
LEMMA GoesOn ==
  ASSUME NEW r, RunOK(r), r.pc # "done",
         NEW n, DOMAIN n = DOMAIN r, n.pc \in {"record", "actual", "compare"},
         n.exit = r.exit, n.report = r.report, n.cfg = r.cfg,
         PackagesOK(n.desired), PackagesOK(n.record), PackagesOK(n.actual)
  PROVE  RunOK(n)
BY Silent DEF RunOK

LEMMA IdleFields ==
  DOMAIN Idle = {"pc", "argv", "verb", "cfg", "text", "desired", "sha", "record", "actual",
                 "report", "exit", "disturbed"}
BY DEF Idle

LEMMA LoadManifestTyped == ASSUME TInv, NEW p \in Procs, LoadManifest(p) PROVE TInv'
<1> DEFINE r == run[p]
           path == IF r.cfg.manifest_path = Unset THEN DefaultManifest ELSE r.cfg.manifest_path
           lm == LoadDesiredManifest(disk[path], FormatOf(r.cfg, path))
           n == [r EXCEPT !.pc = IF r.verb = "diff" THEN "record" ELSE "actual",
                          !.text = disk[path], !.desired = lm.manifest,
                          !.sha = CanonicalHash(lm.manifest)]
<1>1. r.pc = "manifest" /\ RunOK(r)
  BY DEF TInv, LoadManifest
<1>2. path \in DOMAIN Extension /\ FormOfFile(disk[path])
  BY <1>1, PathAssumption DEF TInv, RunOK
<1>3. PackagesOK(lm.manifest)
  BY <1>2, LoadedPackages
<1>4. \/ lm.status = "ok" /\ Become(p, n)
      \/ Exit(p, Aborted)
      \/ Exit(p, IF r.verb = "verify" \/ lm.status = "unreadable" THEN 2 ELSE 1)
  BY DEF LoadManifest
<1>5. CASE Become(p, n)
  <2>1. DOMAIN r = DOMAIN Idle
    BY <1>1 DEF RunOK
  <2> HIDE DEF lm, path, r
  <2>2. /\ DOMAIN n = DOMAIN r /\ n.pc \in {"record", "actual", "compare"}
        /\ n.exit = r.exit /\ n.report = r.report /\ n.cfg = r.cfg
        /\ n.desired = lm.manifest /\ n.record = r.record /\ n.actual = r.actual
    BY <2>1, IdleFields
  <2> HIDE DEF n
  <2>3. PackagesOK(r.record) /\ PackagesOK(r.actual)
    BY <1>1 DEF RunOK
  <2>4. RunOK(n)
    BY <1>1, <1>3, <2>2, <2>3, GoesOn
  <2> QED
    BY <1>5, <2>4, Becomes
<1> HIDE DEF lm, n
<1>6. CASE Exit(p, Aborted)
  BY <1>1, <1>6, Exits
<1>7. CASE Exit(p, IF r.verb = "verify" \/ lm.status = "unreadable" THEN 2 ELSE 1)
  BY <1>1, <1>7, Exits
<1> QED
  BY <1>4, <1>5, <1>6, <1>7

LEMMA LoadRecordTyped == ASSUME TInv, NEW p \in Procs, LoadRecord(p) PROVE TInv'
<1> DEFINE r == run[p]
           applied == LoadAppliedRecord(disk[RecordPath])
           loaded == [r EXCEPT !.pc = "actual", !.record = applied.manifest]
           named == [loaded EXCEPT !.desired = applied.manifest]
<1>1. r.pc = "record" /\ RunOK(r)
  BY DEF TInv, LoadRecord
<1>2. FormOfFile(disk[RecordPath])
  BY PathAssumption DEF TInv
<1>3. PackagesOK(applied.manifest)
  BY <1>2, LoadedPackages
<1>4. \/ \E code \in {0, 1, 2, Aborted} : Exit(p, code)
      \/ Become(p, loaded)
      \/ Become(p, named)
  BY DEF LoadRecord
<1>5. DOMAIN r = DOMAIN Idle /\ PackagesOK(r.desired) /\ PackagesOK(r.actual)
  BY <1>1 DEF RunOK
<1>6. CASE Become(p, loaded)
  <2> HIDE DEF applied, r
  <2>1. /\ DOMAIN loaded = DOMAIN r /\ loaded.pc \in {"record", "actual", "compare"}
        /\ loaded.exit = r.exit /\ loaded.report = r.report /\ loaded.cfg = r.cfg
        /\ loaded.desired = r.desired /\ loaded.record = applied.manifest /\ loaded.actual = r.actual
    BY <1>5, IdleFields
  <2> HIDE DEF loaded
  <2>2. RunOK(loaded)
    BY <1>1, <1>3, <1>5, <2>1, GoesOn
  <2> QED
    BY <1>6, <2>2, Becomes
<1>7. CASE Become(p, named)
  <2> HIDE DEF applied, r
  <2>1. /\ DOMAIN named = DOMAIN r /\ named.pc \in {"record", "actual", "compare"}
        /\ named.exit = r.exit /\ named.report = r.report /\ named.cfg = r.cfg
        /\ named.desired = applied.manifest /\ named.record = applied.manifest
        /\ named.actual = r.actual
    BY <1>5, IdleFields
  <2> HIDE DEF named
  <2>2. RunOK(named)
    BY <1>1, <1>3, <1>5, <2>1, GoesOn
  <2> QED
    BY <1>7, <2>2, Becomes
<1> HIDE DEF loaded, named
<1>8. ASSUME NEW code \in {0, 1, 2, Aborted}, Exit(p, code) PROVE TInv'
  BY <1>1, <1>8, Exits
<1> QED
  BY <1>4, <1>6, <1>7, <1>8

LEMMA ReadDumpTyped == ASSUME TInv, NEW p \in Procs, ReadDump(p) PROVE TInv'
<1> DEFINE r == run[p]
           path == r.cfg.state_path
           dump == LoadStateDump(disk[path], FormatOf(r.cfg, path))
           n == [r EXCEPT !.pc = "compare", !.actual = dump.manifest]
<1>1. r.pc = "actual" /\ RunOK(r) /\ path # Unset
  BY DEF TInv, ReadDump
<1>2. FormOfFile(disk[path])
  BY <1>1 DEF TInv, RunOK
<1>3. PackagesOK(dump.manifest)
  BY <1>2, LoadedPackages
<1>4. Become(p, n) \/ Exit(p, Aborted) \/ Exit(p, 2)
  BY DEF ReadDump
<1>5. CASE Become(p, n)
  <2>1. DOMAIN r = DOMAIN Idle /\ PackagesOK(r.desired) /\ PackagesOK(r.record)
    BY <1>1 DEF RunOK
  <2> HIDE DEF dump, r
  <2>2. /\ DOMAIN n = DOMAIN r /\ n.pc \in {"record", "actual", "compare"}
        /\ n.exit = r.exit /\ n.report = r.report /\ n.cfg = r.cfg
        /\ n.desired = r.desired /\ n.record = r.record /\ n.actual = dump.manifest
    BY <2>1, IdleFields
  <2> HIDE DEF n
  <2>3. RunOK(n)
    BY <1>1, <1>3, <2>1, <2>2, GoesOn
  <2> QED
    BY <1>5, <2>3, Becomes
<1> HIDE DEF n
<1> QED
  BY <1>1, <1>4, <1>5, Exits

LEMMA ReadHostTyped == ASSUME TInv, NEW p \in Procs, ReadHost(p) PROVE TInv'
<1> DEFINE r == run[p]
           scope == IF r.verb \in {"describe", "verify"} THEN r.cfg.scope ELSE "etc"
           live == DescribeActualState(r.cfg.on_unreadable, scope, LoadKeepList(r.cfg))
           read == [r EXCEPT !.actual = live.manifest]
           going == [read EXCEPT !.pc = "compare"]
           open == [read EXCEPT !.pc = "open"]
<1>1. r.pc = "actual" /\ RunOK(r) /\ FormOfHost(host)
  BY DEF TInv, ReadHost
<1>2. \/ Exit(p, 0) \/ Exit(p, 1)
      \/ live.status = "ok" /\ Become(p, going)
      \/ live.status = "ok" /\ Become(p, Described(read))
  BY DEF ReadHost
<1>3. ASSUME live.status = "ok" PROVE FormOfManifest(live.manifest) /\ PackagesOK(live.manifest)
  BY <1>1, <1>3, DescribedForm, FormPackages
<1>4. DOMAIN r = DOMAIN Idle /\ PackagesOK(r.desired) /\ PackagesOK(r.record)
  BY <1>1 DEF RunOK
<1>5. r.exit = Unset /\ r.report = Unset
  BY <1>1, Silent
<1> HIDE DEF live, r
<1>6. /\ DOMAIN read = DOMAIN r /\ read.pc = r.pc
      /\ read.exit = r.exit /\ read.report = r.report /\ read.cfg = r.cfg
      /\ read.desired = r.desired /\ read.record = r.record /\ read.actual = live.manifest
  BY <1>4, IdleFields
<1> HIDE DEF read
<1>7. /\ DOMAIN going = DOMAIN r /\ going.pc = "compare"
      /\ going.exit = r.exit /\ going.report = r.report /\ going.cfg = r.cfg
      /\ going.desired = r.desired /\ going.record = r.record /\ going.actual = live.manifest
  BY <1>4, <1>6, IdleFields
<1>8. /\ DOMAIN open = DOMAIN r /\ open.pc = "open"
      /\ open.exit = r.exit /\ open.report = r.report /\ open.cfg = r.cfg
      /\ open.desired = r.desired /\ open.record = r.record /\ open.actual = live.manifest
  BY <1>4, <1>6, IdleFields
<1> HIDE DEF going, open
<1>9. CASE live.status = "ok" /\ Become(p, going)
  <2>1. RunOK(going)
    BY <1>1, <1>3, <1>4, <1>7, <1>9, GoesOn
  <2> QED
    BY <1>9, <2>1, Becomes
<1>10. CASE live.status = "ok" /\ Become(p, Described(read))
  <2>1. CASE r.cfg.out = Unset
    <3>1. Described(read) = Exited(read, 0)
      BY <1>6, <2>1 DEF Described
    <3>2. RunOK(read)
      BY <1>1, <1>3, <1>4, <1>6, <1>10 DEF RunOK
    <3>3. RunOK(Exited(read, 0))
      BY <1>1, <1>6, <3>2, ExitedOK
    <3> QED
      BY <1>10, <3>1, <3>3, Becomes
  <2>2. CASE r.cfg.out # Unset
    <3>1. Described(read) = open
      BY <1>6, <2>2 DEF Described, open
    <3>2. RunOK(open)
      BY <1>1, <1>3, <1>4, <1>5, <1>8, <1>10, <2>2 DEF RunOK
    <3> QED
      BY <1>10, <3>1, <3>2, Becomes
  <2> QED
    BY <2>1, <2>2
<1>11. CASE Exit(p, 0) \/ Exit(p, 1)
  BY <1>1, <1>11, Exits DEF r
<1> QED
  BY <1>2, <1>9, <1>10, <1>11

LEMMA CompareTyped == ASSUME TInv, NEW p \in Procs, Compare(p) PROVE TInv'
<1> DEFINE r == run[p]
<1>1. r.pc = "compare" /\ RunOK(r)
  BY DEF TInv, Compare
<1> DEFINE desired == Compared(r.desired)
           drift == ComputeDrift(Compared(Considered(r)), desired, LoadKeepList(r.cfg))
           plan == IF r.verb = "diff" THEN ComputeIntentDiff(desired, Compared(r.record)) ELSE Unset
           report == [plan |-> plan, drift |-> drift]
           code == IF r.verb = "verify" /\ ~DriftEmpty(drift) THEN 1 ELSE 0
<1>2. Become(p, Exited([r EXCEPT !.report = report], code)) /\ code \in {0, 1}
  BY DEF Compare
<1> HIDE DEF report, code
<1> DEFINE n == [r EXCEPT !.report = report]
           e == Exited(n, code)
<1>3. DOMAIN r = DOMAIN Idle
  BY <1>1 DEF RunOK
<1> HIDE DEF r
<1>4. /\ DOMAIN n = DOMAIN Idle /\ n.report = report /\ n.cfg = r.cfg
      /\ n.desired = r.desired /\ n.record = r.record /\ n.actual = r.actual
  BY <1>3, IdleFields
<1> HIDE DEF n
<1>5. /\ DOMAIN e = DOMAIN Idle /\ e.pc = "done" /\ e.exit = code /\ e.report = report /\ e.cfg = r.cfg
      /\ e.desired = r.desired /\ e.record = r.record /\ e.actual = r.actual
  BY <1>4, IdleFields DEF Exited
<1> HIDE DEF e
<1>6. RunOK(e)
  BY <1>1, <1>2, <1>5, SentinelAssumption DEF RunOK
<1>7. Become(p, e)
  BY <1>2 DEF e, n, r
<1> QED
  BY <1>6, <1>7, Becomes

LEMMA DisturbedOK ==
  ASSUME NEW r, RunOK(r), NEW x PROVE RunOK([r EXCEPT !.disturbed = x])
<1> DEFINE n == [r EXCEPT !.disturbed = x]
<1>1. DOMAIN r = DOMAIN Idle
  BY DEF RunOK
<1>2. /\ DOMAIN n = DOMAIN r /\ n.pc = r.pc /\ n.exit = r.exit /\ n.report = r.report /\ n.cfg = r.cfg
      /\ n.desired = r.desired /\ n.record = r.record /\ n.actual = r.actual
  BY <1>1, IdleFields
<1> HIDE DEF n
<1> QED
  BY <1>2 DEF RunOK, n

LEMMA DisturbingOK ==
  ASSUME TInv, NEW p \in Procs, NEW r, RunOK(r), NEW path, run' = Disturbing(p, r, path)
  PROVE  run' = [q \in Procs |-> run'[q]] /\ \A q \in Procs : RunOK(run'[q])
<1>1. run' = [q \in Procs |-> run'[q]]
  BY DEF Disturbing
<1>2. ASSUME NEW q \in Procs PROVE RunOK(run'[q])
  <2>1. CASE q = p
    BY <2>1 DEF Disturbing
  <2>2. CASE q # p
    <3>1. run'[q] = [run[q] EXCEPT !.disturbed = @ \/ (Alive(q) /\ path \in Reads(run[q]))]
      BY <2>2 DEF Disturbing
    <3>2. RunOK(run[q])
      BY DEF TInv
    <3> QED
      BY <3>1, <3>2, DisturbedOK
  <2> QED
    BY <2>1, <2>2
<1> QED
  BY <1>1, <1>2

(* A step that writes an output: the file has the form of a file, and the outputs   *)
(* that are known to be descriptions were written whole.                       *)
LEMMA PutsOut ==
  ASSUME TInv, NEW p \in Procs, NEW r, RunOK(r), NEW path \in DOMAIN Extension, NEW file, FormOfFile(file),
         disk' = [disk EXCEPT ![path] = file], run' = Disturbing(p, r, path),
         \A f \in fresh' : f.path = path \/ f \in fresh,
         file.syntax \in Formats \/ \A f \in fresh' : f.path # path,
         events' \in Nat, UNCHANGED <<host, runs, family>>
  PROVE  TInv'
<1>1. run' = [q \in Procs |-> run'[q]] /\ \A q \in Procs : RunOK(run'[q])
  BY DisturbingOK
<1>2. /\ DOMAIN disk' = DOMAIN Extension
      /\ \A x \in DOMAIN Extension : disk'[x] = IF x = path THEN file ELSE disk[x]
  BY DEF TInv
<1>3. \A x \in DOMAIN Extension : FormOfFile(disk'[x])
  BY <1>2 DEF TInv
<1>4. \A f \in fresh' : f.path \in DOMAIN disk' /\ disk'[f.path].syntax \in Formats
  BY <1>2 DEF TInv
<1> QED
  BY <1>1, <1>2, <1>3, <1>4 DEF TInv

LEMMA OpenOutTyped == ASSUME TInv, NEW p \in Procs, OpenOut(p) PROVE TInv'
<1> DEFINE r == run[p]
           path == r.cfg.out
           n == [r EXCEPT !.pc = "write"]
           empty == [syntax |-> "empty", doc |-> EmptyDocument]
<1>1. r.pc = "open" /\ RunOK(r)
  BY DEF TInv, OpenOut
<1>2. path \in DOMAIN Extension
  BY <1>1 DEF RunOK
<1>3. CASE path \in Unwritable
  BY <1>1, <1>3, Exits DEF OpenOut
<1>4. CASE path \notin Unwritable
  <2>1. /\ disk' = [disk EXCEPT ![path] = empty] /\ run' = Disturbing(p, n, path)
        /\ fresh' = {f \in fresh : f.path # path}
        /\ events' \in Nat /\ UNCHANGED <<host, runs, family>>
    BY <1>4 DEF OpenOut, TInv
  <2>2. RunOK(n)
    <3>1. DOMAIN r = DOMAIN Idle
      BY <1>1 DEF RunOK
    <3> HIDE DEF r
    <3>2. /\ DOMAIN n = DOMAIN r /\ n.pc = "write" /\ n.exit = r.exit /\ n.report = r.report /\ n.cfg = r.cfg
          /\ n.desired = r.desired /\ n.record = r.record /\ n.actual = r.actual
      BY <3>1, IdleFields
    <3> HIDE DEF n
    <3> QED
      BY <1>1, <3>2 DEF RunOK
  <2>3. FormOfFile(empty)
    BY DEF FormOfFile, FormOfDocument, EmptyDocument, EmptyFunction
  <2> HIDE DEF r, path, n, empty
  <2> QED
    BY <1>2, <2>1, <2>2, <2>3, PutsOut
<1> QED
  BY <1>3, <1>4

LEMMA DocumentForm ==
  ASSUME TInv, NEW p \in Procs, run[p].pc = "write"
  PROVE  /\ FormOfFile(Document(run[p])) /\ Document(run[p]).syntax \in Formats
         /\ \A cut \in Cuts(Document(run[p])) : FormOfFile(cut)
         /\ run[p].cfg.out \in DOMAIN Extension
<1>1. RunOK(run[p]) /\ FormOfManifest(run[p].actual) /\ run[p].cfg.out \in DOMAIN Extension
  BY DEF TInv, RunOK
<1>2. FormatOf(run[p].cfg, run[p].cfg.out) \in Formats
  BY <1>1, FormatTyped
<1>3. Document(run[p]).syntax = FormatOf(run[p].cfg, run[p].cfg.out)
  BY DEF Document, SerializeManifest
<1> QED
  BY <1>1, <1>2, <1>3, SerializedForm DEF Document

LEMMA WriteOutTyped == ASSUME TInv, NEW p \in Procs, WriteOut(p) PROVE TInv'
<1> DEFINE r == run[p]
<1>1. r.pc = "write" /\ RunOK(r)
  BY DEF TInv, WriteOut
<1>2. PICK file \in {Document(r), Garbled} :
        /\ PutOut(p, file, Exited(r, 0))
        /\ fresh' = IF r.disturbed \/ file = Garbled THEN {f \in fresh : f.path # r.cfg.out}
                    ELSE {f \in fresh : f.path # r.cfg.out} \cup {[path |-> r.cfg.out, cfg |-> r.cfg]}
  BY <1>1 DEF WriteOut
<1>3. FormOfFile(file)
  <2>1. FormOfFile(Garbled)
    BY DEF FormOfFile, Garbled, FormOfDocument, EmptyDocument, EmptyFunction
  <2> QED
    BY <1>1, <1>2, <2>1, DocumentForm
<1>4. RunOK(Exited(r, 0))
  BY <1>1, ExitedOK
<1>5. /\ \A f \in fresh' : f.path = r.cfg.out \/ f \in fresh
      /\ file.syntax \in Formats \/ \A f \in fresh' : f.path # r.cfg.out
  BY <1>1, <1>2, DocumentForm
<1>6. events' \in Nat
  BY DEF WriteOut, TInv
<1>7. r.cfg.out \in DOMAIN Extension
  BY <1>1, DocumentForm
<1> QED
  BY <1>2, <1>3, <1>4, <1>5, <1>6, <1>7, PutsOut DEF PutOut

LEMMA WriteFailsTyped == ASSUME TInv, NEW p \in Procs, WriteFails(p) PROVE TInv'
<1> DEFINE r == run[p]
<1>1. r.pc = "write" /\ RunOK(r)
  BY DEF TInv, WriteFails
<1>2. PICK file \in Cuts(Document(r)), code \in {0, 2, Aborted} : PutOut(p, file, Exited(r, code))
  BY DEF WriteFails
<1>3. FormOfFile(file) /\ r.cfg.out \in DOMAIN Extension
  BY <1>1, DocumentForm
<1>4. RunOK(Exited(r, code))
  BY <1>1, ExitedOK
<1>5. fresh' = {f \in fresh : f.path # r.cfg.out}
  BY DEF WriteFails
<1>6. events' \in Nat
  <2>1. events \in Nat /\ events > 0 /\ events' = events - 1
    BY DEF WriteFails, TInv
  <2> QED
    BY <2>1
<1> HIDE DEF r
<1> QED
  BY <1>2, <1>3, <1>4, <1>5, <1>6, PutsOut DEF PutOut, r

LEMMA EditTyped == ASSUME TInv, Edit PROVE TInv'
<1>1. FormOfHost(host')
  BY FamilyAssumption DEF TInv, Edit
<1>2. run' = [q \in Procs |-> [run[q] EXCEPT !.disturbed = @ \/ Alive(q)]]
  BY DEF Edit
<1>3. \A q \in Procs : RunOK(run[q])
  BY DEF TInv
<1>4. \A q \in Procs : RunOK(run'[q])
  BY <1>2, <1>3, DisturbedOK
<1>5. run' = [q \in Procs |-> run'[q]]
  BY <1>2
<1>6. events' \in Nat
  <2>1. events \in Nat /\ events > 0 /\ events' = events - 1
    BY DEF Edit, TInv
  <2> QED
    BY <2>1
<1> QED
  BY <1>1, <1>4, <1>5, <1>6 DEF TInv, Edit

LEMMA TypeInit == Init => TInv
<1> SUFFICES ASSUME Init PROVE TInv
  OBVIOUS
<1>1. PICK k \in Scenarios : /\ host = Start(k).host /\ disk = Start(k).disk /\ family = Start(k).family
                             /\ runs = Start(k).runs /\ events = Start(k).events
  BY DEF Init
<1> QED
  BY <1>1, ScenarioAssumption, IdleOK DEF Init, TInv

LEMMA TypeStep == TInv /\ [Next]_vars => TInv'
<1> SUFFICES ASSUME TInv, [Next]_vars PROVE TInv'
  OBVIOUS
<1>1. CASE Edit
  BY <1>1, EditTyped
<1>2. ASSUME NEW p \in Procs, Invoke(p) \/ Step(p) \/ WriteFails(p) PROVE TInv'
  BY <1>2, InvokeTyped, LoadManifestTyped, LoadRecordTyped, ReadDumpTyped, ReadHostTyped, CompareTyped,
     OpenOutTyped, WriteOutTyped, WriteFailsTyped DEF Step
<1>3. CASE UNCHANGED vars
  BY <1>3 DEF TInv, vars
<1> QED
  BY <1>1, <1>2, <1>3 DEF Next

LEMMA TypeInv == Spec => []TInv
BY TypeInit, TypeStep, PTL DEF Spec

(* Every run of a verb has a code when it ends and only then, prints a comparison    *)
(* only on an exit of 0 or 1, writes only to paths that there are, and leaves each     *)
(* finished description a file of its format.                                   *)
THEOREM VerbsTypeCorrect == Spec => []TypeOK
<1>1. TInv => TypeOK
  BY DEF TInv, RunOK, TypeOK
<1> QED
  BY <1>1, TypeInv, PTL

-----------------------------------------------------------------------------
(* The comparisons, in every state *)

(* The packages of a manifest are records of packages. *)
LEMMA ComparedPackages ==
  ASSUME NEW m, PackagesOK(m)
  PROVE  /\ Compared(m) = [s \in Scopes |-> Compared(m)[s]]
         /\ Compared(m).packages = Absent \/ Compared(m).packages \subseteq Package
         /\ Elements(Compared(m).packages) \subseteq Package
<1>1. "packages" \in Scopes /\ "packages" \notin Observational
  BY DEF Scopes, RecordType, Observational
<1>2. Compared(m) = [s \in Scopes |-> Compared(m)[s]]
  BY DEF Compared
<1>3. Compared(m)["packages"] =
        IF "packages" \in DOMAIN m.scopes
          THEN {Seen("packages", m.scopes["packages"].elements[i]) : i \in DOMAIN m.scopes["packages"].elements}
          ELSE Absent
  BY <1>1 DEF Compared
<1>4. \A e : Seen("packages", e) = e
  BY <1>1 DEF Seen
<1>5. Compared(m).packages = Absent \/ Compared(m).packages \subseteq Package
  BY <1>3, <1>4 DEF PackagesOK
<1> QED
  BY <1>2, <1>5 DEF Elements

(* A full description without its findings.                                   *)
LEMMA WithoutFindings ==
  ASSUME NEW m, PackagesOK(m)
  PROVE  /\ PackagesOK(Without(m, Observational))
         /\ Compared(Without(m, Observational)).changed_managed_files = Absent
         /\ Compared(Without(m, Observational)).unmanaged_files = Absent
<1> DEFINE w == Without(m, Observational)
<1>1. /\ w.scopes = [s \in DOMAIN m.scopes \ Observational |-> m.scopes[s]]
      /\ DOMAIN w = {"meta", "scopes"}
  BY DEF Without, PackagesOK
<1> HIDE DEF w
<1>2. Observational = {"changed_managed_files", "unmanaged_files"} /\ Observational \subseteq Scopes
  BY DEF Observational, Scopes, RecordType
<1>3. \A s \in Observational : Compared(w)[s] = Absent
  BY <1>1, <1>2 DEF Compared
<1>4. PackagesOK(w)
  BY <1>1 DEF PackagesOK
<1> QED
  BY <1>2, <1>3, <1>4 DEF w

(* IntentSuffices is proved of all documents that a diff can load, of any host.     *)
THEOREM IntentSufficesAlways == Spec => []IntentSuffices
<1>1. ASSUME TInv, NEW p \in Procs
      PROVE  LET desired == Compared(run[p].desired)
                 applied == Compared(run[p].record)
                 actual == Compared(Without(run[p].actual, Observational))
                 keep == LoadKeepList(run[p].cfg)
             IN (\A s \in {"packages", "config_files", "services"} : OneOfEach(desired[s]))
                  /\ DriftEmpty(ComputeDrift(actual, applied, keep)) =>
                  DriftEmpty(ManagedDrift(CarriedOut(actual, ComputeIntentDiff(desired, applied)), desired, keep))
  <2> DEFINE desired == Compared(run[p].desired)
             applied == Compared(run[p].record)
             actual == Compared(Without(run[p].actual, Observational))
             keep == LoadKeepList(run[p].cfg)
  <2>1. PackagesOK(run[p].desired) /\ PackagesOK(run[p].actual)
    BY <1>1 DEF TInv, RunOK
  <2>2. /\ actual = [s \in Scopes |-> actual[s]] /\ Elements(actual.packages) \subseteq Package
        /\ Elements(desired.packages) \subseteq Package
        /\ actual.changed_managed_files = Absent /\ actual.unmanaged_files = Absent
    <3>1. PackagesOK(Without(run[p].actual, Observational))
      BY <2>1, WithoutFindings
    <3> QED
      BY <2>1, <3>1, ComparedPackages, WithoutFindings
  <2> HIDE DEF desired, applied, actual, keep
  <2>3. ASSUME \A s \in {"packages", "config_files", "services"} : OneOfEach(desired[s]),
               DriftEmpty(ComputeDrift(actual, applied, keep))
        PROVE  DriftEmpty(ManagedDrift(CarriedOut(actual, ComputeIntentDiff(desired, applied)), desired, keep))
    BY <2>2, <2>3, WorkSuffices
  <2> QED
    BY <2>3 DEF desired, applied, actual, keep
<1>2. TInv => IntentSuffices
  BY <1>1 DEF IntentSuffices
<1> QED
  BY <1>2, TypeInv, PTL

(* The three programs agree on locked packages, of whatever names and versions.     *)
THEOREM TranslationsAgreeAlways == Spec => []TranslationsAgreeOnLocks
<1>1. ASSUME TInv, NEW p \in Procs, IsLock(Compared(run[p].record).packages),
             IsLock(Compared(run[p].actual).packages),
             NamesOf(Compared(run[p].actual).packages) \subseteq NamesOf(Compared(run[p].record).packages)
      PROVE  LET cpp == PackagesDivergent(Compared(run[p].actual), Compared(run[p].record))
                 go  == GoPackagesDivergent(Compared(run[p].actual), Compared(run[p].record))
                 rs  == RsPackagesDivergent(Compared(run[p].actual), Compared(run[p].record)) IN
             (cpp = {}) = (go = {}) /\ (cpp = {}) = (rs = {})
  <2> DEFINE applied == Compared(run[p].record)
             actual == Compared(run[p].actual)
  <2>1. PackagesOK(run[p].record) /\ PackagesOK(run[p].actual)
    BY <1>1 DEF TInv, RunOK
  <2>2. applied.packages \subseteq Package /\ actual.packages \subseteq Package
    BY <1>1, <2>1, ComparedPackages DEF IsLock
  <2> HIDE DEF applied, actual
  <2> QED
    BY <1>1, <2>2, LocksAgree DEF applied, actual
<1>2. TInv => TranslationsAgreeOnLocks
  BY <1>1 DEF TranslationsAgreeOnLocks
<1> QED
  BY <1>2, TypeInv, PTL

-----------------------------------------------------------------------------
(* What a run holds is what the files and the host say *)

ManifestPath(p) ==
  IF run[p].cfg.manifest_path = Unset THEN DefaultManifest ELSE run[p].cfg.manifest_path

Loaded(p) == LoadDesiredManifest(run[p].text, FormatOf(run[p].cfg, ManifestPath(p)))
Applied == LoadAppliedRecord(disk[RecordPath])
Dump(p) == LoadStateDump(disk[run[p].cfg.state_path], FormatOf(run[p].cfg, run[p].cfg.state_path))
Live(p) == DescribeActualState(run[p].cfg.on_unreadable,
             IF run[p].verb \in {"describe", "verify"} THEN run[p].cfg.scope ELSE "etc",
             LoadKeepList(run[p].cfg))

Recorded(p) ==
  /\ run[p].verb = "diff" => run[p].text # NoFile
  /\ run[p].verb = "verify" /\ run[p].text = NoFile => run[p].cfg.manifest_path = Unset
  /\ ~run[p].disturbed =>
       /\ run[p].verb = "diff" =>
            Applied.status \in {"ok", "absent"} /\ run[p].record = Applied.manifest
       /\ run[p].text = NoFile => Applied.status = "ok" /\ run[p].desired = Applied.manifest

HostSeen(p) == Live(p).status = "ok" /\ run[p].actual = Live(p).manifest

Watches(p) ==
  ~run[p].disturbed =>
    IF run[p].verb # "status" /\ run[p].cfg.state_path # Unset
      THEN Dump(p).status = "ok" /\ run[p].actual = Dump(p).manifest
    ELSE HostSeen(p)

Follows(p) ==
  /\ Alive(p) => /\ run[p].verb \in {"diff", "verify", "status", "describe"}
                 /\ run[p].verb = "describe" => run[p].text = NoFile
  /\ run[p].pc = "manifest" => run[p].text = NoFile /\ run[p].verb \in {"diff", "verify"}
  /\ run[p].pc = "record" => /\ run[p].verb # "describe"
                             /\ run[p].verb = "diff" <=> run[p].text # NoFile
                             /\ run[p].verb = "verify" => run[p].cfg.manifest_path = Unset
  /\ run[p].text # NoFile =>
       FormOfFile(run[p].text) /\ Loaded(p).status = "ok" /\ run[p].desired = Loaded(p).manifest
  /\ run[p].sha = IF run[p].text = NoFile THEN Unset ELSE CanonicalHash(Loaded(p).manifest)
  /\ Alive(p) /\ ~run[p].disturbed /\ run[p].text # NoFile => run[p].text = disk[ManifestPath(p)]
  /\ run[p].pc \in {"actual", "compare"} /\ run[p].verb # "describe" => Recorded(p)
  /\ run[p].pc = "compare" => run[p].verb # "describe" /\ Watches(p)
  /\ run[p].pc \in {"open", "write"} => run[p].verb = "describe" /\ (~run[p].disturbed => HostSeen(p))

LEMMA ReadStatus ==
  ASSUME NEW file, NEW format
  PROVE  /\ Read(file, format).status \in {"ok", "invalid", "abort"}
         /\ LoadAppliedRecord(file).status \in {"ok", "invalid", "abort", "absent"}
         /\ LoadAppliedRecord(file).status = "absent" <=> file = NoFile
         /\ LoadDesiredManifest(file, format).status = "ok" =>
              /\ file # NoFile /\ Read(file, format).status = "ok"
              /\ LoadDesiredManifest(file, format).manifest
                   = Without(Read(file, format).manifest, Observational)
         /\ LoadStateDump(file, format).status = "ok" =>
              /\ file # NoFile /\ Read(file, format).status = "ok"
              /\ LoadStateDump(file, format).manifest = Read(file, format).manifest
<1>1. \A how : Failed(how).status = how
  BY DEF Failed
<1>2. ASSUME NEW f, NEW g
      PROVE  Read(f, g).status \in {"ok", "invalid", "abort"} /\ DOMAIN Read(f, g) = {"status", "manifest"}
  BY DEF Read, JsonToManifest, Failed
<1> DEFINE r == Read(file, format)
<1>3. r.status \in {"ok", "invalid", "abort"} /\ DOMAIN r = {"status", "manifest"}
  BY <1>2
<1> HIDE DEF r
<1>4. /\ [r EXCEPT !.manifest = Without(@, Observational)].status = r.status
      /\ [r EXCEPT !.manifest = Without(@, Observational)].manifest = Without(r.manifest, Observational)
  BY <1>3
<1>5. /\ LoadAppliedRecord(file).status \in {"ok", "invalid", "abort", "absent"}
      /\ LoadAppliedRecord(file).status = "absent" <=> file = NoFile
  BY <1>1, <1>2 DEF LoadAppliedRecord
<1>6. LoadDesiredManifest(file, format).status = "ok" =>
              /\ file # NoFile /\ r.status = "ok"
              /\ LoadDesiredManifest(file, format).manifest = Without(r.manifest, Observational)
  BY <1>1, <1>4 DEF LoadDesiredManifest, r
<1>7. LoadStateDump(file, format).status = "ok" =>
              file # NoFile /\ r.status = "ok" /\ LoadStateDump(file, format).manifest = r.manifest
  BY <1>1 DEF LoadStateDump, r
<1> QED
  BY <1>2, <1>5, <1>6, <1>7 DEF r

(* A step of somebody else, or of time. *)
LEMMA FollowsOn ==
  ASSUME NEW p \in Procs, Follows(p), RunOK(run[p]),
         DOMAIN run'[p] = DOMAIN run[p], \A f \in DOMAIN run[p] \ {"disturbed"} : run'[p][f] = run[p][f],
         Alive(p) /\ ~run'[p].disturbed =>
           /\ ~run[p].disturbed /\ host' = host
           /\ disk'[RecordPath] = disk[RecordPath] /\ disk'[ManifestPath(p)] = disk[ManifestPath(p)]
           /\ run[p].cfg.state_path # Unset => disk'[run[p].cfg.state_path] = disk[run[p].cfg.state_path]
  PROVE  Follows(p)'
<1>1. /\ run'[p].pc = run[p].pc /\ run'[p].verb = run[p].verb /\ run'[p].cfg = run[p].cfg
      /\ run'[p].text = run[p].text /\ run'[p].desired = run[p].desired /\ run'[p].sha = run[p].sha
      /\ run'[p].record = run[p].record /\ run'[p].actual = run[p].actual
  <2>1. DOMAIN run[p] = DOMAIN Idle
    BY DEF RunOK
  <2> QED
    BY <2>1, IdleFields
<1>2. /\ Loaded(p)' = Loaded(p) /\ ManifestPath(p)' = ManifestPath(p)
      /\ Alive(p) /\ ~run'[p].disturbed => Applied' = Applied /\ Live(p)' = Live(p)
  BY <1>1 DEF Applied, Loaded, ManifestPath, Live, DescribeActualState, LoadKeepList
<1>3. Alive(p) /\ Recorded(p) => Recorded(p)'
  BY <1>1, <1>2 DEF Recorded
<1>4. ASSUME run[p].pc = "compare", Watches(p) PROVE Watches(p)'
  <2> SUFFICES ASSUME ~run'[p].disturbed
               PROVE  (IF run[p].verb # "status" /\ run[p].cfg.state_path # Unset
                         THEN Dump(p).status = "ok" /\ run[p].actual = Dump(p).manifest
                       ELSE HostSeen(p))'
    BY DEF Watches
  <2>1. ~run[p].disturbed /\ host' = host
    BY <1>4 DEF Alive
  <2>2. Live(p)' = Live(p)
    BY <1>2, <1>4 DEF Alive
  <2>3. run[p].cfg.state_path # Unset => Dump(p)' = Dump(p)
    BY <1>1, <1>4 DEF Dump, Alive
  <2> QED
    BY <1>1, <1>4, <2>1, <2>2, <2>3 DEF Watches, HostSeen
<1>5. ASSUME Alive(p), ~run'[p].disturbed, HostSeen(p) PROVE HostSeen(p)'
  BY <1>1, <1>2, <1>5 DEF HostSeen
<1> QED
  BY <1>1, <1>2, <1>3, <1>4, <1>5 DEF Follows, Alive

(* A run that writes or ends. *)
LEMMA FollowsOut ==
  ASSUME NEW p \in Procs, Follows(p), Alive(p), run'[p].pc \in {"open", "write", "done"},
         run'[p].verb = run[p].verb, run'[p].cfg = run[p].cfg,
         run'[p].text = run[p].text, run'[p].desired = run[p].desired, run'[p].sha = run[p].sha,
         run'[p].pc # "done" => run[p].verb = "describe" /\ (~run'[p].disturbed => HostSeen(p)')
  PROVE  Follows(p)'
<1>1. Loaded(p)' = Loaded(p)
  BY DEF Loaded, ManifestPath
<1> QED
  BY <1>1 DEF Follows, Alive

FInv == TInv /\ \A p \in Procs : Follows(p)

LEMMA BecomeFollows ==
  ASSUME FInv, NEW p \in Procs, NEW r, Become(p, r), Follows(p)'
  PROVE  \A q \in Procs : Follows(q)'
<1> SUFFICES ASSUME NEW q \in Procs, q # p PROVE Follows(q)'
  OBVIOUS
<1>1. run'[q] = run[q] /\ disk' = disk /\ host' = host
  BY DEF Become, FInv, TInv
<1> QED
  BY <1>1, FollowsOn DEF FInv, TInv

LEMMA ExitFollows ==
  ASSUME FInv, NEW p \in Procs, Alive(p), NEW code, Exit(p, code)
  PROVE  \A q \in Procs : Follows(q)'
<1> DEFINE e == Exited(run[p], code)
<1>1. run'[p] = e
  BY DEF Exit, Become, FInv, TInv
<1>2. DOMAIN run[p] = DOMAIN Idle
  BY DEF FInv, TInv, RunOK
<1>3. e.pc = "done" /\ e.verb = run[p].verb /\ e.cfg = run[p].cfg
      /\ e.text = run[p].text /\ e.desired = run[p].desired /\ e.sha = run[p].sha
  BY <1>2, IdleFields DEF Exited
<1> HIDE DEF e
<1>4. Follows(p)'
  BY <1>1, <1>3, FollowsOut DEF FInv
<1> QED
  BY <1>4, BecomeFollows DEF Exit

LEMMA DisturbingFollows ==
  ASSUME FInv, NEW p \in Procs, NEW r, NEW file, run[p].cfg.out # Unset,
         disk' = [disk EXCEPT ![run[p].cfg.out] = file], run' = Disturbing(p, r, run[p].cfg.out),
         host' = host, Follows(p)'
  PROVE  \A q \in Procs : Follows(q)'
<1> SUFFICES ASSUME NEW q \in Procs, q # p PROVE Follows(q)'
  OBVIOUS
<1> DEFINE path == run[p].cfg.out
<1>1. RunOK(run[p]) /\ RunOK(run[q]) /\ DOMAIN run[q] = DOMAIN Idle
  BY DEF FInv, TInv, RunOK
<1>3. run'[q] = [run[q] EXCEPT !.disturbed = @ \/ (Alive(q) /\ path \in Reads(run[q]))]
  BY DEF Disturbing
<1> HIDE DEF path
<1>5. /\ DOMAIN run'[q] = DOMAIN run[q] /\ \A f \in DOMAIN run[q] \ {"disturbed"} : run'[q][f] = run[q][f]
      /\ run'[q].disturbed = (run[q].disturbed \/ (Alive(q) /\ path \in Reads(run[q])))
  BY <1>1, <1>3, IdleFields
<1>6. ASSUME Alive(q), ~run'[q].disturbed
      PROVE  /\ ~run[q].disturbed /\ disk'[RecordPath] = disk[RecordPath]
             /\ disk'[ManifestPath(q)] = disk[ManifestPath(q)]
             /\ run[q].cfg.state_path # Unset => disk'[run[q].cfg.state_path] = disk[run[q].cfg.state_path]
  <2>1. ~run[q].disturbed /\ path \notin Reads(run[q])
    BY <1>5, <1>6
  <2>2. run[q].cfg.state_path # path /\ RecordPath # path /\ ManifestPath(q) # path
    BY <2>1 DEF Reads, ManifestPath
  <2>3. /\ run[q].cfg.state_path # Unset => run[q].cfg.state_path \in DOMAIN disk
        /\ ManifestPath(q) \in DOMAIN disk
    BY <1>1, PathAssumption DEF RunOK, FInv, TInv, ManifestPath
  <2> QED
    BY <2>1, <2>2, <2>3, PathAssumption DEF path, FInv, TInv
<1> QED
  BY <1>1, <1>5, <1>6, FollowsOn DEF FInv

LEMMA InvokeFollows == ASSUME FInv, NEW p \in Procs, Invoke(p) PROVE \A q \in Procs : Follows(q)'
<1>1. PICK line \in Lines[family] :
        LET d == Dispatch(line) IN
          /\ d.verb \notin {"apply", "init"}
          /\ run' = [run EXCEPT ![p] =
               IF d.verb = "none" THEN Exited([Idle EXCEPT !.argv = line], d.exit)
               ELSE [Idle EXCEPT !.argv = line, !.verb = d.verb, !.cfg = d.cfg,
                                 !.pc = FirstStep(d.verb, d.cfg)]]
  BY DEF Invoke
<1> DEFINE d == Dispatch(line)
           named == [Idle EXCEPT !.argv = line]
           first == FirstStep(d.verb, d.cfg)
           r == IF d.verb = "none" THEN Exited(named, d.exit)
                ELSE [Idle EXCEPT !.argv = line, !.verb = d.verb, !.cfg = d.cfg, !.pc = first]
<1>2. /\ d.verb # "none" => d.verb \in VerbNames /\ d.verb \notin {"apply", "init"}
      /\ d.verb = "none" => r.pc = "done"
  <2>1. d.verb # "none" => d.verb \in VerbNames /\ d.verb \notin {"apply", "init"}
    BY <1>1, DispatchedConfig
  <2> HIDE DEF d
  <2> QED
    BY <2>1, IdleFields DEF Exited, Idle
<1>3. d.verb # "none" =>
        /\ d.verb \in {"diff", "verify", "status", "describe"} /\ first \in {"manifest", "record", "actual"}
        /\ first = "manifest" => d.verb \in {"diff", "verify"}
        /\ first = "record" => d.verb \in {"verify", "status"}
        /\ first = "record" /\ d.verb = "verify" => d.cfg.manifest_path = Unset
        /\ first = "actual" => d.verb = "describe"
  BY <1>2 DEF FirstStep, VerbNames
<1>4. run' = [run EXCEPT ![p] = r]
  BY <1>1
<1> HIDE DEF d, first
<1>5. /\ r.text = NoFile /\ r.sha = Unset
      /\ d.verb # "none" => r.pc = first /\ r.verb = d.verb /\ r.cfg = d.cfg
  BY DEF Idle, Exited
<1> HIDE DEF r
<1>6. run'[p] = r
  BY <1>4 DEF FInv, TInv
<1>7. Follows(p)'
  BY <1>2, <1>3, <1>5, <1>6 DEF Follows, Alive
<1>8. ASSUME NEW q \in Procs, q # p PROVE Follows(q)'
  <2>1. run'[q] = run[q] /\ disk' = disk /\ host' = host
    BY <1>4, <1>8 DEF FInv, TInv, Invoke
  <2> QED
    BY <2>1, FollowsOn DEF FInv, TInv
<1> QED
  BY <1>7, <1>8

LEMMA LoadManifestFollows ==
  ASSUME FInv, NEW p \in Procs, LoadManifest(p) PROVE \A q \in Procs : Follows(q)'
<1> DEFINE r == run[p]
           path == ManifestPath(p)
           lm == LoadDesiredManifest(disk[path], FormatOf(r.cfg, path))
           n == [r EXCEPT !.pc = IF r.verb = "diff" THEN "record" ELSE "actual",
                          !.text = disk[path], !.desired = lm.manifest,
                          !.sha = CanonicalHash(lm.manifest)]
<1>1. r.pc = "manifest" /\ RunOK(r) /\ Follows(p) /\ DOMAIN r = DOMAIN Idle /\ Alive(p)
  BY DEF FInv, TInv, LoadManifest, RunOK, Alive
<1>2. r.verb \in {"diff", "verify"}
  BY <1>1 DEF Follows
<1>3. path \in DOMAIN Extension /\ FormOfFile(disk[path])
  BY <1>1, PathAssumption DEF FInv, TInv, RunOK, ManifestPath
<1>4. \/ lm.status = "ok" /\ Become(p, n)
      \/ \E code \in {1, 2, Aborted} : Exit(p, code)
  BY DEF LoadManifest, ManifestPath
<1>5. CASE lm.status = "ok" /\ Become(p, n)
  <2>1. disk[path] # NoFile
    BY <1>5, ReadStatus
  <2>2. run'[p] = n /\ disk' = disk
    BY <1>5 DEF Become, FInv, TInv
  <2> HIDE DEF lm, path, r
  <2>3. /\ n.pc = (IF r.verb = "diff" THEN "record" ELSE "actual") /\ n.verb = r.verb /\ n.cfg = r.cfg
        /\ n.text = disk[path] /\ n.desired = lm.manifest /\ n.sha = CanonicalHash(lm.manifest)
    BY <1>1, IdleFields
  <2> HIDE DEF n
  <2>4. Loaded(p)' = lm /\ ManifestPath(p)' = path
    BY <2>2, <2>3 DEF Loaded, ManifestPath, lm, path, r
  <2>5. run'[p].verb = "verify" => Recorded(p)'
    BY <2>1, <2>2, <2>3 DEF Recorded
  <2>6. Follows(p)'
    BY <1>2, <1>3, <1>5, <2>1, <2>2, <2>3, <2>4, <2>5 DEF Follows, Alive
  <2> QED
    BY <1>5, <2>6, BecomeFollows
<1>6. ASSUME NEW code, Exit(p, code) PROVE \A q \in Procs : Follows(q)'
  BY <1>1, <1>6, ExitFollows
<1> QED
  BY <1>4, <1>5, <1>6

LEMMA LoadRecordFollows ==
  ASSUME FInv, NEW p \in Procs, LoadRecord(p) PROVE \A q \in Procs : Follows(q)'
<1> DEFINE r == run[p]
           loaded == [r EXCEPT !.pc = "actual", !.record = Applied.manifest]
           named == [loaded EXCEPT !.desired = Applied.manifest]
<1>1. r.pc = "record" /\ RunOK(r) /\ Follows(p) /\ DOMAIN r = DOMAIN Idle /\ Alive(p)
  BY DEF FInv, TInv, LoadRecord, RunOK, Alive
<1>2. r.verb # "describe" /\ (r.verb = "diff" <=> r.text # NoFile) /\ r.verb \in {"diff", "verify", "status", "describe"}
  BY <1>1 DEF Follows
<1>3. Applied.status \in {"ok", "invalid", "abort", "absent"}
  BY ReadStatus DEF Applied
<1>4. \/ \E code : Exit(p, code)
      \/ r.verb = "diff" /\ Applied.status \in {"ok", "absent"} /\ Become(p, loaded)
      \/ r.verb # "diff" /\ Applied.status = "ok" /\ Become(p, named)
  BY DEF LoadRecord, Applied
<1>5. CASE r.verb = "diff" /\ Applied.status \in {"ok", "absent"} /\ Become(p, loaded)
  <2>1. run'[p] = loaded /\ disk' = disk
    BY <1>5 DEF Become, FInv, TInv
  <2>2. Applied' = Applied
    BY <2>1 DEF Applied
  <2> DEFINE applied == Applied
  <2> HIDE DEF applied
  <2>3. /\ loaded.pc = "actual" /\ loaded.verb = r.verb /\ loaded.cfg = r.cfg
        /\ loaded.text = r.text /\ loaded.desired = r.desired /\ loaded.record = Applied.manifest
        /\ loaded.sha = r.sha /\ loaded.disturbed = r.disturbed
    BY <1>1, IdleFields
  <2> HIDE DEF loaded
  <2>4. Loaded(p)' = Loaded(p) /\ ManifestPath(p)' = ManifestPath(p)
    BY <2>1, <2>3 DEF Loaded, ManifestPath
  <2>5. Recorded(p)'
    BY <1>2, <1>5, <2>1, <2>2, <2>3 DEF Recorded
  <2>6. Follows(p)'
    BY <1>1, <1>2, <2>1, <2>3, <2>4, <2>5 DEF Follows, Alive
  <2> QED
    BY <1>5, <2>6, BecomeFollows
<1>6. CASE r.verb # "diff" /\ Applied.status = "ok" /\ Become(p, named)
  <2>1. run'[p] = named /\ disk' = disk
    BY <1>6 DEF Become, FInv, TInv
  <2>2. Applied' = Applied
    BY <2>1 DEF Applied
  <2>3. /\ named.pc = "actual" /\ named.verb = r.verb /\ named.cfg = r.cfg
        /\ named.text = r.text /\ named.desired = Applied.manifest /\ named.sha = r.sha
    BY <1>1, IdleFields
  <2> HIDE DEF named
  <2>4. Recorded(p)'
    BY <1>1, <1>2, <1>6, <2>1, <2>2, <2>3 DEF Recorded, Follows
  <2>5. Follows(p)'
    BY <1>1, <1>2, <1>6, <2>1, <2>3, <2>4 DEF Follows, Alive
  <2> QED
    BY <1>6, <2>5, BecomeFollows
<1>7. ASSUME NEW code, Exit(p, code) PROVE \A q \in Procs : Follows(q)'
  BY <1>1, <1>7, ExitFollows
<1> QED
  BY <1>4, <1>5, <1>6, <1>7

(* The two steps that get the actual state. *)
LEMMA ReadFollows ==
  ASSUME FInv, NEW p \in Procs, run[p].pc = "actual", run[p].verb # "describe", NEW m, NEW n,
         n = [run[p] EXCEPT !.pc = "compare", !.actual = m], Become(p, n),
         ~run[p].disturbed =>
           IF run[p].verb # "status" /\ run[p].cfg.state_path # Unset
             THEN Dump(p).status = "ok" /\ m = Dump(p).manifest
           ELSE Live(p).status = "ok" /\ m = Live(p).manifest
  PROVE  \A q \in Procs : Follows(q)'
<1>1. run'[p] = n /\ disk' = disk /\ host' = host
  BY DEF Become, FInv, TInv
<1>2. DOMAIN run[p] = DOMAIN Idle /\ Follows(p)
  BY DEF FInv, TInv, RunOK
<1>3. /\ n.pc = "compare" /\ n.verb = run[p].verb /\ n.cfg = run[p].cfg /\ n.text = run[p].text
      /\ n.desired = run[p].desired /\ n.record = run[p].record /\ n.actual = m
      /\ n.disturbed = run[p].disturbed /\ n.sha = run[p].sha
  BY <1>2, IdleFields
<1>4. /\ Applied' = Applied /\ Loaded(p)' = Loaded(p) /\ Dump(p)' = Dump(p)
      /\ ManifestPath(p)' = ManifestPath(p)
  BY <1>1, <1>3 DEF Applied, Loaded, ManifestPath, Dump
<1>5. Live(p)' = Live(p)
  BY <1>1, <1>3 DEF Live, DescribeActualState, LoadKeepList
<1>6. Recorded(p)
  BY <1>2 DEF Follows
<1>7. Recorded(p)'
  BY <1>1, <1>3, <1>4, <1>6 DEF Recorded
<1>8. Watches(p)'
  BY <1>1, <1>3, <1>4, <1>5 DEF Watches, HostSeen
<1>9. Follows(p)'
  BY <1>1, <1>2, <1>3, <1>4, <1>7, <1>8 DEF Follows, Alive
<1> QED
  BY <1>9, BecomeFollows

LEMMA ReadDumpFollows ==
  ASSUME FInv, NEW p \in Procs, ReadDump(p) PROVE \A q \in Procs : Follows(q)'
<1> DEFINE n == [run[p] EXCEPT !.pc = "compare", !.actual = Dump(p).manifest]
<1>1. /\ run[p].pc = "actual" /\ run[p].verb \in {"diff", "verify"} /\ run[p].cfg.state_path # Unset
      /\ (Dump(p).status = "ok" /\ Become(p, n)) \/ \E code : Exit(p, code)
  BY DEF ReadDump, Dump
<1>2. CASE Dump(p).status = "ok" /\ Become(p, n)
  BY <1>1, <1>2, ReadFollows
<1>3. ASSUME NEW code, Exit(p, code) PROVE \A q \in Procs : Follows(q)'
  BY <1>1, <1>3, ExitFollows DEF Alive
<1> QED
  BY <1>1, <1>2, <1>3

LEMMA ReadHostFollows ==
  ASSUME FInv, NEW p \in Procs, ReadHost(p) PROVE \A q \in Procs : Follows(q)'
<1> DEFINE r == run[p]
           scope == IF r.verb \in {"describe", "verify"} THEN r.cfg.scope ELSE "etc"
           live == DescribeActualState(r.cfg.on_unreadable, scope, LoadKeepList(r.cfg))
           read == [r EXCEPT !.actual = live.manifest]
           n == [r EXCEPT !.pc = "compare", !.actual = live.manifest]
<1>1. /\ r.pc = "actual" /\ Alive(p) /\ DOMAIN r = DOMAIN Idle
      /\ r.verb \in {"describe", "status"} \/ r.cfg.state_path = Unset
  BY DEF ReadHost, Alive, FInv, TInv, RunOK
<1>2. \/ \E code : Exit(p, code)
      \/ live.status = "ok" /\ r.verb # "describe" /\ Become(p, [read EXCEPT !.pc = "compare"])
      \/ live.status = "ok" /\ r.verb = "describe" /\ Become(p, Described(read))
  BY DEF ReadHost
<1>3. CASE live.status = "ok" /\ r.verb # "describe" /\ Become(p, [read EXCEPT !.pc = "compare"])
  <2>1. live = Live(p)
    BY <1>3 DEF Live
  <2> HIDE DEF live
  <2>2. [read EXCEPT !.pc = "compare"] = n
    BY <1>1, IdleFields
  <2> QED
    BY <1>1, <1>3, <2>1, <2>2, ReadFollows
<1>4. CASE live.status = "ok" /\ r.verb = "describe" /\ Become(p, Described(read))
  <2>1. run'[p] = Described(read) /\ host' = host
    BY <1>4 DEF Become, FInv, TInv
  <2>4. live = Live(p)
    BY <1>4 DEF Live
  <2> HIDE DEF live
  <2>2. /\ Described(read).pc \in {"open", "done"} /\ Described(read).verb = r.verb
        /\ Described(read).cfg = r.cfg /\ Described(read).text = r.text
        /\ Described(read).desired = r.desired /\ Described(read).sha = r.sha
        /\ Described(read).actual = live.manifest
    <3>1. /\ DOMAIN read = DOMAIN Idle /\ read.verb = r.verb /\ read.cfg = r.cfg
          /\ read.text = r.text /\ read.desired = r.desired /\ read.sha = r.sha
          /\ read.actual = live.manifest
      BY <1>1, IdleFields
    <3> HIDE DEF read
    <3> QED
      BY <3>1, IdleFields DEF Described, Exited
  <2>5. Live(p)' = Live(p)
    BY <2>1, <2>2 DEF Live, DescribeActualState, LoadKeepList
  <2>6. HostSeen(p)'
    BY <1>4, <2>1, <2>2, <2>4, <2>5 DEF HostSeen
  <2>3. Follows(p)'
    BY <1>1, <1>4, <2>1, <2>2, <2>6, FollowsOut DEF FInv
  <2> QED
    BY <1>4, <2>3, BecomeFollows
<1>5. ASSUME NEW code, Exit(p, code) PROVE \A q \in Procs : Follows(q)'
  BY <1>1, <1>5, ExitFollows
<1> QED
  BY <1>2, <1>3, <1>4, <1>5

LEMMA CompareFollows ==
  ASSUME FInv, NEW p \in Procs, Compare(p) PROVE \A q \in Procs : Follows(q)'
<1> DEFINE r == run[p]
           desired == Compared(r.desired)
           drift == ComputeDrift(Compared(Considered(r)), desired, LoadKeepList(r.cfg))
           plan == IF r.verb = "diff" THEN ComputeIntentDiff(desired, Compared(r.record)) ELSE Unset
           report == [plan |-> plan, drift |-> drift]
           code == IF r.verb = "verify" /\ ~DriftEmpty(drift) THEN 1 ELSE 0
           n == Exited([r EXCEPT !.report = report], code)
<1>1. Become(p, n) /\ Alive(p) /\ DOMAIN r = DOMAIN Idle
  BY DEF Compare, Alive, FInv, TInv, RunOK
<1>2. run'[p] = n
  BY <1>1 DEF Become, FInv, TInv
<1> HIDE DEF report, code
<1>3. /\ n.pc = "done" /\ n.verb = r.verb /\ n.cfg = r.cfg /\ n.text = r.text /\ n.desired = r.desired
      /\ n.sha = r.sha
  BY <1>1, IdleFields DEF Exited
<1> HIDE DEF n
<1>4. Follows(p)'
  BY <1>1, <1>2, <1>3, FollowsOut DEF FInv
<1> QED
  BY <1>1, <1>4, BecomeFollows

LEMMA OpenOutFollows ==
  ASSUME FInv, NEW p \in Procs, OpenOut(p) PROVE \A q \in Procs : Follows(q)'
<1> DEFINE n == [run[p] EXCEPT !.pc = "write"]
<1>1. Alive(p) /\ DOMAIN run[p] = DOMAIN Idle /\ run[p].cfg.out # Unset
  BY DEF OpenOut, Alive, FInv, TInv, RunOK
<1>2. CASE run[p].cfg.out \in Unwritable
  BY <1>1, <1>2, ExitFollows DEF OpenOut
<1>3. CASE run[p].cfg.out \notin Unwritable
  <2> DEFINE empty == [syntax |-> "empty", doc |-> EmptyDocument]
  <2>1. /\ disk' = [disk EXCEPT ![run[p].cfg.out] = empty]
        /\ run' = Disturbing(p, n, run[p].cfg.out) /\ host' = host
    BY <1>3 DEF OpenOut
  <2> HIDE DEF empty
  <2>2. n.pc = "write" /\ n.verb = run[p].verb /\ n.cfg = run[p].cfg
        /\ n.text = run[p].text /\ n.desired = run[p].desired /\ n.sha = run[p].sha
        /\ n.actual = run[p].actual /\ n.disturbed = run[p].disturbed
    BY <1>1, IdleFields
  <2> HIDE DEF n
  <2>3. run'[p] = n
    BY <2>1 DEF Disturbing
  <2>5. run[p].verb = "describe" /\ (~run[p].disturbed => HostSeen(p))
    BY DEF FInv, Follows, OpenOut
  <2>6. Live(p)' = Live(p)
    BY <2>1, <2>2, <2>3 DEF Live, DescribeActualState, LoadKeepList
  <2>7. HostSeen(p) => HostSeen(p)'
    BY <2>2, <2>3, <2>6 DEF HostSeen
  <2>4. Follows(p)'
    BY <1>1, <2>2, <2>3, <2>5, <2>7, FollowsOut DEF FInv
  <2> QED
    BY <1>1, <2>1, <2>4, DisturbingFollows
<1> QED
  BY <1>2, <1>3

LEMMA PutOutFollows ==
  ASSUME FInv, NEW p \in Procs, run[p].pc = "write", NEW file, NEW code,
         PutOut(p, file, Exited(run[p], code))
  PROVE  \A q \in Procs : Follows(q)'
<1> DEFINE e == Exited(run[p], code)
<1>1. Alive(p) /\ DOMAIN run[p] = DOMAIN Idle /\ run[p].cfg.out # Unset
  BY DEF Alive, FInv, TInv, RunOK
<1>2. e.pc = "done" /\ e.verb = run[p].verb /\ e.cfg = run[p].cfg
      /\ e.text = run[p].text /\ e.desired = run[p].desired /\ e.sha = run[p].sha
  BY <1>1, IdleFields DEF Exited
<1>3. run'[p] = e
  BY DEF PutOut, Disturbing
<1> HIDE DEF e
<1>4. Follows(p)'
  BY <1>1, <1>2, <1>3, FollowsOut DEF FInv
<1> QED
  BY <1>1, <1>4, DisturbingFollows DEF PutOut

LEMMA EditFollows == ASSUME FInv, Edit PROVE \A q \in Procs : Follows(q)'
<1> SUFFICES ASSUME NEW q \in Procs PROVE Follows(q)'
  OBVIOUS
<1>1. DOMAIN run[q] = DOMAIN Idle /\ RunOK(run[q]) /\ Follows(q)
  BY DEF FInv, TInv, RunOK
<1>2. run'[q] = [run[q] EXCEPT !.disturbed = @ \/ Alive(q)]
  BY DEF Edit
<1>3. /\ DOMAIN run'[q] = DOMAIN run[q] /\ \A f \in DOMAIN run[q] \ {"disturbed"} : run'[q][f] = run[q][f]
      /\ Alive(q) => run'[q].disturbed
  BY <1>1, <1>2, IdleFields
<1>4. disk' = disk
  BY DEF Edit
<1> QED
  BY <1>1, <1>3, <1>4, FollowsOn

LEMMA FollowInv == Spec => []FInv
<1>1. Init => FInv
  <2> SUFFICES ASSUME Init PROVE FInv
    OBVIOUS
  <2>1. TInv
    BY TypeInit
  <2>2. \A p \in Procs : run[p] = Idle
    BY DEF Init
  <2>3. Idle.pc = "idle" /\ Idle.text = NoFile /\ Idle.sha = Unset
    BY DEF Idle
  <2> QED
    BY <2>1, <2>2, <2>3 DEF FInv, Follows, Alive
<1>2. FInv /\ [Next]_vars => FInv'
  <2> SUFFICES ASSUME FInv, [Next]_vars PROVE FInv'
    OBVIOUS
  <2>1. TInv'
    BY TypeStep DEF FInv
  <2>2. CASE Edit
    BY <2>1, <2>2, EditFollows DEF FInv
  <2>3. ASSUME NEW p \in Procs, Invoke(p) \/ Step(p) \/ WriteFails(p) PROVE FInv'
    <3>1. CASE WriteOut(p) \/ WriteFails(p)
      <4>1. /\ run[p].pc = "write"
            /\ \E file, code : PutOut(p, file, Exited(run[p], code))
        BY <3>1 DEF WriteOut, WriteFails
      <4> QED
        BY <2>1, <4>1, PutOutFollows DEF FInv
    <3> QED
      BY <2>1, <2>3, <3>1, InvokeFollows, LoadManifestFollows, LoadRecordFollows, ReadDumpFollows,
         ReadHostFollows, CompareFollows, OpenOutFollows DEF FInv, Step
  <2>4. CASE UNCHANGED vars
    <3>1. \A p \in Procs : Follows(p)'
      BY <2>4, FollowsOn DEF vars, FInv, TInv
    <3> QED
      BY <2>1, <3>1 DEF FInv
  <2> QED
    BY <2>2, <2>3, <2>4 DEF Next
<1> QED
  BY <1>1, <1>2, PTL DEF Spec

-----------------------------------------------------------------------------
(* What is read is what was authored *)

LEMMA Kinds ==
  ASSUME NEW s \in Scopes, NEW f \in DOMAIN RecordType[s]
  PROVE  /\ RecordType[s][f].kind \in {"string", "bool", "int"}
         /\ s # "repositories" => RecordType[s][f].kind = "string"
         /\ s \notin {"config_files"} \cup Observational => f # "mode"
<1>1. s \in {"packages", "repositories", "services", "config_files", "changed_managed_files",
             "unmanaged_files"}
  BY DEF Scopes, RecordType
<1>2. CASE s = "repositories"
  <2>1. RecordType["repositories"] =
          [alias |-> Str, name |-> Str, url |-> Str, type |-> Str,
           enabled |-> Flag("true"), gpgcheck |-> Flag("true"),
           autorefresh |-> Flag("false"), priority |-> Number("99")]
    BY DEF RecordType
  <2>2. Str.kind = "string" /\ Flag("true").kind = "bool" /\ Flag("false").kind = "bool"
        /\ Number("99").kind = "int"
    BY DEF Str, Flag, Number
  <2> QED
    BY <1>2, <2>1, <2>2 DEF Observational
<1>3. CASE s = "packages"
  BY <1>3 DEF RecordType, Str
<1>4. CASE s = "services"
  BY <1>4 DEF RecordType, Str
<1>5. CASE s = "config_files"
  BY <1>5 DEF RecordType, Str
<1>6. CASE s = "changed_managed_files"
  BY <1>6 DEF RecordType, Str, Observational
<1>7. CASE s = "unmanaged_files"
  BY <1>7 DEF RecordType, Str, Observational
<1> QED
  BY <1>1, <1>2, <1>3, <1>4, <1>5, <1>6, <1>7

(* asString, asBool, asInt of a value of that kind, as it is in JSON. *)
LEMMA ReadsKind ==
  ASSUME NEW kind \in {"string", "bool", "int"}, NEW v, v[1] = kind
  PROVE  Convert(kind, v) = v[2]
BY DEF Convert

(* The same in YAML, where the text tells the kind. *)
LEMMA ReadsText ==
  ASSUME NEW kind \in {"string", "bool", "int"}, NEW v, v[1] = kind, PlainText(v[2]),
         kind = "bool" => v[2] \in {"true", "false"}, kind = "int" => v[2] \in DOMAIN Decimal
  PROVE  Convert(kind, YamlValue(v)) = v[2]
<1> DEFINE t == v[2]
           w == Typed(t)
<1>1. YamlValue(v) = w
  BY DEF YamlValue
<1>2. t \notin {"null", "~"} /\ (t \in DOMAIN Decimal => Decimal[t] = t)
  BY DEF PlainText
<1>3. w \in {<<"int", t>>, <<"bool", t>>, <<"string", t>>}
  BY <1>2 DEF Typed
<1>4. kind = "bool" => w = <<"bool", t>>
  BY TextAssumption DEF Typed
<1>5. kind = "int" => w = <<"int", t>>
  BY <1>2 DEF Typed
<1> HIDE DEF w
<1>6. w[2] = t /\ w[1] \in {"int", "bool", "string"}
      /\ (kind = "bool" => w[1] = "bool") /\ (kind = "int" => w[1] = "int")
  BY <1>3, <1>4, <1>5
<1>7. Convert(kind, w) = w[2]
  BY <1>6 DEF Convert
<1> QED
  BY <1>1, <1>6, <1>7

(* The comparisons do not look at the mode of a file.                          *)
LEMMA SeenSame ==
  ASSUME NEW s \in Scopes, NEW a, NEW b,
         a = [f \in DOMAIN RecordType[s] |-> a[f]], b = [f \in DOMAIN RecordType[s] |-> b[f]],
         \A f \in DOMAIN RecordType[s] \ {"mode"} : a[f] = b[f]
  PROVE  Seen(s, a) = Seen(s, b)
<1>1. CASE s = "config_files"
  <2>1. {"name", "type", "package_name", "sha256", "target"} \subseteq DOMAIN RecordType[s] \ {"mode"}
    BY <1>1 DEF RecordType, FileFields
  <2>2. /\ a.name = b.name /\ a.type = b.type /\ a.package_name = b.package_name
        /\ a.sha256 = b.sha256 /\ a.target = b.target
    BY <2>1
  <2>3. CASE a.type = "file"
    BY <1>1, <2>2, <2>3 DEF Seen, Observational
  <2>4. CASE a.type = "link"
    BY <1>1, <2>2, <2>4 DEF Seen, Observational
  <2>5. CASE a.type \notin {"file", "link"}
    BY <1>1, <2>2, <2>5 DEF Seen, Observational
  <2> QED
    BY <2>3, <2>4, <2>5
<1>2. CASE s \in Observational
  <2>1. "name" \in DOMAIN RecordType[s] \ {"mode"}
    BY <1>2 DEF RecordType, FileFields, Observational
  <2>2. a.name = b.name
    BY <2>1
  <2>3. s # "config_files"
    BY <1>2 DEF Observational
  <2> QED
    BY <1>2, <2>2, <2>3 DEF Seen
<1>3. CASE s \notin {"config_files"} \cup Observational
  <2>1. \A f \in DOMAIN RecordType[s] : f # "mode"
    BY <1>3, Kinds
  <2>2. a = b
    BY <2>1
  <2> QED
    BY <2>2
<1> QED
  BY <1>1, <1>2, <1>3

(* An element of a document of plain texts, from JSON and from YAML.             *)
LEMMA ElementSeen ==
  ASSUME NEW s \in Scopes, NEW e, OfType(RecordType[s], e),
         \A f \in DOMAIN e \ {"mode"} : PlainText(e[f][2]),
         s = "repositories" => Switches(OfItsKind(RecordType[s], e))
  PROVE  /\ Seen(s, ParseRecord(RecordType[s], e)) = Seen(s, Says(RecordType[s], e))
         /\ Seen(s, ParseRecord(RecordType[s], YamlValues(e))) = Seen(s, Says(RecordType[s], e))
<1> DEFINE type == RecordType[s]
           j == ParseRecord(type, e)
           y == ParseRecord(type, YamlValues(e))
           a == Says(type, e)
<1>1. /\ j = [f \in DOMAIN type |-> IF f \in DOMAIN e THEN Convert(type[f].kind, e[f]) ELSE type[f].default]
      /\ y = [f \in DOMAIN type |-> IF f \in DOMAIN e THEN Convert(type[f].kind, YamlValue(e[f]))
                                     ELSE type[f].default]
      /\ a = [f \in DOMAIN type |-> IF f \in DOMAIN e THEN e[f][2] ELSE type[f].default]
  BY DEF ParseRecord, YamlValues, Says
<1>2. ASSUME NEW f \in DOMAIN type \cap DOMAIN e
      PROVE  e[f][1] = type[f].kind /\ type[f].kind \in {"string", "bool", "int"}
  BY Kinds DEF OfType
<1>3. ASSUME NEW f \in DOMAIN type \cap DOMAIN e
      PROVE  /\ type[f].kind = "bool" => e[f][2] \in {"true", "false"}
             /\ type[f].kind = "int" => e[f][2] \in DOMAIN Decimal
  <2>1. CASE s = "repositories"
    <3> DEFINE k == OfItsKind(type, e)
    <3>1. k = [g \in {g \in DOMAIN type \cap DOMAIN e : e[g][1] = type[g].kind} |-> e[g][2]]
      BY DEF OfItsKind
    <3>2. Switches(k)
      BY <2>1
    <3> HIDE DEF k
    <3>3. f \in DOMAIN k /\ k[f] = e[f][2] /\ f \in DOMAIN RecordType.repositories
      BY <1>2, <2>1, <3>1
    <3> QED
      BY <2>1, <3>2, <3>3 DEF Switches
  <2>2. CASE s # "repositories"
    BY <2>2, Kinds
  <2> QED
    BY <2>1, <2>2
<1> HIDE DEF j, y, a, type
<1>4. /\ j = [f \in DOMAIN type |-> j[f]] /\ y = [f \in DOMAIN type |-> y[f]]
      /\ a = [f \in DOMAIN type |-> a[f]]
  BY <1>1
<1>5. ASSUME NEW f \in DOMAIN type PROVE j[f] = a[f] /\ (f # "mode" => y[f] = a[f])
  <2>1. CASE f \notin DOMAIN e
    BY <1>1, <2>1
  <2>2. CASE f \in DOMAIN e
    <3>1. Convert(type[f].kind, e[f]) = e[f][2]
      BY <1>2, <2>2, ReadsKind
    <3>2. f # "mode" => Convert(type[f].kind, YamlValue(e[f])) = e[f][2]
      BY <1>2, <1>3, <2>2, ReadsText
    <3> QED
      BY <1>1, <2>2, <3>1, <3>2
  <2> QED
    BY <2>1, <2>2
<1>6. Seen(s, j) = Seen(s, a) /\ Seen(s, y) = Seen(s, a)
  BY <1>4, <1>5, SeenSame DEF type
<1> QED
  BY <1>6 DEF j, y, a, type

(* Manifests that the comparisons cannot tell apart, scope by scope. *)
Alike(m, n) ==
  /\ DOMAIN m = {"meta", "scopes"} /\ DOMAIN n = {"meta", "scopes"}
  /\ DOMAIN m.scopes = DOMAIN n.scopes
  /\ \A s \in DOMAIN m.scopes :
       {Seen(s, m.scopes[s].elements[i]) : i \in DOMAIN m.scopes[s].elements}
         = {Seen(s, n.scopes[s].elements[i]) : i \in DOMAIN n.scopes[s].elements}

LEMMA AlikeCompared ==
  ASSUME NEW m, NEW n, Alike(m, n) PROVE Compared(m) = Compared(n)
BY DEF Alike, Compared

LEMMA AlikeWithout ==
  ASSUME NEW m, NEW n, Alike(m, n), NEW X PROVE Alike(Without(m, X), Without(n, X))
<1>1. ASSUME NEW w, DOMAIN w = {"meta", "scopes"}
      PROVE  /\ DOMAIN Without(w, X) = {"meta", "scopes"}
             /\ Without(w, X).scopes = [s \in DOMAIN w.scopes \ X |-> w.scopes[s]]
  BY <1>1 DEF Without
<1> DEFINE a == Without(m, X)
           b == Without(n, X)
<1>2. /\ DOMAIN a = {"meta", "scopes"} /\ a.scopes = [s \in DOMAIN m.scopes \ X |-> m.scopes[s]]
      /\ DOMAIN b = {"meta", "scopes"} /\ b.scopes = [s \in DOMAIN n.scopes \ X |-> n.scopes[s]]
  BY <1>1 DEF Alike
<1> HIDE DEF a, b
<1>3. DOMAIN a.scopes = DOMAIN b.scopes
  BY <1>2 DEF Alike
<1>4. ASSUME NEW s \in DOMAIN a.scopes
      PROVE  s \in DOMAIN m.scopes /\ a.scopes[s] = m.scopes[s] /\ b.scopes[s] = n.scopes[s]
  BY <1>2, <1>3
<1> QED
  BY <1>2, <1>3, <1>4 DEF Alike, a, b

(* json_to_manifest, of a document whose elements are seen as another says.       *)
LEMMA ParsedAlike ==
  ASSUME NEW d, NEW doc, JsonToManifest(d).status = "ok", DOMAIN d.scopes = DOMAIN doc.scopes,
         \A s \in DOMAIN doc.scopes :
           /\ d.scopes[s].array /\ DOMAIN d.scopes[s].elements = DOMAIN doc.scopes[s].elements
           /\ \A i \in DOMAIN doc.scopes[s].elements :
                Seen(s, ParseRecord(RecordType[s], d.scopes[s].elements[i]))
                  = Seen(s, Says(RecordType[s], doc.scopes[s].elements[i]))
  PROVE  Alike(JsonToManifest(d).manifest, Authored(doc))
<1> DEFINE m == JsonToManifest(d).manifest
           a == Authored(doc)
<1>1. /\ DOMAIN m = {"meta", "scopes"} /\ DOMAIN m.scopes = DOMAIN d.scopes
      /\ \A s \in DOMAIN d.scopes : m.scopes[s] = ParseScope(s, d.scopes[s])
  BY DEF JsonToManifest, Failed
<1>2. /\ DOMAIN a = {"meta", "scopes"} /\ DOMAIN a.scopes = DOMAIN doc.scopes
      /\ \A s \in DOMAIN doc.scopes :
           a.scopes[s].elements = [i \in DOMAIN doc.scopes[s].elements |->
                                     Says(RecordType[s], doc.scopes[s].elements[i])]
  BY DEF Authored
<1> HIDE DEF m, a
<1>3. ASSUME NEW s \in DOMAIN m.scopes
      PROVE  {Seen(s, m.scopes[s].elements[i]) : i \in DOMAIN m.scopes[s].elements}
               = {Seen(s, a.scopes[s].elements[i]) : i \in DOMAIN a.scopes[s].elements}
  <2> DEFINE q == m.scopes[s].elements
             w == a.scopes[s].elements
             I == DOMAIN doc.scopes[s].elements
  <2>1. q = [i \in I |-> ParseRecord(RecordType[s], d.scopes[s].elements[i])]
    <3> DEFINE x == d.scopes[s]
    <3>1. m.scopes[s] = ParseScope(s, x)
      BY <1>1
    <3>2. x.array /\ DOMAIN x.elements = I
      BY <1>1
    <3> HIDE DEF x
    <3>3. ParseScope(s, x).elements = [i \in DOMAIN x.elements |-> ParseRecord(RecordType[s], x.elements[i])]
      BY <3>2 DEF ParseScope
    <3> QED
      BY <3>1, <3>2, <3>3 DEF x
  <2>2. w = [i \in I |-> Says(RecordType[s], doc.scopes[s].elements[i])]
    BY <1>1, <1>2
  <2>3. \A i \in I : Seen(s, ParseRecord(RecordType[s], d.scopes[s].elements[i]))
                       = Seen(s, Says(RecordType[s], doc.scopes[s].elements[i]))
    BY <1>1
  <2> HIDE DEF q, w, I
  <2>4. DOMAIN q = I /\ DOMAIN w = I /\ \A i \in I : Seen(s, q[i]) = Seen(s, w[i])
    BY <2>1, <2>2, <2>3
  <2>5. {Seen(s, q[i]) : i \in DOMAIN q} = {Seen(s, w[i]) : i \in DOMAIN w}
    BY <2>4
  <2> QED
    BY <2>5 DEF q, w
<1> QED
  BY <1>1, <1>2, <1>3 DEF Alike, m, a

(* A file of plain texts says the same, whatever its syntax and the format it is     *)
(* read as, if it is read at all.                                             *)
LEMMA ReadAlike ==
  ASSUME NEW file, FormOfFile(file), PlainBut(file, {"mode"}), NEW format,
         Read(file, format).status = "ok"
  PROVE  Alike(Read(file, format).manifest, Authored(file.doc))
<1> DEFINE doc == file.doc
           y == YamlDocument(doc)
<1>1. /\ FormOfDocument(doc) /\ Conforms(doc) /\ file.syntax \in Formats
      /\ \A s \in DOMAIN doc.scopes : \A i \in DOMAIN doc.scopes[s].elements :
           \A f \in DOMAIN doc.scopes[s].elements[i] \ {"mode"} : PlainText(doc.scopes[s].elements[i][f][2])
  BY DEF PlainBut, FormOfFile
<1> HIDE DEF doc
<1>2. ASSUME NEW s \in DOMAIN doc.scopes, NEW i \in DOMAIN doc.scopes[s].elements
      PROVE  /\ Seen(s, ParseRecord(RecordType[s], doc.scopes[s].elements[i]))
                  = Seen(s, Says(RecordType[s], doc.scopes[s].elements[i]))
             /\ Seen(s, ParseRecord(RecordType[s], YamlValues(doc.scopes[s].elements[i])))
                  = Seen(s, Says(RecordType[s], doc.scopes[s].elements[i]))
  <2> DEFINE e == doc.scopes[s].elements[i]
  <2>1. /\ s \in Scopes /\ OfType(RecordType[s], e)
        /\ \A f \in DOMAIN e \ {"mode"} : PlainText(e[f][2])
        /\ s = "repositories" => Switches(OfItsKind(RecordType[s], e))
    BY <1>1 DEF FormOfDocument, Conforms
  <2> HIDE DEF e
  <2>2. /\ Seen(s, ParseRecord(RecordType[s], e)) = Seen(s, Says(RecordType[s], e))
        /\ Seen(s, ParseRecord(RecordType[s], YamlValues(e))) = Seen(s, Says(RecordType[s], e))
    BY <2>1, ElementSeen
  <2> QED
    BY <2>2 DEF e
<1>3. \A s \in DOMAIN doc.scopes : doc.scopes[s].array
  BY <1>1 DEF Conforms
<1>4. CASE format = "json" /\ file.syntax = "json"
  <2>1. Read(file, format) = JsonToManifest(doc)
    BY <1>4 DEF Read, doc
  <2> QED
    BY <1>2, <1>3, <2>1, ParsedAlike DEF doc
<1>5. CASE format = "yaml"
  <2>1. Read(file, format) = JsonToManifest(y)
    BY <1>1, <1>5 DEF Read, doc, Formats
  <2>2. DOMAIN y.scopes = DOMAIN doc.scopes
    BY DEF YamlDocument
  <2>3. ASSUME NEW s \in DOMAIN doc.scopes
        PROVE  /\ y.scopes[s].array
               /\ y.scopes[s].elements = [i \in DOMAIN doc.scopes[s].elements |->
                                             YamlValues(doc.scopes[s].elements[i])]
    <3> DEFINE d == doc.scopes[s]
    <3>1. y.scopes[s] = [d EXCEPT !.attributes = YamlValues(@),
                                  !.elements = [i \in DOMAIN @ |-> YamlValues(@[i])]]
      BY DEF YamlDocument
    <3>2. DOMAIN d = {"array", "attributes", "elements"} /\ d.array
      BY <1>1, <1>3 DEF FormOfDocument
    <3> HIDE DEF d, y
    <3>3. y.scopes[s].array /\ y.scopes[s].elements = [i \in DOMAIN d.elements |-> YamlValues(d.elements[i])]
      BY <3>1, <3>2
    <3> QED
      BY <3>3 DEF d
  <2> HIDE DEF y
  <2>4. ASSUME NEW s \in DOMAIN doc.scopes
        PROVE  /\ y.scopes[s].array /\ DOMAIN y.scopes[s].elements = DOMAIN doc.scopes[s].elements
               /\ \A i \in DOMAIN doc.scopes[s].elements :
                    Seen(s, ParseRecord(RecordType[s], y.scopes[s].elements[i]))
                      = Seen(s, Says(RecordType[s], doc.scopes[s].elements[i]))
    BY <1>2, <2>3
  <2> QED
    BY <2>1, <2>2, <2>4, ParsedAlike DEF doc
<1>6. CASE format # "yaml" /\ ~(format = "json" /\ file.syntax = "json")
  BY <1>6 DEF Read, Failed
<1> QED
  BY <1>4, <1>5, <1>6

-----------------------------------------------------------------------------
(* Verdicts *)

(* Only a comparison that ends prints a report. *)
LEMMA OnlyCompare ==
  ASSUME FInv, [Next]_vars, NEW p \in Procs, Ends(p), run'[p].report # Unset
  PROVE  Compare(p)
<1>1. /\ run[p].pc \notin {"idle", "done"} /\ run'[p].pc = "done" /\ RunOK(run[p]) /\ Alive(p)
      /\ DOMAIN run[p] = DOMAIN Idle /\ run = [q \in Procs |-> run[q]]
  BY DEF Ends, Alive, FInv, TInv, RunOK
<1>2. run[p].report = Unset
  BY <1>1, Silent
<1>3. ~UNCHANGED vars
  BY <1>2 DEF vars
<1>4. ~Edit
  <2> SUFFICES ASSUME Edit PROVE FALSE
    OBVIOUS
  <2>1. run'[p] = [run[p] EXCEPT !.disturbed = @ \/ Alive(p)]
    BY DEF Edit
  <2> QED
    BY <1>1, <1>2, <2>1, IdleFields
<1>5. ASSUME NEW q \in Procs, NEW r, Become(q, r) PROVE q = p /\ run'[p] = r
  <2>1. q # p => run'[p] = run[p]
    BY <1>1, <1>5 DEF Become
  <2>2. q = p => run'[p] = r
    BY <1>1, <1>5 DEF Become
  <2> QED
    BY <1>2, <2>1, <2>2
<1>6. ASSUME NEW q \in Procs, NEW r, NEW path, run' = Disturbing(q, r, path), q # p PROVE FALSE
  <2>1. run'[p] = [run[p] EXCEPT !.disturbed = @ \/ (Alive(p) /\ path \in Reads(run[p]))]
    BY <1>6 DEF Disturbing
  <2> QED
    BY <1>1, <1>2, <2>1, IdleFields
<1>7. ASSUME NEW q \in Procs, NEW code, Exit(q, code) PROVE FALSE
  <2>1. CASE q = p
    <3>1. run'[p] = Exited(run[p], code)
      BY <1>1, <1>7, <2>1 DEF Exit, Become
    <3> QED
      BY <1>1, <1>2, <3>1, IdleFields DEF Exited
  <2>2. CASE q # p
    <3>1. run'[p] = run[p]
      BY <1>1, <1>7, <2>2 DEF Exit, Become
    <3> QED
      BY <1>2, <3>1
  <2> QED
    BY <2>1, <2>2
<1>8. ASSUME NEW q \in Procs, Invoke(q) PROVE FALSE
  <2>1. q # p
    BY <1>1, <1>8 DEF Invoke
  <2>2. run'[p] = run[p]
    BY <1>1, <1>8, <2>1 DEF Invoke
  <2> QED
    BY <1>2, <2>2
<1>9. ASSUME NEW q \in Procs, LoadManifest(q) PROVE FALSE
  <2> DEFINE path == IF run[q].cfg.manifest_path = Unset THEN DefaultManifest ELSE run[q].cfg.manifest_path
             lm == LoadDesiredManifest(disk[path], FormatOf(run[q].cfg, path))
             n == [run[q] EXCEPT !.pc = IF run[q].verb = "diff" THEN "record" ELSE "actual",
                                 !.text = disk[path], !.desired = lm.manifest,
                                 !.sha = CanonicalHash(lm.manifest)]
  <2>1. Become(q, n) \/ \E code : Exit(q, code)
    BY <1>9 DEF LoadManifest
  <2>2. Become(q, n)
    BY <1>7, <2>1
  <2> HIDE DEF lm, path
  <2>3. q = p => n.report = run[p].report
    BY <1>1, IdleFields
  <2> HIDE DEF n
  <2> QED
    BY <1>2, <1>5, <2>2, <2>3
<1>10. ASSUME NEW q \in Procs, LoadRecord(q) PROVE FALSE
  <2> DEFINE loaded == [run[q] EXCEPT !.pc = "actual", !.record = Applied.manifest]
             named == [loaded EXCEPT !.desired = Applied.manifest]
  <2>1. Become(q, loaded) \/ Become(q, named) \/ \E code : Exit(q, code)
    BY <1>10 DEF LoadRecord, Applied
  <2>2. Become(q, loaded) \/ Become(q, named)
    BY <1>7, <2>1
  <2>3. q = p => loaded.report = run[p].report /\ named.report = run[p].report
    BY <1>1, IdleFields
  <2> HIDE DEF loaded, named
  <2> QED
    BY <1>2, <1>5, <2>2, <2>3
<1>11. ASSUME NEW q \in Procs, ReadDump(q) PROVE FALSE
  <2> DEFINE n == [run[q] EXCEPT !.pc = "compare", !.actual = Dump(q).manifest]
  <2>1. Become(q, n) \/ \E code : Exit(q, code)
    BY <1>11 DEF ReadDump, Dump
  <2>2. Become(q, n)
    BY <1>7, <2>1
  <2>3. q = p => n.report = run[p].report
    BY <1>1, IdleFields
  <2> HIDE DEF n
  <2> QED
    BY <1>2, <1>5, <2>2, <2>3
<1>12. ASSUME NEW q \in Procs, ReadHost(q) PROVE FALSE
  <2> DEFINE r == run[q]
             scope == IF r.verb \in {"describe", "verify"} THEN r.cfg.scope ELSE "etc"
             live == DescribeActualState(r.cfg.on_unreadable, scope, LoadKeepList(r.cfg))
             read == [r EXCEPT !.actual = live.manifest]
             going == [read EXCEPT !.pc = "compare"]
  <2>1. Become(q, going) \/ Become(q, Described(read)) \/ \E code : Exit(q, code)
    BY <1>12 DEF ReadHost
  <2>2. Become(q, going) \/ Become(q, Described(read))
    BY <1>7, <2>1
  <2> HIDE DEF live
  <2>3. q = p => going.report = run[p].report /\ Described(read).report = run[p].report
    <3>1. q = p => DOMAIN read = DOMAIN Idle /\ read.report = run[p].report
      BY <1>1, IdleFields
    <3> HIDE DEF read
    <3> QED
      BY <3>1, IdleFields DEF Described, Exited
  <2> HIDE DEF going, read
  <2> QED
    BY <1>2, <1>5, <2>2, <2>3
<1>13. ASSUME NEW q \in Procs, OpenOut(q) PROVE FALSE
  <2>1. run' = Disturbing(q, [run[q] EXCEPT !.pc = "write"], run[q].cfg.out)
    BY <1>7, <1>13 DEF OpenOut
  <2>2. q = p
    BY <1>6, <2>1
  <2>3. run'[p] = [run[p] EXCEPT !.pc = "write"]
    BY <2>1, <2>2 DEF Disturbing
  <2> QED
    BY <1>1, <1>2, <2>3, IdleFields
<1>14. ASSUME NEW q \in Procs, WriteOut(q) \/ WriteFails(q) PROVE FALSE
  <2>1. PICK file, code : PutOut(q, file, Exited(run[q], code))
    BY <1>14 DEF WriteOut, WriteFails
  <2>2. q = p
    BY <1>6, <2>1 DEF PutOut
  <2>3. run'[p] = Exited(run[p], code)
    BY <2>1, <2>2 DEF PutOut, Disturbing
  <2> QED
    BY <1>1, <1>2, <2>3, IdleFields DEF Exited
<1>15. ASSUME NEW q \in Procs, Compare(q) PROVE Compare(p)
  <2>1. \E r : Become(q, r)
    BY <1>15 DEF Compare
  <2> QED
    BY <1>5, <1>15, <2>1
<1> QED
  BY <1>3, <1>4, <1>8, <1>9, <1>10, <1>11, <1>12, <1>13, <1>14, <1>15 DEF Next, Step

LEMMA NothingRecorded == Compared(NoManifest) = EmptyManifest
<1>1. Scopes = {"packages", "repositories", "services", "config_files", "changed_managed_files",
                "unmanaged_files"}
  BY DEF Scopes, RecordType
<1>2. Compared(NoManifest) = [s \in Scopes |-> Absent]
  BY DEF Compared, NoManifest, EmptyFunction
<1> QED
  BY <1>1, <1>2 DEF EmptyManifest

LEMMA WithoutNone ==
  ASSUME NEW m, DOMAIN m = {"meta", "scopes"} PROVE Compared(Without(m, {})) = Compared(m)
<1>1. Without(m, {}).scopes = [s \in DOMAIN m.scopes |-> m.scopes[s]]
  BY DEF Without
<1> QED
  BY <1>1 DEF Compared

(* The declaration, the record and the actual state that a run compares.          *)
LEMMA DeclarationSeen ==
  ASSUME FInv, NEW p \in Procs, run[p].pc = "compare", ~run[p].disturbed,
         PlainBut(IF run[p].text # NoFile THEN run[p].text ELSE disk[RecordPath], {"mode"})
  PROVE  Compared(run[p].desired) =
           Compared(Without(Authored((IF run[p].text # NoFile THEN run[p].text ELSE disk[RecordPath]).doc),
                            IF run[p].text = NoFile THEN {} ELSE Observational))
<1>1. Follows(p) /\ Recorded(p)
  BY DEF FInv, Follows
<1>2. CASE run[p].text # NoFile
  <2> DEFINE f == run[p].text
             format == FormatOf(run[p].cfg, ManifestPath(p))
             m == Read(f, format).manifest
  <2>1. FormOfFile(f) /\ LoadDesiredManifest(f, format).status = "ok"
        /\ run[p].desired = LoadDesiredManifest(f, format).manifest
    BY <1>1, <1>2 DEF Follows, Loaded
  <2>2. Read(f, format).status = "ok" /\ run[p].desired = Without(m, Observational)
    BY <2>1, ReadStatus
  <2>3. Alike(m, Authored(f.doc))
    BY <1>2, <2>1, <2>2, ReadAlike
  <2>4. Compared(Without(m, Observational)) = Compared(Without(Authored(f.doc), Observational))
    BY <2>3, AlikeWithout, AlikeCompared
  <2> QED
    BY <1>2, <2>2, <2>4
<1>3. CASE run[p].text = NoFile
  <2> DEFINE f == disk[RecordPath]
             m == Read(f, "json").manifest
  <2>1. LoadAppliedRecord(f).status = "ok" /\ run[p].desired = LoadAppliedRecord(f).manifest
    BY <1>1, <1>3 DEF Recorded, Applied
  <2>2. f # NoFile /\ LoadAppliedRecord(f) = Read(f, "json")
    BY <2>1, ReadStatus DEF LoadAppliedRecord
  <2>3. FormOfFile(f)
    BY PathAssumption DEF FInv, TInv
  <2>4. Alike(m, Authored(f.doc))
    BY <1>3, <2>1, <2>2, <2>3, ReadAlike
  <2>5. Compared(m) = Compared(Authored(f.doc)) /\ DOMAIN Authored(f.doc) = {"meta", "scopes"}
    BY <2>4, AlikeCompared DEF Alike
  <2> QED
    BY <1>3, <2>1, <2>2, <2>5, WithoutNone
<1> QED
  BY <1>2, <1>3

LEMMA RecordSeen ==
  ASSUME FInv, NEW p \in Procs, run[p].pc = "compare", ~run[p].disturbed, run[p].verb = "diff",
         disk[RecordPath] # NoFile => PlainBut(disk[RecordPath], {"mode"})
  PROVE  Compared(run[p].record) = IF disk[RecordPath] = NoFile THEN EmptyManifest
                                   ELSE Compared(Authored(disk[RecordPath].doc))
<1> DEFINE f == disk[RecordPath]
<1>1. LoadAppliedRecord(f).status \in {"ok", "absent"} /\ run[p].record = LoadAppliedRecord(f).manifest
  BY DEF FInv, Follows, Recorded, Applied
<1>2. CASE f = NoFile
  <2>1. run[p].record = NoManifest
    BY <1>1, <1>2 DEF LoadAppliedRecord, Failed
  <2> QED
    BY <1>2, <2>1, NothingRecorded
<1>3. CASE f # NoFile
  <2>1. LoadAppliedRecord(f) = Read(f, "json") /\ Read(f, "json").status = "ok"
    BY <1>1, <1>3, ReadStatus DEF LoadAppliedRecord
  <2>2. FormOfFile(f)
    BY PathAssumption DEF FInv, TInv
  <2>3. Alike(Read(f, "json").manifest, Authored(f.doc))
    BY <1>3, <2>1, <2>2, ReadAlike
  <2> QED
    BY <1>1, <1>3, <2>1, <2>3, AlikeCompared
<1> QED
  BY <1>2, <1>3

LEMMA ActualSeen ==
  ASSUME FInv, NEW p \in Procs, run[p].pc = "compare", ~run[p].disturbed,
         run[p].verb # "status" /\ run[p].cfg.state_path # Unset
           => PlainBut(disk[run[p].cfg.state_path], {"mode"})
  PROVE  Compared(Considered(run[p])) = Compared(Observed(run[p]))
<1> DEFINE r == run[p]
           f == disk[r.cfg.state_path]
           format == FormatOf(r.cfg, r.cfg.state_path)
           m == IF r.verb # "status" /\ r.cfg.state_path # Unset THEN Authored(f.doc) ELSE Live(p).manifest
<1>1. Follows(p) /\ Watches(p) /\ RunOK(r) /\ r.verb # "describe"
  BY DEF FInv, TInv, Follows
<1>2. Observed(r) = IF r.verb = "verify" /\ r.cfg.scope = "etc" THEN Without(m, Observational) ELSE m
  BY <1>1 DEF Observed, Live
<1>3. CASE r.verb # "status" /\ r.cfg.state_path # Unset
  <2>1. LoadStateDump(f, format).status = "ok" /\ r.actual = LoadStateDump(f, format).manifest
    BY <1>1, <1>3 DEF Watches, Dump
  <2>2. Read(f, format).status = "ok" /\ r.actual = Read(f, format).manifest
    BY <2>1, ReadStatus
  <2>3. FormOfFile(f)
    BY <1>1, <1>3 DEF FInv, TInv, RunOK
  <2>4. Alike(r.actual, Authored(f.doc))
    BY <1>3, <2>2, <2>3, ReadAlike
  <2>5. Alike(Without(r.actual, Observational), Without(Authored(f.doc), Observational))
    BY <2>4, AlikeWithout
  <2>6. m = Authored(f.doc)
    BY <1>3
  <2> QED
    BY <1>2, <2>4, <2>5, <2>6, AlikeCompared DEF Considered
<1>4. CASE ~(r.verb # "status" /\ r.cfg.state_path # Unset)
  <2>1. r.actual = Live(p).manifest /\ m = Live(p).manifest
    BY <1>1, <1>4 DEF Watches, HostSeen
  <2> QED
    BY <1>2, <2>1 DEF Considered
<1> QED
  BY <1>3, <1>4

LEMMA CompareFaithful == ASSUME FInv, NEW p \in Procs, Compare(p) PROVE Verdict(p)
<1> DEFINE r == run[p]
           desired == Compared(r.desired)
           drift == ComputeDrift(Compared(Considered(r)), desired, LoadKeepList(r.cfg))
           plan == IF r.verb = "diff" THEN ComputeIntentDiff(desired, Compared(r.record)) ELSE Unset
           report == [plan |-> plan, drift |-> drift]
           code == IF r.verb = "verify" /\ ~DriftEmpty(drift) THEN 1 ELSE 0
           n == Exited([r EXCEPT !.report = report], code)
<1>1. Become(p, n) /\ r.pc = "compare" /\ DOMAIN r = DOMAIN Idle
  BY DEF Compare, FInv, TInv, RunOK
<1>2. run'[p] = n
  BY <1>1 DEF Become, FInv, TInv
<1> HIDE DEF report, code
<1>3. /\ n.verb = r.verb /\ n.cfg = r.cfg /\ n.text = r.text /\ n.disturbed = r.disturbed
      /\ n.report = report /\ n.exit = code
  BY <1>1, IdleFields DEF Exited
<1> HIDE DEF n
<1> DEFINE source == IF r.text # NoFile THEN r.text ELSE disk[RecordPath]
<1>4. Declaration(n) = source /\ Observed(n) = Observed(r)
  BY <1>3 DEF Declaration, Observed
<1>5. LoadKeepList(n.cfg) = LoadKeepList(r.cfg)
  BY <1>3
<1> SUFFICES ASSUME ~r.disturbed, PlainBut(source, {"mode"}),
                    r.verb = "diff" /\ disk[RecordPath] # NoFile => PlainBut(disk[RecordPath], {"mode"}),
                    r.verb # "status" /\ r.cfg.state_path # Unset
                      => PlainBut(disk[r.cfg.state_path], {"mode"})
             PROVE  LET authored == Compared(Without(Authored(source.doc),
                                                    IF r.text = NoFile THEN {} ELSE Observational))
                        truth == ComputeDrift(Compared(Observed(r)), authored, LoadKeepList(r.cfg))
                    IN /\ report.drift = truth
                       /\ code = IF r.verb = "verify" /\ ~DriftEmpty(truth) THEN 1 ELSE 0
                       /\ r.verb = "diff" => report.plan =
                            ComputeIntentDiff(authored, IF disk[RecordPath] = NoFile THEN EmptyManifest
                                                        ELSE Compared(Authored(disk[RecordPath].doc)))
  <2> HIDE DEF r, source
  <2> QED
    BY <1>2, <1>3, <1>4, <1>5 DEF Verdict
<1>6. desired = Compared(Without(Authored(source.doc), IF r.text = NoFile THEN {} ELSE Observational))
  BY <1>1, DeclarationSeen
<1>7. Compared(Considered(r)) = Compared(Observed(r))
  BY <1>1, ActualSeen
<1>8. r.verb = "diff" => Compared(r.record) = IF disk[RecordPath] = NoFile THEN EmptyManifest
                                              ELSE Compared(Authored(disk[RecordPath].doc))
  BY <1>1, RecordSeen
<1> QED
  BY <1>6, <1>7, <1>8 DEF report, code

(* A verb that was not disturbed says of the host or the dump, of the manifest and      *)
(* of the record what is written in them, in whatever format each of them is.      *)
THEOREM VerdictFaithfulAlways == Spec => VerdictFaithful
<1>1. ASSUME FInv, [Next]_vars, NEW p \in Procs PROVE Verdict(p)
  <2>1. CASE Ends(p) /\ run'[p].report # Unset
    BY <1>1, <2>1, OnlyCompare, CompareFaithful
  <2>2. CASE ~(Ends(p) /\ run'[p].report # Unset)
    BY <2>2 DEF Verdict
  <2> QED
    BY <2>1, <2>2
<1>2. FInv /\ [Next]_vars => \A p \in Procs : Verdict(p)
  BY <1>1
<1>3. FInv /\ [Next]_vars => [\A p \in Procs : Verdict(p)]_vars
  BY <1>2
<1> QED
  BY <1>3, FollowInv, PTL DEF Spec, VerdictFaithful

-----------------------------------------------------------------------------
(* Identity *)

(* A document whose values have their kinds says in JSON what is written in it,    *)
(* and in YAML what is plain of it.                                             *)
LEMMA RecordReads ==
  ASSUME NEW type, \A f \in DOMAIN type : type[f].kind \in {"string", "bool", "int"},
         NEW e, OfType(type, e)
  PROVE  /\ ParseRecord(type, e) = Says(type, e)
         /\ (\A f \in DOMAIN type \cap DOMAIN e :
               /\ PlainText(e[f][2])
               /\ type[f].kind = "bool" => e[f][2] \in {"true", "false"}
               /\ type[f].kind = "int" => e[f][2] \in DOMAIN Decimal)
              => ParseRecord(type, YamlValues(e)) = Says(type, e)
<1>1. /\ ParseRecord(type, e)
           = [f \in DOMAIN type |-> IF f \in DOMAIN e THEN Convert(type[f].kind, e[f]) ELSE type[f].default]
      /\ ParseRecord(type, YamlValues(e))
           = [f \in DOMAIN type |-> IF f \in DOMAIN e THEN Convert(type[f].kind, YamlValue(e[f]))
                                    ELSE type[f].default]
      /\ Says(type, e) = [f \in DOMAIN type |-> IF f \in DOMAIN e THEN e[f][2] ELSE type[f].default]
  BY DEF ParseRecord, YamlValues, Says
<1>2. \A f \in DOMAIN type \cap DOMAIN e : Convert(type[f].kind, e[f]) = e[f][2]
  BY ReadsKind DEF OfType
<1>3. ASSUME \A f \in DOMAIN type \cap DOMAIN e :
               /\ PlainText(e[f][2])
               /\ type[f].kind = "bool" => e[f][2] \in {"true", "false"}
               /\ type[f].kind = "int" => e[f][2] \in DOMAIN Decimal
      PROVE  \A f \in DOMAIN type \cap DOMAIN e : Convert(type[f].kind, YamlValue(e[f])) = e[f][2]
  BY <1>3, ReadsText DEF OfType
<1>4. ParseRecord(type, e) = Says(type, e)
  BY <1>1, <1>2
<1>5. (\A f \in DOMAIN type \cap DOMAIN e : Convert(type[f].kind, YamlValue(e[f])) = e[f][2])
        => ParseRecord(type, YamlValues(e)) = Says(type, e)
  BY <1>1
<1> QED
  BY <1>3, <1>4, <1>5

(* The switches and numbers of an element.                                      *)
LEMMA SwitchesSay ==
  ASSUME NEW s \in Scopes, NEW e, OfType(RecordType[s], e),
         s = "repositories" => Switches(OfItsKind(RecordType[s], e)),
         NEW f \in DOMAIN RecordType[s] \cap DOMAIN e
  PROVE  /\ RecordType[s][f].kind = "bool" => e[f][2] \in {"true", "false"}
         /\ RecordType[s][f].kind = "int" => e[f][2] \in DOMAIN Decimal
<1>1. CASE s = "repositories"
  <2> DEFINE type == RecordType[s]
             k == OfItsKind(type, e)
  <2>1. k = [g \in {g \in DOMAIN type \cap DOMAIN e : e[g][1] = type[g].kind} |-> e[g][2]]
    BY DEF OfItsKind
  <2>2. Switches(k) /\ e[f][1] = type[f].kind
    BY <1>1 DEF OfType
  <2> HIDE DEF k
  <2>3. f \in DOMAIN k /\ k[f] = e[f][2] /\ f \in DOMAIN RecordType.repositories
    BY <1>1, <2>1, <2>2
  <2> QED
    BY <1>1, <2>2, <2>3 DEF Switches
<1>2. CASE s # "repositories"
  BY <1>2, Kinds
<1> QED
  BY <1>1, <1>2

(* json_to_manifest, of a document that is read as another says.                *)
LEMMA ParsedIs ==
  ASSUME NEW d, NEW doc, JsonToManifest(d).status = "ok", DOMAIN d.scopes = DOMAIN doc.scopes,
         ParseRecord(Meta, d.meta) = Says(Meta, doc.meta),
         \A s \in DOMAIN doc.scopes :
           /\ d.scopes[s].array /\ DOMAIN d.scopes[s].elements = DOMAIN doc.scopes[s].elements
           /\ \A i \in DOMAIN doc.scopes[s].elements :
                ParseRecord(RecordType[s], d.scopes[s].elements[i])
                  = Says(RecordType[s], doc.scopes[s].elements[i])
           /\ DOMAIN d.scopes[s].attributes = DOMAIN doc.scopes[s].attributes
           /\ \A k \in DOMAIN doc.scopes[s].attributes :
                Convert("string", d.scopes[s].attributes[k]) = doc.scopes[s].attributes[k][2]
  PROVE  JsonToManifest(d).manifest = Authored(doc)
<1> DEFINE Parsed(s) == ParseScope(s, d.scopes[s])
           Written(s) ==
             [attributes |-> [k \in DOMAIN doc.scopes[s].attributes |-> doc.scopes[s].attributes[k][2]],
              elements |-> [i \in DOMAIN doc.scopes[s].elements |->
                              Says(RecordType[s], doc.scopes[s].elements[i])]]
<1>1. JsonToManifest(d).manifest
        = [meta |-> ParseRecord(Meta, d.meta), scopes |-> [s \in DOMAIN d.scopes |-> Parsed(s)]]
  BY DEF JsonToManifest, Failed
<1>2. Authored(doc) = [meta |-> Says(Meta, doc.meta), scopes |-> [s \in DOMAIN doc.scopes |-> Written(s)]]
  BY DEF Authored
<1>3. ASSUME NEW s \in DOMAIN doc.scopes PROVE Parsed(s) = Written(s)
  <2> DEFINE x == d.scopes[s]
             y == doc.scopes[s]
  <2>1. /\ x.array /\ DOMAIN x.elements = DOMAIN y.elements /\ DOMAIN x.attributes = DOMAIN y.attributes
        /\ \A i \in DOMAIN y.elements :
             ParseRecord(RecordType[s], x.elements[i]) = Says(RecordType[s], y.elements[i])
        /\ \A k \in DOMAIN y.attributes : Convert("string", x.attributes[k]) = y.attributes[k][2]
    OBVIOUS
  <2>2. Parsed(s) = ParseScope(s, x)
        /\ Written(s) = [attributes |-> [k \in DOMAIN y.attributes |-> y.attributes[k][2]],
                         elements |-> [i \in DOMAIN y.elements |-> Says(RecordType[s], y.elements[i])]]
    OBVIOUS
  <2> HIDE DEF x, y
  <2>3. ParseScope(s, x) =
          [attributes |-> [k \in DOMAIN y.attributes |-> Convert("string", x.attributes[k])],
           elements |-> [i \in DOMAIN y.elements |-> ParseRecord(RecordType[s], x.elements[i])]]
    BY <2>1 DEF ParseScope
  <2>4. [k \in DOMAIN y.attributes |-> Convert("string", x.attributes[k])]
          = [k \in DOMAIN y.attributes |-> y.attributes[k][2]]
    BY <2>1
  <2>5. [i \in DOMAIN y.elements |-> ParseRecord(RecordType[s], x.elements[i])]
          = [i \in DOMAIN y.elements |-> Says(RecordType[s], y.elements[i])]
    BY <2>1
  <2> QED
    BY <2>2, <2>3, <2>4, <2>5
<1> HIDE DEF Parsed, Written
<1>4. [s \in DOMAIN d.scopes |-> Parsed(s)] = [s \in DOMAIN doc.scopes |-> Written(s)]
  BY <1>3
<1> QED
  BY <1>1, <1>2, <1>4

LEMMA MetaFields ==
  /\ DOMAIN Meta = {"format_version", "generator", "created_at", "desired_sha256"}
  /\ Meta["format_version"].kind = "int"
  /\ \A f \in DOMAIN Meta \ {"format_version"} : Meta[f].kind = "string"
<1>1. Str.kind = "string" /\ Number("1").kind = "int"
  BY DEF Str, Number
<1>2. /\ DOMAIN Meta = {"format_version", "generator", "created_at", "desired_sha256"}
      /\ Meta["format_version"] = Number("1")
      /\ Meta["generator"] = Str /\ Meta["created_at"] = Str /\ Meta["desired_sha256"] = Str
  BY DEF Meta
<1> QED
  BY <1>1, <1>2

(* A file of plain texts that is read at all is read as what is written in it.      *)
LEMMA ReadIsAuthored ==
  ASSUME NEW file, FormOfFile(file), PlainBut(file, {}), PlainAttributes(file), NEW format,
         Read(file, format).status = "ok"
  PROVE  Read(file, format).manifest = Authored(file.doc)
<1> DEFINE doc == file.doc
           y == YamlDocument(doc)
<1>1. /\ FormOfDocument(doc) /\ Conforms(doc) /\ file.syntax \in Formats
      /\ \A f \in DOMAIN doc.meta : PlainText(doc.meta[f][2])
      /\ \A s \in DOMAIN doc.scopes :
           /\ \A i \in DOMAIN doc.scopes[s].elements : \A f \in DOMAIN doc.scopes[s].elements[i] :
                PlainText(doc.scopes[s].elements[i][f][2])
           /\ \A k \in DOMAIN doc.scopes[s].attributes : PlainText(doc.scopes[s].attributes[k][2])
  BY DEF PlainBut, PlainAttributes, FormOfFile
<1> HIDE DEF doc
<1>2. ASSUME NEW s \in DOMAIN doc.scopes, NEW i \in DOMAIN doc.scopes[s].elements
      PROVE  /\ ParseRecord(RecordType[s], doc.scopes[s].elements[i])
                  = Says(RecordType[s], doc.scopes[s].elements[i])
             /\ ParseRecord(RecordType[s], YamlValues(doc.scopes[s].elements[i]))
                  = Says(RecordType[s], doc.scopes[s].elements[i])
  <2> DEFINE e == doc.scopes[s].elements[i]
  <2>1. /\ s \in Scopes /\ OfType(RecordType[s], e)
        /\ \A f \in DOMAIN e : PlainText(e[f][2])
        /\ s = "repositories" => Switches(OfItsKind(RecordType[s], e))
    BY <1>1 DEF FormOfDocument, Conforms
  <2> HIDE DEF e
  <2>2. \A f \in DOMAIN RecordType[s] : RecordType[s][f].kind \in {"string", "bool", "int"}
    BY <2>1, Kinds
  <2>3. \A f \in DOMAIN RecordType[s] \cap DOMAIN e :
          /\ PlainText(e[f][2])
          /\ RecordType[s][f].kind = "bool" => e[f][2] \in {"true", "false"}
          /\ RecordType[s][f].kind = "int" => e[f][2] \in DOMAIN Decimal
    BY <2>1, SwitchesSay
  <2>4. /\ ParseRecord(RecordType[s], e) = Says(RecordType[s], e)
        /\ ParseRecord(RecordType[s], YamlValues(e)) = Says(RecordType[s], e)
    BY <2>1, <2>2, <2>3, RecordReads
  <2> QED
    BY <2>4 DEF e
<1>3. /\ \A s \in DOMAIN doc.scopes : doc.scopes[s].array
      /\ \A s \in DOMAIN doc.scopes : \A k \in DOMAIN doc.scopes[s].attributes :
           doc.scopes[s].attributes[k][1] = "string"
      /\ OfType(Meta, doc.meta)
  BY <1>1 DEF Conforms
<1>4. ASSUME NEW s \in DOMAIN doc.scopes, NEW k \in DOMAIN doc.scopes[s].attributes
      PROVE  /\ Convert("string", doc.scopes[s].attributes[k]) = doc.scopes[s].attributes[k][2]
             /\ Convert("string", YamlValue(doc.scopes[s].attributes[k])) = doc.scopes[s].attributes[k][2]
  BY <1>1, <1>3, ReadsKind, ReadsText
<1>5. /\ DOMAIN Meta = {"format_version", "generator", "created_at", "desired_sha256"}
      /\ Meta["format_version"].kind = "int"
      /\ \A f \in DOMAIN Meta \ {"format_version"} : Meta[f].kind = "string"
  BY MetaFields
<1>6. CASE format = "json" /\ file.syntax = "json"
  <2>1. Read(file, format) = JsonToManifest(doc)
    BY <1>6 DEF Read, doc
  <2>2. ParseRecord(Meta, doc.meta) = Says(Meta, doc.meta)
    BY <1>3, <1>5, RecordReads
  <2> QED
    BY <1>2, <1>3, <1>4, <2>1, <2>2, ParsedIs DEF doc
<1>7. CASE format = "yaml"
  <2>1. Read(file, format) = JsonToManifest(y)
    BY <1>1, <1>7 DEF Read, doc, Formats
  <2>2. DOMAIN y.scopes = DOMAIN doc.scopes /\ y.meta = YamlValues(doc.meta)
    BY DEF YamlDocument
  <2>3. ASSUME NEW s \in DOMAIN doc.scopes
        PROVE  /\ y.scopes[s].array
               /\ y.scopes[s].elements = [i \in DOMAIN doc.scopes[s].elements |->
                                             YamlValues(doc.scopes[s].elements[i])]
               /\ y.scopes[s].attributes = [k \in DOMAIN doc.scopes[s].attributes |->
                                               YamlValue(doc.scopes[s].attributes[k])]
    <3> DEFINE d == doc.scopes[s]
    <3>1. y.scopes[s] = [d EXCEPT !.attributes = YamlValues(@),
                                  !.elements = [i \in DOMAIN @ |-> YamlValues(@[i])]]
      BY DEF YamlDocument
    <3>2. DOMAIN d = {"array", "attributes", "elements"} /\ d.array
      BY <1>1, <1>3 DEF FormOfDocument
    <3> HIDE DEF d, y
    <3>3. y.scopes[s].array /\ y.scopes[s].elements = [i \in DOMAIN d.elements |-> YamlValues(d.elements[i])]
          /\ y.scopes[s].attributes = YamlValues(d.attributes)
      BY <3>1, <3>2
    <3> QED
      BY <3>3 DEF d, YamlValues
  <2> HIDE DEF y
  <2>4. JsonToManifest(y).status = "ok"
    BY <2>1
  <2>5. VersionIsInt(y)
    BY <2>4 DEF JsonToManifest, Failed
  <2>6. "format_version" \in DOMAIN doc.meta => doc.meta["format_version"][2] \in DOMAIN Decimal
    <3> SUFFICES ASSUME "format_version" \in DOMAIN doc.meta
                 PROVE  doc.meta["format_version"][2] \in DOMAIN Decimal
      OBVIOUS
    <3> DEFINE v == doc.meta["format_version"]
    <3>1. "format_version" \in DOMAIN y.meta /\ y.meta["format_version"] = YamlValue(v)
      BY <2>2 DEF YamlValues
    <3>2. YamlValue(v)[1] = "int"
      BY <2>5, <3>1 DEF VersionIsInt
    <3>3. v[1] = "int"
      BY <1>3, <1>5 DEF OfType
    <3> HIDE DEF v
    <3>4. Typed(v[2])[1] = "int"
      BY <3>2, <3>3 DEF YamlValue
    <3>5. v[2] \in DOMAIN Decimal
      BY <3>4 DEF Typed
    <3> QED
      BY <3>5 DEF v
  <2>7. ParseRecord(Meta, y.meta) = Says(Meta, doc.meta)
    <3>1. \A f \in DOMAIN Meta \cap DOMAIN doc.meta :
            /\ PlainText(doc.meta[f][2])
            /\ Meta[f].kind = "bool" => doc.meta[f][2] \in {"true", "false"}
            /\ Meta[f].kind = "int" => doc.meta[f][2] \in DOMAIN Decimal
      BY <1>1, <1>5, <2>6
    <3>2. \A f \in DOMAIN Meta : Meta[f].kind \in {"string", "bool", "int"}
      BY <1>5
    <3> QED
      BY <1>3, <2>2, <3>1, <3>2, RecordReads
  <2>8. ASSUME NEW s \in DOMAIN doc.scopes
        PROVE  /\ y.scopes[s].array /\ DOMAIN y.scopes[s].elements = DOMAIN doc.scopes[s].elements
               /\ \A i \in DOMAIN doc.scopes[s].elements :
                    ParseRecord(RecordType[s], y.scopes[s].elements[i])
                      = Says(RecordType[s], doc.scopes[s].elements[i])
               /\ DOMAIN y.scopes[s].attributes = DOMAIN doc.scopes[s].attributes
               /\ \A k \in DOMAIN doc.scopes[s].attributes :
                    Convert("string", y.scopes[s].attributes[k]) = doc.scopes[s].attributes[k][2]
    <3> DEFINE d == doc.scopes[s]
               z == y.scopes[s]
    <3>1. /\ \A i \in DOMAIN d.elements :
               ParseRecord(RecordType[s], YamlValues(d.elements[i])) = Says(RecordType[s], d.elements[i])
          /\ \A k \in DOMAIN d.attributes : Convert("string", YamlValue(d.attributes[k])) = d.attributes[k][2]
      BY <1>2, <1>4
    <3>2. /\ z.array /\ z.elements = [i \in DOMAIN d.elements |-> YamlValues(d.elements[i])]
          /\ z.attributes = [k \in DOMAIN d.attributes |-> YamlValue(d.attributes[k])]
      BY <2>3
    <3> HIDE DEF d, z
    <3>3. /\ DOMAIN z.elements = DOMAIN d.elements
          /\ \A i \in DOMAIN d.elements :
               ParseRecord(RecordType[s], z.elements[i]) = Says(RecordType[s], d.elements[i])
          /\ DOMAIN z.attributes = DOMAIN d.attributes
          /\ \A k \in DOMAIN d.attributes : Convert("string", z.attributes[k]) = d.attributes[k][2]
      BY <3>1, <3>2
    <3> QED
      BY <3>2, <3>3 DEF d, z
  <2>9. JsonToManifest(y).manifest = Authored(doc)
    BY <2>2, <2>4, <2>7, <2>8, ParsedIs
  <2> QED
    BY <2>1, <2>9 DEF doc
<1>8. CASE format # "yaml" /\ ~(format = "json" /\ file.syntax = "json")
  BY <1>8 DEF Read, Failed
<1> QED
  BY <1>6, <1>7, <1>8

(* canonical_hash: what is keyed is put into a set.                               *)
LEMMA KeyedSorted ==
  ASSUME NEW m, Keyed(m), NEW s \in DOMAIN m.scopes
  PROVE  Sorted(s, m.scopes[s].elements) = {<<0, e>> : e \in Elems(m, s)}
<1> DEFINE els == m.scopes[s].elements
           Key(i) == [f \in IdentityKey[s] |-> els[i][f]]
           Before(i) == {j \in DOMAIN els \ {i} : j < i /\ Key(j) = Key(i)}
<1>1. Sorted(s, els) = {<<Cardinality(Before(i)), els[i]>> : i \in DOMAIN els}
  BY DEF Sorted
<1>2. ASSUME NEW i \in DOMAIN els PROVE Before(i) = {}
  <2> SUFFICES ASSUME NEW j \in DOMAIN els \ {i}, Key(j) = Key(i) PROVE FALSE
    OBVIOUS
  <2>1. \A f \in IdentityKey[s] : Key(j)[f] = els[j][f] /\ Key(i)[f] = els[i][f]
    OBVIOUS
  <2>2. \A f \in IdentityKey[s] : els[j][f] = els[i][f]
    BY <2>1
  <2> QED
    BY <2>2 DEF Keyed
<1>3. \A i \in DOMAIN els : Cardinality(Before(i)) = 0
  BY <1>2, FS_EmptySet
<1> HIDE DEF Before
<1>4. Sorted(s, els) = {<<0, els[i]>> : i \in DOMAIN els}
  BY <1>1, <1>3
<1> QED
  BY <1>4 DEF Elems

HashedForm(m) ==
  /\ DOMAIN m = {"meta", "scopes"} /\ m.meta = [f \in DOMAIN Meta |-> m.meta[f]]
  /\ m.scopes = [s \in DOMAIN m.scopes |-> m.scopes[s]] /\ DOMAIN m.scopes \subseteq DOMAIN IdentityKey
  /\ \A s \in DOMAIN m.scopes :
       m.scopes[s] = [attributes |-> m.scopes[s].attributes, elements |-> m.scopes[s].elements]

LEMMA HashIsModel ==
  ASSUME NEW m, NEW n, HashedForm(m), HashedForm(n), Keyed(m), Keyed(n)
  PROVE  CanonicalHash(m) = CanonicalHash(n) <=> SameModel(m, n)
<1> DEFINE Stamp(x) == [x.meta EXCEPT !.desired_sha256 = "", !.created_at = ""]
           Scope(x, s) == [attributes |-> x.scopes[s].attributes,
                           elements |-> {<<0, e>> : e \in Elems(x, s)}]
           Content(x) == [s \in DOMAIN x.scopes |-> Scope(x, s)]
<1>1. ASSUME NEW x, HashedForm(x), Keyed(x)
      PROVE  CanonicalHash(x) = [meta |-> Stamp(x), scopes |-> Content(x)]
  <2> DEFINE Part(s) == IF s \in DOMAIN IdentityKey
                          THEN [x.scopes[s] EXCEPT !.elements = Sorted(s, @)] ELSE x.scopes[s]
  <2>1. ASSUME NEW s \in DOMAIN x.scopes PROVE Part(s) = Scope(x, s)
    <3> DEFINE d == x.scopes[s]
    <3>1. s \in DOMAIN IdentityKey /\ d = [attributes |-> d.attributes, elements |-> d.elements]
      BY <1>1 DEF HashedForm
    <3>2. Sorted(s, d.elements) = {<<0, e>> : e \in Elems(x, s)}
      BY <1>1, KeyedSorted
    <3> HIDE DEF d
    <3>3. [d EXCEPT !.elements = Sorted(s, @)] =
            [attributes |-> d.attributes, elements |-> {<<0, e>> : e \in Elems(x, s)}]
      BY <3>1, <3>2
    <3> QED
      BY <3>1, <3>3 DEF d
  <2>2. CanonicalHash(x) = [meta |-> Stamp(x), scopes |-> [s \in DOMAIN x.scopes |-> Part(s)]]
    BY DEF CanonicalHash
  <2> HIDE DEF Part, Scope
  <2>3. [s \in DOMAIN x.scopes |-> Part(s)] = Content(x)
    BY <2>1
  <2> QED
    BY <2>2, <2>3
<1>2. Stamp(m) = Stamp(n) <=> /\ m.meta.format_version = n.meta.format_version
                              /\ m.meta.generator = n.meta.generator
  <2> DEFINE a == m.meta
             b == n.meta
  <2>1. DOMAIN a = {"format_version", "generator", "created_at", "desired_sha256"}
        /\ DOMAIN b = {"format_version", "generator", "created_at", "desired_sha256"}
    BY MetaFields DEF HashedForm
  <2> HIDE DEF a, b
  <2>2. [a EXCEPT !.desired_sha256 = "", !.created_at = ""] = [b EXCEPT !.desired_sha256 = "", !.created_at = ""]
          <=> a.format_version = b.format_version /\ a.generator = b.generator
    <3> DEFINE c == [a EXCEPT !.desired_sha256 = "", !.created_at = ""]
               d == [b EXCEPT !.desired_sha256 = "", !.created_at = ""]
    <3>1. c = [f \in DOMAIN a |-> IF f \in {"desired_sha256", "created_at"} THEN "" ELSE a[f]]
      OBVIOUS
    <3>2. d = [f \in DOMAIN a |-> IF f \in {"desired_sha256", "created_at"} THEN "" ELSE b[f]]
      BY <2>1
    <3> HIDE DEF c, d
    <3>3. ASSUME c = d PROVE a.format_version = b.format_version /\ a.generator = b.generator
      <4>1. c["format_version"] = a.format_version /\ c["generator"] = a.generator
        BY <2>1, <3>1
      <4>2. d["format_version"] = b.format_version /\ d["generator"] = b.generator
        BY <2>1, <3>2
      <4> QED
        BY <3>3, <4>1, <4>2
    <3>4. ASSUME a.format_version = b.format_version, a.generator = b.generator PROVE c = d
      <4>1. \A f \in DOMAIN a : f \notin {"desired_sha256", "created_at"} => a[f] = b[f]
        BY <2>1, <3>4
      <4> QED
        BY <3>1, <3>2, <4>1
    <3> QED
      BY <3>3, <3>4 DEF c, d
  <2> QED
    BY <2>2 DEF a, b
<1>3. ASSUME NEW s PROVE Scope(m, s) = Scope(n, s) <=> /\ m.scopes[s].attributes = n.scopes[s].attributes
                                                       /\ Elems(m, s) = Elems(n, s)
  <2> DEFINE A == Elems(m, s)
             B == Elems(n, s)
  <2> HIDE DEF A, B
  <2>1. ASSUME {<<0, e>> : e \in A} = {<<0, e>> : e \in B} PROVE A = B
    <3>1. ASSUME NEW e \in A PROVE e \in B
      <4>1. <<0, e>> \in {<<0, x>> : x \in B}
        BY <2>1
      <4> QED
        BY <4>1
    <3>2. ASSUME NEW e \in B PROVE e \in A
      <4>1. <<0, e>> \in {<<0, x>> : x \in A}
        BY <2>1
      <4> QED
        BY <4>1
    <3> QED
      BY <3>1, <3>2
  <2>2. ([attributes |-> m.scopes[s].attributes, elements |-> {<<0, e>> : e \in A}]
          = [attributes |-> n.scopes[s].attributes, elements |-> {<<0, e>> : e \in B}])
         <=> /\ m.scopes[s].attributes = n.scopes[s].attributes
             /\ {<<0, e>> : e \in A} = {<<0, e>> : e \in B}
    OBVIOUS
  <2> QED
    BY <2>1, <2>2 DEF A, B
<1>4. CanonicalHash(m) = CanonicalHash(n) <=> Stamp(m) = Stamp(n) /\ Content(m) = Content(n)
  <2> HIDE DEF Stamp, Content
  <2> QED
    BY <1>1
<1>5. Content(m) = Content(n) <=> /\ DOMAIN m.scopes = DOMAIN n.scopes
                                  /\ \A s \in DOMAIN m.scopes : Scope(m, s) = Scope(n, s)
  <2> HIDE DEF Scope
  <2>1. ASSUME Content(m) = Content(n)
        PROVE  DOMAIN m.scopes = DOMAIN n.scopes /\ \A s \in DOMAIN m.scopes : Scope(m, s) = Scope(n, s)
    <3>1. DOMAIN Content(m) = DOMAIN m.scopes /\ DOMAIN Content(n) = DOMAIN n.scopes
      OBVIOUS
    <3>2. \A s \in DOMAIN m.scopes : Content(m)[s] = Scope(m, s)
      OBVIOUS
    <3>3. \A s \in DOMAIN n.scopes : Content(n)[s] = Scope(n, s)
      OBVIOUS
    <3> HIDE DEF Content
    <3> QED
      BY <2>1, <3>1, <3>2, <3>3
  <2> QED
    BY <2>1
<1> QED
  BY <1>2, <1>3, <1>4, <1>5 DEF SameModel

(* What the constants say of a document is what a manifest has. *)
LEMMA AuthoredForm ==
  ASSUME NEW doc, DOMAIN doc.scopes \subseteq Scopes
  PROVE  HashedForm(Without(Authored(doc), Observational))
<1> DEFINE Written(s) ==
             [attributes |-> [k \in DOMAIN doc.scopes[s].attributes |-> doc.scopes[s].attributes[k][2]],
              elements |-> [i \in DOMAIN doc.scopes[s].elements |->
                              Says(RecordType[s], doc.scopes[s].elements[i])]]
           m == Without(Authored(doc), Observational)
<1>1. Authored(doc) = [meta |-> Says(Meta, doc.meta), scopes |-> [s \in DOMAIN doc.scopes |-> Written(s)]]
  BY DEF Authored
<1>3. \A s \in DOMAIN doc.scopes :
        Written(s) = [attributes |-> Written(s).attributes, elements |-> Written(s).elements]
  OBVIOUS
<1> HIDE DEF Written
<1>4. m = [meta |-> Says(Meta, doc.meta),
           scopes |-> [s \in DOMAIN doc.scopes \ Observational |-> Written(s)]]
  BY <1>1 DEF Without
<1>5. Says(Meta, doc.meta) = [f \in DOMAIN Meta |-> Says(Meta, doc.meta)[f]]
  BY DEF Says
<1>6. Scopes \ Observational = DOMAIN IdentityKey
  BY DEF Scopes, RecordType, Observational, IdentityKey
<1> HIDE DEF m
<1> QED
  BY <1>3, <1>4, <1>5, <1>6 DEF HashedForm, m

(* The identity of a declaration is its content, however it is written.             *)
THEOREM IdentityIsModelAlways == Spec => []IdentityIsModel
<1>1. ASSUME FInv, NEW p \in Procs, run[p].sha # Unset,
             PlainBut(run[p].text, {}), PlainAttributes(run[p].text)
      PROVE  /\ run[p].sha = CanonicalHash(Without(Authored(run[p].text.doc), Observational))
             /\ HashedForm(Without(Authored(run[p].text.doc), Observational))
  <2> DEFINE f == run[p].text
             format == FormatOf(run[p].cfg, ManifestPath(p))
  <2>1. Follows(p)
    BY <1>1 DEF FInv
  <2>2. /\ f # NoFile /\ FormOfFile(f) /\ LoadDesiredManifest(f, format).status = "ok"
        /\ run[p].sha = CanonicalHash(LoadDesiredManifest(f, format).manifest)
    BY <1>1, <2>1 DEF Follows, Loaded
  <2>3. /\ Read(f, format).status = "ok"
        /\ LoadDesiredManifest(f, format).manifest = Without(Read(f, format).manifest, Observational)
    BY <2>2, ReadStatus
  <2>4. Read(f, format).manifest = Authored(f.doc)
    BY <1>1, <2>2, <2>3, ReadIsAuthored
  <2>5. HashedForm(Without(Authored(f.doc), Observational))
    BY <2>2, AuthoredForm DEF FormOfFile, FormOfDocument
  <2> QED
    BY <2>2, <2>3, <2>4, <2>5
<1>2. FInv => IdentityIsModel
  BY <1>1, HashIsModel DEF IdentityIsModel
<1> QED
  BY <1>2, FollowInv, PTL

-----------------------------------------------------------------------------
(* The command line *)

(* Another order of the arguments has the same options and the same word.          *)
LEMMA OrderFree ==
  ASSUME NEW S, NEW argv \in Seq(S), Unambiguous(argv),
         NEW perm \in Bijection(DOMAIN argv, DOMAIN argv)
  PROVE  Dispatch([i \in DOMAIN argv |-> argv[perm[i]]]) = Dispatch(argv)
<1> DEFINE D == DOMAIN argv
           line == [i \in D |-> argv[perm[i]]]
           At(k) == {i \in D : argv[i][1] = "option" /\ argv[i][2] = k}
           LineAt(k) == {i \in D : line[i][1] = "option" /\ line[i][2] = k}
           named == {i \in Words(argv) : argv[i][2] # ""}
           lineNamed == {i \in Words(line) : line[i][2] # ""}
<1>1. D = 1..Len(argv) /\ Len(argv) \in Nat /\ DOMAIN line = D
  OBVIOUS
<1>2. /\ \A i \in D : perm[i] \in D /\ line[i] = argv[perm[i]]
      /\ \A i, j \in D : perm[i] = perm[j] => i = j
      /\ \A j \in D : \E i \in D : perm[i] = j
  <2>1. ASSUME NEW T, NEW f \in Bijection(T, T)
        PROVE  /\ \A i \in T : f[i] \in T
               /\ \A i, j \in T : f[i] = f[j] => i = j
               /\ \A j \in T : \E i \in T : f[i] = j
    BY DEF Bijection, Injection, Surjection, IsInjective
  <2>2. \A i \in D : line[i] = argv[perm[i]]
    OBVIOUS
  <2> HIDE DEF line
  <2> QED
    BY <2>1, <2>2
<1>3. \A i \in D : i \in Int
  BY <1>1
<1>4. /\ \A i, j \in D : argv[i][1] = argv[j][1] /\ (argv[i][1] = "option" => argv[i][2] = argv[j][2]) => i = j
      /\ \A i \in D : argv[i] # Word("declarative")
  BY DEF Unambiguous
<1>5. Arguments(argv) = argv
  <2>1. argv # <<>> => 1 \in D
    BY <1>1
  <2> QED
    BY <1>4, <2>1 DEF Arguments
<1>6. Arguments(line) = line
  <2>1. line # <<>> => 1 \in D
    <3>1. Len(argv) = 0 => line = <<>>
      BY <1>1
    <3> QED
      BY <1>1, <3>1
  <2>4. \A i \in D : argv[i] # Word("declarative")
    BY <1>4
  <2> HIDE DEF line, D
  <2>2. ASSUME NEW i \in D PROVE line[i] # Word("declarative")
    BY <1>2, <2>4
  <2>3. ~(line # <<>> /\ line[1] = Word("declarative"))
    BY <2>1, <2>2
  <2> QED
    BY <2>3 DEF Arguments
<1> HIDE DEF D, line
<1>7. Asks(line, "version") = Asks(argv, "version") /\ Asks(line, "help") = Asks(argv, "help")
  <2>1. ASSUME NEW w PROVE (\E i \in D : line[i] = Word(w)) <=> \E j \in D : argv[j] = Word(w)
    BY <1>2
  <2> QED
    BY <1>1, <2>1 DEF Asks, D
<1>8. \A i \in D : /\ i \in Words(line) <=> perm[i] \in Words(argv)
                   /\ i \in lineNamed <=> perm[i] \in named
  BY <1>1, <1>2 DEF Words, D
<1>0. Words(line) \subseteq D /\ Words(argv) \subseteq D
  BY <1>1 DEF Words, D
<1>9. \A i, j \in Words(argv) : i = j
  BY <1>4 DEF Words, D
<1>10. \A i, j \in Words(line) : i = j
  <2> SUFFICES ASSUME NEW i \in Words(line), NEW j \in Words(line) PROVE i = j
    OBVIOUS
  <2>1. i \in D /\ j \in D
    BY <1>0
  <2>2. perm[i] = perm[j]
    BY <1>8, <1>9, <2>1
  <2> QED
    BY <1>2, <2>1, <2>2
<1>15. (\A i \in Words(argv) : i \in Int) /\ \A i \in Words(line) : i \in Int
  BY <1>0, <1>3
<1>11. ArgsOk(line) = ArgsOk(argv)
  <2>1. \A i, j \in Words(argv) : argv[i][2] # "" => j <= i
    <3>1. ASSUME NEW i \in Words(argv), NEW j \in Words(argv) PROVE j <= i
      <4>1. i = j /\ i \in Int
        BY <1>9, <1>15
      <4> QED
        BY <4>1
    <3> QED
      BY <3>1
  <2>2. \A i, j \in Words(line) : line[i][2] # "" => j <= i
    <3>1. ASSUME NEW i \in Words(line), NEW j \in Words(line) PROVE j <= i
      <4>1. i = j /\ i \in Int
        BY <1>10, <1>15
      <4> QED
        BY <4>1
    <3> QED
      BY <3>1
  <2>3. (\A i \in D : line[i][1] # "flag" /\ (line[i][1] = "option" => line[i][2] \in KnownKeys))
          <=> \A i \in D : argv[i][1] # "flag" /\ (argv[i][1] = "option" => argv[i][2] \in KnownKeys)
    BY <1>2
  <2> QED
    BY <1>1, <2>1, <2>2, <2>3 DEF ArgsOk, D
<1>12. Verb(line) = Verb(argv)
  <2>1. CASE named = {}
    <3>1. lineNamed = {}
      BY <1>0, <1>8, <2>1
    <3> QED
      BY <2>1, <3>1 DEF Verb
  <2>2. CASE named # {}
    <3>0. named \subseteq D
      BY <1>0
    <3>1. PICK i \in D : perm[i] \in named
      <4> HIDE DEF named
      <4> QED
        BY <1>2, <2>2, <3>0
    <3>2. named = {perm[i]}
      BY <1>9, <3>1
    <3>3. i \in lineNamed
      BY <1>8, <3>1
    <3>4. lineNamed = {i}
      BY <1>10, <3>3
    <3> DEFINE First(N) == CHOOSE x \in N : \A y \in N : x <= y
    <3>5. /\ Verb(argv) = IF named = {} THEN "" ELSE argv[First(named)][2]
          /\ Verb(line) = IF lineNamed = {} THEN "" ELSE line[First(lineNamed)][2]
      BY DEF Verb
    <3> HIDE DEF named, lineNamed
    <3>6. First({perm[i]}) = perm[i] /\ First({i}) = i
      BY <1>2, <1>3
    <3> HIDE DEF First
    <3> QED
      BY <1>2, <3>2, <3>4, <3>5, <3>6
  <2> QED
    BY <2>1, <2>2
<1>13. Options(line) = Options(argv)
  <2> DEFINE Last(N) == CHOOSE i \in N : \A j \in N : j <= i
  <2>1. \A k : \A i \in D : i \in LineAt(k) <=> perm[i] \in At(k)
    BY <1>2
  <2>2. \A k : LineAt(k) \subseteq D /\ At(k) \subseteq D
    OBVIOUS
  <2>3. \A k : \A i, j \in At(k) : i = j
    BY <1>4
  <2> HIDE DEF At, LineAt
  <2>4. ASSUME NEW k PROVE LineAt(k) = {} <=> At(k) = {}
    BY <1>2, <2>1, <2>2
  <2>5. ASSUME NEW k, At(k) # {} PROVE line[Last(LineAt(k))] = argv[Last(At(k))]
    <3>1. PICK i \in D : perm[i] \in At(k)
      BY <1>2, <2>2, <2>5
    <3>2. At(k) = {perm[i]}
      BY <2>3, <3>1
    <3>3. LineAt(k) = {i}
      BY <1>2, <2>1, <2>2, <2>3, <3>1
    <3>4. Last({perm[i]}) = perm[i] /\ Last({i}) = i
      BY <1>2, <1>3
    <3> HIDE DEF Last
    <3> QED
      BY <1>2, <3>2, <3>3, <3>4
  <2>6. Options(argv) = [k \in {k \in KnownKeys : At(k) # {}} |-> argv[Last(At(k))][3]]
    BY DEF Options, At, D
  <2>7. Options(line) = [k \in {k \in KnownKeys : LineAt(k) # {}} |-> line[Last(LineAt(k))][3]]
    BY <1>1 DEF Options, LineAt, D
  <2> HIDE DEF Last
  <2>8. {k \in KnownKeys : LineAt(k) # {}} = {k \in KnownKeys : At(k) # {}}
    BY <2>4
  <2> QED
    BY <2>5, <2>6, <2>7, <2>8
<1>14. Dispatch(line) = Dispatch(argv)
  <2> DEFINE Judge(x, o, verb) ==
        IF Asks(x, "version") \/ Asks(x, "help") THEN JustExit(0)
        ELSE IF ~ArgsOk(x) \/ ~ConfigOk(o) THEN JustExit(2)
        ELSE IF verb = "" THEN JustExit(0)
        ELSE IF verb \notin VerbNames THEN JustExit(2)
        ELSE IF "scope" \in DOMAIN o /\ verb \notin {"describe", "verify"} THEN JustExit(2)
        ELSE RunVerb(verb, BuildConfig(o))
  <2>1. \A x : Dispatch(x) = Judge(Arguments(x), Options(Arguments(x)), Verb(Arguments(x)))
    BY DEF Dispatch
  <2>2. Judge(line, Options(line), Verb(line)) = Judge(argv, Options(argv), Verb(argv))
    BY <1>7, <1>11, <1>12, <1>13
  <2> HIDE DEF Judge
  <2> QED
    BY <1>5, <1>6, <2>1, <2>2
<1> QED
  BY <1>14 DEF line, D

(* Steps but an invocation leave the command line of a process as it is.          *)
LEMMA LineKept ==
  ASSUME FInv, [Next]_vars, NEW p \in Procs, run'[p].argv # run[p].argv
  PROVE  \E line \in Lines[family] : run'[p].argv = line
<1>1. /\ RunOK(run[p]) /\ DOMAIN run[p] = DOMAIN Idle /\ run = [q \in Procs |-> run[q]]
  BY DEF FInv, TInv, RunOK
<1>2. ~UNCHANGED vars
  BY DEF vars
<1>3. ~Edit
  <2> SUFFICES ASSUME Edit PROVE FALSE
    OBVIOUS
  <2>1. run'[p] = [run[p] EXCEPT !.disturbed = @ \/ Alive(p)]
    BY DEF Edit
  <2> QED
    BY <1>1, <2>1, IdleFields
<1>4. ASSUME NEW q \in Procs, NEW r, Become(q, r), q = p => r.argv = run[p].argv PROVE FALSE
  <2>1. run'[p] = IF q = p THEN r ELSE run[p]
    BY <1>1, <1>4 DEF Become
  <2> QED
    BY <1>4, <2>1
<1>5. \A code : Exited(run[p], code).argv = run[p].argv
  BY <1>1, IdleFields DEF Exited
<1>6. ASSUME NEW q \in Procs, NEW code, Exit(q, code) PROVE FALSE
  BY <1>4, <1>5, <1>6 DEF Exit
<1>7. ASSUME NEW q \in Procs, NEW r, NEW path, run' = Disturbing(q, r, path),
             q = p => r.argv = run[p].argv
      PROVE  FALSE
  <2>1. run'[p] = IF q = p THEN r
                  ELSE [run[p] EXCEPT !.disturbed = @ \/ (Alive(p) /\ path \in Reads(run[p]))]
    BY <1>7 DEF Disturbing
  <2> QED
    BY <1>1, <1>7, <2>1, IdleFields
<1>8. ASSUME NEW q \in Procs, Invoke(q) PROVE \E line \in Lines[family] : run'[p].argv = line
  <2>1. PICK line \in Lines[family] :
          run' = [run EXCEPT ![q] =
                    IF Dispatch(line).verb = "none"
                      THEN Exited([Idle EXCEPT !.argv = line], Dispatch(line).exit)
                    ELSE [Idle EXCEPT !.argv = line, !.verb = Dispatch(line).verb, !.cfg = Dispatch(line).cfg,
                                      !.pc = FirstStep(Dispatch(line).verb, Dispatch(line).cfg)]]
    BY <1>8 DEF Invoke
  <2>2. q = p
    BY <1>1, <2>1
  <2> DEFINE n == [Idle EXCEPT !.argv = line, !.verb = Dispatch(line).verb, !.cfg = Dispatch(line).cfg,
                               !.pc = FirstStep(Dispatch(line).verb, Dispatch(line).cfg)]
             x == Exited([Idle EXCEPT !.argv = line], Dispatch(line).exit)
  <2>3. run'[p] = IF Dispatch(line).verb = "none" THEN x ELSE n
    BY <1>1, <2>1, <2>2
  <2>4. n.argv = line /\ x.argv = line
    <3> HIDE DEF Idle
    <3> QED
      BY IdleFields DEF Exited
  <2> HIDE DEF n, x
  <2> QED
    BY <2>3, <2>4
<1>9. ASSUME NEW q \in Procs, LoadManifest(q) PROVE FALSE
  <2> DEFINE path == IF run[q].cfg.manifest_path = Unset THEN DefaultManifest ELSE run[q].cfg.manifest_path
             lm == LoadDesiredManifest(disk[path], FormatOf(run[q].cfg, path))
             n == [run[q] EXCEPT !.pc = IF run[q].verb = "diff" THEN "record" ELSE "actual",
                                 !.text = disk[path], !.desired = lm.manifest,
                                 !.sha = CanonicalHash(lm.manifest)]
  <2>1. Become(q, n) \/ \E code : Exit(q, code)
    BY <1>9 DEF LoadManifest
  <2> HIDE DEF lm, path
  <2>2. q = p => n.argv = run[p].argv
    BY <1>1, IdleFields
  <2> HIDE DEF n
  <2> QED
    BY <1>4, <1>6, <2>1, <2>2
<1>10. ASSUME NEW q \in Procs, LoadRecord(q) PROVE FALSE
  <2> DEFINE loaded == [run[q] EXCEPT !.pc = "actual", !.record = Applied.manifest]
             named == [loaded EXCEPT !.desired = Applied.manifest]
  <2>1. Become(q, loaded) \/ Become(q, named) \/ \E code : Exit(q, code)
    BY <1>10 DEF LoadRecord, Applied
  <2>2. q = p => loaded.argv = run[p].argv /\ named.argv = run[p].argv
    BY <1>1, IdleFields
  <2> HIDE DEF loaded, named
  <2> QED
    BY <1>4, <1>6, <2>1, <2>2
<1>11. ASSUME NEW q \in Procs, ReadDump(q) PROVE FALSE
  <2> DEFINE n == [run[q] EXCEPT !.pc = "compare", !.actual = Dump(q).manifest]
  <2>1. Become(q, n) \/ \E code : Exit(q, code)
    BY <1>11 DEF ReadDump, Dump
  <2>2. q = p => n.argv = run[p].argv
    BY <1>1, IdleFields
  <2> HIDE DEF n
  <2> QED
    BY <1>4, <1>6, <2>1, <2>2
<1>12. ASSUME NEW q \in Procs, ReadHost(q) PROVE FALSE
  <2> DEFINE r == run[q]
             scope == IF r.verb \in {"describe", "verify"} THEN r.cfg.scope ELSE "etc"
             live == DescribeActualState(r.cfg.on_unreadable, scope, LoadKeepList(r.cfg))
             read == [r EXCEPT !.actual = live.manifest]
             going == [read EXCEPT !.pc = "compare"]
  <2>1. Become(q, going) \/ Become(q, Described(read)) \/ \E code : Exit(q, code)
    BY <1>12 DEF ReadHost
  <2> HIDE DEF live
  <2>2. q = p => going.argv = run[p].argv /\ Described(read).argv = run[p].argv
    <3>1. q = p => DOMAIN read = DOMAIN Idle /\ read.argv = run[p].argv
      BY <1>1, IdleFields
    <3> HIDE DEF read
    <3> QED
      BY <3>1, IdleFields DEF Described, Exited
  <2> HIDE DEF going, read
  <2> QED
    BY <1>4, <1>6, <2>1, <2>2
<1>13. ASSUME NEW q \in Procs, OpenOut(q) PROVE FALSE
  <2> DEFINE n == [run[q] EXCEPT !.pc = "write"]
  <2>1. run' = Disturbing(q, n, run[q].cfg.out) \/ Exit(q, 2)
    BY <1>13 DEF OpenOut
  <2>2. q = p => n.argv = run[p].argv
    BY <1>1, IdleFields
  <2> HIDE DEF n
  <2> QED
    BY <1>6, <1>7, <2>1, <2>2
<1>14. ASSUME NEW q \in Procs, WriteOut(q) \/ WriteFails(q) PROVE FALSE
  <2>1. PICK file, code : PutOut(q, file, Exited(run[q], code))
    BY <1>14 DEF WriteOut, WriteFails
  <2> QED
    BY <1>5, <1>7, <2>1 DEF PutOut
<1>15. ASSUME NEW q \in Procs, Compare(q) PROVE FALSE
  <2>1. \E report, code : Become(q, Exited([run[q] EXCEPT !.report = report], code))
    BY <1>15 DEF Compare
  <2>2. q = p => \A report, code : Exited([run[q] EXCEPT !.report = report], code).argv = run[p].argv
    BY <1>1, IdleFields DEF Exited
  <2> QED
    BY <1>4, <2>1, <2>2
<1> QED
  BY <1>2, <1>3, <1>8, <1>9, <1>10, <1>11, <1>12, <1>13, <1>14, <1>15 DEF Next, Step

(* The order of the arguments is nothing to go by.                               *)
THEOREM PositionFreeAlways == Spec => PositionFree
<1> DEFINE Free == \A p \in Procs : LET argv == run'[p].argv IN
             argv # run[p].argv /\ Unambiguous(argv) =>
               \A perm \in Bijection(DOMAIN argv, DOMAIN argv) :
                 Dispatch([i \in DOMAIN argv |-> argv[perm[i]]]) = Dispatch(argv)
<1>1. FInv /\ [Next]_vars => Free
  <2> SUFFICES ASSUME FInv, [Next]_vars, NEW p \in Procs, run'[p].argv # run[p].argv,
                      Unambiguous(run'[p].argv),
                      NEW perm \in Bijection(DOMAIN run'[p].argv, DOMAIN run'[p].argv)
               PROVE  Dispatch([i \in DOMAIN run'[p].argv |-> run'[p].argv[perm[i]]]) = Dispatch(run'[p].argv)
    OBVIOUS
  <2>1. PICK line \in Lines[family] : run'[p].argv = line
    BY LineKept
  <2>2. line \in Seq({line[i] : i \in DOMAIN line})
    BY FamilyAssumption DEF FInv, TInv
  <2> QED
    BY <2>1, <2>2, OrderFree
<1>2. FInv /\ [Next]_vars => [Free]_vars
  BY <1>1
<1> QED
  BY <1>2, FollowInv, PTL DEF Spec, PositionFree

-----------------------------------------------------------------------------
(* Descriptions *)

(* What the writer makes of a record is converted without an exception.            *)
LEMMA FieldsSafe ==
  ASSUME NEW type, \A f \in DOMAIN type : type[f].kind \in {"string", "bool", "int"}, NEW r,
         \A f \in DOMAIN type :
           /\ type[f].kind = "bool" => r[f] \in {"true", "false"}
           /\ type[f].kind = "int" => r[f] \in DOMAIN Decimal /\ Decimal[r[f]] = r[f] /\ r[f] \notin Wide
  PROVE  ~RecordThrows(type, Fields(type, r)) /\ ~RecordThrows(type, YamlValues(Fields(type, r)))
<1> DEFINE w == Fields(type, r)
           y == YamlValues(w)
<1>1. DOMAIN w = DOMAIN type /\ \A f \in DOMAIN type : w[f] = <<type[f].kind, r[f]>>
  BY DEF Fields
<1> HIDE DEF w
<1>2. DOMAIN y = DOMAIN type /\ \A f \in DOMAIN type : y[f] = YamlValue(w[f])
  BY <1>1 DEF YamlValues
<1>3. ASSUME NEW f \in DOMAIN type
      PROVE  ~Throws(type[f].kind, w[f]) /\ ~Throws(type[f].kind, Typed(r[f])) /\ y[f] = Typed(r[f])
  <2> DEFINE kind == type[f].kind
             t == r[f]
  <2>1. /\ kind \in {"string", "bool", "int"}
        /\ kind = "bool" => t \in {"true", "false"}
        /\ kind = "int" => t \in DOMAIN Decimal /\ Decimal[t] = t /\ t \notin Wide
        /\ w[f] = <<kind, t>>
    BY <1>1
  <2> HIDE DEF kind, t
  <2>2. <<kind, t>>[1] = kind /\ <<kind, t>>[2] = t
    OBVIOUS
  <2>3. ~Throws(kind, w[f])
    BY <2>1, <2>2 DEF Throws
  <2>4. YamlValue(w[f]) = Typed(t)
    BY <2>1, <2>2 DEF YamlValue
  <2>5. Typed(t)[1] # "composite"
    BY DEF Typed
  <2>6. kind = "bool" => Typed(t)[1] = "bool"
    BY <2>1, TextAssumption DEF Typed
  <2>7. kind = "int" => Typed(t) = <<"int", t>>
    BY <2>1 DEF Typed
  <2>8. ~Throws(kind, Typed(t))
    BY <2>1, <2>5, <2>6, <2>7 DEF Throws
  <2> QED
    BY <1>2, <2>3, <2>4, <2>8 DEF kind, t
<1> HIDE DEF y
<1>4. ~RecordThrows(type, w) /\ ~RecordThrows(type, y)
  BY <1>3 DEF RecordThrows
<1> QED
  BY <1>4 DEF w, y

LEMMA ParsesWhole ==
  ASSUME NEW d, VersionIsInt(d), ~RecordThrows(Meta, d.meta),
         \A s \in DOMAIN d.scopes : ~ScopeThrows(s, d.scopes[s]),
         "format_version" \in DOMAIN d.meta, Convert("int", d.meta["format_version"]) = "1"
  PROVE  /\ JsonToManifest(d).status = "ok" /\ JsonToManifest(d).manifest.meta.format_version = "1"
         /\ DOMAIN JsonToManifest(d).manifest.scopes = DOMAIN d.scopes
<1> DEFINE m == [meta |-> ParseRecord(Meta, d.meta),
                 scopes |-> [s \in DOMAIN d.scopes |-> ParseScope(s, d.scopes[s])]]
<1>1. JsonToManifest(d) = [status |-> "ok", manifest |-> m]
  BY DEF JsonToManifest
<1>2. ParseRecord(Meta, d.meta)["format_version"] = Convert("int", d.meta["format_version"])
  BY MetaFields DEF ParseRecord
<1>3. m.meta.format_version = "1" /\ DOMAIN m.scopes = DOMAIN d.scopes
  BY <1>2
<1> QED
  BY <1>1, <1>3

(* A manifest in memory whose texts are plain is read when it was written.          *)
LEMMA ReadsBack ==
  ASSUME NEW m, FormOfManifest(m), m.meta.format_version = "1", NEW fmt \in Formats,
         PlainBut(SerializeManifest(m, fmt), {"mode"}), NEW format \in Formats,
         format = "yaml" \/ fmt = format
  PROVE  LET r == Read(SerializeManifest(m, fmt), format) IN
         /\ r.status = "ok" /\ r.manifest.meta.format_version = "1"
         /\ DOMAIN r.manifest.scopes = DOMAIN m.scopes
<1> DEFINE file == SerializeManifest(m, fmt)
           doc == file.doc
           y == YamlDocument(doc)
<1>1. /\ file.syntax = fmt /\ doc.meta = Fields(Meta, m.meta) /\ DOMAIN doc.scopes = DOMAIN m.scopes
      /\ \A s \in DOMAIN m.scopes : doc.scopes[s] =
           [array      |-> TRUE,
            attributes |-> [k \in DOMAIN m.scopes[s].attributes |-> <<"string", m.scopes[s].attributes[k]>>],
            elements   |-> [i \in DOMAIN m.scopes[s].elements |->
                              Fields(RecordType[s], m.scopes[s].elements[i])]]
  BY DEF SerializeManifest
<1>2. \A s \in DOMAIN doc.scopes : \A i \in DOMAIN doc.scopes[s].elements :
        \A f \in DOMAIN doc.scopes[s].elements[i] \ {"mode"} : PlainText(doc.scopes[s].elements[i][f][2])
  BY DEF PlainBut
<1> HIDE DEF file, doc
<1>3. ASSUME NEW s \in DOMAIN m.scopes, NEW i \in DOMAIN m.scopes[s].elements
      PROVE  LET w == Fields(RecordType[s], m.scopes[s].elements[i]) IN
             ~RecordThrows(RecordType[s], w) /\ ~RecordThrows(RecordType[s], YamlValues(w))
  <2> DEFINE e == m.scopes[s].elements[i]
             w == Fields(RecordType[s], e)
  <2>1. s \in Scopes
    BY DEF FormOfManifest
  <2>2. CASE s # "repositories"
    BY <2>1, <2>2, Kinds, FieldsSafe
  <2>3. CASE s = "repositories"
    <3>1. e \in [DOMAIN RecordType.repositories -> Text] /\ Switches(e) /\ e.priority \notin Wide
      <4>1. m.scopes[s].elements \in Seq([DOMAIN RecordType[s] -> Text])
        BY <2>3 DEF FormOfManifest
      <4>2. e \in [DOMAIN RecordType[s] -> Text]
        BY <4>1
      <4> QED
        BY <2>3, <4>2 DEF FormOfManifest
    <3>2. doc.scopes[s].elements[i] = w /\ i \in DOMAIN doc.scopes[s].elements
      <4> DEFINE n == m.scopes[s]
                 d == doc.scopes[s]
      <4>1. d = [array |-> TRUE,
                 attributes |-> [k \in DOMAIN n.attributes |-> <<"string", n.attributes[k]>>],
                 elements |-> [k \in DOMAIN n.elements |-> Fields(RecordType[s], n.elements[k])]]
            /\ i \in DOMAIN n.elements
        BY <1>1
      <4> HIDE DEF n, d
      <4>2. i \in DOMAIN d.elements /\ d.elements[i] = Fields(RecordType[s], n.elements[i])
        BY <4>1
      <4> QED
        BY <4>2 DEF n, d
    <3>3. \A f \in DOMAIN RecordType[s] : w[f][2] = e[f] /\ f \in DOMAIN w
      BY DEF Fields
    <3>4. \A f \in DOMAIN RecordType[s] \ {"mode"} : PlainText(e[f])
      BY <1>1, <1>2, <3>2, <3>3
    <3> HIDE DEF e
    <3>5. \A f \in DOMAIN RecordType[s] : RecordType[s][f].kind = "int" => f = "priority"
      <4>1. RecordType["repositories"] =
              [alias |-> Str, name |-> Str, url |-> Str, type |-> Str,
               enabled |-> Flag("true"), gpgcheck |-> Flag("true"),
               autorefresh |-> Flag("false"), priority |-> Number("99")]
        BY DEF RecordType
      <4>2. Str.kind = "string" /\ Flag("true").kind = "bool" /\ Flag("false").kind = "bool"
        BY DEF Str, Flag
      <4> QED
        BY <2>3, <4>1, <4>2
    <3>6. \A f \in DOMAIN RecordType[s] :
            /\ RecordType[s][f].kind = "bool" => e[f] \in {"true", "false"}
            /\ RecordType[s][f].kind = "int" => e[f] \in DOMAIN Decimal
      BY <2>3, <3>1 DEF Switches
    <3>7. \A f \in DOMAIN RecordType[s] : RecordType[s][f].kind = "int" =>
            Decimal[e[f]] = e[f] /\ e[f] \notin Wide
      BY <3>1, <3>4, <3>5, <3>6 DEF PlainText
    <3>8. \A f \in DOMAIN RecordType[s] : RecordType[s][f].kind \in {"string", "bool", "int"}
      BY <2>1, Kinds
    <3> QED
      BY <3>6, <3>7, <3>8, FieldsSafe DEF e
  <2> QED
    BY <2>2, <2>3
<1>4. ASSUME NEW s \in DOMAIN m.scopes
      PROVE  ~ScopeThrows(s, doc.scopes[s]) /\ ~ScopeThrows(s, y.scopes[s])
  <2> DEFINE d == doc.scopes[s]
             z == y.scopes[s]
             n == m.scopes[s]
  <2>1. /\ d = [array |-> TRUE,
                attributes |-> [k \in DOMAIN n.attributes |-> <<"string", n.attributes[k]>>],
                elements |-> [i \in DOMAIN n.elements |-> Fields(RecordType[s], n.elements[i])]]
        /\ z = [d EXCEPT !.attributes = YamlValues(@), !.elements = [i \in DOMAIN @ |-> YamlValues(@[i])]]
    BY <1>1 DEF YamlDocument
  <2>2. \A i \in DOMAIN n.elements :
          /\ ~RecordThrows(RecordType[s], Fields(RecordType[s], n.elements[i]))
          /\ ~RecordThrows(RecordType[s], YamlValues(Fields(RecordType[s], n.elements[i])))
    BY <1>3
  <2> HIDE DEF d, z, n, y
  <2>3. /\ DOMAIN d.attributes = DOMAIN n.attributes
        /\ \A k \in DOMAIN n.attributes : d.attributes[k] = <<"string", n.attributes[k]>>
        /\ DOMAIN d.elements = DOMAIN n.elements
        /\ \A i \in DOMAIN n.elements : d.elements[i] = Fields(RecordType[s], n.elements[i])
        /\ d.array
    BY <2>1
  <2>4. z.attributes = YamlValues(d.attributes) /\ z.elements = [i \in DOMAIN d.elements |-> YamlValues(d.elements[i])]
    BY <2>1
  <2>5. \A t : ~Throws("string", <<"string", t>>) /\ ~Throws("string", YamlValue(<<"string", t>>))
    BY DEF Throws, YamlValue, Typed
  <2>6. \A k \in DOMAIN d.attributes : ~Throws("string", d.attributes[k])
    BY <2>3, <2>5
  <2>7. \A i \in DOMAIN d.elements : /\ ~RecordThrows(RecordType[s], d.elements[i])
                                    /\ ~RecordThrows(RecordType[s], YamlValues(d.elements[i]))
    BY <2>2, <2>3
  <2>8. ~ScopeThrows(s, d)
    BY <2>6, <2>7 DEF ScopeThrows
  <2>9. DOMAIN z.attributes = DOMAIN d.attributes
        /\ \A k \in DOMAIN d.attributes : z.attributes[k] = YamlValue(d.attributes[k])
    BY <2>4 DEF YamlValues
  <2>10. \A k \in DOMAIN z.attributes : ~Throws("string", z.attributes[k])
    BY <2>3, <2>5, <2>9
  <2>11. \A i \in DOMAIN z.elements : ~RecordThrows(RecordType[s], z.elements[i])
    BY <2>4, <2>7
  <2>12. ~ScopeThrows(s, z)
    BY <2>10, <2>11 DEF ScopeThrows
  <2> QED
    BY <2>8, <2>12 DEF d, z
<1>5. /\ DOMAIN Fields(Meta, m.meta) = DOMAIN Meta
      /\ Fields(Meta, m.meta)["format_version"] = <<"int", "1">>
      /\ ~RecordThrows(Meta, Fields(Meta, m.meta)) /\ ~RecordThrows(Meta, YamlValues(Fields(Meta, m.meta)))
  <2>1. \A f \in DOMAIN Meta : /\ Meta[f].kind \in {"string", "bool", "int"}
                               /\ Meta[f].kind # "bool"
                               /\ Meta[f].kind = "int" => f = "format_version"
    BY MetaFields
  <2>2. \A f \in DOMAIN Meta :
          /\ Meta[f].kind = "bool" => m.meta[f] \in {"true", "false"}
          /\ Meta[f].kind = "int" =>
               m.meta[f] \in DOMAIN Decimal /\ Decimal[m.meta[f]] = m.meta[f] /\ m.meta[f] \notin Wide
    <3>1. "1" \in DOMAIN Decimal /\ Decimal["1"] = "1" /\ "1" \notin Wide
      BY TextAssumption
    <3>2. m.meta["format_version"] = "1"
      OBVIOUS
    <3> QED
      BY <2>1, <3>1, <3>2
  <2>3. ~RecordThrows(Meta, Fields(Meta, m.meta)) /\ ~RecordThrows(Meta, YamlValues(Fields(Meta, m.meta)))
    BY <2>1, <2>2, FieldsSafe
  <2> QED
    BY <2>3, MetaFields DEF Fields
<1>6. /\ Typed("1") = <<"int", "1">> /\ Convert("int", <<"int", "1">>) = "1" /\ "1" \notin Wide
      /\ YamlValue(<<"int", "1">>) = <<"int", "1">>
  <2>1. Typed("1") = <<"int", "1">> /\ "1" \notin Wide
    BY TextAssumption DEF Typed
  <2>2. Convert("int", <<"int", "1">>) = "1"
    BY DEF Convert
  <2>3. <<"int", "1">>[1] # "composite" /\ <<"int", "1">>[2] = "1"
    OBVIOUS
  <2>4. YamlValue(<<"int", "1">>) = <<"int", "1">>
    BY <2>1, <2>3 DEF YamlValue
  <2> QED
    BY <2>1, <2>2, <2>4
<1>7. CASE format = "yaml"
  <2>1. Read(file, format) = JsonToManifest(y)
    BY <1>1, <1>7 DEF Read, doc, Formats
  <2>2. y.meta = YamlValues(doc.meta) /\ DOMAIN y.scopes = DOMAIN doc.scopes
    BY DEF YamlDocument
  <2> HIDE DEF y
  <2>3. "format_version" \in DOMAIN y.meta /\ y.meta["format_version"] = <<"int", "1">>
    BY <1>1, <1>5, <1>6, <2>2, MetaFields DEF YamlValues
  <2>4. VersionIsInt(y)
    BY <1>6, <2>3 DEF VersionIsInt
  <2>5. JsonToManifest(y).status = "ok" /\ JsonToManifest(y).manifest.meta.format_version = "1"
        /\ DOMAIN JsonToManifest(y).manifest.scopes = DOMAIN y.scopes
    BY <1>1, <1>4, <1>5, <1>6, <2>2, <2>3, <2>4, ParsesWhole
  <2> QED
    BY <1>1, <2>1, <2>2, <2>5 DEF file
<1>8. CASE format # "yaml"
  <2>1. Read(file, format) = JsonToManifest(doc)
    BY <1>1, <1>8 DEF Read, doc, Formats
  <2>3. "format_version" \in DOMAIN doc.meta /\ doc.meta["format_version"] = <<"int", "1">>
    BY <1>1, <1>5, MetaFields
  <2>4. VersionIsInt(doc)
    BY <1>6, <2>3 DEF VersionIsInt
  <2>5. JsonToManifest(doc).status = "ok" /\ JsonToManifest(doc).manifest.meta.format_version = "1"
        /\ DOMAIN JsonToManifest(doc).manifest.scopes = DOMAIN doc.scopes
    BY <1>1, <1>4, <1>5, <1>6, <2>3, <2>4, ParsesWhole
  <2> QED
    BY <1>1, <2>1, <2>5 DEF file
<1> QED
  BY <1>7, <1>8

LEMMA SeenWritten ==
  ASSUME NEW s \in Scopes, NEW e,
         s \in {"packages", "repositories", "services"} => e \in [DOMAIN RecordType[s] -> Text]
  PROVE  Seen(s, Says(RecordType[s], Fields(RecordType[s], e))) = Seen(s, e)
<1> DEFINE type == RecordType[s]
           w == Fields(type, e)
           a == Says(type, w)
<1>1. a = [f \in DOMAIN type |-> e[f]]
  <2>1. w = [f \in DOMAIN type |-> <<type[f].kind, e[f]>>]
    BY DEF Fields
  <2> HIDE DEF w, type
  <2>2. DOMAIN w = DOMAIN type /\ \A f \in DOMAIN type : w[f][2] = e[f]
    BY <2>1
  <2>3. a = [f \in DOMAIN type |-> IF f \in DOMAIN w THEN w[f][2] ELSE type[f].default]
    BY DEF Says
  <2> QED
    BY <2>2, <2>3
<1> HIDE DEF a, w
<1>2. CASE s = "config_files"
  <2>1. {"name", "type", "package_name", "sha256", "target"} \subseteq DOMAIN type
    BY <1>2 DEF RecordType, FileFields
  <2>2. /\ a.name = e.name /\ a.type = e.type /\ a.package_name = e.package_name
        /\ a.sha256 = e.sha256 /\ a.target = e.target
    BY <1>1, <2>1
  <2>3. a.type = "file" => Seen(s, a) = Seen(s, e)
    BY <1>2, <2>2 DEF Seen, Observational
  <2>4. a.type = "link" => Seen(s, a) = Seen(s, e)
    BY <1>2, <2>2 DEF Seen, Observational
  <2>5. a.type \notin {"file", "link"} => Seen(s, a) = Seen(s, e)
    BY <1>2, <2>2 DEF Seen, Observational
  <2> QED
    BY <2>3, <2>4, <2>5 DEF a, w, type
<1>3. CASE s \in Observational
  <2>1. "name" \in DOMAIN type /\ s # "config_files"
    BY <1>3 DEF RecordType, FileFields, Observational
  <2>2. a.name = e.name
    BY <1>1, <2>1
  <2>3. Seen(s, a) = Seen(s, e)
    BY <1>3, <2>1, <2>2 DEF Seen
  <2> QED
    BY <2>3 DEF a, w, type
<1>4. CASE s \in {"packages", "repositories", "services"}
  <2>1. e = [f \in DOMAIN type |-> e[f]]
    BY <1>4
  <2>2. a = e
    BY <1>1, <2>1
  <2> QED
    BY <2>2 DEF a, w, type
<1>5. Scopes = {"packages", "repositories", "services", "config_files"} \cup Observational
  BY DEF Scopes, RecordType, Observational
<1> QED
  BY <1>2, <1>3, <1>4, <1>5

(* What is written of a manifest says what the comparisons look at in it.           *)
LEMMA WrittenAlike ==
  ASSUME NEW m, FormOfManifest(m), NEW fmt
  PROVE  Alike(Authored(SerializeManifest(m, fmt).doc), m)
<1> DEFINE doc == SerializeManifest(m, fmt).doc
           a == Authored(doc)
<1>1. /\ DOMAIN doc.scopes = DOMAIN m.scopes
      /\ \A s \in DOMAIN m.scopes : doc.scopes[s] =
           [array      |-> TRUE,
            attributes |-> [k \in DOMAIN m.scopes[s].attributes |-> <<"string", m.scopes[s].attributes[k]>>],
            elements   |-> [i \in DOMAIN m.scopes[s].elements |->
                              Fields(RecordType[s], m.scopes[s].elements[i])]]
  BY DEF SerializeManifest
<1> HIDE DEF doc
<1>2. /\ DOMAIN a = {"meta", "scopes"} /\ DOMAIN a.scopes = DOMAIN doc.scopes
      /\ \A s \in DOMAIN doc.scopes :
           a.scopes[s].elements = [i \in DOMAIN doc.scopes[s].elements |->
                                     Says(RecordType[s], doc.scopes[s].elements[i])]
  BY DEF Authored
<1> HIDE DEF a
<1>3. DOMAIN m = {"meta", "scopes"} /\ DOMAIN m.scopes \subseteq Scopes
  BY DEF FormOfManifest
<1>4. ASSUME NEW s \in DOMAIN m.scopes
      PROVE  /\ DOMAIN a.scopes[s].elements = DOMAIN m.scopes[s].elements
             /\ \A i \in DOMAIN m.scopes[s].elements :
                  Seen(s, a.scopes[s].elements[i]) = Seen(s, m.scopes[s].elements[i])
  <2> DEFINE n == m.scopes[s].elements
             d == doc.scopes[s]
             b == a.scopes[s].elements
             attributes == m.scopes[s].attributes
  <2>1. d = [array      |-> TRUE,
             attributes |-> [k \in DOMAIN attributes |-> <<"string", attributes[k]>>],
             elements   |-> [i \in DOMAIN n |-> Fields(RecordType[s], n[i])]]
    BY <1>1
  <2>2. b = [i \in DOMAIN d.elements |-> Says(RecordType[s], d.elements[i])]
    BY <1>1, <1>2
  <2>3. s \in {"packages", "repositories", "services"} => n \in Seq([DOMAIN RecordType[s] -> Text])
    BY DEF FormOfManifest
  <2> HIDE DEF n, d, b, attributes
  <2>4. DOMAIN d.elements = DOMAIN n /\ \A i \in DOMAIN n : d.elements[i] = Fields(RecordType[s], n[i])
    BY <2>1
  <2>5. DOMAIN b = DOMAIN n
        /\ \A i \in DOMAIN n : b[i] = Says(RecordType[s], Fields(RecordType[s], n[i]))
    BY <2>2, <2>4
  <2>6. ASSUME NEW i \in DOMAIN n PROVE Seen(s, b[i]) = Seen(s, n[i])
    <3>1. s \in {"packages", "repositories", "services"} => n[i] \in [DOMAIN RecordType[s] -> Text]
      BY <2>3
    <3> QED
      BY <1>3, <2>5, <3>1, SeenWritten
  <2> QED
    BY <2>5, <2>6 DEF n, b
<1>5. \A s \in DOMAIN m.scopes :
        {Seen(s, a.scopes[s].elements[i]) : i \in DOMAIN a.scopes[s].elements}
          = {Seen(s, m.scopes[s].elements[i]) : i \in DOMAIN m.scopes[s].elements}
  BY <1>4
<1>6. Alike(a, m)
  BY <1>1, <1>2, <1>3, <1>5 DEF Alike
<1> QED
  BY <1>6 DEF a, doc

(* Two descriptions of a host differ in what a full scan adds.                     *)
LEMMA DescribedSame ==
  ASSUME FormOfHost(host), NEW one, NEW other, NEW scope, NEW keep,
         DescribeActualState(one, scope, keep).status = "ok",
         DescribeActualState(other, "etc", keep).status = "ok"
  PROVE  LET m == DescribeActualState(one, scope, keep).manifest
             n == DescribeActualState(other, "etc", keep).manifest IN
         /\ DOMAIN m = {"meta", "scopes"} /\ DOMAIN n = {"meta", "scopes"}
         /\ Without(m, Observational).scopes = n.scopes
         /\ DOMAIN n.scopes \cap Observational = {}
         /\ m.meta.format_version = "1" /\ n.meta.format_version = "1"
<1> DEFINE files == Only(host.actual.scopes, {"config_files"})
           others == Only(host.actual.scopes, Scopes \ {"config_files"})
           thin == Thinned(files, keep \cup host.unreadable)
           scan == Thinned(host.findings, keep)
           found == IF scope = "full" THEN scan ELSE EmptyFunction
           all == Both(Both(others, found), thin)
           etc == Both(Both(others, EmptyFunction), thin)
           m == DescribeActualState(one, scope, keep).manifest
           n == DescribeActualState(other, "etc", keep).manifest
<1>1. m = [host.actual EXCEPT !.scopes = all] /\ n = [host.actual EXCEPT !.scopes = etc]
  <2>1. Failed("unreadable").status = "unreadable"
    BY DEF Failed
  <2>2. m = [host.actual EXCEPT !.scopes = all]
    BY <2>1 DEF DescribeActualState
  <2>3. n = [host.actual EXCEPT !.scopes = etc]
    BY <2>1 DEF DescribeActualState
  <2> QED
    BY <2>2, <2>3
<1>2. /\ DOMAIN host.actual = {"meta", "scopes"} /\ DOMAIN host.actual.scopes \cap Observational = {}
      /\ DOMAIN host.findings \subseteq Observational /\ host.actual.meta.format_version = "1"
  BY DEF FormOfHost, FormOfManifest
<1>3. DOMAIN others \cap Observational = {} /\ DOMAIN files \cap Observational = {}
  BY <1>2 DEF Only
<1>4. ASSUME NEW f, NEW dropped PROVE DOMAIN Thinned(f, dropped) \subseteq DOMAIN f
  BY DEF Thinned
<1>5. DOMAIN thin \cap Observational = {} /\ DOMAIN found \subseteq Observational
  BY <1>2, <1>3, <1>4 DEF EmptyFunction
<1> HIDE DEF m, n, others, files, thin, found
<1>6. /\ DOMAIN all = DOMAIN others \cup DOMAIN found \cup DOMAIN thin
      /\ \A s \in DOMAIN all : all[s] = IF s \in DOMAIN others THEN others[s]
                                        ELSE IF s \in DOMAIN found THEN found[s] ELSE thin[s]
  BY DEF Both
<1>7. /\ etc = [s \in DOMAIN others \cup DOMAIN thin |-> IF s \in DOMAIN others THEN others[s] ELSE thin[s]]
  <2>1. DOMAIN EmptyFunction = {}
    BY DEF EmptyFunction
  <2>2. Both(others, EmptyFunction) = [s \in DOMAIN others |-> others[s]]
    BY <2>1 DEF Both
  <2> QED
    BY <2>2 DEF Both
<1> HIDE DEF all, etc
<1>8. /\ DOMAIN m = {"meta", "scopes"} /\ m.scopes = all /\ m.meta = host.actual.meta
      /\ DOMAIN n = {"meta", "scopes"} /\ n.scopes = etc /\ n.meta = host.actual.meta
  BY <1>1, <1>2
<1>9. Without(m, Observational).scopes = [s \in DOMAIN all \ Observational |-> all[s]]
  BY <1>8 DEF Without
<1>10. DOMAIN all \ Observational = DOMAIN others \cup DOMAIN thin
  BY <1>3, <1>5, <1>6
<1>11. \A s \in DOMAIN others \cup DOMAIN thin :
         all[s] = IF s \in DOMAIN others THEN others[s] ELSE thin[s]
  BY <1>3, <1>5, <1>6
<1>12. Without(m, Observational).scopes = n.scopes
  BY <1>7, <1>8, <1>9, <1>10, <1>11
<1>13. DOMAIN n.scopes \cap Observational = {}
  BY <1>3, <1>5, <1>7, <1>8
<1> QED
  BY <1>2, <1>8, <1>12, <1>13 DEF m, n

LEMMA CleanDrift ==
  ASSUME NEW c, NEW keep,
         OneOfEach(c.packages), OneOfEach(c.services), OneOfEach(c.config_files),
         c.changed_managed_files = Absent, c.unmanaged_files = Absent
  PROVE  DriftEmpty(ComputeDrift(c, c, keep))
<1>1. ASSUME NEW scope, OneOfEach(scope), NEW e \in Elements(scope)
      PROVE  e.name \in NamesOf(Elements(scope)) /\ Named(Elements(scope), e.name) = e
  BY <1>1, NamedOnly DEF NamesOf, OneOfEach
<1>2. FilesModified(c, c) = {}
  BY <1>1 DEF FilesModified, FileDiffers
<1>3. FilesExtra(c, c, keep) = {}
  BY <1>1 DEF FilesExtra
<1>4. UnitsDivergent(c, c) = {}
  BY <1>1 DEF UnitsDivergent
<1>5. PackagesDivergent(c, c) = {}
  BY <1>1 DEF PackagesDivergent, PkgMatches
<1>6. Integrity(Absent, keep) = {}
  BY DEF Integrity, Elements, NamesOf
<1> QED
  BY <1>2, <1>3, <1>4, <1>5, <1>6, NoDrift

LEMMA SeenOnce ==
  ASSUME NEW m, FormOfManifest(m), NEW fmt, NamesOnce(SerializeManifest(m, fmt)),
         NEW s \in {"packages", "services", "config_files"}
  PROVE  OneOfEach(Compared(m)[s])
<1> DEFINE doc == SerializeManifest(m, fmt).doc
           c == Compared(m)[s]
<1>1. /\ DOMAIN doc.scopes = DOMAIN m.scopes
      /\ \A t \in DOMAIN m.scopes : doc.scopes[t] =
           [array      |-> TRUE,
            attributes |-> [k \in DOMAIN m.scopes[t].attributes |-> <<"string", m.scopes[t].attributes[k]>>],
            elements   |-> [i \in DOMAIN m.scopes[t].elements |->
                              Fields(RecordType[t], m.scopes[t].elements[i])]]
  BY DEF SerializeManifest
<1>2. s \in Scopes /\ "name" \in DOMAIN RecordType[s]
  BY DEF Scopes, RecordType, FileFields
<1>3. c = IF s \in DOMAIN m.scopes
            THEN {Seen(s, m.scopes[s].elements[i]) : i \in DOMAIN m.scopes[s].elements}
          ELSE Absent
  BY <1>2 DEF Compared
<1>4. CASE s \notin DOMAIN m.scopes
  BY <1>3, <1>4 DEF OneOfEach, Elements
<1>5. CASE s \in DOMAIN m.scopes
  <2> DEFINE n == m.scopes[s].elements
             d == doc.scopes[s]
             attributes == m.scopes[s].attributes
  <2>1. d = [array      |-> TRUE,
             attributes |-> [k \in DOMAIN attributes |-> <<"string", attributes[k]>>],
             elements   |-> [i \in DOMAIN n |-> Fields(RecordType[s], n[i])]]
    BY <1>1, <1>5
  <2>2. \A i, j \in DOMAIN d.elements : d.elements[i].name = d.elements[j].name => i = j
    BY <1>1, <1>5 DEF NamesOnce
  <2> HIDE DEF n, d, attributes
  <2>3. DOMAIN d.elements = DOMAIN n /\ \A i \in DOMAIN n : d.elements[i] = Fields(RecordType[s], n[i])
    BY <2>1
  <2>4. \A e : Fields(RecordType[s], e).name = <<RecordType[s].name.kind, e.name>>
    BY <1>2 DEF Fields
  <2>5. \A i, j \in DOMAIN n : n[i].name = n[j].name => i = j
    BY <2>2, <2>3, <2>4
  <2>6. \A e : Seen(s, e).name = e.name
    BY DEF Seen, Observational
  <2>7. \A x, y \in c : x.name = y.name => x = y
    <3> SUFFICES ASSUME NEW i \in DOMAIN n, NEW j \in DOMAIN n,
                        Seen(s, n[i]).name = Seen(s, n[j]).name
                 PROVE  i = j
      BY <1>3, <1>5 DEF n
    <3> QED
      BY <2>5, <2>6
  <2> QED
    BY <2>7 DEF OneOfEach, Elements
<1> QED
  BY <1>4, <1>5

-----------------------------------------------------------------------------
(* The files that describe the host *)

Of(cfg) == DescribeActualState(cfg.on_unreadable, cfg.scope, LoadKeepList(cfg))

Describes(f) ==
  /\ f.path \in DOMAIN Extension /\ FormatOf(f.cfg, f.path) \in Formats
  /\ Of(f.cfg).status = "ok"
  /\ disk[f.path] = SerializeManifest(Of(f.cfg).manifest, FormatOf(f.cfg, f.path))

GInv == FInv /\ \A f \in fresh : Describes(f)

LEMMA DescribesOn ==
  ASSUME NEW f, Describes(f), host' = host, disk'[f.path] = disk[f.path]
  PROVE  Describes(f)'
BY DEF Describes, Of, DescribeActualState, LoadKeepList

LEMMA WriteDescribes ==
  ASSUME GInv, NEW p \in Procs, WriteOut(p), NEW f \in fresh' PROVE Describes(f)'
<1> DEFINE r == run[p]
           path == r.cfg.out
           file == Document(r)
           f0 == [path |-> path, cfg |-> r.cfg]
<1>1. r.pc = "write" /\ RunOK(r) /\ Follows(p) /\ path \in DOMAIN Extension
  BY DocumentForm DEF WriteOut, GInv, FInv, TInv
<1>2. /\ \/ f.path # path /\ f \in fresh /\ \E any : disk' = [disk EXCEPT ![path] = any]
         \/ f = f0 /\ ~r.disturbed /\ disk' = [disk EXCEPT ![path] = file]
      /\ host' = host
  <2>1. PICK any \in {file, Garbled} :
          /\ PutOut(p, any, Exited(r, 0))
          /\ fresh' = IF r.disturbed \/ any = Garbled THEN {g \in fresh : g.path # path}
                      ELSE {g \in fresh : g.path # path} \cup {f0}
    BY DEF WriteOut
  <2>2. disk' = [disk EXCEPT ![path] = any] /\ host' = host
    BY <2>1 DEF PutOut
  <2> HIDE DEF f0, file
  <2> QED
    BY <2>1, <2>2
<1>3. CASE f.path # path /\ f \in fresh /\ \E any : disk' = [disk EXCEPT ![path] = any]
  <2>1. Describes(f)
    BY <1>3 DEF GInv
  <2>2. disk'[f.path] = disk[f.path]
    BY <1>3, <2>1 DEF Describes, GInv, FInv, TInv
  <2> QED
    BY <1>2, <2>1, <2>2, DescribesOn
<1>4. CASE f = f0 /\ ~r.disturbed /\ disk' = [disk EXCEPT ![path] = file]
  <2>1. disk'[path] = file
    BY <1>1, <1>4 DEF GInv, FInv, TInv
  <2>2. r.verb = "describe" /\ HostSeen(p)
    BY <1>1, <1>4 DEF Follows
  <2>3. Live(p) = Of(r.cfg)
    BY <2>2 DEF Live, Of
  <2>4. Of(r.cfg).status = "ok" /\ r.actual = Of(r.cfg).manifest
    BY <2>2, <2>3 DEF HostSeen
  <2>6. FormatOf(r.cfg, path) \in Formats
    BY <1>1, FormatTyped
  <2>7. file = SerializeManifest(Of(r.cfg).manifest, FormatOf(r.cfg, path))
    BY <2>4 DEF Document
  <2> DEFINE cfg == r.cfg
  <2>8. f.path = path /\ f.cfg = cfg
    BY <1>4
  <2> QED
    <3>1. \A c : host' = host => DescribeActualState(c.on_unreadable, c.scope, LoadKeepList(c))'
                                  = DescribeActualState(c.on_unreadable, c.scope, LoadKeepList(c))
      BY DEF DescribeActualState, LoadKeepList
    <3>2. DescribeActualState(f.cfg.on_unreadable, f.cfg.scope, LoadKeepList(f.cfg))' = Of(f.cfg)
      BY <1>2, <3>1 DEF Of
    <3> HIDE DEF cfg, path, file
    <3>3. Of(f.cfg)' = Of(f.cfg)
      BY <3>2 DEF Of
    <3> QED
      BY <1>1, <2>1, <2>4, <2>6, <2>7, <2>8, <3>3 DEF Describes, cfg, path, file
<1> QED
  BY <1>2, <1>3, <1>4

LEMMA DescribesStep ==
  ASSUME GInv, [Next]_vars, NEW f \in fresh' PROVE Describes(f)'
<1>1. CASE fresh' = fresh /\ host' = host /\ disk' = disk
  BY <1>1, DescribesOn DEF GInv
<1>2. CASE Edit
  BY <1>2 DEF Edit
<1>3. ASSUME NEW p \in Procs, OpenOut(p) \/ WriteFails(p) PROVE Describes(f)'
  <2> DEFINE path == run[p].cfg.out
  <2>1. CASE fresh' = {g \in fresh : g.path # path} /\ host' = host
             /\ \E any : disk' = [disk EXCEPT ![path] = any]
    <3>1. Describes(f)
      BY <2>1 DEF GInv
    <3>2. disk'[f.path] = disk[f.path]
      BY <2>1, <3>1 DEF Describes, GInv, FInv, TInv
    <3> QED
      BY <2>1, <3>1, <3>2, DescribesOn
  <2>2. CASE OpenOut(p)
    BY <1>1, <2>1, <2>2 DEF OpenOut, Exit, Become
  <2>3. CASE WriteFails(p)
    BY <2>1, <2>3 DEF WriteFails, PutOut
  <2> QED
    BY <1>3, <2>2, <2>3
<1>4. ASSUME NEW p \in Procs, Invoke(p) \/ LoadManifest(p) \/ LoadRecord(p) \/ ReadDump(p) \/ ReadHost(p)
                               \/ Compare(p)
      PROVE  Describes(f)'
  <2>1. fresh' = fresh /\ host' = host /\ disk' = disk
    <3>1. \A r : Become(p, r) => UNCHANGED <<fresh, host, disk>>
      BY DEF Become
    <3>2. CASE Invoke(p)
      BY <3>2 DEF Invoke
    <3>3. CASE LoadManifest(p)
      BY <3>1, <3>3 DEF LoadManifest, Exit
    <3>4. CASE LoadRecord(p)
      BY <3>1, <3>4 DEF LoadRecord, Exit
    <3>5. CASE ReadDump(p)
      BY <3>1, <3>5 DEF ReadDump, Exit
    <3>6. CASE ReadHost(p)
      BY <3>1, <3>6 DEF ReadHost, Exit
    <3>7. CASE Compare(p)
      BY <3>1, <3>7 DEF Compare
    <3> QED
      BY <1>4, <3>2, <3>3, <3>4, <3>5, <3>6, <3>7
  <2> QED
    BY <1>1, <2>1
<1>5. CASE UNCHANGED vars
  BY <1>1, <1>5 DEF vars
<1> QED
  BY <1>2, <1>3, <1>4, <1>5, WriteDescribes DEF Next, Step

LEMMA DescribesInv == Spec => []GInv
<1>1. Init => \A f \in fresh : Describes(f)
  BY DEF Init
<1>2. GInv /\ [Next]_vars => \A f \in fresh' : Describes(f)'
  BY DescribesStep
<1> DEFINE J == \A f \in fresh : Describes(f)
<1>3. FInv /\ J /\ [Next]_vars => J'
  BY <1>2 DEF GInv
<1>4. Init => J
  BY <1>1
<1> HIDE DEF J
<1>5. Spec => []J
  BY <1>3, <1>4, FollowInv, PTL DEF Spec
<1>6. FInv /\ J => GInv
  BY DEF GInv, J
<1> QED
  BY <1>5, <1>6, FollowInv, PTL

(* What is read of a file that describes the host. *)
LEMMA ReadsFresh ==
  ASSUME GInv, NEW f, Describes(f), PlainBut(disk[f.path], {"mode"}), NEW format \in Formats,
         format = "yaml" \/ disk[f.path].syntax = format
  PROVE  LET r == Read(disk[f.path], format)
             m == Of(f.cfg).manifest IN
         /\ disk[f.path] # NoFile /\ r.status = "ok" /\ r.manifest.meta.format_version = "1"
         /\ DOMAIN r.manifest.scopes = DOMAIN m.scopes /\ Alike(r.manifest, m) /\ FormOfManifest(m)
<1> DEFINE m == Of(f.cfg).manifest
           file == disk[f.path]
           fmt == FormatOf(f.cfg, f.path)
<1>1. /\ FormOfHost(host) /\ FormOfFile(file) /\ file = SerializeManifest(m, fmt) /\ fmt \in Formats
      /\ Of(f.cfg).status = "ok"
  BY DEF GInv, FInv, TInv, Describes
<1>2. FormOfManifest(m)
  BY <1>1, DescribedForm DEF Of
<1>3. m.meta.format_version = "1"
  <2>1. Failed("unreadable").status = "unreadable"
    BY DEF Failed
  <2>2. DOMAIN host.actual = {"meta", "scopes"} /\ host.actual.meta.format_version = "1"
    BY <1>1 DEF FormOfHost, FormOfManifest
  <2>3. \E all : m = [host.actual EXCEPT !.scopes = all]
    BY <1>1, <2>1 DEF Of, DescribeActualState
  <2> HIDE DEF m
  <2> QED
    BY <2>2, <2>3
<1>4. file.syntax = fmt
  <2>1. \A n, g : SerializeManifest(n, g).syntax = g
    BY DEF SerializeManifest
  <2> HIDE DEF file, fmt, m
  <2> QED
    BY <1>1, <2>1
<1>5. format = "yaml" \/ fmt = format
  BY <1>4
<1> HIDE DEF fmt
<1>6. /\ Read(file, format).status = "ok" /\ Read(file, format).manifest.meta.format_version = "1"
      /\ DOMAIN Read(file, format).manifest.scopes = DOMAIN m.scopes
  <2> HIDE DEF m
  <2>1. PlainBut(SerializeManifest(m, fmt), {"mode"})
    BY <1>1
  <2> HIDE DEF file
  <2> QED
    BY <1>1, <1>2, <1>3, <1>5, <2>1, ReadsBack
<1>7. Alike(Read(file, format).manifest, Authored(file.doc))
  BY <1>1, <1>6, ReadAlike
<1>8. Alike(Authored(file.doc), m)
  BY <1>1, <1>2, WrittenAlike
<1>9. Alike(Read(file, format).manifest, m)
  BY <1>7, <1>8 DEF Alike
<1>10. file # NoFile
  BY DEF PlainBut
<1> QED
  BY <1>2, <1>6, <1>9, <1>10

(* What ends a run, and that it ends as the run that it was. *)
LEMMA LastStep ==
  ASSUME FInv, [Next]_vars, NEW p \in Procs, Ends(p)
  PROVE  /\ run'[p].verb = run[p].verb /\ run'[p].cfg = run[p].cfg /\ run'[p].disturbed = run[p].disturbed
         /\ \/ run[p].verb = "describe"
            \/ (LoadManifest(p) \/ LoadRecord(p) \/ ReadDump(p) \/ ReadHost(p)) /\ \E code : Exit(p, code)
            \/ Compare(p)
<1> DEFINE Kept == /\ run'[p].verb = run[p].verb /\ run'[p].cfg = run[p].cfg
                   /\ run'[p].disturbed = run[p].disturbed
<1>1. /\ run[p].pc \notin {"idle", "done"} /\ run'[p].pc = "done" /\ Alive(p)
      /\ DOMAIN run[p] = DOMAIN Idle /\ run = [q \in Procs |-> run[q]] /\ Follows(p)
  BY DEF Ends, Alive, FInv, TInv, RunOK
<1>2. ~UNCHANGED vars
  BY <1>1 DEF vars
<1>3. ~Edit
  <2> SUFFICES ASSUME Edit PROVE FALSE
    OBVIOUS
  <2>1. run'[p] = [run[p] EXCEPT !.disturbed = @ \/ Alive(p)]
    BY DEF Edit
  <2> QED
    BY <1>1, <2>1, IdleFields
<1>4. ASSUME NEW q \in Procs, NEW r, Become(q, r) PROVE q = p /\ run'[p] = r
  <2>1. q # p => run'[p] = run[p]
    BY <1>1, <1>4 DEF Become
  <2>2. q = p => run'[p] = r
    BY <1>1, <1>4 DEF Become
  <2> QED
    BY <1>1, <2>1, <2>2
<1>5. ASSUME NEW q \in Procs, NEW r, NEW path, run' = Disturbing(q, r, path), q # p PROVE FALSE
  <2>1. run'[p] = [run[p] EXCEPT !.disturbed = @ \/ (Alive(p) /\ path \in Reads(run[p]))]
    BY <1>5 DEF Disturbing
  <2> QED
    BY <1>1, <2>1, IdleFields
<1>6. ASSUME NEW r, NEW code, run'[p] = Exited(r, code), DOMAIN r = DOMAIN Idle,
             r.verb = run[p].verb, r.cfg = run[p].cfg, r.disturbed = run[p].disturbed
      PROVE  Kept
  <2>1. /\ Exited(r, code).verb = r.verb /\ Exited(r, code).cfg = r.cfg
        /\ Exited(r, code).disturbed = r.disturbed
    BY <1>6, IdleFields DEF Exited
  <2> QED
    BY <1>6, <2>1
<1>7. ASSUME NEW q \in Procs, NEW code, Exit(q, code) PROVE q = p /\ Kept
  <2>1. q = p /\ run'[p] = Exited(run[p], code)
    <3>1. Become(q, Exited(run[q], code))
      BY <1>7 DEF Exit
    <3> QED
      BY <1>4, <3>1
  <2> QED
    BY <1>1, <1>6, <2>1
<1>8. ASSUME NEW q \in Procs PROVE ~Invoke(q)
  <2> SUFFICES ASSUME Invoke(q) PROVE FALSE
    OBVIOUS
  <2>1. q # p
    BY <1>1 DEF Invoke
  <2>2. run'[p] = run[p]
    BY <1>1, <2>1 DEF Invoke
  <2> QED
    BY <1>1, <2>2
<1>9. ASSUME NEW q \in Procs, LoadManifest(q) PROVE q = p /\ Kept /\ \E code : Exit(p, code)
  <2> DEFINE path == IF run[q].cfg.manifest_path = Unset THEN DefaultManifest ELSE run[q].cfg.manifest_path
             lm == LoadDesiredManifest(disk[path], FormatOf(run[q].cfg, path))
             pc == IF run[q].verb = "diff" THEN "record" ELSE "actual"
             n == [run[q] EXCEPT !.pc = pc, !.text = disk[path], !.desired = lm.manifest,
                                 !.sha = CanonicalHash(lm.manifest)]
  <2>1. Become(q, n) \/ \E code : Exit(q, code)
    BY <1>9 DEF LoadManifest
  <2> HIDE DEF lm, path
  <2>2. q = p => n.pc # "done"
    <3>1. pc # "done"
      OBVIOUS
    <3> HIDE DEF pc
    <3> QED
      BY <1>1, <3>1, IdleFields
  <2> HIDE DEF n
  <2> QED
    BY <1>1, <1>4, <1>7, <2>1, <2>2
<1>10. ASSUME NEW q \in Procs, LoadRecord(q) PROVE q = p /\ Kept /\ \E code : Exit(p, code)
  <2> DEFINE loaded == [run[q] EXCEPT !.pc = "actual", !.record = Applied.manifest]
             named == [loaded EXCEPT !.desired = Applied.manifest]
  <2>1. Become(q, loaded) \/ Become(q, named) \/ \E code : Exit(q, code)
    BY <1>10 DEF LoadRecord, Applied
  <2>2. q = p => loaded.pc = "actual" /\ named.pc = "actual"
    BY <1>1, IdleFields
  <2> HIDE DEF loaded, named
  <2> QED
    BY <1>1, <1>4, <1>7, <2>1, <2>2
<1>11. ASSUME NEW q \in Procs, ReadDump(q) PROVE q = p /\ Kept /\ \E code : Exit(p, code)
  <2> DEFINE n == [run[q] EXCEPT !.pc = "compare", !.actual = Dump(q).manifest]
  <2>1. Become(q, n) \/ \E code : Exit(q, code)
    BY <1>11 DEF ReadDump, Dump
  <2>2. q = p => n.pc = "compare"
    BY <1>1, IdleFields
  <2> HIDE DEF n
  <2> QED
    BY <1>1, <1>4, <1>7, <2>1, <2>2
<1>12. ASSUME NEW q \in Procs, ReadHost(q)
       PROVE  q = p /\ Kept /\ (run[p].verb = "describe" \/ \E code : Exit(p, code))
  <2> DEFINE r == run[q]
             scope == IF r.verb \in {"describe", "verify"} THEN r.cfg.scope ELSE "etc"
             live == DescribeActualState(r.cfg.on_unreadable, scope, LoadKeepList(r.cfg))
             read == [r EXCEPT !.actual = live.manifest]
             going == [read EXCEPT !.pc = "compare"]
             described == Described(read)
  <2>1. \/ Become(q, going)
        \/ r.verb = "describe" /\ Become(q, described)
        \/ \E code : Exit(q, code)
    BY <1>12 DEF ReadHost
  <2> HIDE DEF live
  <2>2. q = p => /\ going.pc = "compare" /\ described.verb = run[p].verb
                 /\ described.cfg = run[p].cfg /\ described.disturbed = run[p].disturbed
    <3>1. q = p => /\ DOMAIN read = DOMAIN Idle /\ read.verb = run[p].verb
                   /\ read.cfg = run[p].cfg /\ read.disturbed = run[p].disturbed
      BY <1>1, IdleFields
    <3> HIDE DEF read
    <3> QED
      BY <3>1, IdleFields DEF Described, Exited
  <2> HIDE DEF going, described
  <2>3. CASE Become(q, going)
    BY <1>1, <1>4, <2>2, <2>3
  <2>4. CASE r.verb = "describe" /\ Become(q, described)
    <3>1. q = p /\ run'[p] = described
      BY <1>4, <2>4
    <3> QED
      BY <2>2, <2>4, <3>1
  <2>5. CASE \E code : Exit(q, code)
    BY <1>7, <2>5
  <2> QED
    BY <2>1, <2>3, <2>4, <2>5
<1>13. ASSUME NEW q \in Procs, OpenOut(q) PROVE q = p /\ Kept /\ run[p].verb = "describe"
  <2>1. CASE \E code : Exit(q, code)
    <3>1. q = p /\ Kept
      BY <1>7, <2>1
    <3> QED
      BY <1>1, <1>13, <3>1 DEF OpenOut, Follows
  <2>2. CASE run' = Disturbing(q, [run[q] EXCEPT !.pc = "write"], run[q].cfg.out)
    <3>1. q = p
      BY <1>5, <2>2
    <3>2. run'[p] = [run[p] EXCEPT !.pc = "write"]
      BY <2>2, <3>1 DEF Disturbing
    <3> QED
      BY <1>1, <3>2, IdleFields
  <2> QED
    BY <1>13, <2>1, <2>2 DEF OpenOut
<1>14. ASSUME NEW q \in Procs, WriteOut(q) \/ WriteFails(q) PROVE q = p /\ Kept /\ run[p].verb = "describe"
  <2>1. PICK file, code : PutOut(q, file, Exited(run[q], code))
    BY <1>14 DEF WriteOut, WriteFails
  <2>2. q = p
    BY <1>5, <2>1 DEF PutOut
  <2>3. run'[p] = Exited(run[p], code)
    BY <2>1, <2>2 DEF PutOut, Disturbing
  <2>4. run[p].pc = "write"
    BY <1>14, <2>2 DEF WriteOut, WriteFails
  <2> QED
    BY <1>1, <1>6, <2>2, <2>3, <2>4 DEF Follows
<1>15. ASSUME NEW q \in Procs, Compare(q) PROVE q = p /\ Kept
  <2> DEFINE r == run[q]
             drift == ComputeDrift(Compared(Considered(r)), Compared(r.desired), LoadKeepList(r.cfg))
             plan == IF r.verb = "diff" THEN ComputeIntentDiff(Compared(r.desired), Compared(r.record))
                     ELSE Unset
             report == [plan |-> plan, drift |-> drift]
             code == IF r.verb = "verify" /\ ~DriftEmpty(drift) THEN 1 ELSE 0
             n == [r EXCEPT !.report = report]
  <2>1. Become(q, Exited(n, code))
    BY <1>15 DEF Compare
  <2> HIDE DEF report, code
  <2>2. q = p /\ run'[p] = Exited(n, code)
    BY <1>4, <2>1
  <2>3. DOMAIN n = DOMAIN Idle /\ n.verb = run[p].verb /\ n.cfg = run[p].cfg
        /\ n.disturbed = run[p].disturbed
    BY <1>1, <2>2, IdleFields
  <2> HIDE DEF n
  <2> QED
    BY <1>6, <2>2, <2>3
<1> HIDE DEF Kept
<1>16. Kept /\ \/ run[p].verb = "describe"
               \/ (LoadManifest(p) \/ LoadRecord(p) \/ ReadDump(p) \/ ReadHost(p)) /\ \E code : Exit(p, code)
               \/ Compare(p)
  <2>1. PICK q \in Procs : Step(q) \/ WriteFails(q)
    BY <1>2, <1>3, <1>8 DEF Next
  <2>2. CASE LoadManifest(q) \/ LoadRecord(q) \/ ReadDump(q)
    BY <1>9, <1>10, <1>11, <2>2
  <2>3. CASE ReadHost(q)
    BY <1>12, <2>3
  <2>4. CASE OpenOut(q) \/ WriteOut(q) \/ WriteFails(q)
    BY <1>13, <1>14, <2>4
  <2>5. CASE Compare(q)
    BY <1>15, <2>5
  <2> QED
    BY <2>1, <2>2, <2>3, <2>4, <2>5 DEF Step
<1> QED
  BY <1>16 DEF Kept

LEMMA LoadsWhole ==
  ASSUME NEW file, file # NoFile, NEW format,
         Read(file, format).status = "ok", Read(file, format).manifest.meta.format_version = "1"
  PROVE  /\ LoadStateDump(file, format).status = "ok"
         /\ DOMAIN Read(file, format).manifest.scopes \cap Observational = {}
              => LoadDesiredManifest(file, format).status = "ok"
<1> DEFINE r == Read(file, format)
<1>1. DOMAIN r = {"status", "manifest"}
  BY DEF Read, JsonToManifest, Failed
<1> HIDE DEF r
<1>2. [r EXCEPT !.manifest = Without(@, Observational)].status = r.status
  BY <1>1
<1>3. LoadStateDump(file, format).status = "ok"
  BY DEF LoadStateDump, r
<1>4. DOMAIN r.manifest.scopes \cap Observational = {} => LoadDesiredManifest(file, format).status = "ok"
  BY <1>2 DEF LoadDesiredManifest, ValidDesired, r
<1> QED
  BY <1>3, <1>4 DEF r

(* The runs that revisit a host do not end before they compare. *)
LEMMA RevisitCompares ==
  ASSUME GInv, [Next]_vars, NEW p \in Procs, Ends(p), run'[p].verb \in {"diff", "verify"},
         run'[p].verb = "diff" => LoadAppliedRecord(disk[RecordPath]).status \in {"ok", "absent"},
         NEW path \in DOMAIN Extension, run'[p].cfg.manifest_path = path,
         LoadDesiredManifest(disk[path], FormatOf(run'[p].cfg, path)).status = "ok",
         \/ SeesLive(run'[p])
         \/ /\ run'[p].cfg.state_path # Unset
            /\ LoadStateDump(disk[run'[p].cfg.state_path],
                             FormatOf(run'[p].cfg, run'[p].cfg.state_path)).status = "ok"
  PROVE  Compare(p)
<1> DEFINE r == run[p]
<1>1. /\ r.verb = run'[p].verb /\ r.cfg = run'[p].cfg /\ r.verb # "describe"
      /\ (LoadManifest(p) \/ LoadRecord(p) \/ ReadDump(p) \/ ReadHost(p)) \/ Compare(p)
  BY LastStep DEF GInv
<1>2. /\ DOMAIN r = DOMAIN Idle /\ Follows(p) /\ run = [q \in Procs |-> run[q]] /\ run'[p].pc = "done"
      /\ r.cfg.manifest_path = path /\ path # Unset
  BY <1>1, PathAssumption DEF GInv, FInv, TInv, RunOK, Ends
<1>3. ASSUME NEW n, Become(p, n) PROVE run'[p] = n
  BY <1>2, <1>3 DEF Become
<1>4. ~LoadManifest(p)
  <2> SUFFICES ASSUME LoadManifest(p) PROVE FALSE
    OBVIOUS
  <2> DEFINE lm == LoadDesiredManifest(disk[path], FormatOf(r.cfg, path))
             pc == IF r.verb = "diff" THEN "record" ELSE "actual"
             n == [r EXCEPT !.pc = pc, !.text = disk[path], !.desired = lm.manifest,
                            !.sha = CanonicalHash(lm.manifest)]
  <2>1. lm.status = "ok"
    BY <1>1
  <2>2. Become(p, n)
    BY <1>2, <2>1 DEF LoadManifest
  <2>3. pc # "done"
    OBVIOUS
  <2> HIDE DEF lm, pc
  <2>4. n.pc # "done"
    BY <1>2, <2>3, IdleFields
  <2> QED
    BY <1>2, <1>3, <2>2, <2>4
<1>5. ~LoadRecord(p)
  <2> SUFFICES ASSUME LoadRecord(p) PROVE FALSE
    OBVIOUS
  <2> DEFINE loaded == [r EXCEPT !.pc = "actual", !.record = Applied.manifest]
  <2>1. r.pc = "record"
    BY DEF LoadRecord
  <2>2. r.verb = "diff"
    BY <1>1, <1>2, <2>1 DEF Follows
  <2>3. Applied.status \in {"ok", "absent"}
    BY <1>1, <2>2 DEF Applied
  <2>4. Become(p, loaded)
    BY <2>2, <2>3 DEF LoadRecord, Applied
  <2>5. loaded.pc = "actual"
    BY <1>2, IdleFields
  <2> HIDE DEF loaded
  <2> QED
    BY <1>2, <1>3, <2>4, <2>5
<1>6. ~ReadDump(p)
  <2> SUFFICES ASSUME ReadDump(p) PROVE FALSE
    OBVIOUS
  <2> DEFINE n == [r EXCEPT !.pc = "compare", !.actual = Dump(p).manifest]
  <2>1. r.cfg.state_path # Unset
    BY DEF ReadDump
  <2>2. Dump(p).status = "ok"
    BY <1>1, <2>1 DEF SeesLive, Dump
  <2>3. Become(p, n)
    BY <2>2 DEF ReadDump, Dump
  <2>4. n.pc = "compare"
    BY <1>2, IdleFields
  <2> HIDE DEF n
  <2> QED
    BY <1>2, <1>3, <2>3, <2>4
<1>7. ~ReadHost(p)
  <2> SUFFICES ASSUME ReadHost(p) PROVE FALSE
    OBVIOUS
  <2> DEFINE scope == IF r.verb \in {"describe", "verify"} THEN r.cfg.scope ELSE "etc"
             live == DescribeActualState(r.cfg.on_unreadable, scope, LoadKeepList(r.cfg))
             read == [r EXCEPT !.actual = live.manifest]
             going == [read EXCEPT !.pc = "compare"]
  <2>1. r.cfg.state_path = Unset
    BY <1>1 DEF ReadHost
  <2>2. host.unreadable = {} \/ r.cfg.on_unreadable = "warn"
    BY <1>1, <2>1 DEF SeesLive
  <2>3. live.status = "ok"
    BY <2>2 DEF DescribeActualState
  <2>4. Become(p, going)
    BY <1>1, <2>3 DEF ReadHost
  <2> HIDE DEF live
  <2>5. going.pc = "compare"
    BY <1>2, IdleFields
  <2> HIDE DEF going
  <2> QED
    BY <1>2, <1>3, <2>4, <2>5
<1> QED
  BY <1>1, <1>4, <1>5, <1>6, <1>7

LEMMA RevisitClean ==
  ASSUME GInv, [Next]_vars, NEW p \in Procs, Ends(p), run'[p].verb \in {"diff", "verify"},
         ~run'[p].disturbed,
         run'[p].verb = "diff" => LoadAppliedRecord(disk[RecordPath]).status \in {"ok", "absent"},
         NEW f \in fresh, run'[p].cfg.manifest_path = f.path, Legible(run'[p], f),
         f.cfg.scope = "etc", f.cfg.keep_list = run'[p].cfg.keep_list,
         PlainBut(disk[f.path], {"mode"}), NamesOnce(disk[f.path]),
         SeesLive(run'[p]) \/ \E g \in fresh : SeesDump(run'[p], g) /\ PlainBut(disk[g.path], {"mode"})
  PROVE  Clean(run'[p])
<1> DEFINE r == run[p]
           m == Of(f.cfg).manifest
           format == FormatOf(r.cfg, f.path)
           keep == LoadKeepList(r.cfg)
<1>1. /\ r.verb = run'[p].verb /\ r.cfg = run'[p].cfg /\ ~r.disturbed /\ r.verb \in {"diff", "verify"}
  BY LastStep DEF GInv
<1>2. /\ RunOK(r) /\ Follows(p) /\ DOMAIN r = DOMAIN Idle /\ Describes(f) /\ FormOfHost(host)
      /\ r.cfg.manifest_path = f.path /\ f.path # Unset /\ f.path \in DOMAIN Extension
  BY <1>1, PathAssumption DEF GInv, FInv, TInv, RunOK, Describes
<1>3. format \in Formats /\ (format = "yaml" \/ disk[f.path].syntax = format)
  BY <1>1, <1>2, FormatTyped DEF Legible
<1>4. LoadKeepList(f.cfg) = keep
  BY <1>1 DEF LoadKeepList
<1>5. /\ Of(f.cfg) = DescribeActualState(f.cfg.on_unreadable, "etc", keep)
      /\ DescribeActualState(f.cfg.on_unreadable, "etc", keep).status = "ok"
  BY <1>2, <1>4 DEF Of, Describes
<1>6. /\ DOMAIN m = {"meta", "scopes"} /\ DOMAIN m.scopes \cap Observational = {}
      /\ Without(m, Observational).scopes = m.scopes
  BY <1>2, <1>5, DescribedSame
<1>7. /\ disk[f.path] # NoFile /\ Read(disk[f.path], format).status = "ok"
      /\ Read(disk[f.path], format).manifest.meta.format_version = "1"
      /\ DOMAIN Read(disk[f.path], format).manifest.scopes = DOMAIN m.scopes
      /\ Alike(Read(disk[f.path], format).manifest, m) /\ FormOfManifest(m)
  BY <1>2, <1>3, ReadsFresh
<1>8. LoadDesiredManifest(disk[f.path], format).status = "ok"
  BY <1>6, <1>7, LoadsWhole
(* The dump, when there is one. *)
<1>9. ASSUME NEW g \in fresh, SeesDump(run'[p], g), PlainBut(disk[g.path], {"mode"})
      PROVE  LET dump == LoadStateDump(disk[g.path], FormatOf(r.cfg, g.path)) IN
             /\ r.cfg.state_path = g.path /\ g.path # Unset /\ dump.status = "ok"
             /\ Alike(dump.manifest, Of(g.cfg).manifest)
             /\ Without(Of(g.cfg).manifest, Observational).scopes = m.scopes
             /\ g.cfg.scope # "etc" => r.verb = "verify" /\ r.cfg.scope = "etc"
             /\ g.cfg.scope = "etc" => Of(g.cfg).manifest.scopes = m.scopes
  <2>1. /\ r.cfg.state_path = g.path /\ Describes(g) /\ g.path # Unset /\ g.path \in DOMAIN Extension
        /\ g.cfg.keep_list = r.cfg.keep_list
        /\ g.cfg.scope # "etc" => r.verb = "verify" /\ r.cfg.scope = "etc"
    BY <1>1, <1>9, PathAssumption DEF SeesDump, GInv, Describes
  <2>2. FormatOf(r.cfg, g.path) \in Formats
        /\ (FormatOf(r.cfg, g.path) = "yaml" \/ disk[g.path].syntax = FormatOf(r.cfg, g.path))
    BY <1>1, <1>2, <1>9, <2>1, FormatTyped DEF SeesDump, Legible
  <2>3. LoadKeepList(g.cfg) = keep
    BY <2>1 DEF LoadKeepList
  <2>4. /\ Of(g.cfg) = DescribeActualState(g.cfg.on_unreadable, g.cfg.scope, keep)
        /\ DescribeActualState(g.cfg.on_unreadable, g.cfg.scope, keep).status = "ok"
    BY <2>1, <2>3 DEF Of, Describes
  <2>5. Without(Of(g.cfg).manifest, Observational).scopes = m.scopes
    BY <1>2, <1>5, <2>4, DescribedSame
  <2>6. g.cfg.scope = "etc" => Without(Of(g.cfg).manifest, Observational).scopes = Of(g.cfg).manifest.scopes
    BY <1>2, <2>4, DescribedSame
  <2>7. /\ disk[g.path] # NoFile /\ Read(disk[g.path], FormatOf(r.cfg, g.path)).status = "ok"
        /\ Read(disk[g.path], FormatOf(r.cfg, g.path)).manifest.meta.format_version = "1"
        /\ Alike(Read(disk[g.path], FormatOf(r.cfg, g.path)).manifest, Of(g.cfg).manifest)
    BY <1>9, <2>1, <2>2, ReadsFresh
  <2>8. LoadStateDump(disk[g.path], FormatOf(r.cfg, g.path)).status = "ok"
    BY <2>7, LoadsWhole
  <2>9. LoadStateDump(disk[g.path], FormatOf(r.cfg, g.path)).manifest
          = Read(disk[g.path], FormatOf(r.cfg, g.path)).manifest
    BY <2>8, ReadStatus
  <2> QED
    BY <2>1, <2>5, <2>6, <2>7, <2>8, <2>9
<1>10. Compare(p)
  <2>1. SeesLive(run'[p])
        \/ (run'[p].cfg.state_path # Unset
            /\ LoadStateDump(disk[run'[p].cfg.state_path],
                             FormatOf(run'[p].cfg, run'[p].cfg.state_path)).status = "ok")
    BY <1>1, <1>9
  <2>2. LoadDesiredManifest(disk[f.path], FormatOf(run'[p].cfg, f.path)).status = "ok"
    BY <1>1, <1>8
  <2> QED
    BY <1>2, <2>1, <2>2, RevisitCompares
(* What is compared. *)
<1>11. \A a, b : a.scopes = b.scopes => Compared(a) = Compared(b)
  BY DEF Compared
<1>12. Compared(r.desired) = Compared(m)
  <2>1. r.pc = "compare" /\ Alive(p)
    BY <1>10 DEF Compare, Alive
  <2>2. r.text # NoFile
    BY <1>1, <1>2, <2>1 DEF Follows, Recorded
  <2>3. ManifestPath(p) = f.path
    BY <1>2 DEF ManifestPath
  <2>4. r.text = disk[f.path] /\ r.desired = LoadDesiredManifest(disk[f.path], format).manifest
    BY <1>1, <1>2, <2>1, <2>2, <2>3 DEF Follows, Loaded
  <2>5. r.desired = Without(Read(disk[f.path], format).manifest, Observational)
    BY <1>8, <2>4, ReadStatus
  <2>6. Compared(r.desired) = Compared(Without(m, Observational))
    BY <1>7, <2>5, AlikeWithout, AlikeCompared
  <2> QED
    BY <1>6, <1>11, <2>6
<1>13. Compared(Considered(r)) = Compared(m)
  <2>1. r.pc = "compare" /\ Watches(p)
    BY <1>2, <1>10 DEF Compare, Follows
  <2>2. CASE SeesLive(run'[p])
    <3>1. r.cfg.state_path = Unset /\ (r.verb = "verify" => r.cfg.scope = "etc")
      BY <1>1, <2>2 DEF SeesLive
    <3>2. Live(p).status = "ok" /\ r.actual = Live(p).manifest
      BY <1>1, <2>1, <3>1 DEF Watches, HostSeen
    <3>3. Live(p) = DescribeActualState(r.cfg.on_unreadable, "etc", keep)
      BY <1>1, <3>1 DEF Live
    <3>4. DescribeActualState(r.cfg.on_unreadable, "etc", keep).status = "ok"
      BY <3>2, <3>3
    <3>5. Without(r.actual, Observational).scopes = m.scopes
      BY <1>2, <1>5, <3>2, <3>3, <3>4, DescribedSame
    <3>6. Without(r.actual, Observational).scopes = r.actual.scopes
      BY <1>2, <3>2, <3>3, <3>4, DescribedSame
    <3>7. Considered(r).scopes = m.scopes
      BY <3>5, <3>6 DEF Considered
    <3> QED
      BY <1>11, <3>7
  <2>3. CASE \E g \in fresh : SeesDump(run'[p], g) /\ PlainBut(disk[g.path], {"mode"})
    <3>1. PICK g \in fresh : SeesDump(run'[p], g) /\ PlainBut(disk[g.path], {"mode"})
      BY <2>3
    <3> DEFINE n == Of(g.cfg).manifest
    <3>2. /\ r.cfg.state_path = g.path /\ g.path # Unset
          /\ Alike(LoadStateDump(disk[g.path], FormatOf(r.cfg, g.path)).manifest, n)
          /\ Without(n, Observational).scopes = m.scopes
          /\ g.cfg.scope # "etc" => r.verb = "verify" /\ r.cfg.scope = "etc"
          /\ g.cfg.scope = "etc" => n.scopes = m.scopes
      BY <1>9, <3>1
    <3>3. r.actual = LoadStateDump(disk[g.path], FormatOf(r.cfg, g.path)).manifest
      BY <1>1, <2>1, <3>2 DEF Watches, Dump
    <3> HIDE DEF n
    <3>4. Alike(r.actual, n)
      BY <3>2, <3>3
    <3>5. Compared(Without(r.actual, Observational)) = Compared(m)
      BY <1>11, <3>2, <3>4, AlikeWithout, AlikeCompared
    <3>6. g.cfg.scope = "etc" => Compared(r.actual) = Compared(m)
      BY <1>11, <3>2, <3>4, AlikeCompared
    <3> QED
      BY <3>2, <3>5, <3>6 DEF Considered
  <2> QED
    BY <2>2, <2>3
<1>14. DriftEmpty(ComputeDrift(Compared(m), Compared(m), keep))
  <2> DEFINE c == Compared(m)
             fmt == FormatOf(f.cfg, f.path)
  <2>1. NamesOnce(SerializeManifest(m, fmt))
    BY <1>2 DEF Describes
  <2> HIDE DEF m, fmt
  <2>2. \A s \in {"packages", "services", "config_files"} : OneOfEach(c[s])
    BY <1>7, <2>1, SeenOnce
  <2>3. Observational \subseteq Scopes
    BY DEF Scopes, Observational, RecordType
  <2>4. \A s \in Observational : c[s] = Absent
    BY <1>6, <2>3 DEF Compared
  <2>5. c["changed_managed_files"] = Absent /\ c["unmanaged_files"] = Absent
    BY <2>4 DEF Observational
  <2> HIDE DEF c
  <2> QED
    BY <2>2, <2>5, CleanDrift DEF c
<1> HIDE DEF m, format
<1>15. DriftEmpty(ComputeDrift(Compared(Considered(r)), Compared(r.desired), keep))
  BY <1>12, <1>13, <1>14
<1> DEFINE drift == ComputeDrift(Compared(Considered(r)), Compared(r.desired), LoadKeepList(r.cfg))
           plan == IF r.verb = "diff" THEN ComputeIntentDiff(Compared(r.desired), Compared(r.record))
                   ELSE Unset
           report == [plan |-> plan, drift |-> drift]
           n == [r EXCEPT !.report = report]
<1>16. run'[p] = Exited(n, 0)
  <2>1. Become(p, Exited(n, IF r.verb = "verify" /\ ~DriftEmpty(drift) THEN 1 ELSE 0))
    BY <1>10 DEF Compare
  <2>2. DriftEmpty(drift)
    BY <1>15
  <2> HIDE DEF n, drift
  <2>3. Become(p, Exited(n, 0))
    BY <2>1, <2>2
  <2> QED
    BY <2>3 DEF Become, GInv, FInv, TInv
<1>17. report.drift = drift /\ DriftEmpty(drift)
  BY <1>15
<1> HIDE DEF report, drift
<1>18. Exited(n, 0).exit = 0 /\ Exited(n, 0).report = report
  BY <1>2, IdleFields DEF Exited
<1> HIDE DEF n
<1> QED
  BY <1>16, <1>17, <1>18 DEF Clean

(* A host is what it was described to be, for every host whose names are single and      *)
(* whose texts are plain, in JSON and in YAML, live and from a dump.                  *)
THEOREM DescribedIsCleanAlways == Spec => DescribedIsClean
<1>1. ASSUME GInv, [Next]_vars, NEW p \in Procs,
             Revisits(p, LAMBDA f : PlainBut(f, {"mode"}) /\ NamesOnce(f))
      PROVE  Clean(run'[p])
  BY <1>1, RevisitClean DEF Revisits
<1>2. GInv /\ [Next]_vars =>
        [\A p \in Procs : Revisits(p, LAMBDA f : PlainBut(f, {"mode"}) /\ NamesOnce(f)) => Clean(run'[p])]_vars
  BY <1>1
<1> QED
  BY <1>2, DescribesInv, PTL DEF Spec, DescribedIsClean
=============================================================================
