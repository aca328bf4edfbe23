---------------------------- MODULE ApplyPlanProofs ----------------------------
(***************************************************************************)
(* The values in the variables of Apply stay in their universes, and what is  *)
(* left of a plan is work that its manifest and its record call for.          *)
(* The lemmas before that are about the operators on root trees: what zypper, *)
(* a file write, an enablement and the record change of a tree and leave, and *)
(* what a description of a tree says of it.                                   *)
(***************************************************************************)
EXTENDS ApplyProofs


LEMMA ElementsTyped ==
  ASSUME NEW S, NEW scope \in ScopeOf(S) PROVE Elements(scope) \in SUBSET S
BY DEF ScopeOf, Elements

(* A scope that is built from elements has these elements. *)
LEMMA ScopeElements ==
  ASSUME NEW S, Absent \notin SUBSET S, NEW T \in SUBSET S
  PROVE  Scope(T) \in ScopeOf(S) /\ Elements(Scope(T)) = T
BY DEF ScopeOf, Elements, Scope

LEMMA EmptyManifestTyped ==
  /\ EmptyManifest \in Manifest
  /\ \A scope \in {"packages", "repositories", "services", "config_files"} :
       Elements(EmptyManifest[scope]) = {}
BY DEF EmptyManifest, Manifest, ScopeOf, Elements

LEMMA ManifestElements ==
  ASSUME NEW m \in Manifest
  PROVE  /\ Elements(m.packages) \in SUBSET PackageEntry
         /\ Elements(m.repositories) \in SUBSET RepoRecord
         /\ Elements(m.services) \in SUBSET UnitRecord
         /\ Elements(m.config_files) \in SUBSET EtcFile
BY ElementsTyped DEF Manifest

-----------------------------------------------------------------------------
(* The external commands *)

LEMMA BringTree ==
  ASSUME NEW t \in RootTrees, NEW names \in SUBSET DOMAIN Ships, NEW v \in RepoVersions
  PROVE  LET b == Bring(t, names, v) IN
         /\ b \in RootTrees
         /\ b.rec = t.rec /\ b.repos = t.repos /\ b.units = t.units
         /\ b.pkgs = {x \in t.pkgs : x.name \notin names}
                       \cup {[name |-> m, version |-> v] : m \in names}
         /\ NamesOf(b.pkgs) = NamesOf(t.pkgs) \cup names
<1> DEFINE P == {x \in t.pkgs : x.name \notin names} \cup {[name |-> m, version |-> v] : m \in names}
           brings(f) == \E m \in names : f \in DOMAIN Ships[m]
           one(f) == CHOOSE m \in names : f \in DOMAIN Ships[m]
           F == [f \in Paths |-> IF t.files[f] = NoFile /\ brings(f)
                                   THEN Ships[one(f)][f] ELSE t.files[f]]
<1>1. P \in SUBSET PackageRecord
  BY DEF RootTrees, PackageRecord, Versions
<1>2. \A f \in Paths : brings(f) => one(f) \in DOMAIN Ships /\ f \in DOMAIN Ships[one(f)]
  OBVIOUS
<1>3. \A m \in DOMAIN Ships : \A f \in DOMAIN Ships[m] : Ships[m][f] \in Node \cup {NoFile}
  BY UniverseAssumption DEF Given
<1>4. F \in [Paths -> Node \cup {NoFile}]
  <2>1. \A f \in Paths : t.files[f] \in Node \cup {NoFile}
    BY DEF RootTrees
  <2> HIDE DEF brings, one
  <2> QED
    BY <1>2, <1>3, <2>1
<1>5. Bring(t, names, v) = [t EXCEPT !.pkgs = P, !.files = F]
  BY Zenon DEF Bring
<1> HIDE DEF P, F
<1>6. /\ Bring(t, names, v) \in RootTrees /\ Bring(t, names, v).pkgs = P
      /\ Bring(t, names, v).rec = t.rec /\ Bring(t, names, v).repos = t.repos
      /\ Bring(t, names, v).units = t.units
  BY <1>1, <1>4, <1>5 DEF RootTrees
<1>7. NamesOf(P) = NamesOf(t.pkgs) \cup names
  <2>1. \A m \in names : m \in NamesOf(P)
    <3>1. \A m \in names : [name |-> m, version |-> v] \in P /\ [name |-> m, version |-> v].name = m
      BY DEF P
    <3> QED
      BY <3>1 DEF NamesOf
  <2>2. \A x \in t.pkgs : x.name \notin names => x \in P
    BY DEF P
  <2>3. \A x \in P : x \in t.pkgs \/ x.name \in names
    BY DEF P
  <2> QED
    BY <2>1, <2>2, <2>3 DEF NamesOf
<1> QED
  BY <1>6, <1>7 DEF P

LEMMA DropTree ==
  ASSUME NEW t \in RootTrees, NEW names
  PROVE  LET d == Drop(t, names) IN
         /\ d \in RootTrees
         /\ d.rec = t.rec /\ d.repos = t.repos /\ d.units = t.units
         /\ d.pkgs = {x \in t.pkgs : x.name \notin names}
<1> DEFINE P == {x \in t.pkgs : x.name \notin names}
           F == [f \in Paths |-> IF \E m \in names : f \in DOMAIN Ships[m] THEN NoFile
                                 ELSE t.files[f]]
<1>1. P \in SUBSET PackageRecord /\ F \in [Paths -> Node \cup {NoFile}]
  BY DEF RootTrees
<1>2. Drop(t, names) = [t EXCEPT !.pkgs = P, !.files = F]
  BY Zenon DEF Drop
<1> HIDE DEF P, F
<1>3. /\ Drop(t, names) \in RootTrees /\ Drop(t, names).pkgs = P
      /\ Drop(t, names).rec = t.rec /\ Drop(t, names).repos = t.repos
      /\ Drop(t, names).units = t.units
  BY <1>1, <1>2 DEF RootTrees
<1> QED
  BY <1>3 DEF P

(* An installed package is there afterwards, with all that was. *)
LEMMA InstallTree ==
  ASSUME NEW t \in RootTrees, NEW n \in DOMAIN Ships, NEW v \in RepoVersions
  PROVE  LET i == Install(t, n, v) IN
         /\ i \in RootTrees
         /\ i.rec = t.rec /\ i.repos = t.repos /\ i.units = t.units
         /\ NamesOf(t.pkgs) \cup {n} \subseteq NamesOf(i.pkgs)
<1> DEFINE names == {n} \cup (Requires[n] \ NamesOf(t.pkgs))
<1>1. names \in SUBSET DOMAIN Ships
  BY RequiresAssumption
<1>2. Install(t, n, v) = Bring(t, names, v) /\ n \in names
  BY DEF Install
<1> HIDE DEF names
<1>3. LET b == Bring(t, names, v) IN
      /\ b \in RootTrees /\ b.rec = t.rec /\ b.repos = t.repos /\ b.units = t.units
      /\ NamesOf(b.pkgs) = NamesOf(t.pkgs) \cup names
  BY <1>1, BringTree
<1> QED
  BY <1>2, <1>3

(* A removal takes the package, and the packages that need it. *)
LEMMA RemoveTree ==
  ASSUME NEW t \in RootTrees, NEW n \in DOMAIN Ships
  PROVE  LET r == Remove(t, n) IN
         /\ r \in RootTrees
         /\ r.rec = t.rec /\ r.repos = t.repos /\ r.units = t.units
         /\ r.pkgs \subseteq t.pkgs
         /\ \A x \in NamesOf(t.pkgs) : x \in NamesOf(r.pkgs) \/ x = n \/ n \in Requires[x]
<1>1. CASE n \notin NamesOf(t.pkgs)
  BY <1>1 DEF Remove
<1>2. CASE n \in NamesOf(t.pkgs)
  <2> DEFINE gone == ({n} \cup Dependants(n)) \cap NamesOf(t.pkgs)
  <2>1. Remove(t, n) = Drop(t, gone)
    BY <1>2 DEF Remove
  <2>2. \A x \in gone : x = n \/ n \in Requires[x]
    BY DEF Dependants
  <2> HIDE DEF gone
  <2>3. \A x \in NamesOf(t.pkgs) : x \notin gone => x \in NamesOf(Drop(t, gone).pkgs)
    BY DropTree DEF NamesOf
  <2> QED
    BY <2>1, <2>2, <2>3, DropTree
<1> QED
  BY <1>1, <1>2

LEMMA PutFileTree ==
  ASSUME NEW t \in RootTrees, NEW f \in Paths, NEW node \in Node \cup {NoFile}
  PROVE  LET w == PutFile(t, f, node) IN
         /\ w \in RootTrees
         /\ w.rec = t.rec /\ w.repos = t.repos /\ w.units = t.units /\ w.pkgs = t.pkgs
         /\ w.files = [t.files EXCEPT ![f] = node]
BY DEF PutFile, RootTrees

LEMMA PutUnitTree ==
  ASSUME NEW t \in RootTrees, NEW u \in Units, NEW s \in States
  PROVE  LET w == PutUnit(t, u, s) IN
         /\ w \in RootTrees
         /\ w.rec = t.rec /\ w.repos = t.repos /\ w.files = t.files /\ w.pkgs = t.pkgs
BY DEF PutUnit, RootTrees

LEMMA PutRecordTree ==
  ASSUME NEW t \in RootTrees, NEW r \in Manifest \cup {None, Torn}
  PROVE  LET w == PutRecord(t, r) IN
         /\ w \in RootTrees
         /\ w.rec = r /\ w.repos = t.repos /\ w.files = t.files /\ w.pkgs = t.pkgs
         /\ w.units = t.units
BY DEF PutRecord, RootTrees

LEMMA WrittenNode ==
  ASSUME NEW node \in Node \cup {NoFile}, NEW digest \in Digests
  PROVE  /\ Written(node, digest) \in Node
         /\ Written(node, digest).type = "link" \/ Written(node, digest).data = digest
<1>1. "file" \in FileTypes /\ DefaultMode \in Modes
  BY DEF FileTypes, Modes
<1> QED
  BY <1>1 DEF Written, Node

LEMMA EnablementTree ==
  ASSUME NEW t \in RootTrees, NEW u \in UnitRecord
  PROVE  LET e == Enablement(t, u) IN
         /\ e \in RootTrees
         /\ e.rec = t.rec /\ e.repos = t.repos /\ e.files = t.files /\ e.pkgs = t.pkgs
BY PutUnitTree DEF Enablement, UnitRecord

(* systemctl leaves the unit in the state, unless it is masked, and no other is touched. *)
LEMMA EnablementUnits ==
  ASSUME NEW t \in RootTrees, NEW u \in UnitRecord
  PROVE  LET e == Enablement(t, u) IN
         /\ u.state \in DeclarableStates => e.units[u.name] \in {u.state, "masked"}
         /\ \A v \in Units \ {u.name} : e.units[v] = t.units[v]
<1>1. u.name \in Units /\ t.units \in [Units -> States]
  BY DEF UnitRecord, RootTrees
<1>2. CASE u.state \notin DeclarableStates \/ (t.units[u.name] = "masked" /\ u.state # "masked")
  BY <1>2 DEF Enablement
<1>3. CASE ~(u.state \notin DeclarableStates \/ (t.units[u.name] = "masked" /\ u.state # "masked"))
  <2>1. Enablement(t, u) = [t EXCEPT !.units[u.name] = u.state]
    BY <1>3 DEF Enablement, PutUnit
  <2>2. Enablement(t, u).units = [t.units EXCEPT ![u.name] = u.state]
    BY <2>1 DEF RootTrees
  <2> QED
    BY <1>1, <2>2
<1> QED
  BY <1>2, <1>3

-----------------------------------------------------------------------------
(* Descriptions *)

LEMMA OwnersTyped ==
  ASSUME NEW t \in RootTrees, NEW f PROVE Owners(t, f) \subseteq PackageRecord
BY DEF Owners, RootTrees

LEMMA FileRecordTyped ==
  ASSUME NEW t \in RootTrees, NEW f \in Paths, t.files[f] # NoFile,
         NEW rpmdb \in BOOLEAN, NEW store \in BOOLEAN
  PROVE  FileRecord(t, f, rpmdb, store) \in EtcFile
<1>1. t.files[f] \in Node
  BY DEF RootTrees
<1>2. Owned(t, f, rpmdb) => (CHOOSE x \in Owners(t, f) : TRUE) \in PackageRecord
  BY OwnersTyped DEF Owned
<1> QED
  BY <1>1, <1>2 DEF FileRecord, EtcFile, Node, PackageRecord

(* What a description may read of a tree, and what it does when nothing is lost. *)
Readable(t) ==
  [rpmdb : BOOLEAN, repos : SUBSET t.repos, units : SUBSET Units, files : SUBSET Paths]

LEMMA ReadingsTyped ==
  ASSUME NEW t
  PROVE  /\ Readings(t) \subseteq Readable(t) /\ Everything(t) \in Readable(t)
         /\ ReadFaults = FALSE =>
              \A got \in Readings(t) :
                got.repos = t.repos /\ got.units = Units /\ got.files = Paths
<1>1. RpmdbOutcomes \subseteq BOOLEAN
  BY DEF RpmdbOutcomes
<1> QED
  BY <1>1 DEF Readings, ReadsOf, Readable, Everything

(* When nothing is lost, what is read is everything. *)
LEMMA WholeReading ==
  ASSUME NEW t, NEW got \in Readings(t), RpmdbFaults = FALSE
  PROVE  got.rpmdb /\ (ReadFaults = FALSE => got = Everything(t))
BY DEF Readings, ReadsOf, RpmdbOutcomes, Everything

(* What each scope of a description holds. *)
LEMMA DescribeScopes ==
  ASSUME NEW t \in RootTrees, NEW got \in Readable(t), NEW store \in BOOLEAN
  PROVE  LET d == Describe(t, got, store) IN
         /\ d \in Manifest
         /\ Elements(d.packages) = IF got.rpmdb THEN t.pkgs ELSE {}
         /\ Elements(d.repositories) = got.repos
         /\ Elements(d.services) = {[name |-> u, state |-> t.units[u]] : u \in ReadUnits(t, got)}
         /\ Elements(d.config_files) = {FileRecord(t, f, got.rpmdb, store) :
                                           f \in Emitted(t, got.rpmdb) \cap got.files}
         /\ Elements(d.changed_managed_files) = {} /\ Elements(d.unmanaged_files) = {}
<1> DEFINE P == IF got.rpmdb THEN t.pkgs ELSE {}
           R == got.repos
           U == {[name |-> u, state |-> t.units[u]] : u \in ReadUnits(t, got)}
           F == {FileRecord(t, f, got.rpmdb, store) : f \in Emitted(t, got.rpmdb) \cap got.files}
<1>1. P \in SUBSET PackageRecord /\ R \in SUBSET RepoRecord
  BY DEF RootTrees, Readable
<1>2. U \in SUBSET UnitRecord
  BY DEF UnitRecord, RootTrees, ReadUnits, Readable
<1>3. F \in SUBSET EtcFile
  BY FileRecordTyped DEF Emitted, Readable
<1>4. /\ \A S \in {PackageEntry, RepoRecord, UnitRecord, EtcFile} : Absent \notin SUBSET S
      /\ PackageRecord \subseteq PackageEntry
  BY SentinelAssumption DEF PackageRecord, PackageEntry
<1>5. /\ Scope(P) \in ScopeOf(PackageEntry) /\ Elements(Scope(P)) = P
      /\ Scope(R) \in ScopeOf(RepoRecord) /\ Elements(Scope(R)) = R
      /\ Scope(U) \in ScopeOf(UnitRecord) /\ Elements(Scope(U)) = U
      /\ Scope(F) \in ScopeOf(EtcFile) /\ Elements(Scope(F)) = F
  <2> HIDE DEF P, R, U, F
  <2> QED
    BY <1>1, <1>2, <1>3, <1>4, ScopeElements
<1>6. Describe(t, got, store) =
        [EmptyManifest EXCEPT !.packages = Scope(P), !.repositories = Scope(R),
                              !.services = Scope(U), !.config_files = Scope(F)]
  BY Zenon DEF Describe
<1> HIDE DEF P, R, U, F
<1>7. Describe(t, got, store) =
        [packages |-> Scope(P), repositories |-> Scope(R), services |-> Scope(U),
         config_files |-> Scope(F), changed_managed_files |-> Absent,
         unmanaged_files |-> Absent]
  BY <1>6 DEF EmptyManifest
<1>8. Elements(Absent) = {}
  BY DEF Elements
<1>9. Describe(t, got, store) \in Manifest
  BY <1>5, <1>7 DEF Manifest
<1> QED
  BY <1>5, <1>7, <1>8, <1>9 DEF P, R, U, F

(* A description that lost nothing but perhaps the rpmdb. *)
LEMMA DescribeWhole ==
  ASSUME NEW t \in RootTrees, NEW got \in Readable(t), NEW store \in BOOLEAN,
         got.units = Units, got.files = Paths
  PROVE  LET d == Describe(t, got, store) IN
         /\ Elements(d.services) = {[name |-> u, state |-> t.units[u]] :
                                      u \in {v \in Units : t.units[v] \in DeclarableStates}}
         /\ Elements(d.config_files) = {FileRecord(t, f, got.rpmdb, store) :
                                           f \in Emitted(t, got.rpmdb)}
<1>1. ReadUnits(t, got) = {v \in Units : t.units[v] \in DeclarableStates}
  BY DEF ReadUnits
<1>2. Emitted(t, got.rpmdb) \cap got.files = Emitted(t, got.rpmdb)
  BY DEF Emitted
<1>3. /\ Elements(Describe(t, got, store).services)
           = {[name |-> u, state |-> t.units[u]] : u \in ReadUnits(t, got)}
      /\ Elements(Describe(t, got, store).config_files)
           = {FileRecord(t, f, got.rpmdb, store) : f \in Emitted(t, got.rpmdb) \cap got.files}
  BY DescribeScopes
<1> QED
  BY <1>1, <1>2, <1>3, Zenon

(* A description does not read the applied record. *)
LEMMA DescribeReads ==
  ASSUME NEW t, NEW u, NEW got, NEW store \in BOOLEAN,
         t.pkgs = u.pkgs, t.repos = u.repos, t.units = u.units, t.files = u.files
  PROVE  Describe(t, got, store) = Describe(u, got, store)
<1> DEFINE rpmdb == got.rpmdb
<1>1. \A f : Owners(t, f) = Owners(u, f)
  BY DEF Owners
<1>2. \A f : Owned(t, f, rpmdb) = Owned(u, f, rpmdb)
  BY <1>1 DEF Owned
<1>3. \A f : Pristine(t, f, rpmdb) = Pristine(u, f, rpmdb)
  BY <1>1, <1>2 DEF Pristine
<1>4. Emitted(t, rpmdb) = Emitted(u, rpmdb)
  BY <1>3 DEF Emitted
<1>5. ASSUME NEW f PROVE FileRecord(t, f, rpmdb, store) = FileRecord(u, f, rpmdb, store)
  <2>1. Owners(t, f) = Owners(u, f) /\ Owned(t, f, rpmdb) = Owned(u, f, rpmdb)
    BY <1>1, <1>2
  <2>2. (CHOOSE x \in Owners(t, f) : TRUE) = (CHOOSE x \in Owners(u, f) : TRUE)
    BY <2>1, Zenon
  <2> QED
    BY <2>1, <2>2 DEF FileRecord
<1>6. {FileRecord(t, f, got.rpmdb, store) : f \in Emitted(t, got.rpmdb) \cap got.files}
        = {FileRecord(u, f, got.rpmdb, store) : f \in Emitted(u, got.rpmdb) \cap got.files}
  BY <1>4, <1>5
<1>7. ReadUnits(t, got) = ReadUnits(u, got)
  BY DEF ReadUnits
<1> QED
  BY <1>6, <1>7, Zenon DEF Describe

(* At most one version of a package is installed. *)
UniqueNames(S) == \A x, y \in S : x.name = y.name => x = y

LEMMA UniqueInstall ==
  ASSUME NEW t \in RootTrees, NEW n \in DOMAIN Ships, NEW v \in RepoVersions,
         UniqueNames(t.pkgs)
  PROVE  UniqueNames(Install(t, n, v).pkgs) /\ UniqueNames(Remove(t, n).pkgs)
<1> DEFINE names == {n} \cup (Requires[n] \ NamesOf(t.pkgs))
<1>1. names \in SUBSET DOMAIN Ships
  BY RequiresAssumption
<1>2. Install(t, n, v) = Bring(t, names, v)
  BY DEF Install
<1> HIDE DEF names
<1>3. Bring(t, names, v).pkgs = {x \in t.pkgs : x.name \notin names}
                                  \cup {[name |-> m, version |-> v] : m \in names}
  BY <1>1, BringTree
<1>4. \A m \in names : [name |-> m, version |-> v].name = m
  OBVIOUS
<1>5. UniqueNames(Bring(t, names, v).pkgs)
  BY <1>3, <1>4 DEF UniqueNames
<1>6. UniqueNames(Remove(t, n).pkgs)
  BY RemoveTree DEF UniqueNames
<1> QED
  BY <1>2, <1>5, <1>6

LEMMA NamedUnique ==
  ASSUME NEW S, UniqueNames(S), NEW e \in S PROVE Named(S, e.name) = e
BY DEF UniqueNames, Named

LEMMA DriftOf ==
  ASSUME NEW a, NEW r, NEW keep
  PROVE  DriftEmpty(ComputeDrift(a, r, keep)) <=>
           /\ FilesModified(a, r) = {} /\ FilesExtra(a, r, keep) = {}
           /\ UnitsDivergent(a, r) = {} /\ PackagesDivergent(a, r) = {}
           /\ Integrity(a.changed_managed_files, keep) = {}
           /\ Integrity(a.unmanaged_files, keep) = {}
BY DEF DriftEmpty, ComputeDrift

(* A tree that is declared to be what it is described as has no drift. *)
LEMMA NoDriftFromSelf ==
  ASSUME NEW t \in RootTrees, UniqueNames(t.pkgs), NEW store \in BOOLEAN, NEW r,
         r.config_files = Describe(t, Everything(t), store).config_files,
         r.services = Describe(t, Everything(t), store).services,
         Elements(r.packages) = t.pkgs
  PROVE  DriftEmpty(ComputeDrift(Describe(t, Everything(t), FALSE), r, KeepList))
<1> DEFINE got == Everything(t)
           a == Describe(t, got, FALSE)
           A(f) == FileRecord(t, f, got.rpmdb, FALSE)
           R(f) == FileRecord(t, f, got.rpmdb, store)
           E == Emitted(t, got.rpmdb)
           U == {[name |-> u, state |-> t.units[u]] :
                   u \in {v \in Units : t.units[v] \in DeclarableStates}}
<1>0. got \in Readable(t) /\ got.rpmdb /\ got.files = Paths /\ got.units = Units
  BY ReadingsTyped DEF Everything
<1>1. /\ Elements(a.packages) = t.pkgs /\ Elements(a.services) = U
      /\ Elements(a.config_files) = {A(f) : f \in E}
      /\ Elements(a.changed_managed_files) = {} /\ Elements(a.unmanaged_files) = {}
  <2> HIDE DEF got
  <2> QED
    BY <1>0, DescribeScopes, DescribeWhole
<1>2. Elements(r.services) = U /\ Elements(r.config_files) = {R(f) : f \in E}
  <2>1. /\ Elements(Describe(t, got, store).services) = U
        /\ Elements(Describe(t, got, store).config_files) = {R(f) : f \in E}
    <3> HIDE DEF got
    <3> QED
      BY <1>0, DescribeWhole
  <2> QED
    BY <2>1, Zenon
<1>3. \A f : /\ A(f).name = f /\ A(f).type = t.files[f].type /\ A(f).data = t.files[f].data
            /\ R(f).name = f /\ R(f).type = t.files[f].type /\ R(f).data = t.files[f].data
  BY DEF FileRecord
<1>4. \A u \in U : Named(U, u.name) = u
  <2>1. UniqueNames(U)
    BY DEF UniqueNames
  <2> HIDE DEF U
  <2> QED
    BY <2>1, NamedUnique
<1>5. \A x \in t.pkgs : Named(t.pkgs, x.name) = x
  BY NamedUnique
<1>6. DriftEmpty(ComputeDrift(a, r, KeepList)) <=>
        /\ FilesModified(a, r) = {} /\ FilesExtra(a, r, KeepList) = {}
        /\ UnitsDivergent(a, r) = {} /\ PackagesDivergent(a, r) = {}
        /\ Integrity(a.changed_managed_files, KeepList) = {}
        /\ Integrity(a.unmanaged_files, KeepList) = {}
  BY DriftOf
<1> HIDE DEF got, a, A, R, E, U
<1>7. \A f \in E : Named({A(g) : g \in E}, f) = A(f)
  <2> DEFINE S == {A(g) : g \in E}
  <2>1. UniqueNames(S)
    BY <1>3 DEF UniqueNames
  <2>2. \A f \in E : A(f) \in S
    OBVIOUS
  <2> HIDE DEF S
  <2>3. \A f \in E : Named(S, A(f).name) = A(f)
    BY <2>1, <2>2, NamedUnique
  <2> QED
    BY <1>3, <2>3 DEF S
<1>8. FilesModified(a, r) = {}
  <2>1. \A f \in E : ~FileDiffers(R(f), A(f))
    BY <1>3 DEF FileDiffers
  <2>2. \A x \in {R(f) : f \in E} : ~FileDiffers(x, Named({A(g) : g \in E}, x.name))
    BY <1>3, <1>7, <2>1
  <2> QED
    BY <1>1, <1>2, <2>2 DEF FilesModified
<1>9. FilesExtra(a, r, KeepList) = {}
  <2>1. \A x \in {A(f) : f \in E} : x.name \in NamesOf({R(f) : f \in E})
    BY <1>3 DEF NamesOf
  <2> QED
    BY <1>1, <1>2, <2>1 DEF FilesExtra
<1>10. UnitsDivergent(a, r) = {}
  BY <1>1, <1>2, <1>4 DEF UnitsDivergent
<1>11. PackagesDivergent(a, r) = {}
  BY <1>1, <1>5 DEF PackagesDivergent, PkgMatches, NamesOf
<1>12. Integrity(a.changed_managed_files, KeepList) = {} /\ Integrity(a.unmanaged_files, KeepList) = {}
  BY <1>1 DEF Integrity, NamesOf
<1> QED
  BY <1>6, <1>8, <1>9, <1>10, <1>11, <1>12 DEF a, got

(* A tree whose whole description has no drift from a declaration has the unit      *)
(* states of it and no extra files.                                                *)
LEMMA NoDriftHolds ==
  ASSUME NEW t \in RootTrees, NEW got \in Readable(t), NEW r \in Manifest,
         got.units = Units, got.files = Paths,
         DriftEmpty(ComputeDrift(Describe(t, got, FALSE), r, KeepList))
  PROVE  /\ \A u \in Elements(r.services) : UnitHolds(t, u)
         /\ Extras(t, r) = {}
<1> DEFINE a == Describe(t, got, FALSE)
           A(f) == FileRecord(t, f, got.rpmdb, FALSE)
           E == Emitted(t, got.rpmdb)
           U == {[name |-> u, state |-> t.units[u]] :
                   u \in {v \in Units : t.units[v] \in DeclarableStates}}
<1>1. Elements(a.services) = U /\ Elements(a.config_files) = {A(f) : f \in E}
  BY DescribeWhole
<1>2. UnitsDivergent(a, r) = {} /\ FilesExtra(a, r, KeepList) = {}
  BY DriftOf
<1>3. \A u \in U : Named(U, u.name) = u
  <2>1. UniqueNames(U)
    BY DEF UniqueNames
  <2> HIDE DEF U
  <2> QED
    BY <2>1, NamedUnique
<1>4. ASSUME NEW u \in Elements(r.services), t.units[u.name] \in DeclarableStates
      PROVE  u.state = t.units[u.name]
  <2> DEFINE v == [name |-> u.name, state |-> t.units[u.name]]
  <2>1. u.name \in Units
    BY ManifestElements DEF UnitRecord
  <2>2. v \in U /\ u.name \in NamesOf(U)
    BY <1>4, <2>1 DEF NamesOf
  <2>3. Named(U, u.name) = v
    BY <1>3, <2>2
  <2>4. Named(U, u.name).state = u.state
    BY <1>1, <1>2, <2>2 DEF UnitsDivergent
  <2> QED
    BY <2>3, <2>4
<1>5. ASSUME NEW f \in Extras(t, r) PROVE FALSE
  <2>1. /\ r.config_files # Absent /\ f \in Paths /\ f \notin KeepList /\ f # Syncpoint
        /\ t.files[f] # NoFile /\ Owners(t, f) = {} /\ f \notin NamesOf(r.config_files)
    BY <1>5 DEF Extras
  <2>2. ~Owned(t, f, got.rpmdb) /\ f \in E
    BY <2>1 DEF Emitted, Owned, Pristine
  <2>3. A(f).name = f /\ A(f).package_name = NoPackage
    BY <2>2 DEF FileRecord
  <2>4. A(f) \in Elements(a.config_files) /\ f \notin NamesOf(Elements(r.config_files))
    BY <1>1, <2>1, <2>2 DEF Elements
  <2> HIDE DEF A, a
  <2>5. f \in FilesExtra(a, r, KeepList)
    BY <2>1, <2>3, <2>4 DEF FilesExtra
  <2> QED
    BY <1>2, <2>5
<1> QED
  BY <1>4, <1>5 DEF UnitHolds

-----------------------------------------------------------------------------
(* The invariant of data and plans *)

(* The labels between acquire_transaction_context and the end. *)
Late == Labels \ (Early \cup {"idle", "done"})

(* A late process has a tree. *)
Placed == \A p \in Procs : pc[p] \in Late => ctx[p] \in Snaps

(* apply passes the labels of the convergers, init does not. *)
Routed(p) ==
  /\ pc[p] \in {"describe", "publish"} => args[p].verb # "apply"
  /\ pc[p] \in {"load", "compare", "packages", "files", "writing", "units", "verify"}
       => args[p].verb = "apply"

(* The units whose declared state is not the recorded one. *)
ChangedUnits(p) ==
  {u \in Elements(desired[p].services) : StateChanged(u, base[p].services)}

(* The work of a plan is called for: it adds what the manifest declares, and    *)
(* takes away what only the record declares.  It is worked off in order.        *)
Called(p) ==
  /\ plan[p].remove \cap NamesOf(Elements(desired[p].packages)) = {}
  /\ plan[p].remove \subseteq Dropped(p)
  /\ plan[p].delete \subseteq NamesOf(Elements(base[p].config_files))
  /\ plan[p].delete \cap NamesOf(Elements(desired[p].config_files)) = {}
  /\ pc[p] \in {"load", "describe"} => plan[p] = NoPlan
  /\ pc[p] \in {"compare", "acquire"} /\ args[p].verb = "apply" =>
       /\ plan[p].install = Elements(desired[p].packages)
       /\ plan[p].write = Elements(desired[p].config_files)
       /\ plan[p].units = ChangedUnits(p)
  /\ pc[p] = "writing" => cur[p] # None /\ cur[p].entry \in plan[p].write
                           /\ cur[p].entry.type = "file"
  /\ pc[p] \in Late \ {"packages"} /\ args[p].verb = "apply" =>
       plan[p].install = {} /\ plan[p].remove = {}
  /\ pc[p] \in Late \ {"packages", "files", "writing"} /\ args[p].verb = "apply" =>
       plan[p].write = {}

Planned == \A p \in Procs : Routed(p) /\ Called(p)

DInv == Data /\ Placed /\ Planned

LEMMA InitData == Init => DInv
<1> SUFFICES ASSUME Init PROVE DInv
  OBVIOUS
<1>1. NoPlan \in Plans
  BY DEF NoPlan, Plans
<1>2. Data
  BY <1>1, UniverseAssumption, EmptyManifestTyped DEF Init, Data
<1>3. Placed
  BY DEF Init, Placed, Late, Labels
<1>4. Planned
  BY DEF Init, Planned, Routed, Called, Dropped, ChangedUnits, NoPlan, Late, Labels, NamesOf
<1> QED
  BY <1>2, <1>3, <1>4 DEF DInv

LEMMA IntentPlan ==
  ASSUME NEW m \in Manifest, NEW r \in Manifest
  PROVE  LET d == ComputeIntentDiff(m, r) IN
         /\ d.packages_install = Elements(m.packages) /\ d.files_write = Elements(m.config_files)
         /\ d.units_change = {u \in Elements(m.services) : StateChanged(u, r.services)}
         /\ [install |-> d.packages_install, remove |-> d.packages_remove,
             write |-> d.files_write, delete |-> d.files_delete,
             units |-> d.units_change] \in Plans
         /\ d.packages_remove \cap NamesOf(Elements(m.packages)) = {}
         /\ d.packages_remove = DroppedNames(m.packages, r.packages)
         /\ d.files_delete \subseteq NamesOf(Elements(r.config_files))
         /\ d.files_delete \cap NamesOf(Elements(m.config_files)) = {}
<1>1. /\ NamesOf(Elements(r.packages)) \subseteq DOMAIN Ships \cup {NoPackage}
      /\ NamesOf(Elements(r.config_files)) \subseteq Paths
  BY ManifestElements DEF NamesOf, PackageEntry, EtcFile
<1>2. \A S \in SUBSET UnitRecord : {u \in S : StateChanged(u, r.services)} \in SUBSET UnitRecord
  OBVIOUS
<1>3. \A s : s # Absent => Elements(s) = s
  BY DEF Elements
<1>4. NamesOf(Elements(Absent)) = {}
  BY DEF Elements, NamesOf
<1>5. /\ DroppedNames(m.packages, r.packages) \subseteq NamesOf(Elements(r.packages))
      /\ DroppedNames(m.packages, r.packages) \cap NamesOf(Elements(m.packages)) = {}
      /\ DroppedNames(m.config_files, r.config_files) \subseteq NamesOf(Elements(r.config_files))
      /\ DroppedNames(m.config_files, r.config_files) \cap NamesOf(Elements(m.config_files)) = {}
  BY <1>3, <1>4 DEF DroppedNames
<1> QED
  BY <1>1, <1>2, <1>5, ManifestElements DEF ComputeIntentDiff, Plans

-----------------------------------------------------------------------------
(* The steps of a process *)

LEMMA DescribeTyped ==
  ASSUME NEW t \in RootTrees, NEW got \in Readings(t), NEW store \in BOOLEAN
  PROVE  /\ Describe(t, got, store) \in Manifest
         /\ Elements(Describe(t, got, store).packages) \in SUBSET PackageRecord
<1>1. got \in Readable(t)
  BY ReadingsTyped
<1> QED
  BY <1>1, DescribeScopes DEF RootTrees

(* The tree that a late process works on, and the work of its plan. *)
LEMMA LateTree ==
  ASSUME DInv, NEW p \in Procs, pc[p] \in Late
  PROVE  ctx[p] \in Snaps /\ Tree(p) \in RootTrees /\ plan[p] \in Plans
BY DEF DInv, Data, Placed, Tree

LEMMA RootTyped == ASSUME IInv, NEW p \in Procs, Alive(p) PROVE Root(p) \in Snaps
<1>1. running \in Snaps
  BY SnapAssumption DEF IInv, Numbers, Snaps
<1>2. args[p].inside => tu \in [snap : Snaps, proc : Procs]
  BY DEF IInv, Transaction, Shape
<1> QED
  BY <1>1, <1>2 DEF Root

LEMMA ChangeTreeTyped ==
  ASSUME Data, NEW p \in Procs, NEW t \in RootTrees, ChangeTree(p, t)
  PROVE  snap' \in [Snaps -> RootTrees]
BY DEF Data, ChangeTree

LEMMA DidTyped ==
  ASSUME Data, NEW p \in Procs, NEW work \in {"install", "remove", "write", "delete", "units"},
         NEW x, Did(p, work, x)
  PROVE  plan' \in [Procs -> Plans]
<1>1. [plan[p] EXCEPT ![work] = @ \ {x}] \in Plans
  BY DEF Data, Plans
<1> QED
  BY <1>1 DEF Data, Did

LEMMA NewRecordTyped == ASSUME Data, NEW p \in Procs PROVE NewRecord(p) \in Manifest
<1>1. PackageRecord \subseteq PackageEntry
  BY DEF PackageRecord, PackageEntry
<1> QED
  BY <1>1 DEF Data, NewRecord, Manifest, ScopeOf

LEMMA StopData ==
  ASSUME Data, NEW p \in Procs, NEW code, Stop(p, code) PROVE Data'
BY DEF Stop, Data, machine

LEMMA StepData == ASSUME DInv, IInv, NEW p \in Procs, QuietStep(p) PROVE Data'
<1> USE DEF StepVars, world, machine
<1>1. Data
  BY DEF DInv
<1>2. CASE \/ LoadFails(p) \/ ReadFails(p) \/ AcquireFails(p) \/ ZypperFails(p) \/ FileFails(p)
           \/ SystemctlFails(p) \/ RecordFails(p) \/ PublishFails(p) \/ SealAndActivate(p)
           \/ Kill(p)
  BY <1>1, <1>2, StopData DEF LoadFails, ReadFails, AcquireFails, ZypperFails, FileFails,
     SystemctlFails, RecordFails, PublishFails, SealAndActivate, Kill
<1>3. CASE Load(p)
  <2>1. CASE Stop(p, 1)
    BY <1>1, <2>1, StopData
  <2>2. CASE ~Stop(p, 1)
    <3>1. snap[Root(p)].rec \in Manifest \cup {None}
      BY <1>1, <1>3, <2>2, RootTyped DEF Load, Data, RootTrees, Alive
    <3>2. AppliedRecord(p) \in Manifest
      BY <3>1, EmptyManifestTyped DEF AppliedRecord
    <3> DEFINE d == ComputeIntentDiff(desired[p], AppliedRecord(p))
               work == [install |-> d.packages_install, remove |-> d.packages_remove,
                        write |-> d.files_write, delete |-> d.files_delete,
                        units |-> d.units_change]
    <3>3. work \in Plans
      BY <1>1, <3>2, IntentPlan DEF Data
    <3>4. /\ base' = [base EXCEPT ![p] = AppliedRecord(p)]
          /\ plan' = [plan EXCEPT ![p] = work]
          /\ UNCHANGED <<machine, args, desired, ctx, opened, lock, cur, exit>>
      BY <1>3, <2>2 DEF Load
    <3> HIDE DEF work
    <3> QED
      BY <1>1, <3>2, <3>3, <3>4 DEF Data
  <2> QED
    BY <2>1, <2>2
<1>4. CASE Compare(p)
  BY <1>1, <1>4, StopData DEF Compare, Data
<1>5. CASE Adopt(p)
  <2>1. snap[Root(p)] \in RootTrees
    BY <1>1, <1>5, RootTyped DEF Adopt, AdoptOf, Data, Alive
  <2> QED
    BY <1>1, <1>5, <2>1, DescribeTyped, FlagAssumption DEF Adopt, AdoptOf, Data
<1>6. CASE InstallPackage(p)
  <2>1. PICK x \in plan[p].install :
          /\ \/ UNCHANGED snap
             \/ /\ x.name # NoPackage
                /\ \E v \in RepoVersions : ChangeTree(p, Install(Tree(p), x.name, v))
          /\ Did(p, "install", x)
    BY <1>6 DEF InstallPackage
  <2>2. Tree(p) \in RootTrees /\ x.name \in DOMAIN Ships \cup {NoPackage}
    BY <1>6, LateTree DEF InstallPackage, Late, Labels, Early, Plans, PackageEntry
  <2>3. snap' \in [Snaps -> RootTrees]
    BY <1>1, <2>1, <2>2, InstallTree, ChangeTreeTyped DEF Data
  <2> QED
    BY <1>1, <1>6, <2>1, <2>3, DidTyped DEF InstallPackage, Data
<1>7. CASE RemovePackage(p)
  <2>1. PICK n \in plan[p].remove :
          /\ IF n = NoPackage THEN UNCHANGED snap ELSE ChangeTree(p, Remove(Tree(p), n))
          /\ Did(p, "remove", n)
    BY <1>7 DEF RemovePackage
  <2>2. Tree(p) \in RootTrees /\ n \in DOMAIN Ships \cup {NoPackage}
    BY <1>7, LateTree DEF RemovePackage, Late, Labels, Early, Plans
  <2>3. snap' \in [Snaps -> RootTrees]
    BY <1>1, <2>1, <2>2, RemoveTree, ChangeTreeTyped DEF Data
  <2> QED
    BY <1>1, <1>7, <2>1, <2>3, DidTyped DEF RemovePackage, Data
<1>8. CASE ResolveLock(p)
  <2>1. Tree(p).pkgs \in SUBSET PackageRecord
    BY <1>8, LateTree DEF ResolveLock, Late, Labels, Early, RootTrees
  <2> QED
    BY <1>1, <1>8, <2>1 DEF ResolveLock, Data
<1>9. CASE SkipEntry(p)
  BY <1>1, <1>9, DidTyped DEF SkipEntry, Data
<1>10. CASE OpenFile(p)
  <2>1. PICK e \in plan[p].write : \E got \in Resolves(e) :
          /\ cur' = [cur EXCEPT ![p] = [entry |-> e, got |-> got]]
          /\ ChangeTree(p, PutFile(Tree(p), e.name,
                                   Written(Tree(p).files[e.name], EmptyDigest)))
    BY <1>10 DEF OpenFile
  <2>2. Tree(p) \in RootTrees /\ e \in EtcFile
    BY <1>10, LateTree DEF OpenFile, Late, Labels, Early, Plans
  <2>3. Resolves(e) \subseteq Digests /\ EmptyDigest \in Digests
    BY <2>2 DEF Resolves, Digests, EtcFile
  <2>4. Written(Tree(p).files[e.name], EmptyDigest) \in Node
    BY <2>2, <2>3, WrittenNode DEF RootTrees, EtcFile
  <2>5. PutFile(Tree(p), e.name, Written(Tree(p).files[e.name], EmptyDigest)) \in RootTrees
    BY <2>2, <2>4, PutFileTree DEF EtcFile
  <2>6. cur' \in [Procs -> [entry : EtcFile, got : Digests] \cup {None}]
    BY <1>1, <2>1, <2>2, <2>3 DEF Data
  <2>7. snap' \in [Snaps -> RootTrees]
    BY <1>1, <2>1, <2>5, ChangeTreeTyped
  <2> QED
    BY <1>1, <1>10, <2>6, <2>7 DEF OpenFile, Data
<1>11. CASE WriteFile(p)
  <2> DEFINE e == cur[p].entry
             got == cur[p].got
             t == PutFile(Tree(p), e.name, Written(Tree(p).files[e.name], got))
  <2>1. ChangeTree(p, t) /\ Did(p, "write", e)
    BY <1>11 DEF WriteFile
  <2>2. Tree(p) \in RootTrees /\ e \in EtcFile /\ got \in Digests
    BY <1>11, LateTree DEF WriteFile, Late, Labels, Early, DInv, Data, Planned, Called
  <2>3. t \in RootTrees
    BY <2>2, WrittenNode, PutFileTree DEF RootTrees, EtcFile
  <2>4. snap' \in [Snaps -> RootTrees]
    BY <1>1, <2>1, <2>3, ChangeTreeTyped
  <2>5. plan' \in [Procs -> Plans]
    BY <1>1, <2>1, DidTyped
  <2>6. cur' \in [Procs -> [entry : EtcFile, got : Digests] \cup {None}]
    BY <1>1, <1>11 DEF WriteFile, Data
  <2> QED
    BY <1>1, <1>11, <2>4, <2>5, <2>6 DEF WriteFile, Data
<1>12. CASE DeleteFile(p)
  <2>1. PICK f \in plan[p].delete, rpmdb \in RpmdbOutcomes :
          /\ ChangeTree(p, IF Protected(Tree(p), f, rpmdb) THEN Tree(p)
                           ELSE PutFile(Tree(p), f, NoFile))
          /\ Did(p, "delete", f)
    BY <1>12 DEF DeleteFile
  <2>2. Tree(p) \in RootTrees /\ f \in Paths
    BY <1>12, LateTree DEF DeleteFile, Late, Labels, Early, Plans
  <2>3. PutFile(Tree(p), f, NoFile) \in RootTrees
    BY <2>2, PutFileTree
  <2>4. snap' \in [Snaps -> RootTrees] /\ plan' \in [Procs -> Plans]
    BY <1>1, <2>1, <2>2, <2>3, ChangeTreeTyped, DidTyped
  <2> QED
    BY <1>1, <1>12, <2>4 DEF DeleteFile, Data
<1>13. CASE ChangeUnit(p)
  <2>1. PICK u \in plan[p].units : ChangeTree(p, Enablement(Tree(p), u)) /\ Did(p, "units", u)
    BY <1>13 DEF ChangeUnit
  <2>2. Tree(p) \in RootTrees /\ u \in UnitRecord
    BY <1>13, LateTree DEF ChangeUnit, Late, Labels, Early, Plans
  <2> QED
    BY <1>1, <1>13, <2>1, <2>2, EnablementTree, ChangeTreeTyped, DidTyped DEF ChangeUnit, Data
<1>14. CASE OpenRecord(p)
  <2>1. PutRecord(Tree(p), Torn) \in RootTrees
    BY <1>14, LateTree, PutRecordTree DEF OpenRecord, Late, Labels, Early
  <2> QED
    BY <1>1, <1>14, <2>1, ChangeTreeTyped DEF OpenRecord, Data
<1>15. CASE WriteRecord(p)
  <2>1. PutRecord(Tree(p), NewRecord(p)) \in RootTrees
    BY <1>1, <1>15, LateTree, PutRecordTree, NewRecordTyped DEF WriteRecord, Late, Labels, Early
  <2>2. snap' \in [Snaps -> RootTrees]
    BY <1>1, <1>15, <2>1, ChangeTreeTyped DEF WriteRecord, Data
  <2> QED
    BY <1>1, <1>15, <2>2 DEF WriteRecord, Data
<1>16. CASE StampUserdata(p)
  BY <1>1, <1>16 DEF StampUserdata, Data
<1>17. CASE PostVerify(p)
  BY <1>1, <1>17, StopData DEF PostVerify, Data
<1>18. CASE Publish(p)
  BY <1>1, <1>18 DEF Publish, Data
<1>19. CASE FilesDone(p) \/ UnitsDone(p)
  BY <1>1, <1>19 DEF FilesDone, UnitsDone, Data
<1> QED
  BY <1>2, <1>3, <1>4, <1>5, <1>6, <1>7, <1>8, <1>9, <1>10, <1>11, <1>12, <1>13, <1>14, <1>15,
     <1>16, <1>17, <1>18, <1>19 DEF QuietStep

(* A step of one process leaves the local variables of the others alone. *)
OwnStep(p) == QuietStep(p) \/ AcquireExternal(p) \/ AcquireInternal(p)

Local(q) == <<pc[q], args[q], desired[q], base[q], plan[q], ctx[q], opened[q], lock[q],
              cur[q], exit[q]>>

LEMMA StopLocal ==
  ASSUME IInv, NEW p \in Procs, NEW code, Stop(p, code), NEW q \in Procs \ {p}
  PROVE  UNCHANGED Local(q)
BY DEF Stop, Exit, Goto, Local, IInv, Numbers

LEMMA StepLocal ==
  ASSUME IInv, Data, NEW p \in Procs, OwnStep(p), NEW q \in Procs \ {p}
  PROVE  UNCHANGED Local(q)
<1>1. /\ \A f \in {pc, args, desired, base, plan, ctx, opened, lock, cur, exit} :
           /\ DOMAIN f = Procs
           /\ \A v : [f EXCEPT ![p] = v][q] = f[q]
      /\ \A S, x : [plan EXCEPT ![p][S] = @ \ {x}][q] = plan[q]
  BY DEF IInv, Numbers, Shape, Data
<1> USE <1>1 DEF StepVars, world, machine, Goto, Exit, Did, Local
<1>2. CASE \/ LoadFails(p) \/ ReadFails(p) \/ AcquireFails(p) \/ ZypperFails(p) \/ FileFails(p)
           \/ SystemctlFails(p) \/ RecordFails(p) \/ PublishFails(p) \/ SealAndActivate(p)
           \/ Kill(p)
  BY <1>2, StopLocal DEF LoadFails, ReadFails, AcquireFails, ZypperFails, FileFails,
     SystemctlFails, RecordFails, PublishFails, SealAndActivate, Kill
<1>3. CASE Load(p) \/ Compare(p) \/ Adopt(p) \/ PostVerify(p) \/ AcquireExternal(p)
  BY <1>3, StopLocal DEF Load, Compare, Adopt, AdoptOf, PostVerify, AcquireExternal
<1>4. CASE \/ InstallPackage(p) \/ RemovePackage(p) \/ ResolveLock(p) \/ SkipEntry(p)
           \/ OpenFile(p) \/ WriteFile(p) \/ DeleteFile(p)
  BY <1>4 DEF InstallPackage, RemovePackage, ResolveLock, SkipEntry, OpenFile, WriteFile,
     DeleteFile
<1>5. CASE \/ FilesDone(p) \/ ChangeUnit(p) \/ UnitsDone(p) \/ OpenRecord(p) \/ WriteRecord(p)
           \/ StampUserdata(p) \/ Publish(p) \/ AcquireInternal(p)
  BY <1>5 DEF FilesDone, ChangeUnit, UnitsDone, OpenRecord, WriteRecord, StampUserdata,
     Publish, AcquireInternal, OpenSnapshot
<1> QED
  BY <1>2, <1>3, <1>4, <1>5 DEF OwnStep, QuietStep

(* The plan after one of its pieces of work is done. *)
LEMMA DidPlan ==
  ASSUME Data, NEW p \in Procs, NEW work \in {"install", "remove", "write", "delete", "units"},
         NEW x, Did(p, work, x)
  PROVE  /\ plan'[p][work] = plan[p][work] \ {x}
         /\ \A w \in {"install", "remove", "write", "delete", "units"} \ {work} :
              plan'[p][w] = plan[p][w]
BY DEF Data, Plans, Did

LEMMA StepPlanned ==
  ASSUME IInv, DInv, NEW p \in Procs, OwnStep(p)
  PROVE  (pc[p] \in Late => ctx[p] \in Snaps)' /\ Routed(p)' /\ Called(p)'
<1> DEFINE Good == (pc[p] \in Late => ctx[p] \in Snaps)' /\ Routed(p)' /\ Called(p)'
<1>1. Data /\ (pc[p] \in Late => ctx[p] \in Snaps) /\ Routed(p) /\ Called(p)
  BY DEF DInv, Placed, Planned
<1>2. \A f \in {pc, args, desired, base, plan, ctx, opened, lock, cur, exit} :
        DOMAIN f = Procs
  BY DEF DInv, IInv, Numbers, Shape, Data
<1>3. ASSUME NEW code, Stop(p, code) PROVE Good
  BY <1>1, <1>2, <1>3 DEF Stop, Exit, Goto, Routed, Called, Dropped, ChangedUnits, Late, Labels
<1> USE DEF StepVars, world, machine, Goto, Late, Labels, Early
<1>4. CASE \/ LoadFails(p) \/ ReadFails(p) \/ AcquireFails(p) \/ ZypperFails(p) \/ FileFails(p)
           \/ SystemctlFails(p) \/ RecordFails(p) \/ PublishFails(p) \/ SealAndActivate(p)
           \/ Kill(p)
  BY <1>3, <1>4 DEF LoadFails, ReadFails, AcquireFails, ZypperFails, FileFails,
     SystemctlFails, RecordFails, PublishFails, SealAndActivate, Kill
<1>5. CASE Load(p)
  <2>1. CASE Stop(p, 1)
    BY <1>3, <2>1
  <2>2. CASE ~Stop(p, 1)
    <3> DEFINE d == ComputeIntentDiff(desired[p], AppliedRecord(p))
               work == [install |-> d.packages_install, remove |-> d.packages_remove,
                        write |-> d.files_write, delete |-> d.files_delete,
                        units |-> d.units_change]
    <3>1. snap[Root(p)].rec \in Manifest \cup {None}
      BY <1>1, <1>5, <2>2, RootTyped DEF Load, Data, RootTrees, Alive
    <3>2. AppliedRecord(p) \in Manifest /\ desired[p] \in Manifest
      BY <1>1, <3>1, EmptyManifestTyped DEF AppliedRecord, Data
    <3>3. /\ base'[p] = AppliedRecord(p) /\ plan'[p] = work
          /\ pc'[p] \in {"compare", "acquire"}
          /\ UNCHANGED <<args, desired, ctx>>
      BY <1>2, <1>5, <2>2 DEF Load
    <3>4. /\ work.install = Elements(desired[p].packages)
          /\ work.write = Elements(desired[p].config_files)
          /\ work.units = {u \in Elements(desired[p].services) :
                             StateChanged(u, AppliedRecord(p).services)}
          /\ work.remove \cap NamesOf(Elements(desired[p].packages)) = {}
          /\ work.remove = DroppedNames(desired[p].packages, AppliedRecord(p).packages)
          /\ work.delete \subseteq NamesOf(Elements(AppliedRecord(p).config_files))
          /\ work.delete \cap NamesOf(Elements(desired[p].config_files)) = {}
      BY <3>2, IntentPlan
    <3> HIDE DEF work
    <3> QED
      BY <1>1, <1>5, <3>3, <3>4 DEF Load, Routed, Called, Dropped, ChangedUnits
  <2> QED
    BY <2>1, <2>2
<1>6. CASE Compare(p)
  BY <1>1, <1>2, <1>3, <1>6 DEF Compare, Routed, Called, Dropped, ChangedUnits
<1>7. CASE Adopt(p)
  <2>1. /\ pc'[p] = "acquire" /\ plan'[p] = NoPlan /\ args' = args
        /\ args[p].verb # "apply"
    BY <1>1, <1>2, <1>7 DEF Adopt, AdoptOf, Routed, Called, Dropped, ChangedUnits
  <2> QED
    BY <2>1 DEF Routed, Called, Dropped, ChangedUnits, NoPlan
<1>8. CASE AcquireExternal(p)
  <2>1. Root(p) \in Snaps
    BY <1>8, RootTyped DEF AcquireExternal, Alive
  <2> QED
    BY <1>1, <1>2, <1>3, <1>8, <2>1 DEF AcquireExternal, AfterAcquire, Routed, Called, Dropped, ChangedUnits
<1>9. CASE AcquireInternal(p)
  <2>1. nextSnap \in Snaps
    BY <1>9, SnapAssumption DEF AcquireInternal, OpenSnapshot, IInv, Numbers, Snaps
  <2> QED
    BY <1>1, <1>2, <1>9, <2>1 DEF AcquireInternal, OpenSnapshot, AfterAcquire, Routed, Called, Dropped, ChangedUnits
<1>10. CASE InstallPackage(p) \/ RemovePackage(p) \/ SkipEntry(p) \/ DeleteFile(p) \/ ChangeUnit(p)
  <2>1. PICK work, x : work \in {"install", "remove", "write", "delete", "units"} /\ Did(p, work, x)
    BY <1>10 DEF InstallPackage, RemovePackage, SkipEntry, DeleteFile, ChangeUnit
  <2>2. /\ pc[p] \in {"packages", "files", "units"}
        /\ pc' = pc /\ UNCHANGED <<args, desired, base, ctx, cur>>
    BY <1>10 DEF InstallPackage, RemovePackage, SkipEntry, DeleteFile, ChangeUnit
  <2> QED
    BY <1>1, <2>1, <2>2, DidPlan DEF Routed, Called, Dropped, ChangedUnits
<1>11. CASE ResolveLock(p)
  BY <1>1, <1>2, <1>11 DEF ResolveLock, Routed, Called, Dropped, ChangedUnits
<1>12. CASE OpenFile(p)
  <2>1. PICK e \in plan[p].write : \E got \in Resolves(e) :
          e.type = "file" /\ cur' = [cur EXCEPT ![p] = [entry |-> e, got |-> got]]
    BY <1>12 DEF OpenFile
  <2>2. e \in EtcFile /\ Resolves(e) \subseteq Digests
    BY <1>1, <2>1 DEF Resolves, Digests, EtcFile, Data, Plans
  <2>3. cur'[p] # None /\ cur'[p].entry = e
    BY <1>2, <2>1, <2>2, SentinelAssumption
  <2> QED
    BY <1>1, <1>2, <1>12, <2>1, <2>3 DEF OpenFile, Routed, Called, Dropped, ChangedUnits
<1>13. CASE WriteFile(p)
  <2>1. /\ pc[p] = "writing" /\ pc'[p] \in {"files", "done"}
        /\ UNCHANGED <<args, desired, base, ctx>>
        /\ Did(p, "write", cur[p].entry)
    BY <1>2, <1>13 DEF WriteFile, Exit
  <2> QED
    BY <1>1, <2>1, DidPlan DEF Routed, Called, Dropped, ChangedUnits
<1>14. CASE FilesDone(p) \/ UnitsDone(p) \/ OpenRecord(p) \/ WriteRecord(p)
  BY <1>1, <1>2, <1>14 DEF FilesDone, UnitsDone, OpenRecord, WriteRecord, Routed, Called, Dropped, ChangedUnits
<1>15. CASE StampUserdata(p) \/ Publish(p)
  BY <1>1, <1>2, <1>15 DEF StampUserdata, Publish, Routed, Called, Dropped, ChangedUnits
<1>16. CASE PostVerify(p)
  BY <1>1, <1>2, <1>3, <1>16 DEF PostVerify, Routed, Called, Dropped, ChangedUnits
<1> QED
  BY <1>4, <1>5, <1>6, <1>7, <1>8, <1>9, <1>10, <1>11, <1>12, <1>13, <1>14, <1>15, <1>16
     DEF OwnStep, QuietStep

LEMMA OwnStepInv == ASSUME IInv, DInv, NEW p \in Procs, OwnStep(p) PROVE DInv'
<1>1. Data'
  <2>1. CASE QuietStep(p)
    BY <2>1, StepData
  <2>2. CASE AcquireExternal(p)
    BY <2>2, StopData DEF AcquireExternal, machine, DInv, Data
  <2>3. CASE AcquireInternal(p)
    <3>1. bootDefault \in Snaps
      BY SnapAssumption DEF IInv, Numbers, Snaps
    <3> QED
      BY <2>3, <3>1 DEF AcquireInternal, OpenSnapshot, DInv, Data
  <2> QED
    BY <2>1, <2>2, <2>3 DEF OwnStep
<1>2. \A q \in Procs \ {p} : UNCHANGED Local(q)
  BY StepLocal DEF DInv
<1>3. Placed' /\ Planned'
  <2>1. \A q \in Procs \ {p} :
          (pc[q] \in Late => ctx[q] \in Snaps)' /\ Routed(q)' /\ Called(q)'
    BY <1>2 DEF DInv, Placed, Planned, Routed, Called, Dropped, ChangedUnits, Local
  <2> QED
    BY <2>1, StepPlanned DEF Placed, Planned
<1> QED
  BY <1>1, <1>3 DEF DInv

-----------------------------------------------------------------------------
(* The machine around the program *)

LEMMA InputsTyped == ASSUME Data, NEW verb PROVE Inputs(verb) \subseteq Manifest
BY UniverseAssumption, EmptyManifestTyped DEF Data, Inputs

LEMMA BeginInv ==
  ASSUME IInv, DInv, NEW p \in Procs, NEW verb \in Verbs, NEW mode, NEW inside,
         NEW m \in Manifest, NEW marker, Begin(p, verb, mode, inside, m, marker),
         snap' \in [Snaps -> RootTrees], UNCHANGED <<userdata, outfile>>
  PROVE  DInv'
<1>1. \A q \in Procs \ {p} : UNCHANGED Local(q)
  BY DEF Begin, Exit, Goto, Local, IInv, Numbers, Shape, DInv, Data
<1>2. NoPlan \in Plans
  BY DEF NoPlan, Plans
<1>3. Data'
  BY <1>2, EmptyManifestTyped DEF Begin, DInv, Data
<1>4. /\ pc'[p] \in {"load", "describe", "done"}
      /\ args'[p].verb = verb
      /\ pc'[p] = "load" <=> verb = "apply" /\ pc'[p] # "done"
      /\ plan'[p] = NoPlan
  BY DEF Begin, Exit, Goto, IInv, Numbers, Shape, DInv, Data
<1>5. (pc[p] \in Late => ctx[p] \in Snaps)' /\ Routed(p)' /\ Called(p)'
  BY <1>4 DEF Routed, Called, Dropped, ChangedUnits, NoPlan, NamesOf, Late, Labels, Early
<1>6. \A q \in Procs \ {p} :
        (pc[q] \in Late => ctx[q] \in Snaps)' /\ Routed(q)' /\ Called(q)'
  BY <1>1 DEF DInv, Placed, Planned, Routed, Called, Dropped, ChangedUnits, Local
<1> QED
  BY <1>3, <1>5, <1>6 DEF DInv, Placed, Planned

LEMMA InvokeData == ASSUME IInv, DInv, NEW p \in Procs, Invoke(p) PROVE DInv'
<1>1. PICK verb \in OutsideVerbs, mode \in OutsideModes : \E m \in Inputs(verb) :
        Begin(p, verb, mode, FALSE, m, MarkerPresent)
  BY DEF Invoke
<1> QED
  BY <1>1, BeginInv, InputsTyped, VerbAssumption DEF Invoke, machine, DInv, Data

LEMMA TuRunData == ASSUME IInv, DInv, NEW p \in Procs, TuRun(p) PROVE DInv'
<1>1. PICK verb \in Verbs, mode \in InsideModes : \E m \in Inputs(verb) :
        Begin(p, verb, mode, TRUE, m, TRUE)
  BY DEF TuRun
<1>2. PICK m \in Inputs(verb) : Begin(p, verb, mode, TRUE, m, TRUE)
  BY <1>1
<1>3. snap' \in [Snaps -> RootTrees] /\ UNCHANGED <<userdata, outfile>>
  <2>1. snap \in [Snaps -> RootTrees] /\ bootDefault \in Snaps
    BY SnapAssumption DEF IInv, Numbers, Snaps, DInv, Data
  <2>2. /\ snap' = [snap EXCEPT ![nextSnap] = snap[bootDefault]]
        /\ UNCHANGED <<userdata, outfile>>
    BY DEF TuRun
  <2> QED
    BY <2>1, <2>2
<1>4. m \in Manifest
  BY InputsTyped DEF DInv
<1> QED
  BY <1>2, <1>3, <1>4, BeginInv

LEMMA EditData == ASSUME IInv, DInv, Edit PROVE DInv'
<1>1. running \in Snaps
  BY SnapAssumption DEF IInv, Numbers, Snaps
<1>2. snap[running] \in RootTrees
  BY <1>1 DEF DInv, Data
<1>3. \A f \in Paths, node \in EditNodes : PutFile(snap[running], f, node) \in RootTrees
  BY <1>2, PutFileTree, UniverseAssumption DEF Given
<1>4. \A u \in Units, s \in EditStates : PutUnit(snap[running], u, s) \in RootTrees
  BY <1>2, PutUnitTree DEF States
<1>5. snap' \in [Snaps -> RootTrees]
  BY <1>1, <1>3, <1>4 DEF Edit, DInv, Data
<1> QED
  BY <1>5 DEF Edit, proc, DInv, Data, Placed, Planned, Routed, Called, Dropped, ChangedUnits

LEMMA RebootData == ASSUME IInv, DInv, Reboot PROVE DInv'
<1>1. \A q \in Procs : pc'[q] = pc[q] \/ pc'[q] = "done"
  BY DEF Reboot
<1>2. \A q \in Procs : Routed(q)' /\ Called(q)'
  BY <1>1 DEF Reboot, DInv, Planned, Routed, Called, Dropped, ChangedUnits, Late, Labels
<1>3. Placed'
  BY <1>1 DEF Reboot, DInv, Placed, Late, Labels
<1> QED
  BY <1>2, <1>3 DEF Reboot, DInv, Data, Planned

LEMMA OtherData ==
  ASSUME IInv, DInv, TuEnd \/ UNCHANGED vars \/ (\E p \in Procs : Activate(p)) PROVE DInv'
<1>1. /\ snap' \in [Snaps -> RootTrees]
      /\ UNCHANGED <<userdata, outfile, pc, args, desired, base, plan, ctx, lock, cur>>
  BY UniverseAssumption DEF TuEnd, Activate, vars, machine, proc, DInv, Data
<1> QED
  BY <1>1 DEF DInv, Data, Placed, Planned, Routed, Called, Dropped, ChangedUnits

LEMMA NextDInv == IInv /\ DInv /\ [Next]_vars => DInv'
<1> SUFFICES ASSUME IInv, DInv, [Next]_vars PROVE DInv'
  OBVIOUS
<1> QED
  BY StepCases, OwnStepInv, InvokeData, TuRunData, EditData, RebootData, OtherData DEF OwnStep

(* compute_intent_diff, the convergers: a plan has nothing in it but the difference of *)
(* the desired manifest from the loaded record, and a step takes from it what it did.  *)
THEOREM PlanInvariant == Spec => []DInv
BY InitData, NextDInv, Invariant, PTL DEF Spec

(* acquire_transaction_context, the convergers, write_applied_record, init and the *)
(* machine around them keep the state well-formed: snapshot numbers are fresh, the  *)
(* booted and the default snapshot exist, no live process loses its context root,    *)
(* and every tree, manifest, plan and record is made of what the machine was given.  *)
THEOREM TypeCorrect == Spec => []TypeOK
BY Invariant, PlanInvariant, PTL DEF IInv, DInv, TypeOK
=============================================================================
