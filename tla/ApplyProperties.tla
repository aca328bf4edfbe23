--------------------------- MODULE ApplyProperties ---------------------------
(***************************************************************************)
(* What apply and init promise, stated of the machine and of the processes  *)
(* in module Apply.                                                         *)
(***************************************************************************)
EXTENDS Apply

Labels == {"idle", "load", "compare", "describe", "acquire", "packages", "files",
           "writing", "units", "record", "recording", "stamp", "verify",
           "publish", "seal", "done"}

-----------------------------------------------------------------------------
(* The universes that the values of the constants span *)

Declared(scope) == UNION {Elements(m[scope]) : m \in Manifests}

(* The nodes that a package, an administrator or the installation brings. *)
Given ==
  ({InitialTree.files[f] : f \in Paths} \cup EditNodes
     \cup UNION {{Ships[n][f] : f \in DOMAIN Ships[n]} : n \in DOMAIN Ships}) \ {NoFile}

FileTypes == {"file"} \cup {x.type : x \in Given \cup Declared("config_files")}
Modes == {DefaultMode} \cup {x.mode : x \in Given \cup Declared("config_files")}
Digests == {EmptyDigest, CorruptDigest} \cup {x.data : x \in Given \cup Declared("config_files")}
Versions == RepoVersions \cup {x.version : x \in InitialTree.pkgs \cup Declared("packages")}
States == DeclarableStates \cup EditStates \cup {InitialTree.units[u] : u \in Units}
            \cup {u.state : u \in Declared("services")}

Node == [type : FileTypes, data : Digests, mode : Modes]
PackageRecord == [name : DOMAIN Ships, version : Versions]
PackageEntry == [name : DOMAIN Ships \cup {NoPackage}, version : Versions]
UnitRecord == [name : Units, state : States]
EtcFile == [name : Paths, type : FileTypes, data : Digests, mode : Modes,
            content_ref : BOOLEAN, package_name : {NoPackage} \cup DOMAIN Ships]
RepoRecord == InitialTree.repos \cup Declared("repositories")

ScopeOf(S) == {Absent} \cup SUBSET S

Manifest ==
  [packages : ScopeOf(PackageEntry), repositories : ScopeOf(RepoRecord),
   services : ScopeOf(UnitRecord), config_files : ScopeOf(EtcFile),
   changed_managed_files : {Absent}, unmanaged_files : {Absent}]

RootTrees ==
  [pkgs : SUBSET PackageRecord, repos : SUBSET RepoRecord, units : [Units -> States],
   files : [Paths -> Node \cup {NoFile}], rec : Manifest \cup {None, Torn}]

Plans ==
  [install : SUBSET PackageEntry, remove : SUBSET (DOMAIN Ships \cup {NoPackage}),
   write : SUBSET EtcFile, delete : SUBSET Paths, units : SUBSET UnitRecord]

(* Names are those of the model's packages, paths and units, and what stands    *)
(* for the absence of a value is none.                                        *)
ASSUME UniverseAssumption ==
  Given \subseteq Node /\ InitialTree \in RootTrees /\ Manifests \subseteq Manifest
ASSUME SentinelAssumption ==
  /\ NoFile \notin Node /\ NoPackage \notin DOMAIN Ships
  /\ None \notin Manifest \cup [entry : EtcFile, got : Digests]
  /\ Torn \notin Manifest /\ None # Torn /\ None \notin RootTrees
  /\ \A S \in {PackageEntry, RepoRecord, UnitRecord, EtcFile} : Absent \notin SUBSET S

(* Snapshot numbers are handed out once, the booted and the default snapshot  *)
(* exist, and a live process past acquire has an existing context root.       *)
Numbers ==
  /\ nextSnap \in 1..(MaxSnap + 1)
  /\ running \in present
  /\ bootDefault \in present
  /\ present \subseteq 0..(nextSnap - 1)
  /\ tu # None => tu.snap \in present /\ tu.proc \in Procs
  /\ edits \in 0..MaxEdits
  /\ pc \in [Procs -> Labels]
  /\ exit \in [Procs -> {None, 0, 1, 2, Killed}]
  /\ opened \in [Procs -> BOOLEAN]
  /\ \A p \in Procs :
       /\ ctx[p] \in {None} \cup 0..(nextSnap - 1)
       /\ Alive(p) /\ ctx[p] # None => ctx[p] \in present
       /\ Alive(p) => exit[p] = None

(* A torn record is found in a tree and nowhere else. *)
Data ==
  /\ snap \in [Snaps -> RootTrees]
  /\ userdata \in [Snaps -> Manifest \cup {None}]
  /\ outfile \in Manifest \cup {None}
  /\ desired \in [Procs -> Manifest]
  /\ base \in [Procs -> Manifest]
  /\ plan \in [Procs -> Plans]
  /\ lock \in [Procs -> SUBSET PackageRecord]
  /\ cur \in [Procs -> [entry : EtcFile, got : Digests] \cup {None}]

(* The numbers are in order, and every tree, manifest and plan is one over the *)
(* names, contents and versions that the machine was given: nothing is made up. *)
TypeOK == Numbers /\ Data

-----------------------------------------------------------------------------
(* A successful run *)

(* The tree a successful run left, until it is booted and others may write    *)
(* it: snapshots are booted in the order of their numbers.                   *)
Left(p) ==
  /\ pc[p] = "done" /\ exit[p] = 0
  /\ ctx[p] # None /\ ctx[p] > running

(* A declared regular file with a digest is on disk with it.  A write through *)
(* a symbolic link leaves the content behind the link.                       *)
FileHolds(t, e) ==
  e.type = "file" /\ e.data # NoHash =>
    /\ t.files[e.name] # NoFile
    /\ t.files[e.name].type = "link" \/ t.files[e.name].data = e.data

UnitHolds(t, u) ==
  {u.state, t.units[u.name]} \subseteq DeclarableStates => t.units[u.name] = u.state

(* A managed config_files scope leaves no undeclared file that nobody owns. *)
Extras(t, m) ==
  IF m.config_files = Absent THEN {}
  ELSE {f \in Paths \ (KeepList \cup {Syncpoint}) :
          t.files[f] # NoFile /\ Owners(t, f) = {}} \ NamesOf(m.config_files)

Configured(t, m) ==
  /\ Extras(t, m) = {}
  /\ \A e \in Elements(m.config_files) : FileHolds(t, e)
  /\ \A u \in Elements(m.services) : UnitHolds(t, u)

(* Whether tree t has every package that manifest m declares, but for those    *)
(* that needed one that was dropped: zypper removes them with it.              *)
HasPackages(t, m, dropped) ==
  \A x \in Elements(m.packages) :
    x.name \in NamesOf(t.pkgs) \cup {NoPackage} \/ Requires[x.name] \cap dropped # {}

Dropped(p) == DroppedNames(desired[p].packages, base[p].packages)

Applied(p) == Left(p) /\ args[p].verb = "apply"

(* verbs.cpp verb_apply: when no description leaves out a unit or a file that  *)
(* is there, exit 0 after a transaction means that the tree of the transaction *)
(* holds every declared file and unit state, no file nobody declared, and the  *)
(* declared packages, whatever else failed, was damaged or was killed on the   *)
(* way.  The packages are compared with the lock, which is read after the      *)
(* removals: a declared one that needed a dropped package may be gone.         *)
ExitZeroConverged ==
  \A p \in Procs : Applied(p) =>
    Configured(snap[ctx[p]], desired[p]) /\ HasPackages(snap[ctx[p]], desired[p], Dropped(p))

(* A unit whose state is not the one of the loaded record was enabled,         *)
(* disabled or masked, unless it is masked and should not be.                 *)
UnitChanged(t, u, applied) ==
  StateChanged(u, applied) /\ u.state \in DeclarableStates =>
    t.units[u.name] \in {u.state, "masked"}

(* The convergers do not rest on the verification that follows: exit 0 also    *)
(* means, when the rpmdb, the systemctl or the files that it reads were        *)
(* silently unreadable, that every declared content was hashed and found       *)
(* right, every changed unit went through systemctl and every package through *)
(* zypper.                                                                   *)
ExitZeroCarriedOut ==
  \A p \in Procs : Applied(p) =>
    LET t == snap[ctx[p]] IN
    /\ \A e \in Elements(desired[p].config_files) : FileHolds(t, e)
    /\ \A u \in Elements(desired[p].services) : UnitChanged(t, u, base[p].services)
    /\ HasPackages(t, desired[p], Dropped(p))

(* An init that opens a snapshot of its own records there, in a copy of the    *)
(* default tree, what it read of "/", which another generation may be.        *)
InOneTree(p) == args[p].verb = "init" => ~opened[p]

(* write_applied_record: after exit 0 the record in the tree is the desired   *)
(* manifest with the packages that the tree's rpmdb reports, and the          *)
(* userdata of a snapshot this program opened names the same manifest.        *)
RecordOfTree ==
  \A p \in Procs : Left(p) =>
    /\ InOneTree(p) => snap[ctx[p]].rec = [desired[p] EXCEPT !.packages = snap[ctx[p]].pkgs]
    /\ opened[p] => userdata[ctx[p]] = desired[p]

(* The index in a snapshot's userdata never runs ahead of the record inside   *)
(* the snapshot: a stamped snapshot holds the whole record it is stamped for. *)
StampedRecordWhole ==
  \A s \in present : userdata[s] # None =>
    /\ snap[s].rec \notin {None, Torn}
    /\ snap[s].rec.config_files = userdata[s].config_files
    /\ snap[s].rec.services = userdata[s].services

(* verb_init: the record that a successful init leaves in a generation is     *)
(* what that generation is, so that a verify right after booting it matches.  *)
InitRecordsItsGeneration ==
  \A p \in Procs : Left(p) /\ args[p].verb = "init" /\ InOneTree(p) =>
    LET t == snap[ctx[p]] IN
    DriftEmpty(ComputeDrift(Describe(t, Everything(t), FALSE), t.rec, KeepList))

-----------------------------------------------------------------------------
(* What a step may touch *)

(* acquire_transaction_context: while the machine runs, the booted tree       *)
(* changes only under an administrator's hand, never by a converging process. *)
RunningUntouched ==
  [][running' = running /\ snap'[running] # snap[running] => edits' # edits]_vars

(* A tree is written by one process at a time: whatever interleaving of two   *)
(* runs, no process writes the context root of another.                       *)
OneWriter ==
  [][\A s \in present \cap present' : snap'[s] # snap[s] =>
       \/ s = running /\ edits' # edits
       \/ \E p \in Procs : /\ Alive(p) /\ ctx[p] = s
                           /\ \A q \in Procs \ {p} : Alive(q) => ctx[q] # s]_vars

(* converge_files: the only files it deletes are those the loaded record      *)
(* declares and the desired manifest does not, and never the syncpoint, a     *)
(* keep-listed path or a path owned by an installed package.                  *)
Deleted(p, f) ==
  /\ pc[p] = "files" /\ pc'[p] = "files" /\ ctx'[p] = ctx[p]
  /\ Tree(p).files[f] # NoFile /\ snap'[ctx[p]].files[f] = NoFile

DeletesJustified ==
  [][\A p \in Procs, f \in Paths : Deleted(p, f) =>
       /\ f \in NamesOf(Elements(base[p].config_files))
       /\ f \notin NamesOf(Elements(desired[p].config_files))
       /\ f # Syncpoint /\ f \notin KeepList
       /\ Owners(Tree(p), f) = {}]_vars

-----------------------------------------------------------------------------
(* Generations *)

(* A tree without a record declares nothing, and a record lists the packages   *)
(* that were there.                                                          *)
WholeTree(t) ==
  /\ t.rec # Torn
  /\ t.rec # None => Configured(t, t.rec) /\ HasPackages(t, t.rec, {})

(* The tree of the open transaction, until its command acquires it. *)
Draft == IF tu # None /\ ctx[tu.proc] # tu.snap THEN snap[tu.snap] ELSE None

Machine == INSTANCE Generations WITH
  Converged <- WholeTree,
  live <- snap[running], next <- snap[bootDefault], staged <- bootDefault # running,
  draft <- Draft

(* The detailed runs implement whole generations: no interleaving, failure or *)
(* kill ever puts a half-converged tree where the machine will boot, nor       *)
(* changes the booted tree.                                                   *)
ImplementsGenerations == Machine!Spec

(* Every run ends: no step waits for another process, and each of the         *)
(* convergers' loops runs out of work.                                        *)
EveryRunEnds == \A p \in Procs : Alive(p) ~> ~Alive(p)
=============================================================================
