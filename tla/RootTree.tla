------------------------------ MODULE RootTree ------------------------------
(***************************************************************************)
(* A root file system tree (a btrfs snapshot) as zypper-declarative sees    *)
(* and changes it: the installed packages of its rpmdb, its repositories,   *)
(* the enablement of its units, the files under its /etc and the applied    *)
(* record in its /usr/lib/zypper-declarative/applied.json.                  *)
(*                                                                         *)
(* Describe is describe_actual_state (describe.cpp) over such a tree with   *)
(* scope=etc.  Contents are identified with their digests.                  *)
(***************************************************************************)
EXTENDS DiffDrift

CONSTANTS
  Paths,        \* the paths under /etc that the model tells apart
  Units,        \* unit names
  Ships,        \* package name -> (path -> the node the package installs)
  Requires,     \* package name -> all the packages it needs, through others too
  KeepList,     \* the paths of the keep-list file
  NoFile        \* nothing at that path

ASSUME RequiresAssumption ==
  /\ Requires \in [DOMAIN Ships -> SUBSET DOMAIN Ships]
  /\ \A n \in DOMAIN Ships : \A m \in Requires[n] : Requires[m] \subseteq Requires[n]

DeclarableStates == {"enabled", "disabled", "masked"}

(* The packages of tree t that own path f. *)
Owners(t, f) == {x \in t.pkgs : f \in DOMAIN Ships[x.name]}

(* package_db.cpp file_baseline: without a readable rpmdb every path is      *)
(* unowned.                                                                  *)
Owned(t, f, rpmdb) == rpmdb /\ Owners(t, f) # {}

(* judge_etc_entry: an owned path is suppressed when it is on disk what its  *)
(* package installed.                                                        *)
Pristine(t, f, rpmdb) ==
  /\ Owned(t, f, rpmdb)
  /\ \E x \in Owners(t, f) : t.files[f] = Ships[x.name][f]

(* walk_etc: the syncpoint and keep-listed paths are never looked at. *)
Emitted(t, rpmdb) ==
  {f \in Paths : /\ t.files[f] # NoFile
                 /\ f # Syncpoint
                 /\ f \notin KeepList
                 /\ ~Pristine(t, f, rpmdb)}

FileRecord(t, f, rpmdb, store) ==
  [name         |-> f,
   type         |-> t.files[f].type,
   data         |-> t.files[f].data,
   mode         |-> t.files[f].mode,
   content_ref  |-> store /\ t.files[f].type = "file",
   package_name |-> IF Owned(t, f, rpmdb)
                      THEN (CHOOSE x \in Owners(t, f) : TRUE).name
                      ELSE NoPackage]

(* A genuinely empty scope is omitted. *)
Scope(S) == IF S = {} THEN Absent ELSE S

(* What a description gets to read: whether the rpmdb opens, and which         *)
(* repositories, units and paths.  The others are left out without an error:   *)
(* read_services looks neither at the status of systemctl nor at a listing     *)
(* that was cut off, and what cannot be read below repos.d or /etc is omitted  *)
(* under on_unreadable=warn.                                                  *)
Everything(t) == [rpmdb |-> TRUE, repos |-> t.repos, units |-> Units, files |-> Paths]

ReadUnits(t, got) == {u \in got.units : t.units[u] \in DeclarableStates}

Describe(t, got, store) ==
  [EmptyManifest EXCEPT
     !.packages     = Scope(IF got.rpmdb THEN t.pkgs ELSE {}),
     !.repositories = Scope(got.repos),
     !.services     = Scope({[name |-> u, state |-> t.units[u]] : u \in ReadUnits(t, got)}),
     !.config_files = Scope({FileRecord(t, f, got.rpmdb, store) :
                               f \in Emitted(t, got.rpmdb) \cap got.files})]

-----------------------------------------------------------------------------
(* The external commands, as converge.cpp uses them. *)

(* The packages in `names' come to version v; a file already on disk is kept. *)
Bring(t, names, v) ==
  [t EXCEPT !.pkgs = {x \in @ : x.name \notin names}
                       \cup {[name |-> m, version |-> v] : m \in names},
            !.files = [f \in Paths |->
                         IF @[f] = NoFile /\ \E m \in names : f \in DOMAIN Ships[m]
                           THEN Ships[CHOOSE m \in names : f \in DOMAIN Ships[m]][f]
                           ELSE @[f]]]

(* zypper install <name>: the name is brought to version v, whatever version *)
(* the manifest names, and with it what it needs and is not installed.        *)
Install(t, n, v) == Bring(t, {n} \cup (Requires[n] \ NamesOf(t.pkgs)), v)

(* The packages `names' go, and their files with them. *)
Drop(t, names) ==
  [t EXCEPT !.pkgs = {x \in @ : x.name \notin names},
            !.files = [f \in Paths |->
                         IF \E m \in names : f \in DOMAIN Ships[m] THEN NoFile ELSE @[f]]]

(* zypper remove <name>: the packages that need it go too. *)
Dependants(n) == {m \in DOMAIN Ships : n \in Requires[m]}

Remove(t, n) ==
  IF n \notin NamesOf(t.pkgs) THEN t
  ELSE Drop(t, ({n} \cup Dependants(n)) \cap NamesOf(t.pkgs))

PutFile(t, f, node) == [t EXCEPT !.files[f] = node]
PutUnit(t, u, s) == [t EXCEPT !.units[u] = s]
PutRecord(t, r) == [t EXCEPT !.rec = r]
=============================================================================
