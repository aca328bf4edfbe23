------------------------------ MODULE DiffDrift ------------------------------
(***************************************************************************)
(* The two pure comparisons of zypper-declarative (diffdrift.cpp).          *)
(*                                                                         *)
(* compute_intent_diff compares the desired manifest with the applied       *)
(* record and yields the work; compute_drift compares an actual state with  *)
(* a declaration and yields the divergence.  Neither performs I/O.          *)
(*                                                                         *)
(* A manifest is a record of scopes; a scope is Absent (unmanaged) or the   *)
(* set of its elements.  Vectors become sets: only membership and           *)
(* emptiness of a scope matter to its readers, except where a std::map is   *)
(* filled from a vector with repeated keys (see Named).                     *)
(***************************************************************************)

CONSTANTS
  Absent,       \* std::nullopt: the scope is not in the document
  Wildcard,     \* the empty string in a package field of a reference
  Syncpoint,    \* "/etc/etc.syncpoint"
  PkgFields,    \* the fields of a PackageRecord besides its name
  NoPackage     \* the empty package_name of an unpackaged file

Elements(scope) == IF scope = Absent THEN {} ELSE scope

NamesOf(S) == {e.name : e \in S}

(* The element a map lookup by name finds.  A later element of the vector    *)
(* overwrites an earlier one of the same name; the order of the vector is    *)
(* the enumeration order of a database and is not specified, so one element  *)
(* of that name is found, always the same for the same contents.             *)
Named(S, n) == CHOOSE e \in S : e.name = n

EmptyManifest ==
  [packages |-> Absent, repositories |-> Absent, services |-> Absent,
   config_files |-> Absent, changed_managed_files |-> Absent,
   unmanaged_files |-> Absent]

-----------------------------------------------------------------------------
(* compute_intent_diff *)

DroppedNames(desired, applied) ==
  IF desired = Absent THEN {} ELSE NamesOf(Elements(applied)) \ NamesOf(desired)

StateChanged_mutant(u, applied) ==
  /\ u.name \in NamesOf(Elements(applied))
  /\ Named(Elements(applied), u.name).state # u.state

StateChanged(u, applied) ==
  \/ u.name \notin NamesOf(Elements(applied))
  \/ Named(Elements(applied), u.name).state # u.state

ComputeIntentDiff(desired, applied) ==
  [packages_install |-> Elements(desired.packages),
   packages_remove  |-> DroppedNames(desired.packages, applied.packages),
   repos_set        |-> Elements(desired.repositories),
   files_write      |-> Elements(desired.config_files),
   files_delete     |-> DroppedNames(desired.config_files, applied.config_files),
   units_change     |-> {u \in Elements(desired.services) :
                           StateChanged(u, applied.services)}]

IntentEmpty(d) == \A work \in DOMAIN d : d[work] = {}

-----------------------------------------------------------------------------
(* compute_drift *)

PkgMatches_mutant(ref, act) ==
  \E k \in PkgFields : ref[k] = Wildcard \/ ref[k] = act[k]

(* An empty field of the reference matches any actual value. *)
PkgMatches(ref, act) ==
  \A k \in PkgFields : ref[k] = Wildcard \/ ref[k] = act[k]

(* Type is part of a file's identity; data stands for sha256 when the type   *)
(* is "file" and for target when it is "link".  Mode, user and group of an   *)
(* entry take no part in the comparison.                                     *)
FileDiffers(e, a) ==
  \/ a.type # e.type
  \/ e.type \in {"file", "link"} /\ a.data # e.data

FilesModified(actual, reference) ==
  {e.name : e \in {x \in Elements(reference.config_files) :
     /\ x.name \in NamesOf(Elements(actual.config_files))
     /\ FileDiffers(x, Named(Elements(actual.config_files), x.name))}}

FilesExtra(actual, reference, keep) ==
  {a.name : a \in {x \in Elements(actual.config_files) :
     /\ x.name \notin NamesOf(Elements(reference.config_files))
     /\ x.package_name = NoPackage
     /\ x.name # Syncpoint
     /\ x.name \notin keep}}

UnitsDivergent(actual, reference) ==
  {u \in Elements(reference.services) :
     /\ u.name \in NamesOf(Elements(actual.services))
     /\ Named(Elements(actual.services), u.name).state # u.state}

PackagesDivergent(actual, reference) ==
  {r \in Elements(reference.packages) :
     \/ r.name \notin NamesOf(Elements(actual.packages))
     \/ ~PkgMatches(r, Named(Elements(actual.packages), r.name))}

(* The integrity categories of a full scan: presence is itself drift. *)
Integrity(scope, keep) == NamesOf(Elements(scope)) \ keep

ComputeDrift(actual, reference, keep) ==
  [files_modified          |-> FilesModified(actual, reference),
   files_extra             |-> FilesExtra(actual, reference, keep),
   units_divergent         |-> UnitsDivergent(actual, reference),
   packages_divergent      |-> PackagesDivergent(actual, reference),
   managed_files_modified  |-> Integrity(actual.changed_managed_files, keep),
   unmanaged_files_present |-> Integrity(actual.unmanaged_files, keep)]

DriftEmpty(r) == \A category \in DOMAIN r : r[category] = {}
=============================================================================
