----------------------------- MODULE ApplyClaims -----------------------------
(***************************************************************************)
(* What the repository's documents say of apply and init and the C++ code   *)
(* does not do.  Each is checked by a run that finds a counterexample.      *)
(***************************************************************************)
EXTENDS ApplyProperties

(* README.md: re-running apply against an unchanged manifest and an undrifted *)
(* system creates no new snapshot.  compute_intent_diff lists every declared  *)
(* element as work, so only a manifest that declares nothing is a no-op.      *)
SameScopes(m, r) ==
  \A scope \in DOMAIN m : m[scope] # Absent => m[scope] = r[scope]

NoOpWhenConverged ==
  [][\A p \in Procs : opened'[p] /\ ~opened[p] /\ args[p].verb = "apply" =>
       ~ /\ SameScopes(desired[p], AppliedRecord(p))
         /\ DriftEmpty(ComputeDrift(Describe(snap[Root(p)], Everything(snap[Root(p)]), FALSE),
                                    desired[p], KeepList))]_vars

(* BEHAVIOR apply, postconditions: after exit 0 the managed scopes equal the  *)
(* desired manifest.  Not even one of four parts of that is sure to hold.      *)

(* Every declared package is there.  converge_packages removes what the record *)
(* lists and the manifest does not, and the record is a lock of all that was    *)
(* installed: a dependency that the manifest does not name goes, and the        *)
(* declared package that needs it goes with it.                               *)
PackagesHold(t, m) == HasPackages(t, m, {})

(* Those that are there have the declared version.  converge_packages installs *)
(* the bare name, and post-verify compares with the lock, which is what it got. *)
PinsHold(t, m) ==
  \A x \in Elements(m.packages), y \in t.pkgs : y.name = x.name => PkgMatches(x, y)

(* Files have their mode.  converge_files leaves the one it finds, or the       *)
(* umask's, and compute_drift compares no modes.                              *)
ModesHold(t, m) ==
  \A e \in Elements(m.config_files) :
    e.type = "file" /\ t.files[e.name].type = "file" => t.files[e.name].mode = e.mode

(* The declared repositories are there.  Nothing reads repos_set.              *)
ReposHold(t, m) == Elements(m.repositories) \subseteq t.repos

ExitZeroEqualsInPart ==
  \A p \in Procs : Applied(p) =>
    LET t == snap[ctx[p]]
        m == desired[p] IN
    PackagesHold(t, m) \/ PinsHold(t, m) \/ ModesHold(t, m) \/ ReposHold(t, m)
=============================================================================
