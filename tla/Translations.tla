----------------------------- MODULE Translations -----------------------------
(***************************************************************************)
(* The program exists three times, in C++, Go and Rust.  The intent diff    *)
(* and all of the drift report but its packages are the same function in    *)
(* the three; this module has the packages of the Go and the Rust drift.     *)
(***************************************************************************)
EXTENDS DiffDrift

CONSTANT Release   \* the fields of a PackageRecord that version it

(* diff.go pkgKey: a record without version and release is known by its name  *)
(* and architecture, on both sides.                                          *)
GoKey(x) ==
  IF \A k \in Release : x[k] = Wildcard
    THEN [k \in (DOMAIN x) \ Release |-> x[k]]
    ELSE x

(* diff.rs pkg_identity: every field counts. *)
RsKey(x) == x

Missing(S, T, Key(_)) == {x \in S : Key(x) \notin {Key(y) : y \in T}}

(* diff.go ComputeDrift: the scopes are compared both ways. *)
GoPackagesDivergent(actual, reference) ==
  LET A == Elements(actual.packages)
      R == Elements(reference.packages) IN
  Missing(R, A, GoKey) \cup Missing(A, R, GoKey)

(* diff.rs compute_drift: both ways, when both scopes are in the documents. *)
RsPackagesDivergent(actual, reference) ==
  IF Absent \in {actual.packages, reference.packages} THEN {}
  ELSE Missing(reference.packages, actual.packages, RsKey)
         \cup Missing(actual.packages, reference.packages, RsKey)
=============================================================================
