----------------------------- MODULE Generations -----------------------------
(***************************************************************************)
(* What zypper-declarative promises of the generations of a machine: the    *)
(* tree that is booted and the tree that boots next change as wholes.  The  *)
(* next one is replaced only by a tree that is what its own applied record  *)
(* declares, or by the copy of a next one that a transaction opened and     *)
(* nothing wrote to; the booted one is replaced only at boot, by the next   *)
(* one, and between boots it changes only under an administrator's hand.    *)
(***************************************************************************)
CONSTANTS
  Converged(_),   \* a tree is what its applied record declares
  None            \* no tree
VARIABLES
  live,     \* the booted tree
  next,     \* the tree that boots next
  staged,   \* a generation other than the booted one is set to boot next
  draft     \* the copy that the open transaction did not write to yet, or None

gvars == <<live, next, staged, draft>>

Start == ~staged /\ next = live /\ draft = None

Open ==
  /\ draft = None
  /\ draft' = next
  /\ UNCHANGED <<live, next, staged>>

(* The transaction is written to, or ends without a commit. *)
Take ==
  /\ draft' = None
  /\ UNCHANGED <<live, next, staged>>

Commit ==
  /\ Converged(next') \/ (draft # None /\ next' = draft)
  /\ staged' = TRUE
  /\ draft' \in {draft, None}
  /\ UNCHANGED live

Boot ==
  /\ live' = next
  /\ staged' = FALSE
  /\ draft' = None
  /\ UNCHANGED next

(* Drift: the next generation is a tree of its own once it is staged. *)
Drift ==
  /\ next' = IF staged THEN next ELSE live'
  /\ UNCHANGED <<staged, draft>>

Spec == Start /\ [][Open \/ Take \/ Commit \/ Boot \/ Drift]_gvars
=============================================================================
