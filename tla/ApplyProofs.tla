------------------------------ MODULE ApplyProofs ------------------------------
(***************************************************************************)
(* For any number of processes, snapshots, packages, paths and units: the   *)
(* state of the machine is well-formed, and, when processes outside of a     *)
(* transactional-update are in mode internal, the booted tree is never        *)
(* written by the program and no tree has two writers.                       *)
(***************************************************************************)
EXTENDS ApplyProperties, TLAPS

(* The labels before acquire_transaction_context. *)
Early == {"load", "compare", "describe", "acquire"}

Codes == {None, 0, 1, 2, Killed}

Shape ==
  /\ DOMAIN snap = Snaps
  /\ ctx \in [Procs -> {None} \cup Snaps]
  /\ tu \in {None} \cup [snap : Snaps, proc : Procs]
  /\ args \in [Procs -> [verb : Verbs \cup {None},
                         mode : InsideModes \cup OutsideModes \cup {None},
                         inside : BOOLEAN]]

(* The transaction of transactional-update is the root of its own command,    *)
(* and is neither booted nor the default before it ends.                      *)
Transaction ==
  /\ tu # None => tu.snap \notin {running, bootDefault}
  /\ \A p \in Procs : Alive(p) /\ args[p].inside => tu # None /\ tu.proc = p

(* A context root is acquired once.  A snapshot the program opened belongs to  *)
(* the process that opened it, and is not booted while the process lives.      *)
Contexts ==
  \A p \in Procs :
    /\ pc[p] \in Early => ctx[p] = None /\ ~opened[p]
    /\ Alive(p) /\ ctx[p] # None /\ ~opened[p] => ctx[p] = Root(p)
    /\ opened[p] => /\ ctx[p] \in present
                    /\ tu # None => ctx[p] # tu.snap
                    /\ Alive(p) => ctx[p] \notin {running, bootDefault}
                    /\ \A q \in Procs \ {p} : opened[q] => ctx[q] # ctx[p]

IInv == Numbers /\ Shape /\ Transaction /\ Contexts

(* What every step of a process does but those that acquire its context: it    *)
(* goes on or ends, and changes at most the tree of its context.              *)
Quiet(p) ==
  /\ Alive(p)
  /\ UNCHANGED <<present, nextSnap, running, bootDefault, tu, edits, args, ctx, opened>>
  /\ \E l \in Labels \ {"idle"} :
       /\ pc' = [pc EXCEPT ![p] = l]
       /\ l \in Early => pc[p] \in Early
       /\ l # "done" => exit' = exit
  /\ \E c \in Codes : exit' = [exit EXCEPT ![p] = c]
  /\ DOMAIN snap' = DOMAIN snap
  /\ \A s \in DOMAIN snap : s # ctx[p] => snap'[s] = snap[s]

-----------------------------------------------------------------------------
LEMMA InitInv == Init => IInv
<1> USE SnapAssumption, NoneAssumption
<1> SUFFICES ASSUME Init PROVE IInv
  OBVIOUS
<1>1. Shape
  BY DEF Init, Shape, NoArgs, Snaps
<1>2. Numbers
  BY DEF Init, Numbers, Labels, Alive
<1>3. Transaction /\ Contexts
  BY DEF Init, Transaction, Contexts, Alive, Early
<1> QED
  BY <1>1, <1>2, <1>3 DEF IInv

LEMMA QuietInv == ASSUME IInv, NEW p \in Procs, Quiet(p) PROVE IInv'
<1>1. PICK l \in Labels \ {"idle"} : /\ pc' = [pc EXCEPT ![p] = l]
                                     /\ l \in Early => pc[p] \in Early
                                     /\ l # "done" => exit' = exit
  BY DEF Quiet
<1>2. PICK c \in Codes : exit' = [exit EXCEPT ![p] = c]
  BY DEF Quiet
<1>3. \A q \in Procs : Alive(q)' => Alive(q)
  BY <1>1 DEF Alive, Quiet, IInv, Numbers
<1>4. Numbers'
  <2>1. pc' \in [Procs -> Labels] /\ exit' \in [Procs -> Codes]
    BY <1>1, <1>2 DEF IInv, Numbers, Codes
  <2>2. \A q \in Procs : Alive(q)' => exit'[q] = None
    BY <1>1, <1>2, <1>3 DEF IInv, Numbers, Alive, Quiet
  <2> QED
    BY <2>1, <2>2, <1>3 DEF IInv, Numbers, Quiet, Codes
<1>5. Shape'
  BY DEF Quiet, IInv, Shape
<1>6. Transaction'
  BY <1>3 DEF Quiet, IInv, Transaction
<1>7. Contexts'
  <2>1. \A q \in Procs : pc'[q] \in Early => pc[q] \in Early
    BY <1>1 DEF IInv, Numbers
  <2> QED
    BY <2>1, <1>3 DEF Quiet, IInv, Contexts, Root
<1> QED
  BY <1>4, <1>5, <1>6, <1>7 DEF IInv

-----------------------------------------------------------------------------
(* The steps that leave the machine and the context alone. *)
LEMMA StopQuiet ==
  ASSUME NEW p \in Procs, Alive(p), NEW code \in {0, 1, 2, Killed}, Stop(p, code)
  PROVE  Quiet(p)
BY DEF Stop, Exit, Goto, Quiet, machine, Labels, Early, Codes

LEMMA GotoQuiet ==
  ASSUME IInv, NEW p \in Procs, Alive(p), NEW l \in Labels \ {"idle", "done"}, Goto(p, l),
         l \in Early => pc[p] \in Early,
         UNCHANGED <<present, nextSnap, running, bootDefault, tu, edits, args, ctx, opened, exit>>,
         \/ UNCHANGED snap
         \/ \E t : ChangeTree(p, t)
  PROVE  Quiet(p)
<1>1. exit' = [exit EXCEPT ![p] = exit[p]] /\ exit[p] \in Codes
  BY DEF IInv, Numbers, Codes
<1>2. DOMAIN snap' = DOMAIN snap /\ \A s \in DOMAIN snap : s # ctx[p] => snap'[s] = snap[s]
  BY DEF ChangeTree
<1> QED
  BY <1>1, <1>2 DEF Goto, Quiet

(* A step inside a converger: the label stays. *)
LEMMA StayQuiet ==
  ASSUME IInv, NEW p \in Procs, Alive(p),
         UNCHANGED <<present, nextSnap, running, bootDefault, tu, edits, args, ctx, opened,
                     exit, pc>>,
         \/ UNCHANGED snap
         \/ \E t : ChangeTree(p, t)
  PROVE  Quiet(p)
<1>1. pc[p] \in Labels \ {"idle", "done"} /\ Goto(p, pc[p])
  BY DEF IInv, Numbers, Goto, Alive
<1> QED
  BY <1>1, GotoQuiet

(* Every step but the acquisition of a context is quiet, whatever fails. *)
QuietStep(p) ==
  \/ LoadFails(p) \/ Load(p) \/ Compare(p) \/ ReadFails(p) \/ Adopt(p)
  \/ AcquireFails(p)
  \/ InstallPackage(p) \/ RemovePackage(p) \/ ZypperFails(p) \/ ResolveLock(p)
  \/ SkipEntry(p) \/ OpenFile(p) \/ WriteFile(p) \/ DeleteFile(p)
  \/ FileFails(p) \/ FilesDone(p)
  \/ ChangeUnit(p) \/ SystemctlFails(p) \/ UnitsDone(p)
  \/ OpenRecord(p) \/ WriteRecord(p) \/ StampUserdata(p) \/ RecordFails(p)
  \/ PostVerify(p) \/ Publish(p) \/ PublishFails(p) \/ SealAndActivate(p)
  \/ Kill(p)

LEMMA StepsAreQuiet == ASSUME IInv, NEW p \in Procs, QuietStep(p) PROVE Quiet(p)
<1>1. ASSUME NEW l \in Labels \ {"idle", "done"}, pc[p] = l PROVE Alive(p)
  BY <1>1 DEF Alive
<1>2. ASSUME NEW code \in {0, 1, 2, Killed}, Alive(p), Stop(p, code) PROVE Quiet(p)
  BY <1>2, StopQuiet
<1> USE DEF Labels, Early, machine, world, StepVars
<1>3. CASE \/ LoadFails(p) \/ ReadFails(p) \/ AcquireFails(p) \/ ZypperFails(p) \/ FileFails(p)
           \/ SystemctlFails(p) \/ RecordFails(p) \/ PublishFails(p) \/ SealAndActivate(p)
           \/ Kill(p)
  BY <1>3, <1>1, <1>2 DEF LoadFails, ReadFails, AcquireFails, ZypperFails, FileFails,
     SystemctlFails, RecordFails, PublishFails, SealAndActivate, Kill
<1>4. CASE Load(p)
  <2>1. CASE Stop(p, 1)
    BY <1>4, <2>1, <1>1, <1>2 DEF Load
  <2>2. CASE ~Stop(p, 1)
    <3>1. PICK l \in {"compare", "acquire"} : Goto(p, l)
      BY <1>4, <2>2 DEF Load
    <3> QED
      BY <1>4, <2>2, <3>1, <1>1, GotoQuiet DEF Load
  <2> QED
    BY <2>1, <2>2
<1>5. CASE Compare(p)
  BY <1>5, <1>1, <1>2, GotoQuiet DEF Compare
<1>6. CASE Adopt(p)
  BY <1>6, <1>1, GotoQuiet DEF Adopt, AdoptOf
<1>7. CASE InstallPackage(p) \/ RemovePackage(p) \/ DeleteFile(p) \/ ChangeUnit(p) \/ SkipEntry(p)
  BY <1>7, <1>1, StayQuiet DEF InstallPackage, RemovePackage, DeleteFile, ChangeUnit, SkipEntry
<1>8. CASE \/ ResolveLock(p) \/ FilesDone(p) \/ UnitsDone(p)
  BY <1>8, <1>1, GotoQuiet DEF ResolveLock, FilesDone, UnitsDone
<1>9. CASE OpenFile(p) \/ OpenRecord(p) \/ WriteRecord(p)
  BY <1>9, <1>1, GotoQuiet DEF OpenFile, OpenRecord, WriteRecord
<1>10. CASE WriteFile(p)
  <2>1. /\ Alive(p)
        /\ \E t : ChangeTree(p, t)
        /\ UNCHANGED <<present, nextSnap, running, bootDefault, tu, edits, args, ctx, opened>>
        /\ Exit(p, 1) \/ (Goto(p, "files") /\ UNCHANGED exit)
    BY <1>10, <1>1 DEF WriteFile
  <2>2. CASE Exit(p, 1)
    BY <2>1, <2>2 DEF Exit, Goto, Quiet, ChangeTree, Codes
  <2>3. CASE Goto(p, "files") /\ UNCHANGED exit
    BY <2>1, <2>3, GotoQuiet
  <2> QED
    BY <2>1, <2>2, <2>3
<1>11. CASE StampUserdata(p)
  <2>1. PICK l \in {"verify", "publish"} : Goto(p, l)
    BY <1>11 DEF StampUserdata
  <2> QED
    BY <1>11, <2>1, <1>1, GotoQuiet DEF StampUserdata
<1>12. CASE PostVerify(p)
  BY <1>12, <1>1, <1>2, GotoQuiet DEF PostVerify
<1>13. CASE Publish(p)
  BY <1>13, <1>1, GotoQuiet DEF Publish
<1> QED
  BY <1>3, <1>4, <1>5, <1>6, <1>7, <1>8, <1>9, <1>10, <1>11, <1>12, <1>13 DEF QuietStep

-----------------------------------------------------------------------------
(* The steps that acquire a context. *)

LEMMA AcquireExternalInv == ASSUME IInv, NEW p \in Procs, AcquireExternal(p) PROVE IInv'
<1>1. CASE Stop(p, 2)
  BY <1>1, StopQuiet, QuietInv DEF AcquireExternal, Alive
<1>2. CASE ~Stop(p, 2)
  <2>1. /\ pc[p] = "acquire" /\ tu # None
        /\ ctx' = [ctx EXCEPT ![p] = Root(p)]
        /\ UNCHANGED <<machine, args, opened, exit>>
    BY <1>2 DEF AcquireExternal, MarkerPresent
  <2>2. PICK l \in {"packages", "record"} : pc' = [pc EXCEPT ![p] = l]
    BY <1>2 DEF AcquireExternal, AfterAcquire, Goto
  <2>3. Alive(p) /\ \A q \in Procs : Alive(q)' <=> Alive(q)
    BY <2>1, <2>2 DEF Alive, IInv, Numbers
  <2>4. Root(p) \in present /\ Root(p) \in Snaps /\ Root(p) \in 0..(nextSnap - 1)
    BY <2>1, SnapAssumption DEF Root, IInv, Numbers, Shape, Snaps
  <2>5. Numbers'
    BY <2>1, <2>2, <2>3, <2>4 DEF IInv, Numbers, Shape, machine, Labels
  <2>6. Shape' /\ Transaction'
    BY <2>1, <2>3, <2>4 DEF IInv, Shape, Transaction, machine
  <2>7. Contexts'
    BY <2>1, <2>2, <2>3 DEF IInv, Numbers, Shape, Contexts, Root, machine, Early
  <2> QED
    BY <2>5, <2>6, <2>7 DEF IInv
<1> QED
  BY <1>1, <1>2

LEMMA OpenSnapshotInv == ASSUME IInv, NEW p \in Procs, AcquireInternal(p) PROVE IInv'
<1> USE SnapAssumption
<1>1. /\ pc[p] = "acquire" /\ nextSnap \in Snaps
      /\ present' = present \cup {nextSnap}
      /\ snap' = [snap EXCEPT ![nextSnap] = snap[bootDefault]]
      /\ nextSnap' = nextSnap + 1
      /\ ctx' = [ctx EXCEPT ![p] = nextSnap]
      /\ opened' = [opened EXCEPT ![p] = TRUE]
      /\ UNCHANGED <<running, bootDefault, tu, edits, args, exit>>
  BY DEF AcquireInternal, OpenSnapshot, IInv, Numbers, Snaps
<1>2. PICK l \in {"packages", "record"} : pc' = [pc EXCEPT ![p] = l]
  BY DEF AcquireInternal, OpenSnapshot, AfterAcquire, Goto
<1>3. Alive(p) /\ \A q \in Procs : Alive(q)' <=> Alive(q)
  BY <1>1, <1>2 DEF Alive, IInv, Numbers
<1>4. nextSnap \notin present
  BY DEF IInv, Numbers
<1>5. Numbers'
  BY <1>1, <1>2, <1>3 DEF IInv, Numbers, Shape, Labels, Snaps
<1>6. Shape' /\ Transaction'
  BY <1>1, <1>3 DEF IInv, Shape, Transaction, Snaps
<1>7. Contexts'
  BY <1>1, <1>2, <1>3, <1>4 DEF IInv, Numbers, Shape, Contexts, Root, Early
<1> QED
  BY <1>5, <1>6, <1>7 DEF IInv

-----------------------------------------------------------------------------
(* A new invocation, inside of a transaction or not. *)

LEMMA InvokeInv == ASSUME IInv, NEW p \in Procs, Invoke(p) PROVE IInv'
<1>1. PICK verb \in Verbs, mode \in OutsideModes, m \in UNION {Inputs(v) : v \in Verbs} :
        Begin(p, verb, mode, FALSE, m, MarkerPresent)
  BY VerbAssumption DEF Invoke
<1>2. /\ ~Alive(p)
      /\ \E l \in {"done", "load", "describe"}, c \in {None, 2} :
           /\ pc' = [pc EXCEPT ![p] = l]
           /\ exit' = [exit EXCEPT ![p] = c]
           /\ l # "done" => c = None
      /\ ctx' = [ctx EXCEPT ![p] = None]
      /\ opened' = [opened EXCEPT ![p] = FALSE]
      /\ args' = [args EXCEPT ![p] = [verb |-> verb, mode |-> mode, inside |-> FALSE]]
  BY <1>1 DEF Begin, Exit, Goto
<1>3. PICK l \in {"done", "load", "describe"}, c \in {None, 2} :
        /\ pc' = [pc EXCEPT ![p] = l]
        /\ exit' = [exit EXCEPT ![p] = c]
        /\ l # "done" => c = None
  BY <1>2
<1>4. \A q \in Procs \ {p} : Alive(q)' <=> Alive(q)
  BY <1>3 DEF Alive, IInv, Numbers
<1>5. UNCHANGED machine
  BY DEF Invoke
<1>6. Numbers'
  BY <1>2, <1>3, <1>4, <1>5 DEF IInv, Numbers, Shape, Labels, Alive, machine
<1>7. Shape' /\ Transaction'
  BY <1>2, <1>4, <1>5 DEF IInv, Shape, Transaction, machine
<1>8. Contexts'
  BY <1>2, <1>3, <1>4, <1>5 DEF IInv, Numbers, Shape, Contexts, Root, machine, Early
<1> QED
  BY <1>6, <1>7, <1>8 DEF IInv

LEMMA TuRunInv == ASSUME IInv, NEW p \in Procs, TuRun(p) PROVE IInv'
<1> USE SnapAssumption, NoneAssumption
<1>1. PICK verb \in Verbs, mode \in InsideModes, m \in UNION {Inputs(v) : v \in Verbs} :
        Begin(p, verb, mode, TRUE, m, TRUE)
  BY DEF TuRun
<1>2. /\ ~Alive(p)
      /\ \E l \in {"done", "load", "describe"}, c \in {None, 2} :
           /\ pc' = [pc EXCEPT ![p] = l]
           /\ exit' = [exit EXCEPT ![p] = c]
           /\ l # "done" => c = None
      /\ ctx' = [ctx EXCEPT ![p] = None]
      /\ opened' = [opened EXCEPT ![p] = FALSE]
      /\ args' = [args EXCEPT ![p] = [verb |-> verb, mode |-> mode, inside |-> TRUE]]
  BY <1>1 DEF Begin, Exit, Goto
<1>3. PICK l \in {"done", "load", "describe"}, c \in {None, 2} :
        /\ pc' = [pc EXCEPT ![p] = l]
        /\ exit' = [exit EXCEPT ![p] = c]
        /\ l # "done" => c = None
  BY <1>2
<1>4. \A q \in Procs \ {p} : Alive(q)' <=> Alive(q)
  BY <1>3 DEF Alive, IInv, Numbers
<1>5. /\ tu = None /\ nextSnap \in Snaps
      /\ present' = present \cup {nextSnap}
      /\ snap' = [snap EXCEPT ![nextSnap] = snap[bootDefault]]
      /\ tu' = [snap |-> nextSnap, proc |-> p]
      /\ nextSnap' = nextSnap + 1
      /\ UNCHANGED <<running, bootDefault, edits>>
  BY DEF TuRun, IInv, Numbers, Snaps
<1>6. nextSnap \notin present /\ \A q \in Procs : Alive(q) => ~args[q].inside
  BY <1>5 DEF IInv, Numbers, Transaction
<1>7. tu' \in [snap : Snaps, proc : Procs] /\ tu' # None
      /\ tu'.snap = nextSnap /\ tu'.proc = p
  BY <1>5
<1>8. Numbers'
  BY <1>2, <1>3, <1>4, <1>5, <1>7 DEF IInv, Numbers, Shape, Labels, Alive, Snaps
<1>9. Shape'
  BY <1>2, <1>5, <1>7 DEF IInv, Shape
<1>10. Transaction'
  BY <1>2, <1>4, <1>5, <1>6, <1>7 DEF IInv, Numbers, Shape, Transaction
<1>11. Contexts'
  <2>1. ASSUME NEW q \in Procs \ {p} PROVE (Alive(q) /\ ctx[q] # None /\ ~opened[q] => ctx[q] = Root(q))'
    BY <1>2, <1>4, <1>5, <1>6 DEF IInv, Contexts, Root, Shape, Numbers
  <2> QED
    BY <2>1, <1>2, <1>3, <1>4, <1>5, <1>6, <1>7 DEF IInv, Numbers, Shape, Contexts, Early
<1> QED
  BY <1>8, <1>9, <1>10, <1>11 DEF IInv

-----------------------------------------------------------------------------
(* The machine around the program. *)

LEMMA TuEndInv == ASSUME IInv, TuEnd PROVE IInv'
<1>1. /\ tu # None /\ ~Alive(tu.proc) /\ tu' = None /\ tu \in [snap : Snaps, proc : Procs]
      /\ present \ {tu.snap} \subseteq present' /\ present' \subseteq present
      /\ bootDefault' \in {bootDefault, tu.snap}
      /\ bootDefault' = tu.snap => present' = present
      /\ DOMAIN snap' = DOMAIN snap
      /\ UNCHANGED <<nextSnap, running, edits, pc, args, ctx, opened, exit>>
  BY DEF TuEnd, IInv, Shape, Transaction, proc
<1>2. \A q \in Procs : Alive(q)' <=> Alive(q)
  BY <1>1 DEF Alive
<1>3. \A q \in Procs : Alive(q) => ~args[q].inside
  BY <1>1 DEF IInv, Transaction
<1>4. \A q \in Procs : Alive(q) /\ ctx[q] # None => ctx[q] \in present'
  BY <1>1, <1>3 DEF IInv, Numbers, Contexts, Root, Transaction
<1>5. running \in present' /\ bootDefault' \in present'
  BY <1>1 DEF IInv, Numbers, Transaction
<1>6. Numbers'
  BY <1>1, <1>2, <1>4, <1>5 DEF IInv, Numbers
<1>7. Shape' /\ Transaction'
  BY <1>1, <1>2, <1>3 DEF IInv, Shape, Transaction
<1>8. Contexts'
  BY <1>1, <1>2, <1>3 DEF IInv, Contexts, Root
<1> QED
  BY <1>6, <1>7, <1>8 DEF IInv

LEMMA ActivateInv == ASSUME IInv, NEW p \in Procs, Activate(p) PROVE IInv'
<1>1. /\ pc[p] = "done" /\ opened[p] /\ bootDefault' = ctx[p]
      /\ UNCHANGED <<present, snap, nextSnap, running, tu, edits, proc>>
  BY DEF Activate
<1>2. ~Alive(p) /\ \A q \in Procs : Alive(q)' <=> Alive(q)
  BY <1>1 DEF Alive, proc
<1>3. Numbers' /\ Shape' /\ Transaction'
  BY <1>1, <1>2 DEF IInv, Numbers, Shape, Transaction, Contexts, proc
<1>4. Contexts'
  BY <1>1, <1>2 DEF IInv, Contexts, Root, proc
<1> QED
  BY <1>3, <1>4 DEF IInv

LEMMA RebootInv == ASSUME IInv, Reboot PROVE IInv'
<1>1. \A q \in Procs : ~Alive(q)' /\ pc'[q] \notin Early /\ pc'[q] \in Labels
  BY DEF Reboot, Alive, Early, Labels, IInv, Numbers
<1>2. pc' \in [Procs -> Labels] /\ exit' \in [Procs -> {None, 0, 1, 2, Killed}]
  BY <1>1 DEF Reboot, IInv, Numbers
<1>3. Numbers'
  BY <1>1, <1>2 DEF Reboot, IInv, Numbers
<1>4. Shape' /\ Transaction'
  BY <1>1 DEF Reboot, IInv, Shape, Transaction
<1>5. Contexts'
  BY <1>1 DEF Reboot, IInv, Contexts
<1> QED
  BY <1>3, <1>4, <1>5 DEF IInv

LEMMA EditInv == ASSUME IInv, Edit PROVE IInv'
<1>1. /\ DOMAIN snap' = DOMAIN snap /\ edits' = edits + 1 /\ edits < MaxEdits
      /\ UNCHANGED <<present, nextSnap, running, bootDefault, tu, proc>>
  BY DEF Edit
<1>2. \A q \in Procs : Alive(q)' <=> Alive(q)
  BY <1>1 DEF Alive, proc
<1>3. Numbers' /\ Shape' /\ Transaction'
  BY <1>1, <1>2, SnapAssumption DEF IInv, Numbers, Shape, Transaction, proc
<1>4. Contexts'
  BY <1>1, <1>2 DEF IInv, Contexts, Root, proc
<1> QED
  BY <1>3, <1>4 DEF IInv

LEMMA StutterInv == ASSUME IInv, UNCHANGED vars PROVE IInv'
BY DEF vars, machine, proc, IInv, Numbers, Shape, Transaction, Contexts, Alive, Root

LEMMA StepCases ==
  ASSUME Next
  PROVE  \/ TuEnd \/ Reboot \/ Edit
         \/ \E p \in Procs : \/ Invoke(p) \/ TuRun(p) \/ Activate(p) \/ QuietStep(p)
                             \/ AcquireExternal(p) \/ AcquireInternal(p)
BY DEF Next, Environment, Step, QuietStep

LEMMA NextInv == IInv /\ [Next]_vars => IInv'
<1> SUFFICES ASSUME IInv, [Next]_vars PROVE IInv'
  OBVIOUS
<1>1. CASE Next
  BY <1>1, StepCases, TuEndInv, RebootInv, EditInv, InvokeInv, TuRunInv, ActivateInv,
     StepsAreQuiet, QuietInv, AcquireExternalInv, OpenSnapshotInv
<1>2. CASE UNCHANGED vars
  BY <1>2, StutterInv
<1> QED
  BY <1>1, <1>2

(* acquire_transaction_context: who owns which tree, at each step of each process, and *)
(* the numbers that snapshots get.                                                *)
THEOREM Invariant == Spec => []IInv
BY InitInv, NextInv, PTL DEF Spec

-----------------------------------------------------------------------------
(* Isolation, when a process outside of a transaction opens its own snapshot.   *)

Isolated ==
  \A p \in Procs : Alive(p) /\ ~args[p].inside =>
    /\ args[p].mode \in OutsideModes
    /\ ctx[p] # None => opened[p]

LEMMA IsolatedNext ==
  ASSUME OutsideModes \subseteq {"internal"}, IInv, Isolated, [Next]_vars
  PROVE  Isolated'
<1>1. ASSUME NEW p \in Procs, Quiet(p) PROVE Isolated'
  <2>1. \A q \in Procs : Alive(q)' => Alive(q)
    BY <1>1 DEF Quiet, Alive, IInv, Numbers
  <2> QED
    BY <1>1, <2>1 DEF Quiet, Isolated
<1>2. ASSUME NEW p \in Procs, AcquireExternal(p) PROVE Isolated'
  <2>1. CASE Stop(p, 2)
    BY <1>1, <2>1, <1>2, StopQuiet DEF AcquireExternal, Alive
  <2>2. CASE ~Stop(p, 2)
    <3>1. /\ Alive(p) /\ UNCHANGED <<args, opened>>
          /\ \A q \in Procs \ {p} : ctx'[q] = ctx[q]
          /\ \A q \in Procs : Alive(q)' => Alive(q)
      BY <1>2, <2>2 DEF AcquireExternal, Goto, Alive, IInv, Numbers, Shape
    <3>2. args[p].inside
      BY <1>2, <3>1 DEF AcquireExternal, Resolved, Isolated
    <3> QED
      BY <3>1, <3>2 DEF Isolated
  <2> QED
    BY <2>1, <2>2
<1>3. ASSUME NEW p \in Procs, AcquireInternal(p) PROVE Isolated'
  <2>1. \A q \in Procs : Alive(q)' => Alive(q)
    BY <1>3 DEF AcquireInternal, OpenSnapshot, Goto, Alive, IInv, Numbers
  <2> QED
    BY <1>3, <2>1 DEF AcquireInternal, OpenSnapshot, Isolated, IInv, Numbers, Shape
<1>4. ASSUME NEW p \in Procs, Invoke(p) \/ TuRun(p) PROVE Isolated'
  <2>1. PICK verb \in Verbs, mode \in InsideModes \cup OutsideModes, inside \in BOOLEAN :
          /\ ~inside => mode \in OutsideModes
          /\ args' = [args EXCEPT ![p] = [verb |-> verb, mode |-> mode, inside |-> inside]]
          /\ ctx' = [ctx EXCEPT ![p] = None]
          /\ opened' = [opened EXCEPT ![p] = FALSE]
    BY <1>4, VerbAssumption DEF Invoke, TuRun, Begin
  <2>2. \A q \in Procs \ {p} : Alive(q)' => Alive(q)
    BY <1>4 DEF Invoke, TuRun, Begin, Exit, Goto, Alive, IInv, Numbers
  <2> QED
    BY <2>1, <2>2 DEF Isolated, IInv, Numbers, Shape
<1>5. ASSUME TuEnd \/ Edit \/ UNCHANGED vars \/ \E p \in Procs : Activate(p) PROVE Isolated'
  BY <1>5 DEF TuEnd, Edit, Activate, vars, proc, Isolated, Alive
<1>6. ASSUME Reboot PROVE Isolated'
  BY <1>6 DEF Reboot, Isolated, Alive
<1> QED
  BY <1>1, <1>2, <1>3, <1>4, <1>5, <1>6, StepCases, StepsAreQuiet

(* acquire_transaction_context: a live process has the tree that it opened or that of  *)
(* its own transaction, never the booted one.                                      *)
THEOREM Isolation == ASSUME OutsideModes \subseteq {"internal"} PROVE Spec => []Isolated
<1>1. Init => Isolated
  BY DEF Init, Isolated, Alive
<1>2. IInv /\ Isolated /\ [Next]_vars => Isolated'
  BY IsolatedNext
<1> QED
  BY <1>1, <1>2, Invariant, PTL DEF Spec

(* Then the context root of a live process is a snapshot of its own.            *)
LEMMA OwnRoot ==
  ASSUME IInv, Isolated, NEW p \in Procs, Alive(p), ctx[p] # None
  PROVE  /\ ctx[p] \notin {running, bootDefault}
         /\ \A q \in Procs \ {p} : Alive(q) => ctx[q] # ctx[p]
<1>1. ASSUME NEW q \in Procs, Alive(q), ctx[q] # None, ~opened[q]
      PROVE  tu # None /\ tu.proc = q /\ ctx[q] = tu.snap
  BY <1>1 DEF IInv, Isolated, Contexts, Transaction, Root
<1> QED
  BY <1>1 DEF IInv, Contexts, Transaction

(* What a step may change of the trees that exist before and after it. *)
WritesOwn ==
  \A s \in present \cap present' : snap'[s] # snap[s] =>
    \/ s = running /\ edits' # edits
    \/ \E p \in Procs : Alive(p) /\ ctx[p] = s /\ running' = running

LEMMA StepWritesOwn == ASSUME IInv, [Next]_vars PROVE WritesOwn
<1> USE DEF WritesOwn, IInv
<1>1. \A s \in present : s \in DOMAIN snap /\ s # nextSnap
  BY SnapAssumption DEF Numbers, Shape, Snaps
<1>2. ASSUME NEW p \in Procs, Quiet(p) PROVE WritesOwn
  BY <1>1, <1>2 DEF Quiet
<1>3. ASSUME NEW p \in Procs, AcquireExternal(p) PROVE WritesOwn
  BY <1>3 DEF AcquireExternal, Stop, machine
<1>4. ASSUME NEW p \in Procs, AcquireInternal(p) \/ TuRun(p) PROVE WritesOwn
  BY <1>1, <1>4 DEF AcquireInternal, OpenSnapshot, TuRun
<1>5. ASSUME NEW p \in Procs, Invoke(p) \/ Activate(p) PROVE WritesOwn
  BY <1>5 DEF Invoke, Activate, machine
<1>6. ASSUME TuEnd PROVE WritesOwn
  BY <1>1, <1>6 DEF TuEnd
<1>7. ASSUME Edit PROVE WritesOwn
  <2>1. edits' # edits
    BY <1>7 DEF Edit, Numbers
  <2> QED
    BY <1>1, <1>7, <2>1 DEF Edit
<1>8. ASSUME Reboot \/ UNCHANGED vars PROVE WritesOwn
  BY <1>8 DEF Reboot, vars, machine
<1> QED
  BY <1>2, <1>3, <1>4, <1>5, <1>6, <1>7, <1>8, StepCases, StepsAreQuiet

(* While the machine runs, the program never writes the booted tree, however    *)
(* many of its runs, kills, reboots and transactions interleave.              *)
THEOREM RunningTreeUntouched ==
  ASSUME OutsideModes \subseteq {"internal"} PROVE Spec => RunningUntouched
<1>1. IInv /\ Isolated /\ [Next]_vars
        => (running' = running /\ snap'[running] # snap[running] => edits' # edits)
  <2> SUFFICES ASSUME IInv, Isolated, [Next]_vars, running' = running,
                      snap'[running] # snap[running]
               PROVE  edits' # edits
    OBVIOUS
  <2>1. running \in present \cap present'
    BY NextInv DEF IInv, Numbers
  <2>2. ~ \E p \in Procs : Alive(p) /\ ctx[p] = running
    BY <2>1, OwnRoot, NoneAssumption, SnapAssumption DEF IInv, Numbers, Snaps
  <2> QED
    BY <2>1, <2>2, StepWritesOwn DEF WritesOwn
<1>2. IInv /\ Isolated /\ [Next]_vars
        => [running' = running /\ snap'[running] # snap[running] => edits' # edits]_vars
  BY <1>1
<1> QED
  BY <1>2, Invariant, Isolation, PTL DEF Spec, RunningUntouched

(* A tree is written by one process at a time. *)
THEOREM SingleWriter == ASSUME OutsideModes \subseteq {"internal"} PROVE Spec => OneWriter
<1> DEFINE Good ==
      \A s \in present \cap present' : snap'[s] # snap[s] =>
        \/ s = running /\ edits' # edits
        \/ \E p \in Procs : /\ Alive(p) /\ ctx[p] = s
                            /\ \A q \in Procs \ {p} : Alive(q) => ctx[q] # s
<1>1. IInv /\ Isolated /\ [Next]_vars => Good
  <2> SUFFICES ASSUME IInv, Isolated, [Next]_vars, NEW s \in present \cap present',
                      snap'[s] # snap[s], ~(s = running /\ edits' # edits)
               PROVE  \E p \in Procs : /\ Alive(p) /\ ctx[p] = s
                                       /\ \A q \in Procs \ {p} : Alive(q) => ctx[q] # s
    OBVIOUS
  <2>1. PICK p \in Procs : Alive(p) /\ ctx[p] = s
    BY StepWritesOwn DEF WritesOwn
  <2>2. ctx[p] # None
    BY <2>1, NoneAssumption, SnapAssumption DEF IInv, Numbers, Snaps
  <2> QED
    BY <2>1, <2>2, OwnRoot
<1>2. IInv /\ Isolated /\ [Next]_vars => [Good]_vars
  BY <1>1
<1> QED
  BY <1>2, Invariant, Isolation, PTL DEF Spec, OneWriter
=============================================================================
