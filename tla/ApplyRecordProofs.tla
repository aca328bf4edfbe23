--------------------------- MODULE ApplyRecordProofs ---------------------------
(***************************************************************************)
(* What one run leaves alone of another, and what follows of the record: the  *)
(* files that converge_files deletes are those it may, and the record and the  *)
(* userdata that a successful run leaves are those of its tree.               *)
(***************************************************************************)
EXTENDS ApplyPlanProofs

(* Snapshots are booted in the order of their numbers, and no two processes    *)
(* ever had the same context root.                                           *)
Apart ==
  /\ running <= bootDefault
  /\ tu # None => /\ tu.snap > running
                  /\ \A p \in Procs : ctx[p] = tu.snap => p = tu.proc
  /\ \A p \in Procs : \A q \in Procs \ {p} : ctx[p] # None => ctx[q] # ctx[p]

LEMMA SnapNumbers ==
  ASSUME IInv
  PROVE  /\ nextSnap \in Nat /\ Snaps \subseteq Nat /\ None \notin Snaps
         /\ \A s \in present : s \in Snaps /\ s < nextSnap
         /\ {running, bootDefault} \subseteq present
         /\ \A p \in Procs : ctx[p] \in {None} \cup Snaps /\ (ctx[p] # None => ctx[p] < nextSnap)
BY SnapAssumption, NoneAssumption DEF IInv, Numbers, Snaps, Shape

LEMMA ApartNext ==
  ASSUME OutsideModes \subseteq {"internal"}, IInv, Isolated, Apart, [Next]_vars
  PROVE  Apart'
<1> USE SnapAssumption, NoneAssumption
<1>1. ASSUME NEW p \in Procs, Quiet(p) PROVE Apart'
  BY <1>1 DEF Quiet, Apart
<1>2. ASSUME NEW p \in Procs, AcquireExternal(p) PROVE Apart'
  <2>1. CASE Stop(p, 2)
    BY <1>1, <2>1, <1>2, StopQuiet DEF AcquireExternal, Alive
  <2>2. CASE ~Stop(p, 2)
    <3>1. /\ pc[p] = "acquire" /\ ctx' = [ctx EXCEPT ![p] = Root(p)]
          /\ UNCHANGED <<running, bootDefault, tu>>
      BY <1>2, <2>2 DEF AcquireExternal, machine
    <3>2. args[p].inside
      BY <1>2, <3>1 DEF AcquireExternal, Resolved, Isolated, Alive
    <3>3. tu # None /\ tu.proc = p /\ Root(p) = tu.snap
      BY <3>1, <3>2 DEF IInv, Transaction, Alive, Root
    <3> QED
      BY <3>1, <3>3 DEF Apart, IInv, Shape
  <2> QED
    BY <2>1, <2>2
<1>3. ASSUME NEW p \in Procs, AcquireInternal(p) PROVE Apart'
  <2>1. /\ ctx' = [ctx EXCEPT ![p] = nextSnap]
        /\ UNCHANGED <<running, bootDefault, tu>>
    BY <1>3 DEF AcquireInternal, OpenSnapshot
  <2>2. /\ nextSnap \in Nat /\ \A q \in Procs : ctx[q] # nextSnap
        /\ tu # None => tu.snap # nextSnap
    BY <1>3, SnapNumbers DEF AcquireInternal, OpenSnapshot, IInv, Numbers, Snaps
  <2>3. \A q \in Procs : ctx'[q] = IF q = p THEN nextSnap ELSE ctx[q]
    BY <2>1 DEF IInv, Shape
  <2>4. \A q \in Procs : \A r \in Procs \ {q} : ctx'[q] # None => ctx'[r] # ctx'[q]
    BY <2>2, <2>3 DEF Apart
  <2> QED
    BY <2>1, <2>2, <2>3, <2>4 DEF Apart
<1>4. ASSUME NEW p \in Procs, Invoke(p) PROVE Apart'
  <2>1. ctx' = [ctx EXCEPT ![p] = None] /\ UNCHANGED <<running, bootDefault, tu>>
    BY <1>4 DEF Invoke, Begin, machine
  <2> QED
    BY <2>1 DEF Apart, IInv, Shape
<1>5. ASSUME NEW p \in Procs, TuRun(p) PROVE Apart'
  <2>1. /\ ctx' = [ctx EXCEPT ![p] = None] /\ UNCHANGED <<running, bootDefault>>
        /\ tu' = [snap |-> nextSnap, proc |-> p]
    BY <1>5 DEF TuRun, Begin
  <2>2. /\ nextSnap \in Nat /\ running \in Nat /\ running < nextSnap
        /\ \A q \in Procs : ctx[q] # nextSnap
    BY <1>5, SnapNumbers DEF TuRun, Snaps
  <2>3. \A q \in Procs : ctx'[q] = IF q = p THEN None ELSE ctx[q]
    BY <2>1 DEF IInv, Shape
  <2>4. running' <= bootDefault'
    BY <2>1 DEF Apart
  <2>5. tu'.snap = nextSnap /\ tu'.proc = p /\ nextSnap \in Snaps
    BY <1>5, <2>1, <2>2 DEF TuRun, Snaps
  <2>6. \A q \in Procs : \A r \in Procs \ {q} : ctx'[q] # None => ctx'[r] # ctx'[q]
    BY <2>3 DEF Apart
  <2> QED
    BY <2>1, <2>2, <2>3, <2>4, <2>5, <2>6 DEF Apart
<1>6. ASSUME TuEnd PROVE Apart'
  BY <1>6 DEF TuEnd, proc, Apart, IInv, Numbers
<1>7. ASSUME NEW p \in Procs, Activate(p) PROVE Apart'
  <2>1. bootDefault' = ctx[p] /\ ctx[p] > running /\ UNCHANGED <<running, tu, ctx>>
    BY <1>7 DEF Activate, proc
  <2>2. ctx[p] \in Nat /\ running \in Nat
    BY <1>7, SnapNumbers DEF Activate, IInv, Contexts
  <2> QED
    BY <2>1, <2>2 DEF Apart
<1>8. ASSUME Reboot PROVE Apart'
  BY <1>8 DEF Reboot, Apart, IInv, Numbers
<1>9. ASSUME Edit \/ UNCHANGED vars PROVE Apart'
  BY <1>9 DEF Edit, vars, machine, proc, Apart
<1> QED
  BY <1>1, <1>2, <1>3, <1>4, <1>5, <1>6, <1>7, <1>8, <1>9, StepCases, StepsAreQuiet

-----------------------------------------------------------------------------
(* The frame of a run *)

(* The tree that a run reads before it has a context, and works on after. *)
Home(p) == IF ctx[p] = None /\ Alive(p) /\ args[p].inside THEN tu.snap ELSE ctx[p]

Held(p) == Home(p) # None /\ (Alive(p) \/ Left(p))

Same(p) == UNCHANGED <<Local(p), Home(p), snap[Home(p)], userdata[Home(p)]>>

LEMMA ApartInit == Init => Apart
BY DEF Init, Apart

(* acquire_transaction_context: no two runs that live, or that succeeded and are not  *)
(* booted yet, have the same tree, whatever transaction or snapshot it comes from.   *)
THEOREM Apartness == ASSUME OutsideModes \subseteq {"internal"} PROVE Spec => []Apart
<1>1. IInv /\ Isolated /\ Apart /\ [Next]_vars => Apart'
  BY ApartNext
<1> QED
  BY <1>1, ApartInit, Invariant, Isolation, PTL DEF Spec

LEMMA OwnStepMachine ==
  ASSUME IInv, NEW q \in Procs, OwnStep(q)
  PROVE  UNCHANGED <<running, bootDefault, tu, edits>>
BY StepsAreQuiet DEF OwnStep, Quiet, AcquireExternal, Stop, machine, AcquireInternal, OpenSnapshot

(* A process writes the tree and the userdata of its context, or copies a tree  *)
(* into a new snapshot.                                                      *)
LEMMA OwnStepWrites ==
  ASSUME IInv, Data, NEW q \in Procs, OwnStep(q), NEW s \in Snaps,
         s # ctx[q], s # nextSnap
  PROVE  /\ snap'[s] = snap[s]
         /\ userdata'[s] = userdata[s]
<1>1. CASE QuietStep(q)
  <2>1. Quiet(q)
    BY <1>1, StepsAreQuiet
  <2>2. userdata' = userdata \/ userdata' = [userdata EXCEPT ![ctx[q]] = desired[q]]
    BY <1>1 DEF QuietStep, LoadFails, Load, Compare, ReadFails, Adopt, AdoptOf, AcquireFails,
       InstallPackage, RemovePackage, ZypperFails, ResolveLock, SkipEntry, OpenFile, WriteFile,
       DeleteFile, FileFails, FilesDone, ChangeUnit, SystemctlFails, UnitsDone, OpenRecord,
       WriteRecord, StampUserdata, RecordFails, PostVerify, Publish, PublishFails,
       SealAndActivate, Kill, Stop, machine, StepVars
  <2>3. userdata'[s] = userdata[s]
    BY <2>2 DEF Data
  <2> QED
    BY <2>1, <2>3 DEF Quiet, IInv, Shape
<1>2. CASE AcquireExternal(q)
  BY <1>2 DEF AcquireExternal, Stop, machine
<1>3. CASE AcquireInternal(q)
  BY <1>3 DEF AcquireInternal, OpenSnapshot, Data
<1> QED
  BY <1>1, <1>2, <1>3 DEF OwnStep

LEMMA HomeFacts ==
  ASSUME IInv, Isolated, Apart, NEW p \in Procs, Held(p)
  PROVE  /\ Home(p) \in Snaps /\ Home(p) # nextSnap /\ Home(p) # running
         /\ \A q \in Procs \ {p} : Home(p) # ctx[q]
         /\ tu # None /\ Home(p) = tu.snap => tu.proc = p
<1>1. CASE ctx[p] = None /\ Alive(p) /\ args[p].inside
  <2>1. tu # None /\ tu.proc = p /\ Home(p) = tu.snap /\ tu.snap \in present
    BY <1>1 DEF IInv, Numbers, Transaction, Home
  <2> QED
    BY <2>1, SnapNumbers DEF Apart
<1>2. CASE ~(ctx[p] = None /\ Alive(p) /\ args[p].inside)
  <2>1. Home(p) = ctx[p] /\ ctx[p] \in Snaps /\ ctx[p] < nextSnap
    BY <1>2, SnapNumbers DEF Home, Held
  <2>2. ctx[p] # running
    BY <1>2, <2>1, OwnRoot, SnapNumbers DEF Held, Left
  <2> QED
    BY <2>1, <2>2, SnapNumbers DEF Apart
<1> QED
  BY <1>1, <1>2

LEMMA BeginLocal ==
  ASSUME IInv, Data, NEW q \in Procs, NEW p \in Procs \ {q}, Invoke(q) \/ TuRun(q)
  PROVE  UNCHANGED Local(p)
<1>1. PICK verb, mode, inside, m, marker : Begin(q, verb, mode, inside, m, marker)
  BY DEF Invoke, TuRun
<1> QED
  BY <1>1 DEF Begin, Exit, Goto, Local, IInv, Numbers, Shape, Data

(* Whatever the other processes and the machine do, the tree of a run, and its  *)
(* own variables, are what the run itself last made them.                     *)
LEMMA HeldStep ==
  ASSUME OutsideModes \subseteq {"internal"}, IInv, Data, Isolated, Apart, [Next]_vars,
         NEW p \in Procs, Held(p)'
  PROVE  OwnStep(p) \/ TuRun(p) \/ (Held(p) /\ Same(p))
<1> DEFINE Kept == Held(p) /\ Same(p)
<1>1. ASSUME NEW q \in Procs \ {p}, OwnStep(q) PROVE Kept
  <2>1. UNCHANGED <<Local(p), running, tu>>
    BY <1>1, StepLocal, OwnStepMachine
  <2>2. Held(p) /\ Home(p)' = Home(p)
    BY <2>1 DEF Held, Home, Local, Alive, Left
  <2>3. Home(p) \in Snaps /\ Home(p) # nextSnap /\ Home(p) # ctx[q]
    BY <2>2, HomeFacts
  <2> QED
    BY <1>1, <2>1, <2>2, <2>3, OwnStepWrites DEF Same
<1>2. ASSUME NEW q \in Procs, Invoke(q) PROVE Kept
  <2>1. UNCHANGED machine /\ ctx'[q] = None /\ ~args'[q].inside
    BY <1>2 DEF Invoke, Begin, IInv, Shape
  <2>2. q # p
    BY <2>1 DEF Held, Home, Left
  <2>3. UNCHANGED Local(p)
    BY <1>2, <2>2, BeginLocal
  <2> QED
    BY <2>1, <2>3 DEF machine, Same, Held, Home, Local, Alive, Left
<1>3. ASSUME NEW q \in Procs \ {p}, TuRun(q) PROVE Kept
  <2>1. /\ tu = None /\ UNCHANGED <<userdata, running>>
        /\ snap' = [snap EXCEPT ![nextSnap] = snap[bootDefault]]
    BY <1>3 DEF TuRun
  <2>2. UNCHANGED Local(p)
    BY <1>3, BeginLocal
  <2>3. Alive(p) => ~args[p].inside
    BY <2>1 DEF IInv, Transaction
  <2>4. Held(p) /\ Home(p)' = Home(p)
    BY <2>1, <2>2, <2>3 DEF Held, Home, Local, Alive, Left
  <2>5. Home(p) \in Snaps /\ Home(p) # nextSnap
    BY <2>4, HomeFacts
  <2> QED
    BY <2>1, <2>2, <2>4, <2>5 DEF Same, Data
<1>4. ASSUME TuEnd PROVE Kept
  <2>1. /\ tu # None /\ ~Alive(tu.proc) /\ UNCHANGED <<userdata, running, proc>>
        /\ snap' # snap => /\ exit[tu.proc] # 0
                           /\ snap' = [snap EXCEPT ![tu.snap] = InitialTree]
    BY <1>4 DEF TuEnd
  <2>2. UNCHANGED Local(p)
    BY <2>1 DEF Local, proc
  <2>3. Alive(p) => ~args[p].inside
    BY <2>1 DEF IInv, Transaction
  <2>4. Held(p) /\ Home(p)' = Home(p)
    BY <2>1, <2>2, <2>3 DEF Held, Home, Local, Alive, Left
  <2>5. Home(p) \in Snaps /\ (Home(p) = tu.snap => exit[tu.proc] = 0)
    BY <2>1, <2>4, HomeFacts DEF Held, Left
  <2> QED
    BY <2>1, <2>2, <2>4, <2>5 DEF Same, Data
<1>5. ASSUME (\E q \in Procs : Activate(q)) \/ UNCHANGED vars PROVE Kept
  BY <1>5 DEF Activate, vars, machine, proc, Same, Held, Home, Local, Alive, Left
<1>6. ASSUME Reboot PROVE Kept
  <2>1. ~Alive(p) /\ UNCHANGED Local(p) /\ Left(p)' /\ UNCHANGED <<snap, userdata>>
    BY <1>6, ExitAssumption DEF Reboot, Held, Left, Alive, Local, IInv, Numbers
  <2>2. ctx[p] > running
    BY <1>6, <2>1, SnapNumbers DEF Reboot, Left, Apart, Local
  <2> QED
    BY <2>1, <2>2 DEF Same, Held, Home, Left, Alive, Local
<1>7. ASSUME Edit PROVE Kept
  <2>1. UNCHANGED <<userdata, running, tu, Local(p)>>
    BY <1>7 DEF Edit, Local, proc
  <2>2. Held(p) /\ Home(p)' = Home(p)
    BY <2>1 DEF Held, Home, Local, Alive, Left
  <2>3. Home(p) \in Snaps /\ Home(p) # running
    BY <2>2, HomeFacts
  <2>4. snap'[Home(p)] = snap[Home(p)]
    BY <1>7, <2>3 DEF Edit, Data
  <2> QED
    BY <2>1, <2>2, <2>4 DEF Same
<1> QED
  BY <1>1, <1>2, <1>3, <1>4, <1>5, <1>6, <1>7, StepCases DEF OwnStep

-----------------------------------------------------------------------------
(* What each label lets a process do *)

LEMMA StepsOfFiles ==
  ASSUME NEW p \in Procs, OwnStep(p), pc \in [Procs -> Labels], pc[p] = "files"
  PROVE  \/ SkipEntry(p) \/ OpenFile(p) \/ DeleteFile(p) \/ FilesDone(p)
         \/ \E code : Stop(p, code)
BY DEF OwnStep, QuietStep, LoadFails, Load, Compare, ReadFails, Adopt, AdoptOf, AcquireFails,
   InstallPackage, RemovePackage, ZypperFails, ResolveLock, WriteFile, FileFails, ChangeUnit,
   SystemctlFails, UnitsDone, OpenRecord, WriteRecord, StampUserdata, RecordFails, PostVerify,
   Publish, PublishFails, SealAndActivate, Kill, AcquireExternal, AcquireInternal, OpenSnapshot

-----------------------------------------------------------------------------
(* converge_files deletes what the record alone declares, and nothing that is   *)
(* protected.                                                                *)

LEMMA DeletedIsDropped ==
  ASSUME OutsideModes \subseteq {"internal"}, RpmdbFaults = FALSE,
         IInv, DInv, Isolated, Apart, [Next]_vars,
         NEW p \in Procs, NEW f \in Paths, Deleted(p, f)
  PROVE  /\ f \in NamesOf(Elements(base[p].config_files))
         /\ f \notin NamesOf(Elements(desired[p].config_files))
         /\ f # Syncpoint /\ f \notin KeepList
         /\ Owners(Tree(p), f) = {}
<1>1. /\ pc[p] = "files" /\ pc'[p] = "files" /\ ctx'[p] = ctx[p]
      /\ Tree(p).files[f] # NoFile /\ snap'[ctx[p]].files[f] = NoFile
  BY DEF Deleted
<1>2. ctx[p] \in Snaps /\ ctx[p] # None /\ Tree(p) \in RootTrees
  BY <1>1, LateTree, SnapNumbers DEF Late, Labels, Early
<1>3. Alive(p) /\ Home(p) = ctx[p] /\ Held(p)'
  BY <1>1, <1>2 DEF Alive, Home, Held
<1>4. OwnStep(p)
  <2>1. ~TuRun(p)
    BY <1>3 DEF TuRun, Begin
  <2>2. ~Same(p)
    BY <1>1, <1>3 DEF Same, Tree
  <2> QED
    BY <1>3, <2>1, <2>2, HeldStep DEF DInv
<1>5. DeleteFile(p)
  <2>1. ~FilesDone(p) /\ ~OpenFile(p) /\ \A code : ~Stop(p, code)
    BY <1>1 DEF FilesDone, OpenFile, Stop, Exit, Goto, IInv, Numbers
  <2>2. ~SkipEntry(p)
    BY <1>1 DEF SkipEntry, Tree
  <2> QED
    BY <1>1, <1>4, <2>1, <2>2, StepsOfFiles DEF IInv, Numbers
<1>6. PICK g \in plan[p].delete :
        ChangeTree(p, IF Protected(Tree(p), g, TRUE) THEN Tree(p)
                      ELSE PutFile(Tree(p), g, NoFile))
  BY <1>5 DEF DeleteFile, RpmdbOutcomes
<1>7. ~Protected(Tree(p), g, TRUE) /\ g = f
  <2>1. g \in Paths
    BY <1>1, LateTree DEF Late, Labels, Early, Plans
  <2>2. snap'[ctx[p]] = IF Protected(Tree(p), g, TRUE) THEN Tree(p)
                        ELSE PutFile(Tree(p), g, NoFile)
    BY <1>2, <1>6 DEF ChangeTree, DInv, Data
  <2>3. ~Protected(Tree(p), g, TRUE)
    BY <1>1, <2>2 DEF Tree
  <2>4. snap'[ctx[p]].files = [Tree(p).files EXCEPT ![g] = NoFile]
    BY <1>2, <2>1, <2>2, <2>3, PutFileTree
  <2> QED
    BY <1>1, <1>2, <2>3, <2>4 DEF RootTrees
<1> QED
  BY <1>7 DEF Protected, Owned, DInv, Planned, Called

(* When every rpmdb opens, whatever else fails: the only files that an apply    *)
(* deletes are those the loaded record declares and the desired manifest does  *)
(* not, and never the syncpoint, a keep-listed path or a package's path.       *)
THEOREM DeletesAreJustified ==
  ASSUME OutsideModes \subseteq {"internal"}, RpmdbFaults = FALSE
  PROVE  Spec => DeletesJustified
<1> DEFINE Good ==
      \A p \in Procs, f \in Paths : Deleted(p, f) =>
        /\ f \in NamesOf(Elements(base[p].config_files))
        /\ f \notin NamesOf(Elements(desired[p].config_files))
        /\ f # Syncpoint /\ f \notin KeepList
        /\ Owners(Tree(p), f) = {}
<1>1. IInv /\ DInv /\ Isolated /\ Apart /\ [Next]_vars => Good
  BY DeletedIsDropped
<1>2. IInv /\ DInv /\ Isolated /\ Apart /\ [Next]_vars => [Good]_vars
  BY <1>1
<1> QED
  BY <1>2, Invariant, PlanInvariant, Isolation, Apartness, PTL DEF Spec, DeletesJustified

-----------------------------------------------------------------------------
(* The record of a run *)

(* A process that was started has a verb. *)
Started == \A p \in Procs : pc[p] # "idle" => args[p].verb \in Verbs

LEMMA StartedNext == ASSUME IInv, Data, Started, [Next]_vars PROVE Started'
<1>1. ASSUME NEW p \in Procs, OwnStep(p) PROVE Started'
  <2>1. Alive(p) /\ args' = args
    BY <1>1, StepsAreQuiet DEF OwnStep, Quiet, AcquireExternal, AcquireInternal, OpenSnapshot,
       Stop, Alive
  <2>2. \A q \in Procs \ {p} : pc'[q] = pc[q]
    BY <1>1, StepLocal DEF Local
  <2> QED
    BY <2>1, <2>2 DEF Started, Alive
<1>2. ASSUME NEW p \in Procs, Invoke(p) \/ TuRun(p) PROVE Started'
  <2>1. PICK verb, mode, inside, m, marker :
          verb \in Verbs /\ Begin(p, verb, mode, inside, m, marker)
    BY <1>2, VerbAssumption DEF Invoke, TuRun
  <2>2. args'[p].verb = verb
    BY <2>1 DEF Begin, IInv, Shape
  <2>3. \A q \in Procs \ {p} : UNCHANGED Local(q)
    BY <1>2, BeginLocal
  <2> QED
    BY <2>1, <2>2, <2>3 DEF Started, Local
<1>3. ASSUME TuEnd \/ Edit \/ UNCHANGED vars \/ \E p \in Procs : Activate(p) PROVE Started'
  BY <1>3 DEF TuEnd, Edit, Activate, vars, proc, Started
<1>4. ASSUME Reboot PROVE Started'
  BY <1>4 DEF Reboot, Started, Alive
<1> QED
  BY <1>1, <1>2, <1>3, <1>4, StepCases DEF OwnStep

(* What the record, the lock and the userdata of a run are, by how far it came. *)
Recorded(p) ==
  LET t == snap[Home(p)] IN
  /\ ~DiskFaults /\ pc[p] \in {"stamp", "verify", "publish", "seal", "done"} =>
       t.rec = NewRecord(p)
  /\ ~RpmdbFaults /\ args[p].verb = "apply" /\ pc[p] \in (Late \ {"packages"}) \cup {"done"} =>
       lock[p] = t.pkgs
  /\ ~RpmdbFaults /\ args[p].verb = "init" /\ ~opened[p] /\ pc[p] # "describe" =>
       /\ lock[p] = t.pkgs
       /\ ~ReadFaults => desired[p] = Describe(t, Everything(t), ContentStore)
  /\ opened[p] /\ pc[p] \in {"verify", "publish", "seal", "done"} =>
       userdata[Home(p)] = desired[p]

(* A process that goes on, or succeeds, keeps its tree. *)
LEMMA OwnHome ==
  ASSUME OutsideModes \subseteq {"internal"}, IInv, Isolated, NEW p \in Procs, OwnStep(p),
         ~AcquireInternal(p), Held(p)'
  PROVE  Held(p) /\ Home(p)' = Home(p)
<1>1. CASE Quiet(p)
  <2>1. Alive(p) /\ UNCHANGED <<ctx, args, tu, running>>
    BY <1>1 DEF Quiet
  <2>2. CASE Alive(p)'
    BY <2>1, <2>2 DEF Held, Home
  <2>3. CASE ~Alive(p)'
    BY <2>1, <2>3 DEF Held, Home, Left
  <2> QED
    BY <2>2, <2>3
<1>2. CASE AcquireExternal(p) /\ ~\E code \in {2} : Stop(p, code)
  <2>1. /\ pc[p] = "acquire" /\ ctx' = [ctx EXCEPT ![p] = Root(p)] /\ UNCHANGED <<args, tu>>
    BY <1>2 DEF AcquireExternal, machine
  <2>2. args[p].inside /\ Alive(p) /\ ctx[p] = None
    BY <1>2, <2>1 DEF AcquireExternal, Resolved, Isolated, Alive, IInv, Contexts, Early
  <2>3. tu # None /\ Root(p) = tu.snap /\ tu.snap \in Snaps
    BY <2>2, SnapNumbers DEF IInv, Transaction, Root, Numbers
  <2> QED
    BY <2>1, <2>2, <2>3, SnapNumbers DEF Home, Held, IInv, Shape
<1>3. Alive(p) /\ (AcquireExternal(p) /\ (\E code \in {2} : Stop(p, code)) => Quiet(p))
  BY StopQuiet, StepsAreQuiet DEF OwnStep, AcquireExternal, AcquireInternal, OpenSnapshot, Quiet,
     Alive
<1> QED
  BY <1>1, <1>2, <1>3, StepsAreQuiet DEF OwnStep

(* A run that ends with a context and not from the last label failed. *)
LEMMA StopNotHeld ==
  ASSUME IInv, NEW p \in Procs, NEW code, Stop(p, code), code # 0 \/ pc[p] \in Early
  PROVE  ~Held(p)'
<1>1. pc'[p] = "done" /\ exit'[p] = code /\ ctx' = ctx
  BY DEF Stop, Exit, Goto, IInv, Numbers
<1>2. code = 0 => ctx[p] = None
  BY DEF IInv, Contexts
<1> QED
  BY <1>1, <1>2 DEF Held, Home, Left, Alive

(* snapper finds the snapshot of a live run. *)
LEMMA StampedContext ==
  ASSUME IInv, Placed, NEW p \in Procs, pc[p] = "stamp" PROVE ctx[p] \in present
BY SnapNumbers DEF IInv, Numbers, Placed, Alive, Late, Labels, Early

LEMMA RecordedStep ==
  ASSUME OutsideModes \subseteq {"internal"}, IInv, DInv, Isolated, Apart,
         NEW p \in Procs, OwnStep(p), Held(p)', Held(p) => Recorded(p)
  PROVE  Recorded(p)'
<1> USE DEF StepVars, world, machine, Goto
<1>1. \A f \in {pc, args, desired, base, plan, ctx, opened, lock, cur, exit} : DOMAIN f = Procs
  BY DEF DInv, IInv, Numbers, Shape, Data
<1>2. CASE AcquireInternal(p)
  <2>1. /\ opened'[p] /\ args' = args
        /\ pc'[p] = IF args[p].verb = "apply" THEN "packages" ELSE "record"
    BY <1>1, <1>2 DEF AcquireInternal, OpenSnapshot, AfterAcquire
  <2> QED
    BY <2>1 DEF Recorded, Late, Labels, Early
<1> SUFFICES ASSUME ~AcquireInternal(p) PROVE Recorded(p)'
  BY <1>2
<1> DEFINE t == snap[Home(p)]
<1>3. Held(p) /\ Home(p)' = Home(p) /\ Recorded(p) /\ Home(p) \in Snaps /\ t \in RootTrees
  BY OwnHome, HomeFacts DEF DInv, Data
<1>4. pc[p] \in Late => Home(p) = ctx[p] /\ Tree(p) = t
  BY SnapNumbers DEF DInv, Placed, Home, Tree
<1>5. Routed(p) /\ Data /\ Alive(p)
  BY StepsAreQuiet DEF DInv, Planned, OwnStep, Quiet, AcquireExternal, Alive
(* The tree after a step that changes it. *)
<1>6. ASSUME NEW u, ChangeTree(p, u), pc[p] \in Late PROVE snap'[Home(p)'] = u
  BY <1>3, <1>4, <1>5, <1>6 DEF ChangeTree, Data
<1>7. ASSUME NEW code, Stop(p, code), code # 0 \/ pc[p] \in Early PROVE Recorded(p)'
  BY <1>7, StopNotHeld
<1>8. CASE \/ LoadFails(p) \/ ReadFails(p) \/ AcquireFails(p) \/ ZypperFails(p) \/ FileFails(p)
           \/ SystemctlFails(p) \/ RecordFails(p) \/ PublishFails(p) \/ Kill(p)
  <2>1. PICK code \in {1, 2, Killed} : Stop(p, code)
    BY <1>8 DEF LoadFails, ReadFails, AcquireFails, ZypperFails, FileFails, SystemctlFails,
       RecordFails, PublishFails, Kill
  <2>2. code # 0
    BY <2>1, ExitAssumption
  <2> QED
    BY <1>7, <2>1, <2>2
<1>9. CASE SealAndActivate(p)
  BY <1>1, <1>3, <1>9 DEF SealAndActivate, Stop, Exit, Recorded, NewRecord, Late, Labels, Early
<1>10. CASE Load(p) \/ Compare(p)
  <2>1. CASE \E code : Stop(p, code)
    BY <1>7, <1>10, <2>1 DEF Load, Compare, Early
  <2>2. CASE ~\E code : Stop(p, code)
    <3>1. pc'[p] \in {"compare", "acquire"} /\ args'[p] = args[p] /\ args[p].verb = "apply"
      BY <1>1, <1>5, <1>10, <2>2 DEF Load, Compare, Routed
    <3> QED
      BY <3>1 DEF Recorded, Late, Labels, Early
  <2> QED
    BY <2>1, <2>2
<1>11. CASE Adopt(p)
  <2>1. /\ pc'[p] = "acquire" /\ UNCHANGED <<snap, args, opened>> /\ args[p].verb # "apply"
        /\ Home(p) = Root(p)
    BY <1>1, <1>3, <1>5, <1>11 DEF Adopt, AdoptOf, Routed, Held, Home, Root, Left, IInv, Contexts,
       Early
  <2>2. PICK got \in Readings(t) :
          /\ desired'[p] = Describe(t, got, ContentStore)
          /\ lock'[p] = Elements(Describe(t, got, ContentStore).packages)
    BY <1>1, <1>11, <2>1 DEF Adopt, AdoptOf
  <2>3. /\ got \in Readable(t) /\ (~RpmdbFaults => got.rpmdb)
        /\ ~RpmdbFaults /\ ~ReadFaults => got = Everything(t)
    BY FlagAssumption, ReadingsTyped, WholeReading
  <2>4. ~RpmdbFaults => Elements(Describe(t, got, ContentStore).packages) = t.pkgs
    BY <1>3, <2>3, DescribeScopes, FlagAssumption
  <2> QED
    BY <1>3, <2>1, <2>2, <2>3, <2>4 DEF Recorded, Late, Labels, Early
<1>12. CASE AcquireExternal(p)
  <2>1. CASE Stop(p, 2)
    BY <1>7, <2>1
  <2>2. CASE ~Stop(p, 2)
    <3>1. /\ UNCHANGED <<snap, args, opened, desired, lock>> /\ pc[p] = "acquire"
          /\ pc'[p] = IF args[p].verb = "apply" THEN "packages" ELSE "record"
      BY <1>1, <1>12, <2>2 DEF AcquireExternal, AfterAcquire
    <3> QED
      BY <1>3, <3>1 DEF Recorded, Late, Labels, Early
  <2> QED
    BY <2>1, <2>2
<1>13. CASE InstallPackage(p) \/ RemovePackage(p)
  <2>1. pc[p] = "packages" /\ pc' = pc /\ args' = args
    BY <1>13 DEF InstallPackage, RemovePackage
  <2> QED
    BY <1>5, <2>1 DEF Recorded, Routed
<1>14. CASE ResolveLock(p)
  <2>1. /\ pc'[p] = "files" /\ UNCHANGED <<snap, args>> /\ args[p].verb = "apply"
        /\ ~RpmdbFaults => lock'[p] = t.pkgs
    BY <1>1, <1>4, <1>5, <1>14, FlagAssumption DEF ResolveLock, RpmdbOutcomes, Routed, Late, Labels, Early
  <2> QED
    BY <1>3, <2>1 DEF Recorded
<1>15. ASSUME pc[p] \in {"files", "writing", "units"}, pc'[p] \in {"files", "writing", "units"},
              UNCHANGED <<args, lock>>,
              snap' = snap \/ \E u \in RootTrees : ChangeTree(p, u) /\ u.pkgs = t.pkgs
       PROVE  Recorded(p)'
  <2>1. snap'[Home(p)'].pkgs = t.pkgs
    BY <1>3, <1>6, <1>15 DEF Late, Labels, Early
  <2> QED
    BY <1>3, <1>5, <1>15, <2>1 DEF Recorded, Routed, Late, Labels, Early
<1>16. CASE SkipEntry(p) \/ FilesDone(p)
  BY <1>1, <1>15, <1>16 DEF SkipEntry, FilesDone
<1>17. CASE OpenFile(p)
  <2>1. PICK e \in plan[p].write :
          ChangeTree(p, PutFile(t, e.name, Written(t.files[e.name], EmptyDigest)))
    BY <1>4, <1>17 DEF OpenFile, Late, Labels, Early
  <2>2. e.name \in Paths
    BY <1>17, LateTree DEF OpenFile, Late, Labels, Early, Plans, EtcFile
  <2>3. Written(t.files[e.name], EmptyDigest) \in Node
    BY <1>3, <2>2, WrittenNode DEF RootTrees, Digests
  <2> DEFINE u == PutFile(t, e.name, Written(t.files[e.name], EmptyDigest))
  <2>4. u \in RootTrees /\ u.pkgs = t.pkgs
    <3>1. ASSUME NEW n \in Node \cup {NoFile}
          PROVE  PutFile(t, e.name, n) \in RootTrees /\ PutFile(t, e.name, n).pkgs = t.pkgs
      BY <1>3, <2>2, PutFileTree
    <3> QED
      BY <2>3, <3>1
  <2>5. pc[p] = "files" /\ pc'[p] = "writing" /\ UNCHANGED <<args, lock>>
    BY <1>1, <1>17 DEF OpenFile
  <2>6. ChangeTree(p, u)
    BY <2>1
  <2> HIDE DEF u
  <2> QED
    BY <1>15, <2>4, <2>5, <2>6
<1>18. CASE WriteFile(p)
  <2> DEFINE e == cur[p].entry
             got == cur[p].got
  <2>1. /\ pc[p] = "writing" /\ UNCHANGED <<args, lock>>
        /\ ChangeTree(p, PutFile(t, e.name, Written(t.files[e.name], got)))
        /\ pc'[p] = "files" \/ (pc'[p] = "done" /\ exit'[p] = 1)
    BY <1>1, <1>4, <1>18 DEF WriteFile, Exit, Late, Labels, Early
  <2>2. e.name \in Paths /\ got \in Digests
    BY <1>5, <2>1 DEF Data, DInv, Planned, Called, EtcFile
  <2>3. Written(t.files[e.name], got) \in Node
    BY <1>3, <2>2, WrittenNode DEF RootTrees
  <2>4. pc'[p] = "files"
    BY <2>1 DEF Held, Home, Alive, Left
  <2> DEFINE u == PutFile(t, e.name, Written(t.files[e.name], got))
  <2>5. u \in RootTrees /\ u.pkgs = t.pkgs
    <3>1. ASSUME NEW n \in Node \cup {NoFile}
          PROVE  PutFile(t, e.name, n) \in RootTrees /\ PutFile(t, e.name, n).pkgs = t.pkgs
      BY <1>3, <2>2, PutFileTree
    <3> QED
      BY <2>3, <3>1
  <2>6. ChangeTree(p, u)
    BY <2>1
  <2> HIDE DEF u
  <2> QED
    BY <1>15, <2>1, <2>4, <2>5, <2>6
<1>19. CASE DeleteFile(p)
  <2>1. PICK f \in plan[p].delete, rpmdb \in RpmdbOutcomes :
          ChangeTree(p, IF Protected(t, f, rpmdb) THEN t ELSE PutFile(t, f, NoFile))
    BY <1>4, <1>19 DEF DeleteFile, Late, Labels, Early
  <2>2. f \in Paths
    BY <1>19, LateTree DEF DeleteFile, Late, Labels, Early, Plans
  <2> DEFINE u == IF Protected(t, f, rpmdb) THEN t ELSE PutFile(t, f, NoFile)
  <2>3. u \in RootTrees /\ u.pkgs = t.pkgs
    BY <1>3, <2>2, PutFileTree
  <2>4. ChangeTree(p, u) /\ pc[p] = "files" /\ pc' = pc /\ UNCHANGED <<args, lock>>
    BY <1>19, <2>1 DEF DeleteFile
  <2> HIDE DEF u
  <2> QED
    BY <1>15, <2>3, <2>4
<1>20. CASE ChangeUnit(p)
  <2>1. PICK u \in plan[p].units : ChangeTree(p, Enablement(t, u))
    BY <1>4, <1>20 DEF ChangeUnit, Late, Labels, Early
  <2>2. u \in UnitRecord
    BY <1>20, LateTree DEF ChangeUnit, Late, Labels, Early, Plans
  <2> QED
    BY <1>3, <1>15, <1>20, <2>1, <2>2, EnablementTree DEF ChangeUnit
<1>21. CASE UnitsDone(p)
  BY <1>1, <1>3, <1>21 DEF UnitsDone, Recorded, Late, Labels, Early
(* The record is the only thing of a tree that its writing changes. *)
<1>22. ASSUME NEW r \in Manifest \cup {None, Torn}, ChangeTree(p, PutRecord(t, r)) \/ snap' = snap,
              pc[p] \in Late, UNCHANGED <<args, lock, opened, desired, userdata>>
       PROVE  LET u == snap'[Home(p)'] IN
              /\ u.pkgs = t.pkgs
              /\ Describe(u, Everything(u), ContentStore) = Describe(t, Everything(t), ContentStore)
              /\ NewRecord(p)' = NewRecord(p)
              /\ ChangeTree(p, PutRecord(t, r)) => u.rec = r
  <2>1. CASE snap' = snap /\ ~ChangeTree(p, PutRecord(t, r))
    BY <1>3, <1>22, <2>1 DEF NewRecord
  <2>2. CASE ChangeTree(p, PutRecord(t, r))
    <3>1. snap'[Home(p)'] = PutRecord(t, r)
      BY <1>6, <1>22, <2>2
    <3> DEFINE u == PutRecord(t, r)
    <3>2. /\ u.pkgs = t.pkgs /\ u.repos = t.repos /\ u.units = t.units /\ u.files = t.files
          /\ u.rec = r
      BY <1>3, PutRecordTree
    <3>3. Describe(u, Everything(u), ContentStore) = Describe(t, Everything(t), ContentStore)
      <4>1. Everything(u) = Everything(t)
        BY <3>2 DEF Everything
      <4> HIDE DEF u
      <4>2. Describe(u, Everything(t), ContentStore) = Describe(t, Everything(t), ContentStore)
        BY <3>2, DescribeReads, FlagAssumption
      <4> QED
        BY <4>1, <4>2
    <3> HIDE DEF u
    <3> QED
      BY <1>22, <3>1, <3>2, <3>3 DEF NewRecord, u
  <2> QED
    BY <1>22, <2>1, <2>2
<1>23. CASE OpenRecord(p)
  <2>1. /\ pc[p] = "record" /\ pc'[p] = "recording" /\ ChangeTree(p, PutRecord(t, Torn))
        /\ UNCHANGED <<args, lock, opened, desired, userdata>>
    BY <1>1, <1>4, <1>23 DEF OpenRecord, Late, Labels, Early
  <2> QED
    BY <1>3, <1>22, <2>1 DEF Recorded, Late, Labels, Early
<1>24. CASE WriteRecord(p)
  <2>1. /\ pc[p] = "recording" /\ pc'[p] = "stamp"
        /\ ChangeTree(p, PutRecord(t, NewRecord(p))) \/ (DiskFaults /\ snap' = snap)
        /\ UNCHANGED <<args, lock, opened, desired, userdata>>
    BY <1>1, <1>4, <1>24 DEF WriteRecord, Late, Labels, Early
  <2>2. NewRecord(p) \in Manifest
    BY <1>5, NewRecordTyped
  <2> QED
    BY <1>3, <1>22, <2>1, <2>2 DEF Recorded, Late, Labels, Early
<1>25. CASE StampUserdata(p)
  <2>1. /\ pc[p] = "stamp" /\ pc'[p] \in {"verify", "publish"}
        /\ UNCHANGED <<snap, args, lock, opened, desired>>
        /\ opened[p] => userdata' = [userdata EXCEPT ![ctx[p]] = desired[p]]
    BY <1>1, <1>25, StampedContext DEF StampUserdata, DInv
  <2>2. opened[p] => userdata'[Home(p)'] = desired[p]
    BY <1>3, <1>4, <1>5, <2>1 DEF Data, Late, Labels, Early
  <2> QED
    BY <1>3, <2>1, <2>2 DEF Recorded, NewRecord, Late, Labels, Early
<1>26. CASE PostVerify(p) \/ Publish(p)
  <2>1. CASE Stop(p, 1)
    BY <1>7, <2>1
  <2>2. CASE ~Stop(p, 1)
    <3>1. /\ pc[p] \in {"verify", "publish"} /\ pc'[p] = "seal"
          /\ UNCHANGED <<snap, userdata, args, lock, opened, desired>>
      BY <1>1, <1>26, <2>2 DEF PostVerify, Publish
    <3> QED
      BY <1>3, <3>1 DEF Recorded, NewRecord, Late, Labels, Early
  <2> QED
    BY <2>1, <2>2
<1> QED
  BY <1>8, <1>9, <1>10, <1>11, <1>12, <1>13, <1>14, <1>16, <1>17, <1>18, <1>19, <1>20, <1>21,
     <1>23, <1>24, <1>25, <1>26 DEF OwnStep, QuietStep

AllRecorded == \A p \in Procs : Held(p) => Recorded(p)

LEMMA AllRecordedNext ==
  ASSUME OutsideModes \subseteq {"internal"}, IInv, DInv, Isolated, Apart, AllRecorded, [Next]_vars
  PROVE  AllRecorded'
<1> SUFFICES ASSUME NEW p \in Procs, Held(p)' PROVE Recorded(p)'
  BY DEF AllRecorded
<1>1. CASE OwnStep(p)
  BY <1>1, RecordedStep DEF AllRecorded
<1>2. CASE TuRun(p)
  <2>1. PICK verb, mode, inside, m, marker : Begin(p, verb, mode, inside, m, marker)
    BY <1>2 DEF TuRun
  <2>2. /\ args'[p].verb = verb /\ ~opened'[p] /\ ctx'[p] = None
        /\ pc'[p] \in {"load", "describe", "done"}
        /\ pc'[p] = "load" => verb = "apply"
    BY <2>1 DEF Begin, Exit, Goto, IInv, Numbers, Shape
  <2>3. pc'[p] # "done"
    BY <2>2 DEF Held, Home, Left, Alive
  <2> QED
    BY <2>2, <2>3 DEF Recorded, Late, Labels, Early
<1>3. CASE Held(p) /\ Same(p)
  BY <1>3 DEF AllRecorded, Same, Local, Recorded, NewRecord
<1> QED
  BY <1>1, <1>2, <1>3, HeldStep DEF DInv

(* A stamped snapshot is whole, and the process that stamped it is done with it. *)
Stamped ==
  \A s \in Snaps : userdata[s] # None =>
    /\ s < nextSnap
    /\ tu # None => s # tu.snap
    /\ ~DiskFaults => /\ snap[s].rec \notin {None, Torn}
                      /\ snap[s].rec.config_files = userdata[s].config_files
                      /\ snap[s].rec.services = userdata[s].services
    /\ \A p \in Procs : Alive(p) /\ ctx[p] = s => pc[p] \in {"verify", "publish", "seal"}

(* After write_applied_record a process leaves its tree alone. *)
LEMMA LastSteps ==
  ASSUME IInv, NEW p \in Procs, OwnStep(p), pc[p] \in {"verify", "publish", "seal"}
  PROVE  UNCHANGED <<snap, userdata>> /\ pc'[p] \in {"seal", "done"}
BY DEF OwnStep, QuietStep, LoadFails, Load, Compare, ReadFails, Adopt, AdoptOf, AcquireFails,
   InstallPackage, RemovePackage, ZypperFails, ResolveLock, SkipEntry, OpenFile, WriteFile,
   DeleteFile, FileFails, FilesDone, ChangeUnit, SystemctlFails, UnitsDone, OpenRecord,
   WriteRecord, StampUserdata, RecordFails, PostVerify, Publish, PublishFails,
   SealAndActivate, Kill, AcquireExternal, AcquireInternal, OpenSnapshot, Stop, Exit, Goto,
   machine, StepVars, IInv, Numbers

LEMMA StampedStep ==
  ASSUME OutsideModes \subseteq {"internal"}, IInv, DInv, Isolated, Apart, AllRecorded, Stamped,
         NEW p \in Procs, OwnStep(p)
  PROVE  Stamped'
<1> SUFFICES ASSUME NEW s \in Snaps, userdata'[s] # None
             PROVE  /\ s < nextSnap'
                    /\ tu' # None => s # tu'.snap
                    /\ ~DiskFaults => /\ snap'[s].rec \notin {None, Torn}
                                      /\ snap'[s].rec.config_files = userdata'[s].config_files
                                      /\ snap'[s].rec.services = userdata'[s].services
                    /\ \A q \in Procs : Alive(q)' /\ ctx'[q] = s =>
                         pc'[q] \in {"verify", "publish", "seal"}
  BY DEF Stamped
<1>1. UNCHANGED <<running, tu>> /\ Alive(p) /\ nextSnap' \in {nextSnap, nextSnap + 1}
  BY OwnStepMachine, StepsAreQuiet DEF OwnStep, Quiet, AcquireExternal, AcquireInternal,
     OpenSnapshot, Stop, machine, Alive
<1>2. \A q \in Procs \ {p} : UNCHANGED <<pc[q], ctx[q]>>
  BY StepLocal DEF Local, DInv
<1>3. CASE StampUserdata(p) /\ opened[p] /\ s = ctx[p]
  <2>1. /\ pc[p] = "stamp" /\ userdata'[s] = desired[p] /\ UNCHANGED <<snap, ctx, nextSnap>>
        /\ pc'[p] \in {"verify", "publish"}
    BY <1>1, <1>3, SnapNumbers, StampedContext
       DEF StampUserdata, Goto, world, IInv, Numbers, DInv, Data
  <2>2. Held(p) /\ Home(p) = s
    BY <1>1, <1>3, <2>1, SnapNumbers DEF Held, Home
  <2>3. ~DiskFaults => snap[s].rec = NewRecord(p)
    BY <2>1, <2>2 DEF AllRecorded, Recorded
  <2>4. /\ NewRecord(p).config_files = desired[p].config_files
        /\ NewRecord(p).services = desired[p].services
        /\ NewRecord(p) \notin {None, Torn}
    BY NewRecordTyped, SentinelAssumption DEF NewRecord, DInv, Data, Manifest
  <2>5. s < nextSnap /\ (tu # None => s # tu.snap) /\ \A q \in Procs \ {p} : ctx[q] # s
    BY <1>3, SnapNumbers DEF IInv, Contexts, Apart
  <2> QED
    BY <1>1, <1>2, <2>1, <2>3, <2>4, <2>5
<1>4. CASE ~(StampUserdata(p) /\ opened[p] /\ s = ctx[p])
  <2>1. userdata'[s] = userdata[s]
    BY <1>4 DEF OwnStep, QuietStep, LoadFails, Load, Compare, ReadFails, Adopt, AdoptOf,
       AcquireFails, InstallPackage, RemovePackage, ZypperFails, ResolveLock, SkipEntry, OpenFile,
       WriteFile, DeleteFile, FileFails, FilesDone, ChangeUnit, SystemctlFails, UnitsDone,
       OpenRecord, WriteRecord, StampUserdata, RecordFails, PostVerify, Publish, PublishFails,
       SealAndActivate, Kill, Stop, machine, StepVars, AcquireExternal, AcquireInternal,
       OpenSnapshot, world, DInv, Data
  <2>2. s < nextSnap /\ (tu # None => s # tu.snap) /\ s # nextSnap
    BY <2>1, SnapNumbers DEF Stamped
  <2>3. CASE ctx[p] = s
    <3>1. pc[p] \in {"verify", "publish", "seal"}
      BY <1>1, <2>1, <2>3 DEF Stamped
    <3>2. UNCHANGED snap /\ pc'[p] \in {"seal", "done"}
      BY <3>1, LastSteps
    <3> QED
      BY <1>1, <1>2, <2>1, <2>2, <3>1, <3>2, SnapNumbers DEF Stamped, Alive
  <2>4. CASE ctx[p] # s
    <3>1. snap'[s] = snap[s]
      BY <2>2, <2>4, OwnStepWrites DEF DInv
    <3>2. ctx' = ctx \/ ctx' = [ctx EXCEPT ![p] = nextSnap]
            \/ (AcquireExternal(p) /\ ctx' = [ctx EXCEPT ![p] = Root(p)])
      BY StepsAreQuiet DEF OwnStep, Quiet, AcquireExternal, AcquireInternal, OpenSnapshot, Stop
    <3>3. AcquireExternal(p) => tu # None /\ Root(p) = tu.snap
      BY DEF AcquireExternal, Resolved, Isolated, Alive, IInv, Transaction, Root
    <3>4. ctx'[p] # s
      BY <2>2, <2>4, <3>2, <3>3 DEF IInv, Shape
    <3> QED
      BY <1>1, <1>2, <2>1, <2>2, <3>1, <3>4, SnapNumbers DEF Stamped, Alive
  <2> QED
    BY <2>3, <2>4
<1> QED
  BY <1>3, <1>4

LEMMA StampedNext ==
  ASSUME OutsideModes \subseteq {"internal"}, IInv, DInv, Isolated, Apart, AllRecorded, Stamped,
         [Next]_vars
  PROVE  Stamped'
<1>1. ASSUME NEW q \in Procs, Invoke(q) PROVE Stamped'
  <2>1. UNCHANGED machine /\ ctx'[q] = None
    BY <1>1 DEF Invoke, Begin, IInv, Shape
  <2>2. \A r \in Procs \ {q} : UNCHANGED <<pc[r], ctx[r]>>
    BY <1>1, BeginLocal DEF Local, DInv
  <2> QED
    BY <2>1, <2>2, SnapNumbers DEF Stamped, machine, Alive
<1>2. ASSUME NEW q \in Procs, TuRun(q) PROVE Stamped'
  <2>1. /\ ctx'[q] = None /\ userdata' = userdata /\ nextSnap' = nextSnap + 1
        /\ tu' = [snap |-> nextSnap, proc |-> q]
        /\ \A s \in Snaps : s # nextSnap => snap'[s] = snap[s]
    BY <1>2 DEF TuRun, Begin, IInv, Shape
  <2>2. \A r \in Procs \ {q} : UNCHANGED <<pc[r], ctx[r]>>
    BY <1>2, BeginLocal DEF Local, DInv
  <2> QED
    BY <2>1, <2>2, SnapNumbers DEF Stamped, Alive
<1>3. ASSUME TuEnd PROVE Stamped'
  <2>1. /\ UNCHANGED <<userdata, nextSnap, pc, ctx>> /\ tu' = None
        /\ \A s \in Snaps : s # tu.snap => snap'[s] = snap[s]
    BY <1>3 DEF TuEnd, proc, IInv, Shape
  <2> QED
    BY <1>3, <2>1 DEF TuEnd, Stamped, Alive
<1>4. ASSUME Edit PROVE Stamped'
  <2>1. UNCHANGED <<userdata, nextSnap, tu, pc, ctx>>
    BY <1>4 DEF Edit, proc
  <2>2. \A s \in Snaps : snap'[s].rec = snap[s].rec
    <3>1. \A f, n : PutFile(snap[running], f, n).rec = snap[running].rec
      BY SnapNumbers DEF PutFile, DInv, Data, RootTrees
    <3>2. \A u, n : PutUnit(snap[running], u, n).rec = snap[running].rec
      BY SnapNumbers DEF PutUnit, DInv, Data, RootTrees
    <3>3. \E t : t.rec = snap[running].rec /\ snap' = [snap EXCEPT ![running] = t]
      BY <1>4, <3>1, <3>2 DEF Edit
    <3> QED
      BY <3>3 DEF DInv, Data
  <2> QED
    BY <2>1, <2>2 DEF Stamped, Alive
<1>5. ASSUME Reboot \/ UNCHANGED vars \/ \E p \in Procs : Activate(p) PROVE Stamped'
  BY <1>5 DEF Reboot, Activate, vars, machine, proc, Stamped, Alive
<1> QED
  BY <1>1, <1>2, <1>3, <1>4, <1>5, StepCases, StampedStep DEF OwnStep

RInv == Started /\ AllRecorded /\ Stamped

(* A record always has its packages. *)
LEMMA PackagesElements == ASSUME NEW S \in SUBSET PackageRecord PROVE Elements(S) = S
<1>1. S \in SUBSET PackageEntry
  BY DEF PackageRecord, PackageEntry
<1> QED
  BY <1>1, SentinelAssumption DEF Elements

(* write_applied_record: at each step from its opening to the stamp the record in the *)
(* tree is as far as the step says, and no snapshot is stamped ahead of its record.   *)
THEOREM RecordInvariant == ASSUME OutsideModes \subseteq {"internal"} PROVE Spec => []RInv
<1>1. Init => RInv
  BY SnapAssumption, NoneAssumption
     DEF Init, RInv, Started, AllRecorded, Stamped, Held, Home, Alive, Left
<1>2. IInv /\ DInv /\ Isolated /\ Apart /\ RInv /\ [Next]_vars => RInv'
  BY StartedNext, AllRecordedNext, StampedNext DEF RInv, DInv
<1> QED
  BY <1>1, <1>2, Invariant, PlanInvariant, Isolation, Apartness, PTL DEF Spec

(* write_applied_record: when no write is short, a snapshot is stamped only after *)
(* its record is whole, and stays so, whoever is killed or overtaken.            *)
THEOREM StampedIsWhole ==
  ASSUME OutsideModes \subseteq {"internal"}, DiskFaults = FALSE
  PROVE  Spec => []StampedRecordWhole
<1>1. IInv /\ RInv => StampedRecordWhole
  BY SnapNumbers DEF RInv, Stamped, StampedRecordWhole
<1> QED
  BY <1>1, Invariant, RecordInvariant, PTL

(* write_applied_record: when no write is short and every rpmdb opens, the record *)
(* of a successful run is its manifest with the packages of its tree, and the     *)
(* userdata names the manifest, whatever the descriptions left out.               *)
THEOREM RecordIsOfTree ==
  ASSUME OutsideModes \subseteq {"internal"}, DiskFaults = FALSE, RpmdbFaults = FALSE
  PROVE  Spec => []RecordOfTree
<1>1. IInv /\ RInv => RecordOfTree
  <2> SUFFICES ASSUME IInv, RInv, NEW p \in Procs, Left(p)
               PROVE  /\ InOneTree(p) => snap[ctx[p]].rec
                                          = [desired[p] EXCEPT !.packages = snap[ctx[p]].pkgs]
                      /\ opened[p] => userdata[ctx[p]] = desired[p]
    BY DEF RecordOfTree
  <2>1. Held(p) /\ Home(p) = ctx[p] /\ pc[p] = "done" /\ args[p].verb \in {"apply", "init"}
    BY VerbAssumption DEF Held, Home, Left, Alive, RInv, Started
  <2>2. InOneTree(p) => lock[p] = snap[ctx[p]].pkgs
    BY <2>1 DEF RInv, AllRecorded, Recorded, InOneTree
  <2>3. /\ snap[ctx[p]].rec = NewRecord(p)
        /\ opened[p] => userdata[ctx[p]] = desired[p]
    BY <2>1 DEF RInv, AllRecorded, Recorded
  <2> QED
    BY <2>2, <2>3 DEF NewRecord
<1> QED
  BY <1>1, Invariant, RecordInvariant, PTL

-----------------------------------------------------------------------------
(* One version of each package *)

Unique == \A s \in Snaps : UniqueNames(snap[s].pkgs)

(* What a process makes of its tree: zypper alone changes the packages.          *)
LEMMA TreeAfter ==
  ASSUME IInv, DInv, NEW p \in Procs, QuietStep(p), NEW s \in Snaps, snap'[s] # snap[s]
  PROVE  /\ s = ctx[p] /\ pc[p] \in Late
         /\ \/ snap'[s].pkgs = Tree(p).pkgs
            \/ \E n \in DOMAIN Ships, v \in RepoVersions : snap'[s] = Install(Tree(p), n, v)
            \/ \E n \in DOMAIN Ships : snap'[s] = Remove(Tree(p), n)
<1> USE DEF StepVars, world, machine, Late, Labels, Early
<1>1. s = ctx[p]
  BY StepsAreQuiet DEF Quiet, DInv, Data
<1>2. ASSUME NEW u, ChangeTree(p, u) PROVE snap'[s] = u
  BY <1>1, <1>2 DEF ChangeTree, DInv, Data
<1>3. snap' # snap
  OBVIOUS
<1>4. CASE InstallPackage(p)
  <2>1. PICK x \in plan[p].install, v \in RepoVersions :
          x.name # NoPackage /\ ChangeTree(p, Install(Tree(p), x.name, v))
    BY <1>3, <1>4 DEF InstallPackage
  <2>2. x.name \in DOMAIN Ships
    BY <1>4, <2>1, LateTree DEF InstallPackage, Plans, PackageEntry
  <2> QED
    BY <1>1, <1>2, <1>4, <2>1, <2>2 DEF InstallPackage
<1>5. CASE RemovePackage(p)
  <2>1. PICK n \in plan[p].remove : n # NoPackage /\ ChangeTree(p, Remove(Tree(p), n))
    BY <1>3, <1>5 DEF RemovePackage
  <2>2. n \in DOMAIN Ships
    BY <1>5, <2>1, LateTree DEF RemovePackage, Plans
  <2> QED
    BY <1>1, <1>2, <1>5, <2>1, <2>2 DEF RemovePackage
<1>6. \A f, n : PutFile(Tree(p), f, n).pkgs = Tree(p).pkgs
  BY <1>1 DEF PutFile, Tree, DInv, Data, RootTrees
<1>7. \A u, r : /\ PutUnit(Tree(p), u, r).pkgs = Tree(p).pkgs
               /\ PutRecord(Tree(p), r).pkgs = Tree(p).pkgs
  BY <1>1 DEF PutUnit, PutRecord, Tree, DInv, Data, RootTrees
<1>8. CASE OpenFile(p) \/ WriteFile(p) \/ DeleteFile(p)
  <2>1. \E u : ChangeTree(p, u) /\ u.pkgs = Tree(p).pkgs
    BY <1>6, <1>8 DEF OpenFile, WriteFile, DeleteFile
  <2> QED
    BY <1>1, <1>2, <1>8, <2>1 DEF OpenFile, WriteFile, DeleteFile
<1>9. CASE ChangeUnit(p) \/ OpenRecord(p) \/ WriteRecord(p)
  <2>1. \E u : ChangeTree(p, u) /\ u.pkgs = Tree(p).pkgs
    BY <1>3, <1>7, <1>9 DEF ChangeUnit, Enablement, OpenRecord, WriteRecord
  <2> QED
    BY <1>1, <1>2, <1>9, <2>1 DEF ChangeUnit, OpenRecord, WriteRecord
<1> QED
  BY <1>3, <1>4, <1>5, <1>8, <1>9 DEF QuietStep, LoadFails, Load, Compare, ReadFails, Adopt,
     AdoptOf, AcquireFails, ZypperFails, ResolveLock, SkipEntry, FileFails, FilesDone,
     SystemctlFails, UnitsDone, StampUserdata, RecordFails, PostVerify, Publish, PublishFails,
     SealAndActivate, Kill, Stop

LEMMA UniqueNext ==
  ASSUME UniqueNames(InitialTree.pkgs), IInv, DInv, Unique, [Next]_vars PROVE Unique'
<1> SUFFICES ASSUME NEW s \in Snaps, snap'[s] # snap[s] PROVE UniqueNames(snap'[s].pkgs)
  BY DEF Unique
<1>1. ASSUME NEW p \in Procs, QuietStep(p) PROVE UniqueNames(snap'[s].pkgs)
  <2>1. Tree(p) \in RootTrees /\ UniqueNames(Tree(p).pkgs)
    BY <1>1, TreeAfter, LateTree DEF Unique, Tree
  <2>2. \A n \in DOMAIN Ships : UniqueNames(Remove(Tree(p), n).pkgs)
    BY <2>1, RemoveTree DEF Remove, UniqueNames, RootTrees
  <2> QED
    BY <1>1, <2>1, <2>2, TreeAfter, UniqueInstall
<1>2. ASSUME NEW p \in Procs, AcquireInternal(p) \/ TuRun(p) PROVE UniqueNames(snap'[s].pkgs)
  BY <1>2, SnapNumbers DEF AcquireInternal, OpenSnapshot, TuRun, Unique, DInv, Data
<1>3. ASSUME Edit PROVE UniqueNames(snap'[s].pkgs)
  <2>1. snap'[s].pkgs = snap[s].pkgs
    BY <1>3 DEF Edit, PutFile, PutUnit, DInv, Data, RootTrees
  <2> QED
    BY <2>1 DEF Unique
<1>4. ASSUME TuEnd PROVE UniqueNames(snap'[s].pkgs)
  BY <1>4 DEF TuEnd, Unique, DInv, Data
<1>5. ASSUME Reboot \/ UNCHANGED vars
             \/ \E p \in Procs : Invoke(p) \/ Activate(p) \/ AcquireExternal(p)
      PROVE  snap' = snap
  BY <1>5 DEF Reboot, Invoke, Activate, AcquireExternal, Stop, vars, machine
<1> QED
  BY <1>1, <1>2, <1>3, <1>4, <1>5, StepCases

(* verb_init: when no write is short, every description is complete and no package *)
(* is there twice, the record that a successful init leaves in a generation         *)
(* matches that generation.                                                        *)
THEOREM InitRecordsWhatIs ==
  ASSUME OutsideModes \subseteq {"internal"}, DiskFaults = FALSE, RpmdbFaults = FALSE,
         ReadFaults = FALSE, UniqueNames(InitialTree.pkgs)
  PROVE  Spec => []InitRecordsItsGeneration
<1>1. Init => Unique
  BY DEF Init, Unique
<1>2. IInv /\ DInv /\ Unique /\ [Next]_vars => Unique'
  BY UniqueNext
<1>3. IInv /\ DInv /\ RInv /\ Unique => InitRecordsItsGeneration
  <2> SUFFICES ASSUME IInv, DInv, RInv, Unique, NEW p \in Procs, Left(p),
                      args[p].verb = "init", InOneTree(p)
               PROVE  DriftEmpty(ComputeDrift(
                        Describe(snap[ctx[p]], Everything(snap[ctx[p]]), FALSE),
                        snap[ctx[p]].rec, KeepList))
    BY DEF InitRecordsItsGeneration
  <2> DEFINE t == snap[ctx[p]]
  <2>1. Held(p) /\ Home(p) = ctx[p] /\ pc[p] = "done" /\ ~opened[p]
    BY DEF Held, Home, Left, Alive, InOneTree
  <2>2. t \in RootTrees /\ UniqueNames(t.pkgs)
    BY SnapNumbers DEF Left, DInv, Data, Unique
  <2>3. /\ lock[p] = t.pkgs /\ t.rec = NewRecord(p)
        /\ desired[p] = Describe(t, Everything(t), ContentStore)
    BY <2>1 DEF RInv, AllRecorded, Recorded
  <2>4. desired[p] \in Manifest
    BY DEF DInv, Data
  <2>5. /\ t.rec.config_files = desired[p].config_files /\ t.rec.services = desired[p].services
        /\ t.rec.packages = t.pkgs
    BY <2>3, <2>4 DEF NewRecord, Manifest
  <2>6. Elements(t.rec.packages) = t.pkgs
    BY <2>2, <2>5, PackagesElements DEF RootTrees
  <2> HIDE DEF t
  <2>7. DriftEmpty(ComputeDrift(Describe(t, Everything(t), FALSE), t.rec, KeepList))
    BY <2>2, <2>3, <2>5, <2>6, NoDriftFromSelf, FlagAssumption
  <2> QED
    BY <2>7 DEF t
<1> QED
  BY <1>1, <1>2, <1>3, Invariant, PlanInvariant, RecordInvariant, PTL DEF Spec
=============================================================================
