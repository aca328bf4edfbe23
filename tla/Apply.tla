-------------------------------- MODULE Apply --------------------------------
(***************************************************************************)
(* The converging verbs of zypper-declarative, apply and init (verbs.cpp),  *)
(* with the transaction binding (transaction.cpp) and the convergers        *)
(* (converge.cpp), run by several processes on one machine.                 *)
(*                                                                         *)
(* The machine keeps a numbered set of snapshots, each a root tree.         *)
(* `running' is the one booted, `bootDefault' the one booted next, and `tu' *)
(* the transaction an external transactional-update holds open, whose       *)
(* marker file is /run/transactional-update.pid.  A process does one step   *)
(* per external command, file write, file deletion or file of the record,   *)
(* so that it can be killed, or overtaken, between any two.                 *)
(***************************************************************************)
EXTENDS RootTree, Naturals

CONSTANTS
  Procs,          \* invocations of the program that may be alive at a time
  MaxSnap,        \* bound: the highest snapshot number
  MaxEdits,       \* bound: edits of the running /etc by an administrator
  InitialTree,    \* the tree of snapshot 0
  Manifests,      \* the desired manifests an operator may pass to apply
  Verbs,          \* subset of {"apply", "init"}
  OutsideVerbs,   \* ... those started outside of a transaction
  InsideModes,    \* transaction modes used by a process inside a transaction
  OutsideModes,   \* ... and by one started outside of it
  EditNodes,      \* what an administrator may put at a path
  EditStates,     \* the enablement an administrator may give a unit
  RepoVersions,   \* the versions the repositories offer
  ContentStore,   \* a content store is configured
  EmptyDigest,    \* digest of the empty content
  CorruptDigest,  \* digest of a damaged blob
  NoHash,         \* the empty sha256 of an entry
  DefaultMode,    \* mode of a file created under the process's umask
  RpmdbFaults,    \* an rpmdb may fail to open
  ReadFaults,     \* a description may leave out what is there, without an error
  DiskFaults,     \* an unchecked write may be short
  None,           \* no value
  Killed,         \* the exit status of a process that was killed
  Torn            \* a truncated applied.json

Snaps == 0..MaxSnap

ASSUME SnapAssumption == MaxSnap \in Nat /\ MaxEdits \in Nat
ASSUME NoneAssumption == None \notin Snaps /\ None \notin [snap : Snaps, proc : Procs]
ASSUME ExitAssumption == None \notin {0, 1, 2} /\ Killed \notin {0, 1, 2}
ASSUME ModeAssumption ==
  InsideModes \cup OutsideModes \subseteq {"auto", "external", "internal"}
ASSUME FlagAssumption == {RpmdbFaults, ReadFaults, DiskFaults, ContentStore} \subseteq BOOLEAN
ASSUME VerbAssumption == OutsideVerbs \subseteq Verbs /\ Verbs \subseteq {"apply", "init"}

VARIABLES
  \* the machine
  present,      \* the snapshots that exist
  snap,         \* snapshot number -> tree
  nextSnap,     \* the next number snapper hands out
  userdata,     \* snapshot number -> the manifest stamped in its userdata
  running, bootDefault,
  tu,           \* the open external transaction: [snap, proc], or None
  outfile,      \* the manifest init wrote for the operator, or None
  edits,
  \* the processes
  pc,
  args,         \* [verb, mode, inside]: the invocation
  desired,      \* the desired (or adopted) manifest
  base,         \* the applied record the intent diff was computed from
  plan,         \* what is left to do of the intent diff
  ctx,          \* the context root: a snapshot number, or None
  opened,       \* ctx.opened_here
  lock,         \* the resolved packages
  cur,          \* the file being written: [entry, got], or None
  exit          \* None while running; 0, 1, 2 or Killed

machine == <<present, snap, nextSnap, userdata, running, bootDefault, tu, outfile, edits>>
proc == <<pc, args, desired, base, plan, ctx, opened, lock, cur, exit>>
vars == <<machine, proc>>

world == <<present, nextSnap, running, bootDefault, tu, edits>>

NoPlan == [install |-> {}, remove |-> {}, write |-> {}, delete |-> {}, units |-> {}]
NoArgs == [verb |-> None, mode |-> None, inside |-> FALSE]

Init ==
  /\ present = {0}
  /\ snap = [s \in Snaps |-> InitialTree]
  /\ nextSnap = 1
  /\ userdata = [s \in Snaps |-> None]
  /\ running = 0 /\ bootDefault = 0
  /\ tu = None /\ outfile = None /\ edits = 0
  /\ pc = [p \in Procs |-> "idle"]
  /\ args = [p \in Procs |-> NoArgs]
  /\ desired = [p \in Procs |-> EmptyManifest]
  /\ base = [p \in Procs |-> EmptyManifest]
  /\ plan = [p \in Procs |-> NoPlan]
  /\ ctx = [p \in Procs |-> None]
  /\ opened = [p \in Procs |-> FALSE]
  /\ lock = [p \in Procs |-> {}]
  /\ cur = [p \in Procs |-> None]
  /\ exit = [p \in Procs |-> None]

-----------------------------------------------------------------------------
Alive(p) == pc[p] \notin {"idle", "done"}

(* The tree a process sees at "/": the transaction's when it was started by  *)
(* transactional-update run, the booted one otherwise.                       *)
Root(p) == IF args[p].inside THEN tu.snap ELSE running

(* external_transaction_root: the marker is under /run, which the            *)
(* transaction shares with the running system.                               *)
MarkerPresent == tu # None

Tree(p) == snap[ctx[p]]

Goto(p, l) == pc' = [pc EXCEPT ![p] = l]

Exit(p, code) == Goto(p, "done") /\ exit' = [exit EXCEPT ![p] = code]

(* A step that leaves the machine alone and ends the process. *)
Stop(p, code) ==
  /\ Exit(p, code)
  /\ UNCHANGED <<machine, args, desired, base, plan, ctx, opened, lock, cur>>

ChangeTree(p, t) == snap' = [snap EXCEPT ![ctx[p]] = t]

Did(p, work, x) == plan' = [plan EXCEPT ![p][work] = @ \ {x}]

(* The two readings of the same rpmdb: it opens, or it does not. *)
RpmdbOutcomes == IF RpmdbFaults THEN BOOLEAN ELSE {TRUE}

(* What a description of tree t may get to read of it. *)
ReadsOf(t, repos, units, files) ==
  [rpmdb : RpmdbOutcomes, repos : repos, units : units, files : files]

Readings(t) ==
  IF ReadFaults THEN ReadsOf(t, SUBSET t.repos, SUBSET Units, SUBSET Paths)
  ELSE ReadsOf(t, {t.repos}, {Units}, {Paths})

-----------------------------------------------------------------------------
(* Starting *)

(* A new invocation; verb_apply's check of mode=external comes first. *)
Begin(p, verb, mode, inside, m, marker) ==
  /\ ~Alive(p)
  /\ args' = [args EXCEPT ![p] = [verb |-> verb, mode |-> mode, inside |-> inside]]
  /\ desired' = [desired EXCEPT ![p] = m]
  /\ base' = [base EXCEPT ![p] = EmptyManifest]
  /\ plan' = [plan EXCEPT ![p] = NoPlan]
  /\ ctx' = [ctx EXCEPT ![p] = None]
  /\ opened' = [opened EXCEPT ![p] = FALSE]
  /\ lock' = [lock EXCEPT ![p] = {}]
  /\ cur' = [cur EXCEPT ![p] = None]
  /\ IF verb = "apply" /\ mode = "external" /\ ~marker
       THEN Exit(p, 2)
       ELSE /\ Goto(p, IF verb = "apply" THEN "load" ELSE "describe")
            /\ exit' = [exit EXCEPT ![p] = None]

(* The manifests an invocation can name: init takes none. *)
Inputs(verb) ==
  IF verb = "init" THEN {EmptyManifest}
  ELSE Manifests \cup (IF outfile = None THEN {} ELSE {outfile})

Invoke(p) ==
  /\ tu # None => tu.proc # p
  /\ \E verb \in OutsideVerbs, mode \in OutsideModes : \E m \in Inputs(verb) :
       Begin(p, verb, mode, FALSE, m, MarkerPresent)
  /\ UNCHANGED machine

(* load_desired_manifest, load_applied_record and compute_intent_diff.  A     *)
(* manifest or a record that does not parse ends the run.                    *)
LoadFails(p) ==
  /\ pc[p] = "load"
  /\ \E code \in {1, 2} : Stop(p, code)

AppliedRecord(p) ==
  LET r == snap[Root(p)].rec IN IF r = None THEN EmptyManifest ELSE r

Load(p) ==
  /\ pc[p] = "load"
  /\ IF snap[Root(p)].rec = Torn THEN Stop(p, 1)
     ELSE LET d == ComputeIntentDiff(desired[p], AppliedRecord(p)) IN
          /\ base' = [base EXCEPT ![p] = AppliedRecord(p)]
          /\ plan' = [plan EXCEPT ![p] = [install |-> d.packages_install,
                                          remove  |-> d.packages_remove,
                                          write   |-> d.files_write,
                                          delete  |-> d.files_delete,
                                          units   |-> d.units_change]]
          /\ Goto(p, IF IntentEmpty(d) THEN "compare" ELSE "acquire")
          /\ UNCHANGED <<machine, args, desired, ctx, opened, lock, cur, exit>>

(* The intent diff is empty: nothing to do unless the system drifted. *)
Compare(p) ==
  /\ pc[p] = "compare"
  /\ \E got \in Readings(snap[Root(p)]) :
       IF DriftEmpty(ComputeDrift(Describe(snap[Root(p)], got, FALSE),
                                  desired[p], KeepList))
         THEN Stop(p, 0)
         ELSE /\ Goto(p, "acquire")
              /\ UNCHANGED <<machine, args, desired, base, plan, ctx, opened,
                             lock, cur, exit>>

(* describe_actual_state reports an unreadable source, which it does not for  *)
(* init: that reads under on_unreadable=warn.                                *)
ReadFails(p) ==
  /\ pc[p] \in {"compare", "verify"}
  /\ Stop(p, 1)

(* init adopts what it reads of a root, "/" in the code. *)
AdoptOf(p, root) ==
  /\ pc[p] = "describe"
  /\ \E got \in Readings(snap[root]) :
       LET m == Describe(snap[root], got, ContentStore) IN
       /\ desired' = [desired EXCEPT ![p] = m]
       /\ lock' = [lock EXCEPT ![p] = Elements(m.packages)]
  /\ Goto(p, "acquire")
  /\ UNCHANGED <<machine, args, base, plan, ctx, opened, cur, exit>>

Adopt_mutant_booted(p) == AdoptOf(p, running)
Adopt(p) == AdoptOf(p, Root(p))

-----------------------------------------------------------------------------
(* acquire_transaction_context *)

Resolved(mode) ==
  IF mode # "auto" THEN mode
  ELSE IF MarkerPresent THEN "external" ELSE "internal"

AfterAcquire(p) == IF args[p].verb = "apply" THEN "packages" ELSE "record"

AcquireExternal(p) ==
  /\ pc[p] = "acquire" /\ Resolved(args[p].mode) = "external"
  /\ IF ~MarkerPresent THEN Stop(p, 2)
     ELSE /\ ctx' = [ctx EXCEPT ![p] = Root(p)]
          /\ Goto(p, AfterAcquire(p))
          /\ UNCHANGED <<machine, args, desired, base, plan, opened, lock, cur, exit>>

(* createSingleSnapshotOfDefault: a writable copy of the default snapshot,    *)
(* whose directory becomes the context root.                                 *)
OpenSnapshot(p, root, next) ==
  /\ pc[p] = "acquire" /\ Resolved(args[p].mode) = "internal"
  /\ nextSnap <= MaxSnap
  /\ present' = present \cup {nextSnap}
  /\ snap' = [snap EXCEPT ![nextSnap] = snap[bootDefault]]
  /\ nextSnap' = next
  /\ ctx' = [ctx EXCEPT ![p] = root]
  /\ opened' = [opened EXCEPT ![p] = TRUE]
  /\ Goto(p, AfterAcquire(p))
  /\ UNCHANGED <<userdata, running, bootDefault, tu, outfile, edits,
                 args, desired, base, plan, lock, cur, exit>>

AcquireInternal_mutant_number(p)  == OpenSnapshot(p, nextSnap, nextSnap)
AcquireInternal_mutant_running(p) == OpenSnapshot(p, running, nextSnap + 1)
AcquireInternal_mutant_default(p) == OpenSnapshot(p, bootDefault, nextSnap + 1)
AcquireInternal(p) == OpenSnapshot(p, nextSnap, nextSnap + 1)

AcquireFails(p) ==
  /\ pc[p] = "acquire" /\ Resolved(args[p].mode) = "internal"
  /\ Stop(p, 2)

-----------------------------------------------------------------------------
(* converge_packages: each package to install, then each to remove, with a   *)
(* command of its own; then the rpmdb is read for the lock.                   *)

StepVars == <<world, userdata, outfile, args, desired, base, ctx, opened, exit>>

InstallPackage_mutant(p) ==
  /\ pc[p] = "packages"
  /\ \E x \in plan[p].install :
       /\ \/ UNCHANGED snap
          \/ /\ x.name # NoPackage
             /\ \E v \in RepoVersions : ChangeTree(p, Install(Tree(p), x.name, v))
       /\ Did(p, "install", x)
  /\ UNCHANGED <<StepVars, pc, lock, cur>>

(* An entry without a name is passed over. *)
InstallPackage(p) ==
  /\ pc[p] = "packages"
  /\ \E x \in plan[p].install :
       /\ \/ x.name = NoPackage /\ UNCHANGED snap
          \/ /\ x.name # NoPackage
             /\ \E v \in RepoVersions : ChangeTree(p, Install(Tree(p), x.name, v))
       /\ Did(p, "install", x)
  /\ UNCHANGED <<StepVars, pc, lock, cur>>

RemovePackage(p) ==
  /\ pc[p] = "packages" /\ plan[p].install = {}
  /\ \E n \in plan[p].remove :
       /\ IF n = NoPackage THEN UNCHANGED snap ELSE ChangeTree(p, Remove(Tree(p), n))
       /\ Did(p, "remove", n)
  /\ UNCHANGED <<StepVars, pc, lock, cur>>

ZypperFails(p) ==
  /\ pc[p] = "packages"
  /\ (NamesOf(plan[p].install) \cup plan[p].remove) \ {NoPackage} # {}
  /\ Stop(p, 1)

ResolveLock_mutant(p) ==
  /\ pc[p] = "packages" /\ plan[p].install = {} /\ plan[p].remove = {}
  /\ lock' = [lock EXCEPT ![p] = Elements(desired[p].packages)]
  /\ Goto(p, "files")
  /\ UNCHANGED <<StepVars, snap, plan, cur>>

ResolveLock(p) ==
  /\ pc[p] = "packages" /\ plan[p].install = {} /\ plan[p].remove = {}
  /\ \E rpmdb \in RpmdbOutcomes :
       lock' = [lock EXCEPT ![p] = IF rpmdb THEN Tree(p).pkgs ELSE {}]
  /\ Goto(p, "files")
  /\ UNCHANGED <<StepVars, snap, plan, cur>>

-----------------------------------------------------------------------------
(* converge_files: each declared regular file is truncated, written and      *)
(* hashed; then each dropped path is deleted unless it is protected.          *)

(* What the content of an entry resolves to: nothing names content without a *)
(* content_ref or without a store, and a blob holds what was put in it.       *)
Resolves(e) ==
  (IF e.content_ref /\ ContentStore THEN {e.data, CorruptDigest} ELSE {EmptyDigest})
    \cup (IF DiskFaults THEN {CorruptDigest} ELSE {})

(* Opening a path for writing truncates the file there, or creates it; a link *)
(* on disk is followed, and the path itself stays a link.                     *)
Written(node, digest) ==
  IF node # NoFile /\ node.type = "link" THEN node
  ELSE [type |-> "file", data |-> digest,
        mode |-> IF node = NoFile THEN DefaultMode ELSE node.mode]

SkipEntry_mutant(p) ==
  /\ pc[p] = "files"
  /\ \E e \in plan[p].write : e.type # "file"
  /\ UNCHANGED <<StepVars, plan, snap, pc, lock, cur>>

SkipEntry(p) ==
  /\ pc[p] = "files"
  /\ \E e \in plan[p].write :
       /\ e.type # "file"
       /\ Did(p, "write", e)
  /\ UNCHANGED <<StepVars, snap, pc, lock, cur>>

OpenFile(p) ==
  /\ pc[p] = "files"
  /\ \E e \in plan[p].write : \E got \in Resolves(e) :
       /\ e.type = "file"
       /\ cur' = [cur EXCEPT ![p] = [entry |-> e, got |-> got]]
       /\ ChangeTree(p, PutFile(Tree(p), e.name,
                                Written(Tree(p).files[e.name], EmptyDigest)))
  /\ Goto(p, "writing")
  /\ UNCHANGED <<StepVars, plan, lock>>

WriteFile(p) ==
  /\ pc[p] = "writing"
  /\ LET e == cur[p].entry
         got == cur[p].got IN
     /\ ChangeTree(p, PutFile(Tree(p), e.name, Written(Tree(p).files[e.name], got)))
     /\ Did(p, "write", e)
     /\ IF e.data # NoHash /\ got # e.data
          THEN Exit(p, 1) ELSE Goto(p, "files") /\ UNCHANGED exit
  /\ cur' = [cur EXCEPT ![p] = None]
  /\ UNCHANGED <<world, userdata, outfile, args, desired, base, ctx, opened, lock>>

Protected_mutant(t, f, rpmdb) == f = Syncpoint \/ f \in KeepList
Protected(t, f, rpmdb) == f = Syncpoint \/ f \in KeepList \/ Owned(t, f, rpmdb)

DeleteFile(p) ==
  /\ pc[p] = "files" /\ plan[p].write = {}
  /\ \E f \in plan[p].delete, rpmdb \in RpmdbOutcomes :
       /\ ChangeTree(p, IF Protected(Tree(p), f, rpmdb) THEN Tree(p)
                        ELSE PutFile(Tree(p), f, NoFile))
       /\ Did(p, "delete", f)
  /\ UNCHANGED <<StepVars, pc, lock, cur>>

(* A blob or a target cannot be opened, or a file cannot be removed. *)
FileFails(p) ==
  /\ pc[p] = "files"
  /\ \/ \E e \in plan[p].write : e.type = "file"
     \/ plan[p].write = {} /\ plan[p].delete # {}
  /\ Stop(p, 1)

FilesDone(p) ==
  /\ pc[p] = "files" /\ plan[p].write = {} /\ plan[p].delete = {}
  /\ Goto(p, "units")
  /\ UNCHANGED <<StepVars, snap, plan, lock, cur>>

-----------------------------------------------------------------------------
(* converge_units: systemctl --root enable, disable or mask.  A masked unit   *)
(* is neither enabled nor disabled by it; a state outside of the three        *)
(* declarable ones is skipped.                                               *)

Enablement(t, u) ==
  IF u.state \notin DeclarableStates \/ (t.units[u.name] = "masked" /\ u.state # "masked")
    THEN t ELSE PutUnit(t, u.name, u.state)

ChangeUnit(p) ==
  /\ pc[p] = "units"
  /\ \E u \in plan[p].units :
       /\ ChangeTree(p, Enablement(Tree(p), u))
       /\ Did(p, "units", u)
  /\ UNCHANGED <<StepVars, pc, lock, cur>>

SystemctlFails(p) ==
  /\ pc[p] = "units"
  /\ \E u \in plan[p].units : u.state \in DeclarableStates
  /\ Stop(p, 1)

UnitsDone(p) ==
  /\ pc[p] = "units" /\ plan[p].units = {}
  /\ Goto(p, "record")
  /\ UNCHANGED <<StepVars, snap, plan, lock, cur>>

-----------------------------------------------------------------------------
(* write_applied_record: applied.json is truncated in place, then written     *)
(* unchecked; then the snapshot's userdata is stamped, when this program      *)
(* opened the snapshot and finds it.                                         *)

NewRecord(p) == [desired[p] EXCEPT !.packages = lock[p]]

OpenRecord_mutant(p) ==
  /\ pc[p] = "record"
  /\ ChangeTree(p, PutRecord(Tree(p), Torn))
  /\ userdata' = IF opened[p] THEN [userdata EXCEPT ![ctx[p]] = desired[p]] ELSE userdata
  /\ Goto(p, "recording")
  /\ UNCHANGED <<world, outfile, args, desired, base, plan, ctx, opened, lock, cur, exit>>

OpenRecord(p) ==
  /\ pc[p] = "record"
  /\ ChangeTree(p, PutRecord(Tree(p), Torn))
  /\ Goto(p, "recording")
  /\ UNCHANGED <<StepVars, plan, lock, cur>>

WriteRecord(p) ==
  /\ pc[p] = "recording"
  /\ \/ ChangeTree(p, PutRecord(Tree(p), NewRecord(p)))
     \/ DiskFaults /\ UNCHANGED snap
  /\ Goto(p, "stamp")
  /\ UNCHANGED <<StepVars, plan, lock, cur>>

StampUserdata(p) ==
  /\ pc[p] = "stamp"
  /\ userdata' = IF opened[p] /\ ctx[p] \in present
                   THEN [userdata EXCEPT ![ctx[p]] = desired[p]] ELSE userdata
  /\ Goto(p, IF args[p].verb = "apply" THEN "verify" ELSE "publish")
  /\ UNCHANGED <<world, snap, outfile, args, desired, base, plan, ctx, opened,
                 lock, cur, exit>>

RecordFails(p) ==
  /\ \/ pc[p] = "record"
     \/ pc[p] = "stamp" /\ opened[p]
  /\ Stop(p, 1)

-----------------------------------------------------------------------------
(* The end of a run *)

PostVerify_mutant(p) ==
  /\ pc[p] = "verify"
  /\ Goto(p, "seal")
  /\ UNCHANGED <<machine, args, desired, base, plan, ctx, opened, lock, cur, exit>>

(* apply compares the converged tree with the record it has just written.     *)
PostVerify(p) ==
  /\ pc[p] = "verify"
  /\ \E got \in Readings(Tree(p)) :
       IF DriftEmpty(ComputeDrift(Describe(Tree(p), got, FALSE),
                                  NewRecord(p), KeepList))
         THEN /\ Goto(p, "seal")
              /\ UNCHANGED <<machine, args, desired, base, plan, ctx, opened,
                             lock, cur, exit>>
         ELSE Stop(p, 1)

(* init writes the adopted manifest for the operator. *)
Publish(p) ==
  /\ pc[p] = "publish"
  /\ outfile' = desired[p]
  /\ Goto(p, "seal")
  /\ UNCHANGED <<world, snap, userdata, args, desired, base, plan, ctx, opened,
                 lock, cur, exit>>

PublishFails(p) == pc[p] = "publish" /\ Stop(p, 2)

(* seal_and_activate returns success without doing anything. *)
SealAndActivate(p) == pc[p] = "seal" /\ Stop(p, 0)

(* A crash, an uncaught exception or SIGKILL; the handlers of SIGTERM and      *)
(* SIGINT only set a flag nobody reads.                                      *)
Kill(p) ==
  /\ Alive(p)
  /\ Stop(p, Killed)

Step(p) ==
  \/ LoadFails(p) \/ Load(p) \/ Compare(p) \/ ReadFails(p) \/ Adopt(p)
  \/ AcquireExternal(p) \/ AcquireInternal(p) \/ AcquireFails(p)
  \/ InstallPackage(p) \/ RemovePackage(p) \/ ZypperFails(p) \/ ResolveLock(p)
  \/ SkipEntry(p) \/ OpenFile(p) \/ WriteFile(p) \/ DeleteFile(p)
  \/ FileFails(p) \/ FilesDone(p)
  \/ ChangeUnit(p) \/ SystemctlFails(p) \/ UnitsDone(p)
  \/ OpenRecord(p) \/ WriteRecord(p) \/ StampUserdata(p) \/ RecordFails(p)
  \/ PostVerify(p) \/ Publish(p) \/ PublishFails(p) \/ SealAndActivate(p)

-----------------------------------------------------------------------------
(* The machine around the program *)

(* transactional-update run: a copy of the default snapshot becomes the root  *)
(* of one invocation.                                                        *)
TuRun(p) ==
  /\ tu = None /\ nextSnap <= MaxSnap
  /\ present' = present \cup {nextSnap}
  /\ snap' = [snap EXCEPT ![nextSnap] = snap[bootDefault]]
  /\ tu' = [snap |-> nextSnap, proc |-> p]
  /\ nextSnap' = nextSnap + 1
  /\ \E verb \in Verbs, mode \in InsideModes : \E m \in Inputs(verb) :
       Begin(p, verb, mode, TRUE, m, TRUE)
  /\ UNCHANGED <<userdata, running, bootDefault, outfile, edits>>

(* It keeps the snapshot when the command succeeded, and discards it if not.  *)
TuEnd ==
  /\ tu # None /\ ~Alive(tu.proc)
  /\ IF exit[tu.proc] = 0
       THEN bootDefault' = tu.snap /\ UNCHANGED <<present, snap>>
       ELSE /\ present' = present \ {tu.snap}
            /\ snap' = [snap EXCEPT ![tu.snap] = InitialTree]  \* of no meaning
            /\ UNCHANGED bootDefault
  /\ tu' = None
  /\ UNCHANGED <<nextSnap, userdata, running, outfile, edits, proc>>

(* The snapshot machinery to which seal_and_activate leaves the activation    *)
(* of a snapshot that this program opened: one that was not booted yet.       *)
Activate(p) ==
  /\ pc[p] = "done" /\ exit[p] = 0 /\ opened[p] /\ ctx[p] > running
  /\ bootDefault' = ctx[p]
  /\ UNCHANGED <<present, snap, nextSnap, userdata, running, tu, outfile, edits, proc>>

(* /run does not survive: an interrupted transaction is left unactivated. *)
Reboot ==
  /\ running' = bootDefault
  /\ tu' = None
  /\ pc' = [p \in Procs |-> IF Alive(p) THEN "done" ELSE pc[p]]
  /\ exit' = [p \in Procs |-> IF Alive(p) THEN Killed ELSE exit[p]]
  /\ UNCHANGED <<present, snap, nextSnap, userdata, bootDefault, outfile, edits,
                 args, desired, base, plan, ctx, opened, lock, cur>>

(* An administrator changes a file or a unit of the running system. *)
Edit ==
  /\ edits < MaxEdits
  /\ \/ \E f \in Paths, node \in EditNodes :
          snap' = [snap EXCEPT ![running] = PutFile(@, f, node)]
     \/ \E u \in Units, s \in EditStates :
          snap' = [snap EXCEPT ![running] = PutUnit(@, u, s)]
  /\ edits' = edits + 1
  /\ UNCHANGED <<present, nextSnap, userdata, running, bootDefault, tu, outfile, proc>>

Environment ==
  \/ TuEnd \/ Reboot \/ Edit
  \/ \E p \in Procs : Invoke(p) \/ TuRun(p) \/ Activate(p) \/ Kill(p)

Next == Environment \/ \E p \in Procs : Step(p)

Spec == Init /\ [][Next]_vars

(* Every external command ends, so a process that can take a step takes one.  *)
Fairness == \A p \in Procs : WF_vars(Step(p))
FairSpec == Spec /\ Fairness
=============================================================================
