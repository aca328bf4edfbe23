------------------------- MODULE ApplyConvergedProofs -------------------------
(***************************************************************************)
(* What exit 0 means: the tree of a successful apply holds what its manifest   *)
(* declares, and so the machine only ever boots whole generations.            *)
(***************************************************************************)
EXTENDS ApplyRecordProofs

(* No manifest declares a path or a unit twice; the entries of one path, or the  *)
(* states of one unit, would be told apart by their order alone.               *)
UniqueEntries(m) == UniqueNames(Elements(m.config_files)) /\ UniqueNames(Elements(m.services))

Distinct ==
  /\ \A p \in Procs : UniqueEntries(desired[p])
  /\ outfile # None => UniqueEntries(outfile)

LEMMA DescribeDistinct ==
  ASSUME NEW t \in RootTrees, NEW got \in Readings(t), NEW store \in BOOLEAN
  PROVE  UniqueEntries(Describe(t, got, store))
<1> DEFINE F == {FileRecord(t, f, got.rpmdb, store) : f \in Emitted(t, got.rpmdb) \cap got.files}
           U == {[name |-> u, state |-> t.units[u]] : u \in ReadUnits(t, got)}
<1>1. /\ Elements(Describe(t, got, store).config_files) = F
      /\ Elements(Describe(t, got, store).services) = U
  <2>1. got \in Readable(t)
    BY ReadingsTyped
  <2> QED
    BY <2>1, DescribeScopes
<1>2. \A f : FileRecord(t, f, got.rpmdb, store).name = f
  BY DEF FileRecord
<1>3. UniqueNames(F) /\ UniqueNames(U)
  BY <1>2 DEF UniqueNames
<1> QED
  BY <1>1, <1>3 DEF UniqueEntries

LEMMA DistinctNext ==
  ASSUME \A m \in Manifests : UniqueEntries(m), IInv, DInv, Distinct, [Next]_vars
  PROVE  Distinct'
<1>1. ASSUME NEW p \in Procs, Adopt(p) PROVE Distinct'
  <2>1. PICK got \in Readings(snap[Root(p)]) :
          desired' = [desired EXCEPT ![p] = Describe(snap[Root(p)], got, ContentStore)]
    BY <1>1 DEF Adopt, AdoptOf
  <2>2. UniqueEntries(Describe(snap[Root(p)], got, ContentStore))
    BY <1>1, RootTyped, DescribeDistinct, FlagAssumption
       DEF Adopt, AdoptOf, Alive, DInv, Data
  <2> QED
    BY <1>1, <2>1, <2>2 DEF Adopt, AdoptOf, machine, Distinct, DInv, Data
<1>2. ASSUME NEW p \in Procs, Publish(p) PROVE Distinct'
  BY <1>2 DEF Publish, Distinct
<1>3. ASSUME NEW p \in Procs, OwnStep(p), ~Adopt(p), ~Publish(p) PROVE Distinct'
  <2>1. UNCHANGED <<desired, outfile>>
    BY <1>3 DEF OwnStep, QuietStep, LoadFails, Load, Compare, ReadFails, AcquireFails,
       InstallPackage, RemovePackage, ZypperFails, ResolveLock, SkipEntry, OpenFile, WriteFile,
       DeleteFile, FileFails, FilesDone, ChangeUnit, SystemctlFails, UnitsDone, OpenRecord,
       WriteRecord, StampUserdata, RecordFails, PostVerify, PublishFails, SealAndActivate,
       Kill, AcquireExternal, AcquireInternal, OpenSnapshot, Stop, machine, StepVars
  <2> QED
    BY <2>1 DEF Distinct
<1>4. ASSUME NEW p \in Procs, Invoke(p) \/ TuRun(p) PROVE Distinct'
  <2>1. outfile' = outfile
    BY <1>4 DEF Invoke, TuRun, machine
  <2>2. PICK verb \in Verbs : \E m \in Inputs(verb) : desired' = [desired EXCEPT ![p] = m]
    BY <1>4, VerbAssumption DEF Invoke, TuRun, Begin
  <2>3. PICK m \in Inputs(verb) : desired' = [desired EXCEPT ![p] = m]
    BY <2>2
  <2>4. UniqueEntries(m)
    BY <2>3, EmptyManifestTyped DEF Inputs, Distinct, UniqueEntries, UniqueNames
  <2> QED
    BY <2>1, <2>3, <2>4 DEF Distinct, DInv, Data
<1>5. ASSUME TuEnd \/ Edit \/ Reboot \/ UNCHANGED vars \/ \E p \in Procs : Activate(p)
      PROVE  Distinct'
  BY <1>5 DEF TuEnd, Edit, Reboot, Activate, vars, machine, proc, Distinct
<1> QED
  BY <1>1, <1>2, <1>3, <1>4, <1>5, StepCases DEF OwnStep

-----------------------------------------------------------------------------
(* How far an apply has converged its tree *)

(* A declared package is there, or zypper removed it with one it needed. *)
There(x, t, dropped) ==
  x.name \in NamesOf(t.pkgs) \cup {NoPackage} \/ Requires[x.name] \cap dropped # {}

Converging(p) ==
  LET t == snap[Home(p)]
      m == desired[p]
      past == {"record", "recording", "stamp", "verify", "seal", "done"}
  IN
  /\ pc[p] = "packages" =>
       /\ \A x \in Elements(m.packages) : x \in plan[p].install \/ There(x, t, Dropped(p))
       /\ plan[p].write = Elements(m.config_files)
  /\ pc[p] \in {"files", "writing", "units"} \cup past =>
       \A x \in Elements(m.packages) : There(x, t, Dropped(p))
  /\ pc[p] \in {"files", "writing"} =>
       /\ plan[p].write \subseteq Elements(m.config_files)
       /\ \A e \in Elements(m.config_files) : e \in plan[p].write \/ FileHolds(t, e)
  /\ pc[p] \in {"units"} \cup past => \A e \in Elements(m.config_files) : FileHolds(t, e)
  /\ pc[p] \in {"packages", "files", "writing"} => plan[p].units = ChangedUnits(p)
  /\ pc[p] = "units" =>
       /\ plan[p].units \subseteq Elements(m.services)
       /\ \A u \in Elements(m.services) :
            u \in plan[p].units \/ UnitChanged(t, u, base[p].services)
  /\ pc[p] \in past => \A u \in Elements(m.services) : UnitChanged(t, u, base[p].services)
  /\ ~ReadFaults /\ pc[p] \in {"seal", "done"} => Configured(t, m)

(* A file that is written is what was written, and the other files stay.        *)
LEMMA WriteHolds ==
  ASSUME NEW t \in RootTrees, NEW f \in Paths, NEW node \in Node \cup {NoFile}, NEW e,
         e.name # f, FileHolds(t, e)
  PROVE  FileHolds(PutFile(t, f, node), e)
<1>1. PutFile(t, f, node).files = [t.files EXCEPT ![f] = node]
  BY PutFileTree
<1>2. PutFile(t, f, node).files[e.name] = t.files[e.name]
  BY <1>1 DEF RootTrees
<1> QED
  BY <1>2 DEF FileHolds

LEMMA WrittenHolds ==
  ASSUME NEW t \in RootTrees, NEW e \in EtcFile, NEW got \in Digests,
         e.data = NoHash \/ got = e.data
  PROVE  FileHolds(PutFile(t, e.name, Written(t.files[e.name], got)), e)
<1> DEFINE node == Written(t.files[e.name], got)
<1>1. e.name \in Paths /\ t.files[e.name] \in Node \cup {NoFile}
  BY DEF EtcFile, RootTrees
<1>2. node \in Node /\ (node.type = "link" \/ node.data = got)
  BY <1>1, WrittenNode
<1> HIDE DEF node
<1>3. PutFile(t, e.name, node).files[e.name] = node
  <2>1. PutFile(t, e.name, node).files = [t.files EXCEPT ![e.name] = node]
    BY <1>1, <1>2, PutFileTree
  <2> QED
    BY <1>1, <2>1 DEF RootTrees
<1>4. node # NoFile
  BY <1>2, SentinelAssumption
<1> QED
  BY <1>2, <1>3, <1>4 DEF FileHolds, node

LEMMA ConvergingStep ==
  ASSUME OutsideModes \subseteq {"internal"}, IInv, DInv, Isolated, Apart, Distinct,
         NEW p \in Procs, OwnStep(p), Held(p)', args'[p].verb = "apply",
         Held(p) => Converging(p)
  PROVE  Converging(p)'
<1> USE DEF StepVars, world, machine, Goto
<1>1. \A f \in {pc, args, desired, base, plan, ctx, opened, lock, cur, exit} : DOMAIN f = Procs
  BY DEF DInv, IInv, Numbers, Shape, Data
<1>2. Routed(p) /\ Called(p) /\ Data /\ Alive(p) /\ args' = args /\ args[p].verb = "apply"
  BY StepsAreQuiet DEF DInv, Planned, OwnStep, Quiet, AcquireExternal, AcquireInternal,
     OpenSnapshot, Alive, Stop
<1>3. CASE pc[p] \in Early
  <2>1. CASE Adopt(p)
    BY <1>2, <2>1 DEF Adopt, AdoptOf, Routed
  <2>2. CASE \E code : Stop(p, code)
    BY <1>3, <2>2, StopNotHeld
  <2>3. CASE (Load(p) \/ Compare(p)) /\ ~\E code : Stop(p, code)
    <3>1. pc'[p] \in {"compare", "acquire"}
      BY <1>1, <2>3 DEF Load, Compare
    <3> QED
      BY <3>1 DEF Converging
  <2>4. CASE (AcquireExternal(p) \/ AcquireInternal(p)) /\ ~\E code : Stop(p, code)
    <3>1. pc[p] = "acquire" /\ pc'[p] = "packages" /\ UNCHANGED <<desired, plan, base>>
      BY <1>1, <1>2, <2>4 DEF AcquireExternal, AcquireInternal, OpenSnapshot, AfterAcquire
    <3>2. plan[p].install = Elements(desired[p].packages)
          /\ plan[p].write = Elements(desired[p].config_files)
          /\ plan[p].units = ChangedUnits(p)
      BY <1>2, <3>1 DEF Called
    <3> QED
      BY <3>1, <3>2 DEF Converging, ChangedUnits
  <2> QED
    BY <1>3, <2>1, <2>2, <2>3, <2>4 DEF OwnStep, QuietStep, LoadFails, ReadFails, AcquireFails,
       InstallPackage, RemovePackage, ZypperFails, ResolveLock, SkipEntry, OpenFile, WriteFile,
       DeleteFile, FileFails, FilesDone, ChangeUnit, SystemctlFails, UnitsDone, OpenRecord,
       WriteRecord, StampUserdata, RecordFails, PostVerify, Publish, PublishFails,
       SealAndActivate, Kill, Early
<1> SUFFICES ASSUME pc[p] \notin Early PROVE Converging(p)'
  BY <1>3
<1> DEFINE t == snap[ctx[p]]
           m == desired[p]
<1>4. ~AcquireInternal(p) /\ ~AcquireExternal(p) /\ QuietStep(p) /\ pc[p] \in Late
  BY <1>2 DEF AcquireInternal, AcquireExternal, OpenSnapshot, Early, Late, OwnStep, Alive, IInv,
     Numbers
<1>5. /\ Held(p) /\ Converging(p) /\ ctx[p] \in Snaps /\ t \in RootTrees /\ Tree(p) = t
      /\ plan[p] \in Plans /\ m \in Manifest
  BY <1>4, OwnHome, LateTree DEF Tree, DInv, Data
<1>6. Home(p) = ctx[p] /\ Home(p)' = ctx[p]
  BY <1>4, <1>5, OwnHome, SnapNumbers DEF Home
<1>7. ASSUME NEW u, ChangeTree(p, u) PROVE snap'[Home(p)'] = u
  BY <1>2, <1>5, <1>6, <1>7 DEF ChangeTree, Data
<1>8. ASSUME NEW code, Stop(p, code), code # 0 PROVE Converging(p)'
  BY <1>8, StopNotHeld
<1>9. CASE \/ LoadFails(p) \/ ReadFails(p) \/ AcquireFails(p) \/ ZypperFails(p) \/ FileFails(p)
           \/ SystemctlFails(p) \/ RecordFails(p) \/ PublishFails(p) \/ Kill(p)
  <2>1. PICK code \in {1, 2, Killed} : Stop(p, code)
    BY <1>9 DEF LoadFails, ReadFails, AcquireFails, ZypperFails, FileFails, SystemctlFails,
       RecordFails, PublishFails, Kill
  <2>2. code # 0
    BY <2>1, ExitAssumption
  <2> QED
    BY <1>8, <2>1, <2>2
(* What the converging of packages leaves alone. *)
<1>9a. ASSUME pc[p] = "packages", pc'[p] \in {"packages", "files"}, UNCHANGED <<desired, base>>,
              plan'[p].write = plan[p].write, plan'[p].units = plan[p].units,
              pc'[p] = "files" => plan'[p].install = {},
              \A x \in Elements(m.packages) :
                x \in plan'[p].install \/ There(x, snap'[Home(p)'], Dropped(p))
       PROVE  Converging(p)'
  <2>1. Dropped(p)' = Dropped(p) /\ ChangedUnits(p)' = ChangedUnits(p)
    BY <1>9a DEF Dropped, ChangedUnits
  <2>2. plan[p].write = Elements(m.config_files) /\ plan[p].units = ChangedUnits(p)
    BY <1>5, <1>9a DEF Converging
  <2> QED
    BY <1>9a, <2>1, <2>2 DEF Converging, There
<1>10. CASE InstallPackage(p)
  <2>1. PICK x \in plan[p].install :
          /\ \/ x.name = NoPackage /\ UNCHANGED snap
             \/ /\ x.name # NoPackage
                /\ \E v \in RepoVersions : ChangeTree(p, Install(t, x.name, v))
          /\ Did(p, "install", x)
    BY <1>5, <1>10 DEF InstallPackage
  <2>2. plan'[p].install = plan[p].install \ {x} /\ plan'[p].write = plan[p].write
        /\ plan'[p].units = plan[p].units
    BY <1>2, <2>1, DidPlan
  <2>3. pc[p] = "packages" /\ UNCHANGED <<pc, desired, base>>
    BY <1>10 DEF InstallPackage
  <2>4. \A y \in Elements(m.packages) : y \in plan[p].install \/ There(y, t, Dropped(p))
    BY <1>5, <1>6, <2>3 DEF Converging
  <2> DEFINE u == snap'[Home(p)']
  <2>5. NamesOf(t.pkgs) \subseteq NamesOf(u.pkgs) /\ x.name \in NamesOf(u.pkgs) \cup {NoPackage}
    <3>1. CASE x.name = NoPackage /\ UNCHANGED snap
      BY <1>6, <3>1
    <3>2. CASE x.name # NoPackage /\ \E v \in RepoVersions : ChangeTree(p, Install(t, x.name, v))
      <4>1. PICK v \in RepoVersions : ChangeTree(p, Install(t, x.name, v))
        BY <3>2
      <4>2. x.name \in DOMAIN Ships
        BY <1>5, <2>1, <3>2 DEF Plans, PackageEntry
      <4>3. u = Install(t, x.name, v)
        BY <1>7, <4>1
      <4>4. ASSUME NEW w \in RootTrees, NEW n \in DOMAIN Ships, NEW z \in RepoVersions
            PROVE  NamesOf(w.pkgs) \cup {n} \subseteq NamesOf(Install(w, n, z).pkgs)
        BY InstallTree
      <4> HIDE DEF u
      <4> QED
        BY <1>5, <4>2, <4>3, <4>4
    <3> QED
      BY <2>1, <3>1, <3>2
  <2> HIDE DEF u
  <2>6. \A y \in Elements(m.packages) : y \in plan'[p].install \/ There(y, u, Dropped(p))
    BY <2>2, <2>4, <2>5 DEF There
  <2> QED
    BY <1>9a, <2>2, <2>3, <2>6 DEF u
<1>11. CASE RemovePackage(p)
  <2>1. PICK n \in plan[p].remove :
          /\ IF n = NoPackage THEN UNCHANGED snap ELSE ChangeTree(p, Remove(t, n))
          /\ Did(p, "remove", n)
    BY <1>5, <1>11 DEF RemovePackage
  <2>2. plan'[p].install = plan[p].install /\ plan'[p].write = plan[p].write
        /\ plan'[p].units = plan[p].units
    BY <1>2, <2>1, DidPlan
  <2>3. pc[p] = "packages" /\ UNCHANGED <<pc, desired, base>>
    BY <1>11 DEF RemovePackage
  <2>4. \A y \in Elements(m.packages) : y \in plan[p].install \/ There(y, t, Dropped(p))
    BY <1>5, <1>6, <2>3 DEF Converging
  <2>5. n \in Dropped(p) /\ \A y \in Elements(m.packages) : y.name # n
    BY <1>2, <2>1 DEF Called, NamesOf
  <2> DEFINE u == snap'[Home(p)']
  <2>6. \A y \in Elements(m.packages) : There(y, t, Dropped(p)) => There(y, u, Dropped(p))
    <3>1. CASE n = NoPackage
      BY <1>6, <2>1, <3>1
    <3>2. CASE n # NoPackage
      <4>1. u = Remove(t, n) /\ n \in DOMAIN Ships
        BY <1>5, <1>7, <2>1, <3>2 DEF Plans
      <4> HIDE DEF u
      <4>2. \A x \in NamesOf(t.pkgs) : x \in NamesOf(u.pkgs) \/ x = n \/ n \in Requires[x]
        BY <1>5, <4>1, RemoveTree
      <4> QED
        BY <2>5, <4>2 DEF There
    <3> QED
      BY <3>1, <3>2
  <2> HIDE DEF u
  <2> QED
    BY <1>9a, <2>2, <2>3, <2>4, <2>6 DEF u
<1>12. CASE ResolveLock(p)
  <2>1. /\ pc[p] = "packages" /\ pc'[p] = "files" /\ plan[p].install = {}
        /\ UNCHANGED <<snap, plan, desired, base>>
    BY <1>1, <1>12 DEF ResolveLock
  <2>2. \A x \in Elements(m.packages) : x \in plan[p].install \/ There(x, t, Dropped(p))
    BY <1>5, <1>6, <2>1 DEF Converging
  <2> QED
    BY <1>6, <1>9a, <2>1, <2>2
(* What the converging of files leaves alone. *)
<1>12a. ASSUME {pc[p], pc'[p]} \subseteq {"files", "writing"}, UNCHANGED <<desired, base>>,
               plan'[p].units = plan[p].units, plan'[p].write \subseteq plan[p].write,
               snap'[Home(p)'].pkgs = t.pkgs,
               \A e \in Elements(m.config_files) :
                 e \in plan'[p].write \/ FileHolds(snap'[Home(p)'], e)
        PROVE  Converging(p)'
  <2>1. Dropped(p)' = Dropped(p) /\ ChangedUnits(p)' = ChangedUnits(p)
    BY <1>12a DEF Dropped, ChangedUnits
  <2>2. /\ \A x \in Elements(m.packages) : There(x, t, Dropped(p))
        /\ plan[p].units = ChangedUnits(p) /\ plan[p].write \subseteq Elements(m.config_files)
    BY <1>5, <1>6, <1>12a DEF Converging
  <2> QED
    BY <1>12a, <2>1, <2>2 DEF Converging, There
<1>12b. pc[p] \in {"files", "writing"} =>
          \A e \in Elements(m.config_files) : e \in plan[p].write \/ FileHolds(t, e)
  BY <1>5, <1>6 DEF Converging
<1>13. CASE SkipEntry(p)
  <2>1. PICK e \in plan[p].write : e.type # "file" /\ Did(p, "write", e)
    BY <1>13 DEF SkipEntry
  <2>2. plan'[p].write = plan[p].write \ {e} /\ plan'[p].units = plan[p].units
        /\ FileHolds(t, e)
    BY <1>2, <2>1, DidPlan DEF FileHolds
  <2>3. pc[p] = "files" /\ UNCHANGED <<pc, snap, desired, base>>
    BY <1>13 DEF SkipEntry
  <2> QED
    BY <1>6, <1>12a, <1>12b, <2>2, <2>3
(* A file is written where no other entry is. *)
<1>14. ASSUME NEW e \in plan[p].write, NEW node \in Node, pc[p] \in {"files", "writing"},
              ChangeTree(p, PutFile(t, e.name, node)), UNCHANGED desired
       PROVE  LET u == snap'[Home(p)'] IN
              /\ u = PutFile(t, e.name, node) /\ u.pkgs = t.pkgs
              /\ \A d \in Elements(m.config_files) \ {e} :
                   d \in plan[p].write \/ FileHolds(u, d)
              /\ e \in Elements(m.config_files)
  <2>1. e \in Elements(m.config_files) /\ e.name \in Paths
    BY <1>5, <1>14 DEF Converging, Plans, EtcFile
  <2>2. \A d \in Elements(m.config_files) \ {e} : d.name # e.name
    BY <2>1 DEF Distinct, UniqueEntries, UniqueNames
  <2>3. snap'[Home(p)'] = PutFile(t, e.name, node)
    BY <1>7, <1>14
  <2>4. \A d \in Elements(m.config_files) \ {e} : d \in plan[p].write \/ FileHolds(t, d)
    BY <1>5, <1>6, <1>14 DEF Converging
  <2>5. \A d \in Elements(m.config_files) \ {e} :
          FileHolds(t, d) => FileHolds(PutFile(t, e.name, node), d)
    BY <1>5, <2>1, <2>2, WriteHolds
  <2>6. PutFile(t, e.name, node).pkgs = t.pkgs
    BY <1>5 DEF PutFile, RootTrees
  <2> QED
    BY <2>1, <2>3, <2>4, <2>5, <2>6
<1>15. CASE OpenFile(p)
  <2>1. PICK e \in plan[p].write :
          ChangeTree(p, PutFile(t, e.name, Written(t.files[e.name], EmptyDigest)))
    BY <1>5, <1>15 DEF OpenFile
  <2>2. e.name \in Paths
    BY <1>5, <2>1 DEF Plans, EtcFile
  <2>3. Written(t.files[e.name], EmptyDigest) \in Node
    BY <1>5, <2>2, WrittenNode DEF RootTrees, Digests
  <2>4. pc[p] = "files" /\ pc'[p] = "writing" /\ UNCHANGED <<desired, base, plan>>
    BY <1>1, <1>15 DEF OpenFile
  <2>5. LET u == snap'[Home(p)'] IN
        /\ u.pkgs = t.pkgs
        /\ \A d \in Elements(m.config_files) \ {e} : d \in plan[p].write \/ FileHolds(u, d)
    BY <1>14, <2>1, <2>3, <2>4
  <2> QED
    BY <1>12a, <2>1, <2>4, <2>5
<1>16. CASE WriteFile(p)
  <2> DEFINE e == cur[p].entry
             got == cur[p].got
             node == Written(t.files[e.name], got)
  <2>1. /\ pc[p] = "writing" /\ UNCHANGED <<desired, base>>
        /\ ChangeTree(p, PutFile(t, e.name, node)) /\ Did(p, "write", e)
        /\ \/ pc'[p] = "done" /\ exit'[p] = 1
           \/ pc'[p] = "files" /\ (e.data = NoHash \/ got = e.data)
    BY <1>1, <1>5, <1>16 DEF WriteFile, Exit
  <2>2. e \in plan[p].write /\ e \in EtcFile /\ got \in Digests
    BY <1>2, <1>5, <2>1 DEF Called, Data, Plans
  <2>3. node \in Node
    BY <1>5, <2>2, WrittenNode DEF RootTrees, EtcFile
  <2>4. pc'[p] = "files" /\ (e.data = NoHash \/ got = e.data)
    BY <2>1 DEF Held, Home, Alive, Left
  <2>5. LET u == snap'[Home(p)'] IN
        /\ u = PutFile(t, e.name, node) /\ u.pkgs = t.pkgs
        /\ \A d \in Elements(m.config_files) \ {e} : d \in plan[p].write \/ FileHolds(u, d)
    BY <1>14, <2>1, <2>2, <2>3
  <2>6. FileHolds(PutFile(t, e.name, node), e)
    BY <1>5, <2>2, <2>4, WrittenHolds
  <2>7. plan'[p].write = plan[p].write \ {e} /\ plan'[p].units = plan[p].units
    BY <1>2, <2>1, DidPlan
  <2> HIDE DEF e, got, node
  <2> QED
    BY <1>12a, <2>1, <2>4, <2>5, <2>6, <2>7
<1>17. CASE DeleteFile(p)
  <2>1. PICK f \in plan[p].delete, rpmdb \in RpmdbOutcomes :
          /\ ChangeTree(p, IF Protected(t, f, rpmdb) THEN t ELSE PutFile(t, f, NoFile))
          /\ Did(p, "delete", f)
    BY <1>5, <1>17 DEF DeleteFile
  <2>2. f \in Paths /\ \A e \in Elements(m.config_files) : e.name # f
    BY <1>2, <1>5, <2>1 DEF Plans, Called, NamesOf
  <2> DEFINE u == IF Protected(t, f, rpmdb) THEN t ELSE PutFile(t, f, NoFile)
  <2>3. u.pkgs = t.pkgs
    BY <1>5 DEF PutFile, RootTrees
  <2>4. \A e \in Elements(m.config_files) : FileHolds(t, e) => FileHolds(u, e)
    BY <1>5, <2>2, WriteHolds
  <2>5. snap'[Home(p)'] = u /\ plan'[p].write = plan[p].write /\ plan'[p].units = plan[p].units
    BY <1>2, <1>7, <2>1, DidPlan
  <2>6. pc[p] = "files" /\ UNCHANGED <<pc, desired, base>>
    BY <1>17 DEF DeleteFile
  <2> HIDE DEF u
  <2> QED
    BY <1>12a, <1>12b, <2>3, <2>4, <2>5, <2>6
<1>18. CASE FilesDone(p)
  <2>1. /\ pc[p] = "files" /\ pc'[p] = "units" /\ plan[p].write = {}
        /\ UNCHANGED <<snap, desired, base, plan>>
    BY <1>1, <1>18 DEF FilesDone
  <2>2. /\ plan[p].units = ChangedUnits(p)
        /\ \A x \in Elements(m.packages) : There(x, t, Dropped(p))
        /\ \A e \in Elements(m.config_files) : FileHolds(t, e)
    BY <1>5, <1>6, <2>1 DEF Converging
  <2>3. \A u \in Elements(m.services) :
          u \in ChangedUnits(p) \/ UnitChanged(t, u, base[p].services)
    BY DEF ChangedUnits, UnitChanged
  <2>4. ChangedUnits(p) \subseteq Elements(m.services) /\ Dropped(p)' = Dropped(p)
    BY <2>1 DEF ChangedUnits, Dropped
  <2> QED
    BY <1>6, <2>1, <2>2, <2>3, <2>4 DEF Converging, There
(* The steps that leave the packages and the files of the tree alone. *)
<1>19. ASSUME NEW u, u.pkgs = t.pkgs, u.files = t.files, snap'[Home(p)'] = u,
              UNCHANGED <<desired, base>>,
              pc[p] \in {"units", "record", "recording", "stamp", "verify"},
              pc'[p] \in {"units", "record", "recording", "stamp", "verify"},
              pc'[p] = "units" =>
                /\ plan'[p].units \subseteq Elements(m.services)
                /\ \A w \in Elements(m.services) :
                     w \in plan'[p].units \/ UnitChanged(u, w, base[p].services),
              pc'[p] # "units" =>
                \A w \in Elements(m.services) : UnitChanged(u, w, base[p].services)
       PROVE  Converging(p)'
  <2>1. \A e : FileHolds(u, e) <=> FileHolds(t, e)
    BY <1>19 DEF FileHolds
  <2>2. Dropped(p)' = Dropped(p)
    BY <1>19 DEF Dropped
  <2>3. /\ \A x \in Elements(m.packages) : There(x, t, Dropped(p))
        /\ \A e \in Elements(m.config_files) : FileHolds(t, e)
    BY <1>5, <1>6, <1>19 DEF Converging
  <2> QED
    BY <1>19, <2>1, <2>2, <2>3 DEF Converging, There
<1>20. CASE ChangeUnit(p)
  <2>1. PICK x \in plan[p].units : ChangeTree(p, Enablement(t, x)) /\ Did(p, "units", x)
    BY <1>5, <1>20 DEF ChangeUnit
  <2> DEFINE u == Enablement(t, x)
  <2>2. pc[p] = "units" /\ UNCHANGED <<pc, desired, base>>
    BY <1>20 DEF ChangeUnit
  <2>3. plan[p].units \subseteq Elements(m.services) /\ plan'[p].units = plan[p].units \ {x}
    BY <1>2, <1>5, <2>1, <2>2, DidPlan DEF Converging
  <2>4. x \in UnitRecord /\ u.pkgs = t.pkgs /\ u.files = t.files /\ snap'[Home(p)'] = u
    BY <1>5, <1>7, <2>1, EnablementTree DEF Plans
  <2>5. /\ x.state \in DeclarableStates => u.units[x.name] \in {x.state, "masked"}
        /\ \A v \in Units \ {x.name} : u.units[v] = t.units[v]
    BY <1>5, <2>4, EnablementUnits
  <2> HIDE DEF u
  <2>6. ASSUME NEW w \in Elements(m.services), w \notin plan'[p].units
        PROVE  UnitChanged(u, w, base[p].services)
    <3>1. CASE w = x
      BY <2>5, <3>1 DEF UnitChanged
    <3>2. CASE w # x
      <4>1. w.name # x.name /\ w.name \in Units
        BY <1>5, <2>1, <2>3, <3>2, ManifestElements
           DEF Distinct, UniqueEntries, UniqueNames, UnitRecord
      <4>2. UnitChanged(t, w, base[p].services)
        BY <1>5, <1>6, <2>2, <2>3, <2>6, <3>2 DEF Converging
      <4> QED
        BY <2>5, <4>1, <4>2 DEF UnitChanged
    <3> QED
      BY <3>1, <3>2
  <2> QED
    BY <1>19, <2>2, <2>3, <2>4, <2>6
<1>21. CASE UnitsDone(p)
  <2>1. /\ pc[p] = "units" /\ pc'[p] = "record" /\ plan[p].units = {}
        /\ UNCHANGED <<snap, desired, base>>
    BY <1>1, <1>21 DEF UnitsDone
  <2>2. \A w \in Elements(m.services) : UnitChanged(t, w, base[p].services)
    BY <1>5, <1>6, <2>1 DEF Converging
  <2> QED
    BY <1>6, <1>19, <2>1, <2>2
<1>22. CASE OpenRecord(p) \/ WriteRecord(p) \/ StampUserdata(p)
  <2>1. PICK r : ChangeTree(p, PutRecord(t, r)) \/ snap' = snap
    BY <1>5, <1>22 DEF OpenRecord, WriteRecord, StampUserdata
  <2>2. /\ PutRecord(t, r).pkgs = t.pkgs /\ PutRecord(t, r).files = t.files
        /\ PutRecord(t, r).units = t.units
    BY <1>5 DEF PutRecord, RootTrees
  <2>3. /\ pc[p] \in {"record", "recording", "stamp"}
        /\ pc'[p] \in {"recording", "stamp", "verify"} /\ UNCHANGED <<desired, base>>
    BY <1>1, <1>2, <1>22 DEF OpenRecord, WriteRecord, StampUserdata
  <2>4. \A w \in Elements(m.services) : UnitChanged(t, w, base[p].services)
    BY <1>5, <1>6, <2>3 DEF Converging
  <2>5. \A w : UnitChanged(PutRecord(t, r), w, base[p].services)
                 <=> UnitChanged(t, w, base[p].services)
    BY <2>2 DEF UnitChanged
  <2>6. CASE snap' = snap
    BY <1>6, <1>19, <2>3, <2>4, <2>6
  <2>7. CASE ChangeTree(p, PutRecord(t, r))
    BY <1>7, <1>19, <2>2, <2>3, <2>4, <2>5, <2>7
  <2> QED
    BY <2>1, <2>6, <2>7
(* After the verification the tree is left alone. *)
<1>23a. ASSUME pc[p] \in {"verify", "seal"}, pc'[p] \in {"seal", "done"},
               UNCHANGED <<snap, desired, base>>, ~ReadFaults => Configured(t, m)
        PROVE  Converging(p)'
  <2>1. Dropped(p)' = Dropped(p)
    BY <1>23a DEF Dropped
  <2>2. /\ \A x \in Elements(m.packages) : There(x, t, Dropped(p))
        /\ \A e \in Elements(m.config_files) : FileHolds(t, e)
        /\ \A u \in Elements(m.services) : UnitChanged(t, u, base[p].services)
    BY <1>5, <1>6, <1>23a DEF Converging
  <2> QED
    BY <1>6, <1>23a, <2>1, <2>2 DEF Converging
<1>23. CASE PostVerify(p)
  <2>1. CASE Stop(p, 1)
    BY <1>8, <2>1
  <2>2. CASE ~Stop(p, 1)
    <3>1. /\ pc[p] = "verify" /\ pc'[p] = "seal" /\ UNCHANGED <<snap, desired, base>>
      BY <1>1, <1>23, <2>2 DEF PostVerify
    <3>2. PICK got \in Readings(t) :
            DriftEmpty(ComputeDrift(Describe(t, got, FALSE), NewRecord(p), KeepList))
      BY <1>5, <1>23, <2>2 DEF PostVerify
    <3>3. ASSUME ~ReadFaults PROVE Configured(t, m)
      <4>1. got \in Readable(t) /\ got.units = Units /\ got.files = Paths
        BY <3>3, ReadingsTyped, FlagAssumption
      <4>2. /\ \A u \in Elements(NewRecord(p).services) : UnitHolds(t, u)
            /\ Extras(t, NewRecord(p)) = {}
        BY <1>2, <1>5, <3>2, <4>1, NoDriftHolds, NewRecordTyped
      <4>3. /\ NewRecord(p).services = m.services
            /\ NewRecord(p).config_files = m.config_files
        BY <1>5 DEF NewRecord, Manifest
      <4>4. Extras(t, m) = {} /\ \A u \in Elements(m.services) : UnitHolds(t, u)
        BY <4>2, <4>3 DEF Extras
      <4>5. \A e \in Elements(m.config_files) : FileHolds(t, e)
        BY <1>5, <1>6, <3>1 DEF Converging
      <4> QED
        BY <4>4, <4>5 DEF Configured
    <3> QED
      BY <1>23a, <3>1, <3>3
  <2> QED
    BY <2>1, <2>2
<1>24. CASE SealAndActivate(p)
  <2>1. pc[p] = "seal" /\ pc'[p] = "done" /\ UNCHANGED <<snap, desired, base>>
    BY <1>1, <1>24 DEF SealAndActivate, Stop, Exit
  <2>2. ~ReadFaults => Configured(t, m)
    BY <1>5, <1>6, <2>1 DEF Converging
  <2> QED
    BY <1>23a, <2>1, <2>2
<1>25. ~Load(p) /\ ~Compare(p) /\ ~Adopt(p) /\ ~Publish(p)
  BY <1>2 DEF Load, Compare, Adopt, AdoptOf, Publish, Early, Routed
<1> QED
  BY <1>4, <1>9, <1>10, <1>11, <1>12, <1>13, <1>15, <1>16, <1>17, <1>18, <1>20, <1>21, <1>22,
     <1>23, <1>24, <1>25 DEF QuietStep

AllConverging == \A p \in Procs : Held(p) /\ args[p].verb = "apply" => Converging(p)

LEMMA AllConvergingNext ==
  ASSUME OutsideModes \subseteq {"internal"}, IInv, DInv, Isolated, Apart, Distinct,
         AllConverging, [Next]_vars
  PROVE  AllConverging'
<1> SUFFICES ASSUME NEW p \in Procs, Held(p)', args'[p].verb = "apply" PROVE Converging(p)'
  BY DEF AllConverging
<1>1. CASE OwnStep(p)
  <2>1. args' = args
    BY <1>1, StepsAreQuiet DEF OwnStep, Quiet, AcquireExternal, AcquireInternal, OpenSnapshot, Stop
  <2> QED
    BY <1>1, <2>1, ConvergingStep DEF AllConverging
<1>2. CASE TuRun(p)
  <2>1. PICK verb, mode, inside, m, marker : Begin(p, verb, mode, inside, m, marker)
    BY <1>2 DEF TuRun
  <2>2. ctx'[p] = None /\ pc'[p] \in {"load", "describe", "done"}
    BY <2>1 DEF Begin, Exit, Goto, IInv, Numbers, Shape
  <2>3. pc'[p] # "done"
    BY <2>2 DEF Held, Home, Left, Alive
  <2> QED
    BY <2>2, <2>3 DEF Converging
<1>3. CASE Held(p) /\ Same(p)
  BY <1>3 DEF AllConverging, Same, Local, Converging, Dropped, ChangedUnits
<1> QED
  BY <1>1, <1>2, <1>3, HeldStep DEF DInv

CInv == Distinct /\ AllConverging

(* verb_apply, between its convergers: at each step what is done and what is left of *)
(* the plan make up the desired manifest, up to the verification that says so.      *)
THEOREM ConvergingInvariant ==
  ASSUME OutsideModes \subseteq {"internal"}, \A m \in Manifests : UniqueEntries(m)
  PROVE  Spec => []CInv
<1>1. Init => CInv
  BY EmptyManifestTyped DEF Init, CInv, Distinct, UniqueEntries, UniqueNames, AllConverging, Held,
     Home, Alive, Left
<1>2. IInv /\ DInv /\ Isolated /\ Apart /\ CInv /\ [Next]_vars => CInv'
  BY DistinctNext, AllConvergingNext DEF CInv
<1> QED
  BY <1>1, <1>2, Invariant, PlanInvariant, Isolation, Apartness, PTL DEF Spec

(* verb_apply: when every description is complete, whatever else failed, was         *)
(* damaged, was written short or was killed on the way, exit 0 after a transaction  *)
(* means that the tree of the transaction holds every declared file and unit state,  *)
(* no file that nobody declares, and the declared packages, but for those that       *)
(* needed a dropped one.                                                            *)
THEOREM ExitZeroIsConverged ==
  ASSUME OutsideModes \subseteq {"internal"}, \A m \in Manifests : UniqueEntries(m),
         ReadFaults = FALSE
  PROVE  Spec => []ExitZeroConverged
<1>1. CInv => ExitZeroConverged
  <2> SUFFICES ASSUME CInv, NEW p \in Procs, Applied(p)
               PROVE  /\ Configured(snap[ctx[p]], desired[p])
                      /\ HasPackages(snap[ctx[p]], desired[p], Dropped(p))
    BY DEF ExitZeroConverged
  <2>1. Held(p) /\ Home(p) = ctx[p] /\ pc[p] = "done"
    BY DEF Held, Home, Applied, Left, Alive
  <2> QED
    BY <2>1 DEF Applied, CInv, AllConverging, Converging, HasPackages, There
<1> QED
  BY <1>1, ConvergingInvariant, PTL

(* The convergers of verb_apply: whatever the descriptions left out and whatever     *)
(* failed, exit 0 means that every declared content was found in what was written,   *)
(* every unit with a new state went through systemctl, and the declared packages are  *)
(* there, but for those that needed a dropped one.                                   *)
THEOREM ExitZeroIsCarriedOut ==
  ASSUME OutsideModes \subseteq {"internal"}, \A m \in Manifests : UniqueEntries(m)
  PROVE  Spec => []ExitZeroCarriedOut
<1>1. CInv => ExitZeroCarriedOut
  <2> SUFFICES ASSUME CInv, NEW p \in Procs, Applied(p)
               PROVE  LET t == snap[ctx[p]] IN
                      /\ \A e \in Elements(desired[p].config_files) : FileHolds(t, e)
                      /\ \A u \in Elements(desired[p].services) :
                           UnitChanged(t, u, base[p].services)
                      /\ HasPackages(t, desired[p], Dropped(p))
    BY DEF ExitZeroCarriedOut
  <2>1. Held(p) /\ Home(p) = ctx[p] /\ pc[p] = "done"
    BY DEF Held, Home, Applied, Left, Alive
  <2> QED
    BY <2>1 DEF Applied, CInv, AllConverging, Converging, HasPackages, There
<1> QED
  BY <1>1, ConvergingInvariant, PTL

-----------------------------------------------------------------------------
(* Whole generations *)

(* A tree holds what it is described as, whatever its record. *)
LEMMA SelfHolds ==
  ASSUME NEW t \in RootTrees, NEW store \in BOOLEAN, NEW r,
         r.config_files = Describe(t, Everything(t), store).config_files,
         r.services = Describe(t, Everything(t), store).services,
         Elements(r.packages) = t.pkgs
  PROVE  Configured(t, r) /\ HasPackages(t, r, {})
<1> DEFINE F == {FileRecord(t, f, TRUE, store) : f \in Emitted(t, TRUE)}
           U == {[name |-> u, state |-> t.units[u]] :
                   u \in {v \in Units : t.units[v] \in DeclarableStates}}
<1>1. Elements(r.config_files) = F /\ Elements(r.services) = U
  <2> DEFINE got == Everything(t)
  <2>2. got \in Readable(t) /\ got.rpmdb = TRUE /\ got.units = Units /\ got.files = Paths
    BY ReadingsTyped DEF Everything
  <2> HIDE DEF got
  <2>3. /\ Elements(Describe(t, got, store).config_files)
             = {FileRecord(t, f, got.rpmdb, store) : f \in Emitted(t, got.rpmdb)}
        /\ Elements(Describe(t, got, store).services) = U
    BY <2>2, DescribeWhole
  <2>1. /\ Elements(Describe(t, Everything(t), store).config_files) = F
        /\ Elements(Describe(t, Everything(t), store).services) = U
    BY <2>2, <2>3, Zenon DEF got
  <2> QED
    BY <2>1, Zenon
<1>2. \A f : /\ FileRecord(t, f, TRUE, store).name = f
             /\ FileRecord(t, f, TRUE, store).data = t.files[f].data
  BY DEF FileRecord
<1>3. \A e \in F : FileHolds(t, e)
  <2>1. ASSUME NEW f \in Emitted(t, TRUE), NEW e, e = FileRecord(t, f, TRUE, store)
        PROVE  FileHolds(t, e)
    <3>1. e.name = f /\ e.data = t.files[f].data
      BY <1>2, <2>1
    <3>2. t.files[f] # NoFile
      BY DEF Emitted
    <3> QED
      BY <3>1, <3>2 DEF FileHolds
  <2> QED
    BY <2>1, Zenon
<1>4. Extras(t, r) = {}
  <2>1. ASSUME NEW f \in Paths \ (KeepList \cup {Syncpoint}), t.files[f] # NoFile,
               Owners(t, f) = {}
        PROVE  f \in NamesOf(F)
    <3>1. f \in Emitted(t, TRUE)
      BY <2>1 DEF Emitted, Pristine, Owned
    <3> QED
      BY <1>2, <3>1 DEF NamesOf
  <2>2. r.config_files # Absent => r.config_files = F
    BY <1>1 DEF Elements
  <2> HIDE DEF F
  <2> QED
    BY <2>1, <2>2 DEF Extras
<1>5. \A u \in U : UnitHolds(t, u)
  BY DEF UnitHolds
<1>6. \A x \in t.pkgs : x.name \in NamesOf(t.pkgs)
  BY DEF NamesOf
<1> QED
  BY <1>1, <1>3, <1>4, <1>5, <1>6 DEF Configured, HasPackages

(* An init is in a transaction, and works on the tree that it reads. *)
InitInside ==
  \A p \in Procs : args[p].verb = "init" =>
    /\ ~opened[p]
    /\ Alive(p) => args[p].inside /\ args[p].mode # "internal"

LEMMA InitInsideNext ==
  ASSUME OutsideVerbs \subseteq {"apply"}, "internal" \notin InsideModes,
         IInv, Data, InitInside, [Next]_vars
  PROVE  InitInside'
<1>1. ASSUME NEW p \in Procs, Quiet(p) PROVE InitInside'
  <2>1. \A q \in Procs : Alive(q)' => Alive(q)
    BY <1>1 DEF Quiet, Alive, IInv, Numbers
  <2> QED
    BY <1>1, <2>1 DEF Quiet, InitInside
<1>2. ASSUME NEW p \in Procs, AcquireExternal(p) PROVE InitInside'
  <2>1. UNCHANGED <<args, opened>> /\ Alive(p) /\ \A q \in Procs \ {p} : pc'[q] = pc[q]
    BY <1>2 DEF AcquireExternal, Stop, Exit, Goto, Alive, IInv, Numbers
  <2> QED
    BY <2>1 DEF InitInside, Alive
<1>3. ASSUME NEW p \in Procs, AcquireInternal(p) PROVE InitInside'
  <2>1. /\ Resolved(args[p].mode) = "internal" /\ args' = args /\ Alive(p)
        /\ \A q \in Procs \ {p} : pc'[q] = pc[q] /\ opened'[q] = opened[q]
    BY <1>3 DEF AcquireInternal, OpenSnapshot, Goto, Alive, IInv, Numbers
  <2>2. args[p].verb # "init"
    BY <2>1 DEF InitInside, Resolved, MarkerPresent, IInv, Transaction
  <2> QED
    BY <2>1, <2>2 DEF InitInside, Alive
<1>4. ASSUME NEW p \in Procs, Invoke(p) \/ TuRun(p) PROVE InitInside'
  <2>1. PICK verb, mode, inside, m, marker :
          /\ Begin(p, verb, mode, inside, m, marker)
          /\ verb = "init" => inside /\ mode # "internal"
    BY <1>4 DEF Invoke, TuRun
  <2>2. /\ args'[p] = [verb |-> verb, mode |-> mode, inside |-> inside] /\ ~opened'[p]
    BY <2>1 DEF Begin, IInv, Shape, Numbers
  <2>3. \A q \in Procs \ {p} : UNCHANGED Local(q)
    BY <1>4, BeginLocal
  <2> QED
    BY <2>1, <2>2, <2>3 DEF InitInside, Local, Alive
<1>5. ASSUME TuEnd \/ Edit \/ UNCHANGED vars \/ \E p \in Procs : Activate(p) PROVE InitInside'
  BY <1>5 DEF TuEnd, Edit, Activate, vars, proc, InitInside, Alive
<1>6. ASSUME Reboot PROVE InitInside'
  <2>1. \A q \in Procs : ~Alive(q)'
    BY <1>6 DEF Reboot, Alive
  <2> QED
    BY <1>6, <2>1 DEF Reboot, InitInside
<1> QED
  BY <1>1, <1>2, <1>3, <1>4, <1>5, <1>6, StepCases, StepsAreQuiet

(* A process that never ran has no context. *)
Unstarted == \A p \in Procs : pc[p] = "idle" => ctx[p] = None

LEMMA UnstartedNext == ASSUME IInv, Unstarted, [Next]_vars PROVE Unstarted'
<1>1. ASSUME NEW p \in Procs, Quiet(p) PROVE Unstarted'
  BY <1>1 DEF Quiet, Unstarted, IInv, Numbers
<1>2. ASSUME NEW p \in Procs, AcquireExternal(p) \/ AcquireInternal(p) PROVE Unstarted'
  <2>1. /\ pc'[p] # "idle"
        /\ \A q \in Procs \ {p} : pc'[q] = pc[q] /\ ctx'[q] = ctx[q]
    BY <1>2 DEF AcquireExternal, AcquireInternal, OpenSnapshot, AfterAcquire, Stop, Exit, Goto,
       IInv, Numbers, Shape
  <2> QED
    BY <2>1 DEF Unstarted
<1>3. ASSUME NEW p \in Procs, Invoke(p) \/ TuRun(p) PROVE Unstarted'
  <2>1. PICK verb, mode, inside, m, marker : Begin(p, verb, mode, inside, m, marker)
    BY <1>3 DEF Invoke, TuRun
  <2> QED
    BY <2>1 DEF Begin, Exit, Goto, Unstarted, IInv, Numbers, Shape
<1>4. ASSUME TuEnd \/ Edit \/ Reboot \/ UNCHANGED vars \/ \E p \in Procs : Activate(p)
      PROVE  Unstarted'
  BY <1>4 DEF TuEnd, Edit, Reboot, Activate, vars, proc, Unstarted, Alive
<1> QED
  BY <1>1, <1>2, <1>3, <1>4, StepCases, StepsAreQuiet

GInv == IInv /\ DInv /\ Isolated /\ Apart /\ RInv /\ CInv /\ InitInside /\ Unstarted

(* The tree that a successful run leaves is what its own record declares. *)
LEMMA LeftIsWhole ==
  ASSUME DiskFaults = FALSE, RpmdbFaults = FALSE, ReadFaults = FALSE, GInv, NEW p \in Procs, Left(p)
  PROVE  WholeTree(snap[ctx[p]])
<1> DEFINE t == snap[ctx[p]]
           m == desired[p]
<1>1. /\ Held(p) /\ Home(p) = ctx[p] /\ pc[p] = "done" /\ args[p].verb \in {"apply", "init"}
  BY VerbAssumption DEF Held, Home, Left, Alive, GInv, RInv, Started
<1>2. t \in RootTrees /\ m \in Manifest
  BY SnapNumbers DEF Left, GInv, DInv, Data
<1>3. t.rec = NewRecord(p) /\ lock[p] = t.pkgs
  BY <1>1 DEF GInv, RInv, AllRecorded, Recorded, InitInside
<1>4. t.rec \in Manifest /\ t.rec # Torn /\ t.rec # None
  BY <1>3, NewRecordTyped, SentinelAssumption DEF GInv, DInv
<1>5. /\ t.rec.config_files = m.config_files /\ t.rec.services = m.services
      /\ t.rec.packages = t.pkgs
  BY <1>2, <1>3 DEF NewRecord, Manifest
<1>6. Elements(t.rec.packages) = t.pkgs
  BY <1>2, <1>5, PackagesElements DEF RootTrees
<1>7. CASE args[p].verb = "apply"
  <2>1. Configured(t, m)
    BY <1>1, <1>7 DEF GInv, CInv, AllConverging, Converging
  <2>2. Configured(t, t.rec)
    BY <1>5, <2>1 DEF Configured, Extras
  <2>3. \A x \in t.pkgs : x.name \in NamesOf(t.pkgs)
    BY DEF NamesOf
  <2>4. HasPackages(t, t.rec, {})
    BY <1>6, <2>3 DEF HasPackages
  <2> QED
    BY <1>4, <2>2, <2>4 DEF WholeTree
<1>8. CASE args[p].verb = "init"
  <2>1. m = Describe(t, Everything(t), ContentStore)
    BY <1>1, <1>8 DEF GInv, RInv, AllRecorded, Recorded, InitInside
  <2> HIDE DEF t, m
  <2>2. Configured(t, t.rec) /\ HasPackages(t, t.rec, {})
    BY <1>2, <1>5, <1>6, <2>1, SelfHolds, FlagAssumption
  <2>3. WholeTree(t)
    BY <1>4, <2>2 DEF WholeTree
  <2> QED
    BY <2>3 DEF t
<1> QED
  BY <1>1, <1>7, <1>8

(* The step of the abstract machine that a step of the detailed one is. *)
Abstract == Machine!Open \/ Machine!Take \/ Machine!Commit \/ Machine!Boot \/ Machine!Drift

Steady == UNCHANGED <<running, bootDefault, snap[running], snap[bootDefault]>>

LEMMA SteadyStep ==
  ASSUME Steady, Draft' = Draft \/ Draft' = None
  PROVE  [Abstract]_Machine!gvars
<1>1. /\ snap'[running'] = snap[running] /\ snap'[bootDefault'] = snap[bootDefault]
      /\ (bootDefault' # running') = (bootDefault # running)
  BY DEF Steady
<1> QED
  BY <1>1 DEF Abstract, Machine!Take, Machine!gvars

(* A process writes neither the booted nor the next tree, nor a draft it did not *)
(* acquire.                                                                  *)
LEMMA OwnStepSteady ==
  ASSUME IInv, Data, Isolated, Apart, NEW p \in Procs, OwnStep(p)
  PROVE  Steady /\ (Draft' = Draft \/ Draft' = None)
<1>1. UNCHANGED <<running, bootDefault, tu>> /\ Alive(p)
  BY OwnStepMachine, StepsAreQuiet DEF OwnStep, Quiet, AcquireExternal, AcquireInternal,
     OpenSnapshot, Alive
<1>2. \A s \in {running, bootDefault} : s \in Snaps /\ s # ctx[p] /\ s # nextSnap
  BY <1>1, SnapNumbers, OwnRoot
<1>3. Steady
  BY <1>1, <1>2, OwnStepWrites DEF Steady
<1>4. CASE tu # None /\ ctx[tu.proc] # tu.snap
  <2>1. tu.snap \in Snaps /\ tu.snap # nextSnap /\ tu.snap # ctx[p]
    BY <1>4, SnapNumbers DEF IInv, Numbers, Apart
  <2>2. snap'[tu.snap] = snap[tu.snap]
    BY <2>1, OwnStepWrites
  <2> QED
    BY <1>1, <1>3, <1>4, <2>2 DEF Draft
<1>5. CASE tu # None /\ ctx[tu.proc] = tu.snap
  <2>1. tu.proc # p => UNCHANGED ctx[tu.proc]
    <3>1. \A q \in Procs \ {p} : UNCHANGED ctx[q]
      BY StepLocal DEF Local
    <3> QED
      BY <1>1, <1>5, <3>1 DEF IInv, Numbers
  <2>2. ctx[p] # None => ctx' = ctx
    BY StepsAreQuiet DEF OwnStep, Quiet, AcquireExternal, AcquireInternal, OpenSnapshot, IInv,
       Contexts, Early
  <2>3. tu.snap # None
    BY <1>5, SnapNumbers DEF IInv, Numbers
  <2> QED
    BY <1>1, <1>3, <1>5, <2>1, <2>2, <2>3 DEF Draft
<1>6. CASE tu = None
  BY <1>1, <1>3, <1>6 DEF Draft
<1> QED
  BY <1>4, <1>5, <1>6

LEMMA StepImplements ==
  ASSUME OutsideModes \subseteq {"internal"}, DiskFaults = FALSE, RpmdbFaults = FALSE,
         ReadFaults = FALSE, GInv, [Next]_vars
  PROVE  [Abstract]_Machine!gvars
<1> USE DEF GInv
<1>1. ASSUME NEW p \in Procs, OwnStep(p) PROVE [Abstract]_Machine!gvars
  BY <1>1, OwnStepSteady, SteadyStep DEF DInv
<1>2. ASSUME NEW p \in Procs, Invoke(p) PROVE [Abstract]_Machine!gvars
  <2>1. UNCHANGED machine /\ ctx' = [ctx EXCEPT ![p] = None] /\ (tu # None => tu.proc # p)
    BY <1>2 DEF Invoke, Begin
  <2>2. Draft' = Draft
    BY <2>1 DEF Draft, machine, IInv, Shape
  <2> QED
    BY <2>1, <2>2, SteadyStep DEF Steady, machine
<1>3. ASSUME NEW p \in Procs, TuRun(p) PROVE [Abstract]_Machine!gvars
  <2>1. /\ tu = None /\ UNCHANGED <<running, bootDefault>>
        /\ snap' = [snap EXCEPT ![nextSnap] = snap[bootDefault]]
        /\ tu' = [snap |-> nextSnap, proc |-> p] /\ ctx'[p] = None /\ nextSnap \in Snaps
    BY <1>3, SnapAssumption DEF TuRun, Begin, IInv, Shape, Numbers, Snaps
  <2>2. \A s \in {running, bootDefault} : s \in Snaps /\ s # nextSnap
    BY SnapNumbers
  <2>3. Draft = None /\ Draft' = snap[bootDefault]
    <3>1. tu'.snap = nextSnap /\ tu'.proc = p /\ tu' # None /\ nextSnap # None
      BY <2>1, NoneAssumption
    <3>2. snap'[nextSnap] = snap[bootDefault]
      BY <2>1 DEF DInv, Data
    <3> QED
      BY <2>1, <3>1, <3>2 DEF Draft
  <2>4. snap'[running] = snap[running] /\ snap'[bootDefault] = snap[bootDefault]
    BY <2>1, <2>2 DEF DInv, Data
  <2> QED
    BY <2>1, <2>3, <2>4 DEF Abstract, Machine!Open
<1>4. ASSUME TuEnd PROVE [Abstract]_Machine!gvars
  <2>1. tu # None /\ ~Alive(tu.proc) /\ tu.proc \in Procs /\ tu' = None
        /\ tu.snap \notin {running, bootDefault} /\ running' = running
    BY <1>4 DEF TuEnd, IInv, Transaction, Numbers
  <2>2. Draft' = None
    BY <2>1 DEF Draft
  <2>3. CASE exit[tu.proc] = 0
    <3>1. bootDefault' = tu.snap /\ snap' = snap
      BY <1>4, <2>3 DEF TuEnd
    <3>2. WholeTree(snap[tu.snap]) \/ (Draft # None /\ snap[tu.snap] = Draft)
      <4>1. CASE ctx[tu.proc] = tu.snap
        <5>1. Left(tu.proc)
          BY <2>1, <2>3, <4>1, SnapNumbers DEF Left, Alive, Unstarted, Apart, IInv, Numbers
        <5> QED
          BY <2>1, <4>1, <5>1, LeftIsWhole
      <4>2. CASE ctx[tu.proc] # tu.snap
        <5>1. Draft = snap[tu.snap] /\ tu.snap \in Snaps
          BY <2>1, <4>2, SnapNumbers DEF Draft, IInv, Numbers
        <5>2. snap[tu.snap] # None
          BY <5>1, SentinelAssumption DEF DInv, Data
        <5> QED
          BY <5>1, <5>2
      <4> QED
        BY <4>1, <4>2
    <3> QED
      BY <2>1, <2>2, <3>1, <3>2 DEF Abstract, Machine!Commit
  <2>4. CASE exit[tu.proc] # 0
    <3>1. bootDefault' = bootDefault /\ snap' = [snap EXCEPT ![tu.snap] = InitialTree]
      BY <1>4, <2>4 DEF TuEnd
    <3>2. Steady
      BY <2>1, <3>1, SnapNumbers DEF Steady, DInv, Data
    <3> QED
      BY <2>2, <3>2, SteadyStep
  <2> QED
    BY <2>3, <2>4
<1>5. ASSUME NEW p \in Procs, Activate(p) PROVE [Abstract]_Machine!gvars
  <2>1. /\ bootDefault' = ctx[p] /\ UNCHANGED <<running, snap, tu, ctx>>
        /\ Left(p)
    BY <1>5, SnapNumbers DEF Activate, proc, Left, IInv, Contexts
  <2>2. WholeTree(snap[ctx[p]])
    BY <2>1, LeftIsWhole
  <2>3. WholeTree(snap'[bootDefault'])
    BY <2>1, <2>2
  <2>4. bootDefault' # running'
    BY <2>1, SnapNumbers DEF Left
  <2>5. Draft' = Draft
    BY <2>1 DEF Draft
  <2> QED
    BY <2>1, <2>3, <2>4, <2>5 DEF Abstract, Machine!Commit
<1>6. ASSUME Reboot PROVE [Abstract]_Machine!gvars
  BY <1>6 DEF Reboot, Draft, Abstract, Machine!Boot
<1>7. ASSUME Edit PROVE [Abstract]_Machine!gvars
  <2>1. /\ UNCHANGED <<running, bootDefault, tu, ctx>>
        /\ \A s \in Snaps \ {running} : snap'[s] = snap[s]
    BY <1>7 DEF Edit, proc, DInv, Data
  <2>2. Draft' = Draft
    BY <2>1, SnapNumbers DEF Draft, IInv, Transaction, Numbers
  <2>3. snap'[bootDefault] = IF bootDefault # running THEN snap[bootDefault] ELSE snap'[running]
    BY <2>1, SnapNumbers
  <2> QED
    BY <2>1, <2>2, <2>3 DEF Abstract, Machine!Drift
<1>8. ASSUME UNCHANGED vars PROVE [Abstract]_Machine!gvars
  BY <1>8 DEF vars, machine, proc, Machine!gvars, Draft
<1> QED
  BY <1>1, <1>2, <1>3, <1>4, <1>5, <1>6, <1>7, <1>8, StepCases DEF OwnStep

(* The detailed runs implement whole generations, for any number of processes,    *)
(* snapshots and edits of the running system, kills and reboots anywhere: when    *)
(* no write is short and every description is complete, when processes outside of  *)
(* a transactional-update apply in mode internal, and init runs inside of one.     *)
THEOREM GenerationsImplemented ==
  ASSUME OutsideModes \subseteq {"internal"}, OutsideVerbs \subseteq {"apply"},
         "internal" \notin InsideModes, DiskFaults = FALSE, RpmdbFaults = FALSE,
         ReadFaults = FALSE, \A m \in Manifests : UniqueEntries(m)
  PROVE  Spec => ImplementsGenerations
<1>1. Init => InitInside
  BY NoneAssumption DEF Init, InitInside, NoArgs, Alive
<1>2. IInv /\ Data /\ InitInside /\ [Next]_vars => InitInside'
  BY InitInsideNext
<1>7. Init => Unstarted
  BY DEF Init, Unstarted
<1>8. IInv /\ Unstarted /\ [Next]_vars => Unstarted'
  BY UnstartedNext
<1>3. Init => Machine!Start
  BY DEF Init, Machine!Start, Draft
<1>4. GInv /\ [Next]_vars => [Abstract]_Machine!gvars
  BY StepImplements
<1>5. GInv <=> IInv /\ DInv /\ Isolated /\ Apart /\ RInv /\ CInv /\ InitInside /\ Unstarted
  BY DEF GInv
<1>6. DInv => Data
  BY DEF DInv
<1> QED
  BY <1>1, <1>2, <1>3, <1>4, <1>5, <1>6, <1>7, <1>8, Invariant, PlanInvariant, Isolation, Apartness,
     RecordInvariant, ConvergingInvariant, PTL
     DEF Spec, ImplementsGenerations, Machine!Spec, Abstract
=============================================================================
