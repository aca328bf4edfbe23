----------------------------- MODULE ReadOnlyVerbs -----------------------------
(***************************************************************************)
(* The verbs that change nothing but an output file (verbs.cpp): describe,    *)
(* diff, verify and status, from the command line to the exit code, run by     *)
(* several processes that share the files on disk.                          *)
(*                                                                         *)
(* The host is what describe_actual_state reads in one go here (module          *)
(* DescribeWalk has the walk): the actual state, the findings of a full scan,   *)
(* the files of /etc that cannot be read, and the keep-list file, empty when it *)
(* cannot be opened.                                                        *)
(***************************************************************************)
EXTENDS CommandLine, Translations

CONSTANTS
  Procs,             \* invocations that may be alive at a time
  Scenarios,         \* where behaviours start, and for each of them
  Start(_),          \*   [host, disk, family, runs, events], the last two being bounds
  Lines, Hosts,      \* family -> the command lines, and the hosts an edit leads to
  RecordPath,        \* the applied record of the generation
  DefaultManifest,   \* kDefaultManifest
  Unwritable,        \* the paths that cannot be opened for writing
  Aborted            \* the exit status of a process that threw or was killed

VARIABLES
  host,        \* [actual, findings, unreadable, keep]
  disk,        \* path -> file
  run,         \* process -> its invocation and its local variables
  fresh,       \* the output files that describe the host as it is
  runs, events,   \* bounds: invocations, and edits and kills, that are left
  family       \* of the scenario this behaviour started from

vars == <<host, disk, run, fresh, runs, events, family>>

Idle ==
  [pc |-> "idle", argv |-> <<>>, verb |-> "none", cfg |-> BuildConfig(EmptyFunction),
   text |-> NoFile,            \* the manifest file as it was read
   desired |-> NoManifest,     \* the declaration: the manifest, or else the record
   sha |-> Unset,              \* the desired_sha256 of a manifest
   record |-> NoManifest, actual |-> NoManifest,
   report |-> Unset,           \* what was printed: a plan and a drift report
   exit |-> Unset,
   disturbed |-> FALSE]        \* the host or the disk changed since it started

Init ==
  /\ \E scenario \in Scenarios : LET s == Start(scenario) IN
       /\ host = s.host /\ disk = s.disk /\ family = s.family
       /\ runs = s.runs /\ events = s.events
  /\ run = [p \in Procs |-> Idle]
  /\ fresh = {}

-----------------------------------------------------------------------------
Alive(p) == run[p].pc \notin {"idle", "done"}

(* A step that reads, and leaves host and disk alone. *)
Become(p, r) ==
  /\ run' = [run EXCEPT ![p] = r]
  /\ UNCHANGED <<host, disk, fresh, runs, events, family>>

Exited(r, code) == [r EXCEPT !.pc = "done", !.exit = code]

Exit(p, code) == Become(p, Exited(run[p], code))

(* p becomes r, and whoever reads the file at a path is disturbed at its work.  *)
Reads(r) == {r.cfg.state_path, RecordPath,
             IF r.cfg.manifest_path = Unset THEN DefaultManifest ELSE r.cfg.manifest_path}

Disturbing(p, r, path) ==
  [q \in Procs |-> IF q = p THEN r
                   ELSE [run[q] EXCEPT !.disturbed = @ \/ (Alive(q) /\ path \in Reads(run[q]))]]

(* load_keep_list: read anew each time it is needed. *)
LoadKeepList(cfg) == IF cfg.keep_list = Unset THEN {} ELSE host.keep

FormatOf(cfg, path) == ResolveFormat(cfg.explicit_format, path, cfg.manifest_format)

-----------------------------------------------------------------------------
(* describe_actual_state *)

(* The elements of a scope but for some names; nothing left is no scope. *)
Thinned(scopes, dropped) ==
  LET Left(s) == SelectSeq(scopes[s].elements, LAMBDA e : e.name \notin dropped) IN
  [s \in {s \in DOMAIN scopes : Left(s) # <<>>} |-> [scopes[s] EXCEPT !.elements = Left(s)]]

Only(scopes, names) == [s \in DOMAIN scopes \cap names |-> scopes[s]]

Both(f, g) == [s \in DOMAIN f \cup DOMAIN g |-> IF s \in DOMAIN f THEN f[s] ELSE g[s]]

DescribeActualState(policy, scope, keep) ==
  LET files == Only(host.actual.scopes, {"config_files"})
      others == Only(host.actual.scopes, Scopes \ {"config_files"})
      found == IF scope = "full" THEN Thinned(host.findings, keep) ELSE EmptyFunction
  IN IF policy = "error" /\ host.unreadable \ keep # {} THEN Failed("unreadable")
     ELSE [status |-> "ok",
           manifest |-> [host.actual EXCEPT
             !.scopes = Both(Both(others, found), Thinned(files, keep \cup host.unreadable))]]

-----------------------------------------------------------------------------
(* What the comparisons of diffdrift.cpp look at in a manifest. *)

Seen(s, e) ==
  CASE s = "config_files" ->
         [name |-> e.name, type |-> e.type, package_name |-> e.package_name,
          data |-> CASE e.type = "file" -> e.sha256 [] e.type = "link" -> e.target [] OTHER -> ""]
    [] s \in Observational -> [name |-> e.name]
    [] OTHER -> e

Compared(m) ==
  [s \in Scopes |->
     IF s \in DOMAIN m.scopes
       THEN {Seen(s, m.scopes[s].elements[i]) : i \in DOMAIN m.scopes[s].elements}
       ELSE Absent]

-----------------------------------------------------------------------------
(* The steps of an invocation *)

FirstStep(verb, cfg) ==
  CASE verb = "describe" -> "actual"
    [] verb = "status" -> "record"
    [] verb = "verify" -> IF cfg.manifest_path = Unset THEN "record" ELSE "manifest"
    [] verb = "diff" -> "manifest"

(* dispatch; apply and init are in module Apply. *)
Invoke(p) ==
  /\ ~Alive(p) /\ runs > 0
  /\ runs' = runs - 1
  /\ \E line \in Lines[family] :
       LET d == Dispatch(line) IN
       /\ d.verb \notin {"apply", "init"}
       /\ run' = [run EXCEPT ![p] =
            IF d.verb = "none" THEN Exited([Idle EXCEPT !.argv = line], d.exit)
            ELSE [Idle EXCEPT !.argv = line, !.verb = d.verb, !.cfg = d.cfg,
                              !.pc = FirstStep(d.verb, d.cfg)]]
  /\ UNCHANGED <<host, disk, fresh, events, family>>

LoadManifest(p) ==
  /\ run[p].pc = "manifest"
  /\ LET r == run[p]
         path == IF r.cfg.manifest_path = Unset THEN DefaultManifest ELSE r.cfg.manifest_path
         lm == LoadDesiredManifest(disk[path], FormatOf(r.cfg, path))
     IN CASE lm.status = "ok" ->
               Become(p, [r EXCEPT !.pc = IF r.verb = "diff" THEN "record" ELSE "actual",
                                   !.text = disk[path], !.desired = lm.manifest,
                                   !.sha = CanonicalHash(lm.manifest)])
          [] lm.status = "abort" -> Exit(p, Aborted)
          [] OTHER -> Exit(p, IF r.verb = "verify" \/ lm.status = "unreadable" THEN 2 ELSE 1)

(* A record that is there and cannot be opened is like one that does not parse. *)
LoadRecord(p) ==
  /\ run[p].pc = "record"
  /\ LET r == run[p]
         applied == LoadAppliedRecord(disk[RecordPath])
         loaded == [r EXCEPT !.pc = "actual", !.record = applied.manifest]
     IN \/ applied.status = "abort" /\ Exit(p, Aborted)
        \/ applied.status = "invalid" /\ Exit(p, 1)
        \/ applied.status = "absent" /\ r.verb # "diff" /\ Exit(p, IF r.verb = "verify" THEN 2 ELSE 0)
        \/ applied.status \in {"ok", "absent"} /\ r.verb = "diff" /\ Become(p, loaded)
        \/ applied.status = "ok" /\ r.verb # "diff"
             /\ Become(p, [loaded EXCEPT !.desired = applied.manifest])

ReadDump(p) ==
  /\ run[p].pc = "actual"
  /\ run[p].verb \in {"diff", "verify"} /\ run[p].cfg.state_path # Unset
  /\ LET r == run[p]
         path == r.cfg.state_path
         dump == LoadStateDump(disk[path], FormatOf(r.cfg, path))
     IN CASE dump.status = "ok" -> Become(p, [r EXCEPT !.pc = "compare", !.actual = dump.manifest])
          [] dump.status = "abort" -> Exit(p, Aborted)
          [] OTHER -> Exit(p, 2)

Described_mutant(r) == [r EXCEPT !.pc = "open"]
Described(r) == IF r.cfg.out = Unset THEN Exited(r, 0) ELSE [r EXCEPT !.pc = "open"]

(* An unreadable source ends all but status, which then calls drift unknown. *)
ReadHost(p) ==
  /\ run[p].pc = "actual"
  /\ run[p].verb \in {"describe", "status"} \/ run[p].cfg.state_path = Unset
  /\ LET r == run[p]
         scope == IF r.verb \in {"describe", "verify"} THEN r.cfg.scope ELSE "etc"
         live == DescribeActualState(r.cfg.on_unreadable, scope, LoadKeepList(r.cfg))
         read == [r EXCEPT !.actual = live.manifest]
     IN IF live.status # "ok" THEN Exit(p, IF r.verb = "status" THEN 0 ELSE 1)
        ELSE IF r.verb # "describe" THEN Become(p, [read EXCEPT !.pc = "compare"])
        ELSE Become(p, Described(read))

(* Under scope=etc verify does not look at the findings in a dump; diff does. *)
Considered(r) ==
  IF r.verb = "verify" /\ r.cfg.scope = "etc" THEN Without(r.actual, Observational) ELSE r.actual

Compare(p) ==
  /\ run[p].pc = "compare"
  /\ LET r == run[p]
         desired == Compared(r.desired)
         drift == ComputeDrift(Compared(Considered(r)), desired, LoadKeepList(r.cfg))
         plan == IF r.verb = "diff" THEN ComputeIntentDiff(desired, Compared(r.record))
                 ELSE Unset
     IN Become(p, Exited([r EXCEPT !.report = [plan |-> plan, drift |-> drift]],
                         IF r.verb = "verify" /\ ~DriftEmpty(drift) THEN 1 ELSE 0))

-----------------------------------------------------------------------------
(* The output file of describe is truncated, and then written in place.        *)

OpenOut(p) ==
  /\ run[p].pc = "open"
  /\ LET path == run[p].cfg.out IN
     IF path \in Unwritable THEN Exit(p, 2)
     ELSE /\ disk' = [disk EXCEPT ![path] = [syntax |-> "empty", doc |-> EmptyDocument]]
          /\ run' = Disturbing(p, [run[p] EXCEPT !.pc = "write"], path)
          /\ fresh' = {f \in fresh : f.path # path}
          /\ UNCHANGED <<host, runs, events, family>>

Document(r) == SerializeManifest(r.actual, FormatOf(r.cfg, r.cfg.out))

PutOut(p, file, r) ==
  /\ disk' = [disk EXCEPT ![run[p].cfg.out] = file]
  /\ run' = Disturbing(p, r, run[p].cfg.out)
  /\ UNCHANGED <<host, runs, family>>

(* When somebody else wrote the file since it was truncated, the end of a longer *)
(* text may be left behind this one.                                          *)
Garbled == [syntax |-> "bad", doc |-> EmptyDocument]

WriteOut(p) ==
  /\ run[p].pc = "write"
  /\ LET r == run[p]
         others == {f \in fresh : f.path # r.cfg.out} IN
     \E file \in {Document(r)} \cup (IF disk[r.cfg.out].syntax = "empty" THEN {} ELSE {Garbled}) :
       /\ PutOut(p, file, Exited(r, 0))
       /\ fresh' = IF r.disturbed \/ file = Garbled THEN others
                   ELSE others \cup {[path |-> r.cfg.out, cfg |-> r.cfg]}
  /\ UNCHANGED events

(* A file that was cut short.  The keys of a document are written in the order  *)
(* of the alphabet; a JSON text does not parse unless it is whole, a YAML text   *)
(* does when it ends behind an element or a scope.                            *)
KeyOrder == <<"changed_managed_files", "config_files", "meta", "packages", "repositories",
              "services", "unmanaged_files">>

CutAt(doc, n, i) ==
  LET whole == {KeyOrder[k] : k \in 1..(n - 1)} IN
  [meta   |-> IF "meta" \in whole THEN doc.meta ELSE EmptyFunction,
   scopes |-> [s \in DOMAIN doc.scopes \cap (whole \cup {KeyOrder[n]}) |->
                 IF s \in whole THEN doc.scopes[s]
                 ELSE [doc.scopes[s] EXCEPT !.elements = SubSeq(@, 1, i)]]]

Cuts(file) ==
  {Garbled, [syntax |-> "empty", doc |-> EmptyDocument]} \cup
  (IF file.syntax = "json" THEN {}
   ELSE UNION {{[syntax |-> "yaml", doc |-> CutAt(file.doc, n, i)] :
                  i \in 0..(IF KeyOrder[n] \in DOMAIN file.doc.scopes
                              THEN Len(file.doc.scopes[KeyOrder[n]].elements) ELSE 0)} :
               n \in DOMAIN KeyOrder})

(* A short write is noticed, or only made when the stream is closed.  A process  *)
(* that is killed leaves what it wrote.                                      *)
WriteFails(p) ==
  /\ run[p].pc = "write" /\ events > 0
  /\ events' = events - 1
  /\ \E file \in Cuts(Document(run[p])), code \in {0, 2, Aborted} :
       PutOut(p, file, Exited(run[p], code))
  /\ fresh' = {f \in fresh : f.path # run[p].cfg.out}

Step(p) ==
  \/ LoadManifest(p) \/ LoadRecord(p) \/ ReadDump(p) \/ ReadHost(p) \/ Compare(p)
  \/ OpenOut(p) \/ WriteOut(p)

-----------------------------------------------------------------------------
(* An administrator changes the host. *)
Edit ==
  /\ events > 0
  /\ events' = events - 1
  /\ host' \in Hosts[family] /\ host' # host
  /\ run' = [q \in Procs |-> [run[q] EXCEPT !.disturbed = @ \/ Alive(q)]]
  /\ fresh' = {}
  /\ UNCHANGED <<disk, runs, family>>

Next == Edit \/ \E p \in Procs : Invoke(p) \/ Step(p) \/ WriteFails(p)

Spec == Init /\ [][Next]_vars
=============================================================================
