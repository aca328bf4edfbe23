----------------------------- MODULE DescribeWalk -----------------------------
(***************************************************************************)
(* describe_actual_state (describe.cpp) step by step: the rpmdb, the files of  *)
(* repos.d, the units, the walk of /etc, the judgement of each entry against   *)
(* its package, the content store, and the scan of the trees of the operating *)
(* system.  Several describers share the  *)
(* file system and the content store; an administrator edits meanwhile.       *)
(*                                                                         *)
(* A content is identified with its digest.  Directories, and the entries of *)
(* one, are taken in an order that is arbitrary but the same for everybody,   *)
(* as it is on one file system.                                              *)
(***************************************************************************)
EXTENDS Naturals, Sequences, FiniteSets, TLC

CONSTANTS
  Describers,     \* processes that describe the same root
  Policy,         \* describer -> "error" or "warn": on_unreadable
  Full,           \* scope=full
  Store,          \* a content store is configured
  Dirs, Leaves,   \* directories, which stay, and paths where something else may be
  Parent,         \* directory or path -> the directory it is in
  EtcDir, ReposDir,
  ScanDirs,       \* the trees of the full scan
  KeepList,       \* keep-listed directories and paths
  Syncpoint,
  Baseline,       \* path -> what its package records of it, or NoBaseline
  Providers,      \* alternatives link -> its providers, in the admin file's order; a
                  \*   link whose admin file cannot be read is not among the links
  Headers,        \* the packages of the rpmdb, in its order
  RepoText,       \* content -> the lines of a .repo file: <<key, value>>, and
                  \*   <<"section", alias>> for a header
  Numeral,        \* text that std::stoi takes -> its number
  UnitFiles,      \* what systemctl prints: <<unit, state>>
  Behind,         \* link target -> the content it leads to, or Unreadable
  InitialFs,      \* the file systems a run may find
  EditNodes,      \* what an administrator may put at a path
  MaxEvents,      \* bound: edits, kills and failures of the store, together
  EmptyDigest, NoDigest, Unreadable, NoNode, NoBaseline, NoBlob, NoTarget

ASSUME PolicyAssumption == Policy \in [Describers -> {"error", "warn"}]
ASSUME BoundAssumption == MaxEvents \in Nat
ASSUME TreeAssumption ==
  /\ EtcDir \in Dirs /\ ScanDirs \subseteq Dirs \ {EtcDir}
  /\ \A d \in ScanDirs \cup {EtcDir} : d \notin DOMAIN Parent

VARIABLES
  fs,         \* path -> node: [type, data, mode, owner, readable], or NoNode
  access,     \* directory -> "ok", "denied" (EACCES) or "broken" (any other error)
  blobs,      \* digest -> the content under it in the store, or NoBlob
  walk,       \* describer -> where it is and what it has
  touched,    \* describer -> the paths edited since it started
  edits,      \* edits so far
  mishaps     \* kills and failures of the store so far

vars == <<fs, access, blobs, walk, touched, edits, mishaps>>

NoRecord == [name |-> EtcDir]

Idle == [pc |-> "idle", phase |-> "etc", stack |-> {}, todo |-> {},
         path |-> EtcDir, seen |-> NoNode, rec |-> NoRecord, bytes |-> EmptyDigest,
         rpmdb |-> TRUE, packages |-> {}, repositories |-> {}, services |-> {},
         files |-> {}, changed |-> {}, unmanaged |-> {}, diagnostics |-> {},
         result |-> "none"]

(* What may be at a path, and the contents that may be read there. *)
Nodes == (EditNodes \cup UNION {{g[l] : l \in Leaves} : g \in InitialFs}) \ {NoNode}

Digests == {n.data : n \in {m \in Nodes : m.type = "file"}}
           \cup {EmptyDigest} \cup ({Behind[t] : t \in DOMAIN Behind} \ {Unreadable})

Init ==
  /\ fs \in InitialFs
  /\ access = [d \in Dirs |-> "ok"]
  /\ blobs = [d \in Digests |-> NoBlob]
  /\ walk = [p \in Describers |-> Idle]
  /\ touched = [p \in Describers |-> {}]
  /\ edits = 0 /\ mishaps = 0

-----------------------------------------------------------------------------
Alive(p) == walk[p].pc \notin {"idle", "done"}

Put(p, w) ==
  /\ walk' = [walk EXCEPT ![p] = w]
  /\ UNCHANGED <<fs, access, touched, edits>>

(* The step of a describer that changes nothing but its own state. *)
Become(p, w) == Put(p, w) /\ UNCHANGED <<blobs, mishaps>>

EventLeft == edits + mishaps < MaxEvents

First(S) == CHOOSE x \in S : TRUE

Finished_mutant(w, result) == [w EXCEPT !.pc = "done"]
Finished(w, result) == [w EXCEPT !.pc = "done", !.result = result]

(* Unreadable sources: under "error" the run fails, under "warn" they are     *)
(* named and the walk goes on as w.                                          *)
Complain(p, sources, w) ==
  IF sources # {} /\ Policy[p] = "error" THEN Finished(walk[p], "error")
  ELSE [w EXCEPT !.diagnostics = @ \cup sources]

NextEntry(w) == [w EXCEPT !.pc = "walk"]

(* What reading the bytes of a path gives: a link is followed. *)
ReadAll(n) ==
  IF n = NoNode THEN Unreadable
  ELSE IF n.type = "link" THEN Behind[n.data]
  ELSE IF n.type = "file" /\ n.readable THEN n.data
  ELSE Unreadable

(* The directories above a path, up to the tree that is walked: what every set *)
(* has that has the directory of the path and is closed upward.               *)
Upward(S) == \A d \in S \cap DOMAIN Parent : Parent[d] \in S

Above ==
  [x \in Dirs \cup Leaves |->
     {d \in Dirs : \A S \in SUBSET Dirs :
        Upward(S) /\ (x \in DOMAIN Parent => Parent[x] \in S) => d \in S}]

In(dir) == {x \in DOMAIN Parent : Parent[x] = dir}

-----------------------------------------------------------------------------
(* The package database: installed_packages, as far as its first n headers *)

Installed(n) == {h \in {Headers[i] : i \in 1..n} : h.name # ""}

Begin(p, rpmdb, n) ==
  /\ walk[p].pc = "idle"
  /\ walk' = [walk EXCEPT ![p].pc = "repos", ![p].rpmdb = rpmdb,
                          ![p].packages = Installed(n)]
  /\ touched' = [touched EXCEPT ![p] = {}]
  /\ UNCHANGED <<fs, access, blobs, edits>>

Start(p) == Begin(p, TRUE, Len(Headers)) /\ UNCHANGED mishaps

(* An rpmdb that cannot be opened is an empty one without a file in it, one    *)
(* whose enumeration breaks off is as long as it got.                        *)
StartBadly(p) ==
  /\ EventLeft /\ mishaps' = mishaps + 1
  /\ Begin(p, FALSE, 0) \/ \E n \in 0..(Len(Headers) - 1) : Begin(p, TRUE, n)

BaselineFor(w, x) == IF w.rpmdb THEN Baseline[x] ELSE NoBaseline

-----------------------------------------------------------------------------
(* read_repositories: repos.d and every regular file in it must be readable.  *)
(* Each unreadable file is a warning of its own.                             *)

RepoFiles ==
  {l \in In(ReposDir) \cap Leaves :
     /\ fs[l] # NoNode
     /\ fs[l].type = "file" \/ (fs[l].type = "link" /\ Behind[fs[l].data] # Unreadable)}

UnreadableRepos ==
  IF access[ReposDir] # "ok" THEN {ReposDir} ELSE {l \in RepoFiles : ReadAll(fs[l]) = Unreadable}

ReadableRepos ==
  IF ReposDir \in UnreadableRepos THEN {} ELSE RepoFiles \ UnreadableRepos

RepoDefaults ==
  [alias |-> "", name |-> "", url |-> "", type |-> "", enabled |-> TRUE, gpgcheck |-> TRUE,
   autorefresh |-> FALSE, priority |-> 99]

(* A section that ends: what has no alias was no section. *)
Flush_mutant(s) ==
  [s EXCEPT !.done = IF s.rec.alias # "" THEN @ \cup {s.rec} ELSE @]

Flush(s) ==
  [done |-> IF s.rec.alias # "" THEN s.done \cup {s.rec} ELSE s.done, rec |-> RepoDefaults]

Assigned(rec, key, value) ==
  CASE key \in {"enabled", "gpgcheck", "autorefresh"} ->
         [rec EXCEPT ![key] = value \in {"1", "true"}]
    [] key = "priority" ->
         IF value \in DOMAIN Numeral THEN [rec EXCEPT !.priority = Numeral[value]] ELSE rec
    [] key = "baseurl" -> [rec EXCEPT !.url = value]
    [] key \in {"name", "type"} -> [rec EXCEPT ![key] = value]
    [] OTHER -> rec

ParsedLine(s, line) ==
  IF line[1] = "section" THEN [Flush(s) EXCEPT !.rec.alias = line[2]]
  ELSE [s EXCEPT !.rec = Assigned(@, line[1], line[2])]

(* The sections of a file, line by line. *)
Sections(text) ==
  LET Parsed[n \in 0..Len(text)] ==
        IF n = 0 THEN [done |-> {}, rec |-> RepoDefaults] ELSE ParsedLine(Parsed[n - 1], text[n])
  IN Flush(Parsed[Len(text)]).done

Repositories == UNION {Sections(RepoText[ReadAll(fs[l])]) : l \in ReadableRepos}

ReadRepositories(p) ==
  /\ walk[p].pc = "repos"
  /\ Become(p, Complain(p, UnreadableRepos,
       [walk[p] EXCEPT !.pc = "services", !.repositories = Repositories]))

-----------------------------------------------------------------------------
(* read_services: neither the exit status of systemctl nor the end of what it   *)
(* prints is looked at: n lines of it come through.                           *)

Normal == [enabled |-> "enabled", disabled |-> "disabled", masked |-> "masked"]
          @@ ("enabled-runtime" :> "enabled") @@ ("masked-runtime" :> "masked")

Units(n) ==
  {[name |-> line[1], state |-> Normal[line[2]]] :
     line \in {line \in {UnitFiles[i] : i \in 1..n} : line[2] \in DOMAIN Normal}}

ListUnits(p, n) ==
  /\ walk[p].pc = "services"
  /\ Put(p, [NextEntry(walk[p]) EXCEPT !.stack = {EtcDir}, !.services = Units(n)])
  /\ UNCHANGED blobs

ReadServices(p) == ListUnits(p, Len(UnitFiles)) /\ UNCHANGED mishaps

SystemctlFails(p) ==
  /\ EventLeft /\ mishaps' = mishaps + 1
  /\ \E n \in 0..(Len(UnitFiles) - 1) : ListUnits(p, n)

-----------------------------------------------------------------------------
(* walk_etc and full_scan: a stack of directories *)

OpenDir_mutant(p) ==
  /\ walk[p].pc = "walk" /\ walk[p].todo = {} /\ walk[p].stack # {}
  /\ LET d == First(walk[p].stack)
         w == walk[p]
         listed == {x \in In(d) : x \in Leaves => fs[x] # NoNode}
     IN Become(p, CASE access[d] = "ok" -> [w EXCEPT !.todo = listed]
                    [] access[d] = "broken" /\ w.phase = "etc" -> Complain(p, {d}, w)
                    [] OTHER -> w)

(* A directory whose permissions forbid listing it is taken for an empty one; *)
(* any other failure is complained of in /etc, and passed over by the scan.   *)
(* An error after the first entries is thrown, and ends the describer as Kill. *)
OpenDir(p) ==
  /\ walk[p].pc = "walk" /\ walk[p].todo = {} /\ walk[p].stack # {}
  /\ LET d == First(walk[p].stack)
         w == [walk[p] EXCEPT !.stack = @ \ {d}]
         listed == {x \in In(d) : x \in Leaves => fs[x] # NoNode}
     IN Become(p, CASE access[d] = "ok" -> [w EXCEPT !.todo = listed]
                    [] access[d] = "broken" /\ w.phase = "etc" -> Complain(p, {d}, w)
                    [] OTHER -> w)

Skipped(w, x) == x \in KeepList \/ (w.phase = "etc" /\ x = Syncpoint)

(* lstat of the next entry. *)
Stat(p) ==
  /\ walk[p].pc = "walk" /\ walk[p].todo # {}
  /\ LET x == First(walk[p].todo)
         w == [walk[p] EXCEPT !.todo = @ \ {x}]
     IN Become(p, IF Skipped(w, x) THEN w
                  ELSE IF x \in Dirs THEN [w EXCEPT !.stack = @ \cup {x}]
                  ELSE IF fs[x] = NoNode \/ fs[x].type = "special" THEN w
                  ELSE [w EXCEPT !.pc = "read", !.path = x, !.seen = fs[x]])

(* The tree is done: /etc is followed by the scan, under scope=full. *)
TreeDone(p) ==
  /\ walk[p].pc = "walk" /\ walk[p].todo = {} /\ walk[p].stack = {}
  /\ Become(p, IF walk[p].phase = "etc" /\ Full
                 THEN [walk[p] EXCEPT !.phase = "scan", !.stack = ScanDirs]
                 ELSE Finished(walk[p], "ok"))

-----------------------------------------------------------------------------
(* judge_etc_entry *)

RecordOf(path, seen, data) ==
  [name |-> path, type |-> seen.type, data |-> data, mode |-> seen.mode,
   owner |-> seen.owner, content_ref |-> FALSE]

(* The content or the target is read after the type, the mode and the owner,  *)
(* by which time something else may be there.                                *)
Got(w) ==
  LET n == fs[w.path] IN
  IF w.seen.type = "file" THEN ReadAll(n)
  ELSE IF n # NoNode /\ n.type = "link" THEN n.data ELSE NoTarget

Read(p) ==
  /\ walk[p].pc = "read" /\ walk[p].phase = "etc"
  /\ LET w == walk[p]
         got == Got(w)
     IN Become(p,
          CASE got = NoTarget   -> NextEntry(w)
            [] got = Unreadable -> Complain(p, {w.path}, NextEntry(w))
            [] OTHER -> [w EXCEPT !.pc = "judge", !.rec = RecordOf(w.path, w.seen, got)])

(* The best provider: the first of those with the highest priority; one with *)
(* a negative priority is never chosen.                                      *)
AutoTarget(link) ==
  LET ps == Providers[link]
      best == {i \in DOMAIN ps : /\ ps[i].priority >= 0
                                 /\ \A j \in DOMAIN ps : ps[j].priority <= ps[i].priority}
  IN IF best = {} THEN NoTarget
     ELSE ps[CHOOSE i \in best : \A j \in best : i <= j].target

(* Whether the entry differs from what its package brings.  The size of a     *)
(* ghost is looked up last of all.                                           *)
Empty(n) ==
  /\ n # NoNode
  /\ \/ n.type = "file" /\ n.data = EmptyDigest
     \/ n.type = "link" /\ Behind[n.data] = EmptyDigest

Differs_mutant(rec, base, now) ==
  IF base = NoBaseline THEN TRUE
  ELSE IF rec.type = "link" THEN ~(base.type = "link" /\ base.data = rec.data)
  ELSE IF base.ghost THEN ~Empty(now)
  ELSE \/ base.type \in {"link", "dir"}
       \/ <<rec.data, rec.mode, rec.owner>> # <<base.data, base.mode, base.owner>>

Differs(rec, base, now) ==
  IF base = NoBaseline THEN TRUE
  ELSE IF rec.type = "link" THEN
    IF rec.name \in DOMAIN Providers THEN AutoTarget(rec.name) # rec.data
    ELSE ~(base.type = "link" /\ base.data = rec.data)
  ELSE IF base.ghost THEN ~Empty(now)
  ELSE \/ base.type \in {"link", "dir"}
       \/ <<rec.data, rec.mode, rec.owner>> # <<base.data, base.mode, base.owner>>

Emit(w, rec) == [NextEntry(w) EXCEPT !.files = @ \cup {rec}]

Judge(p) ==
  /\ walk[p].pc = "judge"
  /\ LET w == walk[p] IN
     Become(p, IF ~Differs(w.rec, BaselineFor(w, w.path), fs[w.path]) THEN NextEntry(w)
               ELSE IF Store /\ w.rec.type = "file" THEN [w EXCEPT !.pc = "store"]
               ELSE Emit(w, w.rec))

-----------------------------------------------------------------------------
(* maybe_store_content: the blob is left alone when there is one.  Otherwise  *)
(* the file is read again, the blob opened, and written.                     *)

WithRef(rec) == [rec EXCEPT !.content_ref = TRUE]

LookUpBlob_mutant(p) ==
  /\ walk[p].pc = "store"
  /\ LET w == walk[p] IN
     Become(p, IF blobs[w.rec.data] # NoBlob THEN Emit(w, w.rec)
               ELSE [w EXCEPT !.pc = "copy"])

LookUpBlob(p) ==
  /\ walk[p].pc = "store"
  /\ LET w == walk[p] IN
     Become(p, IF blobs[w.rec.data] # NoBlob THEN Emit(w, WithRef(w.rec))
               ELSE [w EXCEPT !.pc = "copy"])

ReadAgain(p) ==
  /\ walk[p].pc = "copy"
  /\ LET w == walk[p]
         got == ReadAll(fs[w.path])
     IN Become(p, IF got = Unreadable THEN Complain(p, {w.path}, Emit(w, w.rec))
                  ELSE [w EXCEPT !.pc = "open", !.bytes = got])

OpenBlob(p) ==
  /\ walk[p].pc = "open"
  /\ blobs' = [blobs EXCEPT ![walk[p].rec.data] = EmptyDigest]
  /\ Put(p, [walk[p] EXCEPT !.pc = "write"])
  /\ UNCHANGED mishaps

WriteBlob(p) ==
  /\ walk[p].pc = "write"
  /\ blobs' = [blobs EXCEPT ![walk[p].rec.data] = walk[p].bytes]
  /\ Put(p, Emit(walk[p], WithRef(walk[p].rec)))
  /\ UNCHANGED mishaps

(* Neither the opening nor the writing is checked. *)
StoreFails(p) ==
  /\ walk[p].pc \in {"open", "write"} /\ EventLeft
  /\ Put(p, Emit(walk[p], WithRef(walk[p].rec)))
  /\ mishaps' = mishaps + 1
  /\ UNCHANGED blobs

-----------------------------------------------------------------------------
(* full_scan of one entry: what cannot be read is an empty digest or target.  *)

Changes_mutant(rec, base) ==
  IF rec.type = "link" THEN ~(base.type = "link" /\ base.data = rec.data)
  ELSE \/ base.type \in {"link", "dir"}
       \/ base.data # NoDigest /\ base.data # rec.data

Changes(rec, base) ==
  IF rec.type = "link" THEN ~(base.type = "link" /\ base.data = rec.data)
  ELSE \/ base.type \in {"link", "dir"}
       \/ base.data # NoDigest /\ base.data # rec.data
       \/ base.mode # rec.mode

Scan(p) ==
  /\ walk[p].pc = "read" /\ walk[p].phase = "scan"
  /\ LET w == walk[p]
         rec == RecordOf(w.path, w.seen, Got(w))
         base == BaselineFor(w, w.path)
     IN Become(p, IF base = NoBaseline THEN [NextEntry(w) EXCEPT !.unmanaged = @ \cup {rec}]
                  ELSE IF Changes(rec, base) THEN [NextEntry(w) EXCEPT !.changed = @ \cup {rec}]
                  ELSE NextEntry(w))

Step(p) ==
  \/ ReadRepositories(p) \/ ReadServices(p) \/ SystemctlFails(p) \/ OpenDir(p) \/ Stat(p) \/ TreeDone(p)
  \/ Read(p) \/ Judge(p) \/ Scan(p)
  \/ LookUpBlob(p) \/ ReadAgain(p) \/ OpenBlob(p) \/ WriteBlob(p)
  \/ StoreFails(p)

-----------------------------------------------------------------------------
Kill(p) ==
  /\ Alive(p) /\ EventLeft
  /\ walk' = [walk EXCEPT ![p] = Finished(Idle, "killed")]
  /\ mishaps' = mishaps + 1
  /\ UNCHANGED <<fs, access, blobs, touched, edits>>

(* Somebody changes what is at a path, or whether a directory can be listed.  *)
Touch(paths) ==
  /\ EventLeft
  /\ edits' = edits + 1
  /\ touched' = [p \in Describers |-> touched[p] \cup paths]
  /\ UNCHANGED <<blobs, walk, mishaps>>

Edit ==
  \E x \in Leaves, n \in EditNodes :
    /\ Touch({x})
    /\ fs' = [fs EXCEPT ![x] = n]
    /\ UNCHANGED access

Restrict ==
  \E d \in Dirs, a \in {"denied", "broken"} :
    /\ Touch({x \in Leaves : d \in Above[x]})
    /\ access' = [access EXCEPT ![d] = a]
    /\ UNCHANGED fs

Next == Edit \/ Restrict \/ \E p \in Describers : Start(p) \/ StartBadly(p) \/ Step(p) \/ Kill(p)

Spec == Init /\ [][Next]_vars

(* A describer waits for nobody. *)
FairSpec == Spec /\ \A p \in Describers : WF_vars(Start(p) \/ Step(p))
=============================================================================
