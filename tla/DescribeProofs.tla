----------------------------- MODULE DescribeProofs -----------------------------
(***************************************************************************)
(* For any file system, any number of describers, edits, kills and failures:  *)
(* the state of a description is well-formed, and the content store that the   *)
(* describers fill together holds what they refer to.                         *)
(***************************************************************************)
EXTENDS DescribeProperties, TLAPS

Labels == {"idle", "repos", "services", "walk", "read", "judge", "store", "copy", "open",
           "write", "done"}

Fields == {"pc", "phase", "stack", "todo", "path", "seen", "rec", "bytes", "rpmdb", "packages",
           "repositories", "services", "files", "changed", "unmanaged", "diagnostics", "result"}

RecordFields == {"name", "type", "data", "mode", "owner", "content_ref"}

Storing == {"store", "copy", "open", "write"}

(* A describer is at an entry that it saw, and then has a record of it. *)
WalkOK(w) ==
  /\ DOMAIN w = Fields
  /\ w.pc \in Labels /\ w.phase \in {"etc", "scan"}
  /\ w.stack \subseteq Dirs /\ w.todo \subseteq Dirs \cup Leaves /\ w.bytes \in Digests
  /\ w.result \in {"none", "ok", "error", "killed"}
  /\ w.result # "none" <=> w.pc = "done"
  /\ w.pc \in {"read", "judge"} \cup Storing => w.path \in Leaves /\ w.seen \in Nodes
  /\ w.pc \in {"judge"} \cup Storing =>
       /\ DOMAIN w.rec = RecordFields /\ w.rec.name = w.path /\ ~w.rec.content_ref
       /\ w.rec.type = "file" => w.rec.data \in Digests
  /\ w.pc \in Storing => w.rec.type = "file" /\ Store
  /\ \A r \in w.files : r.content_ref => r.data \in Digests

TInv ==
  /\ fs \in [Leaves -> Nodes \cup {NoNode}]
  /\ blobs \in [Digests -> Digests \cup {NoBlob}]
  /\ touched \in [Describers -> SUBSET Leaves]
  /\ DOMAIN walk = Describers
  /\ \A p \in Describers : WalkOK(walk[p])

-----------------------------------------------------------------------------
LEMMA EmptyTyped == EmptyDigest \in Digests
BY DEF Digests

(* What is read at a path is a content of the model, or nothing. *)
LEMMA ContentTyped ==
  ASSUME NEW n \in Nodes \cup {NoNode} PROVE ReadAll(n) \in Digests \cup {Unreadable}
<1>1. CASE n = NoNode
  BY <1>1 DEF ReadAll
<1>2. CASE n \in Nodes /\ n.type = "link"
  <2>1. n.data \in DOMAIN Behind
    BY <1>2, NodeAssumption
  <2>2. Behind[n.data] \in Digests \cup {Unreadable}
    BY <2>1 DEF Digests
  <2> QED
    BY <1>2, <2>2, NodeAssumption DEF ReadAll
<1>3. CASE n \in Nodes /\ n.type # "link"
  <2>1. n.type = "file" => n.data \in Digests
    BY <1>3 DEF Digests
  <2> QED
    BY <1>3, <2>1, NodeAssumption DEF ReadAll
<1> QED
  BY <1>1, <1>2, <1>3

LEMMA IdleOK == WalkOK(Idle)
BY EmptyTyped DEF WalkOK, Idle, Fields, Labels, Storing

LEMMA FinishedOK ==
  ASSUME NEW w, WalkOK(w), NEW result \in {"ok", "error", "killed"}
  PROVE  WalkOK(Finished(w, result))
BY DEF WalkOK, Finished, Fields, Labels, Storing

LEMMA NextEntryOK ==
  ASSUME NEW w, WalkOK(w), w.pc # "done" PROVE WalkOK(NextEntry(w))
BY DEF WalkOK, NextEntry, Fields, Labels, Storing

LEMMA ComplainOK ==
  ASSUME NEW p \in Describers, WalkOK(walk[p]), NEW w, WalkOK(w), NEW sources
  PROVE  WalkOK(Complain(p, sources, w))
<1>1. WalkOK(Finished(walk[p], "error"))
  BY FinishedOK
<1>2. WalkOK([w EXCEPT !.diagnostics = @ \cup sources])
  BY DEF WalkOK, Fields
<1> QED
  BY <1>1, <1>2 DEF Complain

LEMMA EmitOK ==
  ASSUME NEW w, WalkOK(w), w.pc # "done", NEW rec, rec.content_ref => rec.data \in Digests
  PROVE  WalkOK(Emit(w, rec))
BY DEF WalkOK, Emit, NextEntry, Fields, Labels, Storing

-----------------------------------------------------------------------------
(* A step of one describer: what the others have stays what it was. *)

LEMMA PutOK ==
  ASSUME TInv, NEW p \in Describers, NEW w, WalkOK(w), Put(p, w),
         blobs' \in [Digests -> Digests \cup {NoBlob}]
  PROVE  TInv'
<1>1. DOMAIN walk' = Describers /\ walk'[p] = w /\ \A q \in Describers \ {p} : walk'[q] = walk[q]
  BY DEF Put, TInv
<1>2. fs' = fs /\ touched' = touched
  BY DEF Put
<1> QED
  BY <1>1, <1>2 DEF TInv

LEMMA BecomeOK ==
  ASSUME TInv, NEW p \in Describers, NEW w, WalkOK(w), Become(p, w)
  PROVE  TInv'
BY PutOK DEF Become, TInv

LEMMA BeginTyped ==
  ASSUME TInv, NEW p \in Describers, NEW rpmdb, NEW n, Begin(p, rpmdb, n)
  PROVE  TInv'
<1> DEFINE v == [walk[p] EXCEPT !.pc = "repos", !.rpmdb = rpmdb,
                                !.packages = Installed(n)]
<1>1. WalkOK(v)
  <2> HIDE DEF WalkOK
  <2>1. WalkOK(walk[p]) /\ walk[p].pc = "idle"
    BY DEF TInv, Begin
  <2> QED
    BY <2>1 DEF WalkOK, Fields, Labels, Storing
<1>2. DOMAIN walk' = Describers /\ walk'[p] = v /\ \A q \in Describers \ {p} : walk'[q] = walk[q]
  BY DEF Begin, TInv
<1>3. /\ fs' = fs /\ blobs' = blobs
      /\ touched' \in [Describers -> SUBSET Leaves]
  BY DEF Begin, TInv
<1> HIDE DEF v
<1> QED
  BY <1>1, <1>2, <1>3 DEF TInv

LEMMA UnitsListed ==
  ASSUME NEW p, NEW n, ListUnits(p, n)
  PROVE  /\ \E s : Put(p, [NextEntry(walk[p]) EXCEPT !.stack = {EtcDir}, !.services = s])
         /\ walk[p].pc = "services" /\ blobs' = blobs
BY DEF ListUnits

LEMMA ScopesTyped ==
  ASSUME TInv, NEW p \in Describers
  PROVE  /\ ReadRepositories(p) => TInv'
         /\ \A n : ListUnits(p, n) => TInv'
<1>0. WalkOK(walk[p])
  BY DEF TInv
<1>1. ASSUME ReadRepositories(p) PROVE TInv'
  <2> DEFINE w == [walk[p] EXCEPT !.pc = "services", !.repositories = Repositories]
  <2>1. WalkOK(w)
    BY <1>0, <1>1 DEF ReadRepositories, WalkOK, Fields, Labels, Storing
  <2>2. Become(p, Complain(p, UnreadableRepos, w))
    BY <1>1 DEF ReadRepositories
  <2> HIDE DEF w
  <2> QED
    BY <1>0, <2>1, <2>2, ComplainOK, BecomeOK
<1>2. ASSUME NEW n, ListUnits(p, n) PROVE TInv'
  <2>1. PICK s : Put(p, [NextEntry(walk[p]) EXCEPT !.stack = {EtcDir}, !.services = s])
    BY <1>2, UnitsListed
  <2>2. walk[p].pc = "services" /\ blobs' = blobs
    BY <1>2, UnitsListed
  <2>3. WalkOK([NextEntry(walk[p]) EXCEPT !.stack = {EtcDir}, !.services = s])
    BY <1>0, <2>2, TreeAssumption DEF WalkOK, NextEntry, Fields, Labels, Storing
  <2> QED
    BY <2>1, <2>2, <2>3, PutOK DEF TInv
<1> QED
  BY <1>1, <1>2

-----------------------------------------------------------------------------
LEMMA OpenDirTyped ==
  ASSUME TInv, NEW p \in Describers, OpenDir(p) PROVE TInv'
<1> DEFINE d == First(walk[p].stack)
           w == [walk[p] EXCEPT !.stack = @ \ {d}]
           listed == {x \in In(d) : x \in Leaves => fs[x] # NoNode}
<1>1. WalkOK(walk[p]) /\ walk[p].pc = "walk"
  BY DEF TInv, OpenDir
<1>2. WalkOK(w)
  BY <1>1 DEF WalkOK, Fields
<1>3. listed \subseteq Dirs \cup Leaves
  BY NodeAssumption DEF In
<1>4. WalkOK([w EXCEPT !.todo = listed])
  <2> HIDE DEF listed
  <2> QED
    BY <1>1, <1>3 DEF WalkOK, Fields
<1>5. WalkOK(Complain(p, {d}, w))
  <2> HIDE DEF w
  <2> QED
    BY <1>1, <1>2, ComplainOK
<1>6. Become(p, CASE access[d] = "ok" -> [w EXCEPT !.todo = listed]
                  [] access[d] = "broken" /\ w.phase = "etc" -> Complain(p, {d}, w)
                  [] OTHER -> w)
  BY DEF OpenDir
<1> HIDE DEF w, d, listed
<1>7. WalkOK(CASE access[d] = "ok" -> [w EXCEPT !.todo = listed]
                  [] access[d] = "broken" /\ w.phase = "etc" -> Complain(p, {d}, w)
                  [] OTHER -> w)
  BY <1>2, <1>4, <1>5
<1> QED
  BY <1>6, <1>7, BecomeOK

LEMMA StatTyped ==
  ASSUME TInv, NEW p \in Describers, Stat(p) PROVE TInv'
<1> DEFINE x == First(walk[p].todo)
           w == [walk[p] EXCEPT !.todo = @ \ {x}]
           there == [w EXCEPT !.pc = "read", !.path = x, !.seen = fs[x]]
<1>1. WalkOK(walk[p]) /\ walk[p].pc = "walk" /\ walk[p].todo # {}
  BY DEF TInv, Stat
<1>2. WalkOK(w)
  BY <1>1 DEF WalkOK, Fields
<1>3. x \in Dirs \cup Leaves
  BY <1>1 DEF First, WalkOK
<1>4. x \in Dirs => WalkOK([w EXCEPT !.stack = @ \cup {x}])
  BY <1>1 DEF WalkOK, Fields
<1>5. x \notin Dirs /\ fs[x] # NoNode => WalkOK(there)
  <2> SUFFICES ASSUME x \notin Dirs, fs[x] # NoNode PROVE WalkOK(there)
    OBVIOUS
  <2>1. x \in Leaves /\ fs[x] \in Nodes
    BY <1>3 DEF TInv
  <2> HIDE DEF x
  <2> QED
    BY <1>1, <2>1 DEF WalkOK, Fields, Labels, Storing
<1>6. Become(p, IF Skipped(w, x) THEN w
                ELSE IF x \in Dirs THEN [w EXCEPT !.stack = @ \cup {x}]
                ELSE IF fs[x] = NoNode \/ fs[x].type = "special" THEN w
                ELSE there)
  BY DEF Stat
<1> HIDE DEF w, x, there
<1>7. WalkOK(IF Skipped(w, x) THEN w
                ELSE IF x \in Dirs THEN [w EXCEPT !.stack = @ \cup {x}]
                ELSE IF fs[x] = NoNode \/ fs[x].type = "special" THEN w
                ELSE there)
  BY <1>2, <1>4, <1>5
<1> QED
  BY <1>6, <1>7, BecomeOK

LEMMA TreeDoneTyped ==
  ASSUME TInv, NEW p \in Describers, TreeDone(p) PROVE TInv'
<1>1. WalkOK(walk[p]) /\ walk[p].pc = "walk"
  BY DEF TInv, TreeDone
<1>2. WalkOK([walk[p] EXCEPT !.phase = "scan", !.stack = ScanDirs])
  BY <1>1, TreeAssumption DEF WalkOK, Fields
<1>3. WalkOK(Finished(walk[p], "ok"))
  BY <1>1, FinishedOK
<1> QED
  BY <1>2, <1>3, BecomeOK DEF TreeDone

-----------------------------------------------------------------------------
(* What a describer has of an entry that it read. *)
LEMMA GotTyped ==
  ASSUME TInv, NEW p \in Describers, walk[p].pc = "read"
  PROVE  /\ DOMAIN RecordOf(walk[p].path, walk[p].seen, Got(walk[p])) = RecordFields
         /\ ~RecordOf(walk[p].path, walk[p].seen, Got(walk[p])).content_ref
         /\ walk[p].seen.type = "file" => Got(walk[p]) \in Digests \cup {Unreadable}
<1>1. walk[p].path \in Leaves
  BY DEF TInv, WalkOK
<1>2. fs[walk[p].path] \in Nodes \cup {NoNode}
  BY <1>1 DEF TInv
<1>3. walk[p].seen.type = "file" => Got(walk[p]) = ReadAll(fs[walk[p].path])
  BY DEF Got
<1> QED
  BY <1>2, <1>3, ContentTyped DEF RecordOf, RecordFields

LEMMA ReadTyped ==
  ASSUME TInv, NEW p \in Describers, Read(p) PROVE TInv'
<1> DEFINE w == walk[p]
           got == Got(w)
           rec == RecordOf(w.path, w.seen, got)
<1>1. WalkOK(w) /\ w.pc = "read"
  BY DEF TInv, Read
<1>2. WalkOK(NextEntry(w)) /\ WalkOK(Complain(p, {w.path}, NextEntry(w)))
  BY <1>1, NextEntryOK, ComplainOK
<1>3. got # Unreadable => WalkOK([w EXCEPT !.pc = "judge", !.rec = rec])
  <2> SUFFICES ASSUME got # Unreadable PROVE WalkOK([w EXCEPT !.pc = "judge", !.rec = rec])
    OBVIOUS
  <2>1. /\ DOMAIN rec = RecordFields /\ rec.name = w.path /\ ~rec.content_ref
        /\ rec.type = "file" => rec.data \in Digests
    BY <1>1, GotTyped DEF RecordOf
  <2> HIDE DEF rec
  <2> QED
    BY <1>1, <2>1 DEF WalkOK, Fields, Labels, Storing
<1>4. Become(p, CASE got = NoTarget   -> NextEntry(w)
                  [] got = Unreadable -> Complain(p, {w.path}, NextEntry(w))
                  [] OTHER -> [w EXCEPT !.pc = "judge", !.rec = rec])
  BY DEF Read
<1> HIDE DEF w, got, rec
<1>5. WalkOK(CASE got = NoTarget   -> NextEntry(w)
                  [] got = Unreadable -> Complain(p, {w.path}, NextEntry(w))
                  [] OTHER -> [w EXCEPT !.pc = "judge", !.rec = rec])
  BY <1>2, <1>3
<1> QED
  BY <1>4, <1>5, BecomeOK

LEMMA ScanTyped ==
  ASSUME TInv, NEW p \in Describers, Scan(p) PROVE TInv'
<1> DEFINE w == NextEntry(walk[p])
<1>1. WalkOK(w)
  BY NextEntryOK DEF TInv, Scan
<1>2. \A r : WalkOK([w EXCEPT !.unmanaged = @ \cup {r}]) /\ WalkOK([w EXCEPT !.changed = @ \cup {r}])
  <2> HIDE DEF w
  <2> QED
    BY <1>1 DEF WalkOK, Fields
<1>3. \E r : \/ Become(p, [w EXCEPT !.unmanaged = @ \cup {r}])
             \/ Become(p, [w EXCEPT !.changed = @ \cup {r}])
             \/ Become(p, w)
  BY DEF Scan
<1> HIDE DEF w
<1> QED
  BY <1>1, <1>2, <1>3, BecomeOK

(* What judge_etc_entry or maybe_store_content has of the entry. *)
LEMMA HeldTyped ==
  ASSUME TInv, NEW p \in Describers, walk[p].pc \in {"judge"} \cup Storing
  PROVE  /\ WalkOK(walk[p]) /\ walk[p].pc # "done"
         /\ walk[p].path \in Leaves /\ fs[walk[p].path] \in Nodes \cup {NoNode}
         /\ walk[p].rec.name = walk[p].path /\ ~walk[p].rec.content_ref
         /\ DOMAIN walk[p].rec = RecordFields /\ DOMAIN WithRef(walk[p].rec) = RecordFields
         /\ walk[p].pc \in Storing =>
              /\ Store /\ walk[p].rec.type = "file" /\ walk[p].rec.data \in Digests
              /\ WithRef(walk[p].rec).data = walk[p].rec.data
              /\ WithRef(walk[p].rec).type = "file" /\ WithRef(walk[p].rec).content_ref
BY DEF TInv, WalkOK, Storing, WithRef, RecordFields

LEMMA JudgeTyped ==
  ASSUME TInv, NEW p \in Describers, Judge(p) PROVE TInv'
<1> DEFINE w == walk[p]
<1>1. WalkOK(w) /\ w.pc = "judge" /\ ~w.rec.content_ref
  BY HeldTyped DEF Judge
<1>2. WalkOK(NextEntry(w)) /\ WalkOK(Emit(w, w.rec))
  BY <1>1, NextEntryOK, EmitOK
<1>3. Store /\ w.rec.type = "file" => WalkOK([w EXCEPT !.pc = "store"])
  BY <1>1 DEF WalkOK, Fields, Labels, Storing
<1>4. Become(p, IF ~Differs(w.rec, BaselineFor(w, w.path), fs[w.path]) THEN NextEntry(w)
                ELSE IF Store /\ w.rec.type = "file" THEN [w EXCEPT !.pc = "store"]
                ELSE Emit(w, w.rec))
  BY DEF Judge
<1> HIDE DEF w
<1>5. WalkOK(IF ~Differs(w.rec, BaselineFor(w, w.path), fs[w.path]) THEN NextEntry(w)
                ELSE IF Store /\ w.rec.type = "file" THEN [w EXCEPT !.pc = "store"]
                ELSE Emit(w, w.rec))
  BY <1>2, <1>3
<1> QED
  BY <1>4, <1>5, BecomeOK

(* The four steps of the store, and its failure. *)
LEMMA StoringTyped ==
  ASSUME TInv, NEW p \in Describers,
         LookUpBlob(p) \/ ReadAgain(p) \/ OpenBlob(p) \/ WriteBlob(p) \/ StoreFails(p)
  PROVE  TInv'
<1> DEFINE w == walk[p]
<1>0. w.pc \in Storing
  BY DEF LookUpBlob, ReadAgain, OpenBlob, WriteBlob, StoreFails, Storing
<1>1. /\ WalkOK(w) /\ w.pc # "done" /\ ~w.rec.content_ref
      /\ w.rec.data \in Digests /\ WithRef(w.rec).data = w.rec.data
      /\ fs[w.path] \in Nodes \cup {NoNode}
  BY <1>0, HeldTyped
<1>2. WalkOK(Emit(w, w.rec)) /\ WalkOK(Emit(w, WithRef(w.rec)))
  BY <1>1, EmitOK
<1>3. w.bytes \in Digests
  BY <1>1 DEF WalkOK
<1>4. CASE LookUpBlob(p)
  <2>1. WalkOK([w EXCEPT !.pc = "copy"])
    BY <1>0, <1>1 DEF WalkOK, Fields, Labels, Storing
  <2>2. Become(p, Emit(w, WithRef(w.rec))) \/ Become(p, [w EXCEPT !.pc = "copy"])
    BY <1>4 DEF LookUpBlob
  <2> QED
    BY <1>2, <2>1, <2>2, BecomeOK
<1>5. CASE ReadAgain(p)
  <2> DEFINE got == ReadAll(fs[w.path])
  <2>1. got # Unreadable => WalkOK([w EXCEPT !.pc = "open", !.bytes = got])
    <3> SUFFICES ASSUME got # Unreadable PROVE WalkOK([w EXCEPT !.pc = "open", !.bytes = got])
      OBVIOUS
    <3>1. got \in Digests
      BY <1>1, ContentTyped
    <3> HIDE DEF got
    <3> QED
      BY <1>0, <1>1, <3>1 DEF WalkOK, Fields, Labels, Storing
  <2>2. WalkOK(Complain(p, {w.path}, Emit(w, w.rec)))
    BY <1>1, <1>2, ComplainOK
  <2>3. \/ Become(p, Complain(p, {w.path}, Emit(w, w.rec)))
        \/ got # Unreadable /\ Become(p, [w EXCEPT !.pc = "open", !.bytes = got])
    BY <1>5 DEF ReadAgain
  <2> HIDE DEF w, got
  <2> QED
    BY <2>1, <2>2, <2>3, BecomeOK
<1>6. CASE OpenBlob(p)
  <2>1. WalkOK([w EXCEPT !.pc = "write"])
    BY <1>0, <1>1 DEF WalkOK, Fields, Labels, Storing
  <2>2. Put(p, [w EXCEPT !.pc = "write"])
    BY <1>6 DEF OpenBlob
  <2>3. blobs' \in [Digests -> Digests \cup {NoBlob}]
    BY <1>1, <1>6, EmptyTyped DEF OpenBlob, TInv
  <2> HIDE DEF w
  <2> QED
    BY <2>1, <2>2, <2>3, PutOK
<1>7. CASE WriteBlob(p)
  <2>1. Put(p, Emit(w, WithRef(w.rec)))
    BY <1>7 DEF WriteBlob
  <2>2. blobs' \in [Digests -> Digests \cup {NoBlob}]
    BY <1>1, <1>3, <1>7 DEF WriteBlob, TInv
  <2> HIDE DEF w
  <2> QED
    BY <1>2, <2>1, <2>2, PutOK
<1>8. CASE StoreFails(p)
  <2>1. Put(p, Emit(w, WithRef(w.rec))) /\ blobs' = blobs
    BY <1>8 DEF StoreFails
  <2> HIDE DEF w
  <2> QED
    BY <1>2, <2>1, PutOK DEF TInv
<1> QED
  BY <1>4, <1>5, <1>6, <1>7, <1>8

LEMMA KillTyped ==
  ASSUME TInv, NEW p \in Describers, Kill(p) PROVE TInv'
<1>1. WalkOK(Finished(Idle, "killed"))
  BY IdleOK, FinishedOK
<1> DEFINE v == Finished(Idle, "killed")
<1>2. DOMAIN walk' = Describers /\ walk'[p] = v /\ \A q \in Describers \ {p} : walk'[q] = walk[q]
  BY DEF Kill, TInv
<1>3. fs' = fs /\ blobs' = blobs /\ touched' = touched
  BY DEF Kill
<1> HIDE DEF v
<1> QED
  BY <1>1, <1>2, <1>3 DEF TInv, v

LEMMA EventsTyped ==
  ASSUME TInv, Edit \/ Restrict PROVE TInv'
<1>1. PICK paths \in SUBSET Leaves : Touch(paths)
  BY DEF Edit, Restrict
<1>2. touched' \in [Describers -> SUBSET Leaves]
  BY <1>1 DEF Touch, TInv
<1>3. walk' = walk /\ blobs' = blobs
  BY DEF Edit, Restrict, Touch
<1>4. fs' \in [Leaves -> Nodes \cup {NoNode}]
  BY DEF Edit, Restrict, TInv, Nodes
<1> QED
  BY <1>2, <1>3, <1>4 DEF TInv

LEMMA TInvInductive ==
  /\ Init => TInv
  /\ TInv /\ [Next]_vars => TInv'
<1>1. ASSUME Init PROVE TInv
  <2>1. /\ fs \in [Leaves -> Nodes \cup {NoNode}] /\ DOMAIN walk = Describers
        /\ blobs \in [Digests -> Digests \cup {NoBlob}]
        /\ touched \in [Describers -> SUBSET Leaves]
        /\ \A p \in Describers : walk[p] = Idle
    BY <1>1, NodeAssumption DEF Init
  <2> QED
    BY <2>1, IdleOK DEF TInv
<1>2. ASSUME TInv, Next PROVE TInv'
  <2>1. CASE Edit \/ Restrict
    BY <1>2, <2>1, EventsTyped
  <2>2. ASSUME NEW p \in Describers, Start(p) \/ StartBadly(p) \/ Kill(p) PROVE TInv'
    BY <1>2, <2>2, BeginTyped, KillTyped DEF Start, StartBadly
  <2>3. ASSUME NEW p \in Describers, Step(p) PROVE TInv'
    BY <1>2, <2>3, ScopesTyped, OpenDirTyped, StatTyped, TreeDoneTyped, ReadTyped, JudgeTyped,
       ScanTyped, StoringTyped DEF Step, ReadServices, SystemctlFails
  <2> QED
    BY <1>2, <2>1, <2>2, <2>3 DEF Next
<1>3. ASSUME TInv, UNCHANGED vars PROVE TInv'
  BY <1>3 DEF TInv, vars
<1> QED
  BY <1>1, <1>2, <1>3

(* A walk is over exactly when it has a result, and what is on its way to the    *)
(* store is a regular file with a digest, whatever is edited, restricted or        *)
(* killed meanwhile, in any root and for any number of describers.              *)
THEOREM DescriptionTyped == Spec => []TypeOK
<1>1. TInv => TypeOK
  BY DEF TInv, WalkOK, TypeOK, Storing
<1> QED
  BY <1>1, TInvInductive, PTL DEF Spec

-----------------------------------------------------------------------------
(* The content store.  Under Pure nothing is edited under a running describer, *)
(* nobody is killed and the store takes what it is given.                     *)

Pure == mishaps = 0 /\ \A p \in Describers : walk[p].pc # "idle" => touched[p] = {}

(* The digest in a record is that of what is still at its path, and what is      *)
(* about to be written has it.                                                *)
Held(f, w) ==
  /\ w.pc \in {"judge"} \cup Storing /\ w.rec.type = "file" => w.rec.data = ReadAll(f[w.path])
  /\ w.pc \in {"open", "write"} => w.bytes = w.rec.data

(* A file is emitted with a reference, and a reference when there is a blob.   *)
Kept(b, w) ==
  \A r \in w.files :
    /\ r.content_ref => b[r.data] # NoBlob
    /\ Store /\ r.type = "file" => r.content_ref

(* A blob is whole, unless somebody who opened it is about to write it.       *)
Sound(b, ws) ==
  \A d \in Digests :
    b[d] \in {NoBlob, d} \/ \E p \in Describers : ws[p].pc = "write" /\ ws[p].rec.data = d

Settled ==
  /\ \A p \in Describers : Held(fs, walk[p]) /\ Kept(blobs, walk[p])
  /\ Sound(blobs, walk)

SInv == TInv /\ mishaps \in Nat /\ (Pure => Settled)

(* Most steps of a describer have nothing to do with the store. *)
Away == {"services", "walk", "read", "done"}

Aside(p) ==
  \E w : Put(p, w) /\ blobs' = blobs /\ w.pc \in Away /\ w.files = walk[p].files

LEMMA ComplainAside ==
  ASSUME TInv, NEW p \in Describers, NEW sources, NEW w,
         WalkOK(w), w.pc \in Away, w.files = walk[p].files
  PROVE  Complain(p, sources, w).pc \in Away /\ Complain(p, sources, w).files = walk[p].files
<1>1. DOMAIN w = Fields /\ DOMAIN walk[p] = Fields
  BY DEF TInv, WalkOK
<1> QED
  BY <1>1 DEF Complain, Finished, Away, Fields

LEMMA StepsAside ==
  ASSUME TInv, NEW p \in Describers
  PROVE  /\ ReadRepositories(p) => Aside(p)
         /\ ReadServices(p) \/ SystemctlFails(p) => Aside(p)
         /\ OpenDir(p) \/ Stat(p) \/ TreeDone(p) => Aside(p)
         /\ Scan(p) => Aside(p)
<1>0. WalkOK(walk[p]) /\ DOMAIN walk[p] = Fields
  BY DEF TInv, WalkOK
<1>1. ASSUME ReadRepositories(p) PROVE Aside(p)
  <2> DEFINE w == [walk[p] EXCEPT !.pc = "services", !.repositories = Repositories]
  <2>1. WalkOK(w) /\ w.pc = "services" /\ w.files = walk[p].files
    BY <1>0, <1>1 DEF ReadRepositories, WalkOK, Fields, Labels, Storing
  <2>2. Put(p, Complain(p, UnreadableRepos, w)) /\ blobs' = blobs
    BY <1>1 DEF ReadRepositories, Become
  <2> HIDE DEF w
  <2> QED
    BY <2>1, <2>2, ComplainAside DEF Aside, Away
<1>2. ASSUME ReadServices(p) \/ SystemctlFails(p) PROVE Aside(p)
  <2>1. ASSUME NEW n, ListUnits(p, n) PROVE Aside(p)
    <3>1. PICK s : Put(p, [NextEntry(walk[p]) EXCEPT !.stack = {EtcDir}, !.services = s])
      BY <2>1, UnitsListed
    <3> DEFINE w == [NextEntry(walk[p]) EXCEPT !.stack = {EtcDir}, !.services = s]
    <3>2. blobs' = blobs
      BY <2>1, UnitsListed
    <3>3. w.pc \in Away /\ w.files = walk[p].files
      BY <1>0 DEF Away, NextEntry, Fields
    <3> HIDE DEF w
    <3> QED
      BY <3>1, <3>2, <3>3 DEF Aside, w
  <2> QED
    BY <1>2, <2>1 DEF ReadServices, SystemctlFails
<1>3. ASSUME OpenDir(p) PROVE Aside(p)
  <2> DEFINE d == First(walk[p].stack)
             w == [walk[p] EXCEPT !.stack = @ \ {d}]
             listed == {x \in In(d) : x \in Leaves => fs[x] # NoNode}
             open == [w EXCEPT !.todo = listed]
  <2>1. WalkOK(w) /\ w.pc = "walk" /\ w.files = walk[p].files
    BY <1>0, <1>3 DEF OpenDir, WalkOK, Fields
  <2>2. open.pc = "walk" /\ open.files = walk[p].files
    BY <1>0, <1>3 DEF OpenDir, Fields
  <2>3. Become(p, CASE access[d] = "ok" -> open
                    [] access[d] = "broken" /\ w.phase = "etc" -> Complain(p, {d}, w)
                    [] OTHER -> w)
    BY <1>3 DEF OpenDir
  <2> HIDE DEF w, d, open
  <2>4. Complain(p, {d}, w).pc \in Away /\ Complain(p, {d}, w).files = walk[p].files
    BY <2>1, ComplainAside DEF Away
  <2>5. \E v \in {open, Complain(p, {d}, w), w} : Become(p, v)
    BY <2>3
  <2> QED
    BY <2>1, <2>2, <2>4, <2>5 DEF Aside, Away, Become
<1>4. ASSUME Stat(p) PROVE Aside(p)
  <2> DEFINE x == First(walk[p].todo)
             w == [walk[p] EXCEPT !.todo = @ \ {x}]
             down == [w EXCEPT !.stack = @ \cup {x}]
             there == [w EXCEPT !.pc = "read", !.path = x, !.seen = fs[x]]
  <2>1. \A v \in {w, down, there} : v.pc \in {"walk", "read"} /\ v.files = walk[p].files
    BY <1>0, <1>4 DEF Stat, Fields
  <2>2. Become(p, IF Skipped(w, x) THEN w
                  ELSE IF x \in Dirs THEN down
                  ELSE IF fs[x] = NoNode \/ fs[x].type = "special" THEN w
                  ELSE there)
    BY <1>4 DEF Stat
  <2> HIDE DEF w, x, down, there
  <2>3. \E v \in {w, down, there} : Become(p, v)
    BY <2>2
  <2> QED
    BY <2>1, <2>3 DEF Aside, Away, Become
<1>5. ASSUME TreeDone(p) PROVE Aside(p)
  <2> DEFINE scan == [walk[p] EXCEPT !.phase = "scan", !.stack = ScanDirs]
             over == Finished(walk[p], "ok")
  <2>1. \A v \in {scan, over} : v.pc \in Away /\ v.files = walk[p].files
    BY <1>0, <1>5 DEF TreeDone, Away, Finished, Fields
  <2>2. Become(p, scan) \/ Become(p, over)
    BY <1>5 DEF TreeDone
  <2> HIDE DEF scan, over
  <2> QED
    BY <2>1, <2>2 DEF Aside, Become
<1>6. ASSUME Scan(p) PROVE Aside(p)
  <2> DEFINE w == NextEntry(walk[p])
  <2>1. \A r : /\ [w EXCEPT !.unmanaged = @ \cup {r}].pc = "walk"
               /\ [w EXCEPT !.unmanaged = @ \cup {r}].files = walk[p].files
               /\ [w EXCEPT !.changed = @ \cup {r}].pc = "walk"
               /\ [w EXCEPT !.changed = @ \cup {r}].files = walk[p].files
               /\ w.pc = "walk" /\ w.files = walk[p].files
    BY <1>0 DEF NextEntry, Fields
  <2>2. \E r : \/ Become(p, [w EXCEPT !.unmanaged = @ \cup {r}])
               \/ Become(p, [w EXCEPT !.changed = @ \cup {r}])
               \/ Become(p, w)
    BY <1>6 DEF Scan
  <2> HIDE DEF w
  <2> QED
    BY <2>1, <2>2 DEF Aside, Away, Become
<1> QED
  BY <1>1, <1>2, <1>3, <1>4, <1>5, <1>6

(* The steps that read, judge and store an entry. *)
Filed(p) ==
  \E w : /\ Put(p, w) /\ w.pc # "idle"
         /\ Settled => Held(fs, w) /\ Kept(blobs', w)

LEMMA AsideFiled ==
  ASSUME NEW p \in Describers, Aside(p) PROVE Filed(p)
<1>1. PICK w : Put(p, w) /\ blobs' = blobs /\ w.pc \in Away /\ w.files = walk[p].files
  BY DEF Aside
<1>2. w.pc # "idle" /\ Held(fs, w)
  BY <1>1 DEF Held, Away, Storing
<1>3. Settled => Kept(blobs', w)
  BY <1>1 DEF Settled, Kept
<1> QED
  BY <1>1, <1>2, <1>3 DEF Filed

LEMMA EmitKept ==
  ASSUME NEW b, NEW w, DOMAIN w = Fields, Kept(b, w), NEW rec,
         rec.content_ref => b[rec.data] # NoBlob,
         Store /\ rec.type = "file" => rec.content_ref
  PROVE  /\ Kept(b, Emit(w, rec)) /\ Emit(w, rec).pc = "walk"
         /\ \A f : Held(f, Emit(w, rec))
<1>1. Emit(w, rec).files = w.files \cup {rec} /\ Emit(w, rec).pc = "walk"
  BY DEF Emit, NextEntry, Fields
<1> QED
  BY <1>1 DEF Kept, Held, Storing

LEMMA ReadFiled ==
  ASSUME TInv, NEW p \in Describers, Read(p) PROVE Filed(p)
<1> DEFINE w == walk[p]
           got == Got(w)
           rec == RecordOf(w.path, w.seen, got)
           v == [w EXCEPT !.pc = "judge", !.rec = rec]
<1>1. WalkOK(w) /\ DOMAIN w = Fields
  BY DEF TInv, WalkOK
<1>2. v.pc = "judge" /\ v.files = w.files /\ v.rec = rec /\ v.path = w.path
  BY <1>1 DEF Fields
<1>3. rec.type = "file" => rec.data = ReadAll(fs[w.path])
  BY DEF RecordOf, Got
<1>4. WalkOK(NextEntry(w)) /\ NextEntry(w).pc = "walk" /\ NextEntry(w).files = w.files
  BY <1>1, NextEntryOK DEF NextEntry, Fields, Read
<1>5. /\ Complain(p, {w.path}, NextEntry(w)).pc \in Away
      /\ Complain(p, {w.path}, NextEntry(w)).files = w.files
  BY <1>4, ComplainAside DEF Away
<1>6. Become(p, CASE got = NoTarget   -> NextEntry(w)
                  [] got = Unreadable -> Complain(p, {w.path}, NextEntry(w))
                  [] OTHER -> v)
  BY DEF Read
<1>7. Held(fs, v)
  <2> HIDE DEF v, rec, w
  <2> QED
    BY <1>2, <1>3 DEF Held
<1>8. Settled => Kept(blobs, v)
  <2> HIDE DEF v
  <2> QED
    BY <1>2 DEF Settled, Kept
<1> HIDE DEF v, rec, got
<1>9. \E u \in {NextEntry(w), Complain(p, {w.path}, NextEntry(w)), v} : Become(p, u)
  BY <1>6
<1>10. CASE Become(p, v)
  BY <1>2, <1>7, <1>8, <1>10 DEF Filed, Become
<1>11. CASE ~Become(p, v)
  <2>1. Aside(p)
    BY <1>4, <1>5, <1>9, <1>11 DEF Aside, Away, Become
  <2> QED
    BY <2>1, AsideFiled
<1> QED
  BY <1>10, <1>11

LEMMA JudgeFiled ==
  ASSUME TInv, NEW p \in Describers, Judge(p) PROVE Filed(p)
<1> DEFINE w == walk[p]
           v == [w EXCEPT !.pc = "store"]
<1>1. WalkOK(w) /\ DOMAIN w = Fields /\ w.pc = "judge" /\ ~w.rec.content_ref
  BY HeldTyped DEF WalkOK, Judge
<1>2. CASE Become(p, NextEntry(w))
  <2>1. NextEntry(w).pc = "walk" /\ NextEntry(w).files = w.files
    BY <1>1 DEF NextEntry, Fields
  <2>2. Aside(p)
    BY <1>2, <2>1 DEF Aside, Away, Become
  <2> QED
    BY <2>2, AsideFiled
<1>3. CASE Become(p, v)
  <2>1. v.pc = "store" /\ v.files = w.files /\ v.rec = w.rec /\ v.path = w.path
    BY <1>1 DEF Fields
  <2> HIDE DEF v
  <2>2. Settled => Held(fs, v) /\ Kept(blobs, v)
    BY <1>1, <2>1 DEF Settled, Held, Kept
  <2> QED
    BY <1>3, <2>1, <2>2 DEF Filed, Become
<1>4. CASE ~(Store /\ w.rec.type = "file") /\ Become(p, Emit(w, w.rec))
  <2> DEFINE u == Emit(w, w.rec)
  <2>1. Settled => Kept(blobs, u)
    BY <1>1, <1>4, EmitKept DEF Settled
  <2>2. u.pc = "walk" /\ Held(fs, u)
    BY <1>1 DEF Emit, NextEntry, Fields, Held, Storing
  <2> HIDE DEF u
  <2>3. Put(p, u) /\ blobs' = blobs
    BY <1>4 DEF Become, u
  <2> QED
    BY <2>1, <2>2, <2>3 DEF Filed
<1> QED
  BY <1>2, <1>3, <1>4 DEF Judge

(* No blob ever goes. *)
LEMMA KeptOn ==
  ASSUME TInv, NEW d \in Digests, NEW c \in Digests, blobs' = [blobs EXCEPT ![d] = c],
         NEW w, WalkOK(w), Kept(blobs, w)
  PROVE  Kept(blobs', w) /\ blobs'[d] # NoBlob
<1>1. c # NoBlob /\ blobs'[d] = c /\ \A e \in Digests : blobs[e] # NoBlob => blobs'[e] # NoBlob
  BY NodeAssumption DEF TInv
<1> QED
  BY <1>1 DEF Kept, WalkOK

LEMMA StoringFiled ==
  ASSUME TInv, NEW p \in Describers,
         LookUpBlob(p) \/ ReadAgain(p) \/ OpenBlob(p) \/ WriteBlob(p)
  PROVE  Filed(p)
<1> DEFINE w == walk[p]
<1>0. w.pc \in Storing
  BY DEF LookUpBlob, ReadAgain, OpenBlob, WriteBlob, Storing
<1>1. /\ WalkOK(w) /\ DOMAIN w = Fields /\ Store /\ w.rec.type = "file" /\ w.rec.data \in Digests
      /\ w.bytes \in Digests
      /\ WithRef(w.rec).data = w.rec.data /\ WithRef(w.rec).content_ref
  BY <1>0, HeldTyped DEF WalkOK
<1>2. Settled => Held(fs, w) /\ Kept(blobs, w)
  BY DEF Settled
<1>3. CASE LookUpBlob(p)
  <2> DEFINE u == Emit(w, WithRef(w.rec))
             v == [w EXCEPT !.pc = "copy"]
  <2>1. blobs[w.rec.data] # NoBlob /\ Settled => Held(fs, u) /\ Kept(blobs, u)
    BY <1>1, <1>2, EmitKept
  <2>2. u.pc = "walk"
    BY <1>1 DEF Emit, NextEntry, Fields
  <2>3. v.pc = "copy" /\ v.files = w.files /\ v.rec = w.rec /\ v.path = w.path
    BY <1>1 DEF Fields
  <2> HIDE DEF v
  <2>4. Settled => Held(fs, v) /\ Kept(blobs, v)
    BY <1>0, <1>2, <2>3 DEF Held, Kept
  <2>5. (blobs[w.rec.data] # NoBlob /\ Become(p, u)) \/ Become(p, v)
    BY <1>3 DEF LookUpBlob, v
  <2> HIDE DEF u, w
  <2> QED
    BY <2>1, <2>2, <2>3, <2>4, <2>5 DEF Filed, Become
<1>4. CASE ReadAgain(p)
  <2> DEFINE got == ReadAll(fs[w.path])
             u == Complain(p, {w.path}, Emit(w, w.rec))
             v == [w EXCEPT !.pc = "open", !.bytes = got]
  <2>1. Settled => got = w.rec.data /\ got # Unreadable
    BY <1>0, <1>1, <1>2, NodeAssumption DEF Held
  <2>2. v.pc = "open" /\ v.files = w.files /\ v.rec = w.rec /\ v.path = w.path /\ v.bytes = got
    BY <1>1 DEF Fields
  <2>3. DOMAIN Emit(w, w.rec) = Fields /\ Emit(w, w.rec).pc = "walk"
    BY <1>1 DEF Emit, NextEntry, Fields
  <2>4. u.pc \in {"done", "walk"}
    BY <1>1, <2>3 DEF Complain, Finished, Fields
  <2>5. (got = Unreadable /\ Become(p, u)) \/ Become(p, v)
    BY <1>4 DEF ReadAgain
  <2> HIDE DEF v, got
  <2>6. Settled => Held(fs, v) /\ Kept(blobs, v)
    BY <1>2, <2>1, <2>2 DEF Held, Kept, got
  <2> HIDE DEF u, w
  <2> QED
    BY <2>1, <2>2, <2>4, <2>5, <2>6 DEF Filed, Become
<1>5. CASE OpenBlob(p)
  <2> DEFINE v == [w EXCEPT !.pc = "write"]
  <2>1. v.pc = "write" /\ v.files = w.files /\ v.rec = w.rec /\ v.path = w.path /\ v.bytes = w.bytes
    BY <1>1 DEF Fields
  <2>2. Put(p, v) /\ blobs' = [blobs EXCEPT ![w.rec.data] = EmptyDigest] /\ w.pc = "open"
    BY <1>5 DEF OpenBlob
  <2> HIDE DEF v
  <2>3. Settled => Kept(blobs', w)
    BY <1>1, <1>2, <2>2, EmptyTyped, KeptOn
  <2>4. Settled => Held(fs, v) /\ Kept(blobs', v)
    BY <1>2, <2>1, <2>2, <2>3 DEF Held, Kept, Storing
  <2> HIDE DEF w
  <2> QED
    BY <2>1, <2>2, <2>4 DEF Filed
<1>6. CASE WriteBlob(p)
  <2> DEFINE u == Emit(w, WithRef(w.rec))
  <2>1. Put(p, u) /\ blobs' = [blobs EXCEPT ![w.rec.data] = w.bytes]
    BY <1>6 DEF WriteBlob
  <2>2. Settled => Kept(blobs', w) /\ blobs'[w.rec.data] # NoBlob
    BY <1>1, <1>2, <2>1, KeptOn
  <2>3. Settled => Held(fs, u) /\ Kept(blobs', u)
    BY <1>1, <2>2, EmitKept
  <2>4. u.pc = "walk"
    BY <1>1 DEF Emit, NextEntry, Fields
  <2> HIDE DEF u
  <2> QED
    BY <2>1, <2>3, <2>4 DEF Filed
<1> QED
  BY <1>3, <1>4, <1>5, <1>6

-----------------------------------------------------------------------------
LEMMA BeginFrame ==
  ASSUME TInv, NEW p \in Describers, NEW rpmdb, NEW n, Begin(p, rpmdb, n)
  PROVE  /\ \A q \in Describers \ {p} : walk'[q] = walk[q] /\ touched'[q] = touched[q]
         /\ walk[p].pc = "idle" /\ walk'[p].pc = "repos" /\ walk'[p].files = walk[p].files
         /\ fs' = fs /\ blobs' = blobs
<1> DEFINE named == Installed(n)
           v == [walk[p] EXCEPT !.pc = "repos", !.rpmdb = rpmdb, !.packages = named]
<1>1. DOMAIN walk = Describers /\ DOMAIN touched = Describers /\ DOMAIN walk[p] = Fields
  BY DEF TInv, WalkOK
<1>2. walk' = [walk EXCEPT ![p] = v] /\ touched' = [touched EXCEPT ![p] = {}]
  BY DEF Begin
<1>3. walk[p].pc = "idle" /\ fs' = fs /\ blobs' = blobs
  BY DEF Begin
<1> HIDE DEF named
<1>4. v.pc = "repos" /\ v.files = walk[p].files
  BY <1>1 DEF Fields
<1> HIDE DEF v
<1> QED
  BY <1>1, <1>2, <1>3, <1>4

(* A step changes the state of one describer, and the store only by these three. *)
LEMMA StepFrame ==
  ASSUME TInv, NEW p \in Describers, Step(p)
  PROVE  /\ \A q \in Describers \ {p} : walk'[q] = walk[q]
         /\ mishaps' \in {mishaps, mishaps + 1}
         /\ OpenBlob(p) \/ WriteBlob(p) \/ StoreFails(p) \/ (blobs' = blobs /\ walk[p].pc # "write")
<1>1. ASSUME NEW w, Put(p, w) PROVE \A q \in Describers \ {p} : walk'[q] = walk[q]
  BY <1>1 DEF Put, TInv
<1>2. ASSUME ReadRepositories(p) \/ OpenDir(p) \/ Stat(p) \/ TreeDone(p)
      PROVE  walk[p].pc # "write" /\ \E w : Become(p, w)
  <2>1. ReadRepositories(p) => walk[p].pc = "repos" /\ \E w : Become(p, w)
    BY DEF ReadRepositories
  <2>2. OpenDir(p) => walk[p].pc = "walk" /\ \E w : Become(p, w)
    BY DEF OpenDir
  <2>3. Stat(p) => walk[p].pc = "walk" /\ \E w : Become(p, w)
    BY DEF Stat
  <2>4. TreeDone(p) => walk[p].pc = "walk" /\ \E w : Become(p, w)
    BY DEF TreeDone
  <2> QED
    BY <1>2, <2>1, <2>2, <2>3, <2>4
<1>3. ASSUME Read(p) \/ Judge(p) \/ Scan(p) \/ LookUpBlob(p) \/ ReadAgain(p)
      PROVE  walk[p].pc # "write" /\ \E w : Become(p, w)
  <2>1. Read(p) => walk[p].pc = "read" /\ \E w : Become(p, w)
    BY DEF Read
  <2>2. Judge(p) => walk[p].pc = "judge" /\ \E w : Become(p, w)
    BY DEF Judge
  <2>3. Scan(p) => walk[p].pc = "read" /\ \E w : Become(p, w)
    BY DEF Scan
  <2>4. LookUpBlob(p) => walk[p].pc = "store" /\ \E w : Become(p, w)
    BY DEF LookUpBlob
  <2>5. ReadAgain(p) => walk[p].pc = "copy" /\ \E w : Become(p, w)
    BY DEF ReadAgain
  <2> QED
    BY <1>3, <2>1, <2>2, <2>3, <2>4, <2>5
<1>4. CASE \E w : Become(p, w) /\ walk[p].pc # "write"
  BY <1>1, <1>4 DEF Become
<1>5. CASE ReadServices(p) \/ SystemctlFails(p)
  <2>1. PICK n : ListUnits(p, n)
    BY <1>5 DEF ReadServices, SystemctlFails
  <2>2. mishaps' \in {mishaps, mishaps + 1}
    BY <1>5 DEF ReadServices, SystemctlFails
  <2>3. walk[p].pc = "services" /\ blobs' = blobs
    BY <2>1, UnitsListed
  <2>4. PICK s : Put(p, [NextEntry(walk[p]) EXCEPT !.stack = {EtcDir}, !.services = s])
    BY <2>1, UnitsListed
  <2>5. \A q \in Describers \ {p} : walk'[q] = walk[q]
    BY <1>1, <2>4
  <2> QED
    BY <2>2, <2>3, <2>5
<1>6. CASE OpenBlob(p) \/ WriteBlob(p) \/ StoreFails(p)
  <2>1. mishaps' \in {mishaps, mishaps + 1}
    BY <1>6 DEF OpenBlob, WriteBlob, StoreFails
  <2>2. OpenBlob(p) => \E w : Put(p, w)
    BY DEF OpenBlob
  <2>3. WriteBlob(p) => \E w : Put(p, w)
    BY DEF WriteBlob
  <2>4. StoreFails(p) => \E w : Put(p, w)
    BY DEF StoreFails
  <2>5. \A q \in Describers \ {p} : walk'[q] = walk[q]
    BY <1>1, <1>6, <2>2, <2>3, <2>4
  <2>6. OpenBlob(p) \/ WriteBlob(p) \/ StoreFails(p) \/ (blobs' = blobs /\ walk[p].pc # "write")
    BY <1>6
  <2> QED
    BY <2>1, <2>5, <2>6
<1> QED
  BY <1>2, <1>3, <1>4, <1>5, <1>6 DEF Step

(* A run that is undisturbed was so before; what happened was no mishap, and an   *)
(* edit came before the first describer started.                              *)
LEMMA Undisturbed ==
  ASSUME TInv, mishaps \in Nat, Next, Pure'
  PROVE  /\ Pure
         /\ \/ UNCHANGED <<blobs, walk>> /\ (fs' = fs \/ \A p \in Describers : walk[p].pc = "idle")
            \/ \E p \in Describers : Start(p) \/ (Step(p) /\ Filed(p) /\ mishaps' = mishaps)
<1>1. CASE Edit \/ Restrict
  <2>1. PICK paths \in SUBSET Leaves : Touch(paths)
    BY <1>1 DEF Edit, Restrict
  <2>2. walk' = walk /\ mishaps' = mishaps /\ blobs' = blobs
    BY <2>1 DEF Touch
  <2>3. \A p \in Describers : touched[p] \subseteq touched'[p]
    BY <2>1 DEF Touch
  <2>4. Pure
    BY <2>2, <2>3 DEF Pure
  <2>5. ASSUME Edit PROVE \A p \in Describers : walk[p].pc = "idle"
    <3>1. PICK x \in Leaves : Touch({x})
      BY <2>5 DEF Edit
    <3>2. \A p \in Describers : x \in touched'[p]
      BY <3>1 DEF Touch
    <3> QED
      BY <2>2, <3>2 DEF Pure
  <2>6. Restrict => fs' = fs
    BY DEF Restrict
  <2> QED
    BY <1>1, <2>2, <2>4, <2>5, <2>6
<1>2. CASE \E p \in Describers : Start(p) \/ StartBadly(p) \/ Step(p) \/ Kill(p)
  <2>1. PICK p \in Describers : Start(p) \/ StartBadly(p) \/ Step(p) \/ Kill(p)
    BY <1>2
  <2>2. mishaps' \in {mishaps, mishaps + 1}
    BY <2>1, StepFrame DEF Start, StartBadly, Kill
  <2>3. mishaps = 0 /\ mishaps' = mishaps
    BY <2>2 DEF Pure
  <2>4. ~StartBadly(p) /\ ~SystemctlFails(p) /\ ~StoreFails(p) /\ ~Kill(p)
    BY <2>3 DEF StartBadly, SystemctlFails, StoreFails, Kill
  <2>5. CASE Start(p)
    <3>1. \A q \in Describers : \/ walk[q].pc = "idle"
                                \/ walk'[q] = walk[q] /\ touched'[q] = touched[q]
      BY <2>5, BeginFrame DEF Start
    <3>2. Pure
      BY <2>3, <3>1 DEF Pure
    <3> QED
      BY <2>5, <3>2
  <2>6. CASE Step(p)
    <3>1. Filed(p)
      BY <2>4, <2>6, StepsAside, AsideFiled, ReadFiled, JudgeFiled, StoringFiled DEF Step
    <3>2. PICK w : Put(p, w) /\ w.pc # "idle"
      BY <3>1 DEF Filed
    <3>3. touched' = touched /\ walk'[p] = w /\ \A q \in Describers \ {p} : walk'[q] = walk[q]
      BY <3>2 DEF Put, TInv
    <3>4. Pure
      BY <2>3, <3>2, <3>3 DEF Pure
    <3> QED
      BY <2>3, <2>6, <3>1, <3>4
  <2> QED
    BY <2>1, <2>4, <2>5, <2>6
<1> QED
  BY <1>1, <1>2 DEF Next

(* The one who opened a blob writes it. *)
LEMMA SoundOn ==
  ASSUME TInv, Settled, NEW p \in Describers, Step(p), mishaps' = mishaps, mishaps \in Nat
  PROVE  Sound(blobs, walk)'
<1> SUFFICES ASSUME NEW d \in Digests
             PROVE  \/ blobs'[d] \in {NoBlob, d}
                    \/ \E q \in Describers : walk'[q].pc = "write" /\ walk'[q].rec.data = d
  BY DEF Sound
<1>0. DOMAIN walk[p] = Fields /\ DOMAIN walk = Describers
  BY DEF TInv, WalkOK
<1>1. \A q \in Describers \ {p} : walk'[q] = walk[q]
  BY StepFrame
<1>2. \/ blobs[d] \in {NoBlob, d}
      \/ \E q \in Describers : walk[q].pc = "write" /\ walk[q].rec.data = d
  BY DEF Settled, Sound
<1>3. CASE OpenBlob(p)
  <2> DEFINE v == [walk[p] EXCEPT !.pc = "write"]
  <2>1. v.pc = "write" /\ v.rec = walk[p].rec
    BY <1>0 DEF Fields
  <2>2. walk'[p] = v /\ blobs' = [blobs EXCEPT ![walk[p].rec.data] = EmptyDigest]
    BY <1>0, <1>3 DEF OpenBlob, Put
  <2>3. walk[p].pc = "open"
    BY <1>3 DEF OpenBlob
  <2> HIDE DEF v
  <2>4. CASE d = walk[p].rec.data
    BY <2>1, <2>2, <2>4
  <2>5. CASE d # walk[p].rec.data
    <3>1. blobs'[d] = blobs[d]
      BY <2>2, <2>5 DEF TInv
    <3> QED
      BY <1>1, <1>2, <2>3, <3>1
  <2> QED
    BY <2>4, <2>5
<1>4. CASE WriteBlob(p)
  <2>1. walk[p].pc = "write" /\ blobs' = [blobs EXCEPT ![walk[p].rec.data] = walk[p].bytes]
    BY <1>4 DEF WriteBlob
  <2>2. walk[p].bytes = walk[p].rec.data
    BY <2>1 DEF Settled, Held
  <2>3. CASE d = walk[p].rec.data
    BY <2>1, <2>2, <2>3 DEF TInv
  <2>4. CASE d # walk[p].rec.data
    <3>1. blobs'[d] = blobs[d]
      BY <2>1, <2>4 DEF TInv
    <3> QED
      BY <1>1, <1>2, <2>4, <3>1
  <2> QED
    BY <2>3, <2>4
<1>5. CASE ~OpenBlob(p) /\ ~WriteBlob(p)
  <2>1. ~StoreFails(p)
    BY DEF StoreFails
  <2>2. blobs' = blobs /\ walk[p].pc # "write"
    BY <1>5, <2>1, StepFrame
  <2> QED
    BY <1>1, <1>2, <2>2
<1> QED
  BY <1>3, <1>4, <1>5

LEMMA SInvInductive ==
  /\ Init => SInv
  /\ SInv /\ [Next]_vars => SInv'
<1>1. ASSUME Init PROVE SInv
  <2>1. TInv /\ mishaps = 0
    BY <1>1, TInvInductive DEF Init
  <2>2. \A p \in Describers : Held(fs, walk[p]) /\ Kept(blobs, walk[p])
    BY <1>1 DEF Init, Idle, Held, Kept, Storing
  <2>3. Sound(blobs, walk)
    BY <1>1 DEF Init, Sound
  <2> QED
    BY <2>1, <2>2, <2>3 DEF SInv, Settled
<1>2. ASSUME SInv, Next PROVE SInv'
  <2>1. TInv /\ TInv' /\ mishaps \in Nat
    BY <1>2, TInvInductive DEF SInv
  <2>2. mishaps' \in Nat
    <3>1. mishaps' \in {mishaps, mishaps + 1}
      BY <1>2, <2>1, StepFrame DEF Next, Edit, Restrict, Touch, Start, StartBadly, Kill
    <3> QED
      BY <2>1, <3>1
  <2>3. ASSUME Pure' PROVE Settled'
    <3>1. Settled
      BY <1>2, <2>1, <2>3, Undisturbed DEF SInv
    <3>2. CASE UNCHANGED <<blobs, walk>> /\ (fs' = fs \/ \A p \in Describers : walk[p].pc = "idle")
      <4>1. \A p \in Describers : Held(fs', walk[p])
        BY <3>1, <3>2 DEF Settled, Held, Storing
      <4> QED
        BY <3>1, <3>2, <4>1 DEF Settled
    <3>3. ASSUME NEW p \in Describers, Start(p) PROVE Settled'
      <4>1. \A q \in Describers : /\ walk'[q].files = walk[q].files
                                  /\ \/ walk'[q] = walk[q]
                                     \/ walk[q].pc = "idle" /\ walk'[q].pc = "repos"
        BY <2>1, <3>3, BeginFrame DEF Start
      <4>2. fs' = fs /\ blobs' = blobs
        BY <2>1, <3>3, BeginFrame DEF Start
      <4>3. \A q \in Describers : Held(fs, walk'[q]) /\ Kept(blobs, walk'[q])
        BY <3>1, <4>1 DEF Settled, Held, Kept, Storing
      <4>4. Sound(blobs, walk')
        BY <3>1, <4>1 DEF Settled, Sound
      <4> QED
        BY <4>2, <4>3, <4>4 DEF Settled
    <3>4. ASSUME NEW p \in Describers, Filed(p), Step(p), mishaps' = mishaps PROVE Settled'
      <4>1. PICK w : Put(p, w) /\ Held(fs, w) /\ Kept(blobs', w)
        BY <3>1, <3>4 DEF Filed
      <4>2. fs' = fs /\ walk'[p] = w /\ \A q \in Describers \ {p} : walk'[q] = walk[q]
        BY <2>1, <4>1 DEF Put, TInv
      <4>3. ASSUME NEW q \in Describers \ {p} PROVE Kept(blobs', walk[q])
        <5>1. WalkOK(walk[q]) /\ WalkOK(walk[p]) /\ Kept(blobs, walk[q])
          BY <2>1, <3>1 DEF TInv, Settled
        <5>2. CASE OpenBlob(p)
          <6>1. walk[p].rec.data \in Digests
            BY <2>1, <5>2, HeldTyped DEF OpenBlob, Storing
          <6>2. blobs' = [blobs EXCEPT ![walk[p].rec.data] = EmptyDigest]
            BY <5>2 DEF OpenBlob
          <6> QED
            BY <2>1, <5>1, <6>1, <6>2, EmptyTyped, KeptOn
        <5>3. CASE WriteBlob(p)
          <6>1. walk[p].rec.data \in Digests /\ walk[p].bytes \in Digests
            BY <2>1, <5>1, <5>3, HeldTyped DEF WriteBlob, Storing, WalkOK
          <6>2. blobs' = [blobs EXCEPT ![walk[p].rec.data] = walk[p].bytes]
            BY <5>3 DEF WriteBlob
          <6> QED
            BY <2>1, <5>1, <6>1, <6>2, KeptOn
        <5>4. CASE ~OpenBlob(p) /\ ~WriteBlob(p)
          BY <2>1, <3>4, <5>1, <5>4, StepFrame DEF StoreFails
        <5> QED
          BY <5>2, <5>3, <5>4
      <4>4. \A q \in Describers : Held(fs, walk'[q]) /\ Kept(blobs', walk'[q])
        BY <3>1, <4>1, <4>2, <4>3 DEF Settled
      <4> QED
        BY <2>1, <3>1, <3>4, <4>2, <4>4, SoundOn DEF Settled
    <3> QED
      BY <1>2, <2>1, <2>3, <3>2, <3>3, <3>4, Undisturbed
  <2> QED
    BY <2>1, <2>2, <2>3 DEF SInv
<1>3. ASSUME SInv, UNCHANGED vars PROVE SInv'
  BY <1>3, TInvInductive DEF SInv, Pure, Settled, Held, Kept, Sound, vars
<1> QED
  BY <1>1, <1>2, <1>3

(* maybe_store_content: however many describers fill one store, in whatever       *)
(* order they look a blob up, open it and write it, in the end each reference     *)
(* leads to the content with its digest and every file has one, provided nobody   *)
(* was killed, nothing was edited under them and the store took what it was given. *)
THEOREM StoreFilled == Spec => []StoreComplete
<1>1. SInv => StoreComplete
  <2> SUFFICES ASSUME SInv, Quiet, mishaps = 0,
                      \A p \in Describers : walk[p].pc = "done" => touched[p] = {},
                      NEW p \in Describers
               PROVE  /\ Stored(p)
                      /\ Store => \A r \in walk[p].files : r.type = "file" => r.content_ref
    BY DEF StoreComplete
  <2>1. \A q \in Describers : walk[q].pc \in {"idle", "done"}
    BY DEF Quiet, Alive
  <2>2. Settled
    BY <2>1 DEF SInv, Pure
  <2>3. \A d \in Digests : blobs[d] \in {NoBlob, d}
    BY <2>1, <2>2 DEF Settled, Sound
  <2>4. \A r \in walk[p].files : r.content_ref => r.data \in Digests
    BY DEF SInv, TInv, WalkOK
  <2> QED
    BY <2>2, <2>3, <2>4 DEF Settled, Kept, Stored
<1> QED
  BY <1>1, SInvInductive, PTL DEF Spec
=============================================================================
