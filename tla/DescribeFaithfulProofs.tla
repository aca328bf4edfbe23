------------------------- MODULE DescribeFaithfulProofs -------------------------
(***************************************************************************)
(* Over any tree of directories, for any packages, edits, restrictions and     *)
(* kills: what a successful description says of a path that nobody edited      *)
(* meanwhile is what is there.                                              *)
(*                                                                         *)
(* The invariant follows one path.  What is on the stack or among the entries   *)
(* above it was reached lawfully (soundness), and if the path has to be in the   *)
(* description, then something above it, or the path itself, still waits, or it  *)
(* is there already (completeness).                                         *)
(*                                                                         *)
(* The last part is about the packages, repositories and units.  That the       *)
(* parser finds in a .repo file of any length what the file declares is shown   *)
(* without induction over data: the state of the parser after n lines is a     *)
(* function of n, of which a least counterexample would have a predecessor.    *)
(***************************************************************************)
EXTENDS DescribeProofs, WellFoundedInduction

-----------------------------------------------------------------------------
(* The tree *)

Closed(x, S) == S \subseteq Dirs /\ Upward(S) /\ (x \in DOMAIN Parent => Parent[x] \in S)

LEMMA AboveIn ==
  ASSUME NEW x \in Dirs \cup Leaves
  PROVE  /\ Above[x] \subseteq Dirs
         /\ \A S : Closed(x, S) => Above[x] \subseteq S
BY DEF Above, Closed

LEMMA AboveClosed ==
  ASSUME NEW x \in Dirs \cup Leaves PROVE Closed(x, Above[x])
<1>1. Above[x] \subseteq Dirs
  BY AboveIn
<1>2. ASSUME NEW d \in Above[x] \cap DOMAIN Parent PROVE Parent[d] \in Above[x]
  <2>1. Parent[d] \in Dirs
    BY NodeAssumption
  <2>2. \A S \in SUBSET Dirs :
          Upward(S) /\ (x \in DOMAIN Parent => Parent[x] \in S) => Parent[d] \in S
    <3> SUFFICES ASSUME NEW S \in SUBSET Dirs, Closed(x, S) PROVE Parent[d] \in S
      BY DEF Closed
    <3>1. d \in S
      BY AboveIn
    <3> QED
      BY <3>1 DEF Closed, Upward
  <2> QED
    BY <2>1, <2>2 DEF Above
<1>3. x \in DOMAIN Parent => Parent[x] \in Above[x]
  BY NodeAssumption DEF Above
<1> QED
  BY <1>1, <1>2, <1>3 DEF Closed, Upward

(* What is above a path: its directory and what is above that. *)
LEMMA AboveParent ==
  ASSUME NEW x \in Dirs \cup Leaves
  PROVE  /\ x \in DOMAIN Parent => Above[x] = {Parent[x]} \cup Above[Parent[x]]
         /\ x \notin DOMAIN Parent => Above[x] = {}
<1>1. ASSUME x \in DOMAIN Parent PROVE Above[x] = {Parent[x]} \cup Above[Parent[x]]
  <2> DEFINE d == Parent[x]
             S == {d} \cup Above[d]
  <2>1. d \in Dirs
    BY <1>1, NodeAssumption
  <2>2. Closed(d, Above[d]) /\ Closed(x, Above[x])
    BY <2>1, AboveClosed
  <2>3. Closed(x, S)
    BY <2>1, <2>2 DEF Closed, Upward
  <2>4. d \in Above[x] /\ Closed(d, Above[x])
    BY <1>1, <2>2 DEF Closed, Upward
  <2>5. Above[x] \subseteq S
    BY <2>3, AboveIn
  <2>6. Above[d] \subseteq Above[x]
    BY <2>1, <2>4, AboveIn
  <2> QED
    BY <2>4, <2>5, <2>6
<1>2. ASSUME x \notin DOMAIN Parent PROVE Above[x] = {}
  <2>1. Closed(x, {})
    BY <1>2 DEF Closed, Upward
  <2> QED
    BY <2>1, AboveIn
<1> QED
  BY <1>1, <1>2

LEMMA AboveTransitive ==
  ASSUME NEW x \in Dirs \cup Leaves, NEW d \in Above[x]
  PROVE  d \in Dirs /\ Above[d] \subseteq Above[x]
<1>1. d \in Dirs /\ Closed(x, Above[x])
  BY AboveIn, AboveClosed
<1>2. Closed(d, Above[x])
  BY <1>1 DEF Closed, Upward
<1> QED
  BY <1>1, <1>2, AboveIn

(* Below a directory that is above a path, the path or another such directory is. *)
LEMMA ChildBelow ==
  ASSUME NEW x \in Dirs \cup Leaves, NEW d \in Above[x]
  PROVE  \E y \in {x} \cup Above[x] : y \in DOMAIN Parent /\ Parent[y] = d
<1> DEFINE S == {e \in Above[x] : \E y \in {x} \cup Above[x] : y \in DOMAIN Parent /\ Parent[y] = e}
<1>1. Closed(x, Above[x])
  BY AboveClosed
<1>2. Closed(x, S)
  BY <1>1 DEF Closed, Upward
<1>3. Above[x] \subseteq S
  BY <1>2, AboveIn
<1> QED
  BY <1>3

(* There is one top above a path. *)
LEMMA OneTop ==
  ASSUME NEW x \in Dirs \cup Leaves, NEW a \in Above[x], NEW b \in Above[x],
         a \notin DOMAIN Parent, b \notin DOMAIN Parent
  PROVE  a = b
<1> DEFINE S == {d \in Above[x] : a = d \/ a \in Above[d]}
<1>1. Closed(x, Above[x]) /\ \A d \in Above[x] : d \in Dirs
  BY AboveClosed, AboveIn
<1>2. ASSUME NEW y \in {x} \cup Above[x], y \in DOMAIN Parent, y = x \/ a = y \/ a \in Above[y]
      PROVE  Parent[y] \in S
  <2>1. a \in Above[y]
    BY <1>2
  <2>2. a = Parent[y] \/ a \in Above[Parent[y]]
    BY <1>1, <1>2, <2>1, AboveParent
  <2>3. Parent[y] \in Above[x]
    BY <1>1, <1>2 DEF Closed, Upward
  <2> QED
    BY <2>2, <2>3
<1>3. Closed(x, S)
  BY <1>1, <1>2 DEF Closed, Upward
<1>4. b \in S
  BY <1>3, AboveIn
<1>5. Above[b] = {}
  BY <1>1, AboveParent
<1> QED
  BY <1>4, <1>5

-----------------------------------------------------------------------------
(* The judgement *)

LEMMA LeastOf ==
  ASSUME NEW S, S \subseteq Nat, S # {} PROVE \E m \in S : \A k \in S : m <= k
<1> DEFINE R == {ss \in Nat \X Nat : ss[1] < ss[2]}
<1>1. IsWellFoundedOn(R, Nat)
  BY NatLessThanWellFounded DEF OpToRel
<1>2. \E m \in S : \A k \in S : <<k, m>> \notin R
  <2> HIDE DEF R
  <2> QED
    BY <1>1, WFMin
<1>3. \A k, m \in S : <<k, m>> \notin R => ~(k < m)
  OBVIOUS
<1>4. \A k, m \in S : ~(k < m) => m <= k
  OBVIOUS
<1> QED
  BY <1>2, <1>3, <1>4

(* A provider with a negative priority would never be chosen. *)
NaturalPriorities ==
  \A l \in DOMAIN Providers :
    /\ DOMAIN Providers[l] \subseteq Nat
    /\ \A i \in DOMAIN Providers[l] : Providers[l][i].priority \in Nat

(* alternatives_auto_target is the best provider. *)
LEMMA AutoIsBest ==
  ASSUME NaturalPriorities, NEW l \in DOMAIN Providers, NEW t, t # NoTarget
  PROVE  AutoTarget(l) = t <=>
           \E i \in DOMAIN Providers[l] : Best(Providers[l], i) /\ Providers[l][i].target = t
<1> DEFINE ps == Providers[l]
           best == {i \in DOMAIN ps : /\ ps[i].priority >= 0
                                      /\ \A j \in DOMAIN ps : ps[j].priority <= ps[i].priority}
           P(i) == i \in best /\ \A j \in best : i <= j
           k == CHOOSE i : P(i)
<1>1. DOMAIN ps \subseteq Nat /\ \A i \in DOMAIN ps : ps[i].priority \in Nat
  BY DEF NaturalPriorities
<1>2. best \subseteq DOMAIN ps /\ best \subseteq Nat
  BY <1>1
<1>3. AutoTarget(l) = IF best = {} THEN NoTarget ELSE ps[k].target
  BY DEF AutoTarget
<1>4. best # {} => P(k)
  <2> HIDE DEF best
  <2>1. best # {} => \E i : P(i)
    BY <1>2, LeastOf
  <2> QED
    BY <2>1
<1>5. ASSUME NEW i \in DOMAIN ps PROVE P(i) <=> Best(ps, i)
  BY <1>1, <1>5 DEF Best
<1>6. \A i, j : P(i) /\ P(j) => i = j
  BY <1>2
<1> HIDE DEF P, best
<1>7. ASSUME NEW i \in DOMAIN ps, Best(ps, i) PROVE i = k /\ best # {}
  BY <1>4, <1>5, <1>6, <1>7 DEF P
<1>8. best # {} => k \in DOMAIN ps /\ Best(ps, k)
  BY <1>2, <1>4, <1>5 DEF P
<1> HIDE DEF k
<1> QED
  BY <1>3, <1>7, <1>8

(* judge_etc_entry emits what a fresh install would not put there. *)
LEMMA JudgedRight ==
  ASSUME NaturalPriorities, NEW w, NEW x \in Leaves, NEW n \in Nodes, Regular(n)
  PROVE  Differs(RecordOf(x, n, n.data), BaselineFor(w, x), n) <=> ~Reproduced(w, x, n)
<1> DEFINE base == BaselineFor(w, x)
           rec == RecordOf(x, n, n.data)
<1>1. /\ rec.name = x /\ rec.type = n.type /\ rec.data = n.data /\ rec.mode = n.mode
      /\ rec.owner = n.owner
  BY DEF RecordOf
<1>2. n.type \in {"file", "link"} /\ n # NoNode
  BY DEF Regular
<1>3. CASE base = NoBaseline
  BY <1>3 DEF Differs, Reproduced
<1>4. CASE base # NoBaseline /\ n.type = "link"
  <2>1. n.data # NoTarget
    BY <1>4, NodeAssumption
  <2>2. x \in DOMAIN Providers =>
          (AutoTarget(x) = n.data <=>
             \E i \in DOMAIN Providers[x] : Best(Providers[x], i) /\ Providers[x][i].target = n.data)
    BY <2>1, AutoIsBest
  <2> HIDE DEF base, rec
  <2>3. Differs(rec, base, n) <=> IF x \in DOMAIN Providers THEN AutoTarget(x) # n.data
                                  ELSE ~(base.type = "link" /\ base.data = n.data)
    BY <1>1, <1>4 DEF Differs
  <2>4. Reproduced(w, x, n) <=>
          IF x \in DOMAIN Providers
          THEN \E i \in DOMAIN Providers[x] : Best(Providers[x], i) /\ Providers[x][i].target = n.data
          ELSE base.type = "link" /\ base.data = n.data
    BY <1>4 DEF Reproduced, base
  <2> QED
    BY <2>2, <2>3, <2>4 DEF base, rec
<1>5. CASE base # NoBaseline /\ n.type = "file"
  <2>1. base.type \in {"file", "link", "dir"}
    BY <1>5, NodeAssumption DEF BaselineFor
  <2>2. Empty(n) <=> n.data = EmptyDigest
    BY <1>2, <1>5 DEF Empty
  <2> HIDE DEF base, rec
  <2>3. Reproduced(w, x, n) <=>
          IF base.ghost THEN n.data = EmptyDigest
          ELSE <<base.type, base.data, base.mode, base.owner>>
                 = <<"file", n.data, n.mode, n.owner>>
    BY <1>5 DEF Reproduced, base
  <2>4. Differs(rec, base, n) <=>
          IF base.ghost THEN ~Empty(n)
          ELSE \/ base.type \in {"link", "dir"}
               \/ <<n.data, n.mode, n.owner>> # <<base.data, base.mode, base.owner>>
    BY <1>1, <1>5 DEF Differs
  <2> QED
    BY <2>1, <2>2, <2>3, <2>4 DEF base, rec
<1> QED
  BY <1>2, <1>3, <1>4, <1>5

(* The full scan compares the type, the content or target, and a file's mode. *)
Altered(base, n) ==
  \/ n.type # base.type
  \/ base.data # NoDigest /\ n.data # base.data
  \/ n.type = "file" /\ n.mode # base.mode

LEMMA ComparedRight ==
  ASSUME NEW w, NEW x \in Leaves, NEW n \in Nodes, Regular(n), BaselineFor(w, x) # NoBaseline
  PROVE  Changes(RecordOf(x, n, n.data), BaselineFor(w, x)) <=> Altered(BaselineFor(w, x), n)
<1> DEFINE base == BaselineFor(w, x)
           rec == RecordOf(x, n, n.data)
<1>1. rec.type = n.type /\ rec.data = n.data /\ rec.mode = n.mode
  BY DEF RecordOf
<1>2. n.type \in {"file", "link"}
  BY DEF Regular
<1>3. base.type \in {"file", "link", "dir"} /\ (base.type = "link" => base.data # NoDigest)
  BY NodeAssumption DEF BaselineFor
<1> HIDE DEF base, rec
<1> QED
  BY <1>1, <1>2, <1>3 DEF Changes, Altered, base, rec

-----------------------------------------------------------------------------
(* The invariant *)

Tops(w) == IF w.phase = "scan" THEN ScanDirs ELSE {EtcDir}

AtEntry == {"read", "judge"} \cup Storing

(* The walk of the trees below tops comes to y. *)
Way(tops, y) ==
  /\ \E top \in tops : top = y \/ top \in Above[y]
  /\ \A d \in Above[y] : access[d] = "ok" /\ (d \in tops \/ d \notin KeepList)

Candidate(x) == Visible(x, EtcDir) /\ x # Syncpoint /\ Regular(fs[x])
ScanCandidate(x) == \E top \in ScanDirs : Visible(x, top) /\ Regular(fs[x])

(* What waits on the way to x was reached lawfully. *)
OnTheWay(w, x) ==
  /\ \A y \in w.stack \cap ({x} \cup Above[x]) :
       Way(Tops(w), y) /\ (y \in Tops(w) \/ y \notin KeepList)
  /\ \A y \in w.todo \cap ({x} \cup Above[x]) : y \in DOMAIN Parent /\ Way(Tops(w), y)

(* A describer that is at x was right to come, and has what is there. *)
AtHand(w, x) ==
  w.pc \in AtEntry /\ w.path = x =>
    /\ Way(Tops(w), x) /\ x \notin KeepList /\ (w.phase = "etc" => x # Syncpoint)
    /\ w.seen = fs[x] /\ Regular(fs[x])
    /\ w.pc # "read" =>
         w.phase = "etc" /\ Legible(fs[x]) /\ w.rec = RecordOf(x, fs[x], fs[x].data)
    /\ w.pc \in Storing => ~Reproduced(w, x, fs[x])

Waiting(w, x) ==
  /\ w.result = "none"
  /\ \/ \E y \in {x} \cup Above[x] : y \in w.stack \cup w.todo
     \/ w.pc \in AtEntry /\ w.path = x

EtcSound(w, x) ==
  \A r \in w.files : r.name = x =>
    /\ Candidate(x) /\ Legible(fs[x]) /\ ~Reproduced(w, x, fs[x])
    /\ r = [RecordOf(x, fs[x], fs[x].data) EXCEPT !.content_ref = r.content_ref]

EtcComplete(w, x) ==
  Candidate(x) =>
    \/ w.phase = "etc" /\ Waiting(w, x)
    \/ IF Legible(fs[x]) THEN Reproduced(w, x, fs[x]) \/ x \in NamesIn(w.files)
       ELSE x \in w.diagnostics

ScanSound(w, x) ==
  /\ \A r \in w.unmanaged : r.name = x => ScanCandidate(x) /\ BaselineFor(w, x) = NoBaseline
  /\ \A r \in w.changed : r.name = x =>
       BaselineFor(w, x) # NoBaseline /\ (Legible(fs[x]) => Altered(BaselineFor(w, x), fs[x]))

ScanComplete(w, x) ==
  w.phase = "scan" /\ ScanCandidate(x) =>
    \/ Waiting(w, x)
    \/ IF BaselineFor(w, x) = NoBaseline THEN x \in NamesIn(w.unmanaged)
       ELSE Legible(fs[x]) /\ Altered(BaselineFor(w, x), fs[x]) => x \in NamesIn(w.changed)

Tracked(w, x) ==
  /\ OnTheWay(w, x) /\ AtHand(w, x)
  /\ EtcSound(w, x) /\ EtcComplete(w, x) /\ ScanSound(w, x) /\ ScanComplete(w, x)

Fresh(w) ==
  /\ w.phase = "etc" /\ w.stack = {} /\ w.todo = {}
  /\ w.files = {} /\ w.changed = {} /\ w.unmanaged = {}

Walking(w) == w.pc \in {"walk"} \cup AtEntry \/ w.result = "ok"

Following(w, paths) ==
  /\ w.pc \in {"idle", "repos", "services"} => Fresh(w)
  /\ Walking(w) => \A x \in paths : Tracked(w, x)
  /\ w.result = "ok" /\ Full => w.phase = "scan"

FInv == TInv /\ \A p \in Describers : Following(walk[p], Leaves \ touched[p])

(* The package database that a describer found does not change under it. *)
LEMMA SameBaseline ==
  ASSUME NEW w, NEW v, v.rpmdb = w.rpmdb, NEW x
  PROVE  /\ BaselineFor(v, x) = BaselineFor(w, x)
         /\ \A n : Reproduced(v, x, n) <=> Reproduced(w, x, n)
<1>1. BaselineFor(v, x) = BaselineFor(w, x)
  BY DEF BaselineFor
<1> QED
  BY <1>1 DEF Reproduced

SameOf(x, S, R) == \A r : r.name = x => (r \in S <=> r \in R)

Due(w, x) == IF w.phase = "etc" THEN Candidate(x) ELSE ScanCandidate(x)

(* A step that decides nothing about x. *)
LEMMA Carry ==
  ASSUME NEW w, NEW v, NEW x, Tracked(w, x), w.phase \in {"etc", "scan"},
         v.rpmdb = w.rpmdb, v.phase = w.phase, w.diagnostics \subseteq v.diagnostics,
         SameOf(x, v.files, w.files), SameOf(x, v.unmanaged, w.unmanaged),
         SameOf(x, v.changed, w.changed),
         OnTheWay(v, x), AtHand(v, x),
         Due(w, x) /\ Waiting(w, x) => Waiting(v, x)
  PROVE  Tracked(v, x)
<1>1. /\ BaselineFor(v, x) = BaselineFor(w, x)
      /\ Reproduced(v, x, fs[x]) <=> Reproduced(w, x, fs[x])
  BY SameBaseline
<1>2. EtcSound(v, x)
  BY <1>1 DEF Tracked, EtcSound, SameOf
<1>3. x \in NamesIn(w.files) => x \in NamesIn(v.files)
  BY DEF NamesIn, SameOf
<1>4. EtcComplete(v, x)
  BY <1>1, <1>3 DEF Tracked, EtcComplete, Due
<1>5. ScanSound(v, x)
  BY <1>1 DEF Tracked, ScanSound, SameOf
<1>6. /\ x \in NamesIn(w.unmanaged) => x \in NamesIn(v.unmanaged)
      /\ x \in NamesIn(w.changed) => x \in NamesIn(v.changed)
  BY DEF NamesIn, SameOf
<1>7. ScanComplete(v, x)
  BY <1>1, <1>6 DEF Tracked, ScanComplete, Due
<1> QED
  BY <1>2, <1>4, <1>5, <1>7 DEF Tracked

LEMMA StoppedFollowing ==
  ASSUME NEW w, w.pc = "done", w.result \in {"error", "killed"}, NEW paths
  PROVE  Following(w, paths)
BY DEF Following, Walking, AtEntry, Storing

Followed(p) == \E w : Put(p, w) /\ Following(w, Leaves \ touched[p])

(* Under the strict policy what is unreadable ends the walk. *)
LEMMA ComplainFollowing ==
  ASSUME TInv, NEW p \in Describers, NEW sources, NEW w, NEW paths, DOMAIN w = Fields,
         Following([w EXCEPT !.diagnostics = @ \cup sources], paths)
  PROVE  Following(Complain(p, sources, w), paths)
<1>1. DOMAIN walk[p] = Fields
  BY DEF TInv, WalkOK
<1>2. Following(Finished(walk[p], "error"), paths)
  <2>1. Finished(walk[p], "error").pc = "done" /\ Finished(walk[p], "error").result = "error"
    BY <1>1 DEF Finished, Fields
  <2> QED
    BY <2>1, StoppedFollowing
<1> QED
  BY <1>2 DEF Complain

-----------------------------------------------------------------------------
(* The scopes before the files *)

LEMMA ScopesFollow ==
  ASSUME TInv, NEW p \in Describers, Following(walk[p], Leaves \ touched[p])
  PROVE  /\ ReadRepositories(p) => Followed(p)
         /\ ReadServices(p) \/ SystemctlFails(p) => Followed(p)
<1>0. DOMAIN walk[p] = Fields /\ WalkOK(walk[p])
  BY DEF TInv, WalkOK
<1>1. ASSUME ReadRepositories(p) PROVE Followed(p)
  <2> DEFINE w == [walk[p] EXCEPT !.pc = "services", !.repositories = Repositories]
             v == [w EXCEPT !.diagnostics = @ \cup UnreadableRepos]
  <2>1. /\ v.pc = "services" /\ v.result = walk[p].result /\ v.phase = walk[p].phase
        /\ v.stack = walk[p].stack /\ v.todo = walk[p].todo /\ v.files = walk[p].files
        /\ v.changed = walk[p].changed /\ v.unmanaged = walk[p].unmanaged
        /\ DOMAIN w = Fields
    BY <1>0 DEF Fields
  <2>2. walk[p].pc = "repos"
    BY <1>1 DEF ReadRepositories
  <2>3. walk[p].result = "none" /\ Fresh(walk[p])
    BY <1>0, <2>2 DEF WalkOK, Following
  <2>4. Put(p, Complain(p, UnreadableRepos, w))
    BY <1>1 DEF ReadRepositories, Become
  <2> HIDE DEF v
  <2>5. Following(v, Leaves \ touched[p])
    BY <2>1, <2>3 DEF Following, Fresh, Walking, AtEntry, Storing
  <2> HIDE DEF w
  <2>6. Following(Complain(p, UnreadableRepos, w), Leaves \ touched[p])
    BY <2>1, <2>5, ComplainFollowing DEF v
  <2> QED
    BY <2>4, <2>6 DEF Followed
<1>2. ASSUME ReadServices(p) \/ SystemctlFails(p) PROVE Followed(p)
  <2>1. PICK n : ListUnits(p, n)
    BY <1>2 DEF ReadServices, SystemctlFails
  <2>2. PICK s : Put(p, [NextEntry(walk[p]) EXCEPT !.stack = {EtcDir}, !.services = s])
    BY <2>1, UnitsListed
  <2> DEFINE v == [NextEntry(walk[p]) EXCEPT !.stack = {EtcDir}, !.services = s]
  <2>3. walk[p].pc = "services"
    BY <2>1, UnitsListed
  <2>4. walk[p].result = "none" /\ Fresh(walk[p])
    BY <1>0, <2>3 DEF WalkOK, Following
  <2>5. /\ v.pc = "walk" /\ v.result = walk[p].result /\ v.phase = walk[p].phase
        /\ v.stack = {EtcDir} /\ v.todo = walk[p].todo /\ v.files = walk[p].files
        /\ v.changed = walk[p].changed /\ v.unmanaged = walk[p].unmanaged
    BY <1>0 DEF NextEntry, Fields
  <2> HIDE DEF v
  <2>6. /\ v.phase = "etc" /\ v.result = "none" /\ v.todo = {} /\ v.files = {} /\ v.changed = {}
        /\ v.unmanaged = {}
    BY <2>4, <2>5 DEF Fresh
  <2>7. ASSUME NEW x \in Leaves PROVE Tracked(v, x)
    <3>1. OnTheWay(v, x)
      <4>1. Above[EtcDir] = {}
        BY AboveParent, TreeAssumption
      <4> QED
        BY <2>5, <2>6, <4>1 DEF OnTheWay, Way, Tops
    <3>2. Candidate(x) => Waiting(v, x)
      BY <2>5, <2>6 DEF Candidate, Visible, Waiting
    <3> QED
      BY <2>5, <2>6, <3>1, <3>2 DEF Tracked, AtHand, EtcSound, EtcComplete, ScanSound,
         ScanComplete, AtEntry, Storing
  <2>8. Following(v, Leaves \ touched[p])
    BY <2>5, <2>6, <2>7 DEF Following
  <2> QED
    BY <2>2, <2>8 DEF Followed, v
<1> QED
  BY <1>1, <1>2

-----------------------------------------------------------------------------
(* The walk.  What a step leaves alone of a describer: *)
Alike(v, w) ==
  /\ v.rpmdb = w.rpmdb /\ v.phase = w.phase /\ w.diagnostics \subseteq v.diagnostics
  /\ v.files = w.files /\ v.unmanaged = w.unmanaged /\ v.changed = w.changed

Listed(d) == {x \in In(d) : x \in Leaves => fs[x] # NoNode}

(* A directory is opened: what is below it takes its place. *)
LEMMA OpenedTracked ==
  ASSUME NEW w, WalkOK(w), w.pc = "walk", w.todo = {}, NEW x \in Leaves, Tracked(w, x),
         NEW d \in w.stack,
         NEW v, Alike(v, w), v.pc = "walk", v.result = "none", v.stack = w.stack \ {d},
         v.todo = IF access[d] = "ok" THEN Listed(d) ELSE {}
  PROVE  Tracked(v, x)
<1> DEFINE C == {x} \cup Above[x]
<1>1. w.result = "none" /\ d \in Dirs /\ w.phase \in {"etc", "scan"} /\ Tops(v) = Tops(w)
  BY DEF WalkOK, Alike, Tops
<1>2. /\ \A y \in C : y \in Dirs \cup Leaves /\ Above[y] \subseteq Above[x]
      /\ d # x
  BY <1>1, AboveTransitive, NodeAssumption
<1>3. ASSUME NEW y \in v.todo \cap C
      PROVE  y \in DOMAIN Parent /\ Way(Tops(v), y)
  <2>1. access[d] = "ok" /\ y \in DOMAIN Parent /\ Parent[y] = d
    BY <1>3 DEF Listed, In
  <2>2. Above[y] = {d} \cup Above[d]
    BY <1>2, <2>1, AboveParent
  <2>3. d \in C
    BY <1>2, <2>2
  <2>4. Way(Tops(w), d) /\ (d \in Tops(w) \/ d \notin KeepList)
    BY <2>3 DEF Tracked, OnTheWay
  <2> QED
    BY <1>1, <2>1, <2>2, <2>4 DEF Way
<1>4. OnTheWay(v, x)
  <2>1. \A y \in v.stack \cap C : Way(Tops(v), y) /\ (y \in Tops(v) \/ y \notin KeepList)
    BY <1>1 DEF Tracked, OnTheWay
  <2> QED
    BY <1>3, <2>1 DEF OnTheWay
<1>5. ASSUME Due(w, x), Waiting(w, x) PROVE Waiting(v, x)
  <2>1. PICK y \in C : y \in w.stack
    BY <1>5 DEF Waiting, AtEntry, Storing
  <2>2. (\A a \in Above[x] : access[a] = "ok") /\ fs[x] # NoNode
    BY <1>5 DEF Due, Candidate, ScanCandidate, Visible, Regular
  <2>3. CASE y # d
    BY <2>1, <2>3 DEF Waiting
  <2>4. CASE y = d
    <3>1. d \in Above[x] /\ access[d] = "ok"
      BY <1>2, <2>1, <2>2, <2>4
    <3>2. PICK z \in C : z \in DOMAIN Parent /\ Parent[z] = d
      BY <3>1, ChildBelow
    <3>3. z \in Leaves => z = x
      BY <1>1, <3>2, AboveIn, NodeAssumption
    <3>4. z \in v.todo
      BY <2>2, <3>1, <3>2, <3>3 DEF Listed, In
    <3> QED
      BY <3>4 DEF Waiting
  <2> QED
    BY <2>3, <2>4
<1>6. AtHand(v, x)
  BY DEF AtHand, AtEntry, Storing
<1> QED
  BY <1>1, <1>4, <1>5, <1>6, Carry DEF Alike, SameOf

LEMMA OpenDirFollows ==
  ASSUME TInv, NEW p \in Describers, Following(walk[p], Leaves \ touched[p]), OpenDir(p)
  PROVE  Followed(p)
<1> DEFINE d == First(walk[p].stack)
           w == [walk[p] EXCEPT !.stack = @ \ {d}]
           listed == {x \in In(d) : x \in Leaves => fs[x] # NoNode}
           open == [w EXCEPT !.todo = listed]
           said == [w EXCEPT !.diagnostics = @ \cup {d}]
           paths == Leaves \ touched[p]
<1>1. WalkOK(walk[p]) /\ DOMAIN walk[p] = Fields /\ walk[p].pc = "walk" /\ walk[p].todo = {}
  BY DEF TInv, WalkOK, OpenDir
<1>2. d \in walk[p].stack
  BY DEF OpenDir, First
<1>3. walk[p].result = "none" /\ \A x \in paths : Tracked(walk[p], x)
  BY <1>1 DEF WalkOK, Following, Walking
<1>4. /\ Alike(w, walk[p]) /\ Alike(open, walk[p]) /\ Alike(said, walk[p])
      /\ \A v \in {w, open, said} : /\ v.pc = "walk" /\ v.result = "none"
                                    /\ v.stack = walk[p].stack \ {d}
      /\ w.todo = {} /\ said.todo = {} /\ open.todo = Listed(d) /\ DOMAIN w = Fields
  BY <1>1, <1>3 DEF Alike, Fields, Listed
<1>5. Become(p, CASE access[d] = "ok" -> open
                  [] access[d] = "broken" /\ w.phase = "etc" -> Complain(p, {d}, w)
                  [] OTHER -> w)
  BY DEF OpenDir
<1> HIDE DEF d, open, said
<1>6. ASSUME access[d] = "ok" PROVE Following(open, paths)
  <2>1. \A x \in paths : Tracked(open, x)
    BY <1>1, <1>2, <1>3, <1>4, <1>6, OpenedTracked
  <2> QED
    BY <1>4, <2>1 DEF Following
<1>7. ASSUME access[d] # "ok" PROVE Following(w, paths) /\ Following(said, paths)
  <2> HIDE DEF w
  <2>1. \A x \in paths : Tracked(w, x) /\ Tracked(said, x)
    BY <1>1, <1>2, <1>3, <1>4, <1>7, OpenedTracked
  <2> QED
    BY <1>4, <2>1 DEF Following
<1>8. ASSUME access[d] # "ok" PROVE Following(Complain(p, {d}, w), paths)
  <2> HIDE DEF w
  <2> QED
    BY <1>4, <1>7, <1>8, ComplainFollowing DEF said
<1> HIDE DEF w
<1>9. \/ Put(p, open) /\ access[d] = "ok"
      \/ Put(p, Complain(p, {d}, w)) /\ access[d] # "ok"
      \/ Put(p, w) /\ access[d] # "ok"
  BY <1>5 DEF Become
<1> QED
  BY <1>6, <1>7, <1>8, <1>9 DEF Followed

(* An entry is looked at: it is passed over, put on the stack, or stopped at. *)
LEMMA SeenTracked ==
  ASSUME NEW w, WalkOK(w), w.pc = "walk", NEW x \in Leaves, Tracked(w, x), NEW e \in w.todo,
         fs \in [Leaves -> Nodes \cup {NoNode}],
         NEW v, Alike(v, w), v.result = "none", v.todo = w.todo \ {e},
         \/ /\ v.pc = "walk" /\ v.stack = w.stack
            /\ Skipped(w, e) \/ (e \notin Dirs /\ ~Regular(fs[e]))
         \/ v.pc = "walk" /\ v.stack = w.stack \cup {e} /\ ~Skipped(w, e) /\ e \in Dirs
         \/ /\ v.pc = "read" /\ v.stack = w.stack /\ v.path = e /\ v.seen = fs[e]
            /\ ~Skipped(w, e) /\ e \notin Dirs /\ Regular(fs[e])
  PROVE  Tracked(v, x)
<1> DEFINE C == {x} \cup Above[x]
<1>1. w.result = "none" /\ w.phase \in {"etc", "scan"} /\ Tops(v) = Tops(w) /\ v.phase = w.phase
  BY DEF WalkOK, Alike, Tops
<1>2. e \in C => e \in DOMAIN Parent /\ Way(Tops(w), e)
  BY DEF Tracked, OnTheWay
<1>3. OnTheWay(v, x)
  <2>1. \A y \in v.stack : y \in w.stack \/ (y = e /\ ~Skipped(w, e))
    OBVIOUS
  <2>2. \A y \in v.stack \cap C : Way(Tops(v), y) /\ (y \in Tops(v) \/ y \notin KeepList)
    BY <1>1, <1>2, <2>1 DEF Tracked, OnTheWay, Skipped
  <2>3. \A y \in v.todo \cap C : y \in DOMAIN Parent /\ Way(Tops(v), y)
    BY <1>1 DEF Tracked, OnTheWay
  <2> QED
    BY <2>2, <2>3 DEF OnTheWay
<1>4. AtHand(v, x)
  <2> SUFFICES ASSUME v.pc = "read", v.path = x PROVE AtHand(v, x)
    BY DEF AtHand, AtEntry, Storing
  <2>1. e = x /\ ~Skipped(w, e) /\ v.seen = fs[x] /\ Regular(fs[x])
    OBVIOUS
  <2>2. Way(Tops(v), x)
    BY <1>1, <1>2, <2>1
  <2> QED
    BY <1>1, <2>1, <2>2 DEF AtHand, Skipped, Storing
<1>5. ASSUME Due(w, x), Waiting(w, x) PROVE Waiting(v, x)
  <2>1. PICK y \in C : y \in w.stack \cup w.todo
    BY <1>5 DEF Waiting, AtEntry, Storing
  <2>2. CASE y # e
    <3>1. y \in v.stack \cup v.todo
      BY <2>1, <2>2
    <3> QED
      BY <3>1 DEF Waiting
  <2>3. CASE y = e
    <3>1. PICK top : /\ top \in ScanDirs \cup {EtcDir} /\ Visible(x, top) /\ Regular(fs[x])
                     /\ w.phase = "etc" => x # Syncpoint
      BY <1>1, <1>5 DEF Due, Candidate, ScanCandidate
    <3>2. e \in DOMAIN Parent /\ e # top
      BY <1>2, <2>3, <3>1, TreeAssumption
    <3>3. e \notin KeepList
      BY <2>3, <3>1, <3>2 DEF Visible
    <3>4. e \notin Dirs => e = x
      BY <2>3, AboveIn
    <3>5. ~Skipped(w, e)
      BY <3>1, <3>3, <3>4, NodeAssumption DEF Skipped
    <3>6. CASE e \in Dirs
      <4>1. e \in v.stack
        BY <3>5, <3>6
      <4> QED
        BY <2>3, <4>1 DEF Waiting
    <3>7. CASE e \notin Dirs
      <4>1. v.pc = "read" /\ v.path = x
        BY <3>1, <3>4, <3>5, <3>7
      <4> QED
        BY <4>1 DEF Waiting, AtEntry
    <3> QED
      BY <3>6, <3>7
  <2> QED
    BY <2>2, <2>3
<1> QED
  BY <1>1, <1>3, <1>4, <1>5, Carry DEF Alike, SameOf

LEMMA StatFollows ==
  ASSUME TInv, NEW p \in Describers, Following(walk[p], Leaves \ touched[p]), Stat(p)
  PROVE  Followed(p)
<1> DEFINE e == First(walk[p].todo)
           w == [walk[p] EXCEPT !.todo = @ \ {e}]
           down == [w EXCEPT !.stack = @ \cup {e}]
           there == [w EXCEPT !.pc = "read", !.path = e, !.seen = fs[e]]
           paths == Leaves \ touched[p]
<1>1. WalkOK(walk[p]) /\ DOMAIN walk[p] = Fields /\ walk[p].pc = "walk"
  BY DEF TInv, WalkOK, Stat
<1>2. e \in walk[p].todo /\ e \in Dirs \cup Leaves /\ fs \in [Leaves -> Nodes \cup {NoNode}]
  BY <1>1 DEF Stat, First, WalkOK, TInv
<1>3. walk[p].result = "none" /\ \A x \in paths : Tracked(walk[p], x)
  BY <1>1 DEF WalkOK, Following, Walking
<1>4. /\ Alike(w, walk[p]) /\ Alike(down, walk[p]) /\ Alike(there, walk[p])
      /\ \A v \in {w, down, there} : v.result = "none" /\ v.todo = walk[p].todo \ {e}
      /\ w.pc = "walk" /\ w.stack = walk[p].stack
      /\ down.pc = "walk" /\ down.stack = walk[p].stack \cup {e}
      /\ there.pc = "read" /\ there.stack = walk[p].stack /\ there.path = e /\ there.seen = fs[e]
      /\ Skipped(w, e) <=> Skipped(walk[p], e)
  BY <1>1, <1>3 DEF Alike, Fields, Skipped
<1>5. e \notin Dirs => (Regular(fs[e]) <=> fs[e] # NoNode /\ fs[e].type # "special")
  BY <1>2, NodeAssumption DEF Regular
<1>6. Become(p, IF Skipped(w, e) THEN w
                ELSE IF e \in Dirs THEN down
                ELSE IF fs[e] = NoNode \/ fs[e].type = "special" THEN w
                ELSE there)
  BY DEF Stat
<1> HIDE DEF e, w, down, there
<1>7. \/ Put(p, w) /\ (Skipped(walk[p], e) \/ (e \notin Dirs /\ ~Regular(fs[e])))
      \/ Put(p, down) /\ ~Skipped(walk[p], e) /\ e \in Dirs
      \/ Put(p, there) /\ ~Skipped(walk[p], e) /\ e \notin Dirs /\ Regular(fs[e])
  BY <1>4, <1>5, <1>6 DEF Become
<1>8. ASSUME NEW v, v \in {w, down, there}, \A x \in paths : Tracked(v, x), Put(p, v)
      PROVE  Followed(p)
  <2>1. Following(v, paths)
    BY <1>4, <1>8 DEF Following
  <2> QED
    BY <1>8, <2>1 DEF Followed
<1>9. CASE Put(p, w) /\ (Skipped(walk[p], e) \/ (e \notin Dirs /\ ~Regular(fs[e])))
  <2>1. \A x \in paths : Tracked(w, x)
    BY <1>1, <1>2, <1>3, <1>4, <1>9, SeenTracked
  <2> QED
    BY <1>8, <1>9, <2>1
<1>10. CASE Put(p, down) /\ ~Skipped(walk[p], e) /\ e \in Dirs
  <2>1. \A x \in paths : Tracked(down, x)
    BY <1>1, <1>2, <1>3, <1>4, <1>10, SeenTracked
  <2> QED
    BY <1>8, <1>10, <2>1
<1>11. CASE Put(p, there) /\ ~Skipped(walk[p], e) /\ e \notin Dirs /\ Regular(fs[e])
  <2>1. \A x \in paths : Tracked(there, x)
    BY <1>1, <1>2, <1>3, <1>4, <1>11, SeenTracked
  <2> QED
    BY <1>8, <1>11, <2>1
<1> QED
  BY <1>7, <1>9, <1>10, <1>11

(* A tree is done when nothing waits. *)
LEMMA TreeDoneFollows ==
  ASSUME TInv, NEW p \in Describers, Following(walk[p], Leaves \ touched[p]), TreeDone(p)
  PROVE  Followed(p)
<1> DEFINE w == walk[p]
           scan == [w EXCEPT !.phase = "scan", !.stack = ScanDirs]
           over == Finished(w, "ok")
           paths == Leaves \ touched[p]
<1>1. WalkOK(w) /\ DOMAIN w = Fields /\ w.pc = "walk" /\ w.todo = {} /\ w.stack = {}
  BY DEF TInv, WalkOK, TreeDone
<1>2. w.result = "none" /\ w.phase \in {"etc", "scan"} /\ \A x \in paths : Tracked(w, x)
  BY <1>1 DEF WalkOK, Following, Walking
<1>3. \A x : ~Waiting(w, x)
  BY <1>1 DEF Waiting, AtEntry, Storing
<1>4. /\ scan.rpmdb = w.rpmdb /\ scan.files = w.files /\ scan.diagnostics = w.diagnostics
      /\ scan.unmanaged = w.unmanaged /\ scan.changed = w.changed
      /\ scan.phase = "scan" /\ scan.pc = "walk" /\ scan.stack = ScanDirs /\ scan.todo = {}
      /\ scan.result = "none"
  BY <1>1, <1>2 DEF Fields
<1>5. /\ over.rpmdb = w.rpmdb /\ over.files = w.files /\ over.diagnostics = w.diagnostics
      /\ over.unmanaged = w.unmanaged /\ over.changed = w.changed
      /\ over.phase = w.phase /\ over.pc = "done" /\ over.stack = {} /\ over.todo = {}
      /\ over.result = "ok"
  BY <1>1 DEF Finished, Fields
<1>6. \/ Put(p, scan) /\ w.phase = "etc"
      \/ Put(p, over) /\ (w.phase = "scan" \/ ~Full)
  BY <1>2 DEF TreeDone, Become
<1> HIDE DEF scan, over
<1>7. ASSUME NEW x \in paths, w.phase = "etc" PROVE Tracked(scan, x)
  <2>1. BaselineFor(scan, x) = BaselineFor(w, x) /\ \A n : Reproduced(scan, x, n) <=> Reproduced(w, x, n)
    BY <1>4, SameBaseline
  <2>2. OnTheWay(scan, x)
    <3>1. \A d \in ScanDirs : d \in Dirs /\ Above[d] = {}
      BY AboveParent, TreeAssumption
    <3> QED
      BY <1>4, <3>1 DEF OnTheWay, Way, Tops
  <2>3. EtcSound(scan, x) /\ EtcComplete(scan, x) /\ ScanSound(scan, x)
    BY <1>2, <1>3, <1>4, <2>1 DEF Tracked, EtcSound, EtcComplete, ScanSound
  <2>4. ScanComplete(scan, x)
    BY <1>4 DEF ScanComplete, ScanCandidate, Visible, Waiting
  <2> QED
    BY <1>4, <2>2, <2>3, <2>4 DEF Tracked, AtHand, AtEntry, Storing
<1>8. ASSUME NEW x \in paths PROVE Tracked(over, x)
  <2>1. BaselineFor(over, x) = BaselineFor(w, x) /\ \A n : Reproduced(over, x, n) <=> Reproduced(w, x, n)
    BY <1>5, SameBaseline
  <2>2. OnTheWay(over, x)
    BY <1>5 DEF OnTheWay
  <2>3. EtcSound(over, x) /\ EtcComplete(over, x) /\ ScanSound(over, x) /\ ScanComplete(over, x)
    BY <1>2, <1>3, <1>5, <2>1 DEF Tracked, EtcSound, EtcComplete, ScanSound, ScanComplete
  <2> QED
    BY <1>5, <2>2, <2>3 DEF Tracked, AtHand, AtEntry, Storing
<1>9. CASE Put(p, scan) /\ w.phase = "etc"
  <2>1. Following(scan, paths)
    BY <1>4, <1>7, <1>9 DEF Following
  <2> QED
    BY <1>9, <2>1 DEF Followed
<1>10. CASE Put(p, over) /\ (w.phase = "scan" \/ ~Full)
  <2>1. Following(over, paths)
    BY <1>5, <1>8, <1>10 DEF Following
  <2> QED
    BY <1>10, <2>1 DEF Followed
<1> QED
  BY <1>6, <1>9, <1>10

-----------------------------------------------------------------------------
(* The entry at hand *)

(* Whoever is at another entry decides nothing about x. *)
LEMMA Elsewhere ==
  ASSUME NEW w, WalkOK(w), w.pc \in AtEntry, NEW x \in Leaves, Tracked(w, x), w.path # x,
         NEW v, v.rpmdb = w.rpmdb, v.phase = w.phase, w.diagnostics \subseteq v.diagnostics,
         v.path = w.path, v.stack = w.stack, v.todo = w.todo, v.result = "none",
         SameOf(x, v.files, w.files), SameOf(x, v.unmanaged, w.unmanaged),
         SameOf(x, v.changed, w.changed)
  PROVE  Tracked(v, x)
<1>1. OnTheWay(v, x) /\ AtHand(v, x)
  BY DEF Tracked, OnTheWay, AtHand, Tops
<1>2. Waiting(w, x) => Waiting(v, x)
  BY DEF Waiting
<1> QED
  BY <1>1, <1>2, Carry DEF WalkOK

LEMMA WayVisible ==
  ASSUME NEW x \in Leaves, NEW tops \in {{EtcDir}, ScanDirs}, Way(tops, x), x \notin KeepList
  PROVE  \E top \in tops : Visible(x, top)
<1>1. tops \subseteq Dirs /\ \A top \in tops : top \notin DOMAIN Parent
  BY TreeAssumption
<1>2. PICK top \in tops : top \in Above[x]
  BY <1>1, NodeAssumption DEF Way
<1>3. \A d \in Above[x] : d \in tops => d = top
  BY <1>1, <1>2, OneTop
<1> QED
  BY <1>2, <1>3 DEF Way, Visible

(* What is read at a path that nobody edited is what is there. *)
LEMMA GotRight ==
  ASSUME NEW w, NEW n \in Nodes, w.seen = n, fs[w.path] = n, Regular(n)
  PROVE  IF Legible(n) THEN Got(w) = n.data /\ n.data \notin {NoTarget, Unreadable}
         ELSE Got(w) = Unreadable
<1>1. CASE n.type = "file"
  <2>1. n.data \in Digests
    BY <1>1 DEF Digests
  <2>2. Got(w) = IF n.readable THEN n.data ELSE Unreadable
    BY <1>1, NodeAssumption DEF Got, ReadAll
  <2> QED
    BY <1>1, <2>1, <2>2, NodeAssumption DEF Legible
<1>2. CASE n.type = "link"
  <2>1. n.data \in DOMAIN Behind
    BY <1>2, NodeAssumption
  <2>2. Got(w) = n.data
    BY <1>2, NodeAssumption DEF Got
  <2> QED
    BY <1>2, <2>1, <2>2, NodeAssumption DEF Legible
<1> QED
  BY <1>1, <1>2 DEF Regular

(* What a describer of /etc decides about the path that it is at. *)
LEMMA EtcDecided ==
  ASSUME NEW w, w.phase = "etc", NEW x, Tracked(w, x),
         NEW v, v.rpmdb = w.rpmdb, v.phase = w.phase,
         v.stack = w.stack, v.todo = w.todo, v.pc = "walk",
         v.unmanaged = w.unmanaged, v.changed = w.changed,
         EtcSound(v, x),
         IF Legible(fs[x]) THEN Reproduced(w, x, fs[x]) \/ x \in NamesIn(v.files)
         ELSE x \in v.diagnostics
  PROVE  Tracked(v, x)
<1>1. BaselineFor(v, x) = BaselineFor(w, x) /\ \A n : Reproduced(v, x, n) <=> Reproduced(w, x, n)
  BY SameBaseline
<1>2. OnTheWay(v, x) /\ AtHand(v, x)
  BY DEF Tracked, OnTheWay, AtHand, AtEntry, Storing, Tops
<1>3. EtcComplete(v, x)
  BY <1>1 DEF EtcComplete
<1>4. ScanSound(v, x) /\ ScanComplete(v, x)
  BY <1>1 DEF Tracked, ScanSound, ScanComplete
<1> QED
  BY <1>2, <1>3, <1>4 DEF Tracked

(* An entry of a path that nobody edited, as it is held. *)
LEMMA HeldRight ==
  ASSUME TInv, NEW p \in Describers, walk[p].pc \in AtEntry,
         Following(walk[p], Leaves \ touched[p]), walk[p].path \notin touched[p]
  PROVE  LET w == walk[p]
             n == fs[w.path]
         IN /\ w.path \in Leaves /\ Tracked(w, w.path) /\ n \in Nodes /\ Regular(n) /\ w.seen = n
            /\ w.phase = "etc" => Candidate(w.path)
            /\ w.phase = "scan" => ScanCandidate(w.path)
            /\ w.pc # "read" => w.phase = "etc" /\ Legible(n) /\ w.rec = RecordOf(w.path, n, n.data)
            /\ w.pc \in Storing => ~Reproduced(w, w.path, n)
<1> DEFINE w == walk[p]
           x == w.path
<1>1. WalkOK(w) /\ x \in Leaves /\ fs[x] \in Nodes \cup {NoNode}
  BY DEF TInv, WalkOK, AtEntry
<1>2. Tracked(w, x)
  BY <1>1 DEF Following, Walking
<1>3. /\ Way(Tops(w), x) /\ x \notin KeepList /\ (w.phase = "etc" => x # Syncpoint)
      /\ w.seen = fs[x] /\ Regular(fs[x])
      /\ w.pc # "read" =>
           w.phase = "etc" /\ Legible(fs[x]) /\ w.rec = RecordOf(x, fs[x], fs[x].data)
      /\ w.pc \in Storing => ~Reproduced(w, x, fs[x])
  BY <1>2 DEF Tracked, AtHand
<1>4. fs[x] \in Nodes
  BY <1>1, <1>3 DEF Regular
<1>5. PICK top \in Tops(w) : Visible(x, top)
  BY <1>1, <1>3, WayVisible DEF Tops
<1>6. /\ w.phase = "etc" => Candidate(x)
      /\ w.phase = "scan" => ScanCandidate(x)
  BY <1>3, <1>5 DEF Tops, Candidate, ScanCandidate
<1> QED
  BY <1>1, <1>2, <1>3, <1>4, <1>6

(* A step at an entry, which leaves alone what it has of the other entries. *)
Beside(v, w) ==
  /\ v.pc \in {"walk"} \cup AtEntry /\ v.result = "none"
  /\ v.rpmdb = w.rpmdb /\ v.phase = w.phase /\ w.diagnostics \subseteq v.diagnostics
  /\ v.path = w.path /\ v.stack = w.stack /\ v.todo = w.todo
  /\ \A x : x # w.path => /\ SameOf(x, v.files, w.files)
                          /\ SameOf(x, v.unmanaged, w.unmanaged)
                          /\ SameOf(x, v.changed, w.changed)

LEMMA Decided ==
  ASSUME TInv, NEW p \in Describers, walk[p].pc \in AtEntry,
         Following(walk[p], Leaves \ touched[p]),
         NEW v, Beside(v, walk[p]),
         walk[p].path \notin touched[p] => Tracked(v, walk[p].path)
  PROVE  Following(v, Leaves \ touched[p])
<1>1. WalkOK(walk[p]) /\ \A x \in Leaves \ touched[p] : Tracked(walk[p], x)
  BY DEF TInv, Following, Walking
<1>2. ASSUME NEW x \in Leaves \ touched[p] PROVE Tracked(v, x)
  <2>1. CASE x = walk[p].path
    BY <2>1
  <2>2. CASE x # walk[p].path
    BY <1>1, <2>2, Elsewhere DEF Beside
  <2> QED
    BY <2>1, <2>2
<1>3. v.pc \notin {"idle", "repos", "services"} /\ v.result = "none"
  BY DEF Beside, AtEntry, Storing
<1> QED
  BY <1>2, <1>3 DEF Following

(* What is read of an entry of /etc, and what is said of one that cannot be. *)
LEMMA ReadFollows ==
  ASSUME TInv, NEW p \in Describers, Following(walk[p], Leaves \ touched[p]), Read(p)
  PROVE  Followed(p)
<1> DEFINE w == walk[p]
           x == w.path
           n == fs[x]
           got == Got(w)
           next == NextEntry(w)
           said == [next EXCEPT !.diagnostics = @ \cup {x}]
           held == [w EXCEPT !.pc = "judge", !.rec = RecordOf(x, w.seen, got)]
           paths == Leaves \ touched[p]
<1>1. WalkOK(w) /\ DOMAIN w = Fields /\ w.pc = "read" /\ w.phase = "etc" /\ w.result = "none"
  BY DEF TInv, WalkOK, Read
<1>2. /\ \A v \in {next, said, held} :
           /\ v.result = "none" /\ v.rpmdb = w.rpmdb /\ v.phase = w.phase
           /\ v.path = w.path /\ v.stack = w.stack /\ v.todo = w.todo
           /\ v.files = w.files /\ v.unmanaged = w.unmanaged /\ v.changed = w.changed
      /\ next.pc = "walk" /\ next.diagnostics = w.diagnostics /\ DOMAIN next = Fields
      /\ said.pc = "walk" /\ said.diagnostics = w.diagnostics \cup {x}
      /\ held.pc = "judge" /\ held.diagnostics = w.diagnostics
      /\ held.rec = RecordOf(x, w.seen, got) /\ held.seen = w.seen
  BY <1>1 DEF NextEntry, Fields
<1>3. Become(p, CASE got = NoTarget   -> next
                  [] got = Unreadable -> Complain(p, {x}, next)
                  [] OTHER -> held)
  BY DEF Read
<1> HIDE DEF next, said, held
<1>4. Beside(next, w) /\ Beside(said, w) /\ Beside(held, w)
  BY <1>2 DEF Beside, AtEntry, SameOf
<1>5. ASSUME x \notin touched[p]
      PROVE  /\ x \in Leaves /\ Tracked(w, x) /\ n \in Nodes /\ Regular(n) /\ w.seen = n
             /\ Candidate(x) /\ got # NoTarget
             /\ IF Legible(n) THEN got = n.data /\ got # Unreadable ELSE got = Unreadable
  <2>1. /\ x \in Leaves /\ Tracked(w, x) /\ n \in Nodes /\ Regular(n) /\ w.seen = n
        /\ Candidate(x)
    BY <1>1, <1>5, HeldRight DEF AtEntry
  <2>2. IF Legible(n) THEN Got(w) = n.data /\ n.data \notin {NoTarget, Unreadable}
        ELSE Got(w) = Unreadable
    BY <2>1, GotRight
  <2> QED
    BY <2>1, <2>2, NodeAssumption
<1>6. CASE got = NoTarget
  <2>1. Following(next, paths)
    BY <1>1, <1>4, <1>5, <1>6, Decided DEF AtEntry
  <2> QED
    BY <1>3, <1>6, <2>1, NodeAssumption DEF Followed, Become
<1>7. CASE got # NoTarget /\ got = Unreadable
  <2>1. ASSUME x \notin touched[p] PROVE Tracked(said, x)
    <3>1. Tracked(w, x) /\ ~Legible(n)
      BY <1>5, <1>7, <2>1
    <3>2. EtcSound(w, x)
      BY <3>1 DEF Tracked
    <3>3. EtcSound(said, x)
      BY <1>2, <3>1, <3>2 DEF EtcSound
    <3> QED
      BY <1>1, <1>2, <3>1, <3>3, EtcDecided
  <2>2. Following(said, paths)
    BY <1>1, <1>4, <2>1, Decided DEF AtEntry
  <2>3. Following(Complain(p, {x}, next), paths)
    BY <1>2, <2>2, ComplainFollowing DEF said
  <2> QED
    BY <1>3, <1>7, <2>3 DEF Followed, Become
<1>8. CASE got # NoTarget /\ got # Unreadable
  <2>1. ASSUME x \notin touched[p] PROVE Tracked(held, x)
    <3>1. Tracked(w, x) /\ Legible(n) /\ got = n.data /\ w.seen = n
      BY <1>5, <1>8, <2>1
    <3>2. OnTheWay(held, x)
      BY <1>2, <3>1 DEF Tracked, OnTheWay, Tops
    <3>3. AtHand(held, x)
      BY <1>1, <1>2, <3>1 DEF Tracked, AtHand, AtEntry, Tops, Storing
    <3>4. Waiting(held, x)
      BY <1>2 DEF Waiting, AtEntry
    <3> QED
      BY <1>1, <1>2, <3>1, <3>2, <3>3, <3>4, Carry DEF SameOf
  <2>2. Following(held, paths)
    BY <1>1, <1>4, <2>1, Decided DEF AtEntry
  <2> QED
    BY <1>3, <1>8, <2>2 DEF Followed, Become
<1> QED
  BY <1>6, <1>7, <1>8

(* An entry of a path that nobody edited is recorded as it is. *)
LEMMA EmittedFollowing ==
  ASSUME TInv, NEW p \in Describers, walk[p].pc \in {"judge"} \cup Storing,
         Following(walk[p], Leaves \ touched[p]),
         NEW rec \in {walk[p].rec, WithRef(walk[p].rec)},
         walk[p].path \notin touched[p] =>
           ~Reproduced(walk[p], walk[p].path, fs[walk[p].path])
  PROVE  Following(Emit(walk[p], rec), Leaves \ touched[p])
<1> DEFINE w == walk[p]
           x == w.path
           n == fs[x]
           v == Emit(w, rec)
<1>1. /\ WalkOK(w) /\ DOMAIN w = Fields /\ w.pc \in AtEntry /\ w.result = "none"
      /\ w.rec.name = x /\ DOMAIN w.rec = RecordFields
  BY HeldTyped DEF WalkOK, AtEntry, Storing
<1>2. rec.name = x
  BY <1>1 DEF WithRef, RecordFields
<1>3. /\ v.pc = "walk" /\ v.result = "none" /\ v.rpmdb = w.rpmdb /\ v.phase = w.phase
      /\ v.diagnostics = w.diagnostics /\ v.path = w.path /\ v.stack = w.stack /\ v.todo = w.todo
      /\ v.files = w.files \cup {rec} /\ v.unmanaged = w.unmanaged /\ v.changed = w.changed
  BY <1>1 DEF Emit, NextEntry, Fields
<1> HIDE DEF v
<1>4. Beside(v, w)
  BY <1>2, <1>3 DEF Beside, SameOf
<1>5. ASSUME x \notin touched[p] PROVE Tracked(v, x)
  <2>1. /\ Tracked(w, x) /\ Candidate(x) /\ Legible(n) /\ ~Reproduced(w, x, n) /\ w.phase = "etc"
        /\ w.rec = RecordOf(x, n, n.data)
    BY <1>1, <1>5, HeldRight DEF AtEntry, Storing
  <2>2. rec = [RecordOf(x, n, n.data) EXCEPT !.content_ref = rec.content_ref]
    BY <2>1 DEF WithRef, RecordOf
  <2>3. ~Reproduced(v, x, n)
    BY <1>3, <2>1, SameBaseline
  <2>4. EtcSound(w, x)
    BY <2>1 DEF Tracked
  <2>5. EtcSound(v, x)
    BY <1>3, <2>1, <2>2, <2>3, <2>4 DEF EtcSound
  <2>6. x \in NamesIn(v.files)
    BY <1>2, <1>3 DEF NamesIn
  <2> QED
    BY <1>3, <2>1, <2>5, <2>6, EtcDecided
<1> QED
  BY <1>1, <1>4, <1>5, Decided DEF v

(* An entry that is held on to. *)
LEMMA HeldOn ==
  ASSUME TInv, NEW p \in Describers, walk[p].pc \in {"judge"} \cup Storing,
         Following(walk[p], Leaves \ touched[p]),
         NEW pc \in Storing, NEW v,
         \A f \in Fields \ {"pc", "bytes"} : v[f] = walk[p][f], v.pc = pc,
         walk[p].path \notin touched[p] =>
           ~Reproduced(walk[p], walk[p].path, fs[walk[p].path])
  PROVE  Following(v, Leaves \ touched[p])
<1> DEFINE w == walk[p]
           x == w.path
           n == fs[x]
<1>1. WalkOK(w) /\ w.pc \in AtEntry /\ w.result = "none"
  BY HeldTyped DEF WalkOK, AtEntry, Storing
<1>2. /\ v.result = "none" /\ v.rpmdb = w.rpmdb /\ v.phase = w.phase
      /\ v.diagnostics = w.diagnostics /\ v.path = w.path /\ v.stack = w.stack /\ v.todo = w.todo
      /\ v.files = w.files /\ v.unmanaged = w.unmanaged /\ v.changed = w.changed
      /\ v.seen = w.seen /\ v.rec = w.rec
  BY <1>1 DEF Fields
<1>3. Beside(v, w)
  BY <1>2 DEF Beside, SameOf, AtEntry
<1>4. ASSUME x \notin touched[p] PROVE Tracked(v, x)
  <2>1. Tracked(w, x) /\ ~Reproduced(v, x, n) /\ w.phase = "etc"
    BY <1>1, <1>2, <1>4, HeldRight, SameBaseline DEF AtEntry, Storing
  <2>2. OnTheWay(v, x)
    BY <1>2, <2>1 DEF Tracked, OnTheWay, Tops
  <2>3. AtHand(v, x)
    <3>1. w.pc # "read"
      BY DEF Storing
    <3> QED
      BY <1>1, <1>2, <2>1, <3>1 DEF Tracked, AtHand, Tops
  <2>4. Waiting(v, x)
    BY <1>2 DEF Waiting, AtEntry
  <2> QED
    BY <1>2, <2>1, <2>2, <2>3, <2>4, Carry DEF SameOf
<1> QED
  BY <1>1, <1>3, <1>4, Decided

LEMMA JudgeFollows ==
  ASSUME NaturalPriorities, TInv, NEW p \in Describers,
         Following(walk[p], Leaves \ touched[p]), Judge(p)
  PROVE  Followed(p)
<1> DEFINE w == walk[p]
           x == w.path
           n == fs[x]
           next == NextEntry(w)
           stored == [w EXCEPT !.pc = "store"]
           differs == Differs(w.rec, BaselineFor(w, x), n)
<1>1. /\ WalkOK(w) /\ DOMAIN w = Fields /\ w.pc = "judge" /\ w.pc \in AtEntry
      /\ w.result = "none"
  BY DEF TInv, WalkOK, Judge, AtEntry
<1>2. ASSUME x \notin touched[p]
      PROVE  /\ x \in Leaves /\ Tracked(w, x) /\ Legible(n) /\ w.phase = "etc"
             /\ differs <=> ~Reproduced(w, x, n)
  <2>1. /\ x \in Leaves /\ Tracked(w, x) /\ n \in Nodes /\ Regular(n) /\ Legible(n)
        /\ w.phase = "etc" /\ w.rec = RecordOf(x, n, n.data)
    BY <1>1, <1>2, HeldRight
  <2> QED
    BY <2>1, JudgedRight
<1>3. Become(p, IF ~differs THEN next
                ELSE IF Store /\ w.rec.type = "file" THEN stored
                ELSE Emit(w, w.rec))
  BY DEF Judge
<1>4. CASE ~differs
  <2>1. /\ next.pc = "walk" /\ next.result = "none" /\ next.rpmdb = w.rpmdb
        /\ next.phase = w.phase /\ next.diagnostics = w.diagnostics /\ next.path = w.path
        /\ next.stack = w.stack /\ next.todo = w.todo
        /\ next.files = w.files /\ next.unmanaged = w.unmanaged /\ next.changed = w.changed
    BY <1>1 DEF NextEntry, Fields
  <2> HIDE DEF next
  <2>2. Beside(next, w)
    BY <2>1 DEF Beside, SameOf
  <2>3. ASSUME x \notin touched[p] PROVE Tracked(next, x)
    <3>1. Tracked(w, x) /\ Legible(n) /\ w.phase = "etc" /\ Reproduced(w, x, n)
      BY <1>2, <1>4, <2>3
    <3>2. Reproduced(next, x, n) <=> Reproduced(w, x, n)
      BY <2>1, SameBaseline
    <3>3. EtcSound(w, x)
      BY <3>1 DEF Tracked
    <3>4. EtcSound(next, x)
      BY <2>1, <3>2, <3>3 DEF EtcSound
    <3> QED
      BY <2>1, <3>1, <3>4, EtcDecided
  <2>4. Following(next, Leaves \ touched[p])
    BY <1>1, <2>2, <2>3, Decided
  <2> QED
    BY <1>3, <1>4, <2>4 DEF Followed, Become
<1>5. CASE differs /\ Store /\ w.rec.type = "file"
  <2>1. (\A f \in Fields \ {"pc", "bytes"} : stored[f] = w[f]) /\ stored.pc = "store"
    BY <1>1 DEF Fields
  <2> HIDE DEF stored
  <2>2. Following(stored, Leaves \ touched[p])
    BY <1>1, <1>2, <1>5, <2>1, HeldOn DEF Storing
  <2> QED
    BY <1>3, <1>5, <2>2 DEF Followed, Become
<1>6. CASE differs /\ ~(Store /\ w.rec.type = "file")
  <2>1. Following(Emit(w, w.rec), Leaves \ touched[p])
    BY <1>1, <1>2, <1>6, EmittedFollowing
  <2> QED
    BY <1>3, <1>6, <2>1 DEF Followed, Become
<1> QED
  BY <1>4, <1>5, <1>6

(* The content store changes nothing of the description but content_ref. *)
LEMMA StoringFollows ==
  ASSUME TInv, NEW p \in Describers, Following(walk[p], Leaves \ touched[p]),
         LookUpBlob(p) \/ ReadAgain(p) \/ OpenBlob(p) \/ WriteBlob(p) \/ StoreFails(p)
  PROVE  Followed(p)
<1> DEFINE w == walk[p]
           x == w.path
           n == fs[x]
           got == ReadAll(n)
           copied == [w EXCEPT !.pc = "copy"]
           opened == [w EXCEPT !.pc = "open", !.bytes = got]
           writing == [w EXCEPT !.pc = "write"]
           paths == Leaves \ touched[p]
<1>0. w.pc \in Storing
  BY DEF LookUpBlob, ReadAgain, OpenBlob, WriteBlob, StoreFails, Storing
<1>1. WalkOK(w) /\ DOMAIN w = Fields /\ w.pc \in AtEntry /\ w.result = "none"
  BY <1>0 DEF TInv, WalkOK, AtEntry, Storing
<1>2. ASSUME x \notin touched[p] PROVE ~Reproduced(w, x, n) /\ got # Unreadable
  <2>1. /\ n \in Nodes /\ Regular(n) /\ Legible(n) /\ ~Reproduced(w, x, n)
        /\ w.rec = RecordOf(x, n, n.data)
    BY <1>0, <1>1, <1>2, HeldRight DEF Storing
  <2>2. w.rec.type = "file"
    BY <1>0, HeldTyped
  <2>3. n.type = "file" /\ n.readable
    BY <2>1, <2>2 DEF RecordOf, Legible
  <2>4. got = n.data /\ n.data \in Digests
    BY <2>1, <2>3 DEF ReadAll, Digests, Regular
  <2> QED
    BY <2>1, <2>4, NodeAssumption
<1>3. /\ Following(Emit(w, w.rec), paths) /\ Following(Emit(w, WithRef(w.rec)), paths)
  BY <1>0, <1>2, EmittedFollowing
<1>4. /\ Following(copied, paths) /\ Following(opened, paths) /\ Following(writing, paths)
  <2>1. /\ \A v \in {copied, opened, writing} : \A f \in Fields \ {"pc", "bytes"} : v[f] = w[f]
        /\ copied.pc = "copy" /\ opened.pc = "open" /\ writing.pc = "write"
    BY <1>1 DEF Fields
  <2> HIDE DEF copied, opened, writing
  <2> QED
    BY <1>0, <1>2, <2>1, HeldOn DEF Storing
<1>5. CASE ReadAgain(p) /\ got = Unreadable
  <2> DEFINE u == Emit(w, w.rec)
             said == [u EXCEPT !.diagnostics = @ \cup {x}]
  <2>1. x \in touched[p]
    BY <1>2, <1>5
  <2>2. /\ DOMAIN u = Fields
        /\ said.pc = "walk" /\ said.result = "none" /\ said.rpmdb = w.rpmdb
        /\ said.phase = w.phase /\ said.diagnostics = w.diagnostics \cup {x}
        /\ said.path = w.path /\ said.stack = w.stack /\ said.todo = w.todo
        /\ said.files = w.files \cup {w.rec} /\ said.unmanaged = w.unmanaged
        /\ said.changed = w.changed
    BY <1>1 DEF Emit, NextEntry, Fields
  <2>3. w.rec.name = x
    BY <1>0, HeldTyped
  <2> HIDE DEF said, u
  <2>4. Beside(said, w)
    BY <2>2, <2>3 DEF Beside, SameOf
  <2>5. Following(said, paths)
    BY <1>1, <2>1, <2>4, Decided
  <2>6. Following(Complain(p, {x}, u), paths)
    BY <2>2, <2>5, ComplainFollowing DEF said
  <2>7. Put(p, Complain(p, {x}, u))
    BY <1>5 DEF ReadAgain, Become, u
  <2> QED
    BY <2>6, <2>7 DEF Followed
<1>6. CASE ~(ReadAgain(p) /\ got = Unreadable)
  <2>1. \/ Put(p, Emit(w, WithRef(w.rec))) \/ Put(p, copied) \/ Put(p, opened) \/ Put(p, writing)
    BY <1>6 DEF LookUpBlob, ReadAgain, OpenBlob, WriteBlob, StoreFails, Become
  <2> HIDE DEF copied, opened, writing, w
  <2> QED
    BY <1>3, <1>4, <2>1 DEF Followed
<1> QED
  BY <1>5, <1>6

(* full_scan reads and compares in one go; what it cannot read it takes for an   *)
(* empty digest, which is why it promises nothing of the changes of those.       *)
LEMMA ScanFollows ==
  ASSUME TInv, NEW p \in Describers, Following(walk[p], Leaves \ touched[p]), Scan(p)
  PROVE  Followed(p)
<1> DEFINE w == walk[p]
           x == w.path
           n == fs[x]
           rec == RecordOf(x, w.seen, Got(w))
           base == BaselineFor(w, x)
           next == NextEntry(w)
           stray == [next EXCEPT !.unmanaged = @ \cup {rec}]
           other == [next EXCEPT !.changed = @ \cup {rec}]
           paths == Leaves \ touched[p]
<1>1. /\ WalkOK(w) /\ DOMAIN w = Fields /\ w.pc = "read" /\ w.pc \in AtEntry
      /\ w.phase = "scan" /\ w.result = "none"
  BY DEF TInv, WalkOK, Scan, AtEntry
<1>2. rec.name = x
  BY DEF RecordOf
<1>3. Become(p, IF base = NoBaseline THEN stray ELSE IF Changes(rec, base) THEN other ELSE next)
  BY DEF Scan
<1> HIDE DEF rec
<1>4. /\ \A v \in {next, stray, other} :
           /\ v.pc = "walk" /\ v.result = "none" /\ v.rpmdb = w.rpmdb /\ v.phase = "scan"
           /\ v.diagnostics = w.diagnostics /\ v.path = w.path /\ v.stack = w.stack
           /\ v.todo = w.todo /\ v.files = w.files
      /\ next.unmanaged = w.unmanaged /\ next.changed = w.changed
      /\ stray.unmanaged = w.unmanaged \cup {rec} /\ stray.changed = w.changed
      /\ other.unmanaged = w.unmanaged /\ other.changed = w.changed \cup {rec}
  BY <1>1 DEF NextEntry, Fields
<1> HIDE DEF next, stray, other
<1>5. Beside(next, w) /\ Beside(stray, w) /\ Beside(other, w)
  BY <1>1, <1>2, <1>4 DEF Beside, SameOf
<1>6. ASSUME x \notin touched[p]
      PROVE  /\ x \in Leaves /\ Tracked(w, x) /\ ScanCandidate(x)
             /\ base # NoBaseline /\ Legible(n) => (Changes(rec, base) <=> Altered(base, n))
  <2>1. /\ x \in Leaves /\ Tracked(w, x) /\ ScanCandidate(x)
        /\ n \in Nodes /\ Regular(n) /\ w.seen = n
    BY <1>1, <1>6, HeldRight
  <2>2. Legible(n) => Got(w) = n.data
    BY <2>1, GotRight
  <2>3. base # NoBaseline => (Changes(RecordOf(x, n, n.data), base) <=> Altered(base, n))
    BY <2>1, ComparedRight
  <2> QED
    BY <2>1, <2>2, <2>3 DEF rec
<1>7. ASSUME NEW v \in {next, stray, other}, x \notin touched[p], ScanSound(v, x),
             IF base = NoBaseline THEN x \in NamesIn(v.unmanaged)
             ELSE Legible(n) /\ Altered(base, n) => x \in NamesIn(v.changed)
      PROVE  Tracked(v, x)
  <2>1. BaselineFor(v, x) = base /\ (Reproduced(v, x, n) <=> Reproduced(w, x, n))
    BY <1>4, SameBaseline
  <2>2. Tracked(w, x)
    BY <1>6, <1>7
  <2>3. OnTheWay(v, x) /\ AtHand(v, x)
    BY <1>1, <1>4, <2>2 DEF Tracked, OnTheWay, AtHand, AtEntry, Storing, Tops
  <2>4. EtcSound(v, x) /\ EtcComplete(v, x)
    BY <1>1, <1>4, <2>1, <2>2 DEF Tracked, EtcSound, EtcComplete
  <2>5. ScanComplete(v, x)
    BY <1>7, <2>1 DEF ScanComplete
  <2> QED
    BY <1>7, <2>3, <2>4, <2>5 DEF Tracked
<1>8. ASSUME NEW v \in {next, stray, other}, Beside(v, w),
             x \notin touched[p] => Tracked(v, x), Put(p, v)
      PROVE  Followed(p)
  <2>1. Following(v, paths)
    BY <1>1, <1>8, Decided
  <2> QED
    BY <1>8, <2>1 DEF Followed
<1>9. CASE base = NoBaseline
  <2>1. ASSUME x \notin touched[p] PROVE Tracked(stray, x)
    <3>1. ScanSound(w, x) /\ ScanCandidate(x)
      BY <1>6, <2>1 DEF Tracked
    <3>2. BaselineFor(stray, x) = base
      BY <1>4, SameBaseline
    <3>3. ScanSound(stray, x)
      BY <1>4, <1>9, <3>1, <3>2 DEF ScanSound
    <3>4. x \in NamesIn(stray.unmanaged)
      BY <1>2, <1>4 DEF NamesIn
    <3> QED
      BY <1>7, <1>9, <2>1, <3>3, <3>4
  <2> QED
    BY <1>3, <1>5, <1>8, <1>9, <2>1 DEF Become
<1>10. CASE base # NoBaseline /\ Changes(rec, base)
  <2>1. ASSUME x \notin touched[p] PROVE Tracked(other, x)
    <3>1. ScanSound(w, x) /\ (Legible(n) => Altered(base, n))
      BY <1>6, <1>10, <2>1 DEF Tracked
    <3>2. BaselineFor(other, x) = base
      BY <1>4, SameBaseline
    <3>3. ScanSound(other, x)
      BY <1>4, <1>10, <3>1, <3>2 DEF ScanSound
    <3>4. x \in NamesIn(other.changed)
      BY <1>2, <1>4 DEF NamesIn
    <3> QED
      BY <1>7, <1>10, <2>1, <3>3, <3>4
  <2> QED
    BY <1>3, <1>5, <1>8, <1>10, <2>1 DEF Become
<1>11. CASE base # NoBaseline /\ ~Changes(rec, base)
  <2>1. ASSUME x \notin touched[p] PROVE Tracked(next, x)
    <3>1. ScanSound(w, x) /\ ~(Legible(n) /\ Altered(base, n))
      BY <1>6, <1>11, <2>1 DEF Tracked
    <3>2. BaselineFor(next, x) = base
      BY <1>4, SameBaseline
    <3>3. ScanSound(next, x)
      BY <1>4, <3>1, <3>2 DEF ScanSound
    <3> QED
      BY <1>7, <1>11, <2>1, <3>1, <3>3
  <2> QED
    BY <1>3, <1>5, <1>8, <1>11, <2>1 DEF Become
<1> QED
  BY <1>9, <1>10, <1>11

-----------------------------------------------------------------------------
(* What others do *)

(* An edit, or a restriction, touches the paths that it concerns; the walk goes on *)
(* for the others as it was.                                                  *)
LEMMA Untouched ==
  ASSUME TInv, Edit \/ Restrict, NEW p \in Describers, NEW x \in Leaves, x \notin touched'[p]
  PROVE  /\ x \notin touched[p] /\ fs'[x] = fs[x]
         /\ \A d \in Above[x] : access'[d] = access[d]
         /\ walk' = walk
<1>1. CASE Edit
  <2>1. PICK y \in Leaves, n \in EditNodes : Touch({y}) /\ fs' = [fs EXCEPT ![y] = n] /\ access' = access
    BY <1>1 DEF Edit
  <2>2. touched'[p] = touched[p] \cup {y} /\ walk' = walk
    BY <2>1 DEF Touch
  <2> QED
    BY <2>1, <2>2 DEF TInv
<1>2. CASE Restrict
  <2>1. PICK d \in Dirs, a \in {"denied", "broken"} :
          Touch({y \in Leaves : d \in Above[y]}) /\ access' = [access EXCEPT ![d] = a] /\ fs' = fs
    BY <1>2 DEF Restrict
  <2>2. touched'[p] = touched[p] \cup {y \in Leaves : d \in Above[y]} /\ walk' = walk
    BY <2>1 DEF Touch
  <2>3. d \notin Above[x]
    BY <2>2
  <2>4. \A e \in Above[x] : access'[e] = access[e]
    BY <2>1, <2>3
  <2> QED
    BY <2>1, <2>2, <2>4
<1> QED
  BY <1>1, <1>2

LEMMA TrackedOn ==
  ASSUME NEW w, NEW x \in Leaves, Tracked(w, x), fs'[x] = fs[x],
         \A d \in Above[x] : access'[d] = access[d]
  PROVE  Tracked(w, x)'
<1>1. \A y \in {x} \cup Above[x] : Above[y] \subseteq Above[x]
  BY AboveTransitive
<1>2. \A tops : \A y \in {x} \cup Above[x] : Way(tops, y)' <=> Way(tops, y)
  BY <1>1 DEF Way
<1>3. \A top : Visible(x, top)' <=> Visible(x, top)
  BY DEF Visible
<1>4. (Candidate(x)' <=> Candidate(x)) /\ (ScanCandidate(x)' <=> ScanCandidate(x))
  BY <1>3 DEF Candidate, ScanCandidate
<1>5. OnTheWay(w, x)'
  BY <1>2 DEF Tracked, OnTheWay
<1>6. AtHand(w, x)'
  BY <1>2 DEF Tracked, AtHand
<1>7. EtcSound(w, x)' /\ EtcComplete(w, x)'
  BY <1>4 DEF Tracked, EtcSound, EtcComplete
<1>8. ScanSound(w, x)' /\ ScanComplete(w, x)'
  BY <1>4 DEF Tracked, ScanSound, ScanComplete
<1> QED
  BY <1>5, <1>6, <1>7, <1>8 DEF Tracked

LEMMA FollowingOn ==
  ASSUME NEW w, NEW p, w = walk'[p], Following(w, Leaves \ touched'[p]),
         \A x \in Leaves \ touched'[p] :
           fs'[x] = fs[x] /\ \A d \in Above[x] : access'[d] = access[d]
  PROVE  Following(walk[p], Leaves \ touched[p])'
<1>1. ASSUME NEW x \in Leaves \ touched'[p], Tracked(w, x) PROVE Tracked(w, x)'
  BY <1>1, TrackedOn
<1>2. Following(w, Leaves \ touched[p])'
  BY <1>1 DEF Following, Walking, Fresh
<1> QED
  BY <1>2

LEMMA StepFollows ==
  ASSUME NaturalPriorities, TInv, NEW p \in Describers,
         Following(walk[p], Leaves \ touched[p]), Step(p)
  PROVE  Followed(p)
<1>1. CASE ReadRepositories(p) \/ ReadServices(p) \/ SystemctlFails(p)
  BY <1>1, ScopesFollow
<1>2. CASE OpenDir(p) \/ Stat(p) \/ TreeDone(p)
  BY <1>2, OpenDirFollows, StatFollows, TreeDoneFollows
<1>3. CASE Read(p) \/ Judge(p) \/ Scan(p)
  BY <1>3, ReadFollows, JudgeFollows, ScanFollows
<1>4. CASE LookUpBlob(p) \/ ReadAgain(p) \/ OpenBlob(p) \/ WriteBlob(p) \/ StoreFails(p)
  BY <1>4, StoringFollows
<1> QED
  BY <1>1, <1>2, <1>3, <1>4 DEF Step

(* A describer that starts has nothing yet, one that is killed has nothing any more. *)
LEMMA BegunFollows ==
  ASSUME TInv, NEW p \in Describers, Following(walk[p], Leaves \ touched[p]),
         NEW rpmdb, NEW n, Begin(p, rpmdb, n), NEW paths
  PROVE  Following(walk'[p], paths)
<1> DEFINE named == Installed(n)
           v == [walk[p] EXCEPT !.pc = "repos", !.rpmdb = rpmdb, !.packages = named]
<1>1. DOMAIN walk = Describers /\ WalkOK(walk[p]) /\ DOMAIN walk[p] = Fields
  BY DEF TInv, WalkOK
<1>2. walk' = [walk EXCEPT ![p] = v] /\ walk[p].pc = "idle"
  BY DEF Begin
<1>3. Fresh(walk[p]) /\ walk[p].result = "none"
  BY <1>1, <1>2 DEF Following, WalkOK
<1> HIDE DEF named
<1>4. /\ v.pc = "repos" /\ v.result = walk[p].result /\ v.phase = walk[p].phase
      /\ v.stack = walk[p].stack /\ v.todo = walk[p].todo /\ v.files = walk[p].files
      /\ v.changed = walk[p].changed /\ v.unmanaged = walk[p].unmanaged
  BY <1>1 DEF Fields
<1> HIDE DEF v
<1>5. Following(v, paths)
  BY <1>3, <1>4 DEF Following, Fresh, Walking, AtEntry, Storing
<1> QED
  BY <1>1, <1>2, <1>5

LEMMA KilledFollows ==
  ASSUME TInv, NEW p \in Describers, Kill(p), NEW paths
  PROVE  Following(walk'[p], paths)
<1>1. walk'[p] = Finished(Idle, "killed")
  BY DEF Kill, TInv
<1>2. Finished(Idle, "killed").pc = "done" /\ Finished(Idle, "killed").result = "killed"
  BY DEF Finished, Idle
<1> QED
  BY <1>1, <1>2, StoppedFollowing

(* What a description has of the paths that nobody edited follows the file system, *)
(* from its start to its end, whatever happens meanwhile.                        *)
LEMMA FInvInductive ==
  ASSUME NaturalPriorities
  PROVE  /\ Init => FInv
         /\ FInv /\ [Next]_vars => FInv'
<1>1. ASSUME Init PROVE FInv
  <2>1. \A p \in Describers : walk[p] = Idle
    BY <1>1 DEF Init
  <2>2. \A paths : Following(Idle, paths)
    BY DEF Following, Idle, Fresh, Walking, AtEntry, Storing
  <2> QED
    BY <1>1, <2>1, <2>2, TInvInductive DEF FInv
<1>2. ASSUME FInv, Edit \/ Restrict PROVE FInv'
  <2>1. TInv /\ TInv'
    BY <1>2, TInvInductive DEF FInv, Next
  <2>2. ASSUME NEW p \in Describers PROVE Following(walk[p], Leaves \ touched[p])'
    <3>1. Following(walk[p], Leaves \ touched[p]) /\ walk'[p] = walk[p]
      BY <1>2 DEF FInv, Edit, Restrict, Touch
    <3>2. \A x \in Leaves \ touched'[p] :
            x \notin touched[p] /\ fs'[x] = fs[x] /\ \A d \in Above[x] : access'[d] = access[d]
      BY <1>2, <2>1, Untouched
    <3>3. Following(walk[p], Leaves \ touched'[p])
      BY <3>1, <3>2 DEF Following
    <3> QED
      BY <3>1, <3>2, <3>3, FollowingOn
  <2> QED
    BY <2>1, <2>2 DEF FInv
<1>3. ASSUME FInv, NEW p \in Describers, Start(p) \/ StartBadly(p) \/ Step(p) \/ Kill(p)
      PROVE  FInv'
  <2>1. TInv /\ TInv' /\ \A q \in Describers : Following(walk[q], Leaves \ touched[q])
    BY <1>3, TInvInductive DEF FInv, Next
  <2>2. /\ fs' = fs /\ access' = access /\ Following(walk'[p], Leaves \ touched'[p])
        /\ \A q \in Describers \ {p} : walk'[q] = walk[q] /\ touched'[q] = touched[q]
    <3>1. CASE Start(p) \/ StartBadly(p)
      <4>1. PICK rpmdb, n : Begin(p, rpmdb, n)
        BY <3>1 DEF Start, StartBadly
      <4>2. access' = access
        BY <4>1 DEF Begin
      <4> QED
        BY <2>1, <4>1, <4>2, BegunFollows, BeginFrame
    <3>2. CASE Kill(p)
      <4>1. /\ fs' = fs /\ access' = access /\ touched' = touched
            /\ \A q \in Describers \ {p} : walk'[q] = walk[q]
        BY <2>1, <3>2 DEF Kill, TInv
      <4> QED
        BY <2>1, <3>2, <4>1, KilledFollows
    <3>3. CASE Step(p)
      <4>1. PICK w : Put(p, w) /\ Following(w, Leaves \ touched[p])
        BY <2>1, <3>3, StepFollows DEF Followed
      <4> QED
        BY <2>1, <4>1 DEF Put, TInv
    <3> QED
      BY <1>3, <3>1, <3>2, <3>3
  <2>3. ASSUME NEW q \in Describers PROVE Following(walk[q], Leaves \ touched[q])'
    <3>1. Following(walk'[q], Leaves \ touched'[q])
      BY <2>1, <2>2
    <3> QED
      BY <2>2, <3>1, FollowingOn
  <2> QED
    BY <2>1, <2>3 DEF FInv
<1>4. ASSUME FInv, UNCHANGED vars PROVE FInv'
  <2>1. TInv' /\ fs' = fs /\ access' = access /\ walk' = walk /\ touched' = touched
    BY <1>4, TInvInductive DEF FInv, vars
  <2>2. ASSUME NEW q \in Describers PROVE Following(walk[q], Leaves \ touched[q])'
    BY <1>4, <2>1, FollowingOn DEF FInv
  <2> QED
    BY <2>1, <2>2 DEF FInv
<1> QED
  BY <1>1, <1>2, <1>3, <1>4 DEF Next

-----------------------------------------------------------------------------
(* judge_etc_entry, walk_etc: however describers, edits, restrictions and kills    *)
(* interleave, over any tree of directories: a successful description of /etc has,  *)
(* of the paths that nobody edited meanwhile, a record of exactly the visible ones   *)
(* that a fresh install would not reproduce, as they are, and names each one that    *)
(* cannot be read.  No provider may have a negative priority: such a one is never    *)
(* chosen, not even when there is no other.                                     *)
THEOREM DescribedFaithfully == NaturalPriorities => (Spec => []Faithful)
<1> SUFFICES ASSUME NaturalPriorities PROVE Spec => []Faithful
  OBVIOUS
<1>1. ASSUME FInv PROVE Faithful
  <2> SUFFICES ASSUME NEW p \in Describers, Ok(p), NEW x \in Leaves \ touched[p]
               PROVE  LET w == walk[p]
                          n == fs[x]
                      IN /\ x \in NamesIn(w.files) <=> Candidate(x) /\ Legible(n) /\ ~Reproduced(w, x, n)
                         /\ Candidate(x) /\ ~Legible(n) => x \in w.diagnostics
                         /\ \A r \in w.files : r.name = x =>
                              r = [RecordOf(x, n, n.data) EXCEPT !.content_ref = r.content_ref]
    BY DEF Faithful, Candidate
  <2>1. Tracked(walk[p], x) /\ ~Waiting(walk[p], x)
    BY <1>1 DEF FInv, Following, Walking, Ok, Waiting
  <2> QED
    BY <2>1 DEF Tracked, EtcSound, EtcComplete, NamesIn
<1>2. Init => FInv
  BY FInvInductive
<1>3. FInv /\ [Next]_vars => FInv'
  BY FInvInductive
<1> QED
  BY <1>1, <1>2, <1>3, PTL DEF Spec

(* full_scan: likewise a successful description with scope=full has, of the trees    *)
(* of the operating system, exactly the visible paths that no package owns, and of    *)
(* the legible ones that a package owns exactly those that differ from it.           *)
THEOREM ScannedFaithfully == NaturalPriorities => (Spec => []ScanFaithful)
<1> SUFFICES ASSUME NaturalPriorities PROVE Spec => []ScanFaithful
  OBVIOUS
<1>1. ASSUME FInv PROVE ScanFaithful
  <2> SUFFICES ASSUME NEW p \in Describers, Ok(p), Full,
                      NEW x \in Leaves \ touched[p], NEW top \in ScanDirs
               PROVE  LET w == walk[p]
                          n == fs[x]
                          base == BaselineFor(w, x)
                          candidate == Visible(x, top) /\ Regular(n)
                      IN /\ top \in Above[x] =>
                              (x \in NamesIn(w.unmanaged) <=> candidate /\ base = NoBaseline)
                         /\ candidate /\ Legible(n) /\ base # NoBaseline =>
                              (x \in NamesIn(w.changed) <=> Altered(base, n))
    BY DEF ScanFaithful, Altered
  <2>1. Tracked(walk[p], x) /\ ~Waiting(walk[p], x) /\ walk[p].phase = "scan"
    BY <1>1 DEF FInv, Following, Walking, Ok, Waiting
  <2>2. ScanSound(walk[p], x) /\ ScanComplete(walk[p], x)
    BY <2>1 DEF Tracked
  <2>3. top \in Above[x] => (ScanCandidate(x) <=> Visible(x, top) /\ Regular(fs[x]))
    <3>1. \A d \in ScanDirs : d \in Above[x] /\ top \in Above[x] => d = top
      BY OneTop, TreeAssumption
    <3> QED
      BY <3>1 DEF ScanCandidate, Visible
  <2>4. Visible(x, top) => top \in Above[x]
    BY DEF Visible
  <2> QED
    BY <2>1, <2>2, <2>3, <2>4 DEF ScanSound, ScanComplete, NamesIn
<1>2. Init => FInv
  BY FInvInductive
<1>3. FInv /\ [Next]_vars => FInv'
  BY FInvInductive
<1> QED
  BY <1>1, <1>2, <1>3, PTL DEF Spec

-----------------------------------------------------------------------------
(* The parser of .repo files: its state after n lines, as a function of n *)

AfterLine(text, g, n) ==
  IF n = 0 THEN [done |-> {}, rec |-> RepoDefaults] ELSE ParsedLine(g[n - 1], text[n])

ParsedTo(text, g, n) == g = [k \in 0..n |-> AfterLine(text, g, k)]

(* A text of any length has been parsed by some function: the shortest that    *)
(* had not been would have a predecessor that was.                            *)
LEMMA ParserStops ==
  ASSUME NEW text, NEW n \in Nat PROVE \E g : ParsedTo(text, g, n)
<1> DEFINE S == {k \in Nat : ~\E g : ParsedTo(text, g, k)}
<1>1. 0 \notin S
  <2> DEFINE f == [k \in 0..0 |-> [done |-> {}, rec |-> RepoDefaults]]
  <2>1. \A k \in 0..0 : k = 0
    OBVIOUS
  <2>2. ParsedTo(text, f, 0)
    BY <2>1 DEF ParsedTo, AfterLine
  <2> QED
    BY <2>2
<1>2. ASSUME NEW m \in Nat, m \notin S PROVE m + 1 \notin S
  <2>1. PICK g : ParsedTo(text, g, m)
    BY <1>2
  <2> DEFINE last == ParsedLine(g[m], text[m + 1])
             h == [k \in 0..(m + 1) |-> IF k = m + 1 THEN last ELSE g[k]]
  <2> HIDE DEF last
  <2>2. \A k \in 0..m : h[k] = g[k]
    OBVIOUS
  <2>3. h[m + 1] = last
    OBVIOUS
  <2>4. ASSUME NEW k \in 0..m PROVE h[k] = AfterLine(text, h, k)
    <3>1. g[k] = AfterLine(text, g, k)
      BY <2>1 DEF ParsedTo
    <3>2. k = 0 \/ h[k - 1] = g[k - 1]
      BY <2>2
    <3> HIDE DEF h
    <3> QED
      BY <2>2, <3>1, <3>2 DEF AfterLine
  <2>5. h[m + 1] = AfterLine(text, h, m + 1)
    <3>1. m + 1 # 0 /\ (m + 1) - 1 = m /\ h[m] = g[m]
      BY <2>2
    <3> HIDE DEF h
    <3> QED
      BY <2>3, <3>1 DEF AfterLine, last
  <2>6. \A k \in 0..(m + 1) : h[k] = AfterLine(text, h, k)
    <3>1. \A k \in 0..(m + 1) : k \in 0..m \/ k = m + 1
      OBVIOUS
    <3> HIDE DEF h
    <3> QED
      BY <2>4, <2>5, <3>1
  <2>7. h = [k \in 0..(m + 1) |-> h[k]]
    OBVIOUS
  <2> HIDE DEF h
  <2>8. ParsedTo(text, h, m + 1)
    BY <2>6, <2>7 DEF ParsedTo
  <2> QED
    BY <2>8
<1>3. S = {}
  <2> HIDE DEF S
  <2>1. SUFFICES ASSUME S # {} PROVE FALSE
    OBVIOUS
  <2>2. S \subseteq Nat
    BY DEF S
  <2>3. PICK m \in S : \A k \in S : m <= k
    BY <2>1, <2>2, LeastOf
  <2>4. m - 1 \in Nat /\ m - 1 \notin S
    BY <1>1, <2>2, <2>3
  <2> QED
    BY <1>2, <2>2, <2>3, <2>4
<1> QED
  BY <1>3

LEMMA SectionsParsed ==
  ASSUME NEW text, Len(text) \in Nat
  PROVE  \E g : ParsedTo(text, g, Len(text)) /\ Sections(text) = Flush(g[Len(text)]).done
<1> DEFINE N == Len(text)
           f == CHOOSE f : f = [n \in 0..N |-> IF n = 0 THEN [done |-> {}, rec |-> RepoDefaults]
                                               ELSE ParsedLine(f[n - 1], text[n])]
<1>1. Sections(text) = Flush(f[N]).done
  BY DEF Sections
<1>2. \A g : ParsedTo(text, g, N) <=>
         g = [n \in 0..N |-> IF n = 0 THEN [done |-> {}, rec |-> RepoDefaults]
                             ELSE ParsedLine(g[n - 1], text[n])]
  BY DEF ParsedTo, AfterLine
<1>3. f = [n \in 0..N |-> IF n = 0 THEN [done |-> {}, rec |-> RepoDefaults]
                             ELSE ParsedLine(f[n - 1], text[n])]
  BY <1>2, ParserStops
<1>4. ParsedTo(text, f, N)
  <2> HIDE DEF f
  <2> QED
    BY <1>2, <1>3
<1> HIDE DEF f
<1> QED
  BY <1>1, <1>4

-----------------------------------------------------------------------------
(* Settings: the last value of each key *)

LEMMA LastIs ==
  ASSUME NEW S \in SUBSET Nat, NEW m \in S, \A k \in S : k <= m PROVE Sets!Max(S) = m
<1> DEFINE P(x) == x \in S /\ \A k \in S : x >= k
<1>1. Sets!Max(S) = CHOOSE x : P(x)
  BY DEF Sets!Max
<1>2. P(m)
  OBVIOUS
<1>3. ASSUME NEW x, P(x) PROVE x = m
  BY <1>3
<1> HIDE DEF P
<1>4. P(CHOOSE x : P(x))
  BY <1>2
<1> QED
  BY <1>1, <1>3, <1>4

(* A line after all others has its say. *)
LEMMA LastValueOn ==
  ASSUME NEW text, NEW L \in SUBSET Nat, NEW n \in Nat, \A j \in L : j < n,
         NEW key, NEW default
  PROVE  LastValue(text, L \cup {n}, key, default) =
           IF text[n][1] = key THEN text[n][2] ELSE LastValue(text, L, key, default)
<1> DEFINE set(M) == {j \in M : text[j][1] = key}
<1>0. \A M : LastValue(text, M, key, default)
               = IF set(M) = {} THEN default ELSE text[Sets!Max(set(M))][2]
  BY DEF LastValue
<1>1. CASE text[n][1] = key
  <2>1. n \in set(L \cup {n})
    BY <1>1
  <2>3. set(L \cup {n}) \subseteq L \cup {n}
    OBVIOUS
  <2>4. L \cup {n} \subseteq Nat /\ \A k \in L \cup {n} : k <= n
    OBVIOUS
  <2> HIDE DEF set
  <2>2. Sets!Max(set(L \cup {n})) = n
    BY <2>1, <2>3, <2>4, LastIs
  <2> QED
    BY <1>0, <1>1, <2>1, <2>2
<1>2. CASE text[n][1] # key
  <2>1. set(L \cup {n}) = set(L)
    BY <1>2
  <2> HIDE DEF set
  <2> QED
    BY <1>0, <1>2, <2>1
<1> QED
  BY <1>1, <1>2

RepoFields == {"alias", "name", "url", "type", "enabled", "gpgcheck", "autorefresh", "priority"}

Numbers(text, lines) == {j \in lines : text[j][2] \in DOMAIN Numeral}

SettingsOf(s, text, alias, lines) ==
  /\ DOMAIN s = RepoFields /\ s = [f \in RepoFields |-> s[f]]
  /\ s.alias = alias
  /\ s.name = LastValue(text, lines, "name", "")
  /\ s.url = LastValue(text, lines, "baseurl", "")
  /\ s.type = LastValue(text, lines, "type", "")
  /\ s.enabled = (LastValue(text, lines, "enabled", "1") \in {"1", "true"})
  /\ s.gpgcheck = (LastValue(text, lines, "gpgcheck", "1") \in {"1", "true"})
  /\ s.autorefresh = (LastValue(text, lines, "autorefresh", "0") \in {"1", "true"})
  /\ s.priority = Numeral[LastValue(text, Numbers(text, lines), "priority", "99")]

LEMMA SettingsFields ==
  ASSUME NEW text, NEW alias, NEW lines
  PROVE  SettingsOf(Settings(text, alias, lines), text, alias, lines)
<1>1. ASSUME NEW s,
        s = [alias |-> alias, name |-> LastValue(text, lines, "name", ""),
             url |-> LastValue(text, lines, "baseurl", ""),
             type |-> LastValue(text, lines, "type", ""),
             enabled |-> LastValue(text, lines, "enabled", "1") \in {"1", "true"},
             gpgcheck |-> LastValue(text, lines, "gpgcheck", "1") \in {"1", "true"},
             autorefresh |-> LastValue(text, lines, "autorefresh", "0") \in {"1", "true"},
             priority |-> Numeral[LastValue(text, Numbers(text, lines), "priority", "99")]]
      PROVE  SettingsOf(s, text, alias, lines)
  <2>1. DOMAIN s = RepoFields /\ s = [f \in RepoFields |-> s[f]]
    BY <1>1 DEF RepoFields
  <2>2. s.enabled = (LastValue(text, lines, "enabled", "1") \in {"1", "true"})
    BY <1>1
  <2>3. s.gpgcheck = (LastValue(text, lines, "gpgcheck", "1") \in {"1", "true"})
    BY <1>1
  <2>4. s.autorefresh = (LastValue(text, lines, "autorefresh", "0") \in {"1", "true"})
    BY <1>1
  <2>5. s.priority = Numeral[LastValue(text, Numbers(text, lines), "priority", "99")]
    BY <1>1
  <2>6. /\ s.alias = alias /\ s.name = LastValue(text, lines, "name", "")
        /\ s.url = LastValue(text, lines, "baseurl", "")
        /\ s.type = LastValue(text, lines, "type", "")
    BY <1>1
  <2> QED
    BY <2>1, <2>2, <2>3, <2>4, <2>5, <2>6 DEF SettingsOf
<1> QED
  BY <1>1 DEF Settings, Numbers

(* A section starts with the settings of no lines. *)
LEMMA NoSettings ==
  ASSUME NEW text, NEW alias
  PROVE  Settings(text, alias, {}) = [RepoDefaults EXCEPT !.alias = alias]
<1> DEFINE s == Settings(text, alias, {})
<1>1. \A key, default : LastValue(text, {}, key, default) = default
  BY DEF LastValue
<1>2. Numbers(text, {}) = {}
  BY DEF Numbers
<1> HIDE DEF s
<1>3. SettingsOf(s, text, alias, {})
  BY SettingsFields DEF s
<1>5. s.priority = 99
  <2>1. s.priority = Numeral[LastValue(text, Numbers(text, {}), "priority", "99")]
    BY <1>3 DEF SettingsOf
  <2>2. Numeral["99"] = 99
    BY LineAssumption
  <2> QED
    BY <1>1, <1>2, <2>1, <2>2
<1>7. s.enabled = ("1" \in {"1", "true"}) /\ s.gpgcheck = ("1" \in {"1", "true"})
  BY <1>1, <1>3 DEF SettingsOf
<1>8. s.autorefresh = ("0" \in {"1", "true"})
  BY <1>1, <1>3 DEF SettingsOf
<1>9. s.enabled = TRUE /\ s.gpgcheck = TRUE /\ s.autorefresh = FALSE
  <2>1. "1" \in {"1", "true"} /\ ~("0" \in {"1", "true"})
    OBVIOUS
  <2>2. s.enabled = TRUE
    BY <1>7, <2>1
  <2>3. s.gpgcheck = TRUE
    BY <1>7, <2>1
  <2>4. s.autorefresh = FALSE
    <3>1. ("0" \in {"1", "true"}) = FALSE
      BY <2>1
    <3> QED
      BY <1>8, <3>1, Zenon
  <2> QED
    BY <2>2, <2>3, <2>4
<1>10. DOMAIN s = RepoFields /\ s = [f \in RepoFields |-> s[f]] /\ s.alias = alias
  BY <1>3 DEF SettingsOf
<1>6. s.name = "" /\ s.url = "" /\ s.type = ""
  BY <1>1, <1>3 DEF SettingsOf
<1>4. s = [RepoDefaults EXCEPT !.alias = alias]
  <2> DEFINE r == RepoDefaults
             q == [r EXCEPT !.alias = alias]
  <2>1. /\ DOMAIN r = RepoFields /\ r.name = "" /\ r.url = "" /\ r.type = ""
        /\ r.enabled = TRUE /\ r.gpgcheck = TRUE /\ r.autorefresh = FALSE /\ r.priority = 99
    BY DEF RepoDefaults, RepoFields
  <2> HIDE DEF r
  <2>2. /\ q = [f \in RepoFields |-> q[f]] /\ q.alias = alias
        /\ q.name = "" /\ q.url = "" /\ q.type = ""
        /\ q.enabled = TRUE /\ q.gpgcheck = TRUE /\ q.autorefresh = FALSE /\ q.priority = 99
    BY <2>1 DEF RepoFields
  <2> HIDE DEF q
  <2>3. \A f \in RepoFields : s[f] = q[f]
    <3>1. s.name = q.name /\ s.url = q.url /\ s.type = q.type
      BY <2>2, <1>6
    <3>2. s.enabled = q.enabled /\ s.gpgcheck = q.gpgcheck /\ s.autorefresh = q.autorefresh
      BY <2>2, <1>9
    <3>3. s.priority = q.priority /\ s.alias = q.alias
      BY <2>2, <1>5, <1>10
    <3> HIDE DEF s
    <3> QED
      BY <3>1, <3>2, <3>3, Zenon DEF RepoFields
  <2> QED
    BY <1>10, <2>2, <2>3 DEF q, r
<1> QED
  BY <1>4 DEF s

(* An assignment is one more line. *)
LEMMA SettingsOn ==
  ASSUME NEW text, NEW alias, NEW L \in SUBSET Nat, NEW n \in Nat, \A j \in L : j < n
  PROVE  Settings(text, alias, L \cup {n}) =
           Assigned(Settings(text, alias, L), text[n][1], text[n][2])
<1> DEFINE key == text[n][1]
           value == text[n][2]
           M == L \cup {n}
           s == Settings(text, alias, L)
           t == Settings(text, alias, M)
<1>1. \A k, default : LastValue(text, M, k, default)
                        = IF key = k THEN value ELSE LastValue(text, L, k, default)
  BY LastValueOn
<1>2. LastValue(text, Numbers(text, M), "priority", "99")
        = IF key = "priority" /\ value \in DOMAIN Numeral THEN value
          ELSE LastValue(text, Numbers(text, L), "priority", "99")
  <2>1. CASE value \in DOMAIN Numeral
    <3>1. /\ Numbers(text, M) = Numbers(text, L) \cup {n} /\ Numbers(text, L) \in SUBSET Nat
          /\ \A j \in Numbers(text, L) : j < n
      BY <2>1 DEF Numbers
    <3> QED
      BY <2>1, <3>1, LastValueOn
  <2>2. CASE value \notin DOMAIN Numeral
    <3>1. Numbers(text, M) = Numbers(text, L)
      BY <2>2 DEF Numbers
    <3> QED
      BY <2>2, <3>1
  <2> QED
    BY <2>1, <2>2
<1> HIDE DEF M, key, value, s, t
<1>3. SettingsOf(s, text, alias, L) /\ SettingsOf(t, text, alias, M)
  BY SettingsFields DEF s, t
<1>4. /\ DOMAIN s = RepoFields /\ s = [f \in RepoFields |-> s[f]]
      /\ DOMAIN t = RepoFields /\ t = [f \in RepoFields |-> t[f]]
      /\ s.alias = alias /\ t.alias = alias
  BY <1>3 DEF SettingsOf
<1>5. /\ t.name = IF key = "name" THEN value ELSE s.name
      /\ t.url = IF key = "baseurl" THEN value ELSE s.url
      /\ t.type = IF key = "type" THEN value ELSE s.type
  BY <1>1, <1>3 DEF SettingsOf
<1>6. t.enabled = IF key = "enabled" THEN value \in {"1", "true"} ELSE s.enabled
  BY <1>1, <1>3 DEF SettingsOf
<1>7. t.gpgcheck = IF key = "gpgcheck" THEN value \in {"1", "true"} ELSE s.gpgcheck
  BY <1>1, <1>3 DEF SettingsOf
<1>8. t.autorefresh = IF key = "autorefresh" THEN value \in {"1", "true"} ELSE s.autorefresh
  <2>1. /\ s.autorefresh = (LastValue(text, L, "autorefresh", "0") \in {"1", "true"})
        /\ t.autorefresh = (LastValue(text, M, "autorefresh", "0") \in {"1", "true"})
    BY <1>3 DEF SettingsOf
  <2>2. LastValue(text, M, "autorefresh", "0")
          = IF key = "autorefresh" THEN value ELSE LastValue(text, L, "autorefresh", "0")
    BY <1>1
  <2> QED
    BY <2>1, <2>2
<1>9. t.priority = IF key = "priority" /\ value \in DOMAIN Numeral THEN Numeral[value]
                   ELSE s.priority
  BY <1>2, <1>3 DEF SettingsOf
<1>10. t = Assigned(s, key, value)
  <2>1. key \in {"enabled", "gpgcheck", "autorefresh"} => t = Assigned(s, key, value)
    BY <1>4, <1>5, <1>6, <1>7, <1>8, <1>9 DEF Assigned, RepoFields
  <2>2. key = "priority" => t = Assigned(s, key, value)
    BY <1>4, <1>5, <1>6, <1>7, <1>8, <1>9 DEF Assigned, RepoFields
  <2>3. key = "baseurl" => t = Assigned(s, key, value)
    BY <1>4, <1>5, <1>6, <1>7, <1>8, <1>9 DEF Assigned, RepoFields
  <2>4. key \in {"name", "type"} => t = Assigned(s, key, value)
    BY <1>4, <1>5, <1>6, <1>7, <1>8, <1>9 DEF Assigned, RepoFields
  <2>5. key \notin {"enabled", "gpgcheck", "autorefresh", "priority", "baseurl", "name", "type"}
          => t = Assigned(s, key, value)
    BY <1>4, <1>5, <1>6, <1>7, <1>8, <1>9 DEF Assigned, RepoFields
  <2> QED
    BY <2>1, <2>2, <2>3, <2>4, <2>5
<1> QED
  BY <1>10 DEF t, s, M, key, value

-----------------------------------------------------------------------------
(* The sections of a file *)

Alias(text, i) == IF i = 0 THEN "" ELSE text[i][2]

Named(text, n) == {i \in 1..n : IsHeader(text, i) /\ text[i][2] # ""}

(* The sections that some headers begin. *)
Sectioned(text, headers) == {Settings(text, text[i][2], Body(text, i)) : i \in headers}

(* Where the parser is after n lines: it has the sections before the last       *)
(* header i (the beginning of the text, when there is none), and of the last     *)
(* section the settings so far.                                                *)
Reading(text, n, s) ==
  /\ s = [done |-> s.done, rec |-> s.rec]
  /\ \E i \in 0..n :
       /\ i = 0 \/ IsHeader(text, i)
       /\ \A k \in (i + 1)..n : ~IsHeader(text, k)
       /\ s.done = Sectioned(text, {j \in Named(text, n) : j < i})
       /\ s.rec = Settings(text, Alias(text, i), (i + 1)..n)

(* Before a header, and at the end of the text, the last section is added. *)
LEMMA Flushed ==
  ASSUME NEW text, Len(text) \in Nat, NEW n \in 0..Len(text), NEW s, Reading(text, n, s),
         n = Len(text) \/ IsHeader(text, n + 1)
  PROVE  Flush(s) = [done |-> Sectioned(text, Named(text, n)), rec |-> RepoDefaults]
<1>1. PICK i \in 0..n :
        /\ i = 0 \/ IsHeader(text, i)
        /\ \A k \in (i + 1)..n : ~IsHeader(text, k)
        /\ s.done = Sectioned(text, {j \in Named(text, n) : j < i})
        /\ s.rec = Settings(text, Alias(text, i), (i + 1)..n)
  BY DEF Reading
<1> DEFINE earlier == {j \in Named(text, n) : j < i}
<1>2. s.rec.alias = Alias(text, i)
  <2> DEFINE r == Settings(text, Alias(text, i), (i + 1)..n)
  <2>1. SettingsOf(r, text, Alias(text, i), (i + 1)..n)
    BY SettingsFields
  <2> HIDE DEF r
  <2>2. r.alias = Alias(text, i)
    BY <2>1 DEF SettingsOf
  <2> QED
    BY <1>1, <2>2 DEF r
<1>5. n \in Nat /\ i \in Nat /\ (i # 0 => i \in 1..n)
  OBVIOUS
<1>6. \A j \in Named(text, n) : j < i \/ j = i
  <2>1. \A j \in Named(text, n) : j \in 1..n /\ IsHeader(text, j)
    BY DEF Named
  <2> QED
    BY <1>1, <1>5, <2>1
<1>3. CASE Alias(text, i) = ""
  <2>1. i \notin Named(text, n)
    <3>1. CASE i = 0
      BY <1>5, <3>1 DEF Named
    <3>2. CASE i # 0
      BY <1>3, <3>2 DEF Alias, Named
    <3> QED
      BY <3>1, <3>2
  <2>2. Named(text, n) = earlier
    BY <1>6, <2>1
  <2> QED
    BY <1>1, <1>2, <1>3, <2>2 DEF Flush
<1>4. CASE Alias(text, i) # ""
  <2>1. i # 0 /\ Alias(text, i) = text[i][2]
    BY <1>4 DEF Alias
  <2>6. i \in Named(text, n)
    BY <1>1, <1>4, <1>5, <2>1 DEF Named
  <2>2. Named(text, n) = earlier \cup {i}
    BY <1>6, <2>6
  <2>3. Body(text, i) = (i + 1)..n
    <3>1. (i + 1)..n \subseteq Body(text, i)
      BY <1>1 DEF Body
    <3>2. ASSUME NEW j \in Body(text, i) PROVE j \in (i + 1)..n
      <4>1. j \in (i + 1)..Len(text) /\ \A k \in (i + 1)..j : ~IsHeader(text, k)
        BY DEF Body
      <4>2. n + 1 <= j => n + 1 \in (i + 1)..j
        BY <4>1
      <4>3. n + 1 <= j => n # Len(text)
        BY <4>1
      <4> QED
        BY <4>1, <4>2, <4>3
    <3> QED
      BY <3>1, <3>2
  <2>4. s.rec = Settings(text, text[i][2], Body(text, i))
    BY <1>1, <2>1, <2>3
  <2>5. Sectioned(text, Named(text, n)) = s.done \cup {s.rec}
    BY <1>1, <2>2, <2>4 DEF Sectioned
  <2> QED
    BY <1>2, <1>4, <2>5 DEF Flush
<1> QED
  BY <1>3, <1>4

(* One more line. *)
LEMMA ReadingOn ==
  ASSUME NEW text, text \in Seq(STRING \X STRING), NEW n \in 1..Len(text),
         NEW s, Reading(text, n - 1, s)
  PROVE  Reading(text, n, ParsedLine(s, text[n]))
<1> DEFINE t == ParsedLine(s, text[n])
<1>0. /\ Len(text) \in Nat /\ n \in Nat /\ n # 0 /\ n - 1 \in 0..Len(text) /\ (n - 1) + 1 = n
      /\ 1..(n - 1) = {j \in 1..n : j < n}
  OBVIOUS
<1>1. CASE IsHeader(text, n)
  <2>1. Flush(s) = [done |-> Sectioned(text, Named(text, n - 1)), rec |-> RepoDefaults]
    BY <1>0, <1>1, Flushed
  <2>2. t = [Flush(s) EXCEPT !.rec.alias = text[n][2]]
    BY <1>1 DEF ParsedLine, IsHeader
  <2> DEFINE done == Sectioned(text, Named(text, n - 1))
             rec == [RepoDefaults EXCEPT !.alias = text[n][2]]
  <2>3. t = [done |-> done, rec |-> rec]
    <3>1. Flush(s) = [done |-> done, rec |-> RepoDefaults]
      BY <2>1
    <3> HIDE DEF done
    <3> QED
      BY <2>2, <3>1
  <2>4. rec = Settings(text, Alias(text, n), (n + 1)..n)
    <3>1. (n + 1)..n = {}
      OBVIOUS
    <3>2. Alias(text, n) = text[n][2]
      BY <1>0 DEF Alias
    <3> QED
      BY <3>1, <3>2, NoSettings
  <2>5. Named(text, n - 1) = {j \in Named(text, n) : j < n}
    BY <1>0 DEF Named
  <2> HIDE DEF t, rec
  <2>6. Reading(text, n, t)
    <3>1. n \in 0..n /\ \A k \in (n + 1)..n : ~IsHeader(text, k)
      OBVIOUS
    <3>2. t.done = Sectioned(text, {j \in Named(text, n) : j < n}) /\ t.rec = rec
      BY <2>3, <2>5
    <3>3. t = [done |-> t.done, rec |-> t.rec]
      BY <2>3
    <3> QED
      BY <1>1, <2>4, <3>1, <3>2, <3>3 DEF Reading
  <2> QED
    BY <2>6 DEF t
<1>2. CASE ~IsHeader(text, n)
  <2>1. PICK i \in 0..(n - 1) :
          /\ i = 0 \/ IsHeader(text, i)
          /\ \A k \in (i + 1)..(n - 1) : ~IsHeader(text, k)
          /\ s.done = Sectioned(text, {j \in Named(text, n - 1) : j < i})
          /\ s.rec = Settings(text, Alias(text, i), (i + 1)..(n - 1))
    BY DEF Reading
  <2>2. t = [s EXCEPT !.rec = Assigned(s.rec, text[n][1], text[n][2])]
    BY <1>2 DEF ParsedLine, IsHeader
  <2>3. s = [done |-> s.done, rec |-> s.rec]
    BY DEF Reading
  <2> DEFINE rec == Assigned(s.rec, text[n][1], text[n][2])
             done == s.done
             was == s.rec
  <2>4. t = [done |-> done, rec |-> rec]
    <3> HIDE DEF rec
    <3>1. s = [done |-> done, rec |-> was]
      BY <2>3
    <3> HIDE DEF done, was
    <3> QED
      BY <2>2, <3>1 DEF rec
  <2>5. rec = Settings(text, Alias(text, i), (i + 1)..n)
    <3> DEFINE L == (i + 1)..(n - 1)
    <3>1. (i + 1)..n = L \cup {n}
      OBVIOUS
    <3>2. L \in SUBSET Nat /\ \A j \in L : j < n
      OBVIOUS
    <3>3. s.rec = Settings(text, Alias(text, i), L)
      BY <2>1
    <3> HIDE DEF L
    <3>4. Settings(text, Alias(text, i), L \cup {n})
            = Assigned(Settings(text, Alias(text, i), L), text[n][1], text[n][2])
      BY <1>0, <3>2, SettingsOn
    <3> QED
      BY <3>1, <3>3, <3>4
  <2>6. {j \in Named(text, n - 1) : j < i} = {j \in Named(text, n) : j < i}
    <3>1. \A j \in 1..n : j < i => j \in 1..(n - 1)
      OBVIOUS
    <3>2. \A j \in 1..(n - 1) : j \in 1..n
      OBVIOUS
    <3> QED
      BY <3>1, <3>2 DEF Named
  <2> HIDE DEF t, rec, done
  <2>7. Reading(text, n, t)
    <3>1. i \in 0..n /\ \A k \in (i + 1)..n : k \in (i + 1)..(n - 1) \/ k = n
      OBVIOUS
    <3>2. \A k \in (i + 1)..n : ~IsHeader(text, k)
      BY <1>2, <2>1, <3>1
    <3>3. t.done = Sectioned(text, {j \in Named(text, n) : j < i}) /\ t.rec = rec
      BY <2>1, <2>4, <2>6 DEF done
    <3>4. t = [done |-> t.done, rec |-> t.rec]
      BY <2>4
    <3> QED
      BY <2>1, <2>5, <3>1, <3>2, <3>3, <3>4 DEF Reading
  <2> QED
    BY <2>7 DEF t
<1> QED
  BY <1>1, <1>2

(* The parser finds in a .repo file what the file says. *)
LEMMA ParsedRight ==
  ASSUME NEW text, text \in Seq(STRING \X STRING) PROVE Sections(text) = DeclaredRepos(text)
<1> DEFINE N == Len(text)
<1>0. N \in Nat /\ DOMAIN text = 1..N
  OBVIOUS
<1>1. PICK g : ParsedTo(text, g, N) /\ Sections(text) = Flush(g[N]).done
  BY <1>0, SectionsParsed
<1>2. g[0] = [done |-> {}, rec |-> RepoDefaults]
  BY <1>0, <1>1 DEF ParsedTo, AfterLine
<1>3. \A n \in 1..N : g[n] = ParsedLine(g[n - 1], text[n])
  <2>1. \A n \in 0..N : g[n] = AfterLine(text, g, n)
    BY <1>1 DEF ParsedTo
  <2> QED
    BY <1>0, <2>1 DEF AfterLine
<1> DEFINE S == {n \in 0..N : ~Reading(text, n, g[n])}
<1>4. Reading(text, 0, g[0])
  <2>1. g[0].rec = RepoDefaults /\ g[0].done = {} /\ g[0] = [done |-> g[0].done, rec |-> g[0].rec]
    BY <1>2
  <2>2. RepoDefaults = [RepoDefaults EXCEPT !.alias = ""]
    <3> DEFINE r == RepoDefaults
    <3>1. r = [f \in DOMAIN r |-> r[f]] /\ r["alias"] = ""
      BY DEF RepoDefaults
    <3> HIDE DEF r
    <3> QED
      BY <3>1 DEF r
  <2>3. 1..0 = {} /\ 0 + 1 = 1 /\ 0 \in 0..0 /\ \A k \in 1..0 : FALSE
    OBVIOUS
  <2>4. g[0].rec = Settings(text, Alias(text, 0), 1..0)
    <3>1. Settings(text, "", {}) = [RepoDefaults EXCEPT !.alias = ""]
      BY NoSettings
    <3>2. Alias(text, 0) = ""
      BY DEF Alias
    <3> QED
      BY <2>1, <2>2, <2>3, <3>1, <3>2
  <2>5. Named(text, 0) = {}
    BY <2>3 DEF Named
  <2>6. g[0].done = Sectioned(text, {j \in Named(text, 0) : j < 0})
    BY <2>1, <2>5 DEF Sectioned
  <2> QED
    BY <2>1, <2>3, <2>4, <2>6 DEF Reading
<1>5. S = {}
  <2>1. SUFFICES ASSUME S # {} PROVE FALSE
    OBVIOUS
  <2>2. S \subseteq Nat
    BY <1>0
  <2> HIDE DEF S
  <2>3. PICK m \in S : \A k \in S : m <= k
    BY <2>1, <2>2, LeastOf
  <2>4. m \in 0..N /\ ~Reading(text, m, g[m])
    BY DEF S
  <2>5. m \in 1..N /\ m - 1 \in 0..N /\ m - 1 \notin S
    BY <1>0, <1>4, <2>3, <2>4
  <2>6. Reading(text, m - 1, g[m - 1])
    BY <2>5 DEF S
  <2> QED
    BY <1>3, <2>4, <2>5, <2>6, ReadingOn
<1>6. Reading(text, N, g[N])
  BY <1>0, <1>5
<1>7. Flush(g[N]).done = Sectioned(text, Named(text, N))
  <2>1. Flush(g[N]) = [done |-> Sectioned(text, Named(text, N)), rec |-> RepoDefaults]
    BY <1>0, <1>6, Flushed
  <2> QED
    BY <2>1
<1> QED
  BY <1>0, <1>1, <1>7 DEF Sectioned, Named, DeclaredRepos

-----------------------------------------------------------------------------
(* The scopes besides files, along a walk *)

(* Each scope is what its query gave, from the query to the end of the walk. *)
ScopesRight(p) ==
  walk[p].result \in {"none", "ok"} =>
    /\ walk[p].pc # "idle" =>
         /\ walk[p].packages \subseteq Installed(Len(Headers))
         /\ mishaps = 0 => walk[p].packages = Installed(Len(Headers))
    /\ walk[p].pc \notin {"idle", "repos"} =>
         (In(ReposDir) \cap touched[p] = {} => walk[p].repositories = Repositories)
    /\ walk[p].pc \notin {"idle", "repos", "services"} =>
         /\ walk[p].services \subseteq Units(Len(UnitFiles))
         /\ mishaps = 0 => walk[p].services = Units(Len(UnitFiles))

ScopeInv == TInv /\ mishaps \in Nat /\ \A p \in Describers : ScopesRight(p)

Scopes(w) == <<w.packages, w.repositories, w.services>>

LEMMA ScopesOn ==
  ASSUME NEW w, DOMAIN w = Fields
  PROVE  /\ Scopes(NextEntry(w)) = Scopes(w)
         /\ \A rec : Scopes(Emit(w, rec)) = Scopes(w)
         /\ \A result : Scopes(Finished(w, result)) = Scopes(w)
         /\ \A p, sources : p \in Describers /\ DOMAIN walk[p] = Fields /\ Scopes(w) = Scopes(walk[p])
              => Scopes(Complain(p, sources, w)) = Scopes(walk[p])
<1>1. Scopes(NextEntry(w)) = Scopes(w)
  BY DEF Scopes, NextEntry, Fields
<1>2. \A rec : Scopes(Emit(w, rec)) = Scopes(w)
  BY DEF Scopes, Emit, NextEntry, Fields
<1>3. \A u, result : DOMAIN u = Fields => Scopes(Finished(u, result)) = Scopes(u)
  BY DEF Scopes, Finished, Fields
<1>4. \A sources : Scopes([w EXCEPT !.diagnostics = @ \cup sources]) = Scopes(w)
  BY DEF Scopes, Fields
<1> QED
  BY <1>1, <1>2, <1>3, <1>4 DEF Complain

(* The steps of the walk leave the scopes alone. *)
Unscoped(p) == \E w : Put(p, w) /\ Scopes(w) = Scopes(walk[p])

LEMMA WalkUnscoped ==
  ASSUME TInv, NEW p \in Describers
  PROVE  OpenDir(p) \/ Stat(p) \/ TreeDone(p) => Unscoped(p)
<1>0. DOMAIN walk[p] = Fields
  BY DEF TInv, WalkOK
<1>1. ASSUME OpenDir(p) PROVE Unscoped(p)
  <2> DEFINE d == First(walk[p].stack)
             w == [walk[p] EXCEPT !.stack = @ \ {d}]
             listed == {x \in In(d) : x \in Leaves => fs[x] # NoNode}
             open == [w EXCEPT !.todo = listed]
  <2>1. DOMAIN w = Fields /\ Scopes(w) = Scopes(walk[p]) /\ Scopes(open) = Scopes(walk[p])
    BY <1>0 DEF Scopes, Fields
  <2>2. Become(p, CASE access[d] = "ok" -> open
                    [] access[d] = "broken" /\ w.phase = "etc" -> Complain(p, {d}, w)
                    [] OTHER -> w)
    BY <1>1 DEF OpenDir
  <2> HIDE DEF w, d, open
  <2>3. Scopes(Complain(p, {d}, w)) = Scopes(walk[p])
    BY <1>0, <2>1, ScopesOn
  <2>4. \E v \in {open, Complain(p, {d}, w), w} : Become(p, v)
    BY <2>2
  <2> QED
    BY <2>1, <2>3, <2>4 DEF Unscoped, Become
<1>2. ASSUME Stat(p) PROVE Unscoped(p)
  <2> DEFINE x == First(walk[p].todo)
             w == [walk[p] EXCEPT !.todo = @ \ {x}]
             down == [w EXCEPT !.stack = @ \cup {x}]
             there == [w EXCEPT !.pc = "read", !.path = x, !.seen = fs[x]]
  <2>1. \A v \in {w, down, there} : Scopes(v) = Scopes(walk[p])
    BY <1>0 DEF Scopes, Fields
  <2>2. Become(p, IF Skipped(w, x) THEN w
                  ELSE IF x \in Dirs THEN down
                  ELSE IF fs[x] = NoNode \/ fs[x].type = "special" THEN w
                  ELSE there)
    BY <1>2 DEF Stat
  <2> HIDE DEF w, x, down, there
  <2>3. \E v \in {w, down, there} : Become(p, v)
    BY <2>2
  <2> QED
    BY <2>1, <2>3 DEF Unscoped, Become
<1>3. ASSUME TreeDone(p) PROVE Unscoped(p)
  <2> DEFINE scan == [walk[p] EXCEPT !.phase = "scan", !.stack = ScanDirs]
             over == Finished(walk[p], "ok")
  <2>1. Scopes(scan) = Scopes(walk[p])
    BY <1>0 DEF Scopes, Fields
  <2>2. Scopes(over) = Scopes(walk[p])
    BY <1>0, ScopesOn
  <2>3. Become(p, scan) \/ Become(p, over)
    BY <1>3 DEF TreeDone
  <2> HIDE DEF scan, over
  <2> QED
    BY <2>1, <2>2, <2>3 DEF Unscoped, Become
<1> QED
  BY <1>1, <1>2, <1>3

LEMMA EntryUnscoped ==
  ASSUME TInv, NEW p \in Describers
  PROVE  Read(p) \/ Judge(p) \/ Scan(p) => Unscoped(p)
<1> DEFINE w == walk[p]
           n == NextEntry(w)
<1>0. DOMAIN w = Fields /\ DOMAIN n = Fields /\ Scopes(n) = Scopes(w)
  <2>1. DOMAIN w = Fields
    BY DEF TInv, WalkOK
  <2> QED
    BY <2>1, ScopesOn DEF NextEntry
<1>1. ASSUME Read(p) PROVE Unscoped(p)
  <2> DEFINE got == Got(w)
             there(r) == [w EXCEPT !.pc = "judge", !.rec = r]
  <2>1. \A r : Scopes(there(r)) = Scopes(w)
    BY <1>0 DEF Scopes, Fields
  <2>2. Become(p, CASE got = NoTarget   -> n
                    [] got = Unreadable -> Complain(p, {w.path}, n)
                    [] OTHER -> there(RecordOf(w.path, w.seen, got)))
    BY <1>1 DEF Read
  <2>3. Scopes(Complain(p, {w.path}, n)) = Scopes(w)
    BY <1>0, ScopesOn
  <2> HIDE DEF there, got, n
  <2>4. \E v \in {n, Complain(p, {w.path}, n), there(RecordOf(w.path, w.seen, got))} : Become(p, v)
    BY <2>2
  <2> QED
    BY <1>0, <2>1, <2>3, <2>4 DEF Unscoped, Become
<1>2. ASSUME Judge(p) PROVE Unscoped(p)
  <2> DEFINE store == [w EXCEPT !.pc = "store"]
  <2>1. Scopes(store) = Scopes(w) /\ Scopes(Emit(w, w.rec)) = Scopes(w)
    BY <1>0, ScopesOn DEF Scopes, Fields
  <2>2. Become(p, IF ~Differs(w.rec, BaselineFor(w, w.path), fs[w.path]) THEN n
                  ELSE IF Store /\ w.rec.type = "file" THEN store
                  ELSE Emit(w, w.rec))
    BY <1>2 DEF Judge
  <2> HIDE DEF store, n
  <2>3. \E v \in {n, store, Emit(w, w.rec)} : Become(p, v)
    BY <2>2
  <2> QED
    BY <1>0, <2>1, <2>3 DEF Unscoped, Become
<1>3. ASSUME Scan(p) PROVE Unscoped(p)
  <2> HIDE DEF n
  <2>1. \A r : /\ Scopes([n EXCEPT !.unmanaged = @ \cup {r}]) = Scopes(w)
               /\ Scopes([n EXCEPT !.changed = @ \cup {r}]) = Scopes(w)
    BY <1>0 DEF Scopes, Fields
  <2>2. \E r : \/ Become(p, [n EXCEPT !.unmanaged = @ \cup {r}])
               \/ Become(p, [n EXCEPT !.changed = @ \cup {r}])
               \/ Become(p, n)
    BY <1>3 DEF Scan, n
  <2> QED
    BY <1>0, <2>1, <2>2 DEF Unscoped, Become
<1> QED
  BY <1>1, <1>2, <1>3

LEMMA StoringUnscoped ==
  ASSUME TInv, NEW p \in Describers
  PROVE  LookUpBlob(p) \/ ReadAgain(p) \/ OpenBlob(p) \/ WriteBlob(p) \/ StoreFails(p) => Unscoped(p)
<1> DEFINE w == walk[p]
           u(r) == Emit(w, r)
           copy == [w EXCEPT !.pc = "copy"]
           open(got) == [w EXCEPT !.pc = "open", !.bytes = got]
           write == [w EXCEPT !.pc = "write"]
<1>0. DOMAIN w = Fields
  BY DEF TInv, WalkOK
<1>1. \A r : Scopes(u(r)) = Scopes(w)
  BY <1>0, ScopesOn
<1>2. /\ Scopes(copy) = Scopes(w) /\ Scopes(write) = Scopes(w)
      /\ \A got : Scopes(open(got)) = Scopes(w)
  BY <1>0 DEF Scopes, Fields
<1>3. \A sources : Scopes(Complain(p, sources, u(w.rec))) = Scopes(w)
  <2>1. DOMAIN u(w.rec) = Fields
    BY <1>0 DEF Emit, NextEntry
  <2> QED
    BY <1>0, <1>1, <2>1, ScopesOn
<1>4. LookUpBlob(p) => Become(p, u(WithRef(w.rec))) \/ Become(p, copy)
  BY DEF LookUpBlob
<1>5. ReadAgain(p) => \E got : Become(p, Complain(p, {w.path}, u(w.rec))) \/ Become(p, open(got))
  BY DEF ReadAgain
<1>6. OpenBlob(p) => Put(p, write)
  BY DEF OpenBlob
<1>7. WriteBlob(p) \/ StoreFails(p) => Put(p, u(WithRef(w.rec)))
  BY DEF WriteBlob, StoreFails
<1> HIDE DEF u, copy, open, write
<1> QED
  BY <1>1, <1>2, <1>3, <1>4, <1>5, <1>6, <1>7 DEF Unscoped, Become

(* What a step does to the count of mishaps. *)
LEMMA MishapsGrow ==
  ASSUME TInv, mishaps \in Nat, [Next]_vars PROVE mishaps' \in Nat /\ (mishaps' = 0 => mishaps = 0)
<1>1. \A p \in Describers : Step(p) => mishaps' \in {mishaps, mishaps + 1}
  BY StepFrame
<1>2. mishaps' \in {mishaps, mishaps + 1}
  BY <1>1 DEF Next, Edit, Restrict, Touch, Start, StartBadly, Kill, vars
<1> QED
  BY <1>2

(* The queries. *)
LEMMA QueriesRight ==
  ASSUME TInv, mishaps \in Nat, NEW p \in Describers, ScopesRight(p)
  PROVE  /\ Start(p) \/ StartBadly(p) => ScopesRight(p)'
         /\ ReadRepositories(p) => ScopesRight(p)'
         /\ ReadServices(p) \/ SystemctlFails(p) => ScopesRight(p)'
<1>0. /\ DOMAIN walk = Describers /\ DOMAIN walk[p] = Fields
      /\ walk[p].pc # "done" => walk[p].result = "none"
  BY DEF TInv, WalkOK
<1>1. ASSUME Start(p) \/ StartBadly(p) PROVE ScopesRight(p)'
  <2>0. Len(Headers) \in Nat
    BY LineAssumption
  <2>1. PICK rpmdb, n : /\ Begin(p, rpmdb, n) /\ n \in 0..Len(Headers)
                        /\ n # Len(Headers) => mishaps' = mishaps + 1
    <3>1. Start(p) => Begin(p, TRUE, Len(Headers)) /\ Len(Headers) \in 0..Len(Headers)
      <4>1. \A m \in Nat : m \in 0..m
        OBVIOUS
      <4> QED
        BY <2>0, <4>1 DEF Start
    <3>2. StartBadly(p) =>
            /\ mishaps' = mishaps + 1
            /\ \/ Begin(p, FALSE, 0)
               \/ \E n \in 0..(Len(Headers) - 1) : Begin(p, TRUE, n)
      BY DEF StartBadly
    <3>3. 0 \in 0..Len(Headers) /\ \A n \in 0..(Len(Headers) - 1) : n \in 0..Len(Headers)
      BY <2>0
    <3> QED
      BY <1>1, <3>1, <3>2, <3>3
  <2> DEFINE packages == Installed(n)
             v == [walk[p] EXCEPT !.pc = "repos", !.rpmdb = rpmdb, !.packages = packages]
  <2>2. walk'[p] = v
    BY <1>0, <2>1 DEF Begin
  <2>3. v.pc = "repos" /\ v.packages = packages
    BY <1>0 DEF Fields
  <2>4. packages \subseteq Installed(Len(Headers)) /\ (mishaps' = 0 => packages = Installed(Len(Headers)))
    <3>1. 1..n \subseteq 1..Len(Headers)
      BY <2>0, <2>1
    <3>2. mishaps' = 0 => n = Len(Headers)
      BY <2>1
    <3> QED
      BY <3>1, <3>2 DEF Installed
  <2> HIDE DEF v, packages
  <2> QED
    BY <2>2, <2>3, <2>4 DEF ScopesRight
<1>2. ASSUME ReadRepositories(p) PROVE ScopesRight(p)'
  <2> DEFINE repos == Repositories
             w == [walk[p] EXCEPT !.pc = "services", !.repositories = repos]
             v == [w EXCEPT !.diagnostics = @ \cup UnreadableRepos]
             e == Finished(walk[p], "error")
  <2>1. walk[p].pc = "repos" /\ Become(p, Complain(p, UnreadableRepos, w))
    BY <1>2 DEF ReadRepositories
  <2>2. /\ v.pc = "services" /\ v.packages = walk[p].packages /\ v.repositories = repos
        /\ e.result = "error"
    BY <1>0 DEF Fields, Finished
  <2> HIDE DEF w, repos
  <2>3. Become(p, v) \/ Become(p, e)
    BY <2>1 DEF Complain
  <2> HIDE DEF v, e
  <2>4. /\ walk'[p] = v \/ walk'[p] = e
        /\ mishaps' = mishaps /\ fs' = fs /\ access' = access
    BY <1>0, <2>3 DEF Become, Put
  <2>5. Repositories' = repos
    BY <2>4 DEF repos, Repositories, ReadableRepos, UnreadableRepos, RepoFiles
  <2> QED
    BY <1>0, <2>1, <2>2, <2>4, <2>5 DEF ScopesRight
<1>3. ASSUME ReadServices(p) \/ SystemctlFails(p) PROVE ScopesRight(p)'
  <2>1. PICK n \in 0..Len(UnitFiles) : /\ ListUnits(p, n)
                                       /\ mishaps' \in {mishaps, mishaps + 1}
                                       /\ n # Len(UnitFiles) => mishaps' = mishaps + 1
    BY <1>3, LineAssumption DEF ReadServices, SystemctlFails
  <2> DEFINE units == Units(n)
             v == [NextEntry(walk[p]) EXCEPT !.stack = {EtcDir}, !.services = units]
  <2>2. walk[p].pc = "services" /\ walk'[p] = v /\ touched' = touched /\ fs' = fs /\ access' = access
    BY <1>0, <2>1 DEF ListUnits, Put
  <2>3. /\ v.pc = "walk" /\ v.services = units /\ v.packages = walk[p].packages
        /\ v.repositories = walk[p].repositories
    BY <1>0 DEF Fields, NextEntry
  <2>4. units \subseteq Units(Len(UnitFiles)) /\ (mishaps' = 0 => units = Units(Len(UnitFiles)))
    BY <2>1 DEF Units
  <2>5. Repositories' = Repositories
    BY <2>2 DEF Repositories, ReadableRepos, UnreadableRepos, RepoFiles
  <2> HIDE DEF v, units
  <2> QED
    BY <1>0, <2>1, <2>2, <2>3, <2>4, <2>5 DEF ScopesRight
<1> QED
  BY <1>1, <1>2, <1>3

LEMMA StepScoped ==
  ASSUME TInv, mishaps \in Nat, NEW p \in Describers, ScopesRight(p), Step(p)
  PROVE  ScopesRight(p)'
<1>1. CASE ReadRepositories(p) \/ ReadServices(p) \/ SystemctlFails(p)
  BY <1>1, QueriesRight
<1>2. CASE ~(ReadRepositories(p) \/ ReadServices(p) \/ SystemctlFails(p))
  <2>1. Unscoped(p)
    BY <1>2, WalkUnscoped, EntryUnscoped, StoringUnscoped DEF Step
  <2>2. walk[p].pc \notin {"idle", "repos", "services", "done"}
    BY <1>2 DEF Step, OpenDir, Stat, TreeDone, Read, Judge, Scan, LookUpBlob, ReadAgain,
                OpenBlob, WriteBlob, StoreFails
  <2>3. walk[p].result = "none"
    BY <2>2 DEF TInv, WalkOK
  <2>4. PICK w : Put(p, w) /\ Scopes(w) = Scopes(walk[p])
    BY <2>1 DEF Unscoped
  <2>5. walk'[p] = w /\ touched' = touched /\ fs' = fs /\ access' = access
    BY <2>4 DEF Put, TInv
  <2>6. /\ w.packages = walk[p].packages /\ w.repositories = walk[p].repositories
        /\ w.services = walk[p].services
    BY <2>4 DEF Scopes
  <2>7. Repositories' = Repositories
    BY <2>5 DEF Repositories, ReadableRepos, UnreadableRepos, RepoFiles
  <2>8. mishaps' = 0 => mishaps = 0
    <3>1. mishaps' \in {mishaps, mishaps + 1}
      BY StepFrame
    <3> QED
      BY <3>1
  <2> QED
    BY <2>2, <2>3, <2>5, <2>6, <2>7, <2>8 DEF ScopesRight
<1> QED
  BY <1>1, <1>2

(* Without an edit below repos.d what it declares stays the same. *)
LEMMA ReposUntouched ==
  ASSUME TInv, Edit \/ Restrict, NEW p \in Describers, In(ReposDir) \cap touched'[p] = {}
  PROVE  In(ReposDir) \cap touched[p] = {} /\ Repositories' = Repositories
<1> DEFINE L == In(ReposDir) \cap Leaves
<1>1. \A x \in L : x \notin touched[p] /\ fs'[x] = fs[x] /\ access'[ReposDir] = access[ReposDir]
  <2> SUFFICES ASSUME NEW x \in L
               PROVE  x \notin touched[p] /\ fs'[x] = fs[x] /\ access'[ReposDir] = access[ReposDir]
    OBVIOUS
  <2>1. x \in Leaves /\ x \in DOMAIN Parent /\ Parent[x] = ReposDir /\ x \notin touched'[p]
    BY DEF In
  <2>2. ReposDir \in Above[x]
    BY <2>1, AboveParent, NodeAssumption
  <2> QED
    BY <2>1, <2>2, Untouched
<1>2. touched[p] \subseteq Leaves
  BY DEF TInv
<1>3. RepoFiles' = RepoFiles
  <2>1. \A x \in L : fs'[x] = fs[x]
    BY <1>1
  <2> QED
    BY <2>1 DEF RepoFiles
<1>4. RepoFiles \subseteq L
  BY DEF RepoFiles
<1>5. RepoFiles = {} => Repositories' = Repositories
  <2>1. RepoFiles = {} => ReadableRepos = {} /\ ReadableRepos' = {}
    BY <1>3 DEF ReadableRepos
  <2> QED
    BY <2>1 DEF Repositories
<1>6. RepoFiles # {} => Repositories' = Repositories
  <2> SUFFICES ASSUME RepoFiles # {} PROVE Repositories' = Repositories
    OBVIOUS
  <2>1. access'[ReposDir] = access[ReposDir] /\ \A l \in RepoFiles : fs'[l] = fs[l]
    BY <1>1, <1>4
  <2>2. UnreadableRepos' = UnreadableRepos
    BY <1>3, <2>1 DEF UnreadableRepos
  <2>3. ReadableRepos' = ReadableRepos /\ ReadableRepos \subseteq RepoFiles
    BY <1>3, <2>2 DEF ReadableRepos
  <2>4. \A l \in ReadableRepos : fs'[l] = fs[l]
    BY <2>1, <2>3
  <2> QED
    BY <2>3, <2>4 DEF Repositories
<1> QED
  BY <1>1, <1>2, <1>5, <1>6

LEMMA StepPuts ==
  ASSUME TInv, NEW p \in Describers, Step(p) PROVE \E w : Put(p, w)
<1>1. ReadRepositories(p) => \E w : Put(p, w)
  BY DEF ReadRepositories, Become
<1>2. ReadServices(p) \/ SystemctlFails(p) => \E w : Put(p, w)
  BY DEF ReadServices, SystemctlFails, ListUnits
<1>3. Unscoped(p) => \E w : Put(p, w)
  BY DEF Unscoped
<1> QED
  BY <1>1, <1>2, <1>3, WalkUnscoped, EntryUnscoped, StoringUnscoped DEF Step

LEMMA ScopeInvInductive ==
  /\ Init => ScopeInv
  /\ ScopeInv /\ [Next]_vars => ScopeInv'
<1>1. ASSUME Init PROVE ScopeInv
  <2>1. \A p \in Describers : walk[p].pc = "idle"
    BY <1>1 DEF Init, Idle
  <2> QED
    BY <1>1, <2>1, TInvInductive DEF ScopeInv, ScopesRight, Init
<1>2. ASSUME ScopeInv, [Next]_vars PROVE ScopeInv'
  <2>1. TInv /\ TInv' /\ mishaps \in Nat /\ mishaps' \in Nat /\ (mishaps' = 0 => mishaps = 0)
    BY <1>2, TInvInductive, MishapsGrow DEF ScopeInv
  <2> SUFFICES ASSUME NEW q \in Describers PROVE ScopesRight(q)'
    BY <2>1 DEF ScopeInv
  <2>2. ScopesRight(q)
    BY <1>2 DEF ScopeInv
  <2>3. ASSUME walk'[q] = walk[q], touched'[q] = touched[q], fs' = fs, access' = access
        PROVE  ScopesRight(q)'
    <3>1. Repositories' = Repositories
      BY <2>3 DEF Repositories, ReadableRepos, UnreadableRepos, RepoFiles
    <3> QED
      BY <2>1, <2>2, <2>3, <3>1 DEF ScopesRight
  <2>4. CASE Edit \/ Restrict
    <3>1. walk' = walk
      BY <2>4 DEF Edit, Restrict, Touch
    <3>2. In(ReposDir) \cap touched'[q] = {} =>
            In(ReposDir) \cap touched[q] = {} /\ Repositories' = Repositories
      BY <2>1, <2>4, ReposUntouched
    <3> QED
      BY <2>1, <2>2, <3>1, <3>2 DEF ScopesRight
  <2>5. ASSUME NEW p \in Describers, Start(p) \/ StartBadly(p) PROVE ScopesRight(q)'
    <3>1. PICK rpmdb, n : Begin(p, rpmdb, n)
      BY <2>5 DEF Start, StartBadly
    <3>2. q # p => walk'[q] = walk[q] /\ touched'[q] = touched[q] /\ fs' = fs /\ access' = access
      BY <2>1, <3>1, BeginFrame DEF Begin
    <3>3. q = p => ScopesRight(q)'
      BY <2>1, <2>2, <2>5, QueriesRight
    <3> QED
      BY <2>3, <3>2, <3>3
  <2>6. ASSUME NEW p \in Describers, Step(p) PROVE ScopesRight(q)'
    <3>1. PICK w : Put(p, w)
      BY <2>1, <2>6, StepPuts
    <3>2. q # p => walk'[q] = walk[q] /\ touched'[q] = touched[q] /\ fs' = fs /\ access' = access
      BY <2>1, <3>1 DEF Put, TInv
    <3>3. q = p => ScopesRight(q)'
      BY <2>1, <2>2, <2>6, StepScoped
    <3> QED
      BY <2>3, <3>2, <3>3
  <2>7. ASSUME NEW p \in Describers, Kill(p) PROVE ScopesRight(q)'
    <3>1. /\ walk' = [walk EXCEPT ![p] = Finished(Idle, "killed")]
          /\ touched' = touched /\ fs' = fs /\ access' = access
      BY <2>7 DEF Kill
    <3>2. q # p => walk'[q] = walk[q]
      BY <2>1, <3>1 DEF TInv
    <3>3. Finished(Idle, "killed").result = "killed"
      BY DEF Finished, Idle
    <3>4. q = p => ScopesRight(q)'
      BY <2>1, <3>1, <3>3 DEF ScopesRight, TInv
    <3> QED
      BY <2>3, <3>1, <3>2, <3>4
  <2>8. CASE UNCHANGED vars
    BY <2>3, <2>8 DEF vars
  <2> QED
    BY <1>2, <2>4, <2>5, <2>6, <2>7, <2>8 DEF Next
<1> QED
  BY <1>1, <1>2

-----------------------------------------------------------------------------
(* read_repositories, read_services, installed_packages: however describers,        *)
(* edits, restrictions, failures and kills interleave, for any .repo files, packages   *)
(* and units: a successful description has the sections of every .repo file that       *)
(* nobody edited meanwhile, each with its own settings, and no others; what it has of   *)
(* packages and units is there, and all of it is, unless a query failed.              *)
THEOREM ScopesDescribed == Spec => []ScopesFaithful
<1>1. ASSUME ScopeInv PROVE ScopesFaithful
  <2> SUFFICES ASSUME NEW p \in Describers, Ok(p)
               PROVE  /\ In(ReposDir) \cap touched[p] = {} =>
                           walk[p].repositories
                             = UNION {DeclaredRepos(RepoText[ReadAll(fs[l])]) : l \in ReadableRepos}
                      /\ walk[p].packages \subseteq InSeq(Headers)
                      /\ \A u \in walk[p].services :
                           \E line \in InSeq(UnitFiles) : u.name = line[1] /\ u.state = Normal[line[2]]
                      /\ mishaps = 0 =>
                           /\ NamesIn(walk[p].packages) = NamesIn(InSeq(Headers)) \ {""}
                           /\ NamesIn(walk[p].services) =
                                {line[1] : line \in {line \in InSeq(UnitFiles) : line[2] \in DOMAIN Normal}}
    BY DEF ScopesFaithful
  <2>1. /\ TInv /\ ScopesRight(p) /\ walk[p].result = "ok" /\ walk[p].pc = "done"
    BY <1>1 DEF ScopeInv, Ok, TInv, WalkOK
  <2>2. /\ walk[p].packages \subseteq Installed(Len(Headers))
        /\ mishaps = 0 => walk[p].packages = Installed(Len(Headers))
        /\ In(ReposDir) \cap touched[p] = {} => walk[p].repositories = Repositories
        /\ walk[p].services \subseteq Units(Len(UnitFiles))
        /\ mishaps = 0 => walk[p].services = Units(Len(UnitFiles))
    BY <2>1 DEF ScopesRight
  <2>3. Repositories = UNION {DeclaredRepos(RepoText[ReadAll(fs[l])]) : l \in ReadableRepos}
    <3>1. ASSUME NEW l \in ReadableRepos PROVE RepoText[ReadAll(fs[l])] \in Seq(STRING \X STRING)
      <4>1. l \in Leaves /\ ReadAll(fs[l]) # Unreadable
        BY DEF ReadableRepos, UnreadableRepos, RepoFiles
      <4>2. ReadAll(fs[l]) \in Digests
        BY <2>1, <4>1, ContentTyped DEF TInv
      <4> QED
        BY <4>2, LineAssumption
    <3>2. \A l \in ReadableRepos :
            Sections(RepoText[ReadAll(fs[l])]) = DeclaredRepos(RepoText[ReadAll(fs[l])])
      BY <3>1, ParsedRight
    <3> QED
      BY <3>2 DEF Repositories
  <2>4. /\ Installed(Len(Headers)) \subseteq InSeq(Headers)
        /\ NamesIn(Installed(Len(Headers))) = NamesIn(InSeq(Headers)) \ {""}
    <3>1. DOMAIN Headers = 1..Len(Headers)
      BY LineAssumption
    <3>2. Installed(Len(Headers)) = {h \in InSeq(Headers) : h.name # ""}
      BY <3>1 DEF Installed, InSeq
    <3> QED
      BY <3>2 DEF NamesIn
  <2> DEFINE lines == {line \in InSeq(UnitFiles) : line[2] \in DOMAIN Normal}
             unit(line) == [name |-> line[1], state |-> Normal[line[2]]]
  <2>5. Units(Len(UnitFiles)) = {unit(line) : line \in lines}
    <3>1. DOMAIN UnitFiles = 1..Len(UnitFiles)
      BY LineAssumption
    <3> QED
      BY <3>1 DEF Units, InSeq
  <2>6. /\ \A u \in Units(Len(UnitFiles)) :
             \E line \in InSeq(UnitFiles) : u.name = line[1] /\ u.state = Normal[line[2]]
        /\ NamesIn(Units(Len(UnitFiles))) = {line[1] : line \in lines}
    <3>1. \A line : unit(line).name = line[1] /\ unit(line).state = Normal[line[2]]
      OBVIOUS
    <3>2. lines \subseteq InSeq(UnitFiles)
      OBVIOUS
    <3> HIDE DEF unit, lines
    <3> QED
      BY <2>5, <3>1, <3>2 DEF NamesIn
  <2> QED
    BY <2>2, <2>3, <2>4, <2>6
<1>2. Init => ScopeInv
  BY ScopeInvInductive
<1>3. ScopeInv /\ [Next]_vars => ScopeInv'
  BY ScopeInvInductive
<1> QED
  BY <1>1, <1>2, <1>3, PTL DEF Spec
=============================================================================
