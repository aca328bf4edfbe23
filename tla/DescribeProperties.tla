-------------------------- MODULE DescribeProperties --------------------------
(***************************************************************************)
(* What describe_actual_state promises, stated of the file system it found.  *)
(***************************************************************************)
EXTENDS DescribeWalk
Sets == INSTANCE FiniteSetsExt

(* A file system is a tree of directories over leaves that are files, links or *)
(* something special; the syncpoint is such a leaf; a package records a path as *)
(* one of three types; and what stands for the absence of a value is none.      *)
ASSUME NodeAssumption ==
  /\ InitialFs \subseteq [Leaves -> Nodes \cup {NoNode}]
  /\ \A n \in Nodes :
       /\ DOMAIN n = {"type", "data", "mode", "owner", "readable"}
       /\ n.type \in {"file", "link", "special"}
       /\ n.type = "link" => n.data \in DOMAIN Behind
  /\ NoNode \notin Nodes /\ {Unreadable, NoBlob, NoTarget} \cap Digests = {}
  /\ {NoTarget, Unreadable} \cap DOMAIN Behind = {} /\ NoTarget # Unreadable
  /\ \A x \in DOMAIN Parent : x \in Dirs \cup Leaves /\ Parent[x] \in Dirs
  /\ Dirs \cap Leaves = {} /\ Syncpoint \in Leaves
  /\ \A x \in Leaves : Baseline[x] # NoBaseline =>
       /\ Baseline[x].type \in {"file", "link", "dir"}
       /\ Baseline[x].type = "link" => Baseline[x].data # NoDigest

InSeq(s) == {s[i] : i \in DOMAIN s}

(* Every content is a text of lines, and a query prints a finite list; std::stoi  *)
(* takes the priority that a repository has by itself.                          *)
ASSUME LineAssumption ==
  /\ \A content \in Digests : RepoText[content] \in Seq(STRING \X STRING)
  /\ Headers \in Seq(InSeq(Headers)) /\ UnitFiles \in Seq(STRING \X STRING)
  /\ "99" \in DOMAIN Numeral /\ Numeral["99"] = 99

(* A walk is over exactly when it has a result, and only regular files are    *)
(* on their way to the store.                                                *)
TypeOK ==
  /\ blobs \in [Digests -> Digests \cup {NoBlob}]
  /\ touched \in [Describers -> SUBSET Leaves]
  /\ \A p \in Describers :
       /\ walk[p].stack \subseteq Dirs
       /\ walk[p].todo \subseteq Dirs \cup Leaves
       /\ walk[p].bytes \in Digests
       /\ walk[p].result \in {"none", "ok", "error", "killed"}
       /\ walk[p].result # "none" <=> walk[p].pc = "done"
       /\ walk[p].pc \in {"store", "copy", "open", "write"} =>
            walk[p].rec.data \in Digests /\ walk[p].rec.type = "file"

-----------------------------------------------------------------------------
Ok(p) == walk[p].result = "ok"
NamesIn(S) == {r.name : r \in S}

(* A path that the walk of top comes by: nobody kept it or a directory between  *)
(* from the walk, and each directory above it can be listed.                 *)
Visible(x, top) ==
  /\ top \in Above[x]
  /\ x \notin KeepList
  /\ \A d \in Above[x] : access[d] = "ok" /\ (d = top \/ d \notin KeepList)

Regular(n) == n # NoNode /\ n.type \in {"file", "link"}
Legible(n) == n.type = "file" => n.readable

(* The target that an alternatives link has by itself: that of the first of the *)
(* providers with the highest priority.                                       *)
Best(ps, i) == \A j \in DOMAIN ps : ps[j].priority <= ps[i].priority
                                 /\ (j < i => ps[j].priority < ps[i].priority)

(* What a fresh install of the owning package would put at a path, as far as   *)
(* the describer found a package database.                                   *)
Reproduced(w, x, n) ==
  LET base == BaselineFor(w, x) IN
  /\ base # NoBaseline
  /\ IF n.type = "file"
       THEN IF base.ghost THEN n.data = EmptyDigest
            ELSE <<base.type, base.data, base.mode, base.owner>>
                   = <<"file", n.data, n.mode, n.owner>>
     ELSE IF x \in DOMAIN Providers
       THEN \E i \in DOMAIN Providers[x] :
              Best(Providers[x], i) /\ Providers[x][i].target = n.data
     ELSE base.type = "link" /\ base.data = n.data

(* judge_etc_entry, walk_etc: a successful description of /etc has, of the     *)
(* paths that nobody edited meanwhile, a record of exactly the visible ones    *)
(* that a fresh install would not reproduce, as they are; each unreadable one  *)
(* is named.  Neither edits of other paths, nor other describers, nor what is   *)
(* unreadable elsewhere have an influence.                                   *)
Faithful ==
  \A p \in Describers : Ok(p) =>
    \A x \in Leaves \ touched[p] :
      LET n == fs[x]
          candidate == Visible(x, EtcDir) /\ x # Syncpoint /\ Regular(n)
      IN /\ x \in NamesIn(walk[p].files)
              <=> candidate /\ Legible(n) /\ ~Reproduced(walk[p], x, n)
         /\ candidate /\ ~Legible(n) => x \in walk[p].diagnostics
         /\ \A r \in walk[p].files : r.name = x =>
              r = [RecordOf(x, n, n.data) EXCEPT !.content_ref = r.content_ref]

(* The full scan has the same of its trees, of files it can read: what no     *)
(* package owns, and what differs from its package in content, target or mode. *)
ScanFaithful ==
  \A p \in Describers : Ok(p) /\ Full =>
    \A x \in Leaves \ touched[p], top \in ScanDirs :
      LET n == fs[x]
          base == BaselineFor(walk[p], x)
          candidate == Visible(x, top) /\ Regular(n)
      IN /\ top \in Above[x] =>
              (x \in NamesIn(walk[p].unmanaged) <=> candidate /\ base = NoBaseline)
         /\ candidate /\ Legible(n) /\ base # NoBaseline =>
              (x \in NamesIn(walk[p].changed) <=>
                 \/ n.type # base.type
                 \/ base.data # NoDigest /\ n.data # base.data
                 \/ n.type = "file" /\ n.mode # base.mode)

-----------------------------------------------------------------------------
(* The scopes besides files *)

(* The last value that some lines of a text give a key. *)
LastValue(text, lines, key, default) ==
  LET set == {j \in lines : text[j][1] = key} IN
  IF set = {} THEN default ELSE text[Sets!Max(set)][2]

(* The settings that some lines of a text make of a repository; a priority that *)
(* is no number is none.                                                     *)
Settings(text, alias, lines) ==
  LET Of(key, default) == LastValue(text, lines, key, default)
      numbers == {j \in lines : text[j][2] \in DOMAIN Numeral}
  IN [alias |-> alias, name |-> Of("name", ""), url |-> Of("baseurl", ""), type |-> Of("type", ""),
      enabled |-> Of("enabled", "1") \in {"1", "true"},
      gpgcheck |-> Of("gpgcheck", "1") \in {"1", "true"},
      autorefresh |-> Of("autorefresh", "0") \in {"1", "true"},
      priority |-> Numeral[LastValue(text, numbers, "priority", "99")]]

IsHeader(text, i) == text[i][1] = "section"

(* The lines from a header to the next. *)
Body(text, i) == {j \in (i + 1)..Len(text) : \A k \in (i + 1)..j : ~IsHeader(text, k)}

(* What a .repo file says: of each section with an alias, the last value of      *)
(* each key before the next header.                                           *)
DeclaredRepos(text) ==
  {Settings(text, text[i][2], Body(text, i)) :
     i \in {i \in DOMAIN text : IsHeader(text, i) /\ text[i][2] # ""}}

(* read_repositories, read_services, installed_packages: a successful             *)
(* description has the sections of every .repo file that nobody edited meanwhile,  *)
(* each with its own settings, and nobody else's; what it has of packages and       *)
(* units is there, and all of it is, unless a query failed.                        *)
ScopesFaithful ==
  \A p \in Describers : Ok(p) =>
    /\ In(ReposDir) \cap touched[p] = {} =>
         walk[p].repositories
           = UNION {DeclaredRepos(RepoText[ReadAll(fs[l])]) : l \in ReadableRepos}
    /\ walk[p].packages \subseteq InSeq(Headers)
    /\ \A u \in walk[p].services :
         \E line \in InSeq(UnitFiles) : u.name = line[1] /\ u.state = Normal[line[2]]
    /\ mishaps = 0 =>
         /\ NamesIn(walk[p].packages) = NamesIn(InSeq(Headers)) \ {""}
         /\ NamesIn(walk[p].services) =
              {line[1] : line \in {line \in InSeq(UnitFiles) : line[2] \in DOMAIN Normal}}

(* describe-actual-state: what is genuinely unreadable is never an empty scope; a   *)
(* strict describer ends with an error instead.  The rpmdb and systemctl have no     *)
(* way to say that they failed.                                                 *)
UnreadableIsNeverEmpty ==
  \A p \in Describers : Ok(p) /\ Policy[p] = "error" =>
    (walk[p].packages = {} => Headers = <<>>) /\ (walk[p].services = {} => UnitFiles = <<>>)

-----------------------------------------------------------------------------
(* The content store *)

Quiet == \A p \in Describers : ~Alive(p)

Stored(p) ==
  \A r \in walk[p].files : r.content_ref => blobs[r.data] = r.data

(* maybe_store_content: when nobody was killed, nothing was edited and the     *)
(* store took what it was given, then, however the describers interleave, each *)
(* reference leads in the end to the content with its digest, and every file   *)
(* has one.                                                                  *)
StoreComplete ==
  /\ Quiet /\ mishaps = 0
  /\ \A p \in Describers : walk[p].pc = "done" => touched[p] = {}
  => \A p \in Describers :
       Ok(p) => /\ Stored(p)
                /\ Store => \A r \in walk[p].files : r.type = "file" => r.content_ref

(* Specification: a record's content_ref leads to content with its digest     *)
(* after every successful description, one after a crash of another included.  *)
ContentRefResolves == Quiet => \A p \in Describers : Ok(p) => Stored(p)

(* walk_etc, full_scan: a directory is opened once, an entry judged once, whatever *)
(* is edited, restricted or killed meanwhile: every walk comes to its end.       *)
WalkEnds == <>[](\A p \in Describers : walk[p].pc = "done")
=============================================================================
