------------------------------ MODULE DescribeMC ------------------------------
(***************************************************************************)
(* A small root for module DescribeWalk.  /etc has a packaged file, an       *)
(* alternatives link, a ghost, repos.d with a repository, a                  *)
(* keep-listed directory and the syncpoint; /usr has a packaged file and an    *)
(* unpackaged link.                                                         *)
(***************************************************************************)
EXTENDS DescribeProperties

CONSTANTS strict, lax,
  etc, repos, kept, usr,
  conf, alt, ghost, repo, inkept, sync, bin, lib,
  d0, d1, d2, t1, t2

mc_Policy == [p \in Describers |-> IF p = strict THEN "error" ELSE "warn"]
mc_Dirs == {etc, repos, kept, usr}
mc_Leaves == {conf, alt, ghost, repo, inkept, sync, bin, lib}
mc_Parent ==
  [x \in (mc_Dirs \cup mc_Leaves) \ {etc, usr} |->
     CASE x = repo -> repos [] x = inkept -> kept
       [] x \in {bin, lib} -> usr [] OTHER -> etc]

mc_File(d) == [type |-> "file", data |-> d, mode |-> "0644", owner |-> "root", readable |-> TRUE]
mc_Link(t) == [type |-> "link", data |-> t, mode |-> "0777", owner |-> "root", readable |-> TRUE]
mc_Special == [mc_File(d0) EXCEPT !.type = "special"]

mc_Behind == [t \in {t1, t2} |-> IF t = t1 THEN d1 ELSE Unreadable]
mc_Providers ==
  [l \in {alt} |-> <<[target |-> t2, priority |-> 1], [target |-> t1, priority |-> 5]>>]

mc_Base(type, d, g) == [type |-> type, data |-> d, mode |-> "0644", owner |-> "root", ghost |-> g]
mc_Baseline ==
  [x \in mc_Leaves |->
     CASE x \in {conf, bin} -> mc_Base("file", d1, FALSE)
       [] x = ghost -> mc_Base("file", NoDigest, TRUE)
       [] x = alt -> mc_Base("link", NoTarget, TRUE)
       [] OTHER -> NoBaseline]

\* as installed: whatever else can be there, an edit before the run puts there
mc_Installed ==
  [x \in mc_Leaves |->
     CASE x = alt -> mc_Link(t1) [] x = ghost -> mc_File(d0)
       [] x = lib -> mc_Link(t2) [] OTHER -> mc_File(d1)]

mc_Nodes == {mc_File(d2), [mc_File(d1) EXCEPT !.mode = "0600"],
             [mc_File(d1) EXCEPT !.readable = FALSE],
             mc_Link(t1), mc_Link(t2), mc_Special, NoNode}

mc_Fs == {mc_Installed}

mc_Headers == <<[name |-> ""], [name |-> conf]>>
mc_Units == <<<<"a", "enabled-runtime">>, <<"b", "static">>>>
mc_Numeral == ("99" :> 99) @@ ("5" :> 5)

\* settings before a section, twice, without sense, and with a section after them
mc_RepoText == [d \in {d0, d1, d2} |->
  CASE d = d0 -> <<>>
    [] d = d1 -> <<<<"name", "stray">>, <<"section", "main">>, <<"enabled", "no">>, <<"priority", "5">>,
                   <<"priority", "high">>, <<"baseurl", "u">>, <<"section", "update">>, <<"baseurl", "v">>>>
    [] d = d2 -> <<<<"section", "">>, <<"name", "lost">>, <<"section", "main">>, <<"gpgcheck", "0">>,
                   <<"gpgcheck", "true">>, <<"colour", "red">>, <<"type", "rpm-md">>>>]
=============================================================================
