------------------------------- MODULE ApplyMC -------------------------------
(***************************************************************************)
(* Small machines for module Apply.  Two packages of which one ships a       *)
(* configuration file, one unit, and paths that are plain, package-owned,     *)
(* keep-listed and the syncpoint.                                            *)
(***************************************************************************)
EXTENDS ApplyClaims

CONSTANTS p1, p2, foo, conf, kept, sync, base_pkg, web_pkg, app_pkg, web, d0, d1, d2, bad

mc_Fields == {"version"}
mc_Node(d) == [type |-> "file", data |-> d, mode |-> "0644"]
mc_Ships == [x \in {base_pkg, web_pkg} |->
               [f \in (IF x = web_pkg THEN {conf} ELSE {}) |-> mc_Node(d1)]]

\* web_pkg needs base_pkg
mc_Requires == [x \in {base_pkg, web_pkg} |-> IF x = web_pkg THEN {base_pkg} ELSE {}]

mc_Tree ==
  [pkgs  |-> {[name |-> base_pkg, version |-> "1"]},
   repos |-> {},
   units |-> [u \in {web} |-> "disabled"],
   files |-> [f \in {foo, conf, kept, sync} |->
                IF f \in {kept, sync} THEN mc_Node(d1) ELSE NoFile],
   rec   |-> None]

mc_Pkg(n, v) == [name |-> n, version |-> v]
mc_File(f, d) == [name |-> f, type |-> "file", data |-> d, mode |-> "0600",
                  content_ref |-> TRUE, package_name |-> NoPackage]

\* everything declared, a package-owned and a keep-listed file among it
mc_Full == [EmptyManifest EXCEPT
  !.packages = {mc_Pkg(web_pkg, Wildcard), mc_Pkg(NoPackage, Wildcard)},
  !.services = {[name |-> web, state |-> "enabled"]},
  !.config_files = {mc_File(foo, d1), mc_File(conf, d2), mc_File(kept, d2)}]

\* files only: a present-but-empty scope, to be reconciled to nothing
mc_NoFiles == [EmptyManifest EXCEPT !.config_files = {}]

\* one file only
mc_OneFile == [EmptyManifest EXCEPT !.config_files = {mc_File(foo, d2)}]

\* a unit, a package and a link at its file, whose convergence the code leaves for later
mc_Link == [EmptyManifest EXCEPT
  !.packages = {mc_Pkg(web_pkg, Wildcard)},
  !.services = {[name |-> web, state |-> "enabled"]},
  !.config_files = {[mc_File(conf, d1) EXCEPT !.type = "link", !.content_ref = FALSE]}]

\* pinned versions, a mode and a repository, on a machine with one more package
mc_Exact == [EmptyManifest EXCEPT
  !.packages = {mc_Pkg(web_pkg, "1"), mc_Pkg(app_pkg, "1")},
  !.repositories = {[name |-> web_pkg]},
  !.config_files = {mc_File(foo, d1)}]

mc_Manifests == {mc_Full, mc_NoFiles}
mc_SmallManifests == {mc_OneFile, mc_NoFiles}
mc_LinkManifests == {mc_OneFile, mc_Link}
mc_ExactManifests == {mc_Exact}
mc_ExactShips == [x \in {base_pkg, web_pkg, app_pkg} |->
                    IF x = app_pkg THEN <<>> ELSE mc_Ships[x]]
mc_ExactRequires == [x \in {base_pkg, web_pkg, app_pkg} |->
                       IF x = app_pkg THEN {} ELSE mc_Requires[x]]
mc_EditNodes == {mc_Node(d2), NoFile}
\* an administrator's link where a file will be declared
mc_LinkTree ==
  [mc_Tree EXCEPT !.files[foo] = [type |-> "link", data |-> d1, mode |-> "0777"]]
mc_Versions == {"2"}
=============================================================================
