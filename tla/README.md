# zypper-declarative in TLA+

`zypper-declarative` keeps a transactional (btrfs snapshot) openSUSE machine at
a declared state. A *manifest* names packages, repositories, units and
configuration files; `apply` makes a new generation of the system hold it and
leaves an *applied record* inside that generation; `verify`, `diff` and `status`
compare a system with a manifest or a record; `init` adopts a machine as it is.
One specification document, `src/spec/zypper-declarative.spec.md`, was
translated into three programs, in C++ (`src/code/cpp`), Go and Rust.

This directory models the C++ program, the comparisons of the other two where
they differ, and checks what a generation, a record and an exit code can be
relied on for. Paths below without a directory are under `src/code/cpp/src/`.

## 1. The system

| Component | State it keeps | Operations | Hard behaviour | What makes it correct |
|---|---|---|---|---|
| verbs `apply`, `init` (`verbs.cpp`) | none in memory beyond one run; on disk the generation's `applied.json`, the manifest `init` writes | `verb_apply`, `verb_init` | ~20 steps, each with an early return; killed anywhere; two at once | exit 0 means converged and recorded; anything else leaves the machine as it was |
| transaction binding (`transaction.cpp`) | the opened snapshot, its userdata | `acquire_transaction_context`, `stamp_snapshot_userdata`, `seal_and_activate` | detects "inside a transaction" by a file of the shared `/run` | a writable root distinct from the running one, written by one process |
| convergers (`converge.cpp`) | the tree of the context root | `converge_packages`, `converge_files`, `converge_units`, `write_applied_record` | partial failure, unchecked writes, links, later steps undoing earlier ones | all of the intent diff is carried out; only what was dropped is deleted |
| intent diff, drift (`diffdrift.cpp`) | none (pure) | `compute_intent_diff`, `compute_drift` | absent against empty scopes, repeated names, wildcards | what the one lists leaves nothing for the other |
| describe (`describe.cpp`, `package_db.cpp`) | a content store | `describe_actual_state` | pristine package files are suppressed; unreadable sources; an rpmdb that does not open, a `systemctl` that fails; the sections of `.repo` files | every unmanaged or changed file of `/etc` is reported, no other; every package, repository and unit that is there |
| command runner (`command_runner.cpp`) | two pipes and a child | `OSCommandRunner::run` | pipe buffers, signals, inherited descriptors | never blocks on one pipe; complete output; returns |
| manifest I/O (`manifest_io.cpp`, `hashing.cpp`) | none | `load_desired_manifest`, `load_state_dump`, `load_applied_record`, `serialize_manifest`, `canonical_hash`, `resolve_format` | YAML scalar coercion, values of another type, truncated files, format detection | what is read is what the document says; the hash is that of the model, whatever the order of its elements |
| command line, configuration (`cli.cpp`, `config.cpp`) | none | `parse_args`, `build_config`, `dispatch` | words and options in any order, aliases, repeated keys | every order of the same arguments means the same |
| read-only verbs (`verbs.cpp`) | an output file | `verb_describe`, `verb_diff`, `verb_verify`, `verb_status` | the output file is written in place while others read it; live or from a dump; exit codes | verify exits 0 iff there is no drift; a described host is clean |
| Go and Rust programs | as the C++ one | the same | three translations kept in step by hand | they decide alike |

The verbs call the other parts in sequence and share nothing with each other but
the machine: the snapshots, the default boot target, `/run`, the content store.
There are no threads; concurrency is between *processes* of the program, with
`transactional-update`, with the administrator who edits the running `/etc`, and
with kills and reboots. There is no lock between two runs.

## 2. Modules

| Module | Models | Extends |
|---|---|---|
| `DiffDrift` | `diffdrift.cpp`: `ComputeIntentDiff`, `ComputeDrift` over manifests | |
| `Translations` | the packages drift of `diff.go` and `diff.rs` | `DiffDrift` |
| `RootTree` | a root tree, `describe_actual_state` over it (`Describe`), what zypper does to it (external) | `DiffDrift` |
| `Apply` | `verbs.cpp` (apply, init), `transaction.cpp`, `converge.cpp`, by several processes on one machine | `RootTree` |
| `Generations` | abstract: the booted tree and the next one change as wholes, the next one by a converged tree or by an untouched copy of itself | |
| `ApplyProperties` | type invariant, safety, action properties, the refinement of `Generations`, liveness | `Apply` |
| `ApplyClaims` | statements of the documents that the code does not keep | `ApplyProperties` |
| `ApplyMC` | the small machines that TLC checks | `ApplyClaims` |
| `ApplyProofs` | who holds which tree: the isolation of runs | `ApplyProperties`, TLAPS |
| `ApplyPlanProofs` | lemmas about trees, descriptions and drift; data stay data, a plan is a part of the intent diff | `ApplyProofs` |
| `ApplyRecordProofs` | deletions, records, stamps | `ApplyPlanProofs` |
| `ApplyConvergedProofs` | exit 0 is converged; the refinement of `Generations` | `ApplyRecordProofs` |
| `ManifestIO` | `manifest_io.cpp`, `hashing.cpp`: documents on disk and manifests in memory | |
| `CommandLine` | `main.cpp`, `cli.cpp`, `config.cpp` | `ManifestIO` |
| `ReadOnlyVerbs` | `verbs.cpp` (describe, diff, verify, status), by several processes that share files | `CommandLine`, `Translations` |
| `ReadOnlyVerbsProperties` | what the verbs promise, and what the two comparisons promise each other | `ReadOnlyVerbs` |
| `ReadOnlyVerbsMC` | hosts, documents and command lines for TLC | `ReadOnlyVerbsProperties` |
| `ReadOnlyVerbsProofs` | types, verdicts, the comparisons | `ReadOnlyVerbsProperties`, TLAPS |
| `DescribeWalk` | `describe.cpp` and `package_db.cpp` step by step, by several describers | |
| `DescribeProperties`, `DescribeMC` | what a description promises, and a small root | `DescribeWalk` |
| `DescribeProofs` | types of a walk; the content store | `DescribeProperties`, TLAPS |
| `DescribeFaithfulProofs` | a description of `/etc`, a full scan and the other scopes are faithful | `DescribeProofs` |
| `CommandRunner` | `command_runner.cpp` | |
| `CommandRunnerProofs` | theorems about `CommandRunner` | `CommandRunner`, TLAPS |

### Apply

The machine: `present` snapshots, each with a tree in `snap` (packages,
repositories, units, files, the record) and the `userdata` that names its
manifest; `running` is booted, `bootDefault` boots next; `tu` is the transaction
that an external `transactional-update` holds open, whose existence is the
marker file; `outfile` is the manifest `init` wrote for the operator. A process
has its invocation in `args`, the local variables of `verb_apply` in `desired`,
`base` (the loaded record), `plan` (what is left of the `Diff`), `ctx` and
`opened` (the `TransactionContext`), `lock` (the resolved packages), `cur` (the
file being written) and its status in `exit`.

A process makes one step per external command, per opening and per writing of a
file, per deletion, per opening, writing and stamping of the record; between any
two of them another process can act, and it can be killed. Each error path of
the code is an action (`LoadFails`, `ReadFails`, `AcquireFails`, `ZypperFails`,
`FileFails`, `SystemctlFails`, `RecordFails`, `PublishFails`, the failing
branches of `WriteFile` and `PostVerify`). `Kill` stands for SIGKILL, a crash and
an uncaught exception; the SIGTERM handler of `main.cpp` sets a flag nobody reads.

The environment is external: `TuRun` and `TuEnd` (a copy of the default snapshot
is the root of one command, kept when it exits 0 and discarded if not),
`Activate` (the snapshot machinery to which `seal_and_activate` leaves the
activation of a successful internal run), `Reboot`, `Edit`.

`Generations` is what all this should look like from outside: a `live` tree, the
`next` one, whether a next one is `staged`, and a `draft`. Under the mapping of
`ApplyProperties` the draft is the tree of an open transaction until its command
acquires it. It is needed because a transaction whose command does nothing commits the
copy it was opened with, which by then may be of a default tree that a later commit has
replaced: the next tree need not be converged then, but it is the draft.

Contents are identified with their digests. An entry resolves to the content it
names, to a damaged blob (`CorruptDigest`), or to the empty content when it has
no `content_ref` or there is no store; a write follows a symbolic link. zypper
installs the version its repositories offer (`RepoVersions`) whatever version
the manifest names, because the code passes the bare name, keeps files that
are there, and installs what the package needs (`Requires`, which is closed under
itself); it removes a package with the packages that need it. Conflicts between packages,
and packages that obsolete others, are left out. What a description may have of a tree is
one of its `Readings`: all of it, or, with `ReadFaults`, whatever repositories, units and
paths were read, the others being left out without an error, as a `systemctl` that fails
(`describe.cpp:490`) and `on-unreadable=warn` do; with `RpmdbFaults` an rpmdb may be taken
for an empty one. (One whose enumeration stops half-way is in `DescribeWalk` only.) Elements of a scope are worked off in any order, where the code uses
the order of the document.

### CommandRunner

The pipes count chunks. The child writes either stream in any order, blocks on
a full pipe, exits, fails, dies of SIGPIPE, or leaves an heir that holds the write
ends. `run` polls, reads, closes a stream at its end of file, leaves the loop when
both are closed or when poll is interrupted, and waits for the child.

### ManifestIO, CommandLine, ReadOnlyVerbs

A document is what a file says: for each scope its `_attributes` and the sequence
of its `_elements`, an element being a function from keys to pairs of a kind and a
text (`<<"string", "1.10">>`, `<<"int", "99">>`, `<<"composite", "">>`). `Read` makes a
manifest of it the way the program does: the YAML reader takes every text that
`std::stoll` consumes for an integer, `true`, `false`, `null` and `~` for what they
look like, quoted or not (`Typed`); jsoncpp converts some kinds into others
(`Convert`) and throws on the rest (`Throws`), which nothing catches (`Aborted`). The
numbers of a document are integers, and the elements of the array `changes` are texts; one
of another kind throws as a composite value in its place does.
Texts that are numerals, and what they are worth, are the constant `Decimal`.
A hash is the canonical form itself: each scope as the set of its elements, each with the
number of those that have its identity key and come before it, which is what a stable sort
leaves of their order.

A command line is a sequence of words, options and flags. `Dispatch` gives a verb
with its configuration, or an exit code, in the order in which `cli.cpp` judges.

In `ReadOnlyVerbs` an invocation in `run[p]` loads its manifest, its record and its
dump, or reads the host, each in a step of its own; then compares, and prints; or, for
describe, truncates the output file (`OpenOut`) and writes it (`WriteOut`). `disk` maps
paths to files; `WriteFails` leaves any prefix that the writer could have left,
including the YAML prefixes that still load, and two writers of one file can leave a
mixture. `host` is what `describe_actual_state` finds in one go, `DescribeWalk` being
the same call step by step. `fresh` (the files that describe the host as it is) and
`disturbed` (the host, or a file that the invocation may read, changed while it ran)
are history.

### DescribeWalk

The packages of the rpmdb, the files of `repos.d` and the lines of `systemctl` come
first, each scope in one step: nothing the properties tell apart lies between the
files of `repos.d`. A `.repo` file is its lines: headers, and keys with values.
`Sections` runs through them with the parser's state, the sections that are complete and the
one that is being read, which `flush` completes at each header and at the end. What a scope
lists is a set here; order and multiplicity matter to the canonical form, which `ManifestIO` has.
`StartBadly` is an rpmdb that does not open (then no file has a baseline either) or
whose enumeration throws; `SystemctlFails` is an output that is cut short or empty.

`fs` and `access` are the root: a node (type, content or target, mode, owner) per
path, and whether a directory can be listed. A describer has in `walk` its stack of
directories, the rest of the listing it took when it opened one, the entry as
`lstat` saw it, the record being built, the bytes on their way to the store, and
what it has emitted. One step is one system call that another process can come
between: the listing, the `lstat`, the reading of content or target, the size of a
ghost, the look-up of the blob, the second reading, the opening and the writing of
the blob. `blobs` is the content store, a content under each digest. `touched` is
history: the paths that were edited since a describer started. `RootTree!Describe`,
which `Apply` uses, is the same description taken at once. The directories are fixed: none
is created or removed during a walk. An error of `readdir` behind the first entries is an
exception nobody catches, and ends the describer as `Kill` does. A link whose alternatives
file cannot be read is judged by the plain rule, as one that is not among the `Providers`.

What a description should have is stated without the walk. `Above[x]` is the least set
of directories that holds the parent of `x` and the parent of each of its members; `x` is
`Visible` from a top when the top is above it and nothing between the two is keep-listed,
a link or restricted (the top itself is never compared with the keep-list, as in the
code). `Best` is the baseline of greatest priority, `Reproduced` that a fresh install
would bring the node back.

## 3. Runs

| Run | Asks | Bounds |
|---|---|---|
| `apply` | Does exit 0 mean converged (but for packages that needed a dropped one) and recorded, does `init` record the generation it is in, is the booted tree untouched, are deletions justified, do generations change as wholes? | one process at a time, 3 snapshots, two manifests (everything; an empty file scope), two packages of which one needs the other, one edit |
| `apply_pair` | The same of two interleaved runs: one writer per tree, whole records, userdata that never runs ahead | 2 processes, 3 snapshots, two small manifests |
| `faults_and_end` | With rpmdbs that fail to open, descriptions that leave anything out, short writes and link entries: what does exit 0 still mean, and does every run end? | 3 snapshots, fairness |
| `command_runner` | Never blocks on one pipe, complete output, returns | pipes of 2, outputs up to 3 per stream |
| `describe` | Has a description the packages, repositories and units that are there; is that of `/etc`, and the full scan, exactly what a fresh install would not bring back; is the store complete; does every walk end? | 2 describers (strict and lax), 8 paths in 4 directories, one event (edit, kill, failing query or store) |
| `verbs` | Is a verdict that of the documents, in either format, live or from a dump; is a described host clean; is an identity that of a model; does the order of arguments matter; does the intent diff leave no drift; do the three programs agree on locks? | six families of behaviours, see below |
| `claim_noop` | *violated*: re-applying an unchanged manifest makes no snapshot | |
| `claim_exit_zero` | *violated*: after exit 0 the managed scopes equal the manifest; not one of four parts holds (packages are there, at their versions, files have their modes, repositories are there) | 3 snapshots, one manifest, applied twice, that does not name a dependency |
| `claim_isolated` | *violated*: the context root is distinct from the running root | 2 processes, mode auto |
| `claim_described` | *violated*: the diff of a host against its fresh description is empty | a host with two versions of a package |
| `claim_unreadable` | *violated*: what cannot be read is never an empty scope under `on-unreadable=error` | a failing rpmdb or `systemctl` |
| `claim_content_ref` | *violated*: after a successful describe each `content_ref` leads to its content | a failing store or a kill |

Why the bounds are enough. Three snapshots are the booted one, a staged one and
one being built, the longest chain the properties relate. Two processes are all
that a property quantifies over (a writer and its rival). Two manifests are
enough for the record of the one to be the past of the other; they declare a
plain, a package-owned and a keep-listed file, a package and a unit, and an
empty scope against an absent one. The declared package needs one that no manifest names,
so that a second apply removes both. One edit creates every kind of drift the
drift report knows of one path. Pipes of 2 and outputs of 3 fill, empty and refill.
The one event of `describe` can come before the describers start, and then stands for
another root to describe, or between any two steps of theirs; `Faithful` speaks of
each path by itself, so that two edits would not show more than one.

The families of `verbs`. *triples*: every manifest, record and actual state over two
names that differ in one scope (packages in two versions, units in two states, files
of two types, contents and owners), in JSON and in YAML, live and as a dump, by
`diff`, `verify` and `status`. *files*: a document that is odd in one way (a value of
another kind in each place a reader could stumble over, a scope that is no object, an
observational scope, other format versions, an absent, an empty and a broken file), as
manifest, dump and record. *identity*: all pairs of 16 documents that differ by an
element, its order, a format, an attribute, a default or `meta`. *revisit*: two
processes and three invocations that describe an installation in JSON and YAML, with
and without a keep-list, a full scan and an unreadable file, and compare it with what
is on disk. *faults*: two invocations with an edit, a kill or a short write, one of which may
put its output in the place of the record. *words*:
command lines of up to three of 13 arguments. The two processes are symmetric.

`Left(p)` in the properties: the tree of a successful run is judged until it is
booted. From then on administrators and processes with their root at `/` may
write it.

What is assumed where. `apply` and `apply_pair` start outside
processes in mode `internal` only: with `auto` or `external` the booted tree is
written (`claim_isolated`). `apply` has `init` only inside
`transactional-update` (section 4). `RecordOfTree`, `DeletesJustified`, `ExitZeroConverged`, `StampedRecordWhole`,
`InitRecordsItsGeneration` and `ImplementsGenerations` are checked with rpmdbs that
open, writes that are not short and descriptions that leave nothing out. A short write leaves a
torn record under exit 0; with an rpmdb that does not open the lock may be empty and
owned files be deleted; and with a description that leaves a unit out at post-verify, as
after a `systemctl` that failed, or a file, under `on-unreadable=warn`, a tree that
drifted passes, and would be committed: neither `ExitZeroConverged` nor the refinement
holds then. `ExitZeroCarriedOut` is what is left of exit 0 with all three: the
convergers did their work, each declared regular file with a digest has it, each
unit whose state is not that of the loaded record was enabled, disabled or masked, and
the packages are there. Both properties except declared packages that needed a dropped
one (`HasPackages`, `claim_exit_zero`). `InitRecordsItsGeneration` is of an `init`
whose record lies in the tree it described (`InOneTree`); the other one is in section 4. `VerdictFaithful` and `DescribedIsClean` speak of
invocations that nothing disturbed, and of documents whose compared texts are none that
YAML rewrites (`PlainBut`); `DescribedIsClean` of hosts that have no package, path or unit
twice, as a package in two versions is (`claim_described` is without that), and, for `diff`, of a
record that is absent or can be read, since `diff` exits 1 otherwise; `IdentityIsModel` of documents whose texts are none
that YAML rewrites, attributes included, and in which an identity key names one element; `PositionFree` of options with different keys and one
word. `ScopesFaithful` compares whole lists only when no query failed
(`claim_unreadable`).

Fairness. Liveness assumes weak fairness of a process's own steps: it is a
sequential program that always has a next step, and every command it waits for
ends (`command_runner` shows that then `run` returns). In `CommandRunner` it is
weak fairness of both ends and of the end of an heir; failing is never forced on
a command, so a deadlock between two pipes would be seen. `CHECK_DEADLOCK FALSE`
in `command_runner.cfg`, `describe.cfg` and `verbs.cfg`: a run that returned has
nothing left to do, and the number of invocations is bounded. The steps of the
read-only verbs wait for nobody and have no loop, so no liveness is stated of them.

## 4. Findings and known disagreements

Shown by the violated runs: see `findings` in `PROJECT.json`. Seen while
modelling, and modelled as the code has it, without a run of their own:

- `seal_and_activate` does nothing (`transaction.cpp:104`; specification 555-557
  has it seal and mark the boot default); no failure discards the opened snapshot
  (`verbs.cpp:334`; specification 538-553, 3093-3095).
- `converge_files` writes a declared path though it is package-owned, keep-listed
  or the syncpoint (`converge.cpp:66`; specification 1845-1846).
- packages drift looks at the reference's packages only (`diffdrift.cpp:136`;
  specification 1418-1420 says both ways), and a package installed in two
  versions drifts from itself (`diffdrift.cpp:121`).
- a manifest without `config_files` has every unpackaged file of `/etc` as extra,
  so it never applies or verifies (`diffdrift.cpp:90`; the specification agrees).
- because the lock lists all installed packages, the second `apply` removes every
  installed package that the manifest does not name (specification 1351 agrees).
- removing a dropped package takes the packages that need it along, declared ones too;
  the lock is read afterwards (`converge.cpp:54`) and post-verify compares with it
  (`verbs.cpp:349`), so that the run exits 0 (`claim_exit_zero`).
- the status of `systemctl` is not looked at (`describe.cpp:490`), unreadable entries are
  omitted under `on-unreadable=warn` (`describe.cpp:275`, `describe.cpp:364`), and
  `compute_drift` takes what is absent for matching (`diffdrift.cpp:80`,
  `diffdrift.cpp:114`): post-verify (`verbs.cpp:346`) then passes a unit that drifted and an
  undeclared file.
- an rpmdb that does not open counts as empty (`package_db.cpp:50`): owned files can
  be deleted, the lock is empty; the write of `applied.json` is not checked
  (`converge.cpp:165`).
- a declared file that is missing counts as matching (`diffdrift.cpp:77`; the
  specification agrees).
- `init` describes `/` but records into a copy of the default snapshot: while another
  generation is staged, the record is of a tree that it does not lie in
  (`verbs.cpp:373`; specification 480-482, 1673). `apply` therefore has `init`
  only inside `transactional-update`.
- the packages drift of the three programs differs on documents that are not locks:
  C++ looks at the names of the reference and lets an empty field match anything,
  Go compares both ways by a key, Rust both ways by every field (`README.md:250`
  calls them behaviourally equivalent).
- a directory that may not be listed is described as an empty one, even under
  `on-unreadable=error` (`describe.cpp:358`; specification 1155-1166); the full scan
  passes over every failure (`describe.cpp:537`) and calls an unreadable file changed;
  it does not compare owners (`describe.cpp:586`; specification 1133-1136).
- an edit between the digest and the second reading of a file puts other bytes under
  its digest in the store (`describe.cpp:327`); two describers may each write a blob
  that the other has just completed.
- a provider of negative priority is never the best one (`describe.cpp:128`); an empty
  regular file in the place of a ghost link counts as pristine (`describe.cpp:303`).
- a keep-listed directory prunes the walk below it (`describe.cpp:375`), while
  `converge_files` and `compute_drift` compare whole paths.
- units_change compares the manifest with the record, never with the system
  (`diffdrift.cpp:43`): a declared unit that drifted is found by every later `apply`,
  which opens a snapshot, changes no unit and fails its own verification
  (`doc/zypper-declarative-architecture.md:509`: "reverts drift").
- every YAML text that `std::stoll` consumes becomes an integer and is written back as
  its value, quoted or not (`manifest_io.cpp:462`; the comment at 424-426 and specification
  1276-1283 want no implicit coercion): mode `"0644"` is read as `644`, so that a manifest in
  YAML has another `desired_sha256` than the same manifest in JSON, a package version `007`
  drifts from itself, and a name `~` is empty.
- the schema is hardly enforced: a scope that is `null` or a list is an empty one, which
  means reconcile to empty (`manifest_io.cpp:393`), and an element may lack its name; a value
  of another kind ends the process with an uncaught exception of jsoncpp
  (`manifest_io.cpp:327`). A truncated YAML file is an empty manifest
  (`manifest_io.cpp:489`), text behind a JSON document is not looked at.
- `describe` writes its output in place (`verbs.cpp:92`), so that readers may see a part of it;
  the status of the buffered write is looked at before it is flushed.
- exit codes: an invalid manifest is 2 under `verify` and 1 under `diff` (`verbs.cpp:177`,
  `verbs.cpp:119`; specification 729-730 splits the cases otherwise); `status` exits 1 on a
  record that does not parse (`verbs.cpp:236`; specification 770-771 says 0 whenever the
  invocation is valid).
- the explicit `format` applies to the manifest and to the dump alike; the keep-list is read
  twice, and one that cannot be opened is empty (`verbs.cpp:29`).
- an empty argument is passed over before the verb and refused after it (`config.cpp:53`);
  `mode` beats `transaction-mode`, and the last of several values of a key counts.
- packages of one name and architecture keep the order of the rpmdb in the canonical form
  (`manifest_io.cpp:128`), so that equal sets of packages may have different hashes.
- the modes `snapshot` and `plain` of the specification are not in the C++ program.

## 5. Proofs

TLAPS proves the following for every value of the constants: any number of
processes, describers, snapshots, names, manifests, directories and any pipe capacities.

| Theorem | Module | States | Hypotheses |
|---|---|---|---|
| `TypeCorrect` | `ApplyPlanProofs` | `[]TypeOK`: numbers are fresh, the booted and the default snapshot exist, a live process keeps an existing context root; every tree, manifest, plan and record is made of what the machine was given | |
| `PlanInvariant` | `ApplyPlanProofs` | a plan is a part of the intent diff of the desired manifest and the loaded record, worked off in order | |
| `Isolation` | `ApplyProofs` | `[]Isolated`: the context of a live process is one that it opened or the tree of its own transaction | I |
| `RunningTreeUntouched` | `ApplyProofs` | `RunningUntouched`: only an administrator changes the booted tree | I |
| `SingleWriter` | `ApplyProofs` | `OneWriter`: a tree has one writing process | I |
| `Apartness` | `ApplyRecordProofs` | `[]Apart`: two runs, live or succeeded and not booted yet, never have the same tree | I |
| `DeletesAreJustified` | `ApplyRecordProofs` | `DeletesJustified`: a deleted file is declared by the record, not by the manifest, nor protected | I, R |
| `StampedIsWhole` | `ApplyRecordProofs` | `[]StampedRecordWhole`: userdata never run ahead of the record | I, D |
| `RecordIsOfTree` | `ApplyRecordProofs` | `[]RecordOfTree`: the record of a successful run is its manifest with the packages of its tree | I, D, R |
| `InitRecordsWhatIs` | `ApplyRecordProofs` | `[]InitRecordsItsGeneration`: a generation does not drift from the record `init` left in it | I, D, R, F, P |
| `ExitZeroIsConverged` | `ApplyConvergedProofs` | `[]ExitZeroConverged`: after exit 0 of `apply` the tree has every declared file and unit state, no undeclared file, and the declared packages but for those that needed a dropped one | I, F, U |
| `ExitZeroIsCarriedOut` | `ApplyConvergedProofs` | `[]ExitZeroCarriedOut`: the same of every declared file, of every unit with a new state and of the packages, whatever the descriptions leave out | I, U |
| `GenerationsImplemented` | `ApplyConvergedProofs` | `ImplementsGenerations`: the booted and the next tree change as wholes | I, V, D, R, F, U |
| `DescriptionTyped` | `DescribeProofs` | `[]TypeOK`: a walk is over exactly when it has a result; only regular files are on their way to the store | |
| `StoreFilled` | `DescribeProofs` | `[]StoreComplete`: undisturbed describers leave a content under each reference | |
| `DescribedFaithfully` | `DescribeFaithfulProofs` | `[]Faithful`: a description of `/etc` has exactly what a fresh install would not bring back | N |
| `ScannedFaithfully` | `DescribeFaithfulProofs` | `[]ScanFaithful`: the same of the full scan | N |
| `ScopesDescribed` | `DescribeFaithfulProofs` | `[]ScopesFaithful`: a description has each section of every `.repo` file nobody edited, with its own settings, and no others; its packages and units are there, and all of them unless a query failed | |
| `VerbsTypeCorrect` | `ReadOnlyVerbsProofs` | `[]TypeOK`: exits have a code, what writes has an output, a fresh description is a file of a format | |
| `VerdictFaithfulAlways` | `ReadOnlyVerbsProofs` | `VerdictFaithful`: what an undisturbed verb reports, and its exit code, follow from what the documents and the host say | |
| `IntentSufficesAlways` | `ReadOnlyVerbsProofs` | `[]IntentSuffices`: carrying out an intent diff leaves no drift | |
| `TranslationsAgreeAlways` | `ReadOnlyVerbsProofs` | `[]TranslationsAgreeOnLocks`: three programs agree on whether locked packages drifted | |
| `IdentityIsModelAlways` | `ReadOnlyVerbsProofs` | `[]IdentityIsModel`: two declarations have one hash if and only if they say the same | |
| `DescribedIsCleanAlways` | `ReadOnlyVerbsProofs` | `DescribedIsClean`: an unchanged host does not drift from a finished description of it, whatever the formats | |
| `PositionFreeAlways` | `ReadOnlyVerbsProofs` | `PositionFree`: the order of the arguments means nothing | |
| `TypeCorrect` | `CommandRunnerProofs` | `[]TypeOK` | |
| `NeverBlocks` | `CommandRunnerProofs` | `ReadNeverBlocks`: no read waits for the command | |
| `CompleteOutput` | `CommandRunnerProofs` | `OutputComplete`: exit 0 without an interrupted poll has all of the output | |

The hypotheses, each of which some instance of the runs satisfies:

- **I**, `OutsideModes \subseteq {"internal"}`: nobody starts `apply` or `init` with mode
  `auto` or `external` outside of `transactional-update`. Without it the theorems are
  false, which `claim_isolated` shows.
- **V**, `OutsideVerbs \subseteq {"apply"}` and `"internal" \notin InsideModes`: `init` runs
  inside of `transactional-update` and takes its transaction. Otherwise it records
  a description of `/` in a copy of another tree (section 4), and what it commits is not what
  its record declares.
- **D**, `DiskFaults = FALSE`: no write is short without notice. The program does not look
  whether `applied.json` was written. **R**, `RpmdbFaults = FALSE`: every rpmdb
  opens. The program counts one that does not as empty, so that nothing is owned.
- **F**, `ReadFaults = FALSE`: a description leaves nothing out that is there. The program
  does not look at the status of `systemctl`, omits unreadable entries under
  `on-unreadable=warn`, and takes what is absent from a description for matching, so that
  post-verify passes what it did not see.
- **U**: a manifest has one entry for each path and one for each unit. `compute_drift` looks
  the entries of a path up in a map, which finds one of several; of two states of one unit the
  last that is set remains. `ExitZeroIsConverged` needs neither D nor R: a run that exits 0 has
  verified its own tree.
- **P**, `UniqueNames(InitialTree.pkgs)`: no package is installed in two versions; such a
  package drifts from itself.
- **N**, `NaturalPriorities`: no provider of an alternative has a negative priority, which
  the code would never choose.

The assumptions on constants say that what stands for the absence of a value is not a
value (`NoneAssumption`, `SentinelAssumption`, `UnsetAssumption`), that the inputs are
made of the names of the model (`UniverseAssumption`, `NodeAssumption`), that directories
have parents and the tops have none (`TreeAssumption`), and ranges of numbers and flags.
Those of the verbs say what form files and hosts have, because a conversion is only
defined on that form: a document has `meta` and scopes that the schema names, a scope its
attributes and its elements, the value of a switch is `true` or `false` and that of a number a
numeral, and a host is made of such scopes, in which a package, a repository and a service have
all of their fields and a priority is an `int`, in a manifest of version 1 (`ScenarioAssumption`,
`FamilyAssumption`). Nothing is assumed of which scopes are there, of which fields and kinds of
values a document has, of what else the texts are, or of how often a name occurs; a command line
is a sequence. That holds of whatever the parsers of the program let
through, since a scope they do not know is not looked at, and the kind of a value is that which
the parser found. `TextAssumption` names the fields of a package
and the strings, and says that `1` is a numeral. For the describer, a `.repo` file is a
sequence of lines, a query prints one too, and the default priority `99` is a numeral
(`LineAssumption`). TLC evaluates all of them.

**Who holds which tree** (`ApplyProofs`). `Numbers` is not inductive: it says that the
context root of a live process exists, which `TuEnd` (it removes the tree of its
transaction) and `Reboot` keep true only because of who can hold that tree. `IInv` adds
three parts. `Transaction`: the open transaction is neither booted nor the default, and
every live process that was started inside has it as its own. `Contexts`: a context that
was not opened by the program is the root of its process, and an opened one is owned by
that process, belongs to no open transaction, and is neither booted nor the default
while its process lives. `Shape`: the ranges of `snap`, `ctx`, `tu` and `args`. The bulk
of the 29 steps of a process are *quiet*: they move or end the process and change at most
the tree of its context. `StepsAreQuiet` reduces them to `Quiet`, and `QuietInv` shows
that a quiet step keeps `IInv`; the steps that acquire a context, and those of the
environment, have a lemma each. The two action properties need `Isolated` in addition.
From it follow `OwnRoot` (no two live processes share a context, and none has the booted
tree) and `StepWritesOwn` (each step writes only the context of a live process, or is an
administrator's or a discarded transaction's).

**Data and plans** (`ApplyPlanProofs`). `DInv` is `Data` (every variable is made
of what the machine was given), `Placed` (past `acquire` there is a context) and `Planned`:
a converger that is at work has the plan of the convergers behind it empty, and what is left
of its own is a part of the intent diff. The lemmas on `Install`, `Remove`, `PutFile`,
`Describe` and `ComputeDrift` come first in the module.

**Records** (`ApplyRecordProofs`). A run and its tree are followed from the acquisition until
the tree is booted: `Home(p)` is the tree that `p` has or will have, `Held(p)` says that it
still speaks for it. `Apart` gives each held tree one run, and the frame lemma
`HeldStep` follows: a step of somebody else leaves a held run and its tree the same, or
the run has just begun. So an invariant of the form "every held run ..." needs a look
at the run's own steps alone. `RInv` is of that form: `Recorded` says how far the record
is at each label, from its opening to the stamp; `Stamped` the same of the
userdata of every snapshot, including those whose run was killed.

**Exit 0 and generations** (`ApplyConvergedProofs`). `Converging` says of a held `apply` what
is true already of the desired manifest: each declared package is there, is still in the plan, or
needed one that the plan dropped (`There`), and then each declared file and each unit with a new
state. That gives `ExitZeroIsCarriedOut`, with no word about descriptions; `post_verify` adds, when its
description is complete, the other units and that there are no extras (`NoDriftHolds`). For the refinement
`GInv` adds `InitInside` and `Unstarted`; `LeftIsWhole` shows that the tree of a
successful run is a `WholeTree`, `SteadyStep` that a step that leaves the booted and the default tree
alone is a stutter or a `Take`, and `StepImplements` maps the other actions.

**Describe** (`DescribeProofs`, `DescribeFaithfulProofs`). `TInv` types the locals of a walk at
each label (`WalkOK`). `SInv` says of the store, as long as nothing was disturbed, that a
blob is empty only while a describer has it open, and that what a describer has emitted, or
is about to, is there (`Held`, `Kept`, `Sound`). `FInv` follows one path `x` that nobody
edited through a walk (`Tracked`): it is not reached yet, because the walk has a directory on its
stack or in its listing that leads to it (`OnTheWay`), or it is at hand and what was read of it
is right (`AtHand`), or it is decided, and then reported if and only if it is to be
(`EtcSound`, `EtcComplete`, `ScanSound`, `ScanComplete`). An edit puts its path
under `touched`, `Restrict` all the paths below its directory; `Untouched` shows that the
others are not concerned. That the target the code finds is that of the best provider
(`AutoIsBest`) needs a least element of a set of numbers.

The other scopes are `ScopeInv`: from its query to the end of the walk a scope is what the
query gave (`ScopesRight`), where the repositories need that what `repos.d` declares is the same
until somebody edits below it. It remains that the parser agrees, on a text of any length, with
`DeclaredRepos`, which speaks of the last value of each key between two headers. `Sections` is
a recursive function, and induction over its lines is out of reach; so it is shown by a least
counterexample instead, which is a fact about sets of numbers: the shortest text prefix that no
function describes would have a predecessor that one does (`ParserStops`), and the first line
after which the loop invariant `Reading` fails would follow one after which it holds
(`ParsedRight`). `Reading` has the sections before the last header as declared, and those of the
last header as far as its lines have been read; `NoSettings`, `SettingsOn` and
`LastValueOn` are its cases.

**Read-only verbs** (`ReadOnlyVerbsProofs`). `TInv` has the forms of files, hosts and runs:
an output that was written in place, cut short or garbled still is a document of that form
(`SerializedForm`, `FirstElements`), and every package that was read, from whatever kinds of
values, is one of the four fields (`ReadPackages`). The two comparisons are set algebra:
`WorkSuffices` goes scope by scope through `compute_intent_diff` and `compute_drift`, and needs that
a name occurs once where `compute_drift` looks it up; `LocksAgree` does the same for the three
programs. `FInv` adds `Follows(p)`, which ties the local variables of a run to where they came
from: the declaration is what the text that was read says, the record and the actual
state what record, dump and host say as long as nothing disturbed the run (`Recorded`,
`Watches`). What a reader makes of a document is compared with what its author
wrote by `Alike`: the two manifests have the same scopes, and what the comparisons look at of
their elements is the same. `ReadAlike` shows it of every document whose compared texts are
plain: for each of the three kinds, what YAML makes of a text (`Typed`) and then jsoncpp of
that (`Convert`) is the text (`ReadsKind`, `ReadsText`). `OnlyCompare` shows that no other
step prints, and `CompareFaithful` puts these together. `DescribedIsClean` needs the other
direction too, from memory to disk and back. `GInv` adds that each file in `fresh` is the
serialization of what a describer with that configuration gets from the host now (`Describes`): it holds of a
describer that nobody disturbed when it writes, and when the host changes, or a file is opened
again, it leaves `fresh`. `ReadsBack` shows that such a file is read without an exception, as
version 1 and with the same scopes, in its own format and as YAML; `WrittenAlike` that it says what
the comparisons look at in the manifest; `DescribedSame` that descriptions of one host differ in
what a full scan adds. So a run that revisits the host does not end before it compares
(`LastStep`, `RevisitCompares`), and what it compares is a state with itself (`CleanDrift`, which needs
that a name is there once). For identities the same is shown of whole
manifests (`ReadIsAuthored`), and that the ranks in a canonical form are all zero when keys are
unique, so that it is a set of elements (`KeyedSorted`, `HashIsModel`). Under a permutation of
the arguments the place of an option or of the word moves with it (`OrderFree`), and only an invocation
takes a command line (`LineKept`).

**Command runner**. The strengthening says that what the child wrote is what was
read plus what the pipe holds (`Conserved`), that a closed stream was seen at its
end (`ClosedAtEnd`), that a write end exists while a writer lives (`Holding`), that
a ready stream stays ready until it is read (`ReadyOpen`), and that only a
successful command yields status 0 (`StatusSound`).

Only model-checked:

- `EveryRunEnds`, `WalkEnds`, `RunReturns`: liveness, out of the prover's reach.
- The claims: a violated property has a counterexample, not a proof.

## 6. Not modelled, and the plan

- `apply` of the Go and Rust programs, which differ from the C++ one (they have no
  internal transactions): next, as variants of the actions of `Apply`.
- Options that the C++ program parses and does not use (`repo-lock`, `keyring`,
  `activation-policy`), and `root` and `applied-root` other than `/`, which lead all
  that is read to another tree.
- Left out for good: wording, logging, timestamps, the layout of JSON and YAML,
  signature verification (an empty block in `load_desired_manifest`), tests and packaging.
