\* apply and init, one process at a time: in a transactional-update run, apply also opening its own snapshot.
SPECIFICATION Spec
CONSTANTS
  Absent = {absent}
  Wildcard = Wildcard
  NoPackage = NoPackage
  NoFile = NoFile
  None = None
  Killed = Killed
  Torn = Torn
  NoHash = NoHash
  p1 = p1
  p2 = p2
  foo = foo
  conf = conf
  kept = kept
  sync = sync
  base_pkg = base_pkg
  web_pkg = web_pkg
  app_pkg = app_pkg
  web = web
  d0 = d0
  d1 = d1
  d2 = d2
  bad = bad
  Syncpoint = sync
  PkgFields <- mc_Fields
  Paths = {foo, conf, kept, sync}
  Units = {web}
  Ships <- mc_Ships
  Requires <- mc_Requires
  KeepList = {kept}
  InitialTree <- mc_Tree
  RepoVersions <- mc_Versions
  EmptyDigest = d0
  CorruptDigest = bad
  DefaultMode = "0644"
  Procs = {p1}
  MaxSnap = 2
  MaxEdits = 1
  Manifests <- mc_Manifests
  Verbs = {"init", "apply"}
  InsideModes = {"auto", "external"}
  OutsideModes = {"internal"}
  EditNodes <- mc_EditNodes
  EditStates = {"masked"}
  RpmdbFaults = FALSE
  ReadFaults = FALSE
  DiskFaults = FALSE
  ContentStore = TRUE
  OutsideVerbs = {"apply"}
INVARIANTS TypeOK ExitZeroConverged RecordOfTree InitRecordsItsGeneration
PROPERTIES RunningUntouched DeletesJustified ImplementsGenerations
