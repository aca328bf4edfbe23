\* Documents, command lines and files in every role, and two processes that share them.
SPECIFICATION Spec
CONSTANTS
  Unset = Unset
  NoFile = NoFile
  Aborted = Aborted
  Absent = {absent}
  Wildcard = ""
  NoPackage = ""
  Concrete = "2"
  Text <- mc_Text
  Syncpoint = "sync"
  RecordPath = "applied.json"
  DefaultManifest = "manifest.json"
  Unwritable = {"locked"}
  PkgFields <- mc_PkgFields
  Release <- mc_Release
  Decimal <- mc_Decimal
  Wide <- mc_Wide
  Extension <- mc_Extension
  Scenarios <- mc_Scenarios
  Start <- mc_Start
  Lines <- mc_Lines
  Hosts <- mc_Hosts
  p1 = p1
  p2 = p2
  Procs = {p1, p2}
  Families = {"triples", "files", "identity", "revisit", "faults", "words"}
INVARIANTS TypeOK IdentityIsModel IntentSuffices TranslationsAgreeOnLocks
PROPERTIES VerdictFaithful DescribedIsClean PositionFree
SYMMETRY mc_Symmetry
CHECK_DEADLOCK FALSE
