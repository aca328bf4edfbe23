\* A describer cannot write a blob, or is killed while it does.
SPECIFICATION Spec
CONSTANTS
  EmptyDigest = d0
  NoDigest = NoDigest
  Unreadable = Unreadable
  NoNode = NoNode
  NoBaseline = NoBaseline
  NoBlob = NoBlob
  NoTarget = NoTarget
  strict = strict
  lax = lax
  etc = etc
  repos = repos
  kept = kept
  usr = usr
  conf = conf
  alt = alt
  ghost = ghost
  repo = repo
  inkept = inkept
  sync = sync
  bin = bin
  lib = lib
  d0 = d0
  d1 = d1
  d2 = d2
  t1 = t1
  t2 = t2
  Policy <- mc_Policy
  Dirs <- mc_Dirs
  Leaves <- mc_Leaves
  Parent <- mc_Parent
  EtcDir = etc
  ReposDir = repos
  ScanDirs = {usr}
  KeepList = {kept}
  Syncpoint = sync
  Baseline <- mc_Baseline
  Providers <- mc_Providers
  Behind <- mc_Behind
  Headers <- mc_Headers
  RepoText <- mc_RepoText
  Numeral <- mc_Numeral
  UnitFiles <- mc_Units
  InitialFs <- mc_Fs
  EditNodes = {}
  Describers = {strict, lax}
  Full = TRUE
  Store = TRUE
  MaxEvents = 1
INVARIANTS ContentRefResolves
CHECK_DEADLOCK FALSE
