CONSTANTS
  r1 = r1
  r2 = r2
  m1 = m1
  n1 = n1
  n2 = n2
  n3 = n3
  Releases <- MCReleases
  FileVersion <- MCFileVersion
  FirstRelease = r1
  Mods <- MCMods
  NoMods = NoMods
  Nonces <- MCNonces
  TornManifests = {t1, t2}
  NoHash = NoHash
  Torn = Torn
  Absent = Absent
  TornArchive = TornArchive
  NoArchive = NoArchive
  MaxInjections = 2
  MaxFaults <- MCOneKill
SYMMETRY MCSymmetry
SPECIFICATION Spec
INVARIANTS RerunRestores
CHECK_DEADLOCK FALSE
