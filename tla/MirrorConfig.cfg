CONSTANTS
  docker = docker
  ghcr = ghcr
  other = other
  m1 = m1
  m2 = m2
  user = user
  NoTable = NoTable
  Garbage = Garbage
  NoFile = NoFile
  BackupDir = BackupDir
  Absent = Absent
  Entries <- MCEntries
  Hosts <- MCHosts
  Originals <- AllOriginals
  Invocations <- AllInvocations
  MaxRuns = 2
  MaxFaults = 2
SPECIFICATION Spec
CHECK_DEADLOCK FALSE
INVARIANTS
  TypeOK
  OriginalsKept
  OutcomeFromOriginal
PROPERTIES
  BackupWrittenOnce
  Converges
