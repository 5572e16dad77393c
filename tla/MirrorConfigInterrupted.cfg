CONSTANTS
  docker = docker
  ghcr = ghcr
  other = other
  m1 = m1
  m2 = m2
  user = user
  NoTable = NoTable
  Garbage = Garbage
  NoFile = NoFile
  BackupDir = BackupDir
  Absent = Absent
  Entries <- MCEntries
  Hosts <- MCHosts
  Originals <- UserOriginals
  Invocations <- AppendInvocations
  MaxRuns = 1
  MaxFaults = 1
SPECIFICATION Spec
CHECK_DEADLOCK FALSE
INVARIANTS
  AppendKeepsExisting
