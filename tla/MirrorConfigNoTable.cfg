CONSTANTS
  docker = docker
  ghcr = ghcr
  other = other
  m1 = m1
  m2 = m2
  user = user
  NoTable = NoTable
  Garbage = Garbage
  NoFile = NoFile
  BackupDir = BackupDir
  Absent = Absent
  Entries <- MCEntries
  Hosts <- MCHosts
  Originals <- OddOriginals
  Invocations <- AppendInvocations
  MaxRuns = 1
  MaxFaults = 0
SPECIFICATION Spec
CHECK_DEADLOCK FALSE
INVARIANTS
  AppendNeverPanics
