------------------------- MODULE MirrorConfigProofs -------------------------
(***************************************************************************)
(* Proofs about MirrorConfig, for any set of entries, hosts and            *)
(* invocations and any number of runs and crashes.                         *)
(***************************************************************************)
EXTENDS MirrorConfig, TLAPS

\* What TypeOK and the properties need to know of the constants.
LEMMA Constants ==
  /\ Absent \notin Entries /\ BackupDir \notin Entries
  /\ NoTable \notin Tables /\ Garbage \notin Tables /\ NoFile \notin Tables /\ Absent \notin Tables
  /\ Originals \subseteq Directories
  /\ \A a \in Invocations : a.registries \subseteq Entries /\ a.mirrors \in Tables /\ a.append \in BOOLEAN
  /\ MaxRuns \in Nat /\ MaxFaults \in Nat
BY MirrorConfigAssumption

\* The state of a run is well formed: the directories map entries to contents, the
\* loops only hold entries of the directory, and a file is being written only for a
\* registry that is still to be done (AddMirrorConfiguration and its helpers).
THEOREM TypeCorrect == Spec => []TypeOK
<1>1. Init => TypeOK
  <2> SUFFICES ASSUME Init PROVE TypeOK
    OBVIOUS
  <2>1. config \in Directories /\ original \in Directories /\ backup \in Directories
    BY Constants DEF Init, Directories, Empty
  <2>2. runs \in 0 .. MaxRuns /\ faults \in 0 .. MaxFaults
    BY Constants DEF Init
  <2>3. pc = "new" /\ cur = Absent /\ todo = {} /\ args \in Invocations
        /\ backupExists = FALSE /\ interrupted = FALSE
    BY DEF Init
  <2>4. QED
    BY <2>1, <2>2, <2>3 DEF TypeOK, Ended
<1>2. TypeOK /\ [Next]_vars => TypeOK'
  <2> SUFFICES ASSUME TypeOK, [Next]_vars
               PROVE  TypeOK'
    OBVIOUS
  <2> USE Constants DEF TypeOK, Ended, fs, bounds
  <2>1. ASSUME NEW a \in Invocations, Start(a)
        PROVE  TypeOK'
    BY <2>1 DEF Start, ValidateRegistries
  <2>2. CASE BackupConfig
    BY <2>2 DEF BackupConfig, Present
  <2>3. CASE Rename
    BY <2>3 DEF Rename, Directories
  <2>4. CASE ClearConfig
    BY <2>4 DEF ClearConfig, Cleared, Present
  <2>5. CASE Remove
    BY <2>5 DEF Remove, Directories
  <2>6. CASE RemoveDone
    BY <2>6 DEF RemoveDone
  <2>7. CASE WriteDir
    BY <2>7 DEF WriteDir, HostFile, Directories, Contents
  <2>8. CASE WriteOpen
    BY <2>8 DEF WriteOpen, HostFile, Directories, Contents
  <2>9. CASE WriteFill
    BY <2>9 DEF WriteFill, Directories, Contents, Tables
  <2>10. CASE WriteDone
    BY <2>10 DEF WriteDone
  <2>11. CASE Fail
    BY <2>11 DEF Fail
  <2>12. CASE UNCHANGED vars
    BY <2>12 DEF vars, HostFile
  <2>13. QED
    BY <2>1, <2>2, <2>3, <2>4, <2>5, <2>6, <2>7, <2>8, <2>9, <2>10, <2>11, <2>12 DEF Next, Step
<1>3. QED
  BY <1>1, <1>2, PTL DEF Spec

-----------------------------------------------------------------------------
(* What becomes of the node's own configuration *)

\* A run is past the point where the backup must be complete.
PastBackup == {"clear", "remove", "write", "open", "fill"}

\* As long as no run is cut short while it fills _backup: before the backup the
\* directory is untouched, during it each entry is in one place or the other, and
\* after it _backup is the original directory.
BackupInv ==
  ~interrupted /\ Present(original) # {} =>
    /\ ~backupExists => config = original /\ backup = Empty /\ pc \notin PastBackup /\ pc \notin {"rename", "done", "panicked"}
    /\ pc = "rename" =>
         /\ backupExists /\ todo # {}
         /\ \A e \in Entries : IF e \in todo THEN config[e] = original[e] /\ backup[e] = Absent
                               ELSE backup[e] = original[e]
    /\ backupExists /\ pc # "rename" => backup = original

\* BackupInv is inductive, given the types.
LEMMA BackupInvStep == TypeOK /\ BackupInv /\ [Next]_vars => BackupInv'
<1> SUFFICES ASSUME TypeOK, BackupInv, [Next]_vars,
                    ~interrupted', Present(original)' # {}
             PROVE  /\ ~backupExists' => config' = original' /\ backup' = Empty /\ pc' \notin PastBackup
                                         /\ pc' \notin {"rename", "done", "panicked"}
                    /\ pc' = "rename" =>
                         /\ backupExists' /\ todo' # {}
                         /\ \A e \in Entries : IF e \in todo' THEN config'[e] = original'[e] /\ backup'[e] = Absent
                                               ELSE backup'[e] = original'[e]
                    /\ backupExists' /\ pc' # "rename" => backup' = original'
  BY DEF BackupInv
<1> USE Constants DEF TypeOK, BackupInv, Ended, PastBackup, fs, bounds, Present, Empty
<1>1. ASSUME NEW a \in Invocations, Start(a)
      PROVE  BackupInv'
  BY <1>1 DEF Start, ValidateRegistries
<1>2. CASE BackupConfig
  BY <1>2 DEF BackupConfig, BackupNeeded, Directories
<1>3. CASE Rename
  <2>1. PICK e \in todo :
          /\ backup' = [backup EXCEPT ![e] = config[e]]
          /\ config' = [config EXCEPT ![e] = Absent]
          /\ todo' = todo \ {e}
          /\ pc' = IF todo = {e} THEN "clear" ELSE "rename"
    BY <1>3 DEF Rename
  <2>2. /\ pc = "rename" /\ backupExists /\ backupExists'
        /\ original' = original /\ ~interrupted /\ e \in Entries
    BY <1>3, <2>1 DEF Rename
  <2>3. \A x \in Entries : IF x \in todo' THEN config'[x] = original[x] /\ backup'[x] = Absent
                           ELSE backup'[x] = original[x]
    BY <2>1, <2>2 DEF Directories
  <2>4. CASE todo = {e}
    <3>1. \A x \in Entries : backup'[x] = original[x]
      BY <2>1, <2>3, <2>4
    <3>2. backup' = original
      BY <3>1, <2>1, <2>2 DEF Directories
    <3>3. QED
      BY <2>1, <2>2, <2>4, <3>2
  <2>5. CASE todo # {e}
    BY <2>1, <2>2, <2>3, <2>5
  <2>6. QED
    BY <2>4, <2>5
<1>4. CASE ClearConfig
  BY <1>4 DEF ClearConfig
<1>5. CASE Remove
  BY <1>5 DEF Remove
<1>6. CASE RemoveDone
  BY <1>6 DEF RemoveDone
<1>7. CASE WriteDir \/ WriteOpen \/ WriteFill \/ WriteDone
  BY <1>7 DEF WriteDir, WriteOpen, WriteFill, WriteDone
<1>8. CASE Fail
  BY <1>8 DEF Fail
<1>9. CASE UNCHANGED vars
  BY <1>9 DEF vars
<1>10. QED
  BY <1>1, <1>2, <1>3, <1>4, <1>5, <1>6, <1>7, <1>8, <1>9 DEF Next, Step

\* Unless a run is cut short while it fills _backup, no entry the node had before the
\* first run is lost, through any number of runs and crashes (backupConfig and
\* clearConfig).
THEOREM OriginalsAreKept == Spec => []OriginalsKept
<1>1. Init => BackupInv
  BY DEF Init, BackupInv, PastBackup
<1>2. TypeOK /\ BackupInv => OriginalsKept
  <2> SUFFICES ASSUME TypeOK, BackupInv, ~interrupted, NEW e \in Present(original)
               PROVE  original[e] \in {config[e], backup[e]}
    BY DEF OriginalsKept
  <2>1. e \in Entries /\ Present(original) # {}
    BY DEF Present
  <2>2. QED
    BY <2>1 DEF BackupInv, TypeOK
<1>3. QED
  BY <1>1, <1>2, TypeCorrect, BackupInvStep, PTL DEF Spec

\* Nothing is in _backup before it is created, and an entry that is to be moved there
\* is not there yet.
SavedInv ==
  /\ ~backupExists => backup = Empty
  /\ pc = "rename" => backupExists /\ \A e \in todo : backup[e] = Absent

\* SavedInv is inductive, given the types.
LEMMA SavedInvStep == TypeOK /\ SavedInv /\ [Next]_vars => SavedInv'
<1> SUFFICES ASSUME TypeOK, SavedInv, [Next]_vars
             PROVE  SavedInv'
  OBVIOUS
<1> USE Constants DEF TypeOK, SavedInv, Ended, fs
<1>1. ASSUME NEW a \in Invocations, Start(a)
      PROVE  SavedInv'
  BY <1>1 DEF Start, ValidateRegistries
<1>2. CASE BackupConfig
  BY <1>2 DEF BackupConfig, BackupNeeded, Present, Empty
<1>3. CASE Rename
  BY <1>3 DEF Rename, Directories
<1>4. CASE Remove
  BY <1>4 DEF Remove
<1>5. CASE ClearConfig \/ RemoveDone \/ WriteDir \/ WriteOpen \/ WriteFill \/ WriteDone
  BY <1>5 DEF ClearConfig, RemoveDone, WriteDir, WriteOpen, WriteFill, WriteDone
<1>6. CASE Fail \/ UNCHANGED vars
  BY <1>6 DEF Fail, vars
<1>7. QED
  BY <1>1, <1>2, <1>3, <1>4, <1>5, <1>6 DEF Next, Step

\* What is saved in _backup stays there as it was saved: backupConfig does nothing when
\* the directory exists, and clearConfig passes it over.
THEOREM BackupIsWrittenOnce == Spec => BackupWrittenOnce
<1>1. Init => SavedInv
  BY DEF Init, SavedInv
<1>2. TypeOK /\ SavedInv /\ [Next]_vars =>
        [/\ backupExists => backupExists'
         /\ \A e \in Entries : backup[e] # Absent => backup'[e] = backup[e]]_vars
  <2> SUFFICES ASSUME TypeOK, SavedInv, Next
               PROVE  /\ backupExists => backupExists'
                      /\ \A e \in Entries : backup[e] # Absent => backup'[e] = backup[e]
    OBVIOUS
  <2> USE DEF fs
  <2>1. CASE \E a \in Invocations : Start(a)
    BY <2>1 DEF Start, ValidateRegistries
  <2>2. CASE BackupConfig \/ ClearConfig \/ RemoveDone
    BY <2>2 DEF BackupConfig, ClearConfig, RemoveDone
  <2>3. CASE Rename
    BY <2>3 DEF Rename, SavedInv, TypeOK, Directories
  <2>4. CASE Remove
    BY <2>4, Constants DEF Remove, TypeOK
  <2>5. CASE WriteDir \/ WriteOpen \/ WriteFill \/ WriteDone \/ Fail
    BY <2>5 DEF WriteDir, WriteOpen, WriteFill, WriteDone, Fail
  <2>6. QED
    BY <2>1, <2>2, <2>3, <2>4, <2>5 DEF Next, Step
<1>3. QED
  BY <1>1, <1>2, TypeCorrect, SavedInvStep, PTL DEF Spec, BackupWrittenOnce

-----------------------------------------------------------------------------
(* What a completed run leaves behind *)

\* The file of a registry is written from a readable host table.
Written(e) == HostFile(e) \in Tables /\ config[e] = HostFile(e) \cup args.mirrors

\* clearConfig forgets no entry; the loop of AddMirrorConfiguration has written the
\* registries it has left behind and nothing else, but for the file in its hands.
WriteInv ==
  /\ pc = "remove" => Present(config) \subseteq todo
  /\ pc \in {"write", "open", "fill"} =>
       /\ todo \subseteq args.registries
       /\ \A e \in Entries \ {cur} :
            IF e \in args.registries \ todo THEN Written(e) ELSE config[e] = Absent
  /\ pc = "done" =>
       \A e \in Entries : IF e \in args.registries THEN Written(e) ELSE config[e] = Absent

\* WriteInv is inductive, given the types.
LEMMA WriteInvStep == TypeOK /\ WriteInv /\ [Next]_vars => WriteInv'
<1> SUFFICES ASSUME TypeOK, WriteInv, [Next]_vars
             PROVE  WriteInv'
  OBVIOUS
<1> USE Constants DEF TypeOK, WriteInv, Ended, fs, bounds, Written, HostFile
<1>1. ASSUME NEW a \in Invocations, Start(a)
      PROVE  WriteInv'
  BY <1>1 DEF Start, ValidateRegistries
<1>2. CASE BackupConfig \/ Rename
  BY <1>2 DEF BackupConfig, Rename
<1>3. CASE ClearConfig
  BY <1>3 DEF ClearConfig, Cleared, Present
<1>4. CASE Remove
  BY <1>4 DEF Remove, Present, Directories
<1>5. CASE RemoveDone
  BY <1>5 DEF RemoveDone, Present
<1>6. CASE WriteDir
  BY <1>6 DEF WriteDir, Directories
<1>7. CASE WriteOpen
  BY <1>7 DEF WriteOpen, Directories
<1>8. CASE WriteFill
  BY <1>8 DEF WriteFill, Directories
<1>9. CASE WriteDone
  BY <1>9 DEF WriteDone
<1>10. CASE Fail
  BY <1>10 DEF Fail
<1>11. CASE UNCHANGED vars
  BY <1>11 DEF vars, Present
<1>12. QED
  BY <1>1, <1>2, <1>3, <1>4, <1>5, <1>6, <1>7, <1>8, <1>9, <1>10, <1>11 DEF Next, Step

\* What AddMirrorConfiguration leaves when it completes depends on the directory the
\* node had before the first run and on the arguments alone, whatever runs and crashes
\* came before, unless one of them was cut short while it filled _backup.
THEOREM OutcomeIsFromOriginal == Spec => []OutcomeFromOriginal
<1>1. Init => BackupInv /\ WriteInv
  BY DEF Init, BackupInv, WriteInv, PastBackup
<1>2. TypeOK /\ BackupInv /\ WriteInv => OutcomeFromOriginal
  <2> SUFFICES ASSUME TypeOK, BackupInv, WriteInv,
                      pc = "done", ~interrupted, Present(original) # {}
               PROVE  config = [e \in Entries |->
                                  IF e \notin args.registries THEN Absent
                                  ELSE args.mirrors \cup (IF args.append THEN OriginalHosts(e) ELSE {})]
    BY DEF OutcomeFromOriginal
  <2>1. backup = original
    BY DEF BackupInv, PastBackup
  <2>2. ASSUME NEW e \in Entries, e \in args.registries
        PROVE  config[e] = args.mirrors \cup (IF args.append THEN OriginalHosts(e) ELSE {})
    BY <2>1, <2>2, Constants DEF WriteInv, Written, HostFile, OriginalHosts, TypeOK, Directories, Contents
  <2>3. ASSUME NEW e \in Entries, e \notin args.registries
        PROVE  config[e] = Absent
    BY <2>3 DEF WriteInv
  <2>4. QED
    BY <2>2, <2>3 DEF TypeOK, Directories
<1>3. QED
  BY <1>1, <1>2, TypeCorrect, BackupInvStep, WriteInvStep, PTL DEF Spec
=============================================================================
