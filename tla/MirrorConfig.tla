---------------------------- MODULE MirrorConfig ----------------------------
(***************************************************************************)
(* The mirror configuration writer of pkg/oci/containerd.go, run by the    *)
(* init container on the node's containerd registry directory:             *)
(* AddMirrorConfiguration, backupConfig, clearConfig, getHostFile.         *)
(*                                                                         *)
(* A run is a sequence of file system calls. It may stop between any two   *)
(* of them, because a call fails or because the container is killed; the   *)
(* kubelet then starts it again on the directory it left behind, and a     *)
(* later pod may start it with other arguments.                            *)
(***************************************************************************)
EXTENDS Integers

CONSTANTS
  Entries,      \* names of the entries of the directory: registry hosts and others
  Hosts,        \* URLs that can be a key of a host table
  NoTable,      \* content of a hosts.toml without a host table, an empty one included
  Garbage,      \* content of a hosts.toml that does not parse
  NoFile,       \* content of an entry that has no hosts.toml
  BackupDir,    \* the name _backup
  Absent,       \* no such entry
  Originals,    \* the directories a first run may find: functions on Entries
  Invocations,  \* arguments: [registries, mirrors, append, valid]
  MaxRuns,      \* bound: runs with arguments of their own
  MaxFaults     \* bound: runs cut short from outside

Tables == {hosts : hosts \in SUBSET Hosts}
Contents == Tables \cup {NoTable, Garbage, NoFile}
Directories == [Entries -> Contents \cup {Absent}]

ASSUME MirrorConfigAssumption ==
  /\ {Absent, BackupDir} \cap Entries = {}
  /\ {NoTable, Garbage, NoFile, Absent} \cap Tables = {}
  /\ Absent \notin {NoTable, Garbage, NoFile} /\ NoFile \notin {NoTable, Garbage} /\ NoTable # Garbage
  /\ Originals \subseteq Directories
  /\ Invocations \subseteq [registries : SUBSET Entries, mirrors : Tables \ {{}},
                            append : BOOLEAN, valid : BOOLEAN]
  /\ MaxRuns \in Nat /\ MaxFaults \in Nat

VARIABLES
  config,        \* the registry directory, without its _backup entry
  backup,        \* the _backup directory
  backupExists,  \* the _backup directory is there
  pc,            \* the next call of the run, or how the last run ended
  args,          \* arguments of the run
  todo,          \* entries the loop of the current function has not reached
  cur,           \* the registry whose hosts.toml is being written
  original,      \* history: the directory before the first run
  interrupted,   \* history: a run stopped between creating _backup and filling it
  runs, faults   \* how much of the two bounds is used

vars == <<config, backup, backupExists, pc, args, todo, cur, original, interrupted, runs, faults>>
fs == <<config, backup, backupExists>>
bounds == <<runs, faults>>

Present(dir) == {e \in Entries : dir[e] # Absent}
Empty == [e \in Entries |-> Absent]
Ended == {"new", "failed", "panicked", "done"}

-----------------------------------------------------------------------------

\* validateRegistries refuses invalid registry URLs before the directory is touched.
ValidateRegistries(a) == IF a.valid THEN "backup" ELSE "failed"

\* The container starts: with the same arguments after a failure, with any when
\* a pod takes over.
Start(a) ==
  /\ pc \in Ended
  /\ \/ pc \in {"failed", "panicked"} /\ a = args /\ UNCHANGED runs
     \/ runs < MaxRuns /\ runs' = runs + 1
  /\ args' = a
  /\ pc' = ValidateRegistries(a)
  /\ UNCHANGED <<fs, todo, cur, original, interrupted, faults>>

\* Mutant: a backup is taken whether or not there is one already.
BackupAlways == Present(config) # {}

\* backupConfig: only without a _backup directory, and only if there is something to save.
BackupNeeded == ~backupExists /\ Present(config) # {}

BackupConfig ==
  /\ pc = "backup"
  /\ IF BackupNeeded
     THEN /\ backupExists' = TRUE
          /\ pc' = "rename"
          /\ todo' = Present(config)
     ELSE /\ pc' = "clear"
          /\ UNCHANGED <<backupExists, todo>>
  /\ UNCHANGED <<config, backup, args, cur, original, interrupted, bounds>>

Rename ==
  /\ pc = "rename"
  /\ \E e \in todo :
       /\ backup' = [backup EXCEPT ![e] = config[e]]
       /\ config' = [config EXCEPT ![e] = Absent]
       /\ todo' = todo \ {e}
       /\ pc' = IF todo = {e} THEN "clear" ELSE "rename"
  /\ UNCHANGED <<backupExists, args, cur, original, interrupted, bounds>>

\* Mutant: _backup is removed along with the other entries.
ClearEverything(files) == files

\* clearConfig leaves _backup alone.
Cleared(files) == files \ {BackupDir}

ClearConfig ==
  /\ pc = "clear"
  /\ pc' = "remove"
  /\ todo' = Cleared(Present(config) \cup (IF backupExists THEN {BackupDir} ELSE {}))
  /\ UNCHANGED <<fs, args, cur, original, interrupted, bounds>>

Remove ==
  /\ pc = "remove"
  /\ \E e \in todo :
       /\ config' = IF e = BackupDir THEN config ELSE [config EXCEPT ![e] = Absent]
       /\ backup' = IF e = BackupDir THEN Empty ELSE backup
       /\ backupExists' = (backupExists /\ e # BackupDir)
       /\ todo' = todo \ {e}
  /\ UNCHANGED <<pc, args, cur, original, interrupted, bounds>>

RemoveDone ==
  /\ pc = "remove" /\ todo = {}
  /\ pc' = "write"
  /\ todo' = args.registries
  /\ UNCHANGED <<fs, args, cur, original, interrupted, bounds>>

\* Mutant: the file is looked for where it was before the backup.
HostFileInPlace(r) ==
  IF args.append /\ config[r] \notin {Absent, NoFile, NoTable} THEN config[r] ELSE {}

\* Mutant: a file that does not exist is an error.
HostFileRequired(r) ==
  IF ~args.append THEN {} ELSE IF backup[r] \in {Absent, NoFile} THEN Garbage ELSE backup[r]

\* getHostFile: the host table a registry's file starts from. An unreadable or
\* missing backup counts as no backup only if the file does not exist.
HostFile(r) ==
  IF args.append /\ backup[r] \notin {Absent, NoFile} THEN backup[r] ELSE {}

\* The file cannot be started when the backup does not parse; adding a mirror to
\* the host table it does not have panics.
WriteDir ==
  /\ pc = "write"
  /\ \E r \in todo :
       \/ /\ HostFile(r) \in Tables
          /\ config' = [config EXCEPT ![r] = NoFile]
          /\ cur' = r /\ pc' = "open"
       \/ /\ HostFile(r) \notin Tables
          /\ pc' = IF HostFile(r) = NoTable THEN "panicked" ELSE "failed"
          /\ UNCHANGED <<config, cur>>
  /\ UNCHANGED <<backup, backupExists, args, todo, original, interrupted, bounds>>

\* WriteFile creates the file empty and then fills it.
WriteOpen ==
  /\ pc = "open"
  /\ config' = [config EXCEPT ![cur] = NoTable]
  /\ pc' = "fill"
  /\ UNCHANGED <<backup, backupExists, args, todo, cur, original, interrupted, bounds>>

WriteFill ==
  /\ pc = "fill"
  /\ config' = [config EXCEPT ![cur] = HostFile(cur) \cup args.mirrors]
  /\ todo' = todo \ {cur}
  /\ cur' = Absent
  /\ pc' = "write"
  /\ UNCHANGED <<backup, backupExists, args, original, interrupted, bounds>>

WriteDone ==
  /\ pc = "write" /\ todo = {}
  /\ pc' = "done"
  /\ UNCHANGED <<fs, args, todo, cur, original, interrupted, bounds>>

\* A call fails, or the container is killed.
Fail ==
  /\ pc \notin Ended
  /\ faults < MaxFaults
  /\ faults' = faults + 1
  /\ pc' = "failed"
  /\ todo' = {} /\ cur' = Absent
  /\ interrupted' = (interrupted \/ pc = "rename")
  /\ UNCHANGED <<fs, args, original, runs>>

-----------------------------------------------------------------------------

Init ==
  /\ config \in Originals /\ original = config
  /\ backup = Empty /\ backupExists = FALSE
  /\ pc = "new" /\ args \in Invocations /\ todo = {} /\ cur = Absent
  /\ interrupted = FALSE /\ runs = 0 /\ faults = 0

Step ==
  \/ BackupConfig \/ Rename \/ ClearConfig \/ Remove \/ RemoveDone
  \/ WriteDir \/ WriteOpen \/ WriteFill \/ WriteDone

Next == (\E a \in Invocations : Start(a)) \/ Step \/ Fail

\* A run makes progress, and the kubelet starts a failed init container again.
Fairness == WF_vars(Step) /\ WF_vars(\E a \in Invocations : Start(a))

Spec == Init /\ [][Next]_vars /\ Fairness

-----------------------------------------------------------------------------
(* Properties *)

TypeOK ==
  /\ config \in Directories /\ backup \in Directories /\ original \in Directories
  /\ backupExists \in BOOLEAN /\ interrupted \in BOOLEAN
  /\ pc \in Ended \cup {"backup", "rename", "clear", "remove", "write", "open", "fill"}
  /\ args \in Invocations
  /\ todo \subseteq Entries
  /\ cur \in (IF pc \in {"open", "fill"} THEN todo ELSE {Absent})
  /\ pc \in {"open", "fill"} => HostFile(cur) \in Tables
  /\ runs \in 0 .. MaxRuns /\ faults \in 0 .. MaxFaults

\* Unless a run is cut short while it fills _backup, what was in the directory
\* before the first run is never lost: each entry is untouched where it was, or
\* in _backup, through any number of runs and crashes.
OriginalsKept ==
  ~interrupted => \A e \in Present(original) : original[e] \in {config[e], backup[e]}

\* What is saved in _backup stays there as it was saved: no later run, whatever it
\* finds, puts Spegel's own files over it or removes it.
BackupWrittenOnce ==
  [][/\ backupExists => backupExists'
     /\ \A e \in Entries : backup[e] # Absent => backup'[e] = backup[e]]_vars

\* The host table of a registry in the directory before the first run.
OriginalHosts(e) == IF original[e] \in Tables THEN original[e] ELSE {}

\* A run that completes leaves exactly the registries of its arguments, each with
\* its mirrors, and in append mode with the hosts the node's own file had: the
\* result depends on the original directory and the arguments alone, not on the
\* runs and crashes before.
OutcomeFromOriginal ==
  pc = "done" /\ ~interrupted /\ Present(original) # {} =>
    config = [e \in Entries |->
                IF e \notin args.registries THEN Absent
                ELSE args.mirrors \cup (IF args.append THEN OriginalHosts(e) ELSE {})]

\* With append, existing mirror configuration is appended to instead of replaced.
AppendKeepsExisting ==
  pc = "done" /\ args.append => \A e \in args.registries : OriginalHosts(e) \subseteq config[e]

\* With append, a run ends with the configuration written or with an error.
AppendNeverPanics == pc # "panicked"

\* The directory before the first run was not empty, and has no file that stops an append.
Appendable ==
  Present(original) # {} /\ \A e \in Entries : original[e] \notin {NoTable, Garbage}

\* On such a directory a run that has begun is followed by one that completes,
\* however often the container was killed in between, whatever it left behind,
\* unless a later pod has arguments that are refused.
Converges == pc = "backup" /\ Appendable ~> pc = "done" \/ ~args.valid
=============================================================================
