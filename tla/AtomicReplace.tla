---------------------------- MODULE AtomicReplace ----------------------------
(***************************************************************************)
(* The replacement of one file by concurrent calls, each writing contents  *)
(* of its own: atomic_replace (platform/durability.py), which reports how  *)
(* far it came, and core.atomic_write, which raises or returns.  Any system*)
(* call may fail, any process may be killed, and the power may go.         *)
(***************************************************************************)
EXTENDS Integers

CONSTANTS
  Call,       \* calls; each stands for the file it writes as well
  Plain,      \* those of core.atomic_write
  Old,        \* the file that was there before
  MaxFaults,  \* bound: system calls that fail
  MaxCrashes  \* bound: processes killed and losses of power

None == "none"

ASSUME CallAssumption == Plain \subseteq Call /\ Old \notin Call /\ None \notin Call \cup {Old}

ASSUME BoundAssumption == MaxFaults \in Nat /\ MaxCrashes \in Nat

VARIABLES
  dest,      \* the file at the destination
  possible,  \* the files that may be there after a loss of power
  call,      \* each call, with the temporary file it writes
  older,     \* history: what "possible" was when a call renamed its file
  syncable,  \* the file system can sync a directory
  faults, crashes

vars == <<dest, possible, call, older, syncable, faults, crashes>>

File == Call \cup {Old}

Boundary == {"temp_created", "data_written", "data_flushed", "file_synced", "renamed",
             "directory_synced", "filesystem_synced"}
FailureStage == {"create_temp", "write", "flush", "file_fsync", "close_temp",
                 "identity_recheck", "rename", "open_directory", "directory_fsync", "syncfs",
                 "close_directory"}

\* Where a call is ("create_temp" and so on: about to make that system call), its
\* data, whether its temporary name exists, and what it will report.
CallState ==
  [at : FailureStage \cup {"new", "returned", "lost"}, data : {"none", "part", "whole", "synced"},
   temp : BOOLEAN, completed : SUBSET Boundary, expected : File \cup {None},
   stage : FailureStage \cup {None}, cleaned : BOOLEAN]

Fresh == [at |-> "new", data |-> "none", temp |-> FALSE, completed |-> {}, expected |-> None,
          stage |-> None, cleaned |-> TRUE]

Init ==
  /\ dest = Old /\ possible = {Old}
  /\ call = [c \in Call |-> Fresh]
  /\ older = [c \in Call |-> {}]
  /\ syncable \in BOOLEAN
  /\ faults = 0 /\ crashes = 0

At(c, place) == call[c].at = place
Renamed(c) == "renamed" \in call[c].completed
ParentSynced(c) == {"directory_synced", "filesystem_synced"} \cap call[c].completed # {}

Fault == faults < MaxFaults /\ faults' = faults + 1 /\ UNCHANGED crashes

Unfailing == UNCHANGED <<faults, crashes>>

\* Mutant: the stage is noted instead of the boundary.
PassesStage(c, next, boundary, data) ==
  call' = [call EXCEPT ![c] = [call[c] EXCEPT
                 !.at = next, !.data = data,
                 !.completed = call[c].completed \cup {call[c].at}]]

\* The call has passed a boundary; its data are as named.
Passes(c, next, boundary, data) ==
  call' = [call EXCEPT ![c] = [call[c] EXCEPT
                 !.at = next, !.data = data,
                 !.completed = call[c].completed \cup {boundary}]]

-----------------------------------------------------------------------------
(* Before the rename.                                                      *)

\* The caller may have recorded the identity of the file it means to replace.
Begin(c) ==
  /\ At(c, "new")
  /\ \E expected \in {None} \cup (IF c \in Plain THEN {} ELSE {dest}) :
       call' = [call EXCEPT ![c] = [@ EXCEPT !.at = "create_temp", !.expected = expected]]
  /\ Unfailing /\ UNCHANGED <<dest, possible, older, syncable>>

CreateTemp(c) ==
  /\ At(c, "create_temp")
  /\ call' = [call EXCEPT ![c] = [@ EXCEPT !.at = "write", !.data = "part", !.temp = TRUE,
                                           !.completed = {"temp_created"}]]
  /\ Unfailing /\ UNCHANGED <<dest, possible, older, syncable>>

\* create_temporary_binary_file undoes its own failure; when that fails as well
\* _failed knows no path and still reports the temporary file as cleaned.
CreateTempFails(c) ==
  /\ At(c, "create_temp") /\ Fault
  /\ \E left \in BOOLEAN :
       call' = [call EXCEPT ![c] = [@ EXCEPT !.at = "returned", !.stage = "create_temp",
                                             !.temp = left]]
  /\ UNCHANGED <<dest, possible, older, syncable>>

WriteData(c) ==
  /\ At(c, "write") /\ Passes(c, "flush", "data_written", "part")
  /\ Unfailing /\ UNCHANGED <<dest, possible, older, syncable>>

Flush(c) ==
  /\ At(c, "flush") /\ Passes(c, "file_fsync", "data_flushed", "whole")
  /\ Unfailing /\ UNCHANGED <<dest, possible, older, syncable>>

\* Mutant: the file is renamed without being synced.
SkipSync(c) ==
  /\ At(c, "file_fsync") /\ Passes(c, "close_temp", "file_synced", "whole")
  /\ Unfailing /\ UNCHANGED <<dest, possible, older, syncable>>

SyncFile(c) ==
  /\ At(c, "file_fsync") /\ Passes(c, "close_temp", "file_synced", "synced")
  /\ Unfailing /\ UNCHANGED <<dest, possible, older, syncable>>

CloseTemp(c) ==
  /\ At(c, "close_temp")
  /\ call' = [call EXCEPT ![c].at = "identity_recheck"]
  /\ Unfailing /\ UNCHANGED <<dest, possible, older, syncable>>

\* _failed before the rename: the temporary file is unlinked, if that does not
\* fail too.
Undoes(c) ==
  \E cleaned \in BOOLEAN :
    call' = [call EXCEPT ![c] = [@ EXCEPT !.at = "returned", !.stage = call[c].at,
                                          !.temp = ~cleaned, !.cleaned = cleaned]]

\* Mutant: the rename goes ahead whatever is at the destination.
MatchesAnything(c) == TRUE

Matches(c) == call[c].expected \in {None, dest}

RecheckIdentity(c) ==
  /\ At(c, "identity_recheck")
  /\ IF Matches(c) THEN call' = [call EXCEPT ![c].at = "rename"] ELSE Undoes(c)
  /\ Unfailing /\ UNCHANGED <<dest, possible, older, syncable>>

FailsBeforeRename(c) ==
  /\ call[c].at \in {"write", "flush", "file_fsync", "close_temp", "rename"}
       \cup (IF call[c].expected = None THEN {} ELSE {"identity_recheck"})
  /\ Fault /\ Undoes(c)
  /\ UNCHANGED <<dest, possible, older, syncable>>

-----------------------------------------------------------------------------
(* The rename and the sync of the parent.                                  *)

Rename(c) ==
  /\ At(c, "rename")
  /\ dest' = c /\ possible' = possible \cup {c}
  /\ older' = [older EXCEPT ![c] = possible]
  /\ call' = [call EXCEPT ![c] = [@ EXCEPT !.at = "open_directory", !.temp = FALSE,
                                           !.completed = call[c].completed \cup {"renamed"}]]
  /\ Unfailing /\ UNCHANGED syncable

OpenDirectory(c) ==
  /\ At(c, "open_directory")
  /\ call' = [call EXCEPT ![c].at = "directory_fsync"]
  /\ Unfailing /\ UNCHANGED <<dest, possible, older, syncable>>

\* core.fsync_dir returns without a word when it cannot open the directory.
OpenDirectoryFails(c) ==
  /\ At(c, "open_directory") /\ Fault
  /\ call' = [call EXCEPT ![c] = [@ EXCEPT !.at = "returned",
                 !.stage = IF c \in Plain THEN None ELSE "open_directory"]]
  /\ UNCHANGED <<dest, possible, older, syncable>>

\* A sync makes every earlier rename in the directory durable.
Syncs(c, boundary) ==
  /\ possible' = {dest}
  /\ Passes(c, "close_directory", boundary, call[c].data)
  /\ Unfailing /\ UNCHANGED <<dest, older, syncable>>

SyncDirectory(c) == At(c, "directory_fsync") /\ syncable /\ Syncs(c, "directory_synced")

FailsAfterRename(c) ==
  call' = [call EXCEPT ![c] = [@ EXCEPT !.at = "close_directory", !.stage = call[c].at]]

\* Mutant: what the file system cannot sync counts as synced.
IgnoreUnsupported(c) ==
  /\ At(c, "directory_fsync") /\ ~syncable
  /\ Passes(c, "close_directory", "directory_synced", call[c].data)
  /\ Unfailing /\ UNCHANGED <<dest, possible, older, syncable>>

\* Where a directory cannot be synced atomic_replace syncs the file system.
SyncUnsupported(c) ==
  /\ At(c, "directory_fsync") /\ ~syncable
  /\ IF c \in Plain THEN FailsAfterRename(c) ELSE call' = [call EXCEPT ![c].at = "syncfs"]
  /\ Unfailing /\ UNCHANGED <<dest, possible, older, syncable>>

SyncFilesystem(c) == At(c, "syncfs") /\ Syncs(c, "filesystem_synced")

SyncFails(c) ==
  /\ At(c, "directory_fsync") \/ At(c, "syncfs")
  /\ Fault /\ FailsAfterRename(c)
  /\ UNCHANGED <<dest, possible, older, syncable>>

CloseDirectory(c) ==
  /\ At(c, "close_directory")
  /\ call' = [call EXCEPT ![c].at = "returned"]
  /\ Unfailing /\ UNCHANGED <<dest, possible, older, syncable>>

\* The first failure is the one reported.
CloseDirectoryFails(c) ==
  /\ At(c, "close_directory") /\ Fault
  /\ call' = [call EXCEPT ![c] = [@ EXCEPT !.at = "returned",
                 !.stage = IF call[c].stage = None THEN "close_directory" ELSE call[c].stage]]
  /\ UNCHANGED <<dest, possible, older, syncable>>

-----------------------------------------------------------------------------
(* Crashes.                                                                *)

Running(c) == call[c].at \in FailureStage

Lost(c) == [call[c] EXCEPT !.at = "lost"]

Kill(c) ==
  /\ Running(c) /\ crashes < MaxCrashes /\ crashes' = crashes + 1
  /\ call' = [call EXCEPT ![c] = Lost(c)]
  /\ UNCHANGED <<dest, possible, older, syncable, faults>>

PowerLoss ==
  /\ crashes < MaxCrashes /\ crashes' = crashes + 1
  /\ \E f \in possible : dest' = f /\ possible' = {f}
  /\ call' = [c \in Call |-> IF Running(c) THEN Lost(c) ELSE call[c]]
  /\ UNCHANGED <<older, syncable, faults>>

Prepares(c) ==
  \/ Begin(c)
  \/ CreateTemp(c)
  \/ CreateTempFails(c)
  \/ WriteData(c)
  \/ Flush(c)
  \/ SyncFile(c)
  \/ CloseTemp(c)
  \/ RecheckIdentity(c)
  \/ FailsBeforeRename(c)

Publishes(c) ==
  \/ Rename(c)
  \/ OpenDirectory(c)
  \/ OpenDirectoryFails(c)
  \/ SyncDirectory(c)
  \/ SyncUnsupported(c)
  \/ SyncFilesystem(c)
  \/ SyncFails(c)
  \/ CloseDirectory(c)
  \/ CloseDirectoryFails(c)

Next ==
  \/ PowerLoss
  \/ \E c \in Call : Prepares(c)
  \/ \E c \in Call : Publishes(c)
  \/ \E c \in Call : Kill(c)

Spec == Init /\ [][Next]_vars

-----------------------------------------------------------------------------
\* Every variable has its type (the type invariant).
TypeOK ==
  /\ dest \in File /\ possible \subseteq File
  /\ call \in [Call -> CallState]
  /\ older \in [Call -> SUBSET File]
  /\ syncable \in BOOLEAN
  /\ faults \in 0..MaxFaults /\ crashes \in 0..MaxCrashes

\* The call says that its file is durable.  core.atomic_write returns as well when
\* it could not open the directory.
Claims(c, k) ==
  /\ k.at = "returned" /\ k.stage = None
  /\ c \in Plain => {"directory_synced", "filesystem_synced"} \cap k.completed # {}

\* Whatever a loss of power leaves at the destination is a file whose data were
\* synced before it got the name (durability.py:149-151, 208).
SurvivorsAreWhole ==
  \A f \in possible \ {Old} : call[f].data = "synced"

\* After a replacement was reported as committed nothing that it replaced comes
\* back; of core.atomic_write this holds only when it could open the directory
\* (durability.py:171-200, core.py:93-101).
CommittedIsDurable ==
  \A c \in Call : Claims(c, call[c]) => possible \cap older[c] = {}

-----------------------------------------------------------------------------
\* What a call's own record says of its effect.
Effect(c, k) ==
  CASE k.at \in {"new", "lost"} -> k.at
    [] k.at = "rename"          -> "compared"
    [] k.at \in FailureStage \ {"rename"} ->
         IF "renamed" \in k.completed THEN "visible" ELSE "pending"
    [] k.at = "returned"        ->
         IF "renamed" \notin k.completed THEN "failed"
         ELSE IF Claims(c, k) THEN "committed" ELSE "unsure"

Abstract == INSTANCE Register
              WITH value <- dest, maybe <- possible,
                   state <- [c \in Call |-> Effect(c, call[c])],
                   expected <- [c \in Call |-> call[c].expected]

\* Each call replaces the file at one moment or not at all: one that failed
\* before its rename is never seen, one that failed after it may be kept or lost,
\* one that committed is kept (durability.py:203-232, core.py:72-86).
ImplementsRegister == Abstract!Spec
=============================================================================
