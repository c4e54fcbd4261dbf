----------------------- MODULE AtomicReplaceInvariants -----------------------
(***************************************************************************)
(* The inductive invariant of AtomicReplace.                               *)
(***************************************************************************)
EXTENDS AtomicReplace

Preparing == {"new", "create_temp", "write", "flush", "file_fsync", "close_temp",
              "identity_recheck", "rename"}
Publishing == {"open_directory", "directory_fsync", "syncfs", "close_directory"}

\* A call has renamed its file once it is at the parent directory, and its data
\* were synced before.
RenameInv(c) ==
  /\ call[c].at \in Preparing => ~Renamed(c) /\ call[c].cleaned
  /\ call[c].at \in Publishing => Renamed(c) /\ call[c].cleaned
  /\ call[c].at \in {"close_temp", "identity_recheck", "rename"} \/ Renamed(c) =>
       call[c].data = "synced"

\* Of a failure the stage is known until the call returns.
StageInv(c) ==
  /\ call[c].at \in Preparing \cup (Publishing \ {"close_directory"}) =>
       call[c].stage = None /\ ~ParentSynced(c)
  /\ At(c, "close_directory") /\ call[c].stage = None => ParentSynced(c)
  /\ At(c, "returned") /\ call[c].stage = None /\ c \notin Plain => ParentSynced(c)
  /\ At(c, "returned") /\ call[c].stage = None => Renamed(c)
  /\ ParentSynced(c) => Renamed(c)

\* A sync of the parent leaves nothing older, and until then the power has not
\* gone, so that the destination is newer than what the call replaced.
OlderInv(c) ==
  /\ ParentSynced(c) => possible \cap older[c] = {}
  /\ call[c].at \in Publishing \ {"close_directory"} => dest \notin older[c]
  /\ \A f \in older[c] \ {Old} : Renamed(f)

\* A reported cleanup leaves a temporary file only when its creation failed.
TempInv(c) ==
  /\ Renamed(c) => ~call[c].temp
  /\ At(c, "returned") /\ call[c].cleaned /\ call[c].temp => call[c].stage = "create_temp"

\* What may be found at the destination was renamed to it.
NameInv ==
  /\ dest \in possible
  /\ \A f \in possible \ {Old} : Renamed(f)

CallInv(c) == RenameInv(c) /\ StageInv(c) /\ OlderInv(c) /\ TempInv(c)

Inv == TypeOK /\ NameInv /\ \A c \in Call : CallInv(c)
=============================================================================
