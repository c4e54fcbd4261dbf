----------------------- MODULE TargetEngineInvariants -----------------------
(***************************************************************************)
(* The inductive invariants behind the safety properties of TargetEngine:  *)
(* what is true of every control point of the scanner process.  TLC checks *)
(* them, TargetEngineProofs proves them.                                   *)
(***************************************************************************)
EXTENDS TargetEngine

-----------------------------------------------------------------------------
(* Control sets.                                                           *)

\* Inside the try block of apply_package.
Trying ==
  {"import", "snapshot", "materialize", "populate", "write-staged", "build",
   "stop-service", "write-activating", "prepare", "activate", "write-activated",
   "start-service", "health", "success", "commit"}

Restoring == {"restore-stop", "restore", "restore-adopted", "restore-start"}

Recovering == {"recover-reject", "recover-rolled-back", "recover-failed"}

Reporting ==
  {"preserve-stop",
   "result-needs-full", "result-rolled-back", "result-recovery-failed", "result-preserved",
   "phase-rejected", "phase-rolled-back", "phase-recovery-failed", "phase-preserved"}

Busy == Trying \cup Restoring \cup Recovering \cup Reporting

-----------------------------------------------------------------------------
(* Types and records.                                                      *)

\* A transaction being applied has a package (state["package_id"]).
PackageKnown == pc \in Trying => mem.pkg \in Package

TypeInv == TypeOK /\ PackageKnown

\* The control points from which a record is next written as rolled-back.
RollingBack == Restoring \cup {"recover-rolled-back", "result-rolled-back", "phase-rolled-back"}

\* The phase of the record while the try block is at each of its steps.
PhaseAt(c) ==
  CASE c = "import"                                          -> "verified"
    [] c = "snapshot"                                        -> "imported"
    [] c \in {"materialize", "populate", "write-staged"}     -> "snapshot-created"
    [] c = "build"                                           -> "staged"
    [] c \in {"stop-service", "write-activating"}            -> "built"
    [] c \in {"prepare", "activate", "write-activated"}      -> "activating"
    [] c \in {"start-service", "health"}                     -> "activated"
    [] c \in {"success", "commit"}                           -> "health-checked"

\* Before _snapshot_existing a record names nothing to go back to.
NothingSaved(r) == r.previous = None /\ ~r.adopted

SameOrigin(r, s) == r.previous = s.previous /\ r.adopted = s.adopted /\ r.pkg = s.pkg

\* In the try block the two records are equal; on the way back they may differ in
\* the phase; in the handlers memory may know of an adopted original that was not
\* written.
RecordInv ==
  /\ pc \in Busy => cur \in Tx /\ tx[cur].phase # NoPhase
  /\ pc \in Trying => tx[cur] = mem /\ mem.phase = PhaseAt(pc) /\ ~recovering
  /\ pc \in RollingBack => /\ mem.phase \in Activation
                           /\ tx[cur].phase \in Activation \cup {"built"}
                           /\ SameOrigin(tx[cur], mem)
  /\ pc \in Recovering \cup Reporting => (tx[cur].adopted => mem.adopted)
  /\ pc \in {"recover"} \cup Recovering => recovering
  /\ pc \in {"choose"} \cup Reporting => ~recovering
  /\ pc # "idle" /\ recovering => \A t \in todo : Unfinished(t) /\ t # cur
  /\ \A t \in Tx : tx[t].phase \in {NoPhase, "verified", "imported"} => NothingSaved(tx[t])

\* Type correctness and the agreement of the records, together.
CoreInv == TypeInv /\ RecordInv

-----------------------------------------------------------------------------
(* The unmanaged directory.                                                *)

\* Where the directory is, and that the record that owns the adopted path says so.
OriginalInv ==
  /\ SawOriginal => dest = Original \/ aside \in Tx
  /\ aside \in Tx => tx[aside].adopted

-----------------------------------------------------------------------------
(* Releases, commits and results.                                          *)

Ready(c) == c \in Commit => release[c] \in Marked

\* Between the ready marker and the end of the try block.
Materialized ==
  {"write-staged", "build", "stop-service", "write-activating", "prepare", "activate",
   "write-activated", "start-service", "health", "success", "commit"}

ReleaseInv ==
  /\ Ready(dest)
  /\ Ready(mem.previous)
  /\ \A t \in Tx : Ready(tx[t].previous)
  /\ pc \in Materialized => Ready(CommitOf[mem.pkg])
  /\ pc = "populate" => release[CommitOf[mem.pkg]] = "partial"

Swapped == {"write-activated", "start-service", "health", "success", "commit"}

LiveInv ==
  /\ pc \in Swapped => dest = CommitOf[mem.pkg]
  /\ pc \in {"health", "success", "commit"} /\ HasUnit => service = "running"

\* The control points after the last step of _restore_previous.
RunningAgain == {"recover-rolled-back", "result-rolled-back", "phase-rolled-back"}

ServiceInv == pc \in RunningAgain /\ HasUnit => service = "running"

\* The control points that follow a written result.
Reported == {"commit", "phase-rejected", "phase-rolled-back", "phase-recovery-failed",
             "phase-preserved"}

ResultInv ==
  /\ pc \in Reported => result[cur] # None
  /\ SettledHasResult

-----------------------------------------------------------------------------
(* Phases.                                                                 *)

\* A record is written as rejected only from where its policy allows it.
RejectInv ==
  /\ pc \in {"result-needs-full", "phase-rejected"} => tx[cur].phase = "verified"
  /\ pc = "recover-reject" => ~MustRollBack(tx[cur])

\* The handlers that may still write a record whose terminal phase is on disk: the
\* write of that phase raised after its rename.
TerminalInv ==
  pc \in Recovering \cup Reporting /\ tx[cur].phase \in Terminal =>
    \/ /\ tx[cur].phase = "committed"
       /\ pc \in {"preserve-stop", "result-preserved", "phase-preserved"}
    \/ tx[cur].phase = "rolled-back" /\ pc = "recover-failed"

-----------------------------------------------------------------------------
(* Rollback.                                                               *)

\* The record names what the destination was when the transaction began.
Remembers(t) ==
  /\ tx[t].previous = IF before[t] \in Link THEN before[t] ELSE None
  /\ tx[t].adopted <=> before[t] = Original

\* The old contents can still be brought back from what the record names.
Undoable(t) ==
  /\ before[t] \in Link => dest \in Link
  /\ before[t] = Absent => dest \in Link \cup {Absent}
  /\ before[t] = Original => (dest = Original <=> aside # t)

UnfinishedInv(t) ==
  /\ Undoable(t)
  /\ tx[t].phase \notin {"verified", "imported"} => Remembers(t)
  /\ tx[t].phase \in Working => dest = before[t] /\ aside # t
  /\ pc # "idle" => (recovering /\ t \in todo) \/ (pc \in Busy /\ t = cur)

\* The control points with the old contents in place.
BroughtBack == {"restore-start", "recover-rolled-back", "result-rolled-back",
                "phase-rolled-back"}

RollbackInv ==
  /\ AtMostOneUnfinished
  /\ \A t \in Tx : Unfinished(t) => UnfinishedInv(t)
  /\ pc = "restore-adopted" => mem.previous = None /\ mem.adopted /\ aside = cur /\ dest = Absent
  /\ pc \in BroughtBack => dest = before[cur]

\* A scan that leaves out an unreadable record loses all of this.
ReadableRollbackInv == unreadable = 0 => RollbackInv

-----------------------------------------------------------------------------
(* Progress.                                                               *)

\* How far a scan has still to go from each control point, records to recover
\* apart.
StepsLeft(c) ==
  CASE c = "idle"                            -> 0
    [] c \in {o.then : o \in Outcomes}       -> 1
    [] c \in {o.at : o \in Outcomes}         -> 2
    [] c = "recover"                         -> 3
    [] c \in {"recover-failed", "recover-reject"} -> 4
    [] c = "recover-rolled-back"             -> 5
    [] c = "restore-start"                   -> 6
    [] c = "restore-adopted"                 -> 7
    [] c = "restore"                         -> 8
    [] c \in {"restore-stop", "preserve-stop"} -> 9
    [] c = "commit"                          -> 10
    [] c = "success"                         -> 11
    [] c = "health"                          -> 12
    [] c = "start-service"                   -> 13
    [] c = "write-activated"                 -> 14
    [] c = "activate"                        -> 15
    [] c = "prepare"                         -> 16
    [] c = "write-activating"                -> 17
    [] c = "stop-service"                    -> 18
    [] c = "build"                           -> 19
    [] c = "write-staged"                    -> 20
    [] c = "populate"                        -> 21
    [] c = "materialize"                     -> 22
    [] c = "snapshot"                        -> 23
    [] c = "import"                          -> 24
    [] c = "choose"                          -> 25

\* Recovery ends before anything is applied, and every record is visited once.
Advances ==
  \/ recovering /\ ~recovering'
  \/ /\ recovering' = recovering
     /\ \/ todo' \subseteq todo /\ todo' # todo
        \/ todo' = todo /\ StepsLeft(pc') < StepsLeft(pc)

\* A scan never comes back to where it was: no failure of a handler, of a rollback
\* or of a write of the recovery is handled by a path that fails in the same way
\* again (apply_package's except clause, _restore_previous, recover_transactions).
\* With finitely many records every scan ends.
ScanAdvances == [][pc # "idle" => Advances]_vars
=============================================================================
