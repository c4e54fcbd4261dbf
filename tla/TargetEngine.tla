---------------------------- MODULE TargetEngine ----------------------------
(***************************************************************************)
(* The target-side update engine (target_engine.py): one scanner process   *)
(* at a time first recovers interrupted transactions, then applies a       *)
(* package.  Everything the process keeps in memory is lost in a crash;    *)
(* the transaction records, the results, the releases, the destination and *)
(* the service survive it.                                                 *)
(*                                                                         *)
(* Git, LFS and the package actions are environment choices: each step     *)
(* either does its work or raises.  A write of a JSON file that raises may *)
(* or may not have replaced the file, because core.atomic_write syncs the  *)
(* directory after the rename.                                             *)
(***************************************************************************)
EXTENDS Integers, TransactionPhases

CONSTANTS
  Package,        \* verified local packages handed to apply_package
  Commit,         \* target commits of the root repository
  Tx,             \* transaction identifiers (uuid4)
  CommitOf,       \* the target_commit of each package
  PolicyOf,       \* the failure_policy of each package
  HasUnit,        \* whether the profile names a service unit
  MaxFaults,      \* bound: steps that raise
  MaxUnreadable,  \* bound: transaction records a scan fails to read
  MaxCrashes      \* bound: crashes of the scanner process

None     == "none"
Absent   == "absent"      \* nothing at the destination
Original == "original"    \* the unmanaged directory found at the destination
External == "external"    \* a symlink the updater did not create

Link == Commit \cup {External}
Destination == Link \cup {Absent, Original}

ASSUME NamesAssumption ==
  /\ {None, Absent, Original, External} \cap Commit = {}
  /\ None \notin Package
  /\ None \notin Tx

ASSUME PackageAssumption ==
  /\ CommitOf \in [Package -> Commit]
  /\ PolicyOf \in [Package -> Policy]
  /\ HasUnit \in BOOLEAN

ASSUME BoundAssumption ==
  MaxFaults \in Nat /\ MaxUnreadable \in Nat /\ MaxCrashes \in Nat

VARIABLES
  dest,        \* what is at the configured destination path
  aside,       \* whose adopted_original path holds the original directory
  release,     \* releases/<root>/<commit>: its tree and its ready marker
  service,     \* the service unit
  tx,          \* transactions/<id>.json
  result,      \* results/<id>.json: the status, or None
  pc,          \* where the scanner process is; "idle" when none runs
  cur,         \* the transaction it works on
  mem,         \* its in-memory copy of that record ("state")
  recovering,  \* whether it is inside recover_transactions
  todo,        \* records recover_transactions has still to visit
  before,      \* history: the destination when a transaction began
  faults, unreadable, crashes

durable == <<dest, aside, release, service, tx, result>>
process == <<pc, cur, mem, recovering, todo>>
counters == <<faults, unreadable, crashes>>
vars == <<durable, process, before, counters>>

Record == [phase : Phase, pkg : Package \cup {None},
           previous : Link \cup {None}, adopted : BOOLEAN]

NoRecord == [phase |-> NoPhase, pkg |-> None, previous |-> None, adopted |-> FALSE]

Init ==
  /\ dest \in {Absent, Original, External}
  /\ aside = None
  /\ release = [c \in Commit |-> "absent"]
  /\ service = "running"
  /\ tx = [t \in Tx |-> NoRecord]
  /\ result = [t \in Tx |-> None]
  /\ pc = "idle" /\ cur = None /\ mem = NoRecord
  /\ recovering = FALSE /\ todo = {}
  /\ before = [t \in Tx |-> dest]
  /\ faults = 0 /\ unreadable = 0 /\ crashes = 0

-----------------------------------------------------------------------------
(* Building blocks.                                                        *)

Unfinished(t) == tx[t].phase \notin Terminal \cup {NoPhase}

\* An exception: control continues at "handler".
Raise(handler) ==
  /\ faults < MaxFaults
  /\ faults' = faults + 1
  /\ pc' = handler

\* Mutant: the last phase of the activation is forgotten.
MustRollBackEarly(state) ==
  state.phase \in {"activating", "activated"} /\ PolicyOf[state.pkg] = "rollback"
MustRollBack(state) ==
  state.phase \in Activation /\ PolicyOf[state.pkg] = "rollback"

\* The except clause of apply_package, by the phase held in memory.
Handler(state) == IF MustRollBack(state) THEN "restore-stop" ELSE "preserve-stop"

\* The phase is set in memory before the file is replaced.
WriteState(state, phase, next, handler) ==
  LET new == [state EXCEPT !.phase = phase]
      written == [tx EXCEPT ![cur] = new]
  IN  /\ mem' = new
      /\ \/ pc' = next /\ tx' = written /\ UNCHANGED faults
         \/ Raise(handler) /\ tx' \in {tx, written}

WriteResult(status, next, handler) ==
  LET written == [result EXCEPT ![cur] = status]
  IN  \/ pc' = next /\ result' = written /\ UNCHANGED faults
      \/ Raise(handler) /\ result' \in {result, written}

\* systemctl start/stop: nothing to do without a unit; a call that raises may
\* have changed the unit.
Systemctl(to, next, handler) ==
  \/ pc' = next /\ service' = (IF HasUnit THEN to ELSE service) /\ UNCHANGED faults
  \/ HasUnit /\ Raise(handler) /\ service' \in {service, to}

-----------------------------------------------------------------------------
(* scan_once: recover, then apply.  The flock keeps a second scanner out.  *)

\* Mutant: recovery looks only at the transactions that began to activate.
RecoverableActivations == {t \in Tx : tx[t].phase \in Activation}
Recoverable == {t \in Tx : Unfinished(t)}

StartScan ==
  /\ pc = "idle"
  /\ todo' = Recoverable
  /\ pc' = "recover" /\ recovering' = TRUE
  /\ cur' = None /\ mem' = NoRecord
  /\ UNCHANGED <<durable, before, counters>>

RecoverDone ==
  /\ pc = "recover" /\ todo = {}
  /\ pc' = "choose" /\ recovering' = FALSE
  /\ cur' = None /\ mem' = NoRecord
  /\ UNCHANGED <<todo, durable, before, counters>>

NothingToApply ==
  /\ pc = "choose"
  /\ pc' = "idle"
  /\ UNCHANGED <<durable, cur, mem, recovering, todo, before, counters>>

\* Records are visited in the order of their random names.
RecoverNext(t) ==
  /\ pc = "recover" /\ t \in todo
  /\ todo' = todo \ {t}
  /\ cur' = t /\ mem' = tx[t]
  /\ pc' = IF MustRollBack(tx[t]) THEN "restore-stop" ELSE "recover-reject"
  /\ UNCHANGED <<durable, recovering, before, counters>>

\* load_json raises OSError: this scan leaves the record alone.
RecoverUnreadable(t) ==
  /\ pc = "recover" /\ t \in todo
  /\ unreadable < MaxUnreadable
  /\ unreadable' = unreadable + 1
  /\ todo' = todo \ {t}
  /\ UNCHANGED <<durable, pc, cur, mem, recovering, before, faults, crashes>>

\* Writes outside the try block of recover_transactions end the scan.
RecoverReject ==
  /\ pc = "recover-reject"
  /\ WriteState(mem, "rejected", "recover", "idle")
  /\ UNCHANGED <<dest, aside, release, service, result, cur, recovering, todo,
                 before, unreadable, crashes>>

RecoverRolledBack ==
  /\ pc = "recover-rolled-back"
  /\ WriteState(mem, "rolled-back", "recover", "recover-failed")
  /\ UNCHANGED <<dest, aside, release, service, result, cur, recovering, todo,
                 before, unreadable, crashes>>

RecoverFailed ==
  /\ pc = "recover-failed"
  /\ WriteState(mem, "recovery-failed", "recover", "idle")
  /\ UNCHANGED <<dest, aside, release, service, result, cur, recovering, todo,
                 before, unreadable, crashes>>

-----------------------------------------------------------------------------
(* _restore_previous, shared by the recovery and by a failed application.  *)

Restored == IF recovering THEN "recover-rolled-back" ELSE "result-rolled-back"
RestoreFailed == IF recovering THEN "recover-failed" ELSE "result-recovery-failed"

RestoreStop ==
  /\ pc = "restore-stop"
  /\ Systemctl("stopped", "restore", RestoreFailed)
  /\ UNCHANGED <<dest, aside, release, tx, result, cur, mem, recovering, todo,
                 before, unreadable, crashes>>

\* Mutant: the rollback does not ask whether the original was moved at all.
AdoptedAssumed == TRUE
AdoptedExists == aside = cur

\* The previous symlink comes back in one os.replace, which a directory at the
\* destination refuses; an adopted original in two steps; otherwise the symlink
\* is removed.
RestoreDestination ==
  /\ pc = "restore"
  /\ \/ /\ mem.previous # None /\ dest # Original
        /\ dest' = mem.previous /\ pc' = "restore-start" /\ UNCHANGED faults
     \/ /\ mem.previous # None /\ dest = Original
        /\ dest' = dest /\ pc' = RestoreFailed /\ UNCHANGED faults
     \/ /\ mem.previous = None /\ mem.adopted /\ AdoptedExists
        /\ dest' = Absent /\ pc' = "restore-adopted" /\ UNCHANGED faults
     \/ /\ mem.previous = None /\ mem.adopted /\ ~AdoptedExists
        /\ dest' = dest /\ pc' = "restore-start" /\ UNCHANGED faults
     \/ /\ mem.previous = None /\ ~mem.adopted
        /\ dest' = (IF dest \in Link THEN Absent ELSE dest)
        /\ pc' = "restore-start" /\ UNCHANGED faults
     \/ dest' = dest /\ Raise(RestoreFailed)
  /\ UNCHANGED <<aside, release, service, tx, result, cur, mem, recovering, todo,
                 before, unreadable, crashes>>

RestoreAdopted ==
  /\ pc = "restore-adopted"
  /\ \/ dest' = Original /\ aside' = None /\ pc' = "restore-start" /\ UNCHANGED faults
     \/ Raise(RestoreFailed) /\ UNCHANGED <<dest, aside>>
  /\ UNCHANGED <<release, service, tx, result, cur, mem, recovering, todo,
                 before, unreadable, crashes>>

RestoreStart ==
  /\ pc = "restore-start"
  /\ Systemctl("running", Restored, RestoreFailed)
  /\ UNCHANGED <<dest, aside, release, tx, result, cur, mem, recovering, todo,
                 before, unreadable, crashes>>

-----------------------------------------------------------------------------
(* apply_package, one action per step between two durable effects.         *)

\* The first record is written before the try block: a failure ends the call.
StartApply(p, t) ==
  LET state == [NoRecord EXCEPT !.phase = "verified", !.pkg = p]
      written == [tx EXCEPT ![t] = state]
  IN  /\ pc = "choose"
      /\ tx[t].phase = NoPhase
      /\ \A u \in Tx : tx[u].pkg = p => result[u] # "success"
      /\ cur' = t /\ mem' = state
      /\ before' = [before EXCEPT ![t] = dest]
      /\ \/ pc' = "import" /\ tx' = written /\ UNCHANGED faults
         \/ Raise("idle") /\ tx' \in {tx, written}
      /\ UNCHANGED <<dest, aside, release, service, result, recovering, todo,
                     unreadable, crashes>>

\* _existing_success: the earlier result is returned as it is.
ReturnExisting(p) ==
  /\ pc = "choose"
  /\ \E u \in Tx : tx[u].pkg = p /\ result[u] = "success"
  /\ pc' = "idle"
  /\ UNCHANGED <<durable, cur, mem, recovering, todo, before, counters>>

\* _import_repositories and _install_lfs; exit code 4 means that no bundle of
\* the package has a base commit this target holds.
Import ==
  /\ pc = "import"
  /\ \/ WriteState(mem, "imported", "snapshot", Handler([mem EXCEPT !.phase = "imported"]))
     \/ pc' = "result-needs-full" /\ UNCHANGED <<mem, tx, faults>>
     \/ Raise(Handler(mem)) /\ UNCHANGED <<mem, tx>>
  /\ UNCHANGED <<dest, aside, release, service, result, cur, recovering, todo,
                 before, unreadable, crashes>>

\* Mutants: whatever is at the destination is recorded as the previous symlink;
\* only a directory is recorded.
SnapshottedAnything == [mem EXCEPT !.previous = dest, !.adopted = dest = Original]
SnapshottedDirectory == [mem EXCEPT !.adopted = dest = Original]

\* _snapshot_existing: the directory is only earmarked here, not moved.
Snapshotted ==
  [mem EXCEPT !.previous = IF dest \in Link THEN dest ELSE None,
              !.adopted  = dest = Original]

Snapshot ==
  /\ pc = "snapshot"
  /\ \/ WriteState(Snapshotted, "snapshot-created", "materialize", Handler(mem))
     \/ Raise(Handler(mem)) /\ UNCHANGED <<mem, tx>>
  /\ UNCHANGED <<dest, aside, release, service, result, cur, recovering, todo,
                 before, unreadable, crashes>>

\* The releases with a ready marker; "torn" is one whose tree was partly removed.
Marked == {"ready", "torn"}

\* Mutants: any existing release is reused; no release is.
ReusableIfPresent(c) == release[c] # "absent"
NeverReusable(c) == c \notin Commit
Reusable(c) == release[c] \in Marked

\* _materialize reuses a release with a ready marker and rebuilds any other.
Materialize ==
  /\ pc = "materialize"
  /\ IF Reusable(CommitOf[mem.pkg])
     THEN pc' = "write-staged" /\ UNCHANGED release
     ELSE /\ release' = [release EXCEPT ![CommitOf[mem.pkg]] = "partial"]
          /\ pc' = "populate"
  /\ UNCHANGED <<dest, aside, service, tx, result, cur, mem, recovering, todo,
                 before, counters>>

\* The marker is the last write; a failure removes what it can of the release and
\* ignores what it can not, the marker that the failing write left included.
Populate ==
  /\ pc = "populate"
  /\ \/ /\ release' = [release EXCEPT ![CommitOf[mem.pkg]] = "ready"]
        /\ pc' = "write-staged" /\ UNCHANGED faults
     \/ /\ Raise(Handler(mem))
        /\ \E left \in {"absent", "partial"} \cup Marked :
             release' = [release EXCEPT ![CommitOf[mem.pkg]] = left]
  /\ UNCHANGED <<dest, aside, service, tx, result, cur, mem, recovering, todo,
                 before, unreadable, crashes>>

WriteStaged ==
  /\ pc = "write-staged"
  /\ WriteState(mem, "staged", "build", Handler(mem))
  /\ UNCHANGED <<dest, aside, release, service, result, cur, recovering, todo,
                 before, unreadable, crashes>>

\* The preflight and build actions, then the record.
Build ==
  /\ pc = "build"
  /\ \/ WriteState(mem, "built", "stop-service", Handler(mem))
     \/ Raise(Handler(mem)) /\ UNCHANGED <<mem, tx>>
  /\ UNCHANGED <<dest, aside, release, service, result, cur, recovering, todo,
                 before, unreadable, crashes>>

\* The pre_activate actions, which may raise, and systemctl stop.
StopService ==
  /\ pc = "stop-service"
  /\ \/ Systemctl("stopped", "write-activating", Handler(mem))
     \/ Raise(Handler(mem)) /\ UNCHANGED service
  /\ UNCHANGED <<dest, aside, release, tx, result, cur, mem, recovering, todo,
                 before, unreadable, crashes>>

\* Mutant: the destination is touched before the record announces it.
SkipActivating ==
  /\ pc = "write-activating"
  /\ pc' = "prepare"
  /\ UNCHANGED <<durable, cur, mem, recovering, todo, before, counters>>

WriteActivating ==
  /\ pc = "write-activating"
  /\ WriteState(mem, "activating", "prepare", Handler([mem EXCEPT !.phase = "activating"]))
  /\ UNCHANGED <<dest, aside, release, service, result, cur, recovering, todo,
                 before, unreadable, crashes>>

PrepareDestination ==
  /\ pc = "prepare"
  /\ \/ /\ mem.adopted /\ dest = Original
        /\ dest' = Absent /\ aside' = cur /\ pc' = "activate" /\ UNCHANGED faults
     \/ /\ ~(mem.adopted /\ dest = Original)
        /\ pc' = "activate" /\ UNCHANGED <<dest, aside, faults>>
     \/ Raise(Handler(mem)) /\ UNCHANGED <<dest, aside>>
  /\ UNCHANGED <<release, service, tx, result, cur, mem, recovering, todo,
                 before, unreadable, crashes>>

\* _activate: one os.replace of a symlink, which a directory would refuse.
Activate ==
  /\ pc = "activate"
  /\ \/ dest # Original /\ dest' = CommitOf[mem.pkg] /\ pc' = "write-activated" /\ UNCHANGED faults
     \/ Raise(Handler(mem)) /\ UNCHANGED dest
  /\ UNCHANGED <<aside, release, service, tx, result, cur, mem, recovering, todo,
                 before, unreadable, crashes>>

WriteActivated ==
  /\ pc = "write-activated"
  /\ WriteState(mem, "activated", "start-service", Handler([mem EXCEPT !.phase = "activated"]))
  /\ UNCHANGED <<dest, aside, release, service, result, cur, recovering, todo,
                 before, unreadable, crashes>>

\* Mutant: a service that does not start is not noticed.
StartServiceUnchecked ==
  /\ pc = "start-service"
  /\ Systemctl("running", "health", "health")
  /\ UNCHANGED <<dest, aside, release, tx, result, cur, mem, recovering, todo,
                 before, unreadable, crashes>>

\* The post_activate actions and systemctl start.
StartService ==
  /\ pc = "start-service"
  /\ \/ Systemctl("running", "health", Handler(mem))
     \/ Raise(Handler(mem)) /\ UNCHANGED service
  /\ UNCHANGED <<dest, aside, release, tx, result, cur, mem, recovering, todo,
                 before, unreadable, crashes>>

\* The health actions, then the record.
HealthCheck ==
  /\ pc = "health"
  /\ \/ WriteState(mem, "health-checked", "success",
                   Handler([mem EXCEPT !.phase = "health-checked"]))
     \/ Raise(Handler(mem)) /\ UNCHANGED <<mem, tx>>
  /\ UNCHANGED <<dest, aside, release, service, result, cur, recovering, todo,
                 before, unreadable, crashes>>

\* Mutant: the transaction is committed without its result.
SkipSuccess ==
  /\ pc = "success"
  /\ pc' = "commit"
  /\ UNCHANGED <<durable, cur, mem, recovering, todo, before, counters>>

WriteSuccess ==
  /\ pc = "success"
  /\ WriteResult("success", "commit", Handler(mem))
  /\ UNCHANGED <<dest, aside, release, service, tx, cur, mem, recovering, todo,
                 before, unreadable, crashes>>

\* A failure here is handled with "committed" already in memory.
WriteCommitted ==
  /\ pc = "commit"
  /\ WriteState(mem, "committed", "idle", Handler([mem EXCEPT !.phase = "committed"]))
  /\ UNCHANGED <<dest, aside, release, service, result, cur, recovering, todo,
                 before, unreadable, crashes>>

-----------------------------------------------------------------------------
(* The except clause of apply_package: a result, then the terminal phase.  *)
(* An exception here leaves the call with the record unfinished.           *)

\* Errors of this systemctl are swallowed.
PreserveStop ==
  /\ pc = "preserve-stop"
  /\ \/ pc' = "result-preserved" /\ service' = (IF HasUnit THEN "stopped" ELSE service)
        /\ UNCHANGED faults
     \/ HasUnit /\ Raise("result-preserved") /\ service' = service
  /\ UNCHANGED <<dest, aside, release, tx, result, cur, mem, recovering, todo,
                 before, unreadable, crashes>>

\* Each way of failing reports a status and then settles in a phase.
Outcomes ==
  {[at |-> "result-needs-full",      status |-> "needs-full-bundle",  then |-> "phase-rejected",        phase |-> "rejected"],
   [at |-> "result-rolled-back",     status |-> "failed-rolled-back", then |-> "phase-rolled-back",     phase |-> "rolled-back"],
   [at |-> "result-recovery-failed", status |-> "recovery-failed",    then |-> "phase-recovery-failed", phase |-> "recovery-failed"],
   [at |-> "result-preserved",       status |-> "failed-preserved",   then |-> "phase-preserved",       phase |-> "failed-preserved"]}

ReportFailure(o) ==
  /\ pc = o.at
  /\ WriteResult(o.status, o.then, "idle")
  /\ UNCHANGED <<dest, aside, release, service, tx, cur, mem, recovering, todo,
                 before, unreadable, crashes>>

SettleFailure(o) ==
  /\ pc = o.then
  /\ WriteState(mem, o.phase, "idle", "idle")
  /\ UNCHANGED <<dest, aside, release, service, result, cur, recovering, todo,
                 before, unreadable, crashes>>

-----------------------------------------------------------------------------
\* The process dies; a later boot or media event starts a new scan.
Crash ==
  /\ pc # "idle"
  /\ crashes < MaxCrashes
  /\ crashes' = crashes + 1
  /\ pc' = "idle" /\ cur' = None /\ mem' = NoRecord
  /\ recovering' = FALSE /\ todo' = {}
  /\ UNCHANGED <<durable, before, faults, unreadable>>

Recovery ==
  \/ StartScan \/ RecoverDone \/ NothingToApply
  \/ \E t \in Tx : RecoverNext(t) \/ RecoverUnreadable(t)
  \/ RecoverReject \/ RecoverRolledBack \/ RecoverFailed

Restore == RestoreStop \/ RestoreDestination \/ RestoreAdopted \/ RestoreStart

Apply ==
  \/ \E p \in Package, t \in Tx : StartApply(p, t)
  \/ \E p \in Package : ReturnExisting(p)
  \/ Import \/ Snapshot \/ Materialize \/ Populate \/ WriteStaged \/ Build
  \/ StopService \/ WriteActivating \/ PrepareDestination \/ Activate
  \/ WriteActivated \/ StartService \/ HealthCheck \/ WriteSuccess \/ WriteCommitted
  \/ PreserveStop
  \/ \E o \in Outcomes : ReportFailure(o) \/ SettleFailure(o)

Scan == Recovery \/ Restore \/ Apply

Next == Scan \/ Crash

Spec == Init /\ [][Next]_vars

\* The scanner keeps running once started, and boot and udev keep starting it.
FairSpec == Spec /\ WF_vars(Scan)

-----------------------------------------------------------------------------
(* Type invariant.                                                         *)

Control ==
  {"idle", "recover", "choose", "recover-reject", "recover-rolled-back",
   "recover-failed", "restore-stop", "restore", "restore-adopted", "restore-start",
   "import", "snapshot", "materialize", "populate", "write-staged", "build",
   "stop-service", "write-activating", "prepare", "activate", "write-activated",
   "start-service", "health", "success", "commit", "preserve-stop"}
  \cup {o.at : o \in Outcomes} \cup {o.then : o \in Outcomes}

\* Every variable keeps its type (the shapes of transactions/<id>.json and of
\* the control state of scan_once).
TypeOK ==
  /\ dest \in Destination
  /\ aside \in Tx \cup {None}
  /\ release \in [Commit -> {"absent", "partial"} \cup Marked]
  /\ service \in {"running", "stopped"}
  /\ tx \in [Tx -> Record]
  /\ result \in [Tx -> Status \cup {None}]
  /\ pc \in Control
  /\ cur \in Tx \cup {None}
  /\ mem \in Record
  /\ recovering \in BOOLEAN
  /\ todo \in SUBSET Tx
  /\ before \in [Tx -> Destination]
  /\ faults \in Nat /\ unreadable \in Nat /\ crashes \in Nat

-----------------------------------------------------------------------------
(* Safety.                                                                 *)

\* There was an unmanaged directory ("before" starts as the first destination).
SawOriginal == \E t \in Tx : before[t] = Original

\* The unmanaged directory that was at the destination is never lost: whatever
\* raises or crashes, it is at the destination or at the adopted_original path
\* of a transaction whose record on disk names it
\* (_prepare_destination_for_activation, _restore_previous).
OriginalPreserved ==
  SawOriginal => \/ dest = Original
                 \/ aside \in Tx /\ tx[aside].adopted

\* The destination, and every previous symlink a rollback would restore, leads
\* to a completely materialized release, in spite of releases left half built by
\* a crash (_materialize's ready marker, _snapshot_existing, _activate).  The one
\* release that is less is "torn": its marker could not be written, only part of
\* it could be removed (243-245), and the engine takes it for complete.
ActiveReleaseReady ==
  /\ dest \in Commit => release[dest] \in Marked
  /\ \A t \in Tx : tx[t].previous \in Commit => release[tx[t].previous] \in Marked

\* Write-ahead: while the record on disk still says that activation has not
\* begun, the destination is what it was when the transaction began.  Recovery
\* relies on it when it aborts such a transaction without looking
\* (apply_package 458-460, recover_transactions 524).  A scan that left out a
\* record it could not read (505) may break it, and the next two.
WriteAhead ==
  unreadable = 0 => \A t \in Tx : tx[t].phase \in Working => dest = before[t]

\* A crash can not lose the report of a transaction that apply_package settled
\* as committed or preserved: the result file is there before the terminal phase
\* (467-468, 495-496).
SettledHasResult ==
  \A t \in Tx : tx[t].phase \in {"committed", "failed-preserved"} => result[t] # None

AtMostOneUnfinished == \A t, u \in Tx : Unfinished(t) /\ Unfinished(u) => t = u

\* Only one transaction is ever unfinished, so recovery has never to undo two
\* activations of the same destination (recover_transactions runs first), as
\* long as no scan left out a record it could not read.
OneUnfinished == unreadable = 0 => AtMostOneUnfinished

Becomes(t, phase) == tx[t].phase # phase /\ tx'[t].phase = phase

\* A record becomes rolled-back only when the destination is again exactly what
\* it was when the transaction began, in particular when the rollback was itself
\* interrupted and repeated, and with the service started again on it
\* (_restore_previous).
RolledBackRestores ==
  [][\A t \in Tx : Becomes(t, "rolled-back") =>
       /\ unreadable = 0 => before[t] = dest
       /\ HasUnit => service = "running"]_vars

\* A transaction commits only while the destination is its release, marked as
\* complete, and the service has been started on it (459-468).
CommitIsLive ==
  [][\A t \in Tx : Becomes(t, "committed") =>
       /\ dest = CommitOf[tx[t].pkg] /\ release[dest] \in Marked
       /\ HasUnit => service = "running"]_vars

\* A release is never taken apart or rebuilt under the destination: its marker
\* makes every later transaction reuse it (_materialize 219-224).
ReleaseNotRebuilt ==
  [][(dest \in Commit) => release'[dest] = release[dest]]_vars

\* The steps by which the engine leaves the transition matrix of
\* domain/policies.py (264-273) once activation has begun: a terminal phase is
\* overwritten when the write of it raised after its rename (468 with 490-496, 516
\* with 520-521), and recovery rejects an interrupted activation that its policy
\* does not roll back (524).
Departs(t) ==
  \/ tx[t].phase = "committed" /\ tx'[t].phase = "failed-preserved"
  \/ tx[t].phase = "rolled-back" /\ tx'[t].phase = "recovery-failed"
  \/ /\ tx[t].phase \in Activation /\ PolicyOf[tx[t].pkg] # "rollback"
     /\ tx'[t].phase = "rejected"

\* Once a package has begun to activate, its record moves on only along the matrix
\* or by one of those three steps: no other failure, and no recovery, takes a
\* record out of a terminal phase or loses the fact that the destination of a
\* rollback package was touched.  Before activation the engine does not keep to
\* the matrix (496 and 524 settle a record from every earlier phase).
PhasesFollowMatrix ==
  [][\A t \in Tx : /\ tx[t].phase \in Activation \cup Terminal
                   /\ tx'[t].phase # tx[t].phase
                   => Departs(t) \/ tx'[t].phase \in Allowed(tx[t].phase)]_vars

\* Every started transaction is eventually settled, however it was interrupted:
\* a later scan recovers it (recover_transactions).
EverySettles ==
  \A t \in Tx : Unfinished(t) ~> tx[t].phase \in Terminal

-----------------------------------------------------------------------------
(* What the documents say, and the code does not do in every case.         *)

\* docs/USAGE_AND_TESTING.zh-CN.md: the status "success" means "updated successfully and
\* committed".
SuccessIsCommitted ==
  \A t \in Tx : result[t] = "success" => tx[t].phase \in {"health-checked", "committed"}
=============================================================================
