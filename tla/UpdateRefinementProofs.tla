----------------------- MODULE UpdateRefinementProofs -----------------------
(***************************************************************************)
(* TargetEngine implements AbstractUpdate, for any number of transactions, *)
(* packages, failures and crashes, as long as every record can be read.    *)
(***************************************************************************)
EXTENDS UpdateRefinement, TargetEngineProofs

-----------------------------------------------------------------------------
(* Whose transaction it is.                                                *)

\* The scanner works on the package of the record it has open, and no other record
\* is unfinished meanwhile.
OwnInv ==
  /\ pc \in Busy => mem.pkg = tx[cur].pkg
  /\ pc \in Busy => \A t \in Tx : Unfinished(t) => t = cur
  /\ pc = "recover-reject" => Unfinished(cur)

\* Control enters a transaction at its start or by the recovery of its record
\* (apply_package 442, recover_transactions 504-514).
LEMMA StaysBusy ==
  ASSUME CoreInv, [Next]_vars, pc' \in Busy
  PROVE  \/ \E p \in Package, t \in Tx : StartApply(p, t)
         \/ \E t \in Tx : RecoverNext(t)
         \/ /\ pc \in Busy /\ cur' = cur /\ mem'.pkg = mem.pkg
            /\ pc' = "recover-reject" => UNCHANGED vars
<1>0. mem \in Record /\ Snapshotted.pkg = mem.pkg /\ Snapshotted \in Record
  BY DEF CoreInv, TypeInv, TypeOK, Snapshotted, Record
<1>1. ASSUME NEW s \in Record, NEW phase, NEW next, NEW handler, s.pkg = mem.pkg,
             WriteState(s, phase, next, handler)
      PROVE  mem'.pkg = mem.pkg /\ pc' \in {next, handler}
  BY <1>1 DEF WriteState, Raise, Record
<1> DEFINE Kept == pc \in Busy /\ cur' = cur /\ mem'.pkg = mem.pkg /\ pc' # "recover-reject"
<1>2. CASE RecoverReject \/ RecoverRolledBack \/ RecoverFailed
  BY <1>0, <1>1, <1>2 DEF RecoverReject, RecoverRolledBack, RecoverFailed,
     Busy, Trying, Restoring, Recovering, Reporting
<1>3. CASE Recovery /\ ~(RecoverReject \/ RecoverRolledBack \/ RecoverFailed)
  BY <1>3 DEF Recovery, StartScan, RecoverDone, NothingToApply, RecoverUnreadable, Busy, Trying,
     Restoring, Recovering, Reporting
<1>4. CASE Restore
  BY <1>4 DEF Restore, RestoreStop, RestoreDestination, RestoreAdopted, RestoreStart, Systemctl,
     Raise, Restored, RestoreFailed, Busy, Restoring
<1>5. CASE Import \/ Snapshot \/ WriteStaged \/ Build \/ WriteActivating \/ WriteActivated
           \/ HealthCheck \/ WriteCommitted
  <2>1. pc \in Busy /\ cur' = cur
    BY <1>5 DEF Import, Snapshot, WriteStaged, Build, WriteActivating, WriteActivated,
       HealthCheck, WriteCommitted, Busy, Trying
  <2>2. mem'.pkg = mem.pkg /\ pc' # "recover-reject"
    BY <1>0, <1>1, <1>5, HandlerType DEF Import, Snapshot, WriteStaged, Build, WriteActivating,
       WriteActivated, HealthCheck, WriteCommitted, Raise
  <2> QED
    BY <2>1, <2>2
<1>6. CASE Materialize \/ Populate \/ StopService \/ PrepareDestination \/ Activate
           \/ StartService \/ WriteSuccess \/ PreserveStop
  BY <1>6, HandlerType DEF Materialize, Populate, StopService, PrepareDestination, Activate,
     StartService, WriteSuccess, PreserveStop, Systemctl, WriteResult, Raise, Busy, Trying,
     Reporting
<1>7. CASE \E o \in Outcomes : ReportFailure(o) \/ SettleFailure(o)
  <2> PICK o \in Outcomes : ReportFailure(o) \/ SettleFailure(o)
    BY <1>7
  <2>1. /\ o.at \in Reporting /\ o.then \in Reporting
        /\ "recover-reject" \notin {o.at, o.then, "idle"}
    BY DEF Outcomes, Reporting
  <2> QED
    BY <1>0, <1>1, <2>1 DEF ReportFailure, SettleFailure, WriteResult, Raise, Busy
<1>8. CASE Apply /\ ~ \E p \in Package, t \in Tx : StartApply(p, t)
  BY <1>5, <1>6, <1>7, <1>8
     DEF Apply, ReturnExisting, Busy, Trying, Restoring, Recovering, Reporting
<1>9. CASE Crash
  BY <1>9 DEF Crash, Busy, Trying, Restoring, Recovering, Reporting
<1>10. CASE UNCHANGED vars
  BY <1>10 DEF vars, process
<1> QED
  BY <1>2, <1>3, <1>4, <1>8, <1>9, <1>10 DEF Next, Scan

LEMMA OwnStep ==
  ASSUME CoreInv, RollbackInv, OwnInv, [Next]_vars
  PROVE  OwnInv'
<1> USE DEF CoreInv
<1> SUFFICES ASSUME pc' \in Busy
             PROVE  /\ mem'.pkg = tx'[cur'].pkg
                    /\ \A t \in Tx : Unfinished(t)' => t = cur'
                    /\ pc' = "recover-reject" => Unfinished(cur)'
  BY DEF OwnInv, Busy, Recovering
<1>1. CASE \E p \in Package, t \in Tx : StartApply(p, t)
  <2> PICK p \in Package, t \in Tx : StartApply(p, t)
    BY <1>1
  <2>1. \A u \in Tx : ~Unfinished(u)
    BY DEF StartApply, RollbackInv, UnfinishedInv, RecordInv, Busy, Trying, Restoring, Recovering,
       Reporting
  <2>2. /\ pc' = "import" /\ cur' = t
        /\ tx' = [tx EXCEPT ![t] = mem']
    BY DEF StartApply, Raise, Busy, Trying, Restoring, Recovering, Reporting
  <2> QED
    BY <2>1, <2>2 DEF Unfinished, TypeInv, TypeOK
<1>2. CASE \E t \in Tx : RecoverNext(t)
  <2> PICK t \in Tx : RecoverNext(t)
    BY <1>2
  <2>1. Unfinished(t) /\ cur' = t /\ mem' = tx[t] /\ tx' = tx
    BY DEF RecoverNext, RecordInv, durable
  <2> QED
    BY <2>1 DEF Unfinished, RollbackInv, AtMostOneUnfinished
<1>3. CASE /\ pc \in Busy /\ cur' = cur /\ mem'.pkg = mem.pkg
           /\ pc' = "recover-reject" => UNCHANGED vars
           /\ ~ \E p \in Package, t \in Tx : StartApply(p, t)
  <2>1. /\ tx'[cur] \in {tx[cur], mem'}
        /\ \A t \in Tx \ {cur} : tx'[t] = tx[t]
    BY <1>3, RecordChange DEF Writes
  <2>2. pc' = "recover-reject" => pc = pc' /\ tx' = tx
    BY <1>3 DEF vars, process, durable
  <2> QED
    BY <1>3, <2>1, <2>2 DEF OwnInv, Unfinished
<1> QED
  BY <1>1, <1>2, <1>3, StaysBusy

-----------------------------------------------------------------------------
(* The mapping.                                                            *)

\* The outcomes a record can stand for.
LEMMA OutcomeValues ==
  ASSUME NEW r
  PROVE  /\ Outcome(r) = "open" <=> r.phase \notin Terminal \cup {NoPhase}
         /\ r.phase = NoPhase => Outcome(r) = "none"
         /\ r.phase = "committed" => Outcome(r) = "committed"
         /\ r.phase = "rolled-back" => Outcome(r) = "restored"
         /\ r.phase = "rejected" /\ PolicyOf[r.pkg] = "rollback" => Outcome(r) = "restored"
         /\ r.phase = "rejected" /\ PolicyOf[r.pkg] # "rollback" => Outcome(r) = "broken"
         /\ r.phase \in {"recovery-failed", "failed-preserved"} => Outcome(r) = "broken"
         /\ r.phase \in Terminal => Outcome(r) \in {"committed", "restored", "broken"}
<1>1. CASE r.phase = NoPhase
  BY <1>1 DEF Outcome, Undone, Terminal, NoPhase
<1>2. CASE r.phase = "committed"
  BY <1>2 DEF Outcome, Undone, Terminal, NoPhase
<1>3. CASE Undone(r)
  <2>0. r.phase \in {"rolled-back", "rejected"}
    BY <1>3 DEF Undone
  <2>1. r.phase # "committed" /\ r.phase # NoPhase
    BY <2>0 DEF NoPhase
  <2>2. Outcome(r) = "restored"
    BY <1>3, <2>1 DEF Outcome
  <2> QED
    BY <1>3, <2>0, <2>2 DEF Undone, Terminal, NoPhase
<1>4. CASE r.phase \in Terminal \ {"committed"} /\ ~Undone(r)
  <2>1. Outcome(r) = "broken"
    BY <1>4 DEF Outcome, Terminal, NoPhase
  <2>2. /\ r.phase \in {"no-op", "recovery-failed", "failed-preserved", "rejected"}
        /\ r.phase = "rejected" => PolicyOf[r.pkg] # "rollback"
    BY <1>4 DEF Undone, Terminal
  <2> QED
    BY <2>1, <2>2 DEF Terminal, NoPhase
<1>5. CASE r.phase \notin Terminal \cup {NoPhase}
  <2>1. Outcome(r) = "open"
    BY <1>5 DEF Outcome, Undone, Terminal, NoPhase
  <2> QED
    BY <1>5, <2>1 DEF Terminal, NoPhase
<1> QED
  BY <1>1, <1>2, <1>3, <1>4, <1>5

\* No transaction, or one, is open.
LEMMA NoneOpen ==
  ASSUME \A t \in Tx : ~Unfinished(t)
  PROVE  Open = {} /\ BaseOf = dest /\ TargetOf = dest
BY DEF Open, BaseOf, TargetOf

LEMMA NoneOpenNext ==
  ASSUME \A t \in Tx : ~Unfinished(t)'
  PROVE  Open' = {} /\ BaseOf' = dest' /\ TargetOf' = dest'
BY DEF Open, BaseOf, TargetOf

LEMMA OneOpen ==
  ASSUME NEW t \in Tx, Unfinished(t), \A u \in Tx : Unfinished(u) => u = t
  PROVE  Open = {t} /\ BaseOf = before[t] /\ TargetOf = CommitOf[tx[t].pkg]
<1>1. Open = {t}
  BY DEF Open
<1>2. (CHOOSE u \in {t} : TRUE) = t
  OBVIOUS
<1> QED
  BY <1>1, <1>2 DEF BaseOf, TargetOf

LEMMA OneOpenNext ==
  ASSUME NEW t \in Tx, Unfinished(t)', \A u \in Tx : Unfinished(u)' => u = t
  PROVE  Open' = {t} /\ BaseOf' = before'[t] /\ TargetOf' = CommitOf[tx'[t].pkg]
<1>1. Open' = {t}
  BY DEF Open
<1>2. (CHOOSE u \in {t} : TRUE) = t
  OBVIOUS
<1> QED
  BY <1>1, <1>2 DEF BaseOf, TargetOf

LEMMA StateValues ==
  /\ StateOf = [t \in Tx |-> Outcome(tx[t])]
  /\ StateOf' = [t \in Tx |-> Outcome(tx'[t])]
  /\ Abstract!IsOpen <=> \E t \in Tx : Unfinished(t)
BY OutcomeValues DEF StateOf, Abstract!IsOpen, Unfinished

-----------------------------------------------------------------------------
(* The destination.                                                        *)

\* The actions that change what is at the destination.
LEMMA DestChange ==
  ASSUME [Next]_vars
  PROVE  /\ dest' = dest \/ RestoreDestination \/ RestoreAdopted \/ PrepareDestination \/ Activate
         /\ before' = before \/ \E p \in Package, t \in Tx : StartApply(p, t)
<1>1. CASE Recovery
  BY <1>1 DEF Recovery, StartScan, RecoverDone, NothingToApply, RecoverNext, RecoverUnreadable,
     RecoverReject, RecoverRolledBack, RecoverFailed, durable
<1>2. CASE Restore
  BY <1>2 DEF Restore, RestoreStop, RestoreDestination, RestoreAdopted, RestoreStart
<1>3. CASE Apply
  BY <1>3 DEF Apply, ReturnExisting, StartApply, Import, Snapshot, Materialize, Populate,
     WriteStaged, Build, StopService, WriteActivating, PrepareDestination, Activate,
     WriteActivated, StartService, HealthCheck, WriteSuccess, WriteCommitted, PreserveStop,
     ReportFailure, SettleFailure, durable
<1>4. CASE Crash \/ UNCHANGED vars
  BY <1>4 DEF Crash, vars, durable
<1> QED
  BY <1>1, <1>2, <1>3, <1>4 DEF Next, Scan

\* What an open transaction puts at the destination is the old contents or the new
\* release, or nothing where the old contents were not a symlink
\* (_prepare_destination_for_activation, _activate, _restore_previous).
LEMMA OpenDestination ==
  ASSUME CoreInv, RollbackInv, [Next]_vars, dest' # dest
  PROVE  /\ cur \in Tx /\ Unfinished(cur) /\ tx' = tx
         /\ dest' \in {before[cur], CommitOf[tx[cur].pkg]}
                        \cup (IF before[cur] \in Link THEN {} ELSE {Absent})
<1> USE DEF CoreInv
<1>0. None \notin Link /\ Original \notin Link
  BY NamesAssumption DEF Link, None, Original, External
<1>1. CASE PrepareDestination \/ Activate
  <2>1. pc \in {"prepare", "activate"} /\ cur \in Tx /\ tx[cur] = mem /\ mem.phase = "activating"
    BY <1>1 DEF PrepareDestination, Activate, RecordInv, Busy, Trying, PhaseAt
  <2>2. Unfinished(cur) /\ Remembers(cur)
    BY <2>1 DEF Unfinished, Terminal, NoPhase, RollbackInv, UnfinishedInv
  <2> QED
    BY <1>0, <1>1, <2>1, <2>2 DEF PrepareDestination, Activate, Remembers
<1>2. CASE RestoreDestination \/ RestoreAdopted
  <2>1. /\ pc \in {"restore", "restore-adopted"} /\ cur \in Tx
        /\ tx[cur].phase \in Activation \cup {"built"} /\ SameOrigin(tx[cur], mem)
    BY <1>2 DEF RestoreDestination, RestoreAdopted, RecordInv, Busy, RollingBack, Restoring
  <2>2. Unfinished(cur) /\ Remembers(cur)
    BY <2>1 DEF Activation, Unfinished, Terminal, NoPhase, RollbackInv, UnfinishedInv
  <2>3. CASE RestoreDestination
    BY <1>0, <2>1, <2>2, <2>3 DEF RestoreDestination, Remembers, SameOrigin
  <2>4. CASE RestoreAdopted
    <3>1. mem.adopted /\ tx' = tx /\ dest' = Original
      BY <2>4 DEF RestoreAdopted, RollbackInv
    <3> QED
      BY <2>1, <2>2, <3>1 DEF Remembers, SameOrigin
  <2> QED
    BY <1>2, <2>3, <2>4
<1> QED
  BY <1>1, <1>2, DestChange

-----------------------------------------------------------------------------
(* The steps.                                                              *)

\* What the refinement needs to know of a state.
MapInv == CoreInv /\ LiveInv /\ RejectInv /\ RollbackInv /\ OwnInv

\* A step that writes no record stutters, or moves the destination of the open
\* transaction.
LEMMA QuietStep ==
  ASSUME MapInv, [Next]_vars, tx' = tx, before' = before
  PROVE  Abstract!Move \/ UNCHANGED Abstract!vars
<1> USE DEF MapInv
<1>1. \A t \in Tx : Unfinished(t)' = Unfinished(t)
  BY DEF Unfinished
<1>2. StateOf' = StateOf
  BY StateValues
<1>3. CASE dest' = dest
  <2>1. Open' = Open
    BY <1>1 DEF Open
  <2>2. BaseOf' = BaseOf /\ TargetOf' = TargetOf
    BY <1>3, <2>1 DEF BaseOf, TargetOf
  <2> QED
    BY <1>2, <1>3, <2>2 DEF Abstract!vars
<1>4. CASE dest' # dest
  <2>1. /\ cur \in Tx /\ Unfinished(cur)
        /\ dest' \in {before[cur], CommitOf[tx[cur].pkg]}
                       \cup (IF before[cur] \in Link THEN {} ELSE {Absent})
    BY <1>4, OpenDestination
  <2>2. \A u \in Tx : Unfinished(u) => u = cur
    BY <2>1 DEF RollbackInv, AtMostOneUnfinished
  <2>3. BaseOf = before[cur] /\ TargetOf = CommitOf[tx[cur].pkg]
    BY <2>1, <2>2, OneOpen
  <2>4. BaseOf' = before[cur] /\ TargetOf' = CommitOf[tx[cur].pkg]
    <3> PICK t \in Tx : t = cur
      BY <2>1
    <3>1. Unfinished(t)' /\ \A u \in Tx : Unfinished(u)' => u = t
      BY <1>1, <2>1, <2>2
    <3>2. BaseOf' = before'[t] /\ TargetOf' = CommitOf[tx'[t].pkg]
      BY <3>1, OneOpenNext
    <3> QED
      BY <3>2
  <2> QED
    BY <1>2, <2>1, <2>3, <2>4, StateValues DEF Abstract!Move, Abstract!Visible, Abstract!Link, Link
<1> QED
  BY <1>3, <1>4

\* A transaction begins when none is open (apply_package 442-447).
LEMMA BeginStep ==
  ASSUME MapInv, [Next]_vars, NEW p \in Package, NEW t \in Tx, StartApply(p, t)
  PROVE  Abstract!Begin(t) \/ UNCHANGED Abstract!vars
<1> USE DEF MapInv, CoreInv
<1>1. \A u \in Tx : ~Unfinished(u)
  BY DEF StartApply, RollbackInv, UnfinishedInv, RecordInv, Busy, Trying, Restoring, Recovering,
     Reporting
<1>2. BaseOf = dest /\ TargetOf = dest /\ ~Abstract!IsOpen /\ dest' = dest
  BY <1>1, NoneOpen, StateValues DEF StartApply
<1>3. CASE tx' = tx
  <2>1. \A u \in Tx : ~Unfinished(u)'
    BY <1>1, <1>3 DEF Unfinished
  <2>2. BaseOf' = dest' /\ TargetOf' = dest'
    BY <2>1, NoneOpenNext
  <2> QED
    BY <1>2, <1>3, <2>2, StateValues DEF Abstract!vars
<1>4. CASE tx' = [tx EXCEPT ![t] = mem']
  <2>1. /\ tx'[t] = mem' /\ mem'.phase = "verified" /\ mem'.pkg = p
        /\ \A u \in Tx \ {t} : tx'[u] = tx[u]
        /\ before'[t] = dest /\ tx[t].phase = NoPhase
    BY <1>4 DEF StartApply, NoRecord, TypeInv, TypeOK
  <2>2. Unfinished(t)' /\ \A u \in Tx : Unfinished(u)' => u = t
    BY <1>1, <2>1 DEF Unfinished, Terminal, NoPhase
  <2>3. BaseOf' = dest /\ TargetOf' = CommitOf[p]
    BY <2>1, <2>2, OneOpenNext
  <2>4. TargetOf' \in Commit
    BY <2>3, PackageAssumption
  <2>5. Outcome(tx[t]) = "none" /\ Outcome(tx'[t]) = "open"
    BY <2>1, OutcomeValues DEF Terminal, NoPhase
  <2>6. StateOf[t] = "none" /\ StateOf' = [StateOf EXCEPT ![t] = "open"]
    BY <2>1, <2>5, StateValues
  <2> QED
    BY <1>2, <2>3, <2>4, <2>6 DEF Abstract!Begin
<1> QED
  BY <1>3, <1>4 DEF StartApply

\* A record that is written changes its transaction at most: the step goes on with it,
\* closes it, or finds after the fact that it failed (the callers of _write_state).
LEMMA WriteStep ==
  ASSUME MapInv, [Next]_vars, Writes, tx'[cur] = mem'
  PROVE  Abstract!Next \/ UNCHANGED Abstract!vars
<1> USE DEF MapInv, CoreInv
<1>0. /\ cur \in Tx /\ pc \in Busy /\ cur' = cur /\ dest' = dest /\ before' = before
      /\ tx[cur].phase # NoPhase /\ tx[cur].phase \in Phase
      /\ tx'[cur].phase = PhaseFrom(pc)
      /\ \A u \in Tx \ {cur} : tx'[u] = tx[u]
      /\ \A u \in Tx : Unfinished(u) => u = cur
  BY DEF Writes, RecordInv, OwnInv, TypeInv, TypeOK, Record
<1>1. tx'[cur].pkg = tx[cur].pkg
  <2>1. mem'.pkg = mem.pkg
    BY DEF Writes, SameOrigin, Saved, Snapshotted, TypeInv, TypeOK, Record
  <2> QED
    BY <1>0, <2>1 DEF OwnInv
<1>2. StateOf' = [StateOf EXCEPT ![cur] = Outcome(tx'[cur])] /\ StateOf[cur] = Outcome(tx[cur])
  BY <1>0, StateValues
<1>3. pc \in Trying => /\ tx[cur].phase = PhaseAt(pc)
                       /\ tx[cur].phase \in Working \cup Activation
                       /\ Unfinished(cur)
  BY <1>0 DEF RecordInv, PhaseAt, Trying, Working, Activation, Unfinished, Terminal, NoPhase
<1>4. \A u \in Tx : Unfinished(u)' => u = cur
  BY <1>0 DEF Unfinished
<1>5. CASE PhaseFrom(pc) \notin Terminal
  <2>1. pc \in Trying /\ PhaseFrom(pc) # NoPhase
    BY <1>0, <1>5 DEF Writes, PhaseFrom, Busy, Silent, Trying, Restoring, Recovering, Reporting,
       Terminal, NoPhase
  <2>2. Unfinished(cur) /\ Unfinished(cur)'
    BY <1>0, <1>3, <1>5, <2>1 DEF Unfinished
  <2>3. BaseOf' = BaseOf /\ TargetOf' = TargetOf
    <3>1. BaseOf = before[cur] /\ TargetOf = CommitOf[tx[cur].pkg]
      BY <1>0, <2>2, OneOpen
    <3>2. BaseOf' = before'[cur] /\ TargetOf' = CommitOf[tx'[cur].pkg]
      BY <1>0, <1>4, <2>2, OneOpenNext
    <3> QED
      BY <1>0, <1>1, <3>1, <3>2
  <2>4. Outcome(tx[cur]) = "open" /\ Outcome(tx'[cur]) = "open"
    <3>1. tx'[cur].phase \notin Terminal \cup {NoPhase} /\ tx[cur].phase \notin Terminal \cup {NoPhase}
      BY <1>0, <2>2 DEF Unfinished
    <3> QED
      BY <3>1, OutcomeValues
  <2>5. StateOf' = StateOf
    BY <1>0, <2>4, StateValues
  <2> QED
    BY <1>0, <2>3, <2>5 DEF Abstract!vars
<1>6. ASSUME PhaseFrom(pc) \in Terminal
      PROVE  BaseOf' = dest /\ TargetOf' = dest
  <2>1. \A u \in Tx : ~Unfinished(u)'
    BY <1>0, <1>4, <1>6 DEF Unfinished
  <2> QED
    BY <1>0, <2>1, NoneOpenNext
<1>7. CASE PhaseFrom(pc) \in Terminal /\ Unfinished(cur)
  <2>1. BaseOf = before[cur] /\ TargetOf = CommitOf[tx[cur].pkg]
    BY <1>0, <1>7, OneOpen
  <2>2. StateOf[cur] = "open"
    BY <1>2, <1>7, OutcomeValues DEF Unfinished
  <2>3. ASSUME NEW outcome, Outcome(tx'[cur]) = outcome
        PROVE  Abstract!Close(cur, outcome)
    BY <1>0, <1>2, <1>6, <1>7, <2>2, <2>3 DEF Abstract!Close
  <2>4. CASE pc = "commit"
    <3>1. dest = TargetOf
      BY <1>0, <2>1, <2>4 DEF LiveInv, Swapped, OwnInv
    <3>2. Outcome(tx'[cur]) = "committed"
      BY <1>0, <2>4, OutcomeValues DEF PhaseFrom
    <3> QED
      BY <1>0, <2>3, <3>1, <3>2 DEF Abstract!Next, Abstract!Commits
  <2>5. CASE pc \in {"recover-rolled-back", "phase-rolled-back"}
    <3>1. dest = BaseOf
      BY <2>1, <2>5 DEF RollbackInv, BroughtBack
    <3>2. PhaseFrom(pc) = "rolled-back"
      BY <2>5 DEF PhaseFrom
    <3>3. Outcome(tx'[cur]) = "restored"
      BY <1>0, <3>2, OutcomeValues
    <3> QED
      BY <1>0, <2>3, <3>1, <3>3 DEF Abstract!Next, Abstract!Restores
  <2>6. CASE pc \in {"recover-reject", "phase-rejected"}
    <3>0. PhaseFrom(pc) = "rejected"
      BY <2>6 DEF PhaseFrom
    <3>1. CASE PolicyOf[tx[cur].pkg] = "rollback"
      <4>1. tx[cur].phase \in Working
        BY <1>0, <1>7, <2>6, <3>1 DEF RejectInv, MustRollBack, Unfinished, Phase, Working
      <4>2. dest = BaseOf
        BY <1>0, <1>7, <2>1, <4>1 DEF RollbackInv, UnfinishedInv
      <4>3. Outcome(tx'[cur]) = "restored"
        BY <1>0, <1>1, <3>0, <3>1, OutcomeValues
      <4> QED
        BY <1>0, <2>3, <4>2, <4>3 DEF Abstract!Next, Abstract!Restores
    <3>2. CASE PolicyOf[tx[cur].pkg] # "rollback"
      <4>1. Outcome(tx'[cur]) = "broken"
        BY <1>0, <1>1, <3>0, <3>2, OutcomeValues
      <4> QED
        BY <1>0, <2>3, <4>1 DEF Abstract!Next, Abstract!Breaks
    <3> QED
      BY <3>1, <3>2
  <2>7. CASE pc \in {"recover-failed", "phase-recovery-failed", "phase-preserved"}
    <3>1. PhaseFrom(pc) \in {"recovery-failed", "failed-preserved"}
      BY <2>7 DEF PhaseFrom
    <3>2. Outcome(tx'[cur]) = "broken"
      BY <1>0, <3>1, OutcomeValues
    <3> QED
      BY <1>0, <2>3, <3>2 DEF Abstract!Next, Abstract!Breaks
  <2> QED
    BY <1>0, <1>7, <2>4, <2>5, <2>6, <2>7
       DEF Writes, PhaseFrom, Busy, Silent, Trying, Restoring, Recovering, Reporting, Terminal
<1>8. CASE PhaseFrom(pc) \in Terminal /\ ~Unfinished(cur)
  <2>1. pc \in {"recover-failed", "phase-recovery-failed", "phase-preserved"}
    <3>1. pc \notin Trying
      BY <1>3, <1>8
    <3>2. pc \notin {"recover-rolled-back", "phase-rolled-back"}
      BY <1>8 DEF RecordInv, RollingBack, Unfinished, Activation, Terminal, NoPhase
    <3>3. pc \notin {"recover-reject", "phase-rejected"}
      BY <1>8 DEF OwnInv, RejectInv, Unfinished, Terminal, NoPhase
    <3> QED
      BY <1>0, <3>1, <3>2, <3>3 DEF Writes, Busy, Silent, Trying, Restoring, Recovering, Reporting
  <2>2. \A u \in Tx : ~Unfinished(u)
    BY <1>0, <1>8
  <2>3. BaseOf = dest /\ TargetOf = dest /\ ~Abstract!IsOpen
    BY <2>2, NoneOpen, StateValues
  <2>4. Outcome(tx'[cur]) = "broken"
    <3>1. PhaseFrom(pc) \in {"recovery-failed", "failed-preserved"}
      BY <2>1 DEF PhaseFrom
    <3> QED
      BY <1>0, <3>1, OutcomeValues
  <2>5. Outcome(tx[cur]) \in {"committed", "restored", "broken"}
    <3>1. tx[cur].phase \in Terminal
      BY <1>0, <1>8 DEF Unfinished
    <3> QED
      BY <3>1, OutcomeValues
  <2>6. CASE Outcome(tx[cur]) = "broken"
    <3>1. StateOf' = StateOf
      BY <1>0, <2>4, <2>6, StateValues
    <3> QED
      BY <1>0, <1>6, <1>8, <2>3, <3>1 DEF Abstract!vars
  <2>7. CASE Outcome(tx[cur]) \in {"committed", "restored"}
    BY <1>0, <1>2, <1>6, <1>8, <2>3, <2>4, <2>7 DEF Abstract!Next, Abstract!Downgrades
  <2> QED
    BY <2>5, <2>6, <2>7
<1> QED
  BY <1>5, <1>7, <1>8

\* Every step of the engine is one of the atomic update, or none.
LEMMA RefinementStep ==
  ASSUME MapInv, [Next]_vars
  PROVE  Abstract!Next \/ UNCHANGED Abstract!vars
<1>1. CASE \E p \in Package, t \in Tx : StartApply(p, t)
  BY <1>1, BeginStep DEF Abstract!Next
<1>2. CASE tx' = tx /\ ~ \E p \in Package, t \in Tx : StartApply(p, t)
  <2>1. before' = before
    BY <1>2, DestChange
  <2> QED
    BY <1>2, <2>1, QuietStep DEF Abstract!Next
<1>3. CASE Writes /\ tx'[cur] = mem'
  BY <1>3, WriteStep
<1>4. CASE Writes /\ tx'[cur] = tx[cur]
  <2>1. tx' = tx
    <3>1. tx \in [Tx -> Record] /\ tx' \in [Tx -> Record]
      BY TypeStep DEF MapInv, CoreInv, TypeInv, TypeOK
    <3> QED
      BY <1>4, <3>1 DEF Writes
  <2>2. before' = before
    BY <1>4 DEF Writes
  <2> QED
    BY <2>1, <2>2, QuietStep DEF Abstract!Next
<1> QED
  BY <1>1, <1>2, <1>3, <1>4, RecordChange DEF MapInv, Writes

\* Before the first transaction nothing is open.
LEMMA RefinementInit == Init => Abstract!Init
<1> SUFFICES ASSUME Init
             PROVE  Abstract!Init
  OBVIOUS
<1>1. \A t \in Tx : tx[t].phase = NoPhase /\ ~Unfinished(t)
  BY DEF Init, NoRecord, Unfinished
<1>2. BaseOf = dest /\ TargetOf = dest
  BY <1>1, NoneOpen
<1>3. \A t \in Tx : Outcome(tx[t]) = "none"
  BY <1>1, OutcomeValues
<1>4. StateOf = [t \in Tx |-> "none"]
  BY <1>3, StateValues
<1> QED
  BY <1>2, <1>4 DEF Init, Abstract!Init

\* When no record is unreadable, the bound on unreadable records is never used
\* (recover_transactions 504-506).
LEMMA AllReadable ==
  ASSUME MaxUnreadable = 0, unreadable = 0, [Next]_vars
  PROVE  unreadable' = 0
<1>1. CASE Recovery
  BY <1>1 DEF Recovery, StartScan, RecoverDone, NothingToApply, RecoverNext, RecoverUnreadable,
     RecoverReject, RecoverRolledBack, RecoverFailed, counters
<1>2. CASE Restore
  BY <1>2 DEF Restore, RestoreStop, RestoreDestination, RestoreAdopted, RestoreStart
<1>3. CASE Apply
  BY <1>3 DEF Apply, ReturnExisting, StartApply, Import, Snapshot, Materialize, Populate,
     WriteStaged, Build, StopService, WriteActivating, PrepareDestination, Activate,
     WriteActivated, StartService, HealthCheck, WriteSuccess, WriteCommitted, PreserveStop,
     ReportFailure, SettleFailure, counters
<1>4. CASE Crash \/ UNCHANGED vars
  BY <1>4 DEF Crash, vars, counters
<1> QED
  BY <1>1, <1>2, <1>3, <1>4 DEF Next, Scan

\* Seen from the destination path, the engine with all its failures, crashes and
\* recoveries is one atomic change from the old contents to the new release, kept or
\* undone (apply_package, _restore_previous, recover_transactions).
THEOREM UpdateIsAtomic == MaxUnreadable = 0 => (Spec => ImplementsUpdate)
<1> SUFFICES ASSUME MaxUnreadable = 0
             PROVE  Spec => ImplementsUpdate
  OBVIOUS
<1> DEFINE Readable == unreadable = 0
<1>1. Init => Readable /\ LiveInv /\ RejectInv /\ OwnInv /\ Abstract!Init
  <2>1. ASSUME Init
        PROVE  Readable /\ LiveInv /\ RejectInv /\ OwnInv
    BY <2>1 DEF Init, LiveInv, RejectInv, OwnInv, Swapped, Busy, Trying, Restoring, Recovering,
       Reporting
  <2> QED
    BY <2>1, RefinementInit
<1>2. Readable /\ [Next]_vars => Readable'
  BY AllReadable
<1>3. CoreInv /\ LiveInv /\ [Next]_vars => LiveInv'
  BY LiveStep
<1>4. CoreInv /\ RejectInv /\ [Next]_vars => RejectInv'
  BY RejectStep
<1>5. Readable /\ ReadableRollbackInv => RollbackInv
  BY DEF ReadableRollbackInv
<1>6. CoreInv /\ RollbackInv /\ OwnInv /\ [Next]_vars => OwnInv'
  BY OwnStep
<1>7. CoreInv /\ LiveInv /\ RejectInv /\ RollbackInv /\ OwnInv /\ [Next]_vars
        => [Abstract!Next]_(Abstract!vars)
  BY RefinementStep DEF MapInv
<1> HIDE DEF Readable
<1> QED
  BY <1>1, <1>2, <1>3, <1>4, <1>5, <1>6, <1>7, CoreInvariant, RollbackInvariant, PTL
     DEF Spec, ImplementsUpdate, Abstract!Spec
=============================================================================
