------------------------- MODULE TargetEngineProofs -------------------------
(***************************************************************************)
(* Theorems about TargetEngine, for every set of packages, commits and     *)
(* transactions and every number of faults and crashes.                    *)
(***************************************************************************)
EXTENDS TargetEngineInvariants, TLAPS

-----------------------------------------------------------------------------
(* Control points.                                                         *)

\* The values of the control variable, listed (Control, Outcomes).
LEMMA ControlListed ==
  Control = {"idle", "recover", "choose"} \cup Recovering \cup Restoring
              \cup Trying \cup Reporting
BY DEF Control, Outcomes, Recovering, Restoring, Trying, Reporting

\* The fields of an outcome of a failed application (Outcomes).
LEMMA OutcomeFields ==
  ASSUME NEW o \in Outcomes
  PROVE  /\ o.at \in Reporting /\ o.then \in Reporting
         /\ o.status \in Status /\ o.phase \in Terminal
BY DEF Outcomes, Reporting, Status, Terminal

-----------------------------------------------------------------------------
(* Type correctness.                                                       *)

\* What WriteState does to the types of the variables it changes (_write_state).
LEMMA WriteStateType ==
  ASSUME TypeOK, NEW s \in Record, NEW phase \in Phase,
         NEW next \in Control, NEW handler \in Control,
         WriteState(s, phase, next, handler)
  PROVE  /\ mem' \in Record /\ mem'.pkg = s.pkg
         /\ tx' \in [Tx -> Record]
         /\ pc' \in {next, handler}
         /\ faults' \in Nat
<1> DEFINE new == [s EXCEPT !.phase = phase]
<1>1. new \in Record /\ new.pkg = s.pkg
  BY DEF Record
<1>2. [tx EXCEPT ![cur] = new] \in [Tx -> Record]
  BY <1>1 DEF TypeOK
<1> QED
  BY <1>1, <1>2 DEF WriteState, Raise, TypeOK

\* The exception handler is a control point outside the try block (470-491).
LEMMA HandlerType ==
  ASSUME NEW s
  PROVE  /\ Handler(s) \in {"restore-stop", "preserve-stop"}
         /\ Handler(s) \in Control /\ Handler(s) \notin Trying
BY ControlListed DEF Handler, Restoring, Reporting, Trying

LEMMA TypeInit == Init => TypeInv
<1> SUFFICES ASSUME Init PROVE TypeInv
  OBVIOUS
<1>1. NoRecord \in Record
  BY DEF NoRecord, Record, Phase
<1>2. dest \in Destination /\ before \in [Tx -> Destination]
  BY DEF Init, Destination, Link
<1>3. pc \in Control /\ pc \notin Trying
  BY ControlListed DEF Init, Trying
<1> QED
  BY <1>1, <1>2, <1>3 DEF Init, TypeInv, TypeOK, PackageKnown

\* The control points WriteState and Systemctl are called with are in Control.
LEMMA ControlPoints ==
  /\ {"idle", "recover", "choose"} \subseteq Control
  /\ Recovering \subseteq Control /\ Restoring \subseteq Control
  /\ Trying \subseteq Control /\ Reporting \subseteq Control
  /\ Restored \in Control /\ RestoreFailed \in Control
BY ControlListed DEF Restored, RestoreFailed, Recovering, Reporting

\* A step that only writes a record keeps the types.
LEMMA WriteStateStep ==
  ASSUME TypeInv, NEW s \in Record, NEW phase \in Phase,
         NEW next \in Control, NEW handler \in Control,
         WriteState(s, phase, next, handler),
         UNCHANGED <<dest, aside, release, service, result, cur, recovering, todo,
                     before, unreadable, crashes>>,
         next \in Trying => s.pkg \in Package,
         handler \notin Trying
  PROVE  TypeInv'
<1>1. /\ mem' \in Record /\ mem'.pkg = s.pkg
      /\ tx' \in [Tx -> Record]
      /\ pc' \in {next, handler}
      /\ faults' \in Nat
  BY WriteStateType DEF TypeInv
<1> QED
  BY <1>1 DEF TypeInv, TypeOK, PackageKnown

LEMMA RecoveryType ==
  ASSUME TypeInv, Recovery
  PROVE  TypeInv'
<1> USE DEF TypeInv, PackageKnown
<1>. {"rejected", "rolled-back", "recovery-failed"} \subseteq Phase
  BY DEF Phase, Terminal
<1>0. NoRecord \in Record
  BY DEF NoRecord, Record, Phase
<1>1. CASE StartScan
  BY <1>0, <1>1, ControlListed DEF StartScan, TypeOK, Recoverable, durable, counters, Trying
<1>2. CASE RecoverDone
  BY <1>0, <1>2, ControlListed DEF RecoverDone, TypeOK, durable, counters, Trying
<1>3. CASE NothingToApply
  BY <1>3, ControlListed DEF NothingToApply, TypeOK, durable, counters, Trying
<1>4. CASE \E t \in Tx : RecoverNext(t)
  BY <1>4, ControlListed
     DEF RecoverNext, TypeOK, durable, counters, Trying, Restoring, Recovering
<1>5. CASE \E t \in Tx : RecoverUnreadable(t)
  BY <1>5 DEF RecoverUnreadable, TypeOK, durable
<1>6. CASE RecoverReject
  <2>1. WriteState(mem, "rejected", "recover", "idle")
    BY <1>6 DEF RecoverReject
  <2> QED
    BY <1>6, <2>1, WriteStateStep, ControlPoints
       DEF RecoverReject, TypeOK, Trying, Recovering
<1>7. CASE RecoverRolledBack
  <2>1. WriteState(mem, "rolled-back", "recover", "recover-failed")
    BY <1>7 DEF RecoverRolledBack
  <2> QED
    BY <1>7, <2>1, WriteStateStep, ControlPoints
       DEF RecoverRolledBack, TypeOK, Trying, Recovering
<1>8. CASE RecoverFailed
  <2>1. WriteState(mem, "recovery-failed", "recover", "idle")
    BY <1>8 DEF RecoverFailed
  <2> QED
    BY <1>8, <2>1, WriteStateStep, ControlPoints
       DEF RecoverFailed, TypeOK, Trying, Recovering
<1> QED
  BY <1>1, <1>2, <1>3, <1>4, <1>5, <1>6, <1>7, <1>8 DEF Recovery

LEMMA RestoreType ==
  ASSUME TypeInv, Restore
  PROVE  TypeInv'
<1> USE DEF TypeInv, PackageKnown
<1>0. Restored \notin Trying /\ RestoreFailed \notin Trying
  BY DEF Restored, RestoreFailed, Trying
<1>1. CASE RestoreStop
  BY <1>0, <1>1, ControlPoints DEF RestoreStop, Systemctl, Raise, TypeOK, Restoring, Trying
<1>2. CASE RestoreDestination
  <2>1. pc' \in {"restore-start", "restore-adopted", RestoreFailed} /\ faults' \in Nat
    BY <1>2 DEF RestoreDestination, Raise, TypeOK
  <2>2. dest' \in Destination
    BY <1>2 DEF RestoreDestination, TypeOK, Record, Destination, Link
  <2> QED
    BY <1>0, <1>2, <2>1, <2>2, ControlPoints DEF RestoreDestination, TypeOK, Restoring, Trying
<1>3. CASE RestoreAdopted
  BY <1>0, <1>3, ControlPoints
     DEF RestoreAdopted, Raise, TypeOK, Restoring, Trying, Destination
<1>4. CASE RestoreStart
  BY <1>0, <1>4, ControlPoints DEF RestoreStart, Systemctl, Raise, TypeOK, Restoring, Trying
<1> QED
  BY <1>1, <1>2, <1>3, <1>4 DEF Restore

LEMMA ApplyType ==
  ASSUME TypeInv, Apply
  PROVE  TypeInv'
<1> USE DEF TypeInv, PackageKnown
<1>0. {"verified", "imported", "snapshot-created", "staged", "built"} \subseteq Phase
      /\ {"activating", "activated", "health-checked", "committed"} \subseteq Phase
  BY DEF Phase, Working, Activation, Terminal
<1>1. CASE \E p \in Package, t \in Tx : StartApply(p, t)
  <2> PICK p \in Package, t \in Tx : StartApply(p, t)
    BY <1>1
  <2> DEFINE state == [NoRecord EXCEPT !.phase = "verified", !.pkg = p]
  <2>1. state \in Record /\ state.pkg = p
    BY <1>0 DEF NoRecord, Record
  <2>2. [tx EXCEPT ![t] = state] \in [Tx -> Record]
    BY <2>1 DEF TypeOK
  <2>3. mem' = state /\ tx' \in {tx, [tx EXCEPT ![t] = state]} /\ cur' = t
        /\ pc' \in {"import", "idle"} /\ faults' \in Nat
        /\ before' = [before EXCEPT ![t] = dest]
    BY DEF StartApply, Raise, TypeOK
  <2>4. before' \in [Tx -> Destination]
    BY <2>3 DEF TypeOK
  <2> QED
    BY <2>1, <2>2, <2>3, <2>4, ControlPoints DEF StartApply, TypeOK, Trying
<1>2. CASE \E p \in Package : ReturnExisting(p)
  BY <1>2, ControlPoints DEF ReturnExisting, TypeOK, durable, counters, Trying
<1>3. CASE Import
  <2>1. CASE WriteState(mem, "imported", "snapshot", Handler([mem EXCEPT !.phase = "imported"]))
    BY <1>0, <1>3, <2>1, WriteStateStep, HandlerType, ControlPoints DEF Import, TypeOK, Trying
  <2>2. CASE ~WriteState(mem, "imported", "snapshot", Handler([mem EXCEPT !.phase = "imported"]))
    BY <1>3, <2>2, HandlerType, ControlPoints
       DEF Import, Raise, TypeOK, Trying, Restoring, Reporting
  <2> QED
    BY <2>1, <2>2
<1>4. CASE Snapshot
  <2>1. Snapshotted \in Record /\ Snapshotted.pkg = mem.pkg
    BY DEF Snapshotted, TypeOK, Record
  <2>2. CASE WriteState(Snapshotted, "snapshot-created", "materialize", Handler(mem))
    BY <1>0, <1>4, <2>1, <2>2, WriteStateStep, HandlerType, ControlPoints
       DEF Snapshot, TypeOK, Trying
  <2>3. CASE ~WriteState(Snapshotted, "snapshot-created", "materialize", Handler(mem))
    BY <1>4, <2>3, HandlerType, ControlPoints
       DEF Snapshot, Raise, TypeOK, Trying, Restoring, Reporting
  <2> QED
    BY <2>2, <2>3
<1>5. CASE Materialize
  BY <1>5, ControlPoints DEF Materialize, TypeOK, counters, Trying
<1>6. CASE Populate
  BY <1>6, HandlerType, ControlPoints DEF Populate, Raise, TypeOK, Marked, Trying, Restoring, Reporting
<1>7. CASE WriteStaged
  <2>1. WriteState(mem, "staged", "build", Handler(mem))
    BY <1>7 DEF WriteStaged
  <2> QED
    BY <1>0, <1>7, <2>1, WriteStateStep, HandlerType, ControlPoints
       DEF WriteStaged, TypeOK, Trying
<1>8. CASE Build
  <2>1. CASE WriteState(mem, "built", "stop-service", Handler(mem))
    BY <1>0, <1>8, <2>1, WriteStateStep, HandlerType, ControlPoints DEF Build, TypeOK, Trying
  <2>2. CASE ~WriteState(mem, "built", "stop-service", Handler(mem))
    BY <1>8, <2>2, HandlerType, ControlPoints
       DEF Build, Raise, TypeOK, Trying, Restoring, Reporting
  <2> QED
    BY <2>1, <2>2
<1>9. CASE StopService
  BY <1>9, HandlerType, ControlPoints
     DEF StopService, Systemctl, Raise, TypeOK, Trying, Restoring, Reporting
<1>10. CASE WriteActivating
  <2>1. WriteState(mem, "activating", "prepare", Handler([mem EXCEPT !.phase = "activating"]))
    BY <1>10 DEF WriteActivating
  <2> QED
    BY <1>0, <1>10, <2>1, WriteStateStep, HandlerType, ControlPoints
       DEF WriteActivating, TypeOK, Trying
<1>11. CASE PrepareDestination
  BY <1>11, HandlerType, ControlPoints
     DEF PrepareDestination, Raise, TypeOK, Trying, Restoring, Reporting, Destination
<1>12. CASE Activate
  <2>1. CommitOf[mem.pkg] \in Destination
    BY <1>12, PackageAssumption DEF Activate, Trying, Destination, Link
  <2> QED
    BY <1>12, <2>1, HandlerType, ControlPoints
       DEF Activate, Raise, TypeOK, Trying, Restoring, Reporting
<1>13. CASE WriteActivated
  <2>1. WriteState(mem, "activated", "start-service", Handler([mem EXCEPT !.phase = "activated"]))
    BY <1>13 DEF WriteActivated
  <2> QED
    BY <1>0, <1>13, <2>1, WriteStateStep, HandlerType, ControlPoints
       DEF WriteActivated, TypeOK, Trying
<1>14. CASE StartService
  BY <1>14, HandlerType, ControlPoints
     DEF StartService, Systemctl, Raise, TypeOK, Trying, Restoring, Reporting
<1>15. CASE HealthCheck
  <2>1. CASE WriteState(mem, "health-checked", "success",
                        Handler([mem EXCEPT !.phase = "health-checked"]))
    BY <1>0, <1>15, <2>1, WriteStateStep, HandlerType, ControlPoints DEF HealthCheck, TypeOK, Trying
  <2>2. CASE ~WriteState(mem, "health-checked", "success",
                         Handler([mem EXCEPT !.phase = "health-checked"]))
    BY <1>15, <2>2, HandlerType, ControlPoints
       DEF HealthCheck, Raise, TypeOK, Trying, Restoring, Reporting
  <2> QED
    BY <2>1, <2>2
<1>16. CASE WriteSuccess
  <2>1. "success" \in Status
    BY DEF Status
  <2> QED
    BY <1>16, <2>1, HandlerType, ControlPoints
       DEF WriteSuccess, WriteResult, Raise, TypeOK, Trying, Restoring, Reporting
<1>17. CASE WriteCommitted
  <2>1. WriteState(mem, "committed", "idle", Handler([mem EXCEPT !.phase = "committed"]))
    BY <1>17 DEF WriteCommitted
  <2> QED
    BY <1>0, <1>17, <2>1, WriteStateStep, HandlerType, ControlPoints
       DEF WriteCommitted, TypeOK, Trying
<1>18. CASE PreserveStop
  BY <1>18, ControlPoints DEF PreserveStop, Raise, TypeOK, Trying, Reporting
<1>19. CASE \E o \in Outcomes : ReportFailure(o)
  <2> PICK o \in Outcomes : ReportFailure(o)
    BY <1>19
  <2>1. o.status \in Status /\ o.then \in Control /\ o.then \notin Trying
    BY OutcomeFields, ControlPoints DEF Reporting, Trying
  <2> QED
    BY <2>1, ControlPoints DEF ReportFailure, WriteResult, Raise, TypeOK, Trying
<1>20. CASE \E o \in Outcomes : SettleFailure(o)
  <2> PICK o \in Outcomes : SettleFailure(o)
    BY <1>20
  <2>1. o.phase \in Phase
    BY OutcomeFields DEF Phase
  <2>2. WriteState(mem, o.phase, "idle", "idle")
    BY DEF SettleFailure
  <2> QED
    BY <2>1, <2>2, WriteStateStep, ControlPoints DEF SettleFailure, TypeOK, Trying
<1> QED
  BY <1>1, <1>2, <1>3, <1>4, <1>5, <1>6, <1>7, <1>8, <1>9, <1>10, <1>11, <1>12, <1>13,
     <1>14, <1>15, <1>16, <1>17, <1>18, <1>19, <1>20 DEF Apply

LEMMA TypeStep ==
  ASSUME TypeInv, [Next]_vars
  PROVE  TypeInv'
<1>1. CASE Scan
  BY <1>1, RecoveryType, RestoreType, ApplyType DEF Scan
<1>2. CASE Crash
  <2>1. NoRecord \in Record
    BY DEF NoRecord, Record, Phase
  <2> QED
    <3>1. pc' = "idle" /\ mem' \in Record /\ cur' = None /\ crashes' \in Nat
      BY <1>2, <2>1 DEF Crash, TypeInv, TypeOK
    <3>2. recovering' = FALSE /\ todo' = {}
      BY <1>2 DEF Crash
    <3> QED
      BY <1>2, <3>1, <3>2, ControlPoints
         DEF Crash, TypeInv, TypeOK, PackageKnown, durable, Trying
<1>3. CASE UNCHANGED vars
  BY <1>3 DEF vars, durable, process, counters, TypeInv, TypeOK, PackageKnown
<1> QED
  BY <1>1, <1>2, <1>3 DEF Next

\* Every variable keeps its type, for any number of transactions, faults and
\* crashes (the records and results of target_engine.py).
THEOREM TypeCorrect == Spec => []TypeOK
<1>1. Init => TypeInv
  BY TypeInit
<1>2. TypeInv /\ [Next]_vars => TypeInv'
  BY TypeStep
<1>3. TypeInv => TypeOK
  BY DEF TypeInv
<1> QED
  BY <1>1, <1>2, <1>3, PTL DEF Spec

-----------------------------------------------------------------------------
(* The record on disk and the one in memory.                               *)

\* What WriteState leaves on disk and in memory (_write_state).
LEMMA WriteStateEffect ==
  ASSUME TypeInv, cur \in Tx, NEW s \in Record, NEW phase \in Phase, NEW next, NEW handler,
         WriteState(s, phase, next, handler)
  PROVE  /\ mem' \in Record /\ mem'.phase = phase /\ SameOrigin(mem', s)
         /\ \A t \in Tx \ {cur} : tx'[t] = tx[t]
         /\ \/ pc' = next /\ tx'[cur] = mem' /\ faults' = faults
            \/ pc' = handler /\ tx'[cur] \in {tx[cur], mem'} /\ faults' = faults + 1
<1>1. mem' = [s EXCEPT !.phase = phase]
  BY DEF WriteState
<1>2. mem' \in Record /\ mem'.phase = phase /\ SameOrigin(mem', s)
  BY <1>1 DEF Record, SameOrigin
<1>3. tx \in [Tx -> Record]
  BY DEF TypeInv, TypeOK
<1>4. \/ pc' = next /\ tx' = [tx EXCEPT ![cur] = mem'] /\ faults' = faults
      \/ /\ pc' = handler /\ tx' \in {tx, [tx EXCEPT ![cur] = mem']}
         /\ faults' = faults + 1
  BY <1>1 DEF WriteState, Raise
<1> QED
  BY <1>2, <1>3, <1>4

\* When writing a record keeps RecordInv: what each caller of _write_state has to
\* ensure of the record it writes and of the places control continues at.
LEMMA RecordWrite ==
  ASSUME TypeInv, RecordInv, pc \in Busy,
         NEW s \in Record, NEW phase \in Phase \ {NoPhase}, NEW next, NEW handler,
         WriteState(s, phase, next, handler),
         UNCHANGED <<cur, recovering, todo>>,
         tx[cur].adopted => s.adopted,
         phase \in {"verified", "imported"} => NothingSaved(s),
         next \in Trying \cup {"idle", "recover"},
         next \in Trying => phase = PhaseAt(next) /\ ~recovering,
         next = "recover" => recovering,
         handler \in {"idle", "restore-stop", "preserve-stop", "recover-failed"},
         handler = "restore-stop" => /\ phase \in Activation
                                     /\ tx[cur].phase \in Activation \cup {"built"}
                                     /\ SameOrigin(tx[cur], s),
         handler = "preserve-stop" => ~recovering,
         handler = "recover-failed" => recovering
  PROVE  RecordInv'
<1>0. cur \in Tx /\ tx[cur].phase # NoPhase
  BY DEF RecordInv
<1>1. /\ mem'.phase = phase /\ SameOrigin(mem', s)
      /\ \A t \in Tx \ {cur} : tx'[t] = tx[t]
      /\ \/ pc' = next /\ tx'[cur] = mem'
         \/ pc' = handler /\ tx'[cur] \in {tx[cur], mem'}
  BY <1>0, WriteStateEffect
<1>2. pc' \in Trying \cup {"idle", "recover", "restore-stop", "preserve-stop", "recover-failed"}
  BY <1>1
<1>3. tx'[cur].phase # NoPhase /\ (tx'[cur].adopted => mem'.adopted)
  BY <1>0, <1>1 DEF SameOrigin
<1>4. pc' \in Trying => tx'[cur] = mem' /\ mem'.phase = PhaseAt(pc') /\ ~recovering
  BY <1>1 DEF Trying
<1>5. pc' \in RollingBack => /\ mem'.phase \in Activation
                            /\ tx'[cur].phase \in Activation \cup {"built"}
                            /\ SameOrigin(tx'[cur], mem')
  <2>1. CASE pc' = "restore-stop"
    BY <1>1, <2>1 DEF SameOrigin, Trying
  <2> QED
    BY <1>2, <2>1 DEF RollingBack, Restoring, Trying
<1>6. /\ pc' \in {"recover"} \cup Recovering => recovering
      /\ pc' \in {"choose"} \cup Reporting => ~recovering
  BY <1>1, <1>2 DEF Recovering, Reporting, Trying
<1>7. recovering => \A t \in todo : tx'[t].phase \notin Terminal \cup {NoPhase} /\ t # cur
  BY <1>1 DEF RecordInv, Unfinished, TypeInv, TypeOK, Busy, Trying, Restoring, Recovering, Reporting
<1>8. \A t \in Tx : tx'[t].phase \in {NoPhase, "verified", "imported"} => NothingSaved(tx'[t])
  <2>1. mem'.phase \in {NoPhase, "verified", "imported"} => NothingSaved(mem')
    BY <1>1 DEF NothingSaved, SameOrigin
  <2> QED
    BY <1>1, <2>1 DEF RecordInv
<1> QED
  BY <1>0, <1>3, <1>4, <1>5, <1>6, <1>7, <1>8 DEF RecordInv, Unfinished

LEMMA RecordRecovery ==
  ASSUME TypeInv, RecordInv, Recovery
  PROVE  RecordInv'
<1>1. CASE StartScan
  <2>1. \A t \in Tx : t # None
    BY NamesAssumption
  <2>2. pc' = "recover" /\ recovering' /\ cur' = None /\ tx' = tx
        /\ todo' = {t \in Tx : tx[t].phase \notin Terminal \cup {NoPhase}}
    BY <1>1 DEF StartScan, Recoverable, Unfinished, durable
  <2> QED
    BY <2>1, <2>2 DEF RecordInv, Unfinished, Busy, Trying, Restoring, Recovering, Reporting, RollingBack
<1>2. CASE RecoverDone
  BY <1>2 DEF RecordInv, RecoverDone, durable, Busy, Trying, Restoring, Recovering, Reporting, RollingBack
<1>3. CASE NothingToApply
  BY <1>3 DEF RecordInv, NothingToApply, durable, Busy, Trying, Restoring, Recovering, Reporting, RollingBack
<1>4. CASE \E t \in Tx : RecoverNext(t)
  BY <1>4 DEF RecordInv, RecoverNext, MustRollBack, durable, Unfinished, SameOrigin, TypeInv, TypeOK, Busy, Trying, Restoring, Recovering, Reporting, RollingBack
<1>5. CASE \E t \in Tx : RecoverUnreadable(t)
  BY <1>5 DEF RecordInv, RecoverUnreadable, durable, Unfinished, Busy, Trying, Restoring, Recovering, Reporting, RollingBack
<1>6. CASE RecoverReject
  <2>1. cur \in Tx /\ mem \in Record /\ "rejected" \in Phase \ {NoPhase} /\ pc \in Busy
    BY <1>6 DEF RecoverReject, RecordInv, Busy, Trying, Restoring, Recovering, Reporting, RollingBack, TypeInv, TypeOK, Phase, NoPhase, Working, Activation, Terminal
  <2>2. /\ tx[cur].adopted => mem.adopted
        /\ "rejected" \in {"verified", "imported"} => NothingSaved(mem)
    BY <1>6, <2>1 DEF RecoverReject, RecordInv, Busy, Trying, Restoring, Recovering, Reporting, RollingBack, PhaseAt, NothingSaved
  <2>3. recovering
    BY <1>6 DEF RecoverReject, RecordInv, Recovering, RollingBack
  <2>4. WriteState(mem, "rejected", "recover", "idle")
    BY <1>6 DEF RecoverReject
  <2> QED
    BY <1>6, <2>1, <2>2, <2>3, <2>4, RecordWrite DEF RecoverReject, Trying, PhaseAt
<1>7. CASE RecoverRolledBack
  <2>1. cur \in Tx /\ mem \in Record /\ "rolled-back" \in Phase \ {NoPhase} /\ pc \in Busy
    BY <1>7 DEF RecoverRolledBack, RecordInv, Busy, Trying, Restoring, Recovering, Reporting, RollingBack, TypeInv, TypeOK, Phase, NoPhase, Working, Activation, Terminal
  <2>2. /\ tx[cur].adopted => mem.adopted
        /\ "rolled-back" \in {"verified", "imported"} => NothingSaved(mem)
    BY <1>7, <2>1 DEF RecoverRolledBack, RecordInv, Busy, Trying, Restoring, Recovering, Reporting, RollingBack, PhaseAt, NothingSaved
  <2>3. recovering
    BY <1>7 DEF RecoverRolledBack, RecordInv, Recovering, RollingBack
  <2>4. WriteState(mem, "rolled-back", "recover", "recover-failed")
    BY <1>7 DEF RecoverRolledBack
  <2> QED
    BY <1>7, <2>1, <2>2, <2>3, <2>4, RecordWrite DEF RecoverRolledBack, Trying, PhaseAt
<1>8. CASE RecoverFailed
  <2>1. cur \in Tx /\ mem \in Record /\ "recovery-failed" \in Phase \ {NoPhase} /\ pc \in Busy
    BY <1>8 DEF RecoverFailed, RecordInv, Busy, Trying, Restoring, Recovering, Reporting, RollingBack, TypeInv, TypeOK, Phase, NoPhase, Working, Activation, Terminal
  <2>2. /\ tx[cur].adopted => mem.adopted
        /\ "recovery-failed" \in {"verified", "imported"} => NothingSaved(mem)
    BY <1>8, <2>1 DEF RecoverFailed, RecordInv, Busy, Trying, Restoring, Recovering, Reporting, RollingBack, PhaseAt, NothingSaved
  <2>3. recovering
    BY <1>8 DEF RecoverFailed, RecordInv, Recovering, RollingBack
  <2>4. WriteState(mem, "recovery-failed", "recover", "idle")
    BY <1>8 DEF RecoverFailed
  <2> QED
    BY <1>8, <2>1, <2>2, <2>3, <2>4, RecordWrite DEF RecoverFailed, Trying, PhaseAt
<1> QED
  BY <1>1, <1>2, <1>3, <1>4, <1>5, <1>6, <1>7, <1>8 DEF Recovery

LEMMA RecordRestore ==
  ASSUME TypeInv, RecordInv, Restore
  PROVE  RecordInv'
<1>1. CASE RestoreStop
  BY <1>1 DEF RestoreStop, Raise, RecordInv, Systemctl, Restored, RestoreFailed, Busy, Trying, Restoring, Recovering, Reporting, RollingBack, PhaseAt, Handler, MustRollBack, SameOrigin, Unfinished, Activation
<1>2. CASE RestoreDestination
  BY <1>2 DEF RestoreDestination, Raise, RecordInv, Restored, RestoreFailed, Busy, Trying, Restoring, Recovering, Reporting, RollingBack, PhaseAt, Handler, MustRollBack, SameOrigin, Unfinished, Activation
<1>3. CASE RestoreAdopted
  BY <1>3 DEF RestoreAdopted, Raise, RecordInv, Restored, RestoreFailed, Busy, Trying, Restoring, Recovering, Reporting, RollingBack, PhaseAt, Handler, MustRollBack, SameOrigin, Unfinished, Activation
<1>4. CASE RestoreStart
  BY <1>4 DEF RestoreStart, Raise, RecordInv, Systemctl, Restored, RestoreFailed, Busy, Trying, Restoring, Recovering, Reporting, RollingBack, PhaseAt, Handler, MustRollBack, SameOrigin, Unfinished, Activation
<1> QED
  BY <1>1, <1>2, <1>3, <1>4 DEF Restore

LEMMA RecordApply ==
  ASSUME TypeInv, RecordInv, Apply
  PROVE  RecordInv'
<1>1. CASE \E p \in Package, t \in Tx : StartApply(p, t)
  <2> PICK p \in Package, t \in Tx : StartApply(p, t)
    BY <1>1
  <2> DEFINE state == [NoRecord EXCEPT !.phase = "verified", !.pkg = p]
  <2>1. state.phase = "verified" /\ NothingSaved(state)
    BY DEF NoRecord, NothingSaved
  <2>2. /\ \/ pc' = "import" /\ tx' = [tx EXCEPT ![t] = state]
           \/ pc' = "idle" /\ tx' \in {tx, [tx EXCEPT ![t] = state]}
        /\ mem' = state /\ cur' = t /\ recovering' = recovering /\ todo' = todo
        /\ pc = "choose"
    BY DEF StartApply, Raise
  <2> HIDE DEF state
  <2>3. \A u \in Tx : tx'[u] \in {tx[u], state}
    BY <2>2 DEF TypeInv, TypeOK
  <2>4. pc' = "import" => tx'[t] = state
    BY <2>2 DEF TypeInv, TypeOK
  <2> QED
    BY <2>1, <2>2, <2>3, <2>4 DEF RecordInv, PhaseAt, NoPhase, Busy, Trying, Restoring, Recovering, Reporting, RollingBack
<1>2. CASE \E p \in Package : ReturnExisting(p)
  BY <1>2 DEF RecordInv, ReturnExisting, durable, Busy, Trying, Restoring, Recovering, Reporting, RollingBack
<1>3. CASE Import
  <2>1. cur \in Tx /\ mem \in Record /\ "imported" \in Phase \ {NoPhase} /\ pc \in Busy
    BY <1>3 DEF Import, RecordInv, Busy, Trying, Restoring, Recovering, Reporting, RollingBack, TypeInv, TypeOK, Phase, NoPhase, Working, Activation, Terminal
  <2>2. /\ tx[cur].adopted => mem.adopted
        /\ "imported" \in {"verified", "imported"} => NothingSaved(mem)
    BY <1>3, <2>1 DEF Import, RecordInv, Busy, Trying, Restoring, Recovering, Reporting, RollingBack, PhaseAt, NothingSaved
  <2>3. /\ ~recovering
        /\ Handler([mem EXCEPT !.phase = "imported"]) \in {"restore-stop", "preserve-stop"}
        /\ Handler([mem EXCEPT !.phase = "imported"]) = "restore-stop" => /\ "imported" \in Activation
                                     /\ tx[cur].phase \in Activation \cup {"built"}
                                     /\ SameOrigin(tx[cur], mem)
    BY <1>3, <2>1 DEF Import, RecordInv, Trying, PhaseAt, Handler, MustRollBack, Activation, SameOrigin, TypeInv, TypeOK, Record
  <2>4. CASE WriteState(mem, "imported", "snapshot", Handler([mem EXCEPT !.phase = "imported"]))
    BY <1>3, <2>1, <2>2, <2>3, <2>4, RecordWrite DEF Import, Trying, PhaseAt
  <2>5. CASE ~WriteState(mem, "imported", "snapshot", Handler([mem EXCEPT !.phase = "imported"]))
    BY <1>3, <2>1, <2>5
       DEF Import, Raise, RecordInv, Busy, Trying, Restoring, Recovering, Reporting, RollingBack, PhaseAt, Handler, MustRollBack, SameOrigin, Unfinished, Activation
  <2> QED
    BY <2>4, <2>5
<1>4. CASE Snapshot
  <2>1. cur \in Tx /\ Snapshotted \in Record /\ "snapshot-created" \in Phase \ {NoPhase} /\ pc \in Busy
    BY <1>4 DEF Snapshot, RecordInv, Busy, Trying, Restoring, Recovering, Reporting, RollingBack, TypeInv, TypeOK, Phase, NoPhase, Working, Activation, Terminal, Snapshotted, Record
  <2>2. /\ tx[cur].adopted => Snapshotted.adopted
        /\ "snapshot-created" \in {"verified", "imported"} => NothingSaved(Snapshotted)
    BY <1>4, <2>1 DEF Snapshot, RecordInv, Busy, Trying, Restoring, Recovering, Reporting, RollingBack, PhaseAt, NothingSaved, Snapshotted, Record
  <2>3. /\ ~recovering
        /\ Handler(mem) \in {"restore-stop", "preserve-stop"}
        /\ Handler(mem) = "restore-stop" => /\ "snapshot-created" \in Activation
                                     /\ tx[cur].phase \in Activation \cup {"built"}
                                     /\ SameOrigin(tx[cur], Snapshotted)
    BY <1>4, <2>1 DEF Snapshot, RecordInv, Trying, PhaseAt, Handler, MustRollBack, Activation, SameOrigin, TypeInv, TypeOK, Record
  <2>4. CASE WriteState(Snapshotted, "snapshot-created", "materialize", Handler(mem))
    BY <1>4, <2>1, <2>2, <2>3, <2>4, RecordWrite DEF Snapshot, Trying, PhaseAt
  <2>5. CASE ~WriteState(Snapshotted, "snapshot-created", "materialize", Handler(mem))
    BY <1>4, <2>1, <2>5
       DEF Snapshot, Raise, RecordInv, Busy, Trying, Restoring, Recovering, Reporting, RollingBack, PhaseAt, Handler, MustRollBack, SameOrigin, Unfinished, Activation
  <2> QED
    BY <2>4, <2>5
<1>5. CASE Materialize
  BY <1>5 DEF Materialize, Raise, RecordInv, Reusable, Busy, Trying, Restoring, Recovering, Reporting, RollingBack, PhaseAt, Handler, MustRollBack, SameOrigin, Unfinished, Activation
<1>6. CASE Populate
  BY <1>6 DEF Populate, Raise, RecordInv, TypeInv, Busy, Trying, Restoring, Recovering, Reporting, RollingBack, PhaseAt, Handler, MustRollBack, SameOrigin, Unfinished, Activation
<1>7. CASE WriteStaged
  <2>1. cur \in Tx /\ mem \in Record /\ "staged" \in Phase \ {NoPhase} /\ pc \in Busy
    BY <1>7 DEF WriteStaged, RecordInv, Busy, Trying, Restoring, Recovering, Reporting, RollingBack, TypeInv, TypeOK, Phase, NoPhase, Working, Activation, Terminal
  <2>2. /\ tx[cur].adopted => mem.adopted
        /\ "staged" \in {"verified", "imported"} => NothingSaved(mem)
    BY <1>7, <2>1 DEF WriteStaged, RecordInv, Busy, Trying, Restoring, Recovering, Reporting, RollingBack, PhaseAt, NothingSaved
  <2>3. /\ ~recovering
        /\ Handler(mem) \in {"restore-stop", "preserve-stop"}
        /\ Handler(mem) = "restore-stop" => /\ "staged" \in Activation
                                     /\ tx[cur].phase \in Activation \cup {"built"}
                                     /\ SameOrigin(tx[cur], mem)
    BY <1>7, <2>1 DEF WriteStaged, RecordInv, Trying, PhaseAt, Handler, MustRollBack, Activation, SameOrigin, TypeInv, TypeOK, Record
  <2>4. WriteState(mem, "staged", "build", Handler(mem))
    BY <1>7 DEF WriteStaged
  <2> QED
    BY <1>7, <2>1, <2>2, <2>3, <2>4, RecordWrite DEF WriteStaged, Trying, PhaseAt
<1>8. CASE Build
  <2>1. cur \in Tx /\ mem \in Record /\ "built" \in Phase \ {NoPhase} /\ pc \in Busy
    BY <1>8 DEF Build, RecordInv, Busy, Trying, Restoring, Recovering, Reporting, RollingBack, TypeInv, TypeOK, Phase, NoPhase, Working, Activation, Terminal
  <2>2. /\ tx[cur].adopted => mem.adopted
        /\ "built" \in {"verified", "imported"} => NothingSaved(mem)
    BY <1>8, <2>1 DEF Build, RecordInv, Busy, Trying, Restoring, Recovering, Reporting, RollingBack, PhaseAt, NothingSaved
  <2>3. /\ ~recovering
        /\ Handler(mem) \in {"restore-stop", "preserve-stop"}
        /\ Handler(mem) = "restore-stop" => /\ "built" \in Activation
                                     /\ tx[cur].phase \in Activation \cup {"built"}
                                     /\ SameOrigin(tx[cur], mem)
    BY <1>8, <2>1 DEF Build, RecordInv, Trying, PhaseAt, Handler, MustRollBack, Activation, SameOrigin, TypeInv, TypeOK, Record
  <2>4. CASE WriteState(mem, "built", "stop-service", Handler(mem))
    BY <1>8, <2>1, <2>2, <2>3, <2>4, RecordWrite DEF Build, Trying, PhaseAt
  <2>5. CASE ~WriteState(mem, "built", "stop-service", Handler(mem))
    BY <1>8, <2>1, <2>5
       DEF Build, Raise, RecordInv, Busy, Trying, Restoring, Recovering, Reporting, RollingBack, PhaseAt, Handler, MustRollBack, SameOrigin, Unfinished, Activation
  <2> QED
    BY <2>4, <2>5
<1>9. CASE StopService
  BY <1>9 DEF StopService, Raise, RecordInv, Systemctl, Busy, Trying, Restoring, Recovering, Reporting, RollingBack, PhaseAt, Handler, MustRollBack, SameOrigin, Unfinished, Activation
<1>10. CASE WriteActivating
  <2>1. cur \in Tx /\ mem \in Record /\ "activating" \in Phase \ {NoPhase} /\ pc \in Busy
    BY <1>10 DEF WriteActivating, RecordInv, Busy, Trying, Restoring, Recovering, Reporting, RollingBack, TypeInv, TypeOK, Phase, NoPhase, Working, Activation, Terminal
  <2>2. /\ tx[cur].adopted => mem.adopted
        /\ "activating" \in {"verified", "imported"} => NothingSaved(mem)
    BY <1>10, <2>1 DEF WriteActivating, RecordInv, Busy, Trying, Restoring, Recovering, Reporting, RollingBack, PhaseAt, NothingSaved
  <2>3. /\ ~recovering
        /\ Handler([mem EXCEPT !.phase = "activating"]) \in {"restore-stop", "preserve-stop"}
        /\ Handler([mem EXCEPT !.phase = "activating"]) = "restore-stop" => /\ "activating" \in Activation
                                     /\ tx[cur].phase \in Activation \cup {"built"}
                                     /\ SameOrigin(tx[cur], mem)
    BY <1>10, <2>1 DEF WriteActivating, RecordInv, Trying, PhaseAt, Handler, MustRollBack, Activation, SameOrigin, TypeInv, TypeOK, Record
  <2>4. WriteState(mem, "activating", "prepare", Handler([mem EXCEPT !.phase = "activating"]))
    BY <1>10 DEF WriteActivating
  <2> QED
    BY <1>10, <2>1, <2>2, <2>3, <2>4, RecordWrite DEF WriteActivating, Trying, PhaseAt
<1>11. CASE PrepareDestination
  BY <1>11 DEF PrepareDestination, Raise, RecordInv, TypeInv, Busy, Trying, Restoring, Recovering, Reporting, RollingBack, PhaseAt, Handler, MustRollBack, SameOrigin, Unfinished, Activation
<1>12. CASE Activate
  BY <1>12 DEF Activate, Raise, RecordInv, TypeInv, Busy, Trying, Restoring, Recovering, Reporting, RollingBack, PhaseAt, Handler, MustRollBack, SameOrigin, Unfinished, Activation
<1>13. CASE WriteActivated
  <2>1. cur \in Tx /\ mem \in Record /\ "activated" \in Phase \ {NoPhase} /\ pc \in Busy
    BY <1>13 DEF WriteActivated, RecordInv, Busy, Trying, Restoring, Recovering, Reporting, RollingBack, TypeInv, TypeOK, Phase, NoPhase, Working, Activation, Terminal
  <2>2. /\ tx[cur].adopted => mem.adopted
        /\ "activated" \in {"verified", "imported"} => NothingSaved(mem)
    BY <1>13, <2>1 DEF WriteActivated, RecordInv, Busy, Trying, Restoring, Recovering, Reporting, RollingBack, PhaseAt, NothingSaved
  <2>3. /\ ~recovering
        /\ Handler([mem EXCEPT !.phase = "activated"]) \in {"restore-stop", "preserve-stop"}
        /\ Handler([mem EXCEPT !.phase = "activated"]) = "restore-stop" => /\ "activated" \in Activation
                                     /\ tx[cur].phase \in Activation \cup {"built"}
                                     /\ SameOrigin(tx[cur], mem)
    BY <1>13, <2>1 DEF WriteActivated, RecordInv, Trying, PhaseAt, Handler, MustRollBack, Activation, SameOrigin, TypeInv, TypeOK, Record
  <2>4. WriteState(mem, "activated", "start-service", Handler([mem EXCEPT !.phase = "activated"]))
    BY <1>13 DEF WriteActivated
  <2> QED
    BY <1>13, <2>1, <2>2, <2>3, <2>4, RecordWrite DEF WriteActivated, Trying, PhaseAt
<1>14. CASE StartService
  BY <1>14 DEF StartService, Raise, RecordInv, Systemctl, Busy, Trying, Restoring, Recovering, Reporting, RollingBack, PhaseAt, Handler, MustRollBack, SameOrigin, Unfinished, Activation
<1>15. CASE HealthCheck
  <2>1. cur \in Tx /\ mem \in Record /\ "health-checked" \in Phase \ {NoPhase} /\ pc \in Busy
    BY <1>15 DEF HealthCheck, RecordInv, Busy, Trying, Restoring, Recovering, Reporting, RollingBack, TypeInv, TypeOK, Phase, NoPhase, Working, Activation, Terminal
  <2>2. /\ tx[cur].adopted => mem.adopted
        /\ "health-checked" \in {"verified", "imported"} => NothingSaved(mem)
    BY <1>15, <2>1 DEF HealthCheck, RecordInv, Busy, Trying, Restoring, Recovering, Reporting, RollingBack, PhaseAt, NothingSaved
  <2>3. /\ ~recovering
        /\ Handler([mem EXCEPT !.phase = "health-checked"]) \in {"restore-stop", "preserve-stop"}
        /\ Handler([mem EXCEPT !.phase = "health-checked"]) = "restore-stop" => /\ "health-checked" \in Activation
                                     /\ tx[cur].phase \in Activation \cup {"built"}
                                     /\ SameOrigin(tx[cur], mem)
    BY <1>15, <2>1 DEF HealthCheck, RecordInv, Trying, PhaseAt, Handler, MustRollBack, Activation, SameOrigin, TypeInv, TypeOK, Record
  <2>4. CASE WriteState(mem, "health-checked", "success", Handler([mem EXCEPT !.phase = "health-checked"]))
    BY <1>15, <2>1, <2>2, <2>3, <2>4, RecordWrite DEF HealthCheck, Trying, PhaseAt
  <2>5. CASE ~WriteState(mem, "health-checked", "success", Handler([mem EXCEPT !.phase = "health-checked"]))
    BY <1>15, <2>1, <2>5
       DEF HealthCheck, Raise, RecordInv, Busy, Trying, Restoring, Recovering, Reporting, RollingBack, PhaseAt, Handler, MustRollBack, SameOrigin, Unfinished, Activation
  <2> QED
    BY <2>4, <2>5
<1>16. CASE WriteSuccess
  BY <1>16 DEF WriteSuccess, Raise, RecordInv, WriteResult, Busy, Trying, Restoring, Recovering, Reporting, RollingBack, PhaseAt, Handler, MustRollBack, SameOrigin, Unfinished, Activation
<1>17. CASE WriteCommitted
  <2>1. cur \in Tx /\ mem \in Record /\ "committed" \in Phase \ {NoPhase} /\ pc \in Busy
    BY <1>17 DEF WriteCommitted, RecordInv, Busy, Trying, Restoring, Recovering, Reporting, RollingBack, TypeInv, TypeOK, Phase, NoPhase, Working, Activation, Terminal
  <2>2. /\ tx[cur].adopted => mem.adopted
        /\ "committed" \in {"verified", "imported"} => NothingSaved(mem)
    BY <1>17, <2>1 DEF WriteCommitted, RecordInv, Busy, Trying, Restoring, Recovering, Reporting, RollingBack, PhaseAt, NothingSaved
  <2>3. /\ ~recovering
        /\ Handler([mem EXCEPT !.phase = "committed"]) \in {"restore-stop", "preserve-stop"}
        /\ Handler([mem EXCEPT !.phase = "committed"]) = "restore-stop" => /\ "committed" \in Activation
                                     /\ tx[cur].phase \in Activation \cup {"built"}
                                     /\ SameOrigin(tx[cur], mem)
    BY <1>17, <2>1 DEF WriteCommitted, RecordInv, Trying, PhaseAt, Handler, MustRollBack, Activation, SameOrigin, TypeInv, TypeOK, Record
  <2>4. WriteState(mem, "committed", "idle", Handler([mem EXCEPT !.phase = "committed"]))
    BY <1>17 DEF WriteCommitted
  <2> QED
    BY <1>17, <2>1, <2>2, <2>3, <2>4, RecordWrite DEF WriteCommitted, Trying, PhaseAt
<1>18. CASE PreserveStop
  BY <1>18 DEF PreserveStop, Raise, RecordInv, TypeInv, Busy, Trying, Restoring, Recovering, Reporting, RollingBack, PhaseAt, Handler, MustRollBack, SameOrigin, Unfinished, Activation
<1>19. CASE \E o \in Outcomes : ReportFailure(o)
  BY <1>19 DEF RecordInv, ReportFailure, WriteResult, Raise, Outcomes, SameOrigin, Unfinished, Busy, Trying, Restoring, Recovering, Reporting, RollingBack
<1>20. CASE \E o \in Outcomes : SettleFailure(o)
  <2> PICK o \in Outcomes : SettleFailure(o)
    BY <1>20
  <2>1. mem \in Record /\ o.phase \in Phase \ {NoPhase} /\ o.phase \in Terminal /\ pc \in Busy
        /\ pc \in Reporting
    BY OutcomeFields DEF SettleFailure, TypeInv, TypeOK, Phase, NoPhase, Busy, Terminal
  <2>2. WriteState(mem, o.phase, "idle", "idle")
    BY DEF SettleFailure
  <2> QED
    BY <2>1, <2>2, RecordWrite DEF SettleFailure, RecordInv, Trying, Terminal
<1> QED
  BY <1>1, <1>2, <1>3, <1>4, <1>5, <1>6, <1>7, <1>8, <1>9, <1>10, <1>11, <1>12, <1>13,
     <1>14, <1>15, <1>16, <1>17, <1>18, <1>19, <1>20 DEF Apply

LEMMA RecordStep ==
  ASSUME TypeInv, RecordInv, [Next]_vars
  PROVE  RecordInv'
<1>1. CASE Scan
  BY <1>1, RecordRecovery, RecordRestore, RecordApply DEF Scan
<1>2. CASE Crash
  BY <1>2 DEF Crash, durable, RecordInv, Busy, Trying, Restoring, Recovering, Reporting, RollingBack
<1>3. CASE UNCHANGED vars
  BY <1>3 DEF vars, durable, process, RecordInv, Unfinished
<1> QED
  BY <1>1, <1>2, <1>3 DEF Next

LEMMA RecordInit == Init => RecordInv
BY DEF Init, RecordInv, Busy, Trying, Restoring, Recovering, Reporting, RollingBack,
       NoRecord, NothingSaved

LEMMA CoreInvariant == Spec => []CoreInv
<1>1. Init => CoreInv
  BY TypeInit, RecordInit DEF CoreInv
<1>2. CoreInv /\ [Next]_vars => CoreInv'
  BY TypeStep, RecordStep DEF CoreInv
<1> QED
  BY <1>1, <1>2, PTL DEF Spec

-----------------------------------------------------------------------------
(* The unmanaged directory.                                                *)

\* The phase each control point writes.
PhaseFrom(c) ==
  CASE c = "import"                                      -> "imported"
    [] c = "snapshot"                                    -> "snapshot-created"
    [] c = "write-staged"                                -> "staged"
    [] c = "build"                                       -> "built"
    [] c = "write-activating"                            -> "activating"
    [] c = "write-activated"                             -> "activated"
    [] c = "health"                                      -> "health-checked"
    [] c = "commit"                                      -> "committed"
    [] c \in {"recover-reject", "phase-rejected"}        -> "rejected"
    [] c \in {"recover-rolled-back", "phase-rolled-back"} -> "rolled-back"
    [] c \in {"recover-failed", "phase-recovery-failed"} -> "recovery-failed"
    [] c = "phase-preserved"                             -> "failed-preserved"

\* The control points that write no record.
Silent == {"materialize", "populate", "stop-service", "prepare", "activate",
           "start-service", "success", "preserve-stop",
           "result-needs-full", "result-rolled-back", "result-recovery-failed",
           "result-preserved"} \cup Restoring

\* What the record names once the step is done.
Saved == IF pc = "snapshot" THEN Snapshotted ELSE mem

\* A record is written in memory and, unless that fails, on disk.
Writes ==
  /\ pc \in Busy \ Silent
  /\ mem' \in Record /\ mem'.phase = PhaseFrom(pc) /\ SameOrigin(mem', Saved)
  /\ \A t \in Tx \ {cur} : tx'[t] = tx[t]
  /\ tx'[cur] \in {tx[cur], mem'}
  /\ \/ pc' \in Trying \cup {"idle", "restore-stop", "preserve-stop", "recover-failed"}
     \/ pc' = "recover" /\ pc \in Recovering /\ tx'[cur] = mem'
  /\ UNCHANGED <<dest, aside, release, service, result, cur, recovering, todo, before>>

LEMMA WritesIntro ==
  ASSUME CoreInv, NEW s \in Record, NEW phase \in Phase, NEW next, NEW handler,
         pc \in Busy \ Silent, phase = PhaseFrom(pc), s = Saved,
         WriteState(s, phase, next, handler),
         next \in Trying \cup {"idle", "recover"}, next = "recover" => pc \in Recovering,
         handler \in {"idle", "restore-stop", "preserve-stop", "recover-failed"},
         UNCHANGED <<dest, aside, release, service, result, cur, recovering, todo, before>>
  PROVE  Writes
<1>1. cur \in Tx
  BY DEF CoreInv, RecordInv
<1> QED
  BY <1>1, WriteStateEffect DEF CoreInv, Writes

\* A step writes the current record, or starts a transaction, or leaves every
\* record alone (the callers of _write_state).
LEMMA RecordChange ==
  ASSUME CoreInv, [Next]_vars
  PROVE  \/ Writes
         \/ \E p \in Package, t \in Tx : StartApply(p, t)
         \/ UNCHANGED tx /\ (mem' \in {mem, NoRecord} \/ \E t \in Tx : mem' = tx[t])
<1> USE DEF CoreInv
<1>0. /\ mem \in Record /\ Snapshotted \in Record
      /\ {"imported", "snapshot-created", "staged", "built", "activating", "activated",
          "health-checked", "committed", "rejected", "rolled-back", "recovery-failed",
          "failed-preserved"} \subseteq Phase
  BY DEF TypeInv, TypeOK, Phase, Working, Activation, Terminal, Snapshotted, Record
<1>1. CASE RecoverReject
  BY <1>0, <1>1, WritesIntro DEF RecoverReject, PhaseFrom, Saved, Busy, Recovering, Silent, Restoring
<1>2. CASE RecoverRolledBack
  BY <1>0, <1>2, WritesIntro
     DEF RecoverRolledBack, PhaseFrom, Saved, Busy, Recovering, Silent, Restoring
<1>3. CASE RecoverFailed
  BY <1>0, <1>3, WritesIntro DEF RecoverFailed, PhaseFrom, Saved, Busy, Recovering, Silent, Restoring
<1>4. CASE Import
  BY <1>0, <1>4, WritesIntro, HandlerType DEF Import, PhaseFrom, Saved, Busy, Trying, Silent, Restoring
<1>5. CASE Snapshot
  BY <1>0, <1>5, WritesIntro, HandlerType DEF Snapshot, PhaseFrom, Saved, Busy, Trying, Silent, Restoring
<1>6. CASE WriteStaged
  BY <1>0, <1>6, WritesIntro, HandlerType DEF WriteStaged, PhaseFrom, Saved, Busy, Trying, Silent, Restoring
<1>7. CASE Build
  BY <1>0, <1>7, WritesIntro, HandlerType DEF Build, PhaseFrom, Saved, Busy, Trying, Silent, Restoring
<1>8. CASE WriteActivating
  BY <1>0, <1>8, WritesIntro, HandlerType DEF WriteActivating, PhaseFrom, Saved, Busy, Trying, Silent, Restoring
<1>9. CASE WriteActivated
  BY <1>0, <1>9, WritesIntro, HandlerType DEF WriteActivated, PhaseFrom, Saved, Busy, Trying, Silent, Restoring
<1>10. CASE HealthCheck
  BY <1>0, <1>10, WritesIntro, HandlerType DEF HealthCheck, PhaseFrom, Saved, Busy, Trying, Silent, Restoring
<1>11. CASE WriteCommitted
  BY <1>0, <1>11, WritesIntro, HandlerType DEF WriteCommitted, PhaseFrom, Saved, Busy, Trying, Silent, Restoring
<1>12. CASE \E o \in Outcomes : SettleFailure(o)
  <2> PICK o \in Outcomes : SettleFailure(o)
    BY <1>12
  <2>1. pc \in Busy \ Silent /\ o.phase = PhaseFrom(pc) /\ Saved = mem /\ o.phase \in Phase
    BY <1>0 DEF SettleFailure, Outcomes, PhaseFrom, Saved, Busy, Reporting, Silent, Restoring
  <2> QED
    BY <1>0, <2>1, WritesIntro, HandlerType DEF SettleFailure
<1>13. CASE Scan
  BY <1>1, <1>2, <1>3, <1>4, <1>5, <1>6, <1>7, <1>8, <1>9, <1>10, <1>11, <1>12, <1>13
     DEF Scan, Recovery, Restore, Apply, StartScan, RecoverDone, NothingToApply, RecoverNext,
         RecoverUnreadable, RestoreStop, RestoreDestination, RestoreAdopted, RestoreStart,
         ReturnExisting, Materialize, Populate, StopService, PrepareDestination, Activate,
         StartService, WriteSuccess, PreserveStop, ReportFailure, durable
<1>14. CASE Crash \/ UNCHANGED vars
  BY <1>14 DEF Crash, vars, durable, process
<1> QED
  BY <1>13, <1>14 DEF Next

\* A record that names an adopted original is not overwritten by one that does
\* not (every _write_state of the engine).
LEMMA AdoptedKept ==
  ASSUME CoreInv, [Next]_vars
  PROVE  \A t \in Tx : tx[t].adopted => tx'[t].adopted
<1> USE DEF CoreInv
<1>1. CASE Writes
  <2>1. cur \in Tx
    BY <1>1 DEF Writes, RecordInv
  <2>2. pc # "snapshot" => (tx[cur].adopted => mem.adopted)
    BY <1>1 DEF Writes, RecordInv, Busy, RollingBack, SameOrigin
  <2>3. pc = "snapshot" => ~tx[cur].adopted
    BY <2>1 DEF RecordInv, NothingSaved, Trying, PhaseAt
  <2> QED
    BY <1>1, <2>1, <2>2, <2>3 DEF Writes, Saved, SameOrigin
<1>2. CASE \E p \in Package, t \in Tx : StartApply(p, t)
  <2> PICK p \in Package, t \in Tx : StartApply(p, t)
    BY <1>2
  <2>1. ~tx[t].adopted
    BY DEF StartApply, RecordInv, NothingSaved
  <2> QED
    BY <2>1 DEF StartApply, Raise, TypeInv, TypeOK
<1> QED
  BY <1>1, <1>2, RecordChange

LEMMA OriginalStep ==
  ASSUME CoreInv, OriginalInv, [Next]_vars
  PROVE  OriginalInv'
<1> USE DEF CoreInv, OriginalInv
<1>0. \A t \in Tx : tx[t].adopted => tx'[t].adopted
  BY AdoptedKept
<1>1. CASE UNCHANGED <<dest, aside, before>>
  BY <1>0, <1>1 DEF SawOriginal
<1>2. CASE \E p \in Package, t \in Tx : StartApply(p, t)
  <2> PICK p \in Package, t \in Tx : StartApply(p, t)
    BY <1>2
  <2>1. \A u \in Tx : before'[u] \in {before[u], dest}
    BY DEF StartApply, TypeInv, TypeOK
  <2> QED
    BY <1>0, <2>1 DEF StartApply, SawOriginal
<1>3. CASE RestoreDestination
  <2>1. dest = Original /\ dest' # dest => mem.adopted /\ aside = cur
    BY <1>3, NamesAssumption DEF RestoreDestination, AdoptedExists, Link, Original, External
  <2>2. cur \in Tx
    BY <1>3 DEF RestoreDestination, RecordInv, Busy, Restoring
  <2> QED
    BY <1>0, <1>3, <2>1, <2>2 DEF RestoreDestination, SawOriginal
<1>4. CASE RestoreAdopted
  <2>1. (dest' = Original /\ aside' = None) \/ UNCHANGED <<dest, aside>>
    BY <1>4 DEF RestoreAdopted
  <2> QED
    BY <1>0, <1>4, <2>1, NamesAssumption DEF RestoreAdopted, SawOriginal
<1>5. CASE PrepareDestination
  <2>1. cur \in Tx /\ tx[cur] = mem
    BY <1>5 DEF PrepareDestination, RecordInv, Busy, Trying
  <2> QED
    BY <1>0, <1>5, <2>1 DEF PrepareDestination, SawOriginal
<1>6. CASE Activate
  BY <1>0, <1>6 DEF Activate, SawOriginal
<1>7. CASE Scan
  BY <1>1, <1>2, <1>3, <1>4, <1>5, <1>6, <1>7
     DEF Scan, Recovery, Restore, Apply, StartScan, RecoverDone, NothingToApply, RecoverNext,
         RecoverUnreadable, RecoverReject, RecoverRolledBack, RecoverFailed, RestoreStop,
         RestoreStart, ReturnExisting, Import, Snapshot, Materialize, Populate, WriteStaged,
         Build, StopService, WriteActivating, WriteActivated, StartService, HealthCheck,
         WriteSuccess, WriteCommitted, PreserveStop, ReportFailure, SettleFailure, durable
<1>8. CASE Crash \/ UNCHANGED vars
  BY <1>1, <1>8 DEF Crash, vars, durable
<1> QED
  BY <1>7, <1>8 DEF Next

LEMMA OriginalInvariant == Spec => []OriginalInv
<1>1. Init => OriginalInv
  BY NamesAssumption DEF Init, OriginalInv, SawOriginal
<1>2. CoreInv /\ OriginalInv /\ [Next]_vars => OriginalInv'
  BY OriginalStep
<1> QED
  BY <1>1, <1>2, CoreInvariant, PTL DEF Spec

\* The unmanaged directory found at the destination is never lost, however many
\* transactions, faults, crashes and unreadable records there are
\* (_prepare_destination_for_activation, _restore_previous).
THEOREM OriginalIsPreserved == Spec => []OriginalPreserved
<1>1. OriginalInv => OriginalPreserved
  BY DEF OriginalInv, OriginalPreserved
<1> QED
  BY <1>1, OriginalInvariant, PTL

\* How control moves forward inside the try block; the package stays the same.
LEMMA Forward ==
  ASSUME CoreInv, [Next]_vars, pc' \in Trying
  PROVE  \/ UNCHANGED vars
         \/ pc' = "import"
         \/ /\ mem'.pkg = mem.pkg /\ cur' = cur
            /\ \/ Import /\ pc' = "snapshot"
               \/ Snapshot /\ pc' = "materialize"
               \/ Materialize /\ mem' = mem /\ pc' \in {"populate", "write-staged"}
               \/ Populate /\ mem' = mem /\ pc' = "write-staged"
               \/ WriteStaged /\ pc' = "build"
               \/ Build /\ pc' = "stop-service"
               \/ StopService /\ pc' = "write-activating"
               \/ WriteActivating /\ pc' = "prepare"
               \/ PrepareDestination /\ pc' = "activate"
               \/ Activate /\ mem' = mem /\ pc' = "write-activated"
               \/ WriteActivated /\ pc' = "start-service"
               \/ StartService /\ pc' = "health"
               \/ HealthCheck /\ pc' = "success"
               \/ WriteSuccess /\ pc' = "commit"
<1> USE DEF CoreInv
<1>0. mem \in Record /\ Snapshotted \in Record /\ Snapshotted.pkg = mem.pkg
  BY DEF TypeInv, TypeOK, Snapshotted, Record
<1>1. ASSUME NEW s \in Record, NEW phase, NEW next, NEW handler, s.pkg = mem.pkg,
             WriteState(s, phase, next, handler), handler \notin Trying
      PROVE  mem'.pkg = mem.pkg /\ pc' = next
  BY <1>1 DEF WriteState, Raise, Record
<1>2. CASE Import
  BY <1>0, <1>1, <1>2, HandlerType DEF Import, Raise, Trying
<1>3. CASE Snapshot
  BY <1>0, <1>1, <1>3, HandlerType DEF Snapshot, Raise, Trying
<1>4. CASE Materialize
  BY <1>0, <1>1, <1>4, HandlerType DEF Materialize, Raise, Trying
<1>5. CASE Populate
  BY <1>0, <1>1, <1>5, HandlerType DEF Populate, Raise, Trying
<1>6. CASE WriteStaged
  BY <1>0, <1>1, <1>6, HandlerType DEF WriteStaged, Raise, Trying
<1>7. CASE Build
  BY <1>0, <1>1, <1>7, HandlerType DEF Build, Raise, Trying
<1>8. CASE StopService
  BY <1>0, <1>1, <1>8, HandlerType DEF StopService, Systemctl, Raise, Trying
<1>9. CASE WriteActivating
  BY <1>0, <1>1, <1>9, HandlerType DEF WriteActivating, Raise, Trying
<1>10. CASE PrepareDestination
  BY <1>0, <1>1, <1>10, HandlerType DEF PrepareDestination, Raise, Trying
<1>11. CASE Activate
  BY <1>0, <1>1, <1>11, HandlerType DEF Activate, Raise, Trying
<1>12. CASE WriteActivated
  BY <1>0, <1>1, <1>12, HandlerType DEF WriteActivated, Raise, Trying
<1>13. CASE StartService
  BY <1>0, <1>1, <1>13, HandlerType DEF StartService, Systemctl, Raise, Trying
<1>14. CASE HealthCheck
  BY <1>0, <1>1, <1>14, HandlerType DEF HealthCheck, Raise, Trying
<1>15. CASE WriteSuccess
  BY <1>0, <1>1, <1>15, HandlerType DEF WriteSuccess, WriteResult, Raise, Trying
<1>16. CASE WriteCommitted
  BY <1>0, <1>1, <1>16, HandlerType DEF WriteCommitted, Raise, Trying
<1>17. CASE Recovery
  BY <1>0, <1>1, <1>17
     DEF Recovery, StartScan, RecoverDone, NothingToApply, RecoverNext, RecoverUnreadable,
         RecoverReject, RecoverRolledBack, RecoverFailed, Trying
<1>18. CASE Restore
  BY <1>18 DEF Restore, RestoreStop, RestoreDestination, RestoreAdopted, RestoreStart,
                  Restored, RestoreFailed, Systemctl, Raise, Trying
<1>19. CASE \E p \in Package, t \in Tx : StartApply(p, t)
  BY <1>19 DEF StartApply, Raise, Trying
<1>20. CASE \E o \in Outcomes : ReportFailure(o) \/ SettleFailure(o)
  BY <1>0, <1>1, <1>20, OutcomeFields
     DEF ReportFailure, SettleFailure, WriteResult, Raise, Reporting, Trying
<1>21. CASE (\E p \in Package : ReturnExisting(p)) \/ PreserveStop
  BY <1>21 DEF ReturnExisting, PreserveStop, Raise, Trying
<1>22. CASE Apply
  BY <1>2, <1>3, <1>4, <1>5, <1>6, <1>7, <1>8, <1>9, <1>10, <1>11, <1>12, <1>13, <1>14, <1>15, <1>16,
     <1>19, <1>20, <1>21, <1>22 DEF Apply
<1>23. CASE Crash
  BY <1>23 DEF Crash, Trying
<1> QED
  BY <1>17, <1>18, <1>22, <1>23 DEF Next, Scan

-----------------------------------------------------------------------------
(* Releases.                                                               *)

\* A marked release stays as it is: it is reused, never rebuilt (_materialize).
LEMMA ReadyKept ==
  ASSUME CoreInv, ReleaseInv, [Next]_vars, NEW c \in Commit, release[c] \in Marked
  PROVE  release'[c] = release[c]
<1> USE DEF CoreInv
<1>1. CASE Materialize
  BY <1>1 DEF Materialize, Reusable, TypeInv, TypeOK
<1>2. CASE Populate
  BY <1>2 DEF Populate, ReleaseInv, TypeInv, TypeOK, Marked
<1>3. CASE UNCHANGED release
  BY <1>3
<1>4. CASE Scan
  BY <1>1, <1>2, <1>3, <1>4
     DEF Scan, Recovery, Restore, Apply, StartScan, RecoverDone, NothingToApply, RecoverNext,
         RecoverUnreadable, RecoverReject, RecoverRolledBack, RecoverFailed, RestoreStop,
         RestoreDestination, RestoreAdopted, RestoreStart, StartApply, ReturnExisting, Import,
         Snapshot, WriteStaged, Build, StopService, WriteActivating, PrepareDestination,
         Activate, WriteActivated, StartService, HealthCheck, WriteSuccess, WriteCommitted,
         PreserveStop, ReportFailure, SettleFailure, durable
<1>5. CASE Crash \/ UNCHANGED vars
  BY <1>3, <1>5 DEF Crash, vars, durable
<1> QED
  BY <1>4, <1>5 DEF Next

LEMMA ReleaseStep ==
  ASSUME CoreInv, ReleaseInv, [Next]_vars
  PROVE  ReleaseInv'
<1> USE DEF CoreInv
<1>0. \A c \in Commit : release[c] \in Marked => release'[c] \in Marked
  BY ReadyKept
<1>names. None \notin Commit /\ Absent \notin Commit /\ Original \notin Commit
  BY NamesAssumption
<1>1. Ready(dest)'
  <2>1. CASE dest' = dest
    BY <1>0, <2>1 DEF ReleaseInv, Ready
  <2>2. CASE RestoreDestination
    BY <1>0, <1>names, <2>2 DEF RestoreDestination, ReleaseInv, Ready
  <2>3. CASE RestoreAdopted
    BY <1>0, <1>names, <2>3 DEF RestoreAdopted, ReleaseInv, Ready
  <2>4. CASE PrepareDestination
    BY <1>0, <1>names, <2>4 DEF PrepareDestination, ReleaseInv, Ready
  <2>5. CASE Activate
    BY <1>0, <2>5 DEF Activate, ReleaseInv, Ready, Materialized
  <2>6. CASE Scan
    BY <2>1, <2>2, <2>3, <2>4, <2>5, <2>6
       DEF Scan, Recovery, Restore, Apply, StartScan, RecoverDone, NothingToApply, RecoverNext,
           RecoverUnreadable, RecoverReject, RecoverRolledBack, RecoverFailed, RestoreStop,
           RestoreStart, StartApply, ReturnExisting, Import, Snapshot, Materialize, Populate,
           WriteStaged, Build, StopService, WriteActivating, WriteActivated, StartService,
           HealthCheck, WriteSuccess, WriteCommitted, PreserveStop, ReportFailure,
           SettleFailure, durable
  <2>7. CASE Crash \/ UNCHANGED vars
    BY <2>1, <2>7 DEF Crash, vars, durable
  <2> QED
    BY <2>6, <2>7 DEF Next
<1>2. Ready(mem.previous)' /\ (\A t \in Tx : Ready(tx[t].previous))'
  <2>1. CASE Writes
    <3>1. Ready(Saved.previous)
      <4>1. CASE pc = "snapshot"
        <5>1. Snapshotted.previous = IF dest \in Link THEN dest ELSE None
          BY DEF Snapshotted, TypeInv, TypeOK, Record
        <5> QED
          BY <1>names, <4>1, <5>1 DEF Saved, ReleaseInv, Ready
      <4>2. CASE pc # "snapshot"
        BY <4>2 DEF Saved, ReleaseInv
      <4> QED
        BY <4>1, <4>2
    <3>2. mem'.previous = Saved.previous
      BY <2>1 DEF Writes, SameOrigin
    <3>3. \A t \in Tx : tx'[t] = tx[t] \/ tx'[t] = mem'
      BY <2>1 DEF Writes
    <3> QED
      BY <1>0, <3>1, <3>2, <3>3 DEF ReleaseInv, Ready
  <2>2. CASE \E p \in Package, t \in Tx : StartApply(p, t)
    <3> PICK p \in Package, t \in Tx : StartApply(p, t)
      BY <2>2
    <3> DEFINE state == [NoRecord EXCEPT !.phase = "verified", !.pkg = p]
    <3>1. state.previous = None
      BY DEF NoRecord
    <3>2. mem' = state /\ tx' \in {tx, [tx EXCEPT ![t] = state]}
      BY DEF StartApply, Raise
    <3>3. \A u \in Tx : tx'[u] \in {tx[u], state}
      BY <3>2 DEF TypeInv, TypeOK
    <3> HIDE DEF state
    <3> QED
      BY <1>0, <1>names, <3>1, <3>2, <3>3 DEF ReleaseInv, Ready
  <2>3. CASE UNCHANGED tx /\ (mem' \in {mem, NoRecord} \/ \E t \in Tx : mem' = tx[t])
    BY <1>0, <1>names, <2>3 DEF ReleaseInv, NoRecord, Ready
  <2> QED
    BY <2>1, <2>2, <2>3, RecordChange
<1>3. (pc \in Materialized => Ready(CommitOf[mem.pkg]))'
  <2> SUFFICES ASSUME pc' \in Materialized PROVE Ready(CommitOf[mem.pkg])'
    OBVIOUS
  <2>0. pc' \in Trying /\ pc' # "import"
    BY DEF Materialized, Trying
  <2>1. CASE Materialize /\ mem' = mem
    BY <2>1 DEF Materialize, Reusable, Ready, Materialized
  <2>2. CASE Populate /\ mem' = mem
    <3>1. CommitOf[mem.pkg] \in Commit
      BY <2>2, PackageAssumption DEF Populate, TypeInv, PackageKnown, Trying
    <3> QED
      BY <2>0, <2>2, <3>1, HandlerType DEF Populate, Raise, Ready, TypeInv, TypeOK, Marked
  <2>3. CASE pc \in Materialized /\ mem'.pkg = mem.pkg
    BY <1>0, <2>3 DEF ReleaseInv, Ready
  <2> QED
    BY <2>0, <2>1, <2>2, <2>3, Forward
       DEF Import, Snapshot, WriteStaged, Build, StopService, WriteActivating,
           PrepareDestination, Activate, WriteActivated, StartService, HealthCheck,
           WriteSuccess, Materialized, vars, process
<1>4. (pc = "populate" => release[CommitOf[mem.pkg]] = "partial")'
  <2> SUFFICES ASSUME pc' = "populate" PROVE release'[CommitOf[mem'.pkg]] = "partial"
    OBVIOUS
  <2>1. CASE UNCHANGED vars
    BY <2>1 DEF vars, durable, process, ReleaseInv
  <2>2. CASE Materialize /\ mem' = mem
    <3>1. CommitOf[mem.pkg] \in Commit
      BY <2>2, PackageAssumption DEF Materialize, TypeInv, PackageKnown, Trying
    <3> QED
      BY <2>2, <3>1 DEF Materialize, TypeInv, TypeOK
  <2> QED
    BY <2>1, <2>2, Forward DEF Trying
<1> QED
  BY <1>1, <1>2, <1>3, <1>4 DEF ReleaseInv

\* The destination and every recorded previous symlink lead to a complete release,
\* for any number of crashes while releases are built (_materialize, _activate).
THEOREM ActiveReleaseIsReady == Spec => []ActiveReleaseReady
<1>1. Init => ReleaseInv
  BY NamesAssumption DEF Init, ReleaseInv, Ready, NoRecord, Materialized
<1>2. CoreInv /\ ReleaseInv /\ [Next]_vars => ReleaseInv'
  BY ReleaseStep
<1>3. ReleaseInv => ActiveReleaseReady
  BY DEF ReleaseInv, ActiveReleaseReady, Ready
<1> QED
  BY <1>1, <1>2, <1>3, CoreInvariant, PTL DEF Spec

\* No step rebuilds or removes the release that the destination shows, however
\* many transactions install the same commit (_materialize 219-224).
THEOREM LiveReleasesAreKept == Spec => ReleaseNotRebuilt
<1>1. Init => ReleaseInv
  BY NamesAssumption DEF Init, ReleaseInv, Ready, NoRecord, Materialized
<1>2. CoreInv /\ ReleaseInv /\ [Next]_vars => ReleaseInv'
  BY ReleaseStep
<1>3. ASSUME CoreInv, ReleaseInv, [Next]_vars, dest \in Commit
      PROVE  release'[dest] = release[dest]
  <2>1. release[dest] \in Marked
    BY <1>3 DEF ReleaseInv, Ready
  <2> QED
    BY <1>3, <2>1, ReadyKept
<1>4. CoreInv /\ ReleaseInv /\ [Next]_vars =>
        [(dest \in Commit) => release'[dest] = release[dest]]_vars
  BY <1>3
<1> QED
  BY <1>1, <1>2, <1>4, CoreInvariant, PTL DEF Spec, ReleaseNotRebuilt

-----------------------------------------------------------------------------
(* Commits.                                                                *)

LEMMA LiveStep ==
  ASSUME CoreInv, LiveInv, [Next]_vars
  PROVE  LiveInv'
<1>1. CASE pc' \notin Swapped
  BY <1>1 DEF LiveInv, Swapped
<1>2. CASE pc' \in Swapped
  <2>1. pc' \in Trying /\ pc' \notin {"import", "snapshot", "materialize", "populate",
          "write-staged", "build", "stop-service", "write-activating", "prepare", "activate"}
    BY <1>2 DEF Trying, Swapped
  <2>2. CASE Activate /\ mem' = mem /\ pc' = "write-activated"
    BY <2>2, HandlerType DEF Activate, Raise, LiveInv, Swapped, Trying
  <2>3. CASE mem'.pkg = mem.pkg /\ WriteActivated /\ pc' = "start-service"
    BY <2>3 DEF WriteActivated, LiveInv, Swapped
  <2>4. CASE mem'.pkg = mem.pkg /\ StartService /\ pc' = "health"
    <3>1. HasUnit => service' = "running"
      BY <2>4, HandlerType DEF StartService, Systemctl, Raise, Trying
    <3> QED
      BY <2>4, <3>1 DEF StartService, LiveInv, Swapped
  <2>5. CASE mem'.pkg = mem.pkg /\ HealthCheck /\ pc' = "success"
    BY <2>5 DEF HealthCheck, LiveInv, Swapped
  <2>6. CASE mem'.pkg = mem.pkg /\ WriteSuccess /\ pc' = "commit"
    BY <2>6 DEF WriteSuccess, LiveInv, Swapped
  <2>7. CASE UNCHANGED vars
    BY <2>7 DEF vars, durable, process, LiveInv
  <2> QED
    BY <2>1, <2>2, <2>3, <2>4, <2>5, <2>6, <2>7, Forward
<1> QED
  BY <1>1, <1>2

\* Which record a step changes the phase of, and to what (_write_state).
LEMMA PhaseChange ==
  ASSUME CoreInv, [Next]_vars, NEW t \in Tx, tx'[t].phase # tx[t].phase
  PROVE  \/ pc = "choose" /\ cur' = t /\ tx[t].phase = NoPhase /\ tx'[t].phase = "verified"
         \/ Writes /\ t = cur /\ tx'[t] = mem' /\ tx'[t].phase = PhaseFrom(pc)
<1>1. CASE Writes
  BY <1>1 DEF Writes
<1>2. CASE \E p \in Package, u \in Tx : StartApply(p, u)
  <2> PICK p \in Package, u \in Tx : StartApply(p, u)
    BY <1>2
  <2>1. tx'[t] = tx[t] \/ (t = u /\ tx'[t].phase = "verified")
    BY DEF StartApply, Raise, CoreInv, TypeInv, TypeOK, NoRecord
  <2> QED
    BY <2>1 DEF StartApply
<1> QED
  BY <1>1, <1>2, RecordChange

\* A transaction commits only on a complete release that its service was started
\* on (apply_package 459-468).
THEOREM CommitsAreLive == Spec => CommitIsLive
<1>1. Init => LiveInv
  BY DEF Init, LiveInv, Swapped
<1>2. CoreInv /\ LiveInv /\ [Next]_vars => LiveInv'
  BY LiveStep
<1>3. ASSUME CoreInv, ReleaseInv, LiveInv, [Next]_vars, NEW t \in Tx, Becomes(t, "committed")
      PROVE  /\ dest = CommitOf[tx[t].pkg] /\ release[dest] \in Marked
             /\ HasUnit => service = "running"
  <2>1. pc = "commit" /\ t = cur
    BY <1>3, PhaseChange
       DEF Becomes, PhaseFrom, Writes, Busy, Silent, Trying, Restoring, Recovering, Reporting
  <2>2. tx[t] = mem /\ mem.pkg \in Package
    BY <1>3, <2>1 DEF CoreInv, RecordInv, TypeInv, PackageKnown, Trying
  <2>3. CommitOf[mem.pkg] \in Commit
    BY <2>2, PackageAssumption
  <2> QED
    BY <1>3, <2>1, <2>2, <2>3 DEF LiveInv, Swapped, ReleaseInv, Ready, Materialized
<1>4. Init => ReleaseInv
  BY NamesAssumption DEF Init, ReleaseInv, Ready, NoRecord, Materialized
<1>5. CoreInv /\ ReleaseInv /\ [Next]_vars => ReleaseInv'
  BY ReleaseStep
<1>6. CoreInv /\ ReleaseInv /\ LiveInv /\ [Next]_vars =>
        [\A t \in Tx : Becomes(t, "committed") =>
           /\ dest = CommitOf[tx[t].pkg] /\ release[dest] \in Marked
           /\ HasUnit => service = "running"]_vars
  BY <1>3
<1> QED
  BY <1>1, <1>2, <1>4, <1>5, <1>6, CoreInvariant, PTL DEF Spec, CommitIsLive

-----------------------------------------------------------------------------
(* Results.                                                                *)

LEMMA ResultKept ==
  ASSUME CoreInv, [Next]_vars, NEW t \in Tx, result[t] # None
  PROVE  result'[t] # None
<1>0. None \notin Status
  BY DEF None, Status
<1>1. CASE WriteSuccess
  BY <1>0, <1>1 DEF WriteSuccess, WriteResult, Raise, CoreInv, TypeInv, TypeOK, Status
<1>2. CASE \E o \in Outcomes : ReportFailure(o)
  BY <1>0, <1>2, OutcomeFields DEF ReportFailure, WriteResult, Raise, CoreInv, TypeInv, TypeOK
<1>3. CASE UNCHANGED result
  BY <1>3
<1>4. CASE Scan
  BY <1>1, <1>2, <1>3, <1>4
     DEF Scan, Recovery, Restore, Apply, StartScan, RecoverDone, NothingToApply, RecoverNext,
         RecoverUnreadable, RecoverReject, RecoverRolledBack, RecoverFailed, RestoreStop,
         RestoreDestination, RestoreAdopted, RestoreStart, StartApply, ReturnExisting, Import,
         Snapshot, Materialize, Populate, WriteStaged, Build, StopService, WriteActivating,
         PrepareDestination, Activate, WriteActivated, StartService, HealthCheck,
         WriteCommitted, PreserveStop, SettleFailure, durable
<1>5. CASE Crash \/ UNCHANGED vars
  BY <1>3, <1>5 DEF Crash, vars, durable
<1> QED
  BY <1>4, <1>5 DEF Next

\* Control reaches them only by writing the result of the current transaction.
LEMMA ReportedFirst ==
  ASSUME CoreInv, [Next]_vars, pc' \in Reported
  PROVE  UNCHANGED vars \/ result'[cur'] # None
<1> USE DEF CoreInv
<1>0. None \notin Status
  BY DEF None, Status
<1>1. CASE WriteSuccess
  <2>1. cur \in Tx
    BY <1>1 DEF WriteSuccess, RecordInv, Busy, Trying
  <2>2. pc' = "commit" /\ result' = [result EXCEPT ![cur] = "success"] /\ cur' = cur
    BY <1>1, HandlerType DEF WriteSuccess, WriteResult, Raise, Reported
  <2> QED
    BY <2>1, <2>2 DEF TypeInv, TypeOK, None
<1>2. CASE \E o \in Outcomes : ReportFailure(o)
  <2>1. cur \in Tx
    BY <1>2, OutcomeFields DEF ReportFailure, RecordInv, Busy
  <2> QED
    BY <1>0, <1>2, <2>1, OutcomeFields
       DEF ReportFailure, WriteResult, Raise, TypeInv, TypeOK, Reported
<1>3. CASE Recovery
  BY <1>3 DEF Recovery, StartScan, RecoverDone, NothingToApply, RecoverNext, RecoverUnreadable,
              RecoverReject, RecoverRolledBack, RecoverFailed, WriteState, Raise, Reported
<1>4. CASE Restore
  BY <1>4 DEF Restore, RestoreStop, RestoreDestination, RestoreAdopted, RestoreStart,
              Systemctl, Raise, Restored, RestoreFailed, Reported
<1>5. CASE (\E o \in Outcomes : SettleFailure(o)) \/ PreserveStop
  BY <1>5 DEF SettleFailure, WriteState, PreserveStop, Raise, Reported
<1>6. CASE Import \/ Snapshot \/ Materialize \/ Populate \/ WriteStaged \/ Build \/ StopService
  BY <1>6, HandlerType DEF Import, Snapshot, Materialize, Populate, WriteStaged, Build,
       StopService, Systemctl, WriteState, Raise, Reported
<1>7. CASE WriteActivating \/ PrepareDestination \/ Activate \/ WriteActivated \/ StartService
           \/ HealthCheck \/ WriteCommitted
  BY <1>7, HandlerType DEF WriteActivating, PrepareDestination, Activate, WriteActivated,
       StartService, HealthCheck, WriteCommitted, Systemctl, WriteState, Raise, Reported
<1>8. CASE (\E p \in Package, t \in Tx : StartApply(p, t)) \/ (\E p \in Package : ReturnExisting(p))
  BY <1>8 DEF StartApply, ReturnExisting, Raise, Reported
<1>9. CASE Apply
  BY <1>1, <1>2, <1>5, <1>6, <1>7, <1>8, <1>9 DEF Apply
<1>10. CASE Crash
  BY <1>10 DEF Crash, Reported
<1> QED
  BY <1>3, <1>4, <1>9, <1>10 DEF Next, Scan

LEMMA ResultStep ==
  ASSUME CoreInv, ResultInv, [Next]_vars
  PROVE  ResultInv'
<1>1. (pc \in Reported => result[cur] # None)'
  BY ReportedFirst DEF ResultInv, vars, durable, process
<1>2. SettledHasResult'
  <2> SUFFICES ASSUME NEW t \in Tx, tx'[t].phase \in {"committed", "failed-preserved"}
               PROVE  result'[t] # None
    BY DEF SettledHasResult
  <2>1. CASE tx'[t].phase = tx[t].phase
    BY <2>1, ResultKept DEF ResultInv, SettledHasResult
  <2>2. CASE tx'[t].phase # tx[t].phase
    <3>1. t = cur /\ pc \in {"commit", "phase-preserved"}
      BY <2>2, PhaseChange
         DEF Writes, PhaseFrom, Busy, Silent, Trying, Restoring, Recovering, Reporting
    <3> QED
      BY <3>1, ResultKept DEF ResultInv, Reported
  <2> QED
    BY <2>1, <2>2
<1> QED
  BY <1>1, <1>2 DEF ResultInv, Reported

\* A committed or preserved transaction has reported its result (apply_package
\* writes the result file before the terminal phase).
THEOREM SettledIsReported == Spec => []SettledHasResult
<1>1. Init => ResultInv
  BY DEF Init, ResultInv, Reported, SettledHasResult, NoRecord, NoPhase
<1>2. CoreInv /\ ResultInv /\ [Next]_vars => ResultInv'
  BY ResultStep
<1>3. ResultInv => SettledHasResult
  BY DEF ResultInv
<1> QED
  BY <1>1, <1>2, <1>3, CoreInvariant, PTL DEF Spec

-----------------------------------------------------------------------------
(* The transition matrix.                                                  *)

\* Only a record that recovery declined to roll back, or that never left its first
\* phase, is about to be rejected.
LEMMA RejectStep ==
  ASSUME CoreInv, RejectInv, [Next]_vars
  PROVE  RejectInv'
<1> USE DEF CoreInv
<1>1. CASE \E t \in Tx : RecoverNext(t)
  BY <1>1 DEF RecoverNext, durable, RejectInv, TypeInv, TypeOK, MustRollBack
<1>2. CASE Import
  <2>1. pc = "import" /\ cur' = cur /\ tx[cur].phase = "verified"
    BY <1>2 DEF Import, RecordInv, Trying, PhaseAt
  <2>2. pc' # "recover-reject" /\ pc' # "phase-rejected"
    BY <1>2, HandlerType DEF Import, WriteState, Raise
  <2>3. pc' = "result-needs-full" => tx' = tx
    BY <1>2, HandlerType DEF Import, WriteState, Raise
  <2> QED
    BY <2>1, <2>2, <2>3 DEF RejectInv
<1>3. CASE \E o \in Outcomes : ReportFailure(o)
  <2> PICK o \in Outcomes : ReportFailure(o)
    BY <1>3
  <2>1. pc = o.at /\ pc' \in {o.then, "idle"} /\ UNCHANGED <<tx, cur>>
    BY DEF ReportFailure, WriteResult, Raise
  <2>2. pc' = "phase-rejected" => pc = "result-needs-full"
    BY <2>1 DEF Outcomes
  <2>3. pc' \notin {"result-needs-full", "recover-reject"}
    BY <2>1 DEF Outcomes
  <2> QED
    BY <2>1, <2>2, <2>3 DEF RejectInv
<1>4. CASE Recovery /\ ~ \E t \in Tx : RecoverNext(t)
  BY <1>4 DEF Recovery, StartScan, RecoverDone, NothingToApply, RecoverUnreadable, RecoverReject,
              RecoverRolledBack, RecoverFailed, WriteState, Raise, durable, RejectInv
<1>5. CASE Restore
  BY <1>5 DEF Restore, RestoreStop, RestoreDestination, RestoreAdopted, RestoreStart,
              Systemctl, Raise, Restored, RestoreFailed, RejectInv
<1>6. CASE (\E o \in Outcomes : SettleFailure(o)) \/ PreserveStop
  BY <1>6 DEF SettleFailure, WriteState, PreserveStop, Raise, RejectInv
<1>7. CASE Snapshot \/ Materialize \/ Populate \/ WriteStaged \/ Build \/ StopService
  BY <1>7, HandlerType DEF Snapshot, Materialize, Populate, WriteStaged, Build, StopService,
       Systemctl, WriteState, Raise, RejectInv
<1>8. CASE WriteActivating \/ PrepareDestination \/ Activate \/ WriteActivated \/ StartService
           \/ HealthCheck \/ WriteSuccess \/ WriteCommitted
  BY <1>8, HandlerType DEF WriteActivating, PrepareDestination, Activate, WriteActivated,
       StartService, HealthCheck, WriteSuccess, WriteCommitted, Systemctl, WriteState,
       WriteResult, Raise, RejectInv
<1>9. CASE (\E p \in Package, t \in Tx : StartApply(p, t)) \/ (\E p \in Package : ReturnExisting(p))
  BY <1>9 DEF StartApply, ReturnExisting, Raise, RejectInv
<1>10. CASE Apply
  BY <1>2, <1>3, <1>6, <1>7, <1>8, <1>9, <1>10 DEF Apply
<1>11. CASE Crash
  BY <1>11 DEF Crash, RejectInv
<1>12. CASE UNCHANGED vars
  BY <1>12 DEF vars, durable, process, RejectInv, MustRollBack
<1> QED
  BY <1>1, <1>4, <1>5, <1>10, <1>11, <1>12 DEF Next, Scan

\* Which terminal phases a handler may still find on disk: those whose write raised
\* after it had replaced the file (_write_state, core.atomic_write).
LEMMA TerminalStep ==
  ASSUME CoreInv, TerminalInv, [Next]_vars
  PROVE  TerminalInv'
<1> USE DEF CoreInv
<1>0. /\ \A c \in Trying : PhaseAt(c) \notin Terminal
      /\ pc \in Trying => tx[cur].phase \notin Terminal /\ cur \in Tx
      /\ pc \in RollingBack => tx[cur].phase \notin Terminal /\ cur \in Tx
  BY DEF RecordInv, PhaseAt, Trying, Terminal, Activation, Busy, RollingBack, Restoring,
         Recovering, Reporting
<1>1. CASE \E t \in Tx : RecoverNext(t)
  BY <1>1 DEF RecoverNext, durable, TerminalInv, RecordInv, Unfinished, Recovering
<1>2. CASE RecoverRolledBack
  <2>1. cur \in Tx /\ tx[cur].phase \notin Terminal
    BY <1>0, <1>2 DEF RecoverRolledBack, RollingBack
  <2>2. WriteState(mem, "rolled-back", "recover", "recover-failed") /\ cur' = cur
    BY <1>2 DEF RecoverRolledBack
  <2>3. pc' \in {"recover", "recover-failed"}
    BY <2>2 DEF WriteState, Raise
  <2>4. tx'[cur] = tx[cur] \/ tx'[cur].phase = "rolled-back"
    BY <2>1, <2>2 DEF WriteState, TypeInv, TypeOK, Record
  <2> QED
    BY <2>1, <2>2, <2>3, <2>4 DEF TerminalInv, Recovering, Reporting
<1>3. CASE RecoverReject \/ RecoverFailed \/ \E o \in Outcomes : SettleFailure(o)
  BY <1>3 DEF RecoverReject, RecoverFailed, SettleFailure, WriteState, Raise, TerminalInv,
              Recovering, Reporting
<1>4. CASE StartScan \/ RecoverDone \/ NothingToApply \/ \E t \in Tx : RecoverUnreadable(t)
  BY <1>4 DEF StartScan, RecoverDone, NothingToApply, RecoverUnreadable, TerminalInv,
              Recovering, Reporting
<1>5. CASE Restore
  <2>1. pc \in Restoring /\ UNCHANGED <<tx, cur>>
    BY <1>5 DEF Restore, RestoreStop, RestoreDestination, RestoreAdopted, RestoreStart, Restoring
  <2> QED
    BY <1>0, <2>1 DEF TerminalInv, RollingBack
<1>6. CASE WriteCommitted
  <2>1. pc \in Trying /\ cur' = cur
    BY <1>6 DEF WriteCommitted, Trying
  <2>2. pc' \in {"idle", "preserve-stop"}
    BY <1>6 DEF WriteCommitted, WriteState, Raise, Handler, MustRollBack, Activation
  <2>3. tx'[cur] = tx[cur] \/ tx'[cur].phase = "committed"
    BY <1>0, <1>6, <2>1 DEF WriteCommitted, WriteState, Raise, TypeInv, TypeOK, Record
  <2> QED
    BY <1>0, <2>1, <2>2, <2>3 DEF TerminalInv, Recovering, Reporting
<1>7. CASE Import \/ Snapshot \/ WriteStaged \/ Build \/ WriteActivating \/ WriteActivated \/ HealthCheck
  <2>1. pc \in Trying /\ cur' = cur
    BY <1>7 DEF Import, Snapshot, WriteStaged, Build, WriteActivating, WriteActivated,
                HealthCheck, Trying
  <2>2. pc # "commit" /\ pc # "choose"
    BY <1>7 DEF Import, Snapshot, WriteStaged, Build, WriteActivating, WriteActivated, HealthCheck
  <2>3. tx'[cur] = tx[cur] \/ tx'[cur].phase \notin Terminal
    <3>1. CASE Writes
      <4>1. PhaseFrom(pc) \notin Terminal
        BY <2>1, <2>2, <3>1 DEF Writes, PhaseFrom, Trying, Silent, Terminal
      <4> QED
        BY <3>1, <4>1 DEF Writes
    <3>2. CASE UNCHANGED tx
      BY <3>2
    <3> QED
      BY <2>2, <3>1, <3>2, RecordChange DEF StartApply
  <2> QED
    BY <1>0, <2>1, <2>3 DEF TerminalInv
<1>8. CASE Materialize \/ Populate \/ StopService \/ PrepareDestination \/ Activate
           \/ StartService \/ WriteSuccess
  <2>1. pc \in Trying /\ UNCHANGED <<tx, cur>>
    BY <1>8 DEF Materialize, Populate, StopService, PrepareDestination, Activate, StartService,
                WriteSuccess, Trying
  <2> QED
    BY <1>0, <2>1 DEF TerminalInv
<1>9. CASE PreserveStop \/ \E o \in Outcomes : ReportFailure(o)
  <2>1. UNCHANGED <<tx, cur>>
    BY <1>9 DEF PreserveStop, ReportFailure
  <2>2. \/ pc = "preserve-stop" /\ pc' = "result-preserved"
        \/ \E o \in Outcomes : pc = o.at /\ pc' \in {o.then, "idle"}
    BY <1>9 DEF PreserveStop, ReportFailure, WriteResult, Raise
  <2> QED
    BY <2>1, <2>2 DEF TerminalInv, Outcomes, Recovering, Reporting
<1>10. CASE (\E p \in Package, t \in Tx : StartApply(p, t)) \/ (\E p \in Package : ReturnExisting(p))
  BY <1>10 DEF StartApply, ReturnExisting, Raise, TerminalInv, Recovering, Reporting
<1>11. CASE Crash
  BY <1>11 DEF Crash, TerminalInv, Recovering, Reporting
<1>12. CASE UNCHANGED vars
  BY <1>12 DEF vars, durable, process, TerminalInv
<1> QED
  BY <1>1, <1>2, <1>3, <1>4, <1>5, <1>6, <1>7, <1>8, <1>9, <1>10, <1>11, <1>12
     DEF Next, Scan, Recovery, Apply

\* From the activation on, a record moves on only as the matrix of domain/policies.py
\* allows or by one of the three steps of Departs, whatever raises or crashes
\* (_write_state of the engine).
THEOREM MatrixIsFollowed == Spec => PhasesFollowMatrix
<1>1. Init => RejectInv /\ TerminalInv
  BY DEF Init, RejectInv, TerminalInv, Recovering, Reporting
<1>2. CoreInv /\ RejectInv /\ TerminalInv /\ [Next]_vars => RejectInv' /\ TerminalInv'
  BY RejectStep, TerminalStep
<1>3. CoreInv /\ RejectInv /\ TerminalInv /\ [Next]_vars =>
        [\A t \in Tx : /\ tx[t].phase \in Activation \cup Terminal
                       /\ tx'[t].phase # tx[t].phase
                       => Departs(t) \/ tx'[t].phase \in Allowed(tx[t].phase)]_vars
  <2> SUFFICES ASSUME CoreInv, RejectInv, TerminalInv, [Next]_vars, NEW t \in Tx,
                      tx[t].phase \in Activation \cup Terminal, tx'[t].phase # tx[t].phase
               PROVE  Departs(t) \/ tx'[t].phase \in Allowed(tx[t].phase)
    OBVIOUS
  <2>1. Writes /\ t = cur /\ tx'[t].phase = PhaseFrom(pc)
    BY PhaseChange DEF Activation, Terminal, NoPhase
  <2>2. pc # "phase-rejected"
    BY <2>1 DEF RejectInv, Activation, Terminal
  <2>3. CASE pc \in Trying
    <3>1. tx[t].phase = PhaseAt(pc)
      BY <2>1, <2>3 DEF CoreInv, RecordInv
    <3>2. pc \in {"write-activated", "health", "commit"}
      BY <2>1, <2>3, <3>1 DEF Writes, PhaseAt, Activation, Terminal, Trying, Silent
    <3> QED
      BY <2>1, <3>1, <3>2 DEF PhaseAt, PhaseFrom, Allowed, ActivationNext, Activation, Working
  <2>4. CASE pc \notin Trying /\ tx[t].phase \in Activation
    <3>1. CASE pc = "recover-reject"
      BY <2>1, <2>4, <3>1 DEF RejectInv, MustRollBack, Departs, PhaseFrom
    <3>2. CASE pc # "recover-reject"
      <4>1. PhaseFrom(pc) \in {"rolled-back", "failed-preserved", "recovery-failed"}
        BY <2>1, <2>2, <2>4, <3>2
           DEF Writes, PhaseFrom, Busy, Silent, Restoring, Recovering, Reporting
      <4>2. \A c \in Activation :
              {"rolled-back", "failed-preserved", "recovery-failed"} \subseteq Allowed(c)
        BY DEF Allowed, ActivationNext, Activation, Working
      <4> QED
        BY <2>1, <2>4, <4>1, <4>2
    <3> QED
      BY <3>1, <3>2
  <2>5. CASE pc \notin Trying /\ tx[t].phase \in Terminal
    <3>1. pc \in (Recovering \cup Reporting) \ Silent
      BY <2>1, <2>5 DEF Writes, Busy, Silent
    <3>2. \/ tx[t].phase = "committed" /\ pc = "phase-preserved"
          \/ tx[t].phase = "rolled-back" /\ pc = "recover-failed"
      BY <2>1, <2>5, <3>1 DEF TerminalInv, Silent
    <3> QED
      BY <2>1, <3>2 DEF Departs, PhaseFrom
  <2> QED
    BY <2>3, <2>4, <2>5
<1> QED
  BY <1>1, <1>2, <1>3, CoreInvariant, PTL DEF Spec, PhasesFollowMatrix

-----------------------------------------------------------------------------
(* Rollback, as long as every record could be read.                        *)

\* The count of the records a scan could not read only grows (recover_transactions
\* 505-506).
LEMMA UnreadableGrows ==
  ASSUME TypeOK, [Next]_vars, unreadable' = 0
  PROVE  unreadable = 0
<1>1. CASE Recovery
  BY <1>1 DEF Recovery, StartScan, RecoverDone, NothingToApply, RecoverNext, RecoverUnreadable,
     RecoverReject, RecoverRolledBack, RecoverFailed, TypeOK, counters
<1>2. CASE Restore
  BY <1>2 DEF Restore, RestoreStop, RestoreDestination, RestoreAdopted, RestoreStart
<1>3. CASE Apply
  BY <1>3 DEF Apply, ReturnExisting, StartApply, Import, Snapshot, Materialize, Populate,
     WriteStaged, Build, StopService, WriteActivating, PrepareDestination, Activate,
     WriteActivated, StartService, HealthCheck, WriteSuccess, WriteCommitted, PreserveStop,
     ReportFailure, SettleFailure, counters
<1>4. CASE Crash
  BY <1>4 DEF Crash
<1>5. CASE UNCHANGED vars
  BY <1>5 DEF vars, counters
<1> QED
  BY <1>1, <1>2, <1>3, <1>4, <1>5 DEF Next, Scan

\* No step of a transaction loses the way back to the old contents: what each action
\* does to the records, the destination and the control point (_prepare_destination_
\* for_activation, _activate, _restore_previous, recover_transactions).
LEMMA RollbackStep ==
  ASSUME unreadable' = 0, CoreInv, OriginalInv, RollbackInv, [Next]_vars
  PROVE  RollbackInv'
<1> USE DEF CoreInv
<1>0. /\ None \notin Link /\ Absent \notin Link /\ Original \notin Link
      /\ None \notin Tx /\ Absent # Original
  BY NamesAssumption DEF Link, None, Absent, Original, External
\* A step that leaves the records, the destination and the adopted path alone.
<1>1. ASSUME \A t \in Tx : tx'[t] = tx[t], UNCHANGED <<dest, aside, before>>,
             pc' \notin BroughtBack \cup {"restore-adopted"},
             \A t \in Tx : Unfinished(t) /\ pc' # "idle" =>
               (recovering' /\ t \in todo') \/ (pc' \in Busy /\ t = cur')
      PROVE  RollbackInv'
  <2>1. \A t \in Tx : /\ Unfinished(t)' = Unfinished(t) /\ Undoable(t)' = Undoable(t)
                      /\ Remembers(t)' = Remembers(t)
    BY <1>1 DEF Unfinished, Undoable, Remembers
  <2>2. AtMostOneUnfinished'
    BY <2>1 DEF RollbackInv, AtMostOneUnfinished
  <2>3. \A t \in Tx : Unfinished(t)' => UnfinishedInv(t)'
    BY <1>1, <2>1 DEF RollbackInv, UnfinishedInv
  <2> QED
    BY <1>1, <2>2, <2>3 DEF RollbackInv, BroughtBack
\* A step in the middle of a transaction that leaves them alone.
<1>2. ASSUME UNCHANGED <<tx, dest, aside, before, cur, recovering, todo>>, pc \in Busy,
             pc' \in Busy \cup {"idle"}, pc' \notin BroughtBack \cup {"restore-adopted"}
      PROVE  RollbackInv'
  <2>1. \A t \in Tx : Unfinished(t) => (recovering /\ t \in todo) \/ t = cur
    BY <1>2 DEF RollbackInv, UnfinishedInv, Busy, Trying, Restoring, Recovering, Reporting
  <2> QED
    BY <1>1, <1>2, <2>1
<1>3. CASE Writes
  <2>0. cur' = cur
    BY <1>3 DEF Writes
  <2>1. cur \in Tx /\ pc # "idle"
    BY <1>3 DEF Writes, RecordInv, Busy, Trying, Restoring, Recovering, Reporting
  <2>2. \A t \in Tx \ {cur} : /\ Unfinished(t)' = Unfinished(t) /\ Undoable(t)' = Undoable(t)
                              /\ Remembers(t)' = Remembers(t)
    BY <1>3 DEF Writes, Unfinished, Undoable, Remembers
  <2>3. pc' # "idle" => \A t \in Tx : Unfinished(t)' => (recovering' /\ t \in todo') \/ (pc' \in Busy /\ t = cur')
    <3>1. \A t \in Tx \ {cur} : Unfinished(t) => recovering /\ t \in todo
      BY <2>1 DEF RollbackInv, UnfinishedInv
    <3>2. pc' = "recover" => ~Unfinished(cur)'
      <4> HAVE pc' = "recover"
      <4>1. pc \in Recovering /\ tx'[cur] = mem' /\ mem'.phase = PhaseFrom(pc)
        BY <1>3 DEF Writes, Trying
      <4>2. PhaseFrom(pc) \in Terminal
        BY <4>1 DEF PhaseFrom, Recovering, Terminal
      <4> QED
        BY <2>0, <4>1, <4>2 DEF Unfinished
    <3> QED
      BY <1>3, <2>2, <3>1, <3>2
         DEF Writes, Busy, Trying, Restoring, Recovering, Reporting
  <2>4. pc' \notin BroughtBack \cup {"restore-adopted"}
    BY <1>3 DEF Writes, BroughtBack, Trying
  <2>5. CASE tx'[cur] = tx[cur]
    <3>1. \A t \in Tx : tx'[t] = tx[t]
      BY <1>3, <2>5 DEF Writes
    <3>2. \A t \in Tx : Unfinished(t)' = Unfinished(t)
      BY <3>1 DEF Unfinished
    <3> QED
      BY <1>1, <1>3, <2>3, <2>4, <3>1, <3>2 DEF Writes
  <2>6. CASE tx'[cur] = mem' /\ PhaseFrom(pc) \in Terminal
    <3>1. ~Unfinished(cur)'
      BY <1>3, <2>6 DEF Writes, Unfinished
    <3>2. AtMostOneUnfinished'
      <4>1. \A t \in Tx : Unfinished(t)' => t # cur /\ Unfinished(t)
        BY <2>0, <2>2, <3>1
      <4> QED
        BY <4>1 DEF RollbackInv, AtMostOneUnfinished
    <3>3. \A t \in Tx : Unfinished(t)' => UnfinishedInv(t)'
      <4> SUFFICES ASSUME NEW t \in Tx, Unfinished(t)' PROVE UnfinishedInv(t)'
        OBVIOUS
      <4>1. t # cur /\ Unfinished(t) /\ UnfinishedInv(t) /\ tx'[t] = tx[t]
        BY <1>3, <2>2, <3>1 DEF RollbackInv, Writes
      <4> QED
        BY <1>3, <2>2, <2>3, <4>1 DEF UnfinishedInv, Writes
    <3> QED
      BY <2>4, <3>2, <3>3 DEF RollbackInv, BroughtBack
  <2>7. CASE tx'[cur] = mem' /\ PhaseFrom(pc) \notin Terminal
    <3>1. pc \in Trying /\ pc \notin Silent /\ pc # "commit"
      BY <1>3, <2>7
         DEF Writes, PhaseFrom, Terminal, Busy, Silent, Trying, Restoring, Recovering, Reporting
    <3>2. tx[cur] = mem /\ mem.phase = PhaseAt(pc)
      BY <3>1 DEF RecordInv
    <3>3. Unfinished(cur)
      BY <3>1, <3>2 DEF Unfinished, PhaseAt, Terminal, NoPhase, Trying, Silent
    <3>4. UnfinishedInv(cur)
      BY <2>1, <3>3 DEF RollbackInv
    <3>5. tx'[cur].phase = PhaseFrom(pc) /\ SameOrigin(tx'[cur], Saved)
      BY <1>3, <2>7 DEF Writes
    <3>6. pc # "import" => Remembers(cur)'
      <4> HAVE pc # "import"
      <4>2. CASE pc = "snapshot"
        <5>1. dest = before[cur]
          BY <3>2, <3>4, <4>2 DEF UnfinishedInv, PhaseAt, Working, Trying
        <5>2. /\ Saved.previous = IF dest \in Link THEN dest ELSE None
              /\ Saved.adopted <=> dest = Original
          BY <4>2 DEF Saved, Snapshotted, TypeInv, TypeOK, Record
        <5> QED
          BY <1>3, <3>5, <5>1, <5>2 DEF Remembers, Writes, SameOrigin
      <4>3. CASE pc \notin {"import", "snapshot"}
        <5>1. Remembers(cur)
          BY <3>1, <3>2, <3>4, <4>3 DEF UnfinishedInv, PhaseAt, Trying, Silent
        <5> QED
          BY <1>3, <3>2, <3>5, <4>3, <5>1 DEF Remembers, Writes, SameOrigin, Saved
      <4> QED
        BY <4>2, <4>3
    <3>7. Undoable(cur)'
      BY <1>3, <3>4 DEF UnfinishedInv, Undoable, Writes
    <3>8. tx'[cur].phase \in Working => dest' = before'[cur] /\ aside' # cur'
      <4>1. PhaseFrom(pc) \in Working => mem.phase \in Working
        BY <3>1, <3>2 DEF PhaseFrom, PhaseAt, Working, Trying, Silent
      <4> QED
        BY <1>3, <3>2, <3>4, <3>5, <4>1 DEF UnfinishedInv, Writes
    <3>9. tx'[cur].phase \notin {"verified", "imported"} => pc # "import"
      BY <3>5 DEF PhaseFrom
    <3>10. UnfinishedInv(cur)' \/ ~Unfinished(cur)'
      BY <1>3, <2>1, <2>3, <3>6, <3>7, <3>8, <3>9 DEF UnfinishedInv, Writes
    <3>11. \A t \in Tx : Unfinished(t)' => UnfinishedInv(t)'
      <4> SUFFICES ASSUME NEW t \in Tx, Unfinished(t)' PROVE UnfinishedInv(t)'
        OBVIOUS
      <4>1. CASE t = cur
        BY <2>0, <3>10, <4>1 DEF Unfinished, UnfinishedInv, Undoable, Remembers
      <4>2. CASE t # cur
        <5>1. Unfinished(t) /\ UnfinishedInv(t) /\ tx'[t] = tx[t]
          BY <1>3, <2>2, <4>2 DEF RollbackInv, Writes
        <5> QED
          BY <1>3, <2>2, <2>3, <4>2, <5>1 DEF UnfinishedInv, Writes
      <4> QED
        BY <4>1, <4>2
    <3>12. AtMostOneUnfinished'
      BY <2>2, <3>3 DEF RollbackInv, AtMostOneUnfinished
    <3> QED
      BY <2>4, <3>11, <3>12 DEF RollbackInv, BroughtBack
  <2>8. tx'[cur] = tx[cur] \/ tx'[cur] = mem'
    BY <1>3 DEF Writes
  <2> QED
    BY <2>5, <2>6, <2>7, <2>8
<1>4. CASE StartScan
  <2>1. /\ UNCHANGED <<tx, dest, aside, before>> /\ pc' = "recover" /\ recovering' = TRUE
        /\ todo' = {t \in Tx : Unfinished(t)}
    BY <1>4 DEF StartScan, Recoverable, durable
  <2> QED
    BY <1>1, <2>1 DEF BroughtBack
<1>5. CASE RecoverDone
  <2>1. /\ UNCHANGED <<tx, dest, aside, before>> /\ pc' = "choose" /\ pc = "recover" /\ todo = {}
    BY <1>5 DEF RecoverDone, durable
  <2>2. \A t \in Tx : ~Unfinished(t)
    BY <2>1 DEF RollbackInv, UnfinishedInv, Busy, Trying, Restoring, Recovering, Reporting
  <2> QED
    BY <1>1, <2>1, <2>2 DEF BroughtBack
<1>6. CASE NothingToApply \/ \E p \in Package : ReturnExisting(p)
  <2>1. UNCHANGED <<tx, dest, aside, before>> /\ pc' = "idle"
    BY <1>6 DEF NothingToApply, ReturnExisting, durable
  <2> QED
    BY <1>1, <2>1 DEF BroughtBack
<1>7. CASE \E t \in Tx : RecoverNext(t)
  <2> PICK t \in Tx : RecoverNext(t)
    BY <1>7
  <2>1. /\ UNCHANGED <<tx, dest, aside, before, recovering>> /\ pc = "recover"
        /\ pc' \in {"restore-stop", "recover-reject"} /\ cur' = t /\ todo' = todo \ {t}
    BY DEF RecoverNext, durable
  <2>2. \A u \in Tx : Unfinished(u) => recovering /\ u \in todo
    BY <2>1 DEF RollbackInv, UnfinishedInv, Busy, Trying, Restoring, Recovering, Reporting
  <2>3. \A u \in Tx : Unfinished(u) => (recovering' /\ u \in todo') \/ (pc' \in Busy /\ u = cur')
    BY <2>1, <2>2 DEF Busy, Restoring, Recovering
  <2> QED
    BY <1>1, <2>1, <2>3 DEF BroughtBack
<1>8. ~ \E t \in Tx : RecoverUnreadable(t)
  BY DEF RecoverUnreadable, TypeInv, TypeOK
<1>9. CASE \E p \in Package, t \in Tx : StartApply(p, t)
  <2> PICK p \in Package, t \in Tx : StartApply(p, t)
    BY <1>9
  <2> DEFINE state == [NoRecord EXCEPT !.phase = "verified", !.pkg = p]
  <2>1. pc = "choose" /\ ~recovering /\ tx[t].phase = NoPhase
    BY DEF StartApply, RecordInv
  <2>2. \A u \in Tx : ~Unfinished(u)
    BY <2>1 DEF RollbackInv, UnfinishedInv, Busy, Trying, Restoring, Recovering, Reporting
  <2>3. /\ UNCHANGED <<dest, aside>> /\ cur' = t
        /\ pc' \in {"import", "idle"}
        /\ before'[t] = dest
        /\ \A u \in Tx \ {t} : tx'[u] = tx[u]
        /\ tx'[t] \in {tx[t], state}
    BY DEF StartApply, Raise, TypeInv, TypeOK
  <2>4. state.phase = "verified"
    BY DEF NoRecord
  <2>5. \A u \in Tx : Unfinished(u)' => u = t /\ tx'[t] = state
    BY <2>2, <2>3 DEF Unfinished
  <2>6. aside # t
    BY <2>1 DEF OriginalInv, RecordInv, NothingSaved
  <2>7. Undoable(t)'
    BY <1>0, <2>3, <2>6 DEF Undoable
  <2>8. pc' \in Busy \/ pc' = "idle"
    BY <2>3 DEF Busy, Trying
  <2> HIDE DEF state
  <2>9. Unfinished(t)' => UnfinishedInv(t)'
    BY <2>3, <2>4, <2>5, <2>6, <2>7, <2>8 DEF UnfinishedInv
  <2> QED
    BY <2>3, <2>5, <2>9 DEF RollbackInv, AtMostOneUnfinished, BroughtBack
<1>10. CASE RestoreStop
  <2>1. pc' \in {"restore", "recover-failed", "result-recovery-failed"} /\ pc \in Busy
    BY <1>10 DEF RestoreStop, Systemctl, Raise, RestoreFailed, Busy, Restoring
  <2> QED
    BY <1>2, <1>10, <2>1 DEF RestoreStop, BroughtBack, Busy, Restoring, Recovering, Reporting
<1>11. CASE RestoreStart
  <2>1. /\ pc = "restore-start"
        /\ pc' \in {"recover-rolled-back", "result-rolled-back", "recover-failed", "result-recovery-failed"}
        /\ UNCHANGED <<tx, dest, aside, before, cur, recovering, todo>>
    BY <1>11 DEF RestoreStart, Systemctl, Raise, Restored, RestoreFailed
  <2>2. dest = before[cur]
    BY <2>1 DEF RollbackInv, BroughtBack
  <2>3. \A t \in Tx : /\ Unfinished(t)' = Unfinished(t) /\ Undoable(t)' = Undoable(t)
                      /\ Remembers(t)' = Remembers(t)
    BY <2>1 DEF Unfinished, Undoable, Remembers
  <2>4. \A t \in Tx : Unfinished(t)' => UnfinishedInv(t)'
    BY <2>1, <2>3 DEF RollbackInv, UnfinishedInv, Busy, Recovering, Reporting, Restoring
  <2>5. AtMostOneUnfinished'
    BY <2>3 DEF RollbackInv, AtMostOneUnfinished
  <2> QED
    BY <2>1, <2>2, <2>4, <2>5 DEF RollbackInv
\* A step of the current transaction that moves its destination or its original.
<1>12. ASSUME pc \in Busy, pc' \in Busy, cur \in Tx, Unfinished(cur),
              UNCHANGED <<tx, before, cur, recovering, todo>>,
              Undoable(cur)',
              tx[cur].phase \in Working => dest' = before[cur] /\ aside' # cur,
              (pc = "restore-adopted" =>
                 mem.previous = None /\ mem.adopted /\ aside = cur /\ dest = Absent)',
              pc' \in BroughtBack => dest' = before[cur]
       PROVE  RollbackInv'
  <2>1. \A t \in Tx : Unfinished(t)' = Unfinished(t) /\ Remembers(t)' = Remembers(t)
    BY <1>12 DEF Unfinished, Remembers
  <2>2. \A t \in Tx : Unfinished(t) => t = cur
    BY <1>12 DEF RollbackInv, AtMostOneUnfinished
  <2>3. UnfinishedInv(cur)
    BY <1>12 DEF RollbackInv
  <2>4. UnfinishedInv(cur)'
    BY <1>12, <2>1, <2>3 DEF UnfinishedInv
  <2>5. \A t \in Tx : Unfinished(t)' => UnfinishedInv(t)'
    <3> SUFFICES ASSUME NEW t \in Tx, Unfinished(t)' PROVE UnfinishedInv(t)'
      OBVIOUS
    <3>1. t = cur /\ cur' = cur
      BY <1>12, <2>1, <2>2
    <3> QED
      BY <2>4, <3>1 DEF UnfinishedInv, Undoable, Remembers
  <2>6. AtMostOneUnfinished'
    BY <2>1, <2>2 DEF AtMostOneUnfinished
  <2> QED
    BY <1>12, <2>5, <2>6 DEF RollbackInv
\* On the way back the record remembers the old contents.
<1>13. ASSUME pc \in RollingBack
       PROVE  /\ cur \in Tx /\ Unfinished(cur) /\ Undoable(cur)
              /\ tx[cur].phase \in Working => dest = before[cur] /\ aside # cur
              /\ mem.previous = IF before[cur] \in Link THEN before[cur] ELSE None
              /\ mem.adopted <=> before[cur] = Original
  <2>1. cur \in Tx /\ tx[cur].phase \in Activation \cup {"built"} /\ SameOrigin(tx[cur], mem)
    BY <1>13 DEF RollingBack, RecordInv, Busy, Restoring, Recovering, Reporting
  <2>2. Unfinished(cur) /\ tx[cur].phase \notin {"verified", "imported"}
    BY <2>1 DEF Unfinished, Activation, Terminal, NoPhase
  <2>3. UnfinishedInv(cur)
    BY <2>1, <2>2 DEF RollbackInv
  <2> QED
    BY <2>1, <2>2, <2>3 DEF UnfinishedInv, Remembers, SameOrigin
<1>14. CASE RestoreDestination
  <2>1. /\ pc = "restore" /\ UNCHANGED <<aside, mem, tx, before, cur, recovering, todo>>
        /\ pc' \in {"restore-start", "restore-adopted", "recover-failed", "result-recovery-failed"}
    BY <1>14 DEF RestoreDestination, Raise, RestoreFailed
  <2>2. /\ cur \in Tx /\ Unfinished(cur) /\ Undoable(cur)
        /\ tx[cur].phase \in Working => dest = before[cur] /\ aside # cur
        /\ mem.previous = IF before[cur] \in Link THEN before[cur] ELSE None
        /\ mem.adopted <=> before[cur] = Original
    BY <1>13, <2>1 DEF RollingBack, Restoring
  <2>3. before[cur] \in Link \cup {Absent, Original}
    BY <2>2 DEF TypeInv, TypeOK, Destination
  <2>4. pc \in Busy /\ pc' \in Busy
    BY <2>1 DEF Busy, Restoring, Recovering, Reporting
  <2>5. CASE dest' = before[cur] /\ pc' = "restore-start" /\ (mem.adopted => aside # cur)
    <3>1. Undoable(cur)'
      BY <1>0, <2>1, <2>2, <2>5 DEF Undoable
    <3> QED
      BY <1>12, <2>1, <2>2, <2>4, <2>5, <3>1
  <2>6. CASE dest' = Absent /\ pc' = "restore-adopted" /\ mem.previous = None /\ mem.adopted /\ aside = cur
    <3>1. Undoable(cur)'
      BY <1>0, <2>1, <2>2, <2>6 DEF Undoable
    <3> QED
      BY <1>12, <2>1, <2>2, <2>4, <2>6, <3>1 DEF BroughtBack
  <2>7. CASE dest' = dest /\ pc' \in {"recover-failed", "result-recovery-failed"}
    <3>1. Undoable(cur)'
      BY <2>1, <2>2, <2>7 DEF Undoable
    <3> QED
      BY <1>12, <2>1, <2>2, <2>4, <2>7, <3>1 DEF BroughtBack
  <2>8. CASE mem.previous # None /\ dest' = mem.previous /\ pc' = "restore-start"
    <3>1. before[cur] \in Link /\ dest' = before[cur]
      BY <2>2, <2>8
    <3>2. ~mem.adopted
      BY <1>0, <2>2, <3>1
    <3> QED
      BY <2>5, <2>8, <3>1, <3>2
  <2>9. CASE mem.adopted /\ aside # cur /\ dest' = dest /\ pc' = "restore-start"
    <3>1. dest = Original /\ before[cur] = Original
      BY <2>2, <2>9 DEF Undoable
    <3> QED
      BY <2>5, <2>9, <3>1
  <2>10. CASE mem.previous = None /\ ~mem.adopted /\ dest' = (IF dest \in Link THEN Absent ELSE dest)
              /\ pc' = "restore-start"
    <3>1. before[cur] \notin Link
      BY <1>0, <2>2, <2>10
    <3>2. before[cur] = Absent
      BY <2>2, <2>3, <2>10, <3>1
    <3>3. dest' = Absent
      BY <2>2, <2>10, <3>2 DEF Undoable
    <3> QED
      BY <2>5, <2>10, <3>2, <3>3
  <2> QED
    BY <1>14, <2>6, <2>7, <2>8, <2>9, <2>10
       DEF RestoreDestination, AdoptedExists, Raise, RestoreFailed
<1>15. CASE RestoreAdopted
  <2>1. /\ pc = "restore-adopted" /\ UNCHANGED <<mem, tx, before, cur, recovering, todo>>
        /\ \/ dest' = Original /\ aside' = None /\ pc' = "restore-start"
           \/ UNCHANGED <<dest, aside>> /\ pc' \in {"recover-failed", "result-recovery-failed"}
    BY <1>15 DEF RestoreAdopted, Raise, RestoreFailed
  <2>2. /\ cur \in Tx /\ Unfinished(cur) /\ Undoable(cur)
        /\ tx[cur].phase \in Working => dest = before[cur] /\ aside # cur
        /\ mem.adopted <=> before[cur] = Original
    BY <1>13, <2>1 DEF RollingBack, Restoring
  <2>3. mem.adopted /\ aside = cur
    BY <2>1 DEF RollbackInv
  <2>4. pc \in Busy /\ pc' \in Busy
    BY <2>1 DEF Busy, Restoring, Recovering, Reporting
  <2>5. Undoable(cur)'
    BY <1>0, <2>1, <2>2, <2>3 DEF Undoable
  <2> QED
    BY <1>12, <2>1, <2>2, <2>3, <2>4, <2>5 DEF BroughtBack
\* In the try block the record is the one in memory.
<1>16. ASSUME pc \in {"prepare", "activate"}
       PROVE  /\ cur \in Tx /\ Unfinished(cur) /\ Undoable(cur) /\ tx[cur].phase \notin Working
              /\ mem.adopted <=> before[cur] = Original
  <2>1. cur \in Tx /\ tx[cur] = mem /\ mem.phase = "activating"
    BY <1>16 DEF RecordInv, Busy, Trying, PhaseAt
  <2>2. Unfinished(cur) /\ tx[cur].phase \notin Working \cup {"verified", "imported"}
    BY <2>1 DEF Unfinished, Working, Terminal, NoPhase
  <2>3. UnfinishedInv(cur)
    BY <2>1, <2>2 DEF RollbackInv
  <2> QED
    BY <2>1, <2>2, <2>3 DEF UnfinishedInv, Remembers
<1>17. CASE PrepareDestination
  <2>1. /\ pc = "prepare" /\ UNCHANGED <<mem, tx, before, cur, recovering, todo>>
        /\ pc' \in {"activate", "restore-stop", "preserve-stop"}
        /\ \/ mem.adopted /\ dest' = Absent /\ aside' = cur
           \/ UNCHANGED <<dest, aside>>
    BY <1>17, HandlerType DEF PrepareDestination, Raise
  <2>2. pc \in Busy /\ pc' \in Busy
    BY <2>1 DEF Busy, Trying, Restoring, Reporting
  <2>3. Undoable(cur)'
    BY <1>0, <1>16, <2>1 DEF Undoable
  <2> QED
    BY <1>12, <1>16, <2>1, <2>2, <2>3 DEF BroughtBack
<1>18. CASE Activate
  <2>1. /\ pc = "activate" /\ UNCHANGED <<aside, mem, tx, before, cur, recovering, todo>>
        /\ pc' \in {"write-activated", "restore-stop", "preserve-stop"}
        /\ \/ dest # Original /\ dest' = CommitOf[mem.pkg]
           \/ UNCHANGED dest
    BY <1>18, HandlerType DEF Activate, Raise
  <2>2. pc \in Busy /\ pc' \in Busy
    BY <2>1 DEF Busy, Trying, Restoring, Reporting
  <2>3. CommitOf[mem.pkg] \in Link
    BY <2>1, PackageAssumption DEF TypeInv, PackageKnown, Trying, Link
  <2>4. Undoable(cur)'
    BY <1>0, <1>16, <2>1, <2>3 DEF Undoable
  <2> QED
    BY <1>12, <1>16, <2>1, <2>2, <2>4 DEF BroughtBack
<1>19. CASE \E o \in Outcomes : ReportFailure(o)
  <2>1. /\ UNCHANGED <<tx, dest, aside, before, cur, recovering, todo>> /\ pc \in Busy
        /\ pc' \in Busy \cup {"idle"} /\ pc' # "restore-adopted"
        /\ pc' \in BroughtBack => pc \in BroughtBack
    BY <1>19, OutcomeFields
       DEF ReportFailure, WriteResult, Raise, Outcomes, Busy, Reporting, BroughtBack
  <2>2. \A t \in Tx : /\ Unfinished(t)' = Unfinished(t) /\ Undoable(t)' = Undoable(t)
                      /\ Remembers(t)' = Remembers(t)
    BY <2>1 DEF Unfinished, Undoable, Remembers
  <2>3. \A t \in Tx : Unfinished(t)' => UnfinishedInv(t)'
    BY <2>1, <2>2 DEF RollbackInv, UnfinishedInv, Busy, Trying, Restoring, Recovering, Reporting
  <2>4. AtMostOneUnfinished'
    BY <2>2 DEF RollbackInv, AtMostOneUnfinished
  <2> QED
    BY <2>1, <2>3, <2>4 DEF RollbackInv
<1>20. CASE UNCHANGED tx /\ (Import \/ Snapshot \/ Materialize \/ Populate \/ WriteStaged)
  <2>1. pc \in Busy /\ pc' \in Busy \ (BroughtBack \cup {"restore-adopted"})
    BY <1>20, HandlerType DEF Import, Snapshot, Materialize, Populate, WriteStaged, WriteState,
       Raise, Busy, Trying, Restoring, Reporting, BroughtBack
  <2> QED
    BY <1>2, <1>20, <2>1 DEF Import, Snapshot, Materialize, Populate, WriteStaged
<1>21. CASE UNCHANGED tx /\ (Build \/ StopService \/ WriteActivating \/ WriteActivated \/ StartService)
  <2>1. pc \in Busy /\ pc' \in Busy \ (BroughtBack \cup {"restore-adopted"})
    BY <1>21, HandlerType DEF Build, StopService, WriteActivating, WriteActivated, StartService,
       WriteState, Systemctl, Raise, Busy, Trying, Restoring, Reporting, BroughtBack
  <2> QED
    BY <1>2, <1>21, <2>1 DEF Build, StopService, WriteActivating, WriteActivated, StartService
<1>22. CASE UNCHANGED tx /\ (HealthCheck \/ WriteSuccess \/ WriteCommitted \/ PreserveStop)
  <2>1. pc \in Busy /\ pc' \in (Busy \cup {"idle"}) \ (BroughtBack \cup {"restore-adopted"})
    BY <1>22, HandlerType DEF HealthCheck, WriteSuccess, WriteCommitted, PreserveStop, WriteState,
       WriteResult, Raise, Busy, Trying, Restoring, Reporting, BroughtBack
  <2> QED
    BY <1>2, <1>22, <2>1 DEF HealthCheck, WriteSuccess, WriteCommitted, PreserveStop
<1>23. CASE (\E o \in Outcomes : SettleFailure(o)) /\ UNCHANGED tx
  <2>1. pc \in Busy /\ pc' = "idle"
    BY <1>23, OutcomeFields DEF SettleFailure, WriteState, Raise, Busy
  <2> QED
    BY <1>2, <1>23, <2>1 DEF SettleFailure, BroughtBack
<1>24. CASE RecoverReject \/ RecoverRolledBack \/ RecoverFailed
  <2>0. mem \in Record /\ {"rejected", "rolled-back", "recovery-failed"} \subseteq Phase
    BY DEF TypeInv, TypeOK, Phase, Terminal
  <2>1. CASE RecoverReject
    BY <1>3, <2>0, <2>1, WritesIntro DEF RecoverReject, PhaseFrom, Saved, Busy, Recovering, Silent, Restoring
  <2>2. CASE RecoverRolledBack
    BY <1>3, <2>0, <2>2, WritesIntro DEF RecoverRolledBack, PhaseFrom, Saved, Busy, Recovering, Silent, Restoring
  <2>3. CASE RecoverFailed
    BY <1>3, <2>0, <2>3, WritesIntro DEF RecoverFailed, PhaseFrom, Saved, Busy, Recovering, Silent, Restoring
  <2> QED
    BY <1>24, <2>1, <2>2, <2>3
<1>25. CASE Crash
  <2>1. UNCHANGED <<tx, dest, aside, before>> /\ pc' = "idle"
    BY <1>25 DEF Crash, durable
  <2> QED
    BY <1>1, <2>1 DEF BroughtBack
<1>26. CASE UNCHANGED vars
  BY <1>26 DEF vars, durable, process, RollbackInv, AtMostOneUnfinished, Unfinished, UnfinishedInv,
     Undoable, Remembers
<1>27. CASE UNCHANGED tx /\ Apply /\ ~ \E p \in Package, t \in Tx : StartApply(p, t)
  BY <1>6, <1>17, <1>18, <1>19, <1>20, <1>21, <1>22, <1>23, <1>27 DEF Apply
<1>28. CASE Recovery
  BY <1>4, <1>5, <1>6, <1>7, <1>8, <1>24, <1>28 DEF Recovery
<1>29. CASE Restore
  BY <1>10, <1>11, <1>14, <1>15, <1>29 DEF Restore
<1> QED
  BY <1>3, <1>9, <1>25, <1>26, <1>27, <1>28, <1>29, RecordChange DEF Next, Scan

\* The invariant of the rollback, from which the three theorems below follow.
LEMMA RollbackInvariant == Spec => []ReadableRollbackInv
<1>1. Init => ReadableRollbackInv
  BY DEF Init, ReadableRollbackInv, RollbackInv, AtMostOneUnfinished, Unfinished, NoRecord,
     NoPhase, BroughtBack
<1>2. CoreInv /\ OriginalInv /\ ReadableRollbackInv /\ [Next]_vars => ReadableRollbackInv'
  BY RollbackStep, UnreadableGrows DEF ReadableRollbackInv, CoreInv, TypeInv
<1> QED
  BY <1>1, <1>2, CoreInvariant, OriginalInvariant, PTL DEF Spec

\* Only one transaction is ever unfinished (recover_transactions precedes
\* apply_package), as long as every record could be read.
THEOREM OnlyOneUnfinished == Spec => []OneUnfinished
<1>1. ReadableRollbackInv => OneUnfinished
  BY DEF ReadableRollbackInv, RollbackInv, OneUnfinished
<1> QED
  BY <1>1, RollbackInvariant, PTL

\* The record announces activation before the destination is touched
\* (apply_package 458-460), as long as every record could be read.
THEOREM RecordsWriteAhead == Spec => []WriteAhead
<1>1. ReadableRollbackInv => WriteAhead
  <2> SUFFICES ASSUME RollbackInv, NEW t \in Tx, tx[t].phase \in Working
               PROVE  dest = before[t]
    BY DEF ReadableRollbackInv, WriteAhead
  <2>1. Unfinished(t)
    BY DEF Unfinished, Working, Terminal, NoPhase
  <2> QED
    BY <2>1 DEF RollbackInv, UnfinishedInv
<1> QED
  BY <1>1, RollbackInvariant, PTL

\* Control reaches the rolled-back write only through the start of the service
\* (_restore_previous, shared by apply_package and recover_transactions).
LEMMA ServiceStep ==
  ASSUME ServiceInv, [Next]_vars
  PROVE  ServiceInv'
<1> SUFFICES ASSUME pc' \in RunningAgain, HasUnit
             PROVE  service' = "running"
  BY DEF ServiceInv
<1>1. CASE RestoreStart
  BY <1>1 DEF RestoreStart, Systemctl, Raise, RestoreFailed, RunningAgain
<1>2. CASE RestoreStop \/ RestoreDestination \/ RestoreAdopted
  BY <1>2 DEF RestoreStop, RestoreDestination, RestoreAdopted, Systemctl, Raise, RestoreFailed,
     RunningAgain
<1>3. CASE Recovery
  BY <1>3 DEF Recovery, StartScan, RecoverDone, NothingToApply, RecoverNext, RecoverUnreadable,
     RecoverReject, RecoverRolledBack, RecoverFailed, WriteState, Raise, RunningAgain, ServiceInv
<1>4. CASE \E o \in Outcomes : ReportFailure(o)
  <2> PICK o \in Outcomes : ReportFailure(o)
    BY <1>4
  <2>1. pc = o.at /\ pc' = o.then /\ service' = service
    BY DEF ReportFailure, WriteResult, Raise, RunningAgain
  <2>2. o.then \in RunningAgain => o.at \in RunningAgain
    BY DEF Outcomes, RunningAgain
  <2> QED
    BY <2>1, <2>2 DEF ServiceInv
<1>5. CASE \E o \in Outcomes : SettleFailure(o)
  BY <1>5 DEF SettleFailure, WriteState, Raise, RunningAgain
<1>6. CASE Import \/ Snapshot \/ WriteStaged \/ Build \/ WriteActivating \/ WriteActivated
           \/ HealthCheck \/ WriteCommitted
  BY <1>6, HandlerType DEF Import, Snapshot, WriteStaged, Build, WriteActivating,
     WriteActivated, HealthCheck, WriteCommitted, WriteState, Raise, RunningAgain
<1>7. CASE Materialize \/ Populate \/ StopService \/ PrepareDestination \/ Activate
           \/ StartService \/ WriteSuccess \/ PreserveStop
  BY <1>7, HandlerType DEF Materialize, Populate, StopService, PrepareDestination, Activate,
     StartService, WriteSuccess, PreserveStop, Systemctl, WriteResult, Raise, RunningAgain
<1>8. CASE (\E p \in Package, t \in Tx : StartApply(p, t)) \/ (\E p \in Package : ReturnExisting(p))
  BY <1>8 DEF StartApply, ReturnExisting, Raise, RunningAgain
<1>9. CASE Crash
  BY <1>9 DEF Crash, RunningAgain
<1>10. CASE UNCHANGED vars
  BY <1>10 DEF vars, durable, process, ServiceInv
<1> QED
  BY <1>1, <1>2, <1>3, <1>4, <1>5, <1>6, <1>7, <1>8, <1>9, <1>10 DEF Next, Scan, Restore, Apply

\* A record becomes rolled-back only with the old contents back in place, however
\* often the rollback itself was interrupted, as long as every record could be read,
\* and always with the service started again (_restore_previous).
THEOREM RollbacksRestore == Spec => RolledBackRestores
<1>1. Init => ServiceInv
  BY DEF Init, ServiceInv, RunningAgain
<1>2. ServiceInv /\ [Next]_vars => ServiceInv'
  BY ServiceStep
<1>3. CoreInv /\ ReadableRollbackInv /\ ServiceInv /\ [Next]_vars =>
        [\A t \in Tx : Becomes(t, "rolled-back") =>
           /\ unreadable = 0 => before[t] = dest
           /\ HasUnit => service = "running"]_vars
  <2> SUFFICES ASSUME CoreInv, ReadableRollbackInv, ServiceInv, [Next]_vars,
                      NEW t \in Tx, Becomes(t, "rolled-back")
               PROVE  /\ unreadable = 0 => before[t] = dest
                      /\ HasUnit => service = "running"
    OBVIOUS
  <2>1. Writes /\ t = cur /\ PhaseFrom(pc) = "rolled-back"
    BY PhaseChange DEF Becomes
  <2>2. pc \in {"recover-rolled-back", "phase-rolled-back"}
    BY <2>1 DEF Writes, PhaseFrom, Busy, Silent, Trying, Restoring, Recovering, Reporting
  <2> QED
    BY <2>1, <2>2 DEF ReadableRollbackInv, RollbackInv, BroughtBack, ServiceInv, RunningAgain
<1> QED
  BY <1>1, <1>2, <1>3, CoreInvariant, RollbackInvariant, PTL DEF Spec, RolledBackRestores
-----------------------------------------------------------------------------
(* Progress of a scan.                                                     *)

LEMMA AdvanceStep ==
  ASSUME CoreInv, pc # "idle", [Next]_vars, ~ UNCHANGED vars
  PROVE  Advances
<1>1. CASE RecoverDone
  BY <1>1 DEF RecoverDone, CoreInv, RecordInv, Advances
<1>2. ASSUME NEW t \in Tx, RecoverNext(t) \/ RecoverUnreadable(t) PROVE Advances
  BY <1>2 DEF RecoverNext, RecoverUnreadable, Advances
<1>3. CASE Crash
  <2>1. pc \in Control /\ recovering \in BOOLEAN /\ todo' = {} /\ recovering' = FALSE /\ pc' = "idle"
    BY <1>3 DEF Crash, CoreInv, TypeInv, TypeOK
  <2>2. StepsLeft(pc') = 0 /\ StepsLeft(pc) > 0
    BY <2>1 DEF StepsLeft, Control, Outcomes
  <2> QED
    BY <2>1, <2>2 DEF Advances
<1>4. ASSUME UNCHANGED <<recovering, todo>>, StepsLeft(pc') < StepsLeft(pc) PROVE Advances
  BY <1>4 DEF Advances
<1>5. CASE NothingToApply \/ RecoverReject \/ RecoverRolledBack \/ RecoverFailed
  BY <1>4, <1>5 DEF NothingToApply, RecoverReject, RecoverRolledBack, RecoverFailed, WriteState,
     Raise, StepsLeft, Outcomes
<1>6. CASE Restore
  BY <1>4, <1>6 DEF Restore, RestoreStop, RestoreDestination, RestoreAdopted, RestoreStart,
     Systemctl, Raise, Restored, RestoreFailed, StepsLeft, Outcomes
<1>7. CASE (\E p \in Package, t \in Tx : StartApply(p, t)) \/ (\E p \in Package : ReturnExisting(p))
  <2>1. pc = "choose" /\ pc' \in {"import", "idle"} /\ UNCHANGED <<recovering, todo>>
    <3>1. ASSUME NEW p \in Package, NEW t \in Tx, StartApply(p, t)
          PROVE  pc = "choose" /\ pc' \in {"import", "idle"} /\ UNCHANGED <<recovering, todo>>
      BY <3>1 DEF StartApply, Raise
    <3>2. ASSUME NEW p \in Package, ReturnExisting(p)
          PROVE  pc = "choose" /\ pc' = "idle" /\ UNCHANGED <<recovering, todo>>
      BY <3>2 DEF ReturnExisting
    <3> QED
      BY <1>7, <3>1, <3>2
  <2>2. StepsLeft(pc') < StepsLeft(pc)
    BY <2>1 DEF StepsLeft, Outcomes
  <2> QED
    BY <1>4, <2>1, <2>2
<1>8. CASE Import \/ Snapshot \/ WriteStaged \/ Build \/ WriteActivating \/ WriteActivated
           \/ HealthCheck \/ WriteCommitted
  <2>1. \A s : Handler(s) \in {"restore-stop", "preserve-stop"}
    BY HandlerType
  <2>2. UNCHANGED <<recovering, todo>>
    BY <1>8 DEF Import, Snapshot, WriteStaged, Build, WriteActivating, WriteActivated, HealthCheck,
       WriteCommitted
  <2> QED
    BY <1>4, <1>8, <2>1, <2>2 DEF Import, Snapshot, WriteStaged, Build, WriteActivating,
       WriteActivated, HealthCheck, WriteCommitted, WriteState, Raise, StepsLeft, Outcomes
<1>9. CASE Materialize \/ Populate \/ StopService \/ PrepareDestination \/ Activate
           \/ StartService \/ WriteSuccess \/ PreserveStop
  <2>1. \A s : Handler(s) \in {"restore-stop", "preserve-stop"}
    BY HandlerType
  <2>2. UNCHANGED <<recovering, todo>>
    BY <1>9 DEF Materialize, Populate, StopService, PrepareDestination, Activate, StartService,
       WriteSuccess, PreserveStop
  <2>3. CASE Materialize \/ Populate
    BY <1>4, <2>1, <2>2, <2>3 DEF Materialize, Populate, Raise, StepsLeft, Outcomes
  <2>4. CASE StopService \/ StartService \/ PreserveStop
    BY <1>4, <2>1, <2>2, <2>4 DEF StopService, StartService, PreserveStop, Systemctl, Raise,
       StepsLeft, Outcomes
  <2>5. CASE PrepareDestination \/ Activate \/ WriteSuccess
    BY <1>4, <2>1, <2>2, <2>5 DEF PrepareDestination, Activate, WriteSuccess, WriteResult, Raise,
       StepsLeft, Outcomes
  <2> QED
    BY <1>9, <2>3, <2>4, <2>5
<1>10. ASSUME NEW o \in Outcomes, ReportFailure(o) \/ SettleFailure(o) PROVE Advances
  BY <1>4, <1>10 DEF ReportFailure, SettleFailure, WriteState, WriteResult, Raise, StepsLeft, Outcomes
<1>11. CASE StartScan
  BY <1>11 DEF StartScan
<1> QED
  BY <1>1, <1>2, <1>3, <1>5, <1>6, <1>7, <1>8, <1>9, <1>10, <1>11 DEF Next, Scan, Recovery, Apply

\* Every step of a running scan (recover_transactions, apply_package and their
\* handlers) brings it nearer to its end, whatever fails.
THEOREM ScansAdvance == Spec => ScanAdvances
<1>1. CoreInv /\ [Next]_vars => [pc # "idle" => Advances]_vars
  BY AdvanceStep
<1> QED
  BY <1>1, CoreInvariant, PTL DEF Spec, ScanAdvances
=============================================================================
