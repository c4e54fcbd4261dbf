------------------------- MODULE TransactionPhases -------------------------
(***************************************************************************)
(* The vocabulary of an update transaction: the phases the target engine   *)
(* records on disk (target_engine.py), the statuses it reports, and the    *)
(* transition matrix that domain/policies.py declares for those phases.    *)
(***************************************************************************)

\* The phase of a transaction identifier that has no record on disk.
NoPhase == "none"

Working == {"verified", "imported", "snapshot-created", "staged", "built"}

\* The phases in which the destination may already have been touched.
Activation == {"activating", "activated", "health-checked"}

\* target_engine.TERMINAL
Terminal == {"committed", "no-op", "rolled-back", "failed-preserved",
             "rejected", "recovery-failed"}

Phase == {NoPhase} \cup Working \cup Activation \cup Terminal

Policy == {"rollback", "keep-failed-stopped"}

\* result["status"] as apply_package produces it.
Status == {"success", "needs-full-bundle", "failed-rolled-back",
           "failed-preserved", "recovery-failed"}

-----------------------------------------------------------------------------
(* domain/policies.py: which phases may follow a phase the engine records. *)

EarlyNext(p) ==
  CASE p = "discovered" -> {"copied", "rejected", "no-op", "needs-full"}
    [] p = "copied"     -> {"verified", "rejected"}
    [] p = "verified"   -> {"imported", "rejected", "needs-full"}

MiddleNext(p) ==
  CASE p = "imported"         -> {"snapshot-created"}
    [] p = "snapshot-created" -> {"staged"}
    [] p = "staged"           -> {"built"}
    [] p = "built"            -> {"activating"}

ActivationNext(p) ==
  {"rolled-back", "failed-preserved"} \cup
  CASE p = "activating"     -> {"activated"}
    [] p = "activated"      -> {"health-checked"}
    [] p = "health-checked" -> {"committed"}

Allowed(p) ==
  CASE p \in {"discovered", "copied", "verified"} -> EarlyNext(p) \cup {"recovery-failed"}
    [] p \in Working \ {"verified"}               -> MiddleNext(p) \cup {"recovery-failed"}
    [] p \in Activation                           -> ActivationNext(p) \cup {"recovery-failed"}
    [] OTHER                                      -> {}
=============================================================================
