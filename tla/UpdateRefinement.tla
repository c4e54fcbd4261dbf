-------------------------- MODULE UpdateRefinement --------------------------
(***************************************************************************)
(* TargetEngine implements AbstractUpdate as long as the transaction       *)
(* records can be read.                                                    *)
(***************************************************************************)
EXTENDS TargetEngine

Open == {t \in Tx : Unfinished(t)}

\* A package that keeps what failed promises nothing when it is rejected: recovery
\* rejects it wherever it stopped (recover_transactions 524).
Undone(r) ==
  \/ r.phase = "rolled-back"
  \/ r.phase = "rejected" /\ PolicyOf[r.pkg] = "rollback"

Outcome(r) ==
  CASE r.phase = NoPhase                                   -> "none"
    [] r.phase = "committed"                               -> "committed"
    [] Undone(r)                                           -> "restored"
    [] r.phase \in Terminal \ {"committed"} /\ ~Undone(r)  -> "broken"
    [] OTHER                                               -> "open"

BaseOf == IF Open = {} THEN dest ELSE before[CHOOSE t \in Open : TRUE]
TargetOf == IF Open = {} THEN dest ELSE CommitOf[tx[CHOOSE t \in Open : TRUE].pkg]
StateOf == [t \in Tx |-> Outcome(tx[t])]

Abstract == INSTANCE AbstractUpdate
              WITH base <- BaseOf, target <- TargetOf, state <- StateOf

\* Seen from the destination path the engine is one atomic change from the old
\* contents to the new release, kept or undone, whatever raises or crashes on the
\* way (apply_package, _restore_previous, recover_transactions).
ImplementsUpdate == Abstract!Spec
=============================================================================
