----------------------- MODULE CommandRunnerInvariants -----------------------
(***************************************************************************)
(* The inductive invariant behind the safety properties of CommandRunner.  *)
(* TLC checks it, CommandRunnerProofs proves it.                           *)
(***************************************************************************)
EXTENDS CommandRunner

Tearing == {"terminate", "grace", "check", "kill", "wait", "verify", "drain"}

\* Nothing runs before the command is started, the reason is known from the first
\* step of the teardown, and the outcome when the call has returned.
StageInv ==
  /\ pc = "call" => \A p \in Process : life[p] = "none"
  /\ pc \in {"call", "open"} \cup Waiting => reason = "none" /\ complete
  /\ pc \in Tearing => reason \in Reasons
  /\ pc = "close" /\ reason = "none" => complete
  /\ pc # "done" => outcome = "none"

\* A teardown that is held to be complete has no group left.
GroupInv ==
  /\ pc \in {"drain", "close"} /\ reason # "none" /\ complete => ~GroupExists
  /\ outcome \in Reasons => ~GroupExists

\* Output whose descriptor is no longer watched is at its end, and stays there.
OutputInv ==
  /\ pc \in Waiting \cup {"close"} /\ reason = "none" =>
       \A f \in Pipe \ active : AtEnd(f)
  /\ pc = "close" /\ reason = "none" => active = {} /\ life[Leader] = "gone"
  /\ outcome = "completed" => reason = "none"

TimeInv ==
  /\ inTime => token = "cancelled" /\ pc # "clock"
  /\ reason = "timeout" => expired

Inv ==
  /\ TypeOK /\ StageInv /\ GroupInv /\ OutputInv /\ TimeInv
  /\ CompletedIsWhole /\ OverflowIsReported /\ CancellationBeatsDeadline
=============================================================================
