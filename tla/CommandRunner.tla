---------------------------- MODULE CommandRunner ----------------------------
(***************************************************************************)
(* One call of run_command (platform/_command_runner.py): the runner       *)
(* starts a command as the leader of its own process group, waits for its  *)
(* exit and for the end of its output, and ends the group when the         *)
(* deadline, a cancellation, too much output or an interruption comes      *)
(* first.  The leader and its descendants, the pipes, the clock and the    *)
(* thread that cancels run beside it.                                      *)
(*                                                                         *)
(* A process may end at any time: how it takes SIGTERM, and whether it     *)
(* ignores it, is its own choice.  SIGKILL only leaves the time open.      *)
(* Bytes have no contents, a read takes what the pipe holds, and process   *)
(* numbers are not reused.                                                 *)
(***************************************************************************)
EXTENDS Naturals

CONSTANTS
  Leader,      \* the process Popen starts
  Descendant,  \* the processes it may start
  Pipe,        \* stdout and stderr
  PipeSize,    \* what a pipe holds
  Limit        \* request.output_limit_bytes

Process == {Leader} \cup Descendant
Wake == "wake"        \* the read end of the pipe of the CancellationToken

ASSUME CommandAssumption ==
  /\ Leader \notin Descendant
  /\ Wake \notin Pipe
  /\ PipeSize \in Nat \ {0} /\ Limit \in Nat \ {0}

VARIABLES
  life,      \* of each process: none, running, killed (not yet dead), zombie, gone
  grouped,   \* whether it is in the process group of the leader
  holds,     \* the write ends it has open
  buffered,  \* bytes in each pipe
  token,     \* the CancellationToken: idle, waking (inside cancel), cancelled
  expired,   \* whether the deadline has passed
  pc,        \* where the runner is
  active,    \* descriptors of output not yet at its end
  ready,     \* what select returned and is not yet consumed
  retained,  \* bytes kept of the output
  lost,      \* whether bytes were dropped
  reason,    \* why the command was stopped
  complete,  \* whether the teardown was complete
  outcome,   \* what run_command returns
  inTime     \* history: cancelled in time to be reported as such

group == <<life, grouped, holds, buffered>>
signals == <<token, expired, inTime>>
capture == <<active, ready, retained, lost>>
verdict == <<reason, complete, outcome>>
vars == <<group, signals, pc, capture, verdict>>

Init ==
  /\ life = [p \in Process |-> "none"]
  /\ grouped = [p \in Process |-> FALSE]
  /\ holds = [p \in Process |-> {}]
  /\ buffered = [f \in Pipe |-> 0]
  /\ token = "idle" /\ expired = FALSE /\ inTime = FALSE
  /\ pc = "call"
  /\ active = {} /\ ready = {} /\ retained = 0 /\ lost = FALSE
  /\ reason = "none" /\ complete = TRUE /\ outcome = "none"

-----------------------------------------------------------------------------
(* The processes.                                                          *)

Runs(p) == life[p] = "running"

Fork(p, q) ==
  /\ Runs(p) /\ q \in Descendant /\ life[q] = "none"
  /\ life' = [life EXCEPT ![q] = "running"]
  /\ grouped' = [grouped EXCEPT ![q] = grouped[p]]
  /\ holds' = [holds EXCEPT ![q] = holds[p]]
  /\ UNCHANGED buffered

\* setsid: the leader leads its group for good.
LeaveGroup(p) ==
  /\ Runs(p) /\ p # Leader /\ grouped[p]
  /\ grouped' = [grouped EXCEPT ![p] = FALSE]
  /\ UNCHANGED <<life, holds, buffered>>

CloseStream(p, f) ==
  /\ Runs(p) /\ f \in holds[p]
  /\ holds' = [holds EXCEPT ![p] = @ \ {f}]
  /\ UNCHANGED <<life, grouped, buffered>>

Write(p, f) ==
  /\ Runs(p) /\ f \in holds[p] /\ buffered[f] < PipeSize
  /\ buffered' = [buffered EXCEPT ![f] = @ + 1]
  /\ UNCHANGED <<life, grouped, holds>>

Exit(p) ==
  /\ life[p] \in {"running", "killed"}
  /\ life' = [life EXCEPT ![p] = "zombie"]
  /\ holds' = [holds EXCEPT ![p] = {}]
  /\ UNCHANGED <<grouped, buffered>>

\* By its parent, or by init; the runner reaps the leader.
Reaped(p) ==
  /\ p # Leader /\ life[p] = "zombie"
  /\ life' = [life EXCEPT ![p] = "gone"]
  /\ UNCHANGED <<grouped, holds, buffered>>

\* Once the call has returned nobody looks any more.
Processes ==
  /\ pc # "done"
  /\ \E p \in Process :
       \/ \E q \in Descendant : Fork(p, q)
       \/ \E f \in Pipe : CloseStream(p, f) \/ Write(p, f)
       \/ LeaveGroup(p) \/ Exit(p) \/ Reaped(p)
  /\ UNCHANGED <<signals, pc, capture, verdict>>

-----------------------------------------------------------------------------
(* The clock, and the thread that cancels.                                 *)

Waiting == {"loop", "look", "clock", "select", "consume"}

\* The clock is read only in these.
Expire ==
  /\ pc \in Waiting /\ ~expired
  /\ expired' = TRUE
  /\ UNCHANGED <<token, inTime, group, pc, capture, verdict>>

\* Mutant: cancel only sets the flag.
WakeUpForgotten == FALSE
WakeUp == token \in {"waking", "cancelled"}

\* cancel holds the lock from the byte in the pipe to the flag.  A flag set between
\* the runner's look at the token and its look at the clock is too late for that
\* round, and the clock may end the call.
CancelWake ==
  /\ pc # "done" /\ token = "idle"
  /\ token' = "waking"
  /\ UNCHANGED <<expired, inTime, group, pc, capture, verdict>>

CancelSet ==
  /\ token = "waking"
  /\ token' = "cancelled" /\ inTime' = (~expired /\ pc # "clock")
  /\ UNCHANGED <<expired, group, pc, capture, verdict>>

-----------------------------------------------------------------------------
(* The start of the call.                                                  *)

Return(o) == pc' = "done" /\ outcome' = o /\ UNCHANGED <<reason, complete>>

\* invalid_reason refuses the request.
Refuse ==
  /\ pc = "call"
  /\ Return("invalid")
  /\ UNCHANGED <<group, signals, capture>>

CancelledEarly ==
  /\ pc = "call" /\ token = "cancelled"
  /\ Return("cancelled")
  /\ UNCHANGED <<group, signals, capture>>

StartFails ==
  /\ pc = "call" /\ token = "idle"
  /\ Return("start-failed")
  /\ UNCHANGED <<group, signals, capture>>

\* A session of its own, with both pipes.  A cancel that holds the lock is waited for.
Spawn ==
  /\ pc = "call" /\ token = "idle"
  /\ life' = [life EXCEPT ![Leader] = "running"]
  /\ grouped' = [grouped EXCEPT ![Leader] = TRUE]
  /\ holds' = [holds EXCEPT ![Leader] = Pipe]
  /\ pc' = "open"
  /\ UNCHANGED <<buffered, signals, capture, verdict>>

Stop(r) == pc' = "terminate" /\ reason' = r /\ UNCHANGED <<complete, outcome>>

\* pidfd_open; without it the output is not looked at.
Open ==
  /\ pc = "open"
  /\ \/ pc' = "loop" /\ active' = Pipe /\ UNCHANGED verdict
     \/ Stop("interrupted") /\ UNCHANGED active
  /\ UNCHANGED <<group, signals, ready, retained, lost>>

-----------------------------------------------------------------------------
(* await_completion.                                                       *)

\* poll and wait reap a leader that has exited.
Polled == [life EXCEPT ![Leader] = IF @ = "zombie" THEN "gone" ELSE @]

AtEnd(f) == buffered[f] = 0 /\ \A p \in Process : f \notin holds[p]

\* Mutant: the end of the output is not waited for.
FinishedOnExit == Polled[Leader] = "gone"
Finished == active = {} /\ Polled[Leader] = "gone"

Loop ==
  /\ pc = "loop"
  /\ life' = Polled
  /\ pc' = IF Finished THEN "close" ELSE "look"
  /\ UNCHANGED <<grouped, holds, buffered, signals, capture, verdict>>

\* Mutant: the deadline is looked at before the cancellation.
StopNowDeadlineFirst ==
  IF expired THEN "timeout" ELSE IF token = "cancelled" THEN "cancelled" ELSE "none"
StopNow == IF token = "cancelled" THEN "cancelled" ELSE "none"

\* The token is read under its lock.
Look ==
  /\ pc = "look" /\ token # "waking"
  /\ life' = Polled
  /\ IF StopNow = "none" THEN pc' = "clock" /\ UNCHANGED verdict ELSE Stop(StopNow)
  /\ UNCHANGED <<grouped, holds, buffered, signals, capture>>

LookAtClock ==
  /\ pc = "clock"
  /\ IF expired THEN Stop("timeout") ELSE pc' = "select" /\ UNCHANGED verdict
  /\ UNCHANGED <<group, signals, capture>>

Readable == {f \in active : buffered[f] > 0 \/ AtEnd(f)}
Woken == Readable \cup (IF WakeUp THEN {Wake} ELSE {})

\* select returns when a descriptor is ready, the leader has exited or the time
\* that was left is over.
Select ==
  /\ pc = "select"
  /\ Woken # {} \/ life[Leader] = "zombie" \/ expired
  /\ ready' = Woken /\ pc' = "consume"
  /\ UNCHANGED <<group, signals, active, retained, lost, verdict>>

\* A signal handler that raises: nothing makes it come.
Interrupted ==
  /\ pc = "select"
  /\ Stop("interrupted")
  /\ UNCHANGED <<group, signals, capture>>

\* Mutant: what is kept already is forgotten.
RoomOfLimit == Limit
Room == Limit - retained

\* Mutant: a chunk is measured against the whole limit.
OverflowsAlone(f) == buffered[f] > Limit
Overflows(f) == buffered[f] > Room

\* _OutputCapture.read: what is over the limit is dropped.
Read(f) ==
  /\ retained' = retained + (IF buffered[f] > Room THEN Room ELSE buffered[f])
  /\ lost' = (lost \/ buffered[f] > Room)
  /\ buffered' = [buffered EXCEPT ![f] = 0]
  /\ UNCHANGED <<life, grouped, holds>>

LeftAfter(f) == IF AtEnd(f) THEN active \ {f} ELSE active

\* _consume_ready, one descriptor; output comes before the cancellation.
ConsumeOutput(f) ==
  /\ pc = "consume" /\ f \in ready \ {Wake}
  /\ Read(f)
  /\ active' = LeftAfter(f)
  /\ IF Overflows(f)
       THEN Stop("overflow") /\ ready' = {}
       ELSE ready' = ready \ {f} /\ UNCHANGED <<pc, verdict>>
  /\ UNCHANGED signals

ConsumeWake ==
  /\ pc = "consume" /\ ready = {Wake}
  /\ Stop("cancelled") /\ ready' = {}
  /\ UNCHANGED <<group, signals, active, retained, lost>>

ConsumeDone ==
  /\ pc = "consume" /\ ready = {}
  /\ pc' = "loop"
  /\ UNCHANGED <<group, signals, capture, verdict>>

-----------------------------------------------------------------------------
(* _terminate_group.                                                       *)

\* A zombie is in its group until it is reaped.
Member(p) == grouped[p] /\ life[p] \in {"running", "killed", "zombie"}
GroupExists == \E p \in Process : Member(p)

\* SIGTERM; without a group there is nothing to do.
Terminate ==
  /\ pc = "terminate"
  /\ pc' = IF GroupExists THEN "grace" ELSE "drain"
  /\ UNCHANGED <<group, signals, capture, verdict>>

LeaderEnded == life[Leader] \in {"zombie", "gone"}

\* wait: the leader ends within the grace period, or not.
Grace ==
  /\ pc = "grace"
  /\ life' = Polled
  /\ pc' = IF LeaderEnded THEN "check" ELSE "kill"
  /\ UNCHANGED <<grouped, holds, buffered, signals, capture, verdict>>

Check ==
  /\ pc = "check"
  /\ pc' = IF GroupExists THEN "kill" ELSE "wait"
  /\ UNCHANGED <<group, signals, capture, verdict>>

Kill ==
  /\ pc = "kill"
  /\ life' = [p \in Process |-> IF Runs(p) /\ grouped[p] THEN "killed" ELSE life[p]]
  /\ pc' = IF GroupExists THEN "wait" ELSE "drain"
  /\ UNCHANGED <<grouped, holds, buffered, signals, capture, verdict>>

Wait ==
  /\ pc = "wait"
  /\ life' = Polled
  /\ IF LeaderEnded
       THEN pc' = "verify" /\ UNCHANGED complete
       ELSE pc' = "drain" /\ complete' = FALSE
  /\ UNCHANGED <<grouped, holds, buffered, signals, capture, reason, outcome>>

\* Mutant: the last look at the group is left out.
TeardownAssumed == TRUE
TornDown == ~GroupExists

Verify ==
  /\ pc = "verify"
  /\ complete' = TornDown /\ pc' = "drain"
  /\ UNCHANGED <<group, signals, capture, reason, outcome>>

-----------------------------------------------------------------------------
(* The end of the call.                                                    *)

\* _drain takes what is left in the pipes, without waiting for more.
DrainOutput(f) ==
  /\ pc = "drain" /\ f \in Readable
  /\ Read(f)
  /\ active' = LeftAfter(f)
  /\ UNCHANGED <<signals, pc, ready, verdict>>

DrainDone ==
  /\ pc = "drain" /\ Readable = {}
  /\ pc' = "close"
  /\ UNCHANGED <<group, signals, capture, verdict>>

Outcome ==
  IF ~complete \/ (reason = "none" /\ life[Leader] # "gone") THEN "teardown-failed"
  ELSE IF reason = "none" THEN "completed" ELSE reason

Close ==
  /\ pc = "close"
  /\ Return(Outcome)
  /\ UNCHANGED <<group, signals, capture>>

Start == Refuse \/ CancelledEarly \/ StartFails \/ Spawn \/ Open

AwaitCompletion ==
  \/ Loop \/ Look \/ LookAtClock \/ Select
  \/ \E f \in Pipe : ConsumeOutput(f)
  \/ ConsumeWake \/ ConsumeDone

TerminateGroup == Terminate \/ Grace \/ Check \/ Kill \/ Wait \/ Verify

Finish == (\E f \in Pipe : DrainOutput(f)) \/ DrainDone \/ Close

Runner == Start \/ AwaitCompletion \/ TerminateGroup \/ Finish

Next == Processes \/ Expire \/ CancelWake \/ CancelSet \/ Interrupted \/ Runner

Spec == Init /\ [][Next]_vars

\* The runner and the cancelling thread are scheduled; nothing is asked of the clock,
\* of signals and of the processes.
FairSpec == Spec /\ WF_vars(Runner) /\ WF_vars(CancelSet)

-----------------------------------------------------------------------------
(* Type invariant.                                                         *)

Reasons == {"interrupted", "cancelled", "timeout", "overflow"}

TypeOK ==
  /\ life \in [Process -> {"none", "running", "killed", "zombie", "gone"}]
  /\ grouped \in [Process -> BOOLEAN]
  /\ holds \in [Process -> SUBSET Pipe]
  /\ buffered \in [Pipe -> 0..PipeSize]
  /\ token \in {"idle", "waking", "cancelled"}
  /\ expired \in BOOLEAN /\ inTime \in BOOLEAN
  /\ pc \in Waiting \cup {"call", "open", "terminate", "grace", "check", "kill", "wait",
                          "verify", "drain", "close", "done"}
  /\ active \subseteq Pipe /\ ready \subseteq Pipe \cup {Wake}
  /\ retained \in 0..Limit
  /\ lost \in BOOLEAN /\ complete \in BOOLEAN
  /\ reason \in Reasons \cup {"none"}
  /\ outcome \in Reasons \cup {"none", "invalid", "start-failed", "completed",
                               "teardown-failed"}

-----------------------------------------------------------------------------
(* Safety.                                                                 *)

\* A command that was stopped leaves nobody of its group behind, not even a process
\* that outlived the leader: otherwise the call reports that the teardown failed
\* (_terminate_group).
StoppedGroupIsGone ==
  outcome \in Reasons => ~GroupExists

\* The output of a completed command is whole: nothing was dropped, nothing is left
\* in a pipe, nobody can still write, and the exit code is known (await_completion).
CompletedIsWhole ==
  outcome = "completed" =>
    ~lost /\ life[Leader] = "gone" /\ \A f \in Pipe : AtEnd(f)

\* Nothing is dropped from a command that goes on, and a command is stopped for too
\* much output only with the limit reached and something dropped (_OutputCapture,
\* _consume_ready).
OverflowIsReported ==
  /\ reason = "none" => ~lost
  /\ reason = "overflow" => lost /\ retained = Limit

\* A cancellation before the deadline is not reported as a timeout, however late the
\* runner looks, unless it comes between the two looks of one round: then the clock
\* may have the last word (83, 85).
CancellationBeatsDeadline ==
  reason = "timeout" => ~inTime

-----------------------------------------------------------------------------
(* Liveness.                                                               *)

\* Output that a process outside the group still produces while the runner drains.
Disturbs == pc = "drain" /\ \E f \in Pipe : buffered'[f] > buffered[f]

\* Once it is cancelled or its deadline has passed the call returns, without any
\* help of the processes, unless one that left the group keeps writing while the
\* pipes are drained (select, _terminate_group, _drain).
StoppedCallReturns ==
  <>[][~Disturbs]_vars => ((token = "cancelled" \/ expired) ~> pc = "done")
=============================================================================
