------------------------- MODULE CommandRunnerProofs -------------------------
(***************************************************************************)
(* The safety of a call of run_command, for any number of descendants, any *)
(* pipes and any limit.                                                    *)
(***************************************************************************)
EXTENDS CommandRunnerInvariants, TLAPS

-----------------------------------------------------------------------------
(* What the steps are made of.                                             *)

\* poll and wait take the leader from zombie to gone and touch nobody else.
LEMMA PolledLife ==
  ASSUME TypeOK
  PROVE  /\ Polled \in [Process -> {"none", "running", "killed", "zombie", "gone"}]
         /\ \A p \in Process : Polled[p] = life[p] \/ (life[p] = "zombie" /\ Polled[p] = "gone")
         /\ Polled[Leader] = "gone" <=> LeaderEnded
BY DEF Polled, TypeOK, Process, LeaderEnded

\* A step of the processes leaves output that is at its end at its end, cannot bring
\* the group back to life, and cannot undo the exit of a leader that was reaped.
LEMMA ProcessesStep ==
  ASSUME TypeOK, Processes
  PROVE  /\ life' \in [Process -> {"none", "running", "killed", "zombie", "gone"}]
         /\ grouped' \in [Process -> BOOLEAN]
         /\ holds' \in [Process -> SUBSET Pipe]
         /\ buffered' \in [Pipe -> 0..PipeSize]
         /\ \A f \in Pipe : AtEnd(f) => AtEnd(f)'
         /\ ~GroupExists => ~GroupExists'
         /\ life[Leader] = "gone" => life'[Leader] = "gone"
         /\ pc = "call" /\ (\A p \in Process : life[p] = "none")
              => \A p \in Process : life'[p] = "none"
<1> USE CommandAssumption DEF Process, TypeOK
<1>1. PICK p \in Process :
        \/ \E q \in Descendant : Fork(p, q)
        \/ \E f \in Pipe : CloseStream(p, f) \/ Write(p, f)
        \/ LeaveGroup(p) \/ Exit(p) \/ Reaped(p)
  BY DEF Processes
<1>2. CASE \E q \in Descendant : Fork(p, q)
  BY <1>2 DEF Fork, Runs, AtEnd, GroupExists, Member
<1>3. CASE \E f \in Pipe : CloseStream(p, f)
  BY <1>3 DEF CloseStream, Runs, AtEnd, GroupExists, Member
<1>4. CASE \E f \in Pipe : Write(p, f)
  BY <1>4 DEF Write, Runs, AtEnd, GroupExists, Member
<1>5. CASE LeaveGroup(p)
  BY <1>5 DEF LeaveGroup, Runs, AtEnd, GroupExists, Member
<1>6. CASE Exit(p)
  BY <1>6 DEF Exit, AtEnd, GroupExists, Member
<1>7. CASE Reaped(p)
  BY <1>7 DEF Reaped, AtEnd, GroupExists, Member
<1> QED
  BY <1>1, <1>2, <1>3, <1>4, <1>5, <1>6, <1>7

\* A read never keeps more than the limit, and drops bytes only when it is reached.
LEMMA ReadStep ==
  ASSUME TypeOK, NEW f \in Pipe, Read(f)
  PROVE  /\ retained' \in 0..Limit /\ lost' \in BOOLEAN
         /\ buffered' \in [Pipe -> 0..PipeSize]
         /\ UNCHANGED <<life, grouped, holds>>
         /\ lost' => lost \/ retained' = Limit
         /\ lost => lost'
         /\ retained = Limit => retained' = Limit
         /\ lost' <=> lost \/ Overflows(f)
         /\ \A g \in Pipe : AtEnd(g) => AtEnd(g)'
<1> USE CommandAssumption DEF Room, Overflows
<1>1. /\ buffered[f] \in Nat /\ Room \in Nat /\ retained \in Nat /\ Limit \in Nat
      /\ retained + Room = Limit
  BY DEF TypeOK
<1>2. buffered' = [buffered EXCEPT ![f] = 0] /\ UNCHANGED <<life, grouped, holds>>
  BY DEF Read
<1>3. /\ buffered' \in [Pipe -> 0..PipeSize]
      /\ \A g \in Pipe : AtEnd(g) => AtEnd(g)'
  BY <1>2 DEF TypeOK, AtEnd
<1>4. CASE buffered[f] > Room
  <2>1. retained' = Limit /\ lost' = TRUE
    BY <1>1, <1>4 DEF Read
  <2> QED
    BY <1>1, <1>2, <1>3, <1>4, <2>1
<1>5. CASE ~(buffered[f] > Room)
  <2>1. retained' = retained + buffered[f] /\ lost' = lost
    <3>1. lost \in BOOLEAN
      BY DEF TypeOK
    <3>2. retained' = retained + buffered[f]
      BY <1>5 DEF Read
    <3>3. lost' = (lost \/ buffered[f] > Room)
      BY DEF Read
    <3> QED
      BY <1>5, <3>1, <3>2, <3>3, Zenon
  <2>2. retained' \in 0..Limit /\ (retained = Limit => retained' = Limit)
    BY <1>1, <1>5, <2>1
  <2>3. lost \in BOOLEAN
    BY DEF TypeOK
  <2> QED
    BY <1>2, <1>3, <1>5, <2>1, <2>2, <2>3
<1> QED
  BY <1>4, <1>5

LEMMA LeftAfterSubset ==
  ASSUME TypeOK, NEW f
  PROVE  LeftAfter(f) \subseteq active /\ \A g \in active \ LeftAfter(f) : AtEnd(g)
BY DEF LeftAfter

-----------------------------------------------------------------------------
(* The steps of the runner.                                                *)

LEMMA InvInit == Init => Inv
<1> SUFFICES ASSUME Init PROVE Inv
  OBVIOUS
<1>1. TypeOK
  <2>1. /\ life \in [Process -> {"none", "running", "killed", "zombie", "gone"}]
        /\ grouped \in [Process -> BOOLEAN] /\ holds \in [Process -> SUBSET Pipe]
    BY DEF Init
  <2>2. buffered \in [Pipe -> 0..PipeSize] /\ retained \in 0..Limit
    BY CommandAssumption DEF Init
  <2>3. /\ expired \in BOOLEAN /\ inTime \in BOOLEAN /\ lost \in BOOLEAN /\ complete \in BOOLEAN
    BY DEF Init
  <2> QED
    BY <2>1, <2>2, <2>3 DEF Init, TypeOK
<1>2. StageInv /\ GroupInv /\ OutputInv /\ TimeInv
  BY DEF Init, StageInv, GroupInv, OutputInv, TimeInv, Tearing, Waiting, Reasons
<1>3. CompletedIsWhole /\ OverflowIsReported /\ CancellationBeatsDeadline
  BY DEF Init, CompletedIsWhole, OverflowIsReported, CancellationBeatsDeadline
<1> QED
  BY <1>1, <1>2, <1>3 DEF Inv

\* The environment: the processes, the clock, the cancelling thread.
LEMMA EnvironmentKeepsInv ==
  ASSUME Inv, Processes \/ Expire \/ CancelWake \/ CancelSet
  PROVE  Inv'
<1> USE DEF Inv
<1>1. CASE Processes
  <2>1. UNCHANGED <<signals, pc, capture, verdict>> /\ pc # "done"
    BY <1>1 DEF Processes
  <2>2. TypeOK'
    BY <1>1, <2>1, ProcessesStep DEF TypeOK, signals, capture, verdict, Waiting
  <2>3. StageInv'
    BY <1>1, <2>1, ProcessesStep DEF StageInv, signals, capture, verdict, Waiting
  <2>4. GroupInv'
    BY <1>1, <2>1, ProcessesStep DEF GroupInv, StageInv, signals, capture, verdict, Reasons
  <2>5. OutputInv'
    BY <1>1, <2>1, ProcessesStep DEF OutputInv, signals, capture, verdict, Waiting, TypeOK
  <2>6. /\ TimeInv' /\ CompletedIsWhole' /\ OverflowIsReported' /\ CancellationBeatsDeadline'
    BY <2>1 DEF TimeInv, CompletedIsWhole, OverflowIsReported, CancellationBeatsDeadline,
                StageInv, signals, capture, verdict
  <2> QED
    BY <2>2, <2>3, <2>4, <2>5, <2>6
<1>2. CASE Expire \/ CancelWake \/ CancelSet
  <2>1. UNCHANGED <<group, pc, capture, verdict>>
    BY <1>2 DEF Expire, CancelWake, CancelSet
  <2>2. /\ token' \in {"idle", "waking", "cancelled"} /\ expired' \in BOOLEAN /\ inTime' \in BOOLEAN
        /\ expired => expired'
        /\ inTime' => token' = "cancelled" /\ pc # "clock"
        /\ inTime' => inTime \/ ~expired
    <3>1. CASE Expire
      BY <3>1 DEF Expire, TypeOK, TimeInv
    <3>2. CASE CancelWake
      BY <3>2 DEF CancelWake, TypeOK, TimeInv
    <3>3. CASE CancelSet
      <4>1. token' = "cancelled" /\ expired' = expired /\ inTime' = (~expired /\ pc # "clock")
        BY <3>3 DEF CancelSet
      <4>2. expired \in BOOLEAN
        BY DEF TypeOK
      <4> QED
        BY <4>1, <4>2
    <3> QED
      BY <1>2, <3>1, <3>2, <3>3
  <2>3. TypeOK'
    BY <2>1, <2>2 DEF TypeOK, group, capture, verdict, Waiting
  <2>4. StageInv' /\ GroupInv' /\ OutputInv'
    BY <2>1 DEF StageInv, GroupInv, OutputInv, GroupExists, Member, AtEnd, group, capture, verdict,
                Waiting, Tearing
  <2>5. TimeInv' /\ CancellationBeatsDeadline'
    BY <2>1, <2>2 DEF TimeInv, CancellationBeatsDeadline, verdict
  <2>6. CompletedIsWhole' /\ OverflowIsReported'
    BY <2>1 DEF CompletedIsWhole, OverflowIsReported, AtEnd, group, capture, verdict
  <2> QED
    BY <2>3, <2>4, <2>5, <2>6
<1> QED
  BY <1>1, <1>2

\* run_command up to the pidfd.
LEMMA StartKeepsInv ==
  ASSUME Inv, Start
  PROVE  Inv'
<1> USE CommandAssumption
    DEF Inv, TypeOK, StageInv, GroupInv, OutputInv, TimeInv, CompletedIsWhole,
        OverflowIsReported, CancellationBeatsDeadline, Tearing, Waiting, Reasons,
        group, signals, capture, verdict, Process
<1>1. CASE Refuse \/ StartFails
  BY <1>1 DEF Refuse, StartFails, Return
<1>2. CASE CancelledEarly
  <2>1. ~GroupExists'
    BY <1>2 DEF CancelledEarly, GroupExists, Member
  <2> QED
    BY <1>2, <2>1 DEF CancelledEarly, Return
<1>3. CASE Spawn
  BY <1>3 DEF Spawn
<1>4. CASE Open
  BY <1>4 DEF Open, Stop
<1> QED
  BY <1>1, <1>2, <1>3, <1>4 DEF Start

\* await_completion.
LEMMA AwaitKeepsInv ==
  ASSUME Inv, AwaitCompletion \/ Interrupted
  PROVE  Inv'
<1> USE CommandAssumption DEF Inv
<1>1. CASE Loop
  <2>1. life' = Polled /\ Polled \in [Process -> {"none", "running", "killed", "zombie", "gone"}]
    BY <1>1, PolledLife DEF Loop
  <2>2. \A f \in Pipe : AtEnd(f)' = AtEnd(f)
    BY <1>1 DEF Loop, AtEnd
  <2>3. pc' \in {"close", "look"} /\ (pc' = "close" => active = {} /\ life'[Leader] = "gone")
    BY <1>1, <2>1 DEF Loop, Finished
  <2> QED
    BY <1>1, <2>1, <2>2, <2>3
       DEF Loop, TypeOK, StageInv, GroupInv, OutputInv, TimeInv, CompletedIsWhole,
           OverflowIsReported, CancellationBeatsDeadline, Tearing, Waiting, Reasons,
           signals, capture, verdict
<1>2. CASE Look
  <2>1. life' = Polled /\ Polled \in [Process -> {"none", "running", "killed", "zombie", "gone"}]
    BY <1>2, PolledLife DEF Look
  <2>2. \A f \in Pipe : AtEnd(f)' = AtEnd(f)
    BY <1>2 DEF Look, AtEnd
  <2>3. /\ StopNow \in {"none", "cancelled"}
        /\ StopNow = "none" => token # "cancelled"
    BY DEF StopNow
  <2>4. CASE StopNow = "none"
    BY <1>2, <2>1, <2>2, <2>3, <2>4
       DEF Look, TypeOK, StageInv, GroupInv, OutputInv, TimeInv, CompletedIsWhole,
           OverflowIsReported, CancellationBeatsDeadline, Tearing, Waiting, Reasons,
           signals, capture, verdict
  <2>5. CASE StopNow # "none"
    BY <1>2, <2>1, <2>2, <2>3, <2>5
       DEF Look, Stop, TypeOK, StageInv, GroupInv, OutputInv, TimeInv, CompletedIsWhole,
           OverflowIsReported, CancellationBeatsDeadline, Tearing, Waiting, Reasons,
           signals, capture, verdict
  <2> QED
    BY <2>4, <2>5
<1>3. CASE LookAtClock
  <2>1. \A f \in Pipe : AtEnd(f)' = AtEnd(f)
    BY <1>3 DEF LookAtClock, AtEnd, group
  <2>2. ~inTime
    BY <1>3 DEF LookAtClock, TimeInv
  <2>3. UNCHANGED <<group, signals, capture, complete, outcome>>
    BY <1>3 DEF LookAtClock, Stop, verdict
  <2>4. /\ pc = "clock"
        /\ \/ pc' = "select" /\ reason' = reason
           \/ pc' = "terminate" /\ reason' = "timeout" /\ expired
    BY <1>3 DEF LookAtClock, Stop, verdict
  <2> QED
    BY <2>1, <2>2, <2>3, <2>4
       DEF TypeOK, StageInv, GroupInv, OutputInv, TimeInv, CompletedIsWhole,
           OverflowIsReported, CancellationBeatsDeadline, Tearing, Waiting, Reasons,
           group, signals, capture
<1>4. CASE Select \/ Interrupted \/ ConsumeWake \/ ConsumeDone
  <2>1. UNCHANGED <<group, signals, active, retained, lost, complete, outcome>>
    BY <1>4 DEF Select, Interrupted, ConsumeWake, ConsumeDone, Stop, capture, verdict
  <2>2. \A f \in Pipe : AtEnd(f)' = AtEnd(f)
    BY <2>1 DEF AtEnd, group
  <2>3. /\ pc \in {"select", "consume"} /\ ready' \subseteq Pipe \cup {Wake}
        /\ \/ pc' \in {"consume", "loop"} /\ reason' = reason
           \/ pc' = "terminate" /\ reason' \in {"interrupted", "cancelled"}
    BY <1>4 DEF Select, Interrupted, ConsumeWake, ConsumeDone, Stop, verdict, capture, Woken,
                Readable, TypeOK
  <2> QED
    BY <2>1, <2>2, <2>3
       DEF TypeOK, StageInv, GroupInv, OutputInv, TimeInv, CompletedIsWhole,
           OverflowIsReported, CancellationBeatsDeadline, Tearing, Waiting, Reasons,
           group, signals
<1>5. CASE \E f \in Pipe : ConsumeOutput(f)
  <2> PICK f \in Pipe : ConsumeOutput(f)
    BY <1>5
  <2>1. Read(f) /\ pc = "consume" /\ active' = LeftAfter(f) /\ UNCHANGED signals
    BY DEF ConsumeOutput
  <2>2. \A g \in Pipe \ active' : AtEnd(g)'
    <3>1. reason = "none" /\ \A g \in Pipe \ active : AtEnd(g)
      BY <2>1 DEF StageInv, OutputInv, Waiting
    <3>2. \A g \in active \ active' : AtEnd(g)
      BY <2>1, LeftAfterSubset
    <3> QED
      BY <2>1, <3>1, <3>2, ReadStep
  <2>3. /\ complete' = complete /\ outcome' = outcome /\ ready' \subseteq Pipe \cup {Wake}
        /\ \/ Overflows(f) /\ pc' = "terminate" /\ reason' = "overflow"
           \/ ~Overflows(f) /\ pc' = pc /\ reason' = reason
    BY DEF ConsumeOutput, Stop, verdict, TypeOK
  <2>4. active' \subseteq Pipe
    BY <2>1, LeftAfterSubset DEF TypeOK
  <2>5. reason = "none" /\ ~lost
    BY <2>1 DEF StageInv, Waiting, OverflowIsReported
  <2>6. reason' = "overflow" => lost' /\ retained' = Limit
    BY <2>1, <2>3, <2>5, ReadStep
  <2>7. reason' = "none" => ~lost'
    BY <2>1, <2>3, <2>5, ReadStep
  <2> QED
    BY <2>1, <2>2, <2>3, <2>4, <2>5, <2>6, <2>7, ReadStep
       DEF TypeOK, StageInv, GroupInv, OutputInv, TimeInv, CompletedIsWhole,
           OverflowIsReported, CancellationBeatsDeadline, Tearing, Waiting, Reasons, signals
<1> QED
  BY <1>1, <1>2, <1>3, <1>4, <1>5 DEF AwaitCompletion

\* _terminate_group.
LEMMA TeardownKeepsInv ==
  ASSUME Inv, TerminateGroup
  PROVE  Inv'
<1> USE CommandAssumption DEF Inv
\* Every step but the last ones: what the group and the verdict become.
<1>1. ASSUME pc \in Tearing, pc' \in Tearing,
             life' \in [Process -> {"none", "running", "killed", "zombie", "gone"}],
             complete' \in BOOLEAN,
             UNCHANGED <<grouped, holds, buffered, signals, capture, reason, outcome>>,
             pc' = "drain" /\ complete' => ~GroupExists'
      PROVE  Inv'
  <2>1. reason \in Reasons /\ reason # "none"
    BY <1>1 DEF StageInv, Reasons
  <2> QED
    BY <1>1, <2>1
       DEF TypeOK, StageInv, GroupInv, OutputInv, TimeInv, CompletedIsWhole,
           OverflowIsReported, CancellationBeatsDeadline, Tearing, Waiting, Reasons,
           signals, capture
<1>2. CASE Terminate \/ Check
  <2>1. ~GroupExists => ~GroupExists'
    BY <1>2 DEF Terminate, Check, GroupExists, Member, group
  <2> QED
    BY <1>1, <1>2, <2>1 DEF Terminate, Check, Tearing, TypeOK, group, verdict
<1>3. CASE Grace
  BY <1>1, <1>3, PolledLife DEF Grace, Tearing, verdict, TypeOK
<1>4. CASE Kill
  <2>1. life' \in [Process -> {"none", "running", "killed", "zombie", "gone"}]
    BY <1>4 DEF Kill, TypeOK
  <2>2. ~GroupExists => ~GroupExists'
    BY <1>4 DEF Kill, GroupExists, Member, Runs
  <2> QED
    BY <1>1, <1>4, <2>1, <2>2 DEF Kill, Tearing, verdict, TypeOK
<1>5. CASE Wait
  BY <1>1, <1>5, PolledLife DEF Wait, Tearing, TypeOK
<1>6. CASE Verify
  <2>1. ~GroupExists => ~GroupExists'
    BY <1>6 DEF Verify, GroupExists, Member, group
  <2>2. complete' \in BOOLEAN
    BY <1>6 DEF Verify, TornDown
  <2> QED
    BY <1>1, <1>6, <2>1, <2>2 DEF Verify, TornDown, Tearing, TypeOK, group
<1> QED
  BY <1>2, <1>3, <1>4, <1>5, <1>6 DEF TerminateGroup

\* _drain and _outcome.
LEMMA FinishKeepsInv ==
  ASSUME Inv, Finish
  PROVE  Inv'
<1> USE CommandAssumption DEF Inv
<1>1. CASE \E f \in Pipe : DrainOutput(f)
  <2> PICK f \in Pipe : DrainOutput(f)
    BY <1>1
  <2>1. Read(f) /\ pc = "drain" /\ active' = LeftAfter(f) /\ UNCHANGED <<signals, pc, ready, verdict>>
    BY DEF DrainOutput
  <2>2. active' \subseteq Pipe
    BY <2>1, LeftAfterSubset DEF TypeOK
  <2>3. reason \in Reasons /\ reason # "none"
    BY <2>1 DEF StageInv, Tearing, Reasons
  <2>4. GroupExists' = GroupExists
    BY <2>1, ReadStep DEF GroupExists, Member
  <2>5. reason = "overflow" => lost' /\ retained' = Limit
    BY <2>1, ReadStep DEF OverflowIsReported
  <2> QED
    BY <2>1, <2>2, <2>3, <2>4, <2>5, ReadStep
       DEF TypeOK, StageInv, GroupInv, OutputInv, TimeInv, CompletedIsWhole,
           OverflowIsReported, CancellationBeatsDeadline, Tearing, Waiting, Reasons,
           signals, verdict
<1>2. CASE DrainDone
  <2>1. /\ UNCHANGED <<group, signals, capture, verdict>> /\ pc = "drain" /\ pc' = "close"
        /\ GroupExists' = GroupExists
    BY <1>2 DEF DrainDone, GroupExists, Member, group
  <2>2. reason \in Reasons /\ reason # "none"
    BY <2>1 DEF StageInv, Tearing, Reasons
  <2> QED
    BY <2>1, <2>2
       DEF TypeOK, StageInv, GroupInv, OutputInv, TimeInv, CompletedIsWhole,
           OverflowIsReported, CancellationBeatsDeadline, Tearing, Waiting,
           group, signals, capture, verdict
<1>3. CASE Close
  <2>1. /\ UNCHANGED <<group, signals, capture, reason, complete>> /\ pc = "close"
        /\ pc' = "done" /\ outcome' = Outcome
        /\ GroupExists' = GroupExists /\ \A f \in Pipe : AtEnd(f)' = AtEnd(f)
    BY <1>3 DEF Close, Return, GroupExists, Member, AtEnd, group
  <2>2. /\ Outcome \in Reasons \cup {"completed", "teardown-failed"}
        /\ Outcome = "completed" => reason = "none" /\ complete
        /\ Outcome \in Reasons => reason # "none" /\ complete
    BY DEF Outcome, TypeOK, Reasons
  <2> QED
    BY <2>1, <2>2
       DEF TypeOK, StageInv, GroupInv, OutputInv, TimeInv, CompletedIsWhole,
           OverflowIsReported, CancellationBeatsDeadline, Tearing, Waiting, Reasons,
           group, signals, capture
<1> QED
  BY <1>1, <1>2, <1>3 DEF Finish

-----------------------------------------------------------------------------
(* The theorems.                                                           *)

LEMMA CallInvariant == Spec => []Inv
<1>1. Inv /\ UNCHANGED vars => Inv'
  BY DEF Inv, TypeOK, StageInv, GroupInv, OutputInv, TimeInv, CompletedIsWhole,
         OverflowIsReported, CancellationBeatsDeadline, GroupExists, Member, AtEnd,
         Waiting, Tearing, vars, group, signals, capture, verdict
<1>2. Inv /\ [Next]_vars => Inv'
  BY <1>1, EnvironmentKeepsInv, StartKeepsInv, AwaitKeepsInv, TeardownKeepsInv, FinishKeepsInv
     DEF Next, Runner
<1> QED
  BY <1>2, InvInit, PTL DEF Spec

\* Every variable of a call keeps its type; in particular no more bytes are kept than
\* the limit allows (_OutputCapture).
THEOREM CallTypeCorrect == Spec => []TypeOK
<1>1. Inv => TypeOK
  BY DEF Inv
<1> QED
  BY <1>1, CallInvariant, PTL

\* A call that reports that it stopped the command leaves nobody of its group behind,
\* however many processes the command started (_terminate_group).
THEOREM StoppedGroupsAreGone == Spec => []StoppedGroupIsGone
<1>1. Inv => StoppedGroupIsGone
  BY DEF Inv, GroupInv, StoppedGroupIsGone
<1> QED
  BY <1>1, CallInvariant, PTL

\* The output of a completed command is whole (await_completion).
THEOREM CompletedIsComplete == Spec => []CompletedIsWhole
<1>1. Inv => CompletedIsWhole
  BY DEF Inv
<1> QED
  BY <1>1, CallInvariant, PTL

\* Bytes are dropped only from a command that is then stopped, and too much output is
\* reported only with the limit reached (_OutputCapture, _consume_ready).
THEOREM OverflowsAreReported == Spec => []OverflowIsReported
<1>1. Inv => OverflowIsReported
  BY DEF Inv
<1> QED
  BY <1>1, CallInvariant, PTL

\* A cancellation before the deadline is not reported as a timeout, unless it comes
\* between the two looks of one round (await_completion 83, 85).
THEOREM CancellationsBeatDeadlines == Spec => []CancellationBeatsDeadline
<1>1. Inv => CancellationBeatsDeadline
  BY DEF Inv
<1> QED
  BY <1>1, CallInvariant, PTL
=============================================================================
