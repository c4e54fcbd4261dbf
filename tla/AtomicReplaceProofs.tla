------------------------- MODULE AtomicReplaceProofs -------------------------
(***************************************************************************)
(* The invariants of AtomicReplace and its refinement of Register, for     *)
(* every number of calls, failing system calls and crashes.                *)
(***************************************************************************)
EXTENDS AtomicReplaceInvariants, TLAPS

LEMMA CallTyped ==
  ASSUME TypeOK, NEW c \in Call
  PROVE  call[c] \in CallState
  BY DEF TypeOK

LEMMA Counted ==
  ASSUME TypeOK, Fault \/ Unfailing
  PROVE  faults' \in 0..MaxFaults /\ crashes' \in 0..MaxCrashes
  BY BoundAssumption DEF TypeOK, Fault, Unfailing

\* A step of one call that leaves the destination alone.
LEMMA QuietStep ==
  ASSUME Inv, NEW c \in Call, NEW k \in CallState,
         call' = [call EXCEPT ![c] = k],
         UNCHANGED <<dest, possible, older, syncable>>,
         faults' \in 0..MaxFaults, crashes' \in 0..MaxCrashes,
         Renamed(c) => "renamed" \in k.completed,
         RenameInv(c)', StageInv(c)', TempInv(c)',
         k.completed \cap {"directory_synced", "filesystem_synced"} # {} => ParentSynced(c),
         k.at \in Publishing \ {"close_directory"} =>
           call[c].at \in Publishing \ {"close_directory"}
  PROVE  Inv'
<1>1. TypeOK' /\ \A d \in Call \ {c} : call'[d] = call[d]
  BY DEF Inv, TypeOK
<1>2. call'[c] = k
  BY DEF Inv, TypeOK
<1>3. \A d \in Call : Renamed(d) => Renamed(d)'
  BY <1>1, <1>2 DEF Renamed
<1>4. \A f \in File \ {Old} : f \in Call
  BY DEF File
<1>5. NameInv'
  BY <1>3, <1>4 DEF NameInv, Inv, TypeOK
<1>6. ASSUME NEW d \in Call PROVE OlderInv(d)'
  <2>1. \A f \in older[d] \ {Old} : f \in Call /\ Renamed(f)'
    BY <1>3, <1>4 DEF Inv, TypeOK, CallInv, OlderInv
  <2>2. ParentSynced(d)' => ParentSynced(d)
    BY <1>1, <1>2 DEF ParentSynced
  <2>3. call'[d].at \in Publishing \ {"close_directory"} =>
          call[d].at \in Publishing \ {"close_directory"}
    BY <1>1, <1>2
  <2> QED
    BY <2>1, <2>2, <2>3 DEF Inv, CallInv, OlderInv
<1>7. ASSUME NEW d \in Call \ {c} PROVE RenameInv(d)' /\ StageInv(d)' /\ TempInv(d)'
  BY <1>1 DEF Inv, CallInv, RenameInv, StageInv, TempInv, At, Renamed, ParentSynced
<1> QED
  BY <1>1, <1>5, <1>6, <1>7 DEF Inv, CallInv

\* What a step makes of a call that has not renamed its file keeps the invariant.
LEMMA PreparingStep ==
  ASSUME Inv, NEW c \in Call, NEW k \in CallState,
         call' = [call EXCEPT ![c] = k],
         UNCHANGED <<dest, possible, older, syncable>>,
         Fault \/ Unfailing,
         call[c].at \in Preparing,
         \/ k.at \in Preparing /\ k.stage = None /\ k.cleaned
         \/ /\ k.at = "returned" /\ k.stage # None
            /\ k.cleaned /\ k.temp => k.stage = "create_temp",
         "renamed" \notin k.completed,
         k.completed \cap {"directory_synced", "filesystem_synced"} = {},
         k.at \in {"close_temp", "identity_recheck", "rename"} => k.data = "synced"
  PROVE  Inv'
<1>1. call'[c] = k
  BY DEF Inv, TypeOK
<1>2. faults' \in 0..MaxFaults /\ crashes' \in 0..MaxCrashes
  BY Counted DEF Inv
<1>3. ~Renamed(c) /\ ~Renamed(c)' /\ ~ParentSynced(c)'
  BY <1>1 DEF Inv, CallInv, RenameInv, Renamed, ParentSynced
<1>4. RenameInv(c)'
  BY <1>1, <1>3 DEF RenameInv, Preparing, Publishing
<1>5. StageInv(c)'
  BY <1>1, <1>3 DEF StageInv, Preparing, Publishing, At
<1>6. TempInv(c)'
  BY <1>1, <1>3 DEF TempInv, At, Preparing
<1>7. k.at \notin Publishing
  BY DEF Preparing, Publishing
<1> QED
  BY <1>2, <1>3, <1>4, <1>5, <1>6, <1>7, QuietStep

LEMMA PreparingFacts ==
  ASSUME Inv, NEW c \in Call, call[c].at \in Preparing
  PROVE  /\ call[c] \in CallState
         /\ "renamed" \notin call[c].completed
         /\ call[c].completed \cap {"directory_synced", "filesystem_synced"} = {}
         /\ call[c].stage = None /\ call[c].cleaned
         /\ call[c].at \in {"close_temp", "identity_recheck", "rename"} => call[c].data = "synced"
  BY CallTyped DEF Inv, CallInv, RenameInv, StageInv, Renamed, ParentSynced

\* Undoing a failure before the rename.
LEMMA UndoneStep ==
  ASSUME Inv, NEW c \in Call, call[c].at \in Preparing \ {"new"}, Undoes(c),
         UNCHANGED <<dest, possible, older, syncable>>, Fault \/ Unfailing
  PROVE  Inv'
<1>1. PICK cleaned \in BOOLEAN :
        call' = [call EXCEPT ![c] = [@ EXCEPT !.at = "returned", !.stage = call[c].at,
                                              !.temp = ~cleaned, !.cleaned = cleaned]]
  BY DEF Undoes
<1> DEFINE k == [call[c] EXCEPT !.at = "returned", !.stage = call[c].at,
                                !.temp = ~cleaned, !.cleaned = cleaned]
<1>2. call[c] \in CallState /\ call[c].at \in FailureStage
  BY PreparingFacts DEF Preparing, FailureStage
<1>3. k \in CallState
  BY <1>2 DEF CallState
<1>4. k.at = "returned" /\ k.stage # None /\ k.temp = ~cleaned /\ k.cleaned = cleaned
      /\ k.completed = call[c].completed
  BY <1>2 DEF CallState, Preparing, None
<1>5. call' = [call EXCEPT ![c] = k]
  BY <1>1
<1> HIDE DEF k
<1> QED
  BY <1>3, <1>4, <1>5, PreparingFacts, PreparingStep

\* A call that goes on towards the rename.
LEMMA GoesOn ==
  ASSUME Inv, NEW c \in Call, NEW k \in CallState,
         call[c].at \in Preparing, call' = [call EXCEPT ![c] = k],
         UNCHANGED <<dest, possible, older, syncable>>, Unfailing,
         k.at \in Preparing, k.stage = None, k.cleaned,
         "renamed" \notin k.completed,
         k.completed \cap {"directory_synced", "filesystem_synced"} = {},
         k.at \in {"close_temp", "identity_recheck", "rename"} => k.data = "synced"
  PROVE  Inv'
  BY PreparingStep

LEMMA PassesStep ==
  ASSUME Inv, NEW c \in Call, call[c].at \in Preparing,
         NEW next \in Preparing \cap FailureStage,
         NEW boundary \in {"data_written", "data_flushed", "file_synced"},
         NEW data \in {"part", "whole", "synced"},
         next \in {"close_temp", "identity_recheck", "rename"} => data = "synced",
         Passes(c, next, boundary, data), Unfailing,
         UNCHANGED <<dest, possible, older, syncable>>
  PROVE  Inv'
<1> DEFINE k == [call[c] EXCEPT !.at = next, !.data = data,
                                !.completed = call[c].completed \cup {boundary}]
<1>1. boundary \in Boundary
  BY DEF Boundary
<1>2. k \in CallState
  BY <1>1, PreparingFacts DEF CallState
<1>3. /\ k.at = next /\ k.data = data /\ k.stage = None /\ k.cleaned
      /\ k.completed = call[c].completed \cup {boundary}
  BY PreparingFacts DEF CallState
<1>4. call' = [call EXCEPT ![c] = k]
  BY DEF Passes
<1>5. /\ "renamed" \notin k.completed
      /\ k.completed \cap {"directory_synced", "filesystem_synced"} = {}
  BY <1>3, PreparingFacts
<1> HIDE DEF k
<1> QED
  BY <1>2, <1>3, <1>4, <1>5, GoesOn

LEMMA PreparesStep ==
  ASSUME Inv, NEW c \in Call, Prepares(c)
  PROVE  Inv'
<1>1. CASE Begin(c)
  <2>1. PICK x \in {None} \cup (IF c \in Plain THEN {} ELSE {dest}) :
          call' = [call EXCEPT ![c] = [@ EXCEPT !.at = "create_temp", !.expected = x]]
    BY <1>1 DEF Begin
  <2> DEFINE k == [call[c] EXCEPT !.at = "create_temp", !.expected = x]
  <2>2. call[c].at \in Preparing /\ x \in File \cup {None}
    BY <1>1 DEF Begin, At, Preparing, Inv, TypeOK
  <2>3. /\ k \in CallState /\ k.at = "create_temp" /\ k.stage = None /\ k.cleaned
        /\ k.completed = call[c].completed
    BY <2>2, PreparingFacts DEF CallState, FailureStage
  <2>4. call' = [call EXCEPT ![c] = k] /\ Unfailing /\ UNCHANGED <<dest, possible, older, syncable>>
    BY <1>1, <2>1 DEF Begin
  <2>5. k.at \in Preparing /\ k.at \notin {"close_temp", "identity_recheck", "rename"}
    BY <2>3 DEF Preparing
  <2> HIDE DEF k
  <2> QED
    BY <2>2, <2>3, <2>4, <2>5, PreparingFacts, GoesOn
<1>2. CASE CreateTempFails(c)
  <2>1. PICK left \in BOOLEAN :
          call' = [call EXCEPT ![c] = [@ EXCEPT !.at = "returned", !.stage = "create_temp",
                                                !.temp = left]]
    BY <1>2 DEF CreateTempFails
  <2> DEFINE k == [call[c] EXCEPT !.at = "returned", !.stage = "create_temp", !.temp = left]
  <2>2. call[c].at \in Preparing
    BY <1>2 DEF CreateTempFails, At, Preparing
  <2>3. /\ k \in CallState /\ k.at = "returned" /\ k.stage = "create_temp"
        /\ k.completed = call[c].completed
    BY <2>2, PreparingFacts DEF CallState, FailureStage
  <2>4. call' = [call EXCEPT ![c] = k] /\ Fault /\ UNCHANGED <<dest, possible, older, syncable>>
    BY <1>2, <2>1 DEF CreateTempFails
  <2>5. k.stage # None
    BY <2>3 DEF None
  <2> HIDE DEF k
  <2> QED
    BY <2>2, <2>3, <2>4, <2>5, PreparingFacts, PreparingStep
<1>3. CASE CreateTemp(c)
  <2> DEFINE k == [call[c] EXCEPT !.at = "write", !.data = "part", !.temp = TRUE,
                                  !.completed = {"temp_created"}]
  <2>1. call[c].at \in Preparing
    BY <1>3 DEF CreateTemp, At, Preparing
  <2>5. {"temp_created"} \in SUBSET Boundary /\ "write" \in FailureStage
    BY DEF Boundary, FailureStage
  <2>2. /\ k \in CallState /\ k.at = "write" /\ k.stage = None /\ k.cleaned
        /\ k.completed = {"temp_created"}
    BY <2>1, <2>5, PreparingFacts DEF CallState
  <2>3. call' = [call EXCEPT ![c] = k] /\ Unfailing /\ UNCHANGED <<dest, possible, older, syncable>>
    BY <1>3 DEF CreateTemp
  <2>4. k.at \in Preparing /\ k.at \notin {"close_temp", "identity_recheck", "rename"}
    BY <2>2 DEF Preparing
  <2> HIDE DEF k
  <2> QED
    BY <2>1, <2>2, <2>3, <2>4, GoesOn
<1>4. CASE WriteData(c)
  BY <1>4, PassesStep DEF WriteData, At, Preparing, FailureStage
<1>5. CASE Flush(c)
  BY <1>5, PassesStep DEF Flush, At, Preparing, FailureStage
<1>6. CASE SyncFile(c)
  BY <1>6, PassesStep DEF SyncFile, At, Preparing, FailureStage
<1>7. CASE CloseTemp(c) \/ (RecheckIdentity(c) /\ Matches(c))
  <2>1. PICK next \in {"identity_recheck", "rename"} : call' = [call EXCEPT ![c].at = next]
    BY <1>7 DEF CloseTemp, RecheckIdentity
  <2>2. /\ call[c].at \in Preparing /\ call[c].at \in {"close_temp", "identity_recheck"}
        /\ Unfailing /\ UNCHANGED <<dest, possible, older, syncable>>
    BY <1>7 DEF CloseTemp, RecheckIdentity, At, Preparing
  <2> DEFINE k == [call[c] EXCEPT !.at = next]
  <2>3. /\ k \in CallState /\ k.at = next /\ k.stage = None /\ k.cleaned
        /\ k.completed = call[c].completed /\ k.data = "synced"
    BY <2>2, PreparingFacts DEF CallState, FailureStage
  <2>4. call' = [call EXCEPT ![c] = k]
    BY <2>1
  <2>5. k.at \in Preparing
    BY <2>3 DEF Preparing
  <2> HIDE DEF k
  <2> QED
    BY <2>2, <2>3, <2>4, <2>5, PreparingFacts, GoesOn
<1>8. CASE RecheckIdentity(c) /\ ~Matches(c)
  <2>1. call[c].at \in Preparing \ {"new"}
    BY <1>8 DEF RecheckIdentity, At, Preparing
  <2> QED
    BY <1>8, <2>1, UndoneStep DEF RecheckIdentity
<1>9. CASE FailsBeforeRename(c)
  <2>1. call[c].at \in Preparing \ {"new"}
    BY <1>9 DEF FailsBeforeRename, Preparing
  <2> QED
    BY <1>9, <2>1, UndoneStep DEF FailsBeforeRename
<1> QED
  BY <1>1, <1>2, <1>3, <1>4, <1>5, <1>6, <1>7, <1>8, <1>9 DEF Prepares

LEMMA PublishingFacts ==
  ASSUME Inv, NEW c \in Call, call[c].at \in Publishing
  PROVE  /\ call[c] \in CallState
         /\ "renamed" \in call[c].completed
         /\ call[c].data = "synced" /\ ~call[c].temp /\ call[c].cleaned
         /\ call[c].at # "close_directory" => call[c].stage = None /\ ~ParentSynced(c)
         /\ call[c].at = "close_directory" /\ call[c].stage = None => ParentSynced(c)
  BY CallTyped DEF Inv, CallInv, RenameInv, StageInv, TempInv, Renamed, At

\* A step after the rename that syncs nothing.
LEMMA PublishingStep ==
  ASSUME Inv, NEW c \in Call, call[c].at \in Publishing,
         NEW at \in FailureStage \cup {"returned"}, NEW stage \in FailureStage \cup {None},
         call' = [call EXCEPT ![c] = [call[c] EXCEPT !.at = at, !.stage = stage]],
         UNCHANGED <<dest, possible, older, syncable>>, Fault \/ Unfailing,
         \/ /\ at \in Publishing \ {"close_directory"} /\ stage = None
            /\ call[c].at # "close_directory"
         \/ at = "close_directory" /\ stage # None
         \/ at = "returned" /\ (stage = None => c \in Plain \/ ParentSynced(c))
  PROVE  Inv'
<1> DEFINE k == [call[c] EXCEPT !.at = at, !.stage = stage]
<1>1. k \in CallState
  BY PublishingFacts DEF CallState
<1>2. /\ k.at = at /\ k.stage = stage /\ k.completed = call[c].completed
      /\ k.data = "synced" /\ ~k.temp /\ k.cleaned
  BY PublishingFacts DEF CallState
<1>3. call' = [call EXCEPT ![c] = k] /\ call'[c] = k
  BY DEF Inv, TypeOK
<1>4. faults' \in 0..MaxFaults /\ crashes' \in 0..MaxCrashes
  BY Counted DEF Inv
<1> HIDE DEF k
<1>5. Renamed(c)' /\ (ParentSynced(c)' <=> ParentSynced(c))
  BY <1>2, <1>3, PublishingFacts DEF Renamed, ParentSynced
<1>6. at \notin Preparing /\ (at \in Publishing \/ at = "returned")
  BY DEF Preparing, Publishing
<1>7. RenameInv(c)'
  BY <1>2, <1>3, <1>5, <1>6 DEF RenameInv
<1>8. StageInv(c)'
  <2>1. at # "close_directory" /\ at # "returned" =>
          stage = None /\ ~ParentSynced(c)
    BY PublishingFacts DEF Publishing
  <2>2. at = "close_directory" => stage # None
    BY DEF Publishing
  <2>3. at = "returned" => (stage = None => c \in Plain \/ ParentSynced(c))
    BY DEF Publishing
  <2>4. call'[c].at = at /\ call'[c].stage = stage
    BY <1>2, <1>3
  <2>5. /\ At(c, "close_directory")' <=> at = "close_directory"
        /\ At(c, "returned")' <=> at = "returned"
    BY <2>4 DEF At
  <2>6. call'[c].at \in Publishing \ {"close_directory"} => stage = None /\ ~ParentSynced(c)
    BY <2>1, <2>4 DEF Publishing
  <2> QED
    BY <1>5, <1>6, <2>2, <2>3, <2>4, <2>5, <2>6 DEF StageInv
<1>9. TempInv(c)'
  BY <1>2, <1>3 DEF TempInv
<1>10. at \in Publishing \ {"close_directory"} => call[c].at \in Publishing \ {"close_directory"}
  BY DEF Publishing
<1>11. k.completed \cap {"directory_synced", "filesystem_synced"} # {} => ParentSynced(c)
  BY <1>2 DEF ParentSynced
<1>12. "renamed" \in k.completed
  BY <1>2, PublishingFacts
<1> QED
  BY <1>1, <1>2, <1>3, <1>4, <1>7, <1>8, <1>9, <1>10, <1>11, <1>12, QuietStep

\* The other calls do not notice a step of this one.
LEMMA OthersKeep ==
  ASSUME Inv, NEW c \in Call, NEW k \in CallState, call' = [call EXCEPT ![c] = k],
         NEW d \in Call \ {c}
  PROVE  /\ RenameInv(d)' /\ StageInv(d)' /\ TempInv(d)'
         /\ Renamed(d)' <=> Renamed(d)
         /\ ParentSynced(d)' <=> ParentSynced(d)
         /\ call'[d].at = call[d].at
<1>1. call'[d] = call[d]
  BY DEF Inv, TypeOK
<1> QED
  BY <1>1 DEF Inv, CallInv, RenameInv, StageInv, TempInv, At, Renamed, ParentSynced

LEMMA SyncsStep ==
  ASSUME Inv, NEW c \in Call, NEW boundary \in {"directory_synced", "filesystem_synced"},
         call[c].at \in Publishing \ {"close_directory"}, Syncs(c, boundary)
  PROVE  Inv'
<1> DEFINE k == [call[c] EXCEPT !.at = "close_directory", !.data = call[c].data,
                                !.completed = call[c].completed \cup {boundary}]
<1>1. boundary \in Boundary /\ "close_directory" \in FailureStage
  BY DEF Boundary, FailureStage
<1>2. k \in CallState
  BY <1>1, PublishingFacts DEF CallState
<1>3. /\ k.at = "close_directory" /\ k.stage = None /\ k.data = "synced"
      /\ ~k.temp /\ k.cleaned /\ k.completed = call[c].completed \cup {boundary}
  BY PublishingFacts DEF CallState
<1>4. call' = [call EXCEPT ![c] = k] /\ call'[c] = k
  BY DEF Syncs, Passes, Inv, TypeOK
<1> HIDE DEF k
<1>5. Renamed(c)' /\ ParentSynced(c)'
  BY <1>3, <1>4, PublishingFacts DEF Renamed, ParentSynced
<1>6. RenameInv(c)' /\ StageInv(c)' /\ TempInv(c)'
  BY <1>3, <1>4, <1>5 DEF RenameInv, StageInv, TempInv, At, Preparing, Publishing
<1>7. /\ dest' = dest /\ possible' = {dest} /\ older' = older /\ dest \in possible
      /\ dest \notin older[c]
  BY DEF Syncs, Inv, NameInv, CallInv, OlderInv
<1>8. \A d \in Call : Renamed(d) => Renamed(d)'
  BY <1>2, <1>4, <1>5, OthersKeep
<1>9. NameInv'
  BY <1>7, <1>8 DEF NameInv, Inv, TypeOK, File
<1>10. ASSUME NEW d \in Call PROVE OlderInv(d)'
  <2>1. \A f \in older[d] \ {Old} : Renamed(f)'
    BY <1>8 DEF Inv, TypeOK, CallInv, OlderInv, File
  <2>2. CASE d = c
    BY <1>3, <1>4, <1>7, <2>1, <2>2 DEF OlderInv
  <2>3. CASE d # c
    BY <1>2, <1>4, <1>7, <2>1, <2>3, OthersKeep DEF OlderInv, Inv, CallInv
  <2> QED
    BY <2>2, <2>3
<1>11. TypeOK'
  BY <1>2, <1>4, <1>7, Counted DEF Syncs, Inv, TypeOK
<1> QED
  BY <1>2, <1>4, <1>6, <1>9, <1>10, <1>11, OthersKeep DEF Inv, CallInv

LEMMA RenameStep ==
  ASSUME Inv, NEW c \in Call, Rename(c)
  PROVE  Inv'
<1> DEFINE k == [call[c] EXCEPT !.at = "open_directory", !.temp = FALSE,
                                !.completed = call[c].completed \cup {"renamed"}]
<1>1. "renamed" \in Boundary /\ "open_directory" \in FailureStage
  BY DEF Boundary, FailureStage
<1>2. call[c].at \in Preparing /\ call[c].at = "rename"
  BY DEF Rename, At, Preparing
<1>3. k \in CallState
  BY <1>1, <1>2, PreparingFacts DEF CallState
<1>4. /\ k.at = "open_directory" /\ k.stage = None /\ k.data = "synced"
      /\ ~k.temp /\ k.cleaned /\ k.completed = call[c].completed \cup {"renamed"}
  BY <1>2, PreparingFacts DEF CallState
<1>5. call' = [call EXCEPT ![c] = k] /\ call'[c] = k
  BY DEF Rename, Inv, TypeOK
<1> HIDE DEF k
<1>6. Renamed(c)' /\ ~ParentSynced(c)'
  BY <1>2, <1>4, <1>5, PreparingFacts DEF Renamed, ParentSynced
<1>7. RenameInv(c)' /\ StageInv(c)' /\ TempInv(c)'
  BY <1>4, <1>5, <1>6 DEF RenameInv, StageInv, TempInv, At, Preparing, Publishing
<1>8. c # Old /\ ~Renamed(c)
  BY <1>2, CallAssumption DEF Inv, CallInv, RenameInv
<1>9. c \notin possible /\ \A d \in Call : c \notin older[d]
  BY <1>8 DEF Inv, NameInv, CallInv, OlderInv
<1>10. dest' = c /\ possible' = possible \cup {c} /\ older' = [older EXCEPT ![c] = possible]
  BY DEF Rename
<1>11. \A d \in Call : Renamed(d) => Renamed(d)'
  BY <1>3, <1>5, <1>6, OthersKeep
<1>12. NameInv'
  BY <1>6, <1>10, <1>11 DEF NameInv, Inv, TypeOK, File
<1>13. ASSUME NEW d \in Call PROVE OlderInv(d)'
  <2>1. CASE d = c
    <3>1. older'[d] = possible
      BY <1>10, <2>1 DEF Inv, TypeOK
    <3>2. \A f \in older'[d] \ {Old} : Renamed(f)'
      BY <1>11, <3>1 DEF Inv, TypeOK, NameInv, File
    <3> QED
      BY <1>6, <1>9, <1>10, <2>1, <3>1, <3>2 DEF OlderInv
  <2>2. CASE d # c
    <3>1. older'[d] = older[d]
      BY <1>10, <2>2 DEF Inv, TypeOK
    <3>2. \A f \in older'[d] \ {Old} : Renamed(f)'
      BY <1>11, <3>1 DEF Inv, TypeOK, CallInv, OlderInv, File
    <3>3. /\ ParentSynced(d)' => possible \cap older[d] = {}
      BY <1>3, <1>5, <2>2, OthersKeep DEF Inv, CallInv, OlderInv
    <3> QED
      BY <1>9, <1>10, <3>1, <3>2, <3>3 DEF OlderInv
  <2> QED
    BY <2>1, <2>2
<1>14. TypeOK'
  <2>1. dest' \in File /\ possible' \subseteq File /\ older' \in [Call -> SUBSET File]
    BY <1>10 DEF Inv, TypeOK, File
  <2> QED
    BY <1>3, <1>5, <2>1, Counted DEF Rename, Inv, TypeOK
<1> QED
  BY <1>3, <1>5, <1>7, <1>12, <1>13, <1>14, OthersKeep DEF Inv, CallInv

LEMMA PublishesStep ==
  ASSUME Inv, NEW c \in Call, Publishes(c)
  PROVE  Inv'
<1>1. CASE Rename(c)
  BY <1>1, RenameStep
<1>2. CASE OpenDirectory(c)
  <2>1. /\ call[c].at = "open_directory" /\ call[c].at \in Publishing
        /\ call[c].stage = None
    BY <1>2, PublishingFacts DEF OpenDirectory, At, Publishing
  <2>2. call' = [call EXCEPT ![c] = [call[c] EXCEPT !.at = "directory_fsync", !.stage = None]]
    BY <1>2, <2>1, PublishingFacts DEF OpenDirectory, CallState
  <2>3. /\ "directory_fsync" \in FailureStage /\ call[c].at # "close_directory"
        /\ "directory_fsync" \in Publishing \ {"close_directory"}
        /\ Unfailing /\ UNCHANGED <<dest, possible, older, syncable>>
    BY <1>2, <2>1 DEF OpenDirectory, Publishing, FailureStage
  <2> QED
    BY <2>1, <2>2, <2>3, PublishingStep
<1>3. CASE OpenDirectoryFails(c)
  <2> DEFINE stage == IF c \in Plain THEN None ELSE "open_directory"
  <2>1. call[c].at \in Publishing /\ stage \in FailureStage \cup {None}
    BY <1>3 DEF OpenDirectoryFails, At, Publishing, FailureStage
  <2>2. stage = None => c \in Plain
    BY DEF None
  <2>3. call' = [call EXCEPT ![c] = [call[c] EXCEPT !.at = "returned", !.stage = stage]]
    BY <1>3 DEF OpenDirectoryFails
  <2> HIDE DEF stage
  <2> QED
    BY <1>3, <2>1, <2>2, <2>3, PublishingStep DEF OpenDirectoryFails
<1>4. CASE SyncDirectory(c) \/ SyncFilesystem(c)
  BY <1>4, SyncsStep DEF SyncDirectory, SyncFilesystem, At, Publishing
<1>5. CASE FailsAfterRename(c) /\ (SyncUnsupported(c) \/ SyncFails(c))
  <2>1. /\ call[c].at \in Publishing /\ call[c].at \in FailureStage /\ call[c].at # None
        /\ Fault \/ Unfailing
        /\ UNCHANGED <<dest, possible, older, syncable>>
    BY <1>5 DEF SyncUnsupported, SyncFails, At, Publishing, FailureStage, None
  <2>2. call' = [call EXCEPT ![c] = [call[c] EXCEPT !.at = "close_directory",
                                                    !.stage = call[c].at]]
    BY <1>5 DEF FailsAfterRename
  <2>3. "close_directory" \in FailureStage
    BY DEF FailureStage
  <2> QED
    BY <2>1, <2>2, <2>3, PublishingStep
<1>6. CASE SyncUnsupported(c) /\ c \notin Plain
  <2>1. /\ call[c].at = "directory_fsync" /\ call[c].at \in Publishing
        /\ call[c].stage = None
    BY <1>6, PublishingFacts DEF SyncUnsupported, At, Publishing
  <2>2. call' = [call EXCEPT ![c] = [call[c] EXCEPT !.at = "syncfs", !.stage = None]]
    BY <1>6, <2>1, PublishingFacts DEF SyncUnsupported, CallState
  <2>3. /\ "syncfs" \in FailureStage /\ call[c].at # "close_directory"
        /\ "syncfs" \in Publishing \ {"close_directory"}
        /\ Unfailing /\ UNCHANGED <<dest, possible, older, syncable>>
    BY <1>6, <2>1 DEF SyncUnsupported, Publishing, FailureStage
  <2> QED
    BY <2>1, <2>2, <2>3, PublishingStep
<1>7. CASE CloseDirectory(c)
  <2>1. call[c].at \in Publishing /\ call[c].stage \in FailureStage \cup {None}
    BY <1>7, PublishingFacts DEF CloseDirectory, At, Publishing, CallState
  <2>2. call' = [call EXCEPT ![c] = [call[c] EXCEPT !.at = "returned", !.stage = call[c].stage]]
    BY <1>7, <2>1, PublishingFacts DEF CloseDirectory, CallState
  <2>3. /\ call[c].stage = None => c \in Plain \/ ParentSynced(c)
        /\ Unfailing /\ UNCHANGED <<dest, possible, older, syncable>>
    BY <1>7, <2>1, PublishingFacts DEF CloseDirectory, At
  <2> QED
    BY <2>1, <2>2, <2>3, PublishingStep
<1>8. CASE CloseDirectoryFails(c)
  <2> DEFINE stage == IF call[c].stage = None THEN "close_directory" ELSE call[c].stage
  <2>1. call[c].at \in Publishing /\ stage \in FailureStage \cup {None}
    BY <1>8, PublishingFacts DEF CloseDirectoryFails, At, Publishing, CallState, FailureStage
  <2>2. stage # None
    BY DEF None
  <2>3. call' = [call EXCEPT ![c] = [call[c] EXCEPT !.at = "returned", !.stage = stage]]
    BY <1>8 DEF CloseDirectoryFails
  <2> HIDE DEF stage
  <2> QED
    BY <1>8, <2>1, <2>2, <2>3, PublishingStep DEF CloseDirectoryFails
<1>9. SyncUnsupported(c) /\ c \in Plain => FailsAfterRename(c)
  BY DEF SyncUnsupported
<1>10. SyncFails(c) => FailsAfterRename(c)
  BY DEF SyncFails
<1> QED
  BY <1>1, <1>2, <1>3, <1>4, <1>5, <1>6, <1>7, <1>8, <1>9, <1>10 DEF Publishes

\* What a process that dies leaves of its call.
LEMMA LostFacts ==
  ASSUME TypeOK, NEW c \in Call
  PROVE  /\ Lost(c) \in CallState /\ Lost(c).at = "lost"
         /\ Lost(c).completed = call[c].completed /\ Lost(c).data = call[c].data
         /\ Lost(c).temp = call[c].temp
  BY CallTyped DEF Lost, CallState

LEMMA LostInv ==
  ASSUME Inv, NEW c \in Call, call'[c] = Lost(c)
  PROVE  /\ RenameInv(c)' /\ StageInv(c)' /\ TempInv(c)'
         /\ Renamed(c)' <=> Renamed(c)
         /\ ParentSynced(c)' <=> ParentSynced(c)
<1>1. TypeOK
  BY DEF Inv
<1>2. (Renamed(c)' <=> Renamed(c)) /\ (ParentSynced(c)' <=> ParentSynced(c))
  BY <1>1, LostFacts DEF Renamed, ParentSynced
<1>3. call'[c].at = "lost" /\ call'[c].data = call[c].data /\ call'[c].temp = call[c].temp
  BY <1>1, LostFacts
<1>4. RenameInv(c) /\ StageInv(c) /\ TempInv(c)
  BY DEF Inv, CallInv
<1> QED
  BY <1>2, <1>3, <1>4 DEF RenameInv, StageInv, TempInv, At, Preparing, Publishing

LEMMA KillStep ==
  ASSUME Inv, NEW c \in Call, Kill(c)
  PROVE  Inv'
<1>1. call' = [call EXCEPT ![c] = Lost(c)] /\ call'[c] = Lost(c)
  BY DEF Kill, Inv, TypeOK
<1>2. faults' \in 0..MaxFaults /\ crashes' \in 0..MaxCrashes
  BY BoundAssumption DEF Kill, Inv, TypeOK
<1>3. /\ Lost(c) \in CallState /\ Lost(c).at = "lost"
      /\ Lost(c).completed = call[c].completed
  BY LostFacts DEF Inv
<1>4. Lost(c).at \notin Publishing
  BY <1>3 DEF Publishing
<1>5. /\ Renamed(c) => "renamed" \in Lost(c).completed
      /\ Lost(c).completed \cap {"directory_synced", "filesystem_synced"} # {} => ParentSynced(c)
  BY <1>3 DEF Renamed, ParentSynced
<1>6. UNCHANGED <<dest, possible, older, syncable>>
  BY DEF Kill
<1> QED
  BY <1>1, <1>2, <1>3, <1>4, <1>5, <1>6, LostInv, QuietStep

LEMMA PowerLossStep ==
  ASSUME Inv, PowerLoss
  PROVE  Inv'
<1>1. PICK f \in possible : dest' = f /\ possible' = {f}
  BY DEF PowerLoss
<1>2. /\ call' = [d \in Call |-> IF Running(d) THEN Lost(d) ELSE call[d]]
      /\ older' = older
  BY DEF PowerLoss
<1>3. ASSUME NEW d \in Call
      PROVE  /\ RenameInv(d)' /\ StageInv(d)' /\ TempInv(d)'
             /\ Renamed(d)' <=> Renamed(d)
             /\ ParentSynced(d)' <=> ParentSynced(d)
             /\ call'[d].at \notin Publishing
             /\ call'[d] \in CallState
  <2>1. CASE Running(d)
    <3>1. call'[d] = Lost(d) /\ call'[d].at = "lost" /\ call'[d] \in CallState
      BY <1>2, <2>1, LostFacts DEF Inv
    <3> QED
      BY <3>1, LostInv DEF Publishing
  <2>2. CASE ~Running(d)
    <3>1. call'[d] = call[d]
      BY <1>2, <2>2
    <3>2. call[d].at \notin Publishing
      BY <2>2 DEF Running, Publishing, FailureStage
    <3> QED
      BY <3>1, <3>2, CallTyped
         DEF Inv, CallInv, RenameInv, StageInv, TempInv, At, Renamed, ParentSynced
  <2> QED
    BY <2>1, <2>2
<1>4. NameInv'
  BY <1>1, <1>3 DEF NameInv, Inv, TypeOK, File
<1>5. ASSUME NEW d \in Call PROVE OlderInv(d)'
  <2>1. \A g \in older[d] \ {Old} : Renamed(g)'
    BY <1>3 DEF Inv, TypeOK, CallInv, OlderInv, File
  <2> QED
    BY <1>1, <1>2, <1>3, <2>1 DEF OlderInv, Inv, CallInv
<1>6. TypeOK'
  <2>1. call' \in [Call -> CallState]
    BY <1>2, <1>3
  <2>2. dest' \in File /\ possible' \subseteq File
    BY <1>1 DEF Inv, TypeOK
  <2> QED
    BY <2>1, <2>2, BoundAssumption DEF PowerLoss, Inv, TypeOK
<1> QED
  BY <1>3, <1>4, <1>5, <1>6 DEF Inv, CallInv

THEOREM Invariance == Spec => []Inv
<1>1. Init => Inv
  <2> SUFFICES ASSUME Init PROVE Inv
    OBVIOUS
  <2>1. Fresh \in CallState
    BY DEF Fresh, CallState
  <2>2. \A c \in Call : call[c] = Fresh /\ older[c] = {}
    BY DEF Init
  <2>3. TypeOK
    BY <2>1, BoundAssumption DEF Init, TypeOK, File
  <2>4. ASSUME NEW c \in Call PROVE CallInv(c)
    <3>1. /\ call[c].at = "new" /\ call[c].stage = None /\ call[c].completed = {}
          /\ call[c].cleaned /\ ~call[c].temp /\ older[c] = {}
      BY <2>2 DEF Fresh
    <3>2. ~Renamed(c) /\ ~ParentSynced(c)
      BY <3>1 DEF Renamed, ParentSynced
    <3> QED
      BY <3>1, <3>2
         DEF CallInv, RenameInv, StageInv, OlderInv, TempInv, At, Preparing, Publishing
  <2>5. NameInv
    BY DEF Init, NameInv
  <2> QED
    BY <2>3, <2>4, <2>5 DEF Inv
<1>2. Inv /\ [Next]_vars => Inv'
  <2> SUFFICES ASSUME Inv, [Next]_vars PROVE Inv'
    OBVIOUS
  <2>1. CASE UNCHANGED vars
    BY <2>1 DEF vars, Inv, TypeOK, NameInv, CallInv, RenameInv, StageInv, OlderInv, TempInv, At,
                Renamed, ParentSynced
  <2> QED
    BY <2>1, PreparesStep, PublishesStep, KillStep, PowerLossStep DEF Next
<1> QED
  BY <1>1, <1>2, PTL DEF Spec

\* Every variable keeps its type.
THEOREM TypeCorrect == Spec => []TypeOK
<1>1. Inv => TypeOK
  BY DEF Inv
<1> QED
  BY <1>1, Invariance, PTL

\* Whatever a loss of power leaves at the destination was synced before it got
\* the name.
THEOREM SurvivorsWhole == Spec => []SurvivorsAreWhole
<1>1. Inv => SurvivorsAreWhole
  BY DEF Inv, NameInv, CallInv, RenameInv, SurvivorsAreWhole, TypeOK, File
<1> QED
  BY <1>1, Invariance, PTL

\* Nothing that a committed replacement replaced comes back.
THEOREM CommittedDurable == Spec => []CommittedIsDurable
<1>1. Inv => CommittedIsDurable
  BY DEF Inv, CallInv, StageInv, OlderInv, CommittedIsDurable, Claims,
         ParentSynced, At
<1> QED
  BY <1>1, Invariance, PTL

-----------------------------------------------------------------------------
(* The refinement.                                                         *)

EffectFacts(c, k) ==
  /\ k.at \in {"new", "lost"} => Effect(c, k) = k.at
  /\ k.at = "rename" => Effect(c, k) = "compared"
  /\ k.at \in Preparing \ {"new", "rename"} /\ "renamed" \notin k.completed =>
       Effect(c, k) = "pending"
  /\ k.at \in Publishing /\ "renamed" \in k.completed => Effect(c, k) = "visible"
  /\ k.at = "returned" /\ "renamed" \notin k.completed => Effect(c, k) = "failed"
  /\ k.at = "returned" /\ "renamed" \in k.completed =>
       Effect(c, k) = IF Claims(c, k) THEN "committed" ELSE "unsure"

LEMMA EffectValues ==
  ASSUME NEW c \in Call, NEW k
  PROVE  EffectFacts(c, k)
<1>1. CASE k.at \in {"new", "lost"}
  BY <1>1 DEF EffectFacts, Effect, Preparing, Publishing, FailureStage
<1>2. CASE k.at = "rename"
  BY <1>2 DEF EffectFacts, Effect, Preparing, Publishing, FailureStage
<1>3. CASE k.at \in FailureStage \ {"rename"}
  BY <1>3 DEF EffectFacts, Effect, Preparing, Publishing, FailureStage
<1>4. CASE k.at = "returned"
  BY <1>4 DEF EffectFacts, Effect, Preparing, Publishing, FailureStage
<1>5. CASE k.at \notin {"new", "lost", "rename", "returned"} \cup FailureStage
  BY <1>5 DEF EffectFacts, Preparing, Publishing, FailureStage
<1> QED
  BY <1>1, <1>2, <1>3, <1>4, <1>5

Effects == [c \in Call |-> Effect(c, call[c])]
Expectations == [c \in Call |-> call[c].expected]

\* One call changes; the register sees its effect and what it expects.
LEMMA SeenStep ==
  ASSUME Inv, NEW c \in Call, NEW k \in CallState, call' = [call EXCEPT ![c] = k]
  PROVE  /\ Effects' = [Effects EXCEPT ![c] = Effect(c, k)]
         /\ Expectations' = [Expectations EXCEPT ![c] = k.expected]
<1>1. \A d \in Call : call'[d] = IF d = c THEN k ELSE call[d]
  BY DEF Inv, TypeOK
<1>2. Expectations' = [Expectations EXCEPT ![c] = k.expected]
  <2>1. Expectations' = [d \in Call |-> call'[d].expected]
    BY DEF Expectations
  <2>2. Expectations' = [d \in Call |-> IF d = c THEN k.expected ELSE call[d].expected]
    BY <1>1, <2>1
  <2>3. Expectations = [d \in Call |-> call[d].expected]
    BY DEF Expectations
  <2> QED
    BY <2>2, <2>3
<1>3. Effects' = [Effects EXCEPT ![c] = Effect(c, k)]
  <2>1. Effects' = [d \in Call |-> Effect(d, call'[d])]
    BY DEF Effects
  <2>2. Effects' = [d \in Call |-> IF d = c THEN Effect(c, k) ELSE Effect(d, call[d])]
    BY <1>1, <2>1
  <2>3. Effects = [d \in Call |-> Effect(d, call[d])]
    BY DEF Effects
  <2> QED
    BY <2>2, <2>3
<1> QED
  BY <1>2, <1>3

LEMMA SameExpectation ==
  ASSUME Inv, NEW c \in Call, NEW k \in CallState, call' = [call EXCEPT ![c] = k],
         k.expected = call[c].expected
  PROVE  Expectations' = Expectations
<1>1. \A d \in Call : call'[d].expected = call[d].expected
  BY DEF Inv, TypeOK
<1> QED
  BY <1>1 DEF Expectations

\* A step of a call whose effect stays what it was is none of the register.
LEMMA UnseenStep ==
  ASSUME Inv, NEW c \in Call, NEW k \in CallState, call' = [call EXCEPT ![c] = k],
         UNCHANGED <<dest, possible, older>>,
         Effect(c, k) = Effect(c, call[c]), k.expected = call[c].expected
  PROVE  UNCHANGED Abstract!vars
<1>1. Effects' = Effects /\ Expectations' = Expectations
  BY SeenStep DEF Effects, Expectations
<1> QED
  BY <1>1 DEF Abstract!vars, Effects, Expectations

LEMMA FailStep ==
  ASSUME Inv, NEW c \in Call, NEW k \in CallState, call' = [call EXCEPT ![c] = k],
         UNCHANGED <<dest, possible, older>>, k.expected = call[c].expected,
         \/ Effect(c, call[c]) \in {"pending", "compared"} /\ Effect(c, k) = "failed"
         \/ Effect(c, call[c]) = "visible" /\ Effect(c, k) = "unsure"
  PROVE  Abstract!Next
<1>1. Expectations' = Expectations /\ Effects' = [Effects EXCEPT ![c] = Effect(c, k)]
  BY SeenStep, SameExpectation
<1>2. Effects[c] = Effect(c, call[c])
  BY DEF Effects
<1>3. Abstract!Fail(c)
  BY <1>1, <1>2 DEF Abstract!Fail, Abstract!Moves, Effects, Expectations
<1> QED
  BY <1>3 DEF Abstract!Next

\* Every step before the rename is the beginning, the comparison or the failure
\* of an abstract call, or none of its steps.
LEMMA PreparesImplements ==
  ASSUME Inv, NEW c \in Call, Prepares(c)
  PROVE  [Abstract!Next]_(Abstract!vars)
<1>1. CASE Begin(c)
  <2>1. PICK x \in {None} \cup (IF c \in Plain THEN {} ELSE {dest}) :
          call' = [call EXCEPT ![c] = [@ EXCEPT !.at = "create_temp", !.expected = x]]
    BY <1>1 DEF Begin
  <2> DEFINE k == [call[c] EXCEPT !.at = "create_temp", !.expected = x]
  <2>2. call[c].at \in Preparing /\ call[c].at = "new" /\ x \in File \cup {None}
    BY <1>1 DEF Begin, At, Preparing, Inv, TypeOK
  <2>9. call[c] \in CallState /\ "create_temp" \in FailureStage
    BY <2>2, PreparingFacts DEF FailureStage
  <2>3. /\ k \in CallState /\ k.at = "create_temp" /\ k.expected = x
        /\ k.completed = call[c].completed
    BY <2>2, <2>9 DEF CallState
  <2>4. Effect(c, call[c]) = "new" /\ Effect(c, k) = "pending"
    BY <2>2, <2>3, EffectValues, PreparingFacts DEF EffectFacts, Preparing
  <2>5. call' = [call EXCEPT ![c] = k] /\ UNCHANGED <<dest, possible, older>>
    BY <1>1, <2>1 DEF Begin
  <2> HIDE DEF k
  <2>6. /\ Effects' = [Effects EXCEPT ![c] = "pending"]
        /\ Expectations' = [Expectations EXCEPT ![c] = x]
    BY <2>3, <2>4, <2>5, SeenStep
  <2>7. Effects[c] = "new" /\ x \in {None, dest}
    BY <2>4 DEF Effects
  <2>8. Abstract!Begin(c)
    BY <2>5, <2>6, <2>7 DEF Abstract!Begin, Abstract!Moves, Effects, Expectations
  <2> QED
    BY <2>8 DEF Abstract!Next
<1>2. CASE CreateTempFails(c)
  <2>1. PICK left \in BOOLEAN :
          call' = [call EXCEPT ![c] = [@ EXCEPT !.at = "returned", !.stage = "create_temp",
                                                !.temp = left]]
    BY <1>2 DEF CreateTempFails
  <2> DEFINE k == [call[c] EXCEPT !.at = "returned", !.stage = "create_temp", !.temp = left]
  <2>2. call[c].at \in Preparing /\ call[c].at = "create_temp"
    BY <1>2 DEF CreateTempFails, At, Preparing
  <2>9. call[c] \in CallState /\ "create_temp" \in FailureStage
    BY <2>2, PreparingFacts DEF FailureStage
  <2>3. /\ k \in CallState /\ k.at = "returned" /\ k.expected = call[c].expected
        /\ k.completed = call[c].completed
    BY <2>2, <2>9 DEF CallState
  <2>4. Effect(c, call[c]) = "pending" /\ Effect(c, k) = "failed"
    BY <2>2, <2>3, EffectValues, PreparingFacts DEF EffectFacts, Preparing
  <2>5. call' = [call EXCEPT ![c] = k] /\ UNCHANGED <<dest, possible, older>>
    BY <1>2, <2>1 DEF CreateTempFails
  <2> HIDE DEF k
  <2> QED
    BY <2>3, <2>4, <2>5, FailStep
<1>3. CASE CreateTemp(c)
  <2> DEFINE k == [call[c] EXCEPT !.at = "write", !.data = "part", !.temp = TRUE,
                                  !.completed = {"temp_created"}]
  <2>1. call[c].at \in Preparing /\ call[c].at = "create_temp"
    BY <1>3 DEF CreateTemp, At, Preparing
  <2>2. {"temp_created"} \in SUBSET Boundary /\ "write" \in FailureStage
    BY DEF Boundary, FailureStage
  <2>3. /\ k \in CallState /\ k.at = "write" /\ k.expected = call[c].expected
        /\ k.completed = {"temp_created"}
    BY <2>1, <2>2, PreparingFacts DEF CallState
  <2>4. call' = [call EXCEPT ![c] = k] /\ UNCHANGED <<dest, possible, older>>
    BY <1>3 DEF CreateTemp
  <2> HIDE DEF k
  <2>5. Effect(c, call[c]) = "pending" /\ Effect(c, k) = "pending"
    BY <2>1, <2>3, EffectValues, PreparingFacts DEF EffectFacts, Preparing
  <2> QED
    BY <2>3, <2>4, <2>5, UnseenStep
<1>4. CASE WriteData(c) \/ Flush(c) \/ SyncFile(c)
  <2>1. PICK next \in {"flush", "file_fsync", "close_temp"},
             boundary \in {"data_written", "data_flushed", "file_synced"},
             data \in {"part", "whole", "synced"} : Passes(c, next, boundary, data)
    BY <1>4 DEF WriteData, Flush, SyncFile
  <2> DEFINE k == [call[c] EXCEPT !.at = next, !.data = data,
                                  !.completed = call[c].completed \cup {boundary}]
  <2>2. /\ call[c].at \in Preparing /\ call[c].at \in {"write", "flush", "file_fsync"}
        /\ boundary \in Boundary /\ next \in FailureStage
        /\ next \in Preparing \ {"new", "rename"}
    BY <1>4 DEF WriteData, Flush, SyncFile, At, Preparing, Boundary, FailureStage
  <2>3. /\ k \in CallState /\ k.at = next /\ k.expected = call[c].expected
        /\ k.completed = call[c].completed \cup {boundary}
    BY <2>2, PreparingFacts DEF CallState
  <2>4. call' = [call EXCEPT ![c] = k]
    BY <2>1 DEF Passes
  <2>5. UNCHANGED <<dest, possible, older>>
    BY <1>4 DEF WriteData, Flush, SyncFile
  <2> HIDE DEF k
  <2>6. "renamed" \notin k.completed
    BY <2>2, <2>3, PreparingFacts
  <2>7. Effect(c, call[c]) = "pending"
    BY <2>2, EffectValues, PreparingFacts DEF EffectFacts
  <2>8. Effect(c, k) = "pending"
    BY <2>2, <2>3, <2>6, EffectValues DEF EffectFacts
  <2> QED
    BY <2>3, <2>4, <2>5, <2>7, <2>8, UnseenStep
<1>5. CASE CloseTemp(c)
  <2> DEFINE k == [call[c] EXCEPT !.at = "identity_recheck"]
  <2>1. call[c].at \in Preparing /\ call[c].at = "close_temp"
    BY <1>5 DEF CloseTemp, At, Preparing
  <2>2. /\ k \in CallState /\ k.at = "identity_recheck" /\ k.expected = call[c].expected
        /\ k.completed = call[c].completed
    BY <2>1, PreparingFacts DEF CallState, FailureStage
  <2>3. call' = [call EXCEPT ![c] = k] /\ UNCHANGED <<dest, possible, older>>
    BY <1>5 DEF CloseTemp
  <2> HIDE DEF k
  <2>4. Effect(c, call[c]) = "pending" /\ Effect(c, k) = "pending"
    BY <2>1, <2>2, EffectValues, PreparingFacts DEF EffectFacts, Preparing
  <2> QED
    BY <2>2, <2>3, <2>4, UnseenStep
<1>6. CASE RecheckIdentity(c) /\ Matches(c)
  <2> DEFINE k == [call[c] EXCEPT !.at = "rename"]
  <2>1. call[c].at \in Preparing /\ call[c].at = "identity_recheck"
    BY <1>6 DEF RecheckIdentity, At, Preparing
  <2>2. /\ k \in CallState /\ k.at = "rename" /\ k.expected = call[c].expected
    BY <2>1, PreparingFacts DEF CallState, FailureStage
  <2>3. call' = [call EXCEPT ![c] = k] /\ UNCHANGED <<dest, possible, older>>
    BY <1>6 DEF RecheckIdentity
  <2> HIDE DEF k
  <2>4. Effect(c, call[c]) = "pending" /\ Effect(c, k) = "compared"
    BY <2>1, <2>2, EffectValues, PreparingFacts DEF EffectFacts, Preparing
  <2>5. /\ Effects' = [Effects EXCEPT ![c] = "compared"]
        /\ Expectations' = Expectations
    BY <2>2, <2>3, <2>4, SeenStep, SameExpectation
  <2>6. Effects[c] = "pending" /\ Expectations[c] \in {None, dest}
    BY <1>6, <2>4 DEF Effects, Expectations, Matches
  <2>7. Abstract!Compare(c)
    BY <2>3, <2>5, <2>6 DEF Abstract!Compare, Abstract!Moves, Effects, Expectations
  <2> QED
    BY <2>7 DEF Abstract!Next
<1>7. CASE FailsBeforeRename(c) \/ (RecheckIdentity(c) /\ ~Matches(c))
  <2>1. /\ call[c].at \in Preparing \ {"new", "create_temp"} /\ Undoes(c)
        /\ UNCHANGED <<dest, possible, older>>
    BY <1>7 DEF FailsBeforeRename, RecheckIdentity, At, Preparing
  <2>2. PICK cleaned \in BOOLEAN :
          call' = [call EXCEPT ![c] = [@ EXCEPT !.at = "returned", !.stage = call[c].at,
                                                !.temp = ~cleaned, !.cleaned = cleaned]]
    BY <2>1 DEF Undoes
  <2> DEFINE k == [call[c] EXCEPT !.at = "returned", !.stage = call[c].at,
                                  !.temp = ~cleaned, !.cleaned = cleaned]
  <2>3. call[c] \in CallState /\ call[c].at \in FailureStage
    BY <2>1, PreparingFacts DEF Preparing, FailureStage
  <2>4. k \in CallState
    BY <2>3 DEF CallState
  <2>5. k.at = "returned" /\ k.expected = call[c].expected /\ k.completed = call[c].completed
    BY <2>3 DEF CallState
  <2>6. call' = [call EXCEPT ![c] = k]
    BY <2>2
  <2> HIDE DEF k
  <2>7. Effect(c, k) = "failed"
    BY <2>1, <2>5, EffectValues, PreparingFacts DEF EffectFacts
  <2>8. Effect(c, call[c]) \in {"pending", "compared"}
    BY <2>1, EffectValues, PreparingFacts DEF EffectFacts
  <2> QED
    BY <2>1, <2>4, <2>5, <2>6, <2>7, <2>8, FailStep
<1> QED
  BY <1>1, <1>2, <1>3, <1>4, <1>5, <1>6, <1>7 DEF Prepares

LEMMA VisibleCall ==
  ASSUME Inv, NEW c \in Call, call[c].at \in Publishing
  PROVE  Effect(c, call[c]) = "visible"
  BY EffectValues, PublishingFacts DEF EffectFacts

LEMMA CommitStep ==
  ASSUME Inv, NEW c \in Call, NEW k \in CallState, call' = [call EXCEPT ![c] = k],
         UNCHANGED <<dest, possible, older>>, k.expected = call[c].expected,
         Effect(c, call[c]) = "visible", Effect(c, k) = "committed", ParentSynced(c)
  PROVE  Abstract!Next
<1>1. Expectations' = Expectations /\ Effects' = [Effects EXCEPT ![c] = "committed"]
  BY SeenStep, SameExpectation
<1>2. Effects[c] = "visible"
  BY DEF Effects
<1>3. possible \cap older[c] = {}
  BY DEF Inv, CallInv, OlderInv
<1>4. Abstract!Commit(c)
  BY <1>1, <1>2, <1>3 DEF Abstract!Commit, Abstract!Moves, Effects, Expectations
<1> QED
  BY <1>4 DEF Abstract!Next

LEMMA RenameImplements ==
  ASSUME Inv, NEW c \in Call, Rename(c)
  PROVE  Abstract!Next
<1> DEFINE k == [call[c] EXCEPT !.at = "open_directory", !.temp = FALSE,
                                !.completed = call[c].completed \cup {"renamed"}]
<1>1. "renamed" \in Boundary /\ "open_directory" \in FailureStage
  BY DEF Boundary, FailureStage
<1>2. call[c].at \in Preparing /\ call[c].at = "rename"
  BY DEF Rename, At, Preparing
<1>3. k \in CallState
  BY <1>1, <1>2, PreparingFacts DEF CallState
<1>4. /\ k.at = "open_directory" /\ k.expected = call[c].expected
      /\ k.completed = call[c].completed \cup {"renamed"}
  BY <1>2, PreparingFacts DEF CallState
<1>5. call' = [call EXCEPT ![c] = k]
  BY DEF Rename
<1> HIDE DEF k
<1>6. Effect(c, k) = "visible"
  BY <1>4, EffectValues DEF EffectFacts, Publishing
<1>7. Effect(c, call[c]) = "compared"
  BY <1>2, EffectValues DEF EffectFacts
<1>8. Expectations' = Expectations /\ Effects' = [Effects EXCEPT ![c] = "visible"]
  BY <1>3, <1>4, <1>5, <1>6, SeenStep, SameExpectation
<1>9. Effects[c] = "compared"
  BY <1>7 DEF Effects
<1>10. /\ dest' = c /\ possible' = possible \cup {c}
       /\ older' = [older EXCEPT ![c] = possible]
  BY DEF Rename
<1>11. Abstract!TakeEffect(c)
  BY <1>8, <1>9, <1>10 DEF Abstract!TakeEffect, Abstract!Moves, Effects, Expectations
<1> QED
  BY <1>11 DEF Abstract!Next

LEMMA SyncsImplements ==
  ASSUME Inv, NEW c \in Call, NEW boundary \in {"directory_synced", "filesystem_synced"},
         call[c].at \in Publishing, Syncs(c, boundary)
  PROVE  Abstract!Next
<1> DEFINE k == [call[c] EXCEPT !.at = "close_directory", !.data = call[c].data,
                                !.completed = call[c].completed \cup {boundary}]
<1>1. boundary \in Boundary /\ "close_directory" \in FailureStage
  BY DEF Boundary, FailureStage
<1>2. k \in CallState
  BY <1>1, PublishingFacts DEF CallState
<1>3. /\ k.at = "close_directory" /\ k.expected = call[c].expected
      /\ k.completed = call[c].completed \cup {boundary}
  BY PublishingFacts DEF CallState
<1>4. call' = [call EXCEPT ![c] = k] /\ dest' = dest /\ older' = older /\ possible' = {dest}
  BY DEF Syncs, Passes
<1> HIDE DEF k
<1>5. Effect(c, k) = "visible"
  BY <1>3, PublishingFacts, EffectValues DEF EffectFacts, Publishing
<1>6. Effects' = [Effects EXCEPT ![c] = "visible"]
  BY <1>2, <1>4, <1>5, SeenStep
<1>7. Effects' = Effects
  BY <1>6, VisibleCall DEF Effects
<1>8. Expectations' = Expectations
  BY <1>2, <1>3, <1>4, SameExpectation
<1>9. Abstract!Harden
  BY <1>4, <1>7, <1>8 DEF Abstract!Harden, Effects, Expectations
<1> QED
  BY <1>9 DEF Abstract!Next

\* Every step after the rename is the effect, the hardening, the commitment or
\* the failure of an abstract call, or none of its steps.
LEMMA PublishesImplements ==
  ASSUME Inv, NEW c \in Call, Publishes(c)
  PROVE  [Abstract!Next]_(Abstract!vars)
<1>1. CASE Rename(c)
  BY <1>1, RenameImplements
<1>2. CASE SyncDirectory(c) \/ SyncFilesystem(c)
  BY <1>2, SyncsImplements DEF SyncDirectory, SyncFilesystem, At, Publishing
<1>3. ASSUME call[c].at \in Publishing, UNCHANGED <<dest, possible, older>>,
             NEW at \in FailureStage \cup {"returned"}, NEW stage \in FailureStage \cup {None},
             call' = [call EXCEPT ![c] = [call[c] EXCEPT !.at = at, !.stage = stage]],
             \/ at \in Publishing
             \/ at = "returned" /\ (stage = None => c \in Plain \/ ParentSynced(c))
      PROVE  [Abstract!Next]_(Abstract!vars)
  <2> DEFINE k == [call[c] EXCEPT !.at = at, !.stage = stage]
  <2>1. /\ k \in CallState /\ k.at = at /\ k.stage = stage
        /\ k.completed = call[c].completed /\ k.expected = call[c].expected
    BY <1>3, PublishingFacts DEF CallState
  <2>3. call' = [call EXCEPT ![c] = k] /\ Effect(c, call[c]) = "visible"
    BY <1>3, VisibleCall
  <2> HIDE DEF k
  <2>2. "renamed" \in k.completed
    BY <1>3, <2>1, PublishingFacts
  <2>4. CASE at \in Publishing
    <3>1. Effect(c, k) = "visible"
      BY <2>1, <2>2, <2>4, EffectValues DEF EffectFacts
    <3> QED
      BY <1>3, <2>1, <2>3, <3>1, UnseenStep
  <2>5. CASE at = "returned" /\ stage = None /\ ParentSynced(c)
    <3>0. Claims(c, k)
      BY <2>1, <2>5 DEF Claims, ParentSynced
    <3>1. Effect(c, k) = "committed"
      BY <2>1, <2>2, <2>5, <3>0, EffectValues DEF EffectFacts
    <3> QED
      BY <1>3, <2>1, <2>3, <2>5, <3>1, CommitStep
  <2>6. CASE at = "returned" /\ ~(stage = None /\ ParentSynced(c))
    <3>0. ~Claims(c, k)
      BY <1>3, <2>1, <2>6 DEF Claims, ParentSynced, Publishing
    <3>1. Effect(c, k) = "unsure"
      BY <2>1, <2>2, <2>6, <3>0, EffectValues DEF EffectFacts
    <3> QED
      BY <1>3, <2>1, <2>3, <3>1, FailStep
  <2> QED
    BY <1>3, <2>4, <2>5, <2>6
<1>4. CASE OpenDirectory(c)
  <2>1. /\ call[c].at = "open_directory" /\ call[c].at \in Publishing
        /\ call[c].stage = None
    BY <1>4, PublishingFacts DEF OpenDirectory, At, Publishing
  <2>2. call' = [call EXCEPT ![c] = [call[c] EXCEPT !.at = "directory_fsync", !.stage = None]]
    BY <1>4, <2>1, PublishingFacts DEF OpenDirectory, CallState
  <2>3. /\ "directory_fsync" \in FailureStage /\ "directory_fsync" \in Publishing
        /\ UNCHANGED <<dest, possible, older>>
    BY <1>4 DEF OpenDirectory, Publishing, FailureStage
  <2> QED
    BY <1>3, <2>1, <2>2, <2>3
<1>5. CASE OpenDirectoryFails(c)
  <2> DEFINE stage == IF c \in Plain THEN None ELSE "open_directory"
  <2>1. call[c].at \in Publishing /\ stage \in FailureStage \cup {None}
    BY <1>5 DEF OpenDirectoryFails, At, Publishing, FailureStage
  <2>2. stage = None => c \in Plain
    BY DEF None
  <2>3. call' = [call EXCEPT ![c] = [call[c] EXCEPT !.at = "returned", !.stage = stage]]
    BY <1>5 DEF OpenDirectoryFails
  <2>4. UNCHANGED <<dest, possible, older>>
    BY <1>5 DEF OpenDirectoryFails
  <2> HIDE DEF stage
  <2> QED
    BY <1>3, <2>1, <2>2, <2>3, <2>4
<1>6. CASE FailsAfterRename(c) /\ (SyncUnsupported(c) \/ SyncFails(c))
  <2>1. /\ call[c].at \in Publishing /\ call[c].at \in FailureStage
        /\ UNCHANGED <<dest, possible, older>>
    BY <1>6 DEF SyncUnsupported, SyncFails, At, Publishing, FailureStage
  <2>2. call' = [call EXCEPT ![c] = [call[c] EXCEPT !.at = "close_directory",
                                                    !.stage = call[c].at]]
    BY <1>6 DEF FailsAfterRename
  <2>3. "close_directory" \in FailureStage /\ "close_directory" \in Publishing
    BY DEF FailureStage, Publishing
  <2> QED
    BY <1>3, <2>1, <2>2, <2>3
<1>7. CASE SyncUnsupported(c) /\ c \notin Plain
  <2>1. /\ call[c].at = "directory_fsync" /\ call[c].at \in Publishing
        /\ call[c].stage = None
    BY <1>7, PublishingFacts DEF SyncUnsupported, At, Publishing
  <2>2. call' = [call EXCEPT ![c] = [call[c] EXCEPT !.at = "syncfs", !.stage = None]]
    BY <1>7, <2>1, PublishingFacts DEF SyncUnsupported, CallState
  <2>3. /\ "syncfs" \in FailureStage /\ "syncfs" \in Publishing
        /\ UNCHANGED <<dest, possible, older>>
    BY <1>7 DEF SyncUnsupported, Publishing, FailureStage
  <2> QED
    BY <1>3, <2>1, <2>2, <2>3
<1>8. CASE CloseDirectory(c)
  <2>1. call[c].at \in Publishing /\ call[c].stage \in FailureStage \cup {None}
    BY <1>8, PublishingFacts DEF CloseDirectory, At, Publishing, CallState
  <2>2. call' = [call EXCEPT ![c] = [call[c] EXCEPT !.at = "returned", !.stage = call[c].stage]]
    BY <1>8, <2>1, PublishingFacts DEF CloseDirectory, CallState
  <2>3. /\ call[c].stage = None => c \in Plain \/ ParentSynced(c)
        /\ UNCHANGED <<dest, possible, older>>
    BY <1>8, <2>1, PublishingFacts DEF CloseDirectory, At
  <2> QED
    BY <1>3, <2>1, <2>2, <2>3
<1>9. CASE CloseDirectoryFails(c)
  <2> DEFINE stage == IF call[c].stage = None THEN "close_directory" ELSE call[c].stage
  <2>1. call[c].at \in Publishing /\ stage \in FailureStage \cup {None}
    BY <1>9, PublishingFacts DEF CloseDirectoryFails, At, Publishing, CallState, FailureStage
  <2>2. stage # None
    BY DEF None
  <2>3. call' = [call EXCEPT ![c] = [call[c] EXCEPT !.at = "returned", !.stage = stage]]
    BY <1>9 DEF CloseDirectoryFails
  <2>4. UNCHANGED <<dest, possible, older>>
    BY <1>9 DEF CloseDirectoryFails
  <2> HIDE DEF stage
  <2> QED
    BY <1>3, <2>1, <2>2, <2>3, <2>4
<1>10. SyncUnsupported(c) /\ c \in Plain => FailsAfterRename(c)
  BY DEF SyncUnsupported
<1>11. SyncFails(c) => FailsAfterRename(c)
  BY DEF SyncFails
<1> QED
  BY <1>1, <1>2, <1>4, <1>5, <1>6, <1>7, <1>8, <1>9, <1>10, <1>11 DEF Publishes

\* A call is running for the register when its process is.
LEMMA RunningSeen ==
  ASSUME Inv, NEW c \in Call
  PROVE  /\ Running(c) <=> Effect(c, call[c]) \in {"pending", "compared", "visible"}
         /\ Effect(c, Lost(c)) = "lost" /\ Lost(c).expected = call[c].expected
<1>1. Effect(c, Lost(c)) = "lost"
  BY LostFacts, EffectValues DEF EffectFacts, Inv
<1>2. Lost(c).expected = call[c].expected
  BY CallTyped DEF Inv, Lost, CallState
<1>3. call[c].at \in FailureStage \cup {"new", "returned", "lost"}
  BY CallTyped DEF Inv, CallState
<1>4. FailureStage = (Preparing \ {"new"}) \cup Publishing
  BY DEF FailureStage, Preparing, Publishing
<1>5. ASSUME call[c].at \in Publishing
      PROVE  Running(c) /\ Effect(c, call[c]) = "visible"
  BY <1>4, <1>5, VisibleCall DEF Running
<1>6. ASSUME call[c].at \in Preparing \ {"new"}
      PROVE  Running(c) /\ Effect(c, call[c]) \in {"pending", "compared"}
  <2>1. Running(c)
    BY <1>4, <1>6 DEF Running
  <2>2. "renamed" \notin call[c].completed
    BY <1>6, PreparingFacts
  <2> QED
    BY <1>6, <2>1, <2>2, EffectValues DEF EffectFacts
<1>7. ASSUME call[c].at \in {"new", "returned", "lost"}
      PROVE  /\ ~Running(c)
             /\ Effect(c, call[c]) \in {"new", "lost", "failed", "committed", "unsure"}
  <2>1. ~Running(c)
    BY <1>7 DEF Running, FailureStage
  <2>2. call[c].at = "returned" =>
          Effect(c, call[c]) \in {"failed", "committed", "unsure"}
    BY EffectValues DEF EffectFacts
  <2>3. call[c].at \in {"new", "lost"} => Effect(c, call[c]) = call[c].at
    BY EffectValues DEF EffectFacts
  <2> QED
    BY <1>7, <2>1, <2>2, <2>3
<1>8. Running(c) <=> Effect(c, call[c]) \in {"pending", "compared", "visible"}
  BY <1>3, <1>4, <1>5, <1>6, <1>7
<1> QED
  BY <1>1, <1>2, <1>8

LEMMA KillImplements ==
  ASSUME Inv, NEW c \in Call, Kill(c)
  PROVE  Abstract!Next
<1>1. /\ call' = [call EXCEPT ![c] = Lost(c)] /\ Lost(c) \in CallState
      /\ UNCHANGED <<dest, possible, older>> /\ Running(c)
  BY LostFacts DEF Kill, Inv
<1>2. Expectations' = Expectations /\ Effects' = [Effects EXCEPT ![c] = "lost"]
  <2> PICK k : k = Lost(c)
    OBVIOUS
  <2>1. /\ k \in CallState /\ call' = [call EXCEPT ![c] = k]
        /\ k.expected = call[c].expected /\ Effect(c, k) = "lost"
    BY <1>1, RunningSeen
  <2>2. Effects' = [Effects EXCEPT ![c] = Effect(c, k)]
    BY <2>1, SeenStep
  <2>3. Expectations' = Expectations
    BY <2>1, SameExpectation
  <2> QED
    BY <2>1, <2>2, <2>3
<1>3. Effects[c] \in {"pending", "compared", "visible"}
  BY <1>1, RunningSeen DEF Effects
<1>4. Abstract!Lose(c)
  BY <1>1, <1>2, <1>3 DEF Abstract!Lose, Abstract!Running, Effects, Expectations
<1> QED
  BY <1>4 DEF Abstract!Next

LEMMA PowerLossImplements ==
  ASSUME Inv, PowerLoss
  PROVE  Abstract!Next
<1>1. /\ call' = [d \in Call |-> IF Running(d) THEN Lost(d) ELSE call[d]]
      /\ older' = older
      /\ dest' \in possible /\ possible' = {dest'}
  BY DEF PowerLoss
<1>2. Expectations' = Expectations
  <2>1. \A d \in Call : call'[d].expected = call[d].expected
    BY <1>1, RunningSeen
  <2> QED
    BY <2>1 DEF Expectations
<1>3. Effects' = [d \in Call |-> IF Effects[d] \in {"pending", "compared", "visible"}
                                THEN "lost" ELSE Effects[d]]
  <2>1. Effects' = [d \in Call |-> Effect(d, call'[d])]
    BY DEF Effects
  <2>2. \A d \in Call : Effects[d] = Effect(d, call[d])
    BY DEF Effects
  <2>3. \A d \in Call : Effect(d, call'[d]) =
          IF Effects[d] \in {"pending", "compared", "visible"} THEN "lost" ELSE Effects[d]
    BY <1>1, <2>2, RunningSeen
  <2> QED
    BY <2>1, <2>3
<1>4. Abstract!PowerLoss
  BY <1>1, <1>2, <1>3 DEF Abstract!PowerLoss, Abstract!Running, Effects, Expectations
<1> QED
  BY <1>4 DEF Abstract!Next

\* The calls implement the register (every step is one of its steps or none).
THEOREM Refines == Spec => ImplementsRegister
<1>1. Init => Abstract!Init
  <2> SUFFICES ASSUME Init PROVE Abstract!Init
    OBVIOUS
  <2>1. \A c \in Call : call[c].at = "new" /\ call[c].expected = None
    BY DEF Init, Fresh
  <2>2. \A c \in Call : Effect(c, call[c]) = "new"
    BY <2>1, EffectValues DEF EffectFacts
  <2> QED
    BY <2>1, <2>2 DEF Init, Abstract!Init
<1>2. Inv /\ [Next]_vars => [Abstract!Next]_(Abstract!vars)
  <2> SUFFICES ASSUME Inv, [Next]_vars PROVE [Abstract!Next]_(Abstract!vars)
    OBVIOUS
  <2>1. CASE UNCHANGED vars
    BY <2>1 DEF vars, Abstract!vars
  <2> QED
    BY <2>1, PreparesImplements, PublishesImplements, KillImplements, PowerLossImplements
       DEF Next
<1> QED
  BY <1>1, <1>2, Invariance, PTL DEF Spec, ImplementsRegister, Abstract!Spec
=============================================================================
