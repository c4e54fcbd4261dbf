--------------------------- MODULE DeliveryProofs ---------------------------
(***************************************************************************)
(* The invariants of Delivery hold for every number of repositories,       *)
(* commits, packages, packagers, media, mount points and faults.           *)
(***************************************************************************)
EXTENDS DeliveryInvariants, TLAPS

LEMMA FaultTyped ==
  ASSUME TypeOK, Fault \/ UNCHANGED faults PROVE faults' \in 0..MaxFaults
  BY MountAssumption DEF TypeOK, Fault

LEMMA BreaksTyped ==
  ASSUME TypeOK, NEW here, Breaks(here) PROVE faults' \in 0..MaxFaults
  BY FaultTyped DEF Breaks

LEMMA GraphTyped ==
  ASSUME NEW c \in Commit PROVE c \in Graph(c) /\ Graph(c) \subseteq Commit
  BY DEF Graph

\* An import adds to the store, and of a whole graph it adds all.
LEMMA Imports ==
  ASSUME TypeOK, OriginInv, NEW i \in chosen, NEW done \in Importable(i.package)
  PROVE  store \subseteq With(done) /\ With(done) \subseteq Commit /\ done \subseteq With(done)
<1>1. manifest[i.package].commit \in Commit
  BY DEF OriginInv, Built, Manifest
<1>2. done \subseteq Commit
  BY <1>1, GraphTyped DEF Importable
<1> QED
  BY <1>2 DEF With, TypeOK

\* What a call of apply_package adds to the store and the results, however it ends.
LEMMA Applied ==
  ASSUME TypeOK, OriginInv, NEW i \in chosen, Interrupted(i)
  PROVE  /\ store \subseteq store' /\ store' \subseteq Commit
         /\ results \subseteq results' /\ results' \subseteq Result
         /\ \A x \in results' \ results :
              /\ x.package = i.package
              /\ Succeeded(x) => Graph(manifest[i.package].commit) \subseteq store'
              /\ x.status = "needs-full-bundle" => Lacks(i.package, x.needs)
<1>1. ASSUME NEW done \in Importable(i.package), store' = With(done), UNCHANGED results
      PROVE  /\ store \subseteq store' /\ store' \subseteq Commit
             /\ results \subseteq results' /\ results' \subseteq Result
  BY <1>1, Imports DEF TypeOK
<1>2. ASSUME NEW x \in Result, Settles(i, x)
      PROVE  /\ store \subseteq store' /\ store' \subseteq Commit
             /\ results' = results \cup {x} /\ x.package = i.package
             /\ Succeeded(x) => Graph(manifest[i.package].commit) \subseteq store'
             /\ x.status = "needs-full-bundle" => Lacks(i.package, x.needs)
  <2>1. PICK done \in Importable(i.package) :
          /\ x.package = i.package
          /\ \/ x.status = "success" /\ done = Graph(manifest[i.package].commit)
             \/ x.status = "needs-full-bundle" /\ Lacks(i.package, x.needs)
             \/ x.status = "failed"
          /\ store' = With(done)
          /\ results' = results \cup {x}
    BY <1>2 DEF Settles
  <2>2. store \subseteq With(done) /\ With(done) \subseteq Commit /\ done \subseteq With(done)
    BY Imports
  <2> QED
    BY <2>1, <2>2 DEF Succeeded
<1> QED
  BY <1>1, <1>2 DEF Interrupted, TypeOK

LEMMA LeavingTyped ==
  ASSUME TypeOK, Ends \/ Resumes PROVE scan' \in ScannerState
<1>1. Asleep \in ScannerState
  BY DEF Asleep, ScannerState
<1>2. [scan EXCEPT !.at = "media", !.mount = None, !.medium = None] \in ScannerState
  BY DEF TypeOK, ScannerState
<1> QED
  BY <1>1, <1>2 DEF Ends, Resumes

\* After the visit of a mount point nothing is left but what was there.
LEMMA Leaving ==
  ASSUME TypeOK, Ends \/ Resumes
  PROVE  /\ \/ scan'.at = "idle" /\ scan'.mounts = {}
            \/ scan'.at = "media" /\ scan'.mounts = scan.mounts
         /\ scan'.files \subseteq scan.files /\ chosen' \subseteq chosen
<1>1. CASE Ends
  BY <1>1 DEF Ends, Asleep
<1>2. CASE Resumes
  BY <1>2 DEF Resumes, TypeOK, ScannerState
<1> QED
  BY <1>1, <1>2

LEMMA TypeStep ==
  ASSUME TypeOK, ProcessInv, OriginInv, [Next]_vars PROVE TypeOK'
<1> USE MountAssumption DEF host, media, disk, process, operator
<1>1. ASSUME NEW h \in Packager, NEW r \in Root, LoadProfile(h, r) PROVE TypeOK'
  BY <1>1 DEF LoadProfile, TypeOK, PackagerState, Idle
<1>2. ASSUME NEW h \in Packager, SaveConfirmed(h) PROVE TypeOK'
  BY <1>2 DEF SaveConfirmed, TypeOK, ProcessInv, PackagerState
<1>3. ASSUME NEW h \in Packager, NEW m \in Medium, NEW c \in Commit, NEW full \in BOOLEAN,
            NEW p \in PackageId, BuildPackage(h, m, c, full, p)
     PROVE  TypeOK'
  <2>1. packager' \in [Packager -> PackagerState]
    <3>1. packager[h] \in PackagerState
      BY DEF TypeOK
    <3>2. [packager[h] EXCEPT !.at = "publish", !.medium = m, !.package = p] \in PackagerState
      BY <3>1 DEF PackagerState
    <3>3. packager' = [packager EXCEPT ![h] = [packager[h] EXCEPT !.at = "publish", !.medium = m, !.package = p]]
      BY <1>3 DEF BuildPackage
    <3> QED
      BY <3>2, <3>3 DEF TypeOK
  <2>2. receipts' \subseteq Result
    BY <1>3 DEF BuildPackage, Known, TypeOK
  <2>3. manifest' \in [PackageId -> Manifest \cup {NoManifest}]
    <3>1. PICK bs \in Bases(Known(m), c) :
            manifest' = [manifest EXCEPT ![p] =
              [root |-> packager[h].root, generation |-> packager[h].generation + 1,
               commit |-> c, bases |-> bs, full |-> full]]
      BY <1>3 DEF BuildPackage
    <3>2. bs \in SUBSET Commit
      <4>1. Known(m) \subseteq results
        BY DEF Known, OriginInv
      <4>2. \A x \in Known(m) : Graph(manifest[x.package].commit) \subseteq Commit
        BY <4>1, GraphTyped DEF OriginInv, Built, Manifest
      <4> QED
        BY <4>2 DEF Bases, Newest
    <3>3. packager[h].root \in Root /\ packager[h].generation + 1 \in Nat
      BY <1>3 DEF BuildPackage, TypeOK, PackagerState, ProcessInv
    <3> QED
      BY <3>1, <3>2, <3>3 DEF TypeOK, Manifest
  <2> QED
    BY <1>3, <2>1, <2>2, <2>3 DEF BuildPackage, TypeOK
<1>4. ASSUME NEW h \in Packager, Publish(h) PROVE TypeOK'
  <2>1. packager[h].medium \in Medium /\ packager[h].package \in PackageId
    BY <1>4 DEF Publish, ProcessInv
  <2>2. packager' \in [Packager -> PackagerState]
    <3>1. [packager[h] EXCEPT !.at = "sync"] \in PackagerState
      BY DEF TypeOK, PackagerState
    <3> QED
      BY <1>4, <3>1 DEF Publish, TypeOK
  <2>3. inbox' \in [Medium -> SUBSET PackageId]
    BY <1>4, <2>1 DEF Publish, TypeOK
  <2> QED
    BY <1>4, <2>2, <2>3 DEF Publish, TypeOK
<1>5. ASSUME NEW h \in Packager, SaveGeneration(h) PROVE TypeOK'
  BY <1>5 DEF SaveGeneration, TypeOK, ProcessInv, PackagerState, Idle, Built, Manifest
<1>6. ASSUME NEW h \in Packager, PackagerStops(h) PROVE TypeOK'
  <2>1. inbox' \in [Medium -> SUBSET PackageId] /\ torn' \subseteq PackageId
    BY <1>6 DEF PackagerStops, Loses, ProcessInv, TypeOK
  <2>2. packager' \in [Packager -> PackagerState]
    <3>1. Idle \in PackagerState
      BY DEF PackagerState, Idle
    <3> QED
      BY <1>6, <3>1 DEF PackagerStops, TypeOK
  <2> QED
    BY <1>6, <2>1, <2>2, FaultTyped DEF PackagerStops, TypeOK
<1>7. ASSUME NEW m \in Medium, NEW ks \in SUBSET Mount, Insert(m, ks) PROVE TypeOK'
  BY <1>7 DEF Insert, TypeOK
<1>8. ASSUME NEW k \in Mount, OperatorUnmounts(k) PROVE TypeOK'
  BY <1>8 DEF OperatorUnmounts, WritesBack, TypeOK
<1>9. ASSUME StartScan PROVE TypeOK'
  BY <1>9 DEF StartScan, TypeOK, ScannerState, Asleep, NoResult
<1>10. ASSUME NEW k \in Mount, NextMedium(k) PROVE TypeOK'
  <2>1. faults' \in 0..MaxFaults
    BY <1>10, FaultTyped, BreaksTyped DEF NextMedium
  <2>2. MediumOf[k] \in Medium /\ pending[MediumOf[k]] \subseteq Result
    BY DEF TypeOK
  <2>3. scan' \in ScannerState
    <3>1. \A label \in {"replay", "unmount"} : Visits(k, label) \in ScannerState
      BY <2>2 DEF Visits, TypeOK, ScannerState
    <3> QED
      BY <1>10, <2>2, <3>1 DEF NextMedium, ScannerState
  <2> QED
    BY <1>10, <2>1, <2>3 DEF NextMedium, TypeOK
<1>11. ASSUME NEW x \in Result, BeginCopy(x) PROVE TypeOK'
  <2>1. scan' \in ScannerState
    BY <1>11 DEF BeginCopy, TypeOK, ScannerState
  <2>2. returned' \in [Medium -> SUBSET Result] /\ unsynced' \in [Medium -> SUBSET Result]
    BY <1>11 DEF BeginCopy, TypeOK
  <2> QED
    BY <1>11, <2>1, <2>2 DEF BeginCopy, TypeOK
<1>12. ASSUME FinishCopy PROVE TypeOK'
  <2>1. scan.result \in Result
    BY <1>12 DEF FinishCopy, ProcessInv, TypeOK, At
  <2>2. returned' \in [Medium -> SUBSET Result] /\ unsynced' \in [Medium -> SUBSET Result]
    BY <1>12, <2>1 DEF FinishCopy, TypeOK
  <2>3. scan' \in ScannerState
    BY <1>12 DEF FinishCopy, TypeOK, ScannerState
  <2> QED
    BY <1>12, <2>2, <2>3 DEF FinishCopy, TypeOK
<1>13. ASSUME FailCopy PROVE TypeOK'
  <2>1. faults' \in 0..MaxFaults
    BY <1>13, BreaksTyped DEF FailCopy
  <2>2. scan' \in ScannerState
    BY <1>13 DEF FailCopy, TypeOK, ScannerState
  <2> QED
    BY <1>13, <2>1, <2>2 DEF FailCopy, TypeOK
<1>14. ASSUME UnlinkReceipt PROVE TypeOK'
  <2>1. faults' \in 0..MaxFaults
    BY <1>14, FaultTyped DEF UnlinkReceipt
  <2>2. scan' \in ScannerState
    BY <1>14 DEF UnlinkReceipt, Raises, TypeOK, ScannerState
  <2>3. pending' \in [Medium -> SUBSET Result]
    BY <1>14 DEF UnlinkReceipt, TypeOK
  <2> QED
    BY <1>14, <2>1, <2>2, <2>3 DEF UnlinkReceipt, TypeOK
<1>15. ASSUME CopyCandidates PROVE TypeOK'
  <2>1. faults' \in 0..MaxFaults
    BY <1>15, FaultTyped DEF CopyCandidates, CopiesFrom
  <2>2. scan' \in ScannerState
    BY <1>15 DEF CopyCandidates, CopiesFrom, TypeOK, ScannerState
  <2>3. scan.medium \in Medium /\ inbox[scan.medium] \subseteq PackageId
    BY <1>15 DEF CopyCandidates, CopiesFrom, ProcessInv, TypeOK, At
  <2>4. copied' \subseteq Item
    <3>1. PICK read \in SUBSET {p \in Fresh : Verifies(p)} :
            copied' = copied \cup {[package |-> p, medium |-> scan.medium] : p \in read}
      BY <1>15 DEF CopyCandidates, CopiesFrom
    <3> QED
      BY <3>1, <2>3 DEF Fresh, TypeOK, Item
  <2> QED
    BY <1>15, <2>1, <2>2, <2>4 DEF CopyCandidates, CopiesFrom, TypeOK
<1>28. ASSUME CopyingRaises PROVE TypeOK'
  <2>1. scan' \in ScannerState
    BY <1>28 DEF CopyingRaises, Raises, TypeOK, ScannerState
  <2> QED
    BY <1>28, <2>1, BreaksTyped DEF CopyingRaises, TypeOK
<1>29. ASSUME NEW m \in Medium, TakeAway(m) PROVE TypeOK'
  <2>1. scan' \in ScannerState
    BY <1>29 DEF TakeAway, TypeOK, ScannerState
  <2>2. returned' \in [Medium -> SUBSET Result] /\ unsynced' \in [Medium -> SUBSET Result]
    BY <1>29 DEF TakeAway, TypeOK
  <2>3. mounted' \subseteq Mount /\ taken' \subseteq Medium
    BY <1>29 DEF TakeAway, TypeOK
  <2> QED
    BY <1>29, <2>1, <2>2, <2>3, FaultTyped DEF TakeAway, TypeOK
<1>16. ASSUME Unmount PROVE TypeOK'
  <2>1. scan' \in ScannerState
    BY <1>16, LeavingTyped DEF Unmount
  <2>2. copied' \subseteq Item /\ chosen' \subseteq Item /\ stuck' \subseteq Medium
    BY <1>16 DEF Unmount, Ends, Resumes, TypeOK
  <2>3. mounted' \subseteq Mount /\ unsynced' \in [Medium -> SUBSET Result]
    BY <1>16 DEF Unmount, WritesBack, TypeOK
  <2> QED
    BY <1>16, <2>1, <2>2, <2>3 DEF Unmount, TypeOK
<1>17. ASSUME UnmountFails PROVE TypeOK'
  <2>1. faults' \in 0..MaxFaults
    BY <1>17, BreaksTyped DEF UnmountFails
  <2>2. scan' \in ScannerState
    BY <1>17, LeavingTyped DEF UnmountFails
  <2>3. copied' \subseteq Item /\ chosen' \subseteq Item /\ stuck' \subseteq Medium
    BY <1>17 DEF UnmountFails, Ends, Resumes, ProcessInv, TypeOK, At
  <2> QED
    BY <1>17, <2>1, <2>2, <2>3 DEF UnmountFails, TypeOK
<1>18. ASSUME Choose PROVE TypeOK'
  BY <1>18 DEF Choose, TypeOK, ScannerState, Item, OnePerRoot
<1>19. ASSUME NEW i \in Item, ApplyPackage(i) PROVE TypeOK'
  <2>1. PICK x \in Result :
          /\ Settles(i, x)
          /\ scan' = [scan EXCEPT !.at = "queue", !.result = x, !.medium = i.medium]
    BY <1>19 DEF ApplyPackage
  <2>2. scan' \in ScannerState
    BY <2>1 DEF TypeOK, ScannerState, Item
  <2>3. store' \subseteq Commit /\ results' \subseteq Result
    BY <1>19, <2>1, Applied DEF ApplyPackage, Interrupted
  <2> QED
    BY <1>19, <2>2, <2>3 DEF ApplyPackage, TypeOK
<1>20. ASSUME NEW i \in Item, ApplyRaises(i) PROVE TypeOK'
  <2>1. store' \subseteq Commit /\ results' \subseteq Result
    BY <1>20, Applied DEF ApplyRaises
  <2> QED
    BY <1>20, <2>1, FaultTyped DEF ApplyRaises, TypeOK
<1>21. ASSUME QueueResult PROVE TypeOK'
  <2>1. scan.medium \in Medium /\ scan.result \in Result
    BY <1>21 DEF QueueResult, ProcessInv, TypeOK, At
  <2>2. scan' \in ScannerState
    BY <1>21 DEF QueueResult, TypeOK, ScannerState
  <2>3. pending' \in [Medium -> SUBSET Result] /\ queued' \subseteq Medium \X Result
    BY <1>21, <2>1 DEF QueueResult, TypeOK
  <2> QED
    BY <1>21, <2>2, <2>3 DEF QueueResult, TypeOK
<1>22. ASSUME QueueRaises PROVE TypeOK'
  BY <1>22, FaultTyped DEF QueueRaises, Ends, TypeOK, ScannerState, Asleep
<1>23. ASSUME EndScan PROVE TypeOK'
  BY <1>23 DEF EndScan, Ends, TypeOK, ScannerState, Asleep, NoResult
<1>24. ASSUME Crash PROVE TypeOK'
  <2>1. faults' \in 0..MaxFaults
    BY <1>24, FaultTyped DEF Crash
  <2>2. scan' \in ScannerState
    BY <1>24 DEF Crash, Ends, ScannerState, Asleep
  <2>3. store' \subseteq Commit /\ results' \subseteq Result
    <3>1. CASE UNCHANGED <<store, results>>
      BY <3>1 DEF TypeOK
    <3>2. CASE \E i \in chosen : Interrupted(i)
      BY <3>2, Applied
    <3> QED
      BY <1>24, <3>1, <3>2 DEF Crash
  <2> QED
    BY <1>24, <2>1, <2>2, <2>3 DEF Crash, Ends, TypeOK
<1>26. ASSUME NEW h \in Packager, Sync(h) PROVE TypeOK'
  <2>1. [packager[h] EXCEPT !.at = "save"] \in PackagerState
    BY DEF TypeOK, PackagerState
  <2> QED
    BY <1>26, <2>1 DEF Sync, TypeOK
<1>27. ASSUME NEW h \in Packager, Pull(h) PROVE TypeOK'
  <2>1. packager[h].medium \in Medium /\ packager[h].package \in PackageId
    BY <1>27 DEF Pull, ProcessInv
  <2>2. inbox' \in [Medium -> SUBSET PackageId] /\ torn' \subseteq PackageId
    BY <1>27, <2>1 DEF Pull, Loses, TypeOK
  <2>3. packager' \in [Packager -> PackagerState]
    <3>1. [packager[h] EXCEPT !.at = "save"] \in PackagerState
      BY DEF TypeOK, PackagerState
    <3> QED
      BY <1>27, <3>1 DEF Pull, TypeOK
  <2> QED
    BY <1>27, <2>2, <2>3 DEF Pull, TypeOK
<1>25. CASE UNCHANGED vars
  BY <1>25 DEF vars, TypeOK
<1> QED
  BY <1>1, <1>2, <1>3, <1>4, <1>5, <1>6, <1>7, <1>8, <1>9, <1>10, <1>11, <1>12, <1>13, <1>14, <1>15, <1>16, <1>17, <1>18, <1>19, <1>20, <1>21, <1>22, <1>23, <1>24, <1>25, <1>26, <1>27, <1>28, <1>29 DEF Next, Packaging, Carrying, Replaying, Applying

-----------------------------------------------------------------------------
(* Only building writes a manifest, and only applying, or dying in it, adds *)
(* to the store and the results.                                            *)

LEMMA Writers ==
  ASSUME [Next]_vars
  PROVE  \/ \E h \in Packager, m \in Medium, c \in Commit, full \in BOOLEAN, p \in PackageId :
              BuildPackage(h, m, c, full, p)
         \/ UNCHANGED manifest /\ At("apply") /\ \E i \in chosen : Interrupted(i)
         \/ UNCHANGED <<manifest, store, results>>
<1> USE DEF disk
<1>1. CASE Packaging
  BY <1>1 DEF Packaging, LoadProfile, SaveConfirmed, Publish, Sync, SaveGeneration,
              PackagerStops
<1>2. CASE Carrying
  BY <1>2 DEF Carrying, Insert, Pull, TakeAway, OperatorUnmounts
<1>3. CASE Replaying
  BY <1>3 DEF Replaying, NextMedium, BeginCopy, FinishCopy, FailCopy, UnlinkReceipt,
              CopyCandidates, CopiesFrom, CopyingRaises, Unmount, UnmountFails
<1>4. CASE Applying
  BY <1>4 DEF Applying, Choose, ApplyPackage, ApplyRaises, Interrupted, QueueResult, QueueRaises,
              EndScan
<1>5. CASE StartScan
  BY <1>5 DEF StartScan
<1>6. CASE UNCHANGED vars
  BY <1>6 DEF vars
<1>7. CASE Crash
  BY <1>7 DEF Crash
<1> QED
  BY <1>1, <1>2, <1>3, <1>4, <1>5, <1>6, <1>7 DEF Next

LEMMA NotBuilt == NoManifest \notin Manifest
  BY NoneAssumption DEF NoManifest, Manifest

\* A manifest is written once; the store and the results only grow.
LEMMA Monotone ==
  ASSUME TypeOK, OriginInv, [Next]_vars
  PROVE  /\ store \subseteq store' /\ results \subseteq results'
         /\ \A p \in PackageId : Built(p) => manifest'[p] = manifest[p]
<1>1. ASSUME NEW h \in Packager, NEW m \in Medium, NEW c \in Commit, NEW full \in BOOLEAN,
             NEW q \in PackageId, BuildPackage(h, m, c, full, q)
      PROVE  \A p \in PackageId : Built(p) => manifest'[p] = manifest[p]
  BY <1>1, NotBuilt DEF BuildPackage, Built, TypeOK
<1>2. ASSUME NEW h \in Packager, NEW m \in Medium, NEW c \in Commit, NEW full \in BOOLEAN,
             NEW q \in PackageId, BuildPackage(h, m, c, full, q)
      PROVE  UNCHANGED <<store, results>>
  BY <1>2 DEF BuildPackage, disk
<1>3. CASE UNCHANGED manifest /\ \E i \in chosen : Interrupted(i)
  BY <1>3, Applied
<1>4. CASE UNCHANGED <<manifest, store, results>>
  BY <1>4
<1> QED
  BY <1>1, <1>2, <1>3, <1>4, Writers

-----------------------------------------------------------------------------
(* The target holds what it reported.                                      *)

\* What packaging counts on is part of a success the host has heard of.
LEMMA BasesAreReported ==
  ASSUME NEW known, NEW c, NEW bs \in Bases(known, c), NEW b \in bs
  PROVE  \E x \in known : Succeeded(x) /\ b \in Graph(manifest[x.package].commit)
  BY DEF Bases, Newest

LEMMA HeldStep ==
  ASSUME TypeOK, OriginInv, HeldInv, [Next]_vars PROVE HeldInv'
<1> USE DEF HeldInv
<1>1. ASSUME NEW x \in results
      PROVE  /\ x.package \in PackageId /\ manifest'[x.package] = manifest[x.package]
             /\ Succeeded(x) => Graph(manifest'[x.package].commit) \subseteq store'
             /\ x.status = "needs-full-bundle" =>
                  \A b \in manifest'[x.package].bases : RepoOf[b] # RepoOf[x.needs]
  <2>1. x.package \in PackageId /\ manifest'[x.package] = manifest[x.package]
    BY Monotone DEF OriginInv, TypeOK, Result
  <2>2. Succeeded(x) => Graph(manifest[x.package].commit) \subseteq store'
    BY Monotone
  <2> QED
    BY <2>1, <2>2 DEF IncrementNeverRefused
<1>2. ASSUME UNCHANGED results
      PROVE  /\ \A x \in results' : Succeeded(x) => Graph(manifest'[x.package].commit) \subseteq store'
             /\ IncrementNeverRefused'
  BY <1>1, <1>2 DEF IncrementNeverRefused, Graph
<1>3. ASSUME UNCHANGED manifest PROVE BasesHeld'
  BY <1>3, Monotone DEF BasesHeld
<1>4. ASSUME NEW h \in Packager, NEW m \in Medium, NEW c \in Commit, NEW full \in BOOLEAN,
             NEW p \in PackageId, BuildPackage(h, m, c, full, p)
      PROVE  HeldInv'
  <2>1. UNCHANGED <<store, results>>
    BY <1>4 DEF BuildPackage, disk
  <2>2. PICK bs \in Bases(Known(m), c) :
          manifest' = [manifest EXCEPT ![p] =
            [root |-> packager[h].root, generation |-> packager[h].generation + 1,
             commit |-> c, bases |-> bs, full |-> full]]
    BY <1>4 DEF BuildPackage
  <2>3. bs \subseteq store
    BY BasesAreReported DEF Known, OriginInv
  <2>4. BasesHeld'
    BY <2>1, <2>2, <2>3 DEF BasesHeld, TypeOK
  <2> QED
    BY <1>2, <2>1, <2>4 DEF Succeeded, Graph
<1>5. ASSUME UNCHANGED manifest, NEW i \in chosen, Interrupted(i) PROVE HeldInv'
  <2>1. /\ store \subseteq store'
        /\ \A x \in results' \ results :
             /\ x.package = i.package
             /\ Succeeded(x) => Graph(manifest[i.package].commit) \subseteq store'
             /\ x.status = "needs-full-bundle" => Lacks(i.package, x.needs)
    BY <1>5, Applied
  <2>2. i.package \in PackageId
    BY DEF TypeOK, Item
  <2>3. ASSUME NEW n, Lacks(i.package, n)
        PROVE  \A b \in manifest[i.package].bases : RepoOf[b] # RepoOf[n]
    BY <2>2, <2>3 DEF Lacks, BasesHeld
  <2>4. \A x \in results' : Succeeded(x) => Graph(manifest'[x.package].commit) \subseteq store'
    BY <1>1, <1>5, <2>1
  <2>5. IncrementNeverRefused'
    <3>1. ASSUME NEW x \in results', x.status = "needs-full-bundle"
          PROVE  \A b \in manifest'[x.package].bases : RepoOf[b] # RepoOf[x.needs]
      <4>1. CASE x \in results
        BY <1>1, <3>1, <4>1
      <4>2. CASE x \in results' \ results
        BY <1>5, <2>1, <2>3, <3>1, <4>2
      <4> QED
        BY <4>1, <4>2
    <3> QED
      BY <3>1 DEF IncrementNeverRefused, Graph
  <2> QED
    BY <1>3, <1>5, <2>4, <2>5 DEF Succeeded, Graph
<1>7. CASE UNCHANGED <<manifest, store, results>>
  BY <1>2, <1>3, <1>7 DEF Succeeded, Graph
<1> QED
  BY <1>4, <1>5, <1>7, Writers

-----------------------------------------------------------------------------
(* Processes and origins.                                                  *)

LEMMA StaysBuilt ==
  ASSUME TypeOK, OriginInv, [Next]_vars
  PROVE  \A p \in PackageId : Built(p) => Built(p)'
  BY Monotone DEF Built

LEMMA ProcessStep ==
  ASSUME TypeOK, ProcessInv, OriginInv, [Next]_vars PROVE ProcessInv'
<1> USE DEF host, media, disk, process, operator
<1>1. ASSUME NEW h \in Packager, NEW r \in Root, LoadProfile(h, r) PROVE ProcessInv'
  BY <1>1 DEF LoadProfile, ProcessInv, TypeOK, PackagerState, Idle, Built
<1>2. ASSUME NEW h \in Packager, SaveConfirmed(h) PROVE ProcessInv'
  BY <1>2 DEF SaveConfirmed, ProcessInv, TypeOK, PackagerState, Idle, Built
<1>3. ASSUME NEW h \in Packager, NEW m \in Medium, NEW c \in Commit, NEW full \in BOOLEAN,
             NEW p \in PackageId, BuildPackage(h, m, c, full, p)
      PROVE  ProcessInv'
  <2>1. UNCHANGED scan /\ UNCHANGED results
    BY <1>3 DEF BuildPackage
  <2>2. Built(p)'
    <3>1. manifest'[p] \in Manifest \cup {NoManifest}
      BY TypeStep DEF TypeOK
    <3>2. manifest'[p].root = packager[h].root
      BY <1>3 DEF BuildPackage, Known, TypeOK
    <3>3. packager[h].root # None
      BY <1>3, NoneAssumption DEF BuildPackage, ProcessInv
    <3> QED
      BY <3>1, <3>2, <3>3 DEF Built, NoManifest
  <2>3. \A g \in Packager : packager'[g] =
          IF g = h THEN [packager[h] EXCEPT !.at = "publish", !.medium = m, !.package = p]
          ELSE packager[g]
    BY <1>3 DEF BuildPackage, Known, TypeOK
  <2> QED
    BY <1>3, <2>1, <2>2, <2>3, StaysBuilt DEF BuildPackage, ProcessInv, TypeOK, PackagerState
<1>4. ASSUME NEW h \in Packager, Publish(h) PROVE ProcessInv'
  BY <1>4 DEF Publish, ProcessInv, TypeOK, PackagerState, Built
<1>5. ASSUME NEW h \in Packager, SaveGeneration(h) PROVE ProcessInv'
  BY <1>5 DEF SaveGeneration, ProcessInv, TypeOK, PackagerState, Idle, Built
<1>6. ASSUME NEW h \in Packager, PackagerStops(h) PROVE ProcessInv'
  BY <1>6 DEF PackagerStops, ProcessInv, TypeOK, PackagerState, Idle, Built
<1>7. ASSUME NEW m \in Medium, NEW ks \in SUBSET Mount, Insert(m, ks) PROVE ProcessInv'
  BY <1>7 DEF Insert, ProcessInv, Built
<1>8. ASSUME NEW k \in Mount, OperatorUnmounts(k) PROVE ProcessInv'
  BY <1>8 DEF OperatorUnmounts, ProcessInv, Built
<1>9. ASSUME StartScan PROVE ProcessInv'
  BY <1>9 DEF StartScan, ProcessInv, TypeOK, ScannerState, Asleep, Built, OriginInv, At
<1>10. ASSUME NEW k \in Mount, NextMedium(k) PROVE ProcessInv'
  <2>1. MediumOf[k] \in Medium
    BY MountAssumption
  <2>2. scan'.medium = MediumOf[k] /\ scan'.at \in {"replay", "unmount"}
    BY <1>10 DEF NextMedium, Visits, TypeOK, ScannerState
  <2> QED
    BY <1>10, <2>1, <2>2 DEF NextMedium, ProcessInv, Built
<1>11. ASSUME NEW x \in Result, BeginCopy(x) PROVE ProcessInv'
  BY <1>11 DEF BeginCopy, ProcessInv, TypeOK, ScannerState, Asleep, Built, OriginInv, At
<1>12. ASSUME FinishCopy PROVE ProcessInv'
  BY <1>12 DEF FinishCopy, ProcessInv, TypeOK, ScannerState, Asleep, Built, OriginInv, At
<1>13. ASSUME FailCopy PROVE ProcessInv'
  BY <1>13 DEF FailCopy, ProcessInv, TypeOK, ScannerState, Asleep, Built, OriginInv, At
<1>14. ASSUME UnlinkReceipt PROVE ProcessInv'
  <2>1. scan'.medium = scan.medium /\ scan'.at \in {"replay", "unmount"}
    BY <1>14 DEF UnlinkReceipt, Raises, TypeOK, ScannerState
  <2> QED
    BY <1>14, <2>1 DEF UnlinkReceipt, At, ProcessInv, Built
<1>28. ASSUME CopyingRaises PROVE ProcessInv'
  BY <1>28 DEF CopyingRaises, Raises, ProcessInv, TypeOK, ScannerState, Built, At
<1>29. ASSUME NEW m \in Medium, TakeAway(m) PROVE ProcessInv'
  <2>1. scan'.at = scan.at /\ scan'.medium = scan.medium /\ scan'.result = scan.result
    BY <1>29 DEF TakeAway, TypeOK, ScannerState
  <2> QED
    BY <1>29, <2>1 DEF TakeAway, ProcessInv, Built
<1>15. ASSUME CopyCandidates PROVE ProcessInv'
  BY <1>15 DEF CopyCandidates, CopiesFrom, ProcessInv, TypeOK, ScannerState, Asleep, Built, OriginInv, At
<1>16. ASSUME Unmount PROVE ProcessInv'
  BY <1>16, Leaving DEF Unmount, ProcessInv, Built
<1>17. ASSUME UnmountFails PROVE ProcessInv'
  BY <1>17, Leaving DEF UnmountFails, ProcessInv, Built
<1>18. ASSUME Choose PROVE ProcessInv'
  BY <1>18 DEF Choose, ProcessInv, TypeOK, ScannerState, Asleep, Built, OriginInv, At
<1>19. ASSUME NEW i \in Item, ApplyPackage(i) PROVE ProcessInv'
  BY <1>19 DEF ApplyPackage, Settles, ProcessInv, TypeOK, ScannerState, Item, Built
<1>20. ASSUME NEW i \in Item, ApplyRaises(i) PROVE ProcessInv'
  BY <1>20, Applied DEF ApplyRaises, ProcessInv, TypeOK, ScannerState, Asleep, Built, OriginInv, At
<1>21. ASSUME QueueResult PROVE ProcessInv'
  BY <1>21 DEF QueueResult, ProcessInv, TypeOK, ScannerState, Asleep, Built, OriginInv, At
<1>22. ASSUME QueueRaises PROVE ProcessInv'
  BY <1>22 DEF QueueRaises, Ends, ProcessInv, TypeOK, ScannerState, Asleep, Built, OriginInv, At
<1>23. ASSUME EndScan PROVE ProcessInv'
  BY <1>23 DEF EndScan, Ends, ProcessInv, TypeOK, ScannerState, Asleep, Built, OriginInv, At
<1>24. ASSUME Crash PROVE ProcessInv'
  BY <1>24 DEF Crash, Ends, ProcessInv, TypeOK, ScannerState, Asleep, Built
<1>26. ASSUME NEW h \in Packager, Sync(h) PROVE ProcessInv'
  BY <1>26 DEF Sync, ProcessInv, TypeOK, PackagerState, Built
<1>27. ASSUME NEW h \in Packager, Pull(h) PROVE ProcessInv'
  BY <1>27 DEF Pull, ProcessInv, TypeOK, PackagerState, Built
<1>25. CASE UNCHANGED vars
  BY <1>25 DEF vars, ProcessInv, Built
<1> QED
  BY <1>1, <1>2, <1>3, <1>4, <1>5, <1>6, <1>7, <1>8, <1>9, <1>10, <1>11, <1>12, <1>13, <1>14, <1>15, <1>16, <1>17, <1>18, <1>19, <1>20, <1>21, <1>22, <1>23, <1>24, <1>25, <1>26, <1>27, <1>28, <1>29 DEF Next, Packaging, Carrying, Replaying, Applying

LEMMA OriginStep ==
  ASSUME TypeOK, ProcessInv, OriginInv, [Next]_vars PROVE OriginInv'
<1> USE DEF host, media, disk, process, operator
<1>1. ASSUME NEW h \in Packager, NEW r \in Root, LoadProfile(h, r) PROVE OriginInv'
  BY <1>1 DEF LoadProfile, OriginInv, Built
<1>2. ASSUME NEW h \in Packager, SaveConfirmed(h) PROVE OriginInv'
  BY <1>2 DEF SaveConfirmed, OriginInv, Built
<1>3. ASSUME NEW h \in Packager, NEW m \in Medium, NEW c \in Commit, NEW full \in BOOLEAN,
             NEW p \in PackageId, BuildPackage(h, m, c, full, p)
      PROVE  OriginInv'
  <2>1. \A q \in PackageId : Built(q) => Built(q)'
    BY StaysBuilt
  <2>2. receipts' \subseteq results
    BY <1>3 DEF BuildPackage, Known, OriginInv
  <2> QED
    BY <1>3, <2>1, <2>2 DEF BuildPackage, OriginInv, TypeOK, Item, Result
<1>4. ASSUME NEW h \in Packager, Publish(h) PROVE OriginInv'
  <2>1. /\ packager[h].package \in PackageId /\ Built(packager[h].package)
        /\ packager[h].medium \in Medium
    BY <1>4 DEF Publish, ProcessInv
  <2> QED
    BY <1>4, <2>1 DEF Publish, OriginInv, TypeOK, Built
<1>5. ASSUME NEW h \in Packager, SaveGeneration(h) PROVE OriginInv'
  BY <1>5 DEF SaveGeneration, OriginInv, Built
<1>6. ASSUME NEW h \in Packager, PackagerStops(h) PROVE OriginInv'
  BY <1>6 DEF PackagerStops, Loses, OriginInv, TypeOK, Built
<1>7. ASSUME NEW m \in Medium, NEW ks \in SUBSET Mount, Insert(m, ks) PROVE OriginInv'
  BY <1>7 DEF Insert, OriginInv, Built
<1>8. ASSUME NEW k \in Mount, OperatorUnmounts(k) PROVE OriginInv'
  BY <1>8 DEF OperatorUnmounts, OriginInv, Built
<1>9. ASSUME StartScan PROVE OriginInv'
  BY <1>9 DEF StartScan, OriginInv, TypeOK, ScannerState, Asleep, OnePerRoot, Built
<1>10. ASSUME NEW k \in Mount, NextMedium(k) PROVE OriginInv'
  <2>1. scan'.files \subseteq results
    BY <1>10, MountAssumption DEF NextMedium, Visits, OriginInv, TypeOK, ScannerState
  <2> QED
    BY <1>10, <2>1 DEF NextMedium, OriginInv, Built
<1>11. ASSUME NEW x \in Result, BeginCopy(x) PROVE OriginInv'
  <2>1. scan'.files \subseteq results
    BY <1>11 DEF BeginCopy, OriginInv, TypeOK, ScannerState
  <2>2. \A m \in Medium : returned'[m] \subseteq results
    BY <1>11 DEF BeginCopy, OriginInv, TypeOK
  <2> QED
    BY <1>11, <2>1, <2>2 DEF BeginCopy, OriginInv, Built
<1>12. ASSUME FinishCopy PROVE OriginInv'
  <2>1. scan'.files \subseteq results
    BY <1>12 DEF FinishCopy, OriginInv, TypeOK, ScannerState
  <2>2. scan.result \in results
    BY <1>12 DEF FinishCopy, ProcessInv, At
  <2>3. \A m \in Medium : returned'[m] \subseteq results
    BY <1>12, <2>2 DEF FinishCopy, OriginInv, TypeOK
  <2> QED
    BY <1>12, <2>1, <2>3 DEF FinishCopy, OriginInv, Built
<1>13. ASSUME FailCopy PROVE OriginInv'
  BY <1>13 DEF FailCopy, OriginInv, TypeOK, ScannerState, Asleep, OnePerRoot, Built
<1>28. ASSUME CopyingRaises PROVE OriginInv'
  BY <1>28 DEF CopyingRaises, Raises, OriginInv, TypeOK, ScannerState, Built
<1>29. ASSUME NEW m \in Medium, TakeAway(m) PROVE OriginInv'
  <2>1. scan'.files = scan.files
    BY <1>29 DEF TakeAway, TypeOK, ScannerState
  <2>2. \A l \in Medium : returned'[l] \subseteq results
    BY <1>29 DEF TakeAway, OriginInv, TypeOK
  <2> QED
    BY <1>29, <2>1, <2>2 DEF TakeAway, OriginInv, Built
<1>14. ASSUME UnlinkReceipt PROVE OriginInv'
  <2>1. scan'.files \subseteq results
    BY <1>14 DEF UnlinkReceipt, Raises, OriginInv, TypeOK, ScannerState
  <2>2. \A m \in Medium : pending'[m] \subseteq results
    BY <1>14 DEF UnlinkReceipt, OriginInv, TypeOK
  <2> QED
    BY <1>14, <2>1, <2>2 DEF UnlinkReceipt, OriginInv, Built
<1>15. ASSUME CopyCandidates PROVE OriginInv'
  <2>1. scan'.files \subseteq results
    BY <1>15 DEF CopyCandidates, CopiesFrom, OriginInv, TypeOK, ScannerState
  <2>2. scan.medium \in Medium
    BY <1>15 DEF CopyCandidates, CopiesFrom, ProcessInv, At
  <2>3. \A i \in copied' : Built(i.package)
    BY <1>15, <2>2 DEF CopyCandidates, CopiesFrom, Fresh, OriginInv
  <2> QED
    BY <1>15, <2>1, <2>3 DEF CopyCandidates, CopiesFrom, OriginInv, Built
<1>16. ASSUME Unmount PROVE OriginInv'
  <2>1. scan'.files \subseteq results
    BY <1>16, Leaving DEF Unmount, OriginInv
  <2> QED
    BY <1>16, <2>1 DEF Unmount, Ends, Resumes, OriginInv, Built
<1>17. ASSUME UnmountFails PROVE OriginInv'
  <2>1. scan'.files \subseteq results
    BY <1>17, Leaving DEF UnmountFails, OriginInv
  <2> QED
    BY <1>17, <2>1 DEF UnmountFails, Ends, Resumes, OriginInv, Built
<1>18. ASSUME Choose PROVE OriginInv'
  BY <1>18 DEF Choose, OriginInv, TypeOK, ScannerState, Asleep, OnePerRoot, Built
<1>19. ASSUME NEW i \in chosen, Interrupted(i), UNCHANGED manifest, scan'.files \subseteq results,
              chosen' \subseteq chosen,
              copied' \subseteq copied, UNCHANGED <<receipts, inbox, returned, pending>>
       PROVE  OriginInv'
  <2>1. results \subseteq results' /\ \A x \in results' : Built(x.package)
    BY <1>19, Applied DEF OriginInv
  <2> QED
    BY <1>19, <2>1 DEF OriginInv, Built
<1>20. ASSUME NEW i \in Item, ApplyPackage(i) \/ ApplyRaises(i) PROVE OriginInv'
  <2>1. scan'.files \subseteq results
    BY <1>20 DEF ApplyPackage, ApplyRaises, OriginInv, TypeOK, ScannerState
  <2>2. i \in chosen /\ Interrupted(i)
    BY <1>20 DEF ApplyPackage, ApplyRaises, Interrupted
  <2> QED
    BY <1>19, <1>20, <2>1, <2>2 DEF ApplyPackage, ApplyRaises
<1>21. ASSUME QueueResult PROVE OriginInv'
  <2>1. scan'.files \subseteq results
    BY <1>21 DEF QueueResult, OriginInv, TypeOK, ScannerState
  <2>2. scan.result \in results
    BY <1>21 DEF QueueResult, ProcessInv, At
  <2>3. \A m \in Medium : pending'[m] \subseteq results
    BY <1>21, <2>2 DEF QueueResult, OriginInv, TypeOK
  <2> QED
    BY <1>21, <2>1, <2>3 DEF QueueResult, OriginInv, Built
<1>22. ASSUME QueueRaises PROVE OriginInv'
  BY <1>22 DEF QueueRaises, Ends, OriginInv, TypeOK, ScannerState, Asleep, OnePerRoot, Built
<1>23. ASSUME EndScan PROVE OriginInv'
  BY <1>23 DEF EndScan, Ends, OriginInv, TypeOK, ScannerState, Asleep, OnePerRoot, Built
<1>24. ASSUME Crash PROVE OriginInv'
  <2>1. scan'.files \subseteq results
    BY <1>24 DEF Crash, Ends, Asleep
  <2>2. CASE UNCHANGED <<store, results>>
    BY <1>24, <2>1, <2>2 DEF Crash, Ends, OriginInv, Built
  <2>3. CASE \E i \in chosen : Interrupted(i)
    BY <1>19, <1>24, <2>1, <2>3 DEF Crash, Ends
  <2> QED
    BY <1>24, <2>2, <2>3 DEF Crash
<1>26. ASSUME NEW h \in Packager, Sync(h) PROVE OriginInv'
  BY <1>26 DEF Sync, OriginInv, Built
<1>27. ASSUME NEW h \in Packager, Pull(h) PROVE OriginInv'
  BY <1>27 DEF Pull, Loses, OriginInv, TypeOK, Built
<1>25. CASE UNCHANGED vars
  BY <1>25 DEF vars, OriginInv, Built
<1> QED
  BY <1>1, <1>2, <1>3, <1>4, <1>5, <1>6, <1>7, <1>8, <1>9, <1>10, <1>11, <1>12, <1>13, <1>14, <1>15, <1>16, <1>17, <1>18, <1>19, <1>20, <1>21, <1>22, <1>23, <1>24, <1>25, <1>26, <1>27, <1>28, <1>29 DEF Next, Packaging, Carrying, Replaying, Applying

-----------------------------------------------------------------------------
(* What is chosen stays newer than what is installed.                      *)

LEMMA NewerIsStable ==
  ASSUME TypeOK, OriginInv, [Next]_vars, UNCHANGED results, NEW p \in PackageId, Built(p)
  PROVE  Newer(p)' = Newer(p)
<1>1. manifest'[p] = manifest[p]
  BY Monotone
<1>2. \A x \in results : manifest'[x.package] = manifest[x.package]
  BY Monotone DEF OriginInv, TypeOK, Result
<1> QED
  BY <1>1, <1>2 DEF Newer, Succeeded

LEMMA ChoiceKept ==
  ASSUME TypeOK, OriginInv, ChoiceInv, [Next]_vars, UNCHANGED results,
         scan'.at \in {"apply", "queue"} => scan.at \in {"apply", "queue"},
         chosen' \subseteq chosen
  PROVE  ChoiceInv'
<1>1. \A i \in chosen : /\ i.package \in PackageId /\ Built(i.package)
                         /\ manifest'[i.package] = manifest[i.package]
  BY Monotone DEF TypeOK, Item, OriginInv
<1>2. \A i \in chosen : Newer(i.package)' = Newer(i.package)
  BY <1>1, NewerIsStable
<1> QED
  BY <1>1, <1>2 DEF ChoiceInv, RootOf

LEMMA ChoiceStep ==
  ASSUME TypeOK, ProcessInv, OriginInv, ChoiceInv, [Next]_vars PROVE ChoiceInv'
<1> USE DEF host, media, disk, process, operator
<1>1. ASSUME NEW h \in Packager, NEW r \in Root, LoadProfile(h, r) PROVE ChoiceInv'
  BY <1>1, ChoiceKept DEF LoadProfile
<1>2. ASSUME NEW h \in Packager, SaveConfirmed(h) PROVE ChoiceInv'
  BY <1>2, ChoiceKept DEF SaveConfirmed
<1>3. ASSUME NEW h \in Packager, NEW m \in Medium, NEW c \in Commit, NEW full \in BOOLEAN,
             NEW p \in PackageId, BuildPackage(h, m, c, full, p)
      PROVE  ChoiceInv'
  BY <1>3, ChoiceKept DEF BuildPackage
<1>4. ASSUME NEW h \in Packager, Publish(h) PROVE ChoiceInv'
  BY <1>4, ChoiceKept DEF Publish
<1>5. ASSUME NEW h \in Packager, SaveGeneration(h) PROVE ChoiceInv'
  BY <1>5, ChoiceKept DEF SaveGeneration
<1>6. ASSUME NEW h \in Packager, PackagerStops(h) PROVE ChoiceInv'
  BY <1>6, ChoiceKept DEF PackagerStops
<1>7. ASSUME NEW m \in Medium, NEW ks \in SUBSET Mount, Insert(m, ks) PROVE ChoiceInv'
  BY <1>7, ChoiceKept DEF Insert
<1>8. ASSUME NEW k \in Mount, OperatorUnmounts(k) PROVE ChoiceInv'
  BY <1>8, ChoiceKept DEF OperatorUnmounts
<1>9. ASSUME StartScan PROVE ChoiceInv'
  BY <1>9 DEF StartScan, ChoiceInv, Asleep, TypeOK, ScannerState
<1>10. ASSUME NEW k \in Mount, NextMedium(k) PROVE ChoiceInv'
  BY <1>10 DEF NextMedium, Visits, ChoiceInv, Asleep, TypeOK, ScannerState
<1>11. ASSUME NEW x \in Result, BeginCopy(x) PROVE ChoiceInv'
  BY <1>11 DEF BeginCopy, ChoiceInv, Asleep, TypeOK, ScannerState
<1>12. ASSUME FinishCopy PROVE ChoiceInv'
  BY <1>12 DEF FinishCopy, ChoiceInv, Asleep, TypeOK, ScannerState
<1>13. ASSUME FailCopy PROVE ChoiceInv'
  BY <1>13 DEF FailCopy, ChoiceInv, Asleep, TypeOK, ScannerState
<1>14. ASSUME UnlinkReceipt PROVE ChoiceInv'
  BY <1>14 DEF UnlinkReceipt, Raises, ChoiceInv, Asleep, TypeOK, ScannerState
<1>28. ASSUME CopyingRaises PROVE ChoiceInv'
  BY <1>28 DEF CopyingRaises, Raises, ChoiceInv, TypeOK, ScannerState
<1>29. ASSUME NEW m \in Medium, TakeAway(m) PROVE ChoiceInv'
  <2>1. scan'.at = scan.at
    BY <1>29 DEF TakeAway, TypeOK, ScannerState
  <2> QED
    BY <1>29, <2>1, ChoiceKept DEF TakeAway
<1>15. ASSUME CopyCandidates PROVE ChoiceInv'
  BY <1>15 DEF CopyCandidates, CopiesFrom, ChoiceInv, Asleep, TypeOK, ScannerState
<1>16. ASSUME Unmount PROVE ChoiceInv'
  BY <1>16 DEF Unmount, Ends, Resumes, ChoiceInv, Asleep, TypeOK, ScannerState
<1>17. ASSUME UnmountFails PROVE ChoiceInv'
  BY <1>17 DEF UnmountFails, Ends, Resumes, ChoiceInv, Asleep, TypeOK, ScannerState
<1>18. ASSUME Choose PROVE ChoiceInv'
  <2>1. UNCHANGED <<manifest, results>>
    BY <1>18 DEF Choose
  <2>2. OnePerRoot(chosen', {i \in copied : Newer(i.package)})
    BY <1>18 DEF Choose
  <2>3. \A i \in chosen' : Newer(i.package)'
    BY <2>1, <2>2 DEF OnePerRoot, Newer, Succeeded
  <2>4. \A i, j \in chosen' : RootOf(i)' = RootOf(j)' => i = j
    BY <2>1, <2>2 DEF OnePerRoot, RootOf
  <2> QED
    BY <2>3, <2>4 DEF ChoiceInv
<1>19. ASSUME NEW i \in Item, ApplyPackage(i) \/ ApplyRaises(i) PROVE ChoiceInv'
  <2>1. /\ scan.at = "apply" /\ i \in chosen /\ chosen' = chosen \ {i}
        /\ Interrupted(i) /\ UNCHANGED manifest
    BY <1>19 DEF ApplyPackage, ApplyRaises, Interrupted, At
  <2>2. \A j \in chosen' : RootOf(j) # RootOf(i) /\ Newer(j.package)
    BY <2>1 DEF ChoiceInv
  <2>3. \A x \in results' : x \in results \/ x.package = i.package
    BY <2>1, Applied
  <2>4. \A j \in chosen' : Newer(j.package)'
    BY <2>1, <2>2, <2>3 DEF Newer, RootOf, Succeeded
  <2>5. \A j, l \in chosen' : RootOf(j)' = RootOf(l)' => j = l
    BY <2>1 DEF ChoiceInv, RootOf
  <2> QED
    BY <2>4, <2>5 DEF ChoiceInv
<1>21. ASSUME QueueResult PROVE ChoiceInv'
  BY <1>21, ChoiceKept DEF QueueResult, At
<1>22. ASSUME QueueRaises PROVE ChoiceInv'
  BY <1>22 DEF QueueRaises, Ends, ChoiceInv, Asleep, TypeOK, ScannerState
<1>23. ASSUME EndScan PROVE ChoiceInv'
  BY <1>23 DEF EndScan, Ends, ChoiceInv, Asleep, TypeOK, ScannerState
<1>24. ASSUME Crash PROVE ChoiceInv'
  BY <1>24 DEF Crash, Ends, ChoiceInv, Asleep
<1>26. ASSUME NEW h \in Packager, Sync(h) PROVE ChoiceInv'
  BY <1>26, ChoiceKept DEF Sync
<1>27. ASSUME NEW h \in Packager, Pull(h) PROVE ChoiceInv'
  BY <1>27, ChoiceKept DEF Pull
<1>25. CASE UNCHANGED vars
  BY <1>25, ChoiceKept DEF vars
<1> QED
  BY <1>1, <1>2, <1>3, <1>4, <1>5, <1>6, <1>7, <1>8, <1>9, <1>10, <1>11, <1>12, <1>13, <1>14, <1>15, <1>16, <1>17, <1>18, <1>19, <1>21, <1>22, <1>23, <1>24, <1>25, <1>26, <1>27, <1>28, <1>29 DEF Next, Packaging, Carrying, Replaying, Applying

-----------------------------------------------------------------------------
(* Receipts are kept.                                                      *)

LEMMA ReplayStep ==
  ASSUME TypeOK, ProcessInv, OriginInv, ReplayInv, MountInv, [Next]_vars PROVE ReplayInv'
<1> USE DEF host, media, disk, process, operator
<1>1. ASSUME NEW h \in Packager, NEW r \in Root, LoadProfile(h, r) PROVE ReplayInv'
  BY <1>1 DEF LoadProfile, ReplayInv, ReceiptKept, Asleep, TypeOK, ScannerState, At
<1>2. ASSUME NEW h \in Packager, SaveConfirmed(h) PROVE ReplayInv'
  BY <1>2 DEF SaveConfirmed, ReplayInv, ReceiptKept, Asleep, TypeOK, ScannerState, At
<1>3. ASSUME NEW h \in Packager, NEW m \in Medium, NEW c \in Commit, NEW full \in BOOLEAN,
             NEW p \in PackageId, BuildPackage(h, m, c, full, p)
      PROVE  ReplayInv'
  BY <1>3 DEF BuildPackage, ReplayInv, ReceiptKept, Asleep, TypeOK, ScannerState, At
<1>4. ASSUME NEW h \in Packager, Publish(h) PROVE ReplayInv'
  BY <1>4 DEF Publish, ReplayInv, ReceiptKept, Asleep, TypeOK, ScannerState, At
<1>5. ASSUME NEW h \in Packager, SaveGeneration(h) PROVE ReplayInv'
  BY <1>5 DEF SaveGeneration, ReplayInv, ReceiptKept, Asleep, TypeOK, ScannerState, At
<1>6. ASSUME NEW h \in Packager, PackagerStops(h) PROVE ReplayInv'
  BY <1>6 DEF PackagerStops, ReplayInv, ReceiptKept, Asleep, TypeOK, ScannerState, At
<1>7. ASSUME NEW m \in Medium, NEW ks \in SUBSET Mount, Insert(m, ks) PROVE ReplayInv'
  BY <1>7 DEF Insert, ReplayInv, ReceiptKept, Asleep, TypeOK, ScannerState, At
<1>8. ASSUME NEW k \in Mount, OperatorUnmounts(k) PROVE ReplayInv'
  BY <1>8 DEF OperatorUnmounts, ReplayInv, ReceiptKept, Asleep, TypeOK, ScannerState, At
<1>9. ASSUME StartScan PROVE ReplayInv'
  BY <1>9 DEF StartScan, ReplayInv, ReceiptKept, Asleep, TypeOK, ScannerState, At
<1>10. ASSUME NEW k \in Mount, NextMedium(k) PROVE ReplayInv'
  <2>1. \/ scan'.at = "replay" /\ scan'.files = pending[scan'.medium]
        \/ scan'.at = "unmount"
    BY <1>10 DEF NextMedium, Visits, TypeOK, ScannerState
  <2> QED
    BY <1>10, <2>1 DEF NextMedium, ReplayInv, ReceiptKept
<1>11. ASSUME NEW x \in Result, BeginCopy(x) PROVE ReplayInv'
  <2>1. /\ scan.at = "replay" /\ x \in scan.files /\ scan.files \subseteq pending[scan.medium]
        /\ scan.medium \in Medium
    BY <1>11 DEF BeginCopy, At, ReplayInv, ProcessInv
  <2>2. /\ scan'.at = "copying" /\ scan'.files = scan.files \ {x} /\ scan'.result = x
        /\ scan'.medium = scan.medium /\ UNCHANGED <<pending, queued, taken>>
    BY <1>11 DEF BeginCopy, TypeOK, ScannerState
  <2>3. \A m \in Medium, y \in Result :
          y \in returned[m] => y \in returned'[m] \/ (m = scan.medium /\ y = x)
    BY <1>11 DEF BeginCopy, TypeOK
  <2>4. ReceiptKept'
    BY <2>1, <2>2, <2>3 DEF ReplayInv, ReceiptKept, TypeOK
  <2> QED
    BY <2>1, <2>2, <2>4 DEF ReplayInv
<1>12. ASSUME FinishCopy PROVE ReplayInv'
  <2>1. /\ scan.at = "copying" /\ scan.medium \in Medium
        /\ scan'.at = "unlink" /\ scan'.files = scan.files /\ scan'.result = scan.result
        /\ scan'.medium = scan.medium /\ UNCHANGED <<pending, queued, taken>>
    BY <1>12 DEF FinishCopy, At, ProcessInv, TypeOK, ScannerState
  <2>2. /\ scan.result \in returned'[scan.medium] \/ scan.medium \in taken
        /\ \A m \in Medium : returned[m] \subseteq returned'[m]
    BY <1>12, <2>1 DEF FinishCopy, TypeOK, MountInv, Replays
  <2>3. ReceiptKept'
    BY <2>1, <2>2 DEF ReplayInv, ReceiptKept, TypeOK
  <2> QED
    BY <2>1, <2>2, <2>3 DEF ReplayInv
<1>13. ASSUME FailCopy PROVE ReplayInv'
  <2>1. /\ scan.at = "copying" /\ scan'.at = "replay" /\ scan'.files = scan.files
        /\ scan'.medium = scan.medium /\ UNCHANGED <<pending, returned, queued, taken>>
    BY <1>13 DEF FailCopy, At, TypeOK, ScannerState
  <2> QED
    BY <2>1 DEF ReplayInv, ReceiptKept
<1>14. ASSUME UnlinkReceipt PROVE ReplayInv'
  <2>1. /\ scan.at = "unlink" /\ scan.medium \in Medium /\ UNCHANGED <<returned, queued, taken>>
    BY <1>14 DEF UnlinkReceipt, At, ProcessInv
  <2>2. scan.files \subseteq pending[scan.medium] \ {scan.result}
    BY <2>1 DEF ReplayInv
  <2>3. CASE /\ pending' = [pending EXCEPT ![scan.medium] = @ \ {scan.result}]
             /\ scan' = [scan EXCEPT !.at = "replay", !.result = NoResult]
    <3>1. scan'.at = "replay" /\ scan'.files = scan.files /\ scan'.medium = scan.medium
      BY <2>3 DEF TypeOK, ScannerState
    <3>2. \A m \in Medium, y \in Result :
            y \in pending[m] => y \in pending'[m] \/ (m = scan.medium /\ y = scan.result)
      BY <2>3 DEF TypeOK
    <3>3. scan.result \in returned[scan.medium] \/ scan.medium \in taken
      BY <2>1 DEF ReplayInv
    <3>4. ReceiptKept'
      BY <2>1, <3>2, <3>3 DEF ReplayInv, ReceiptKept, TypeOK
    <3>5. scan'.files \subseteq pending'[scan'.medium]
      BY <2>1, <2>2, <2>3, <3>1 DEF TypeOK
    <3> QED
      BY <3>1, <3>4, <3>5 DEF ReplayInv
  <2>4. CASE UNCHANGED pending /\ scan'.at = "unmount"
    BY <2>1, <2>4 DEF ReplayInv, ReceiptKept
  <2> QED
    BY <1>14, <2>3, <2>4 DEF UnlinkReceipt, Raises, TypeOK, ScannerState
<1>28. ASSUME CopyingRaises PROVE ReplayInv'
  <2>1. scan'.at = "unmount"
    BY <1>28 DEF CopyingRaises, Raises, TypeOK, ScannerState
  <2> QED
    BY <1>28, <2>1 DEF CopyingRaises, ReplayInv, ReceiptKept
<1>29. ASSUME NEW m \in Medium, TakeAway(m) PROVE ReplayInv'
  <2>1. /\ scan'.at = scan.at /\ scan'.medium = scan.medium /\ scan'.files = scan.files
        /\ scan'.result = scan.result /\ UNCHANGED <<pending, queued>> /\ taken \subseteq taken'
    BY <1>29 DEF TakeAway, TypeOK, ScannerState
  <2>2. \A l \in Medium, x \in Result : x \in returned[l] => x \in returned'[l] \/ l \in taken'
    BY <1>29 DEF TakeAway, Exposed, TypeOK
  <2>3. ReceiptKept'
    BY <2>1, <2>2 DEF ReplayInv, ReceiptKept, TypeOK
  <2>4. scan.at = "unlink" => scan.result \in returned'[scan.medium] \/ scan.medium \in taken'
    BY <2>1, <2>2 DEF ReplayInv, ProcessInv, TypeOK
  <2> QED
    BY <2>1, <2>3, <2>4 DEF ReplayInv
<1>15. ASSUME CopyCandidates PROVE ReplayInv'
  BY <1>15 DEF CopyCandidates, CopiesFrom, ReplayInv, ReceiptKept, Asleep, TypeOK, ScannerState, At
<1>16. ASSUME Unmount PROVE ReplayInv'
  BY <1>16, Leaving DEF Unmount, ReplayInv, ReceiptKept
<1>17. ASSUME UnmountFails PROVE ReplayInv'
  BY <1>17, Leaving DEF UnmountFails, ReplayInv, ReceiptKept
<1>18. ASSUME Choose PROVE ReplayInv'
  BY <1>18 DEF Choose, ReplayInv, ReceiptKept, Asleep, TypeOK, ScannerState, At
<1>19. ASSUME NEW i \in Item, ApplyPackage(i) PROVE ReplayInv'
  BY <1>19 DEF ApplyPackage, ReplayInv, ReceiptKept, Asleep, TypeOK, ScannerState, At
<1>20. ASSUME NEW i \in Item, ApplyRaises(i) PROVE ReplayInv'
  BY <1>20 DEF ApplyRaises, ReplayInv, ReceiptKept, Asleep, TypeOK, ScannerState, At
<1>21. ASSUME QueueResult PROVE ReplayInv'
  <2>1. /\ scan.at = "queue" /\ scan.medium \in Medium /\ scan'.at = "apply"
        /\ UNCHANGED <<returned, taken>>
    BY <1>21 DEF QueueResult, At, ProcessInv, TypeOK, ScannerState
  <2>2. /\ scan.result \in pending'[scan.medium]
        /\ \A m \in Medium : pending[m] \subseteq pending'[m]
    BY <1>21, <2>1 DEF QueueResult, TypeOK
  <2>3. queued' = queued \cup {<<scan.medium, scan.result>>}
    BY <1>21 DEF QueueResult
  <2>4. ReceiptKept'
    BY <2>1, <2>2, <2>3 DEF ReplayInv, ReceiptKept, TypeOK
  <2> QED
    BY <2>1, <2>4 DEF ReplayInv
<1>22. ASSUME QueueRaises PROVE ReplayInv'
  BY <1>22 DEF QueueRaises, Ends, ReplayInv, ReceiptKept, Asleep, TypeOK, ScannerState, At
<1>23. ASSUME EndScan PROVE ReplayInv'
  BY <1>23 DEF EndScan, Ends, ReplayInv, ReceiptKept, Asleep, TypeOK, ScannerState, At
<1>24. ASSUME Crash PROVE ReplayInv'
  BY <1>24 DEF Crash, Ends, ReplayInv, ReceiptKept, Asleep
<1>26. ASSUME NEW h \in Packager, Sync(h) PROVE ReplayInv'
  BY <1>26 DEF Sync, ReplayInv, ReceiptKept, Asleep, TypeOK, ScannerState, At
<1>27. ASSUME NEW h \in Packager, Pull(h) PROVE ReplayInv'
  BY <1>27 DEF Pull, ReplayInv, ReceiptKept, Asleep, TypeOK, ScannerState, At
<1>25. CASE UNCHANGED vars
  BY <1>25 DEF vars, ReplayInv, ReceiptKept
<1> QED
  BY <1>1, <1>2, <1>3, <1>4, <1>5, <1>6, <1>7, <1>8, <1>9, <1>10, <1>11, <1>12, <1>13, <1>14, <1>15, <1>16, <1>17, <1>18, <1>19, <1>20, <1>21, <1>22, <1>23, <1>24, <1>25, <1>26, <1>27, <1>28, <1>29 DEF Next, Packaging, Carrying, Replaying, Applying

-----------------------------------------------------------------------------
(* Mount points and publications.                                          *)

LEMMA MountStep ==
  ASSUME TypeOK, ProcessInv, MountInv, [Next]_vars PROVE MountInv'
<1> USE DEF host, media, disk, process, operator, Replays
<1>1. CASE UNCHANGED <<scan, operator>>
  BY <1>1 DEF MountInv, Present
<1>2. ASSUME NEW m \in Medium, NEW ks \in SUBSET Mount, Insert(m, ks) PROVE MountInv'
  BY <1>2 DEF Insert, MountInv, Present
<1>3. ASSUME NEW k \in Mount, OperatorUnmounts(k) PROVE MountInv'
  BY <1>3 DEF OperatorUnmounts, MountInv
<1>4. CASE StartScan
  BY <1>4 DEF StartScan, MountInv, Asleep
<1>5. ASSUME NEW k \in Mount, NextMedium(k) PROVE MountInv'
  <2>1. /\ scan'.medium = MediumOf[k] /\ scan'.at \in {"replay", "unmount"}
        /\ scan'.at = "replay" => k \in mounted
        /\ scan'.mount = (IF k \in mounted THEN k ELSE None)
        /\ UNCHANGED operator
    BY <1>5 DEF NextMedium, Visits, TypeOK, ScannerState
  <2>2. k # None
    BY NoneAssumption
  <2> QED
    BY <2>1, <2>2 DEF MountInv, Present
<1>6. ASSUME /\ scan.at \in Replays /\ scan'.at \in Replays \cup {"unmount"}
             /\ UNCHANGED <<scan.mount, scan.medium, operator>>
      PROVE  MountInv'
  BY <1>6 DEF MountInv, Present
<1>7. ASSUME NEW x \in Result, BeginCopy(x) PROVE MountInv'
  BY <1>6, <1>7 DEF BeginCopy, At, TypeOK, ScannerState
<1>8. CASE FinishCopy
  BY <1>6, <1>8 DEF FinishCopy, At, TypeOK, ScannerState
<1>9. CASE FailCopy
  BY <1>6, <1>9 DEF FailCopy, At, TypeOK, ScannerState
<1>10. CASE UnlinkReceipt
  BY <1>6, <1>10 DEF UnlinkReceipt, Raises, At, TypeOK, ScannerState
<1>11. CASE CopyCandidates
  BY <1>6, <1>11 DEF CopyCandidates, CopiesFrom, At, TypeOK, ScannerState
<1>24. CASE CopyingRaises
  BY <1>6, <1>24 DEF CopyingRaises, Raises, At, TypeOK, ScannerState
<1>25. ASSUME NEW m \in Medium, TakeAway(m) PROVE MountInv'
  <2>1. scan'.at = scan.at /\ scan'.medium = scan.medium /\ taken \subseteq taken'
    BY <1>25 DEF TakeAway, TypeOK, ScannerState
  <2>2. CASE Visited(m)
    <3>1. scan'.mount = None /\ m \in taken' /\ MediumOf[scan.mount] = m /\ scan.mount # None
      BY <1>25, <2>2 DEF TakeAway, Exposed, Visited, TypeOK, ScannerState
    <3> QED
      BY <2>1, <3>1 DEF MountInv, Present
  <2>3. CASE ~Visited(m)
    <3>1. scan' = scan /\ mounted' = {k \in mounted : MediumOf[k] # m}
      BY <1>25, <2>3 DEF TakeAway
    <3> QED
      BY <2>1, <2>3, <3>1 DEF MountInv, Present, Visited
  <2> QED
    BY <2>2, <2>3
<1>12. ASSUME Ends \/ Resumes PROVE MountInv'
  BY <1>12, Leaving DEF MountInv
<1>13. CASE Unmount \/ UnmountFails
  BY <1>12, <1>13 DEF Unmount, UnmountFails
<1>15. ASSUME scan'.at \in {"apply", "queue"} PROVE MountInv'
  BY <1>15 DEF MountInv
<1>16. CASE Choose
  BY <1>15, <1>16 DEF Choose, TypeOK, ScannerState
<1>17. ASSUME NEW i \in Item, ApplyPackage(i) PROVE MountInv'
  <2>1. scan'.at = "queue"
    BY <1>17 DEF ApplyPackage, TypeOK, ScannerState
  <2> QED
    BY <1>15, <2>1
<1>18. ASSUME NEW i \in Item, ApplyRaises(i) PROVE MountInv'
  BY <1>1, <1>18 DEF ApplyRaises
<1>19. CASE QueueResult
  BY <1>15, <1>19 DEF QueueResult, TypeOK, ScannerState
<1>20. ASSUME scan' = Asleep PROVE MountInv'
  BY <1>20 DEF Asleep, MountInv
<1>21. CASE QueueRaises \/ EndScan \/ Crash
  BY <1>20, <1>21 DEF QueueRaises, EndScan, Crash, Ends
<1>22. CASE Packaging \/ \E h \in Packager : Pull(h)
  <2>1. UNCHANGED <<scan, operator>>
    <3>1. ASSUME NEW h \in Packager,
                 \/ \E r \in Root : LoadProfile(h, r)
                 \/ SaveConfirmed(h) \/ Publish(h) \/ Sync(h) \/ SaveGeneration(h)
          PROVE  UNCHANGED <<scan, operator>>
      BY <3>1 DEF LoadProfile, SaveConfirmed, Publish, Sync, SaveGeneration
    <3>2. ASSUME NEW h \in Packager, PackagerStops(h) \/ Pull(h)
          PROVE  UNCHANGED <<scan, operator>>
      BY <3>2 DEF PackagerStops, Pull
    <3>3. ASSUME NEW h \in Packager, NEW m \in Medium, NEW c \in Commit, NEW full \in BOOLEAN,
                 NEW p \in PackageId, BuildPackage(h, m, c, full, p)
          PROVE  UNCHANGED <<scan, operator>>
      BY <3>3, Zenon DEF BuildPackage
    <3> QED
      BY <1>22, <3>1, <3>2, <3>3 DEF Packaging
  <2> QED
    BY <1>1, <2>1
<1>23. CASE UNCHANGED vars
  BY <1>1, <1>23 DEF vars
<1> QED
  BY <1>2, <1>3, <1>4, <1>5, <1>7, <1>8, <1>9, <1>10, <1>11, <1>13, <1>16, <1>17, <1>18,
     <1>19, <1>21, <1>22, <1>23, <1>24, <1>25 DEF Next, Carrying, Replaying, Applying

\* A step that begins no publication, adds nothing to a medium or to the local
\* staging and mounts nothing keeps the invariant of publications.
LEMMA PublicationKept ==
  ASSUME PublicationInv, UNCHANGED torn, copied' \subseteq copied, mounted' \subseteq mounted,
         \A m \in Medium : inbox'[m] \subseteq inbox[m],
         \A h \in Publishing' : packager'[h] = packager[h]
  PROVE  PublicationInv'
<1>1. Publishing' \subseteq Publishing
  BY DEF Publishing
<1> QED
  BY <1>1 DEF PublicationInv, WholeCopied, OnTarget

LEMMA PublicationStep ==
  ASSUME TypeOK, ProcessInv, OriginInv, MountInv, PublicationInv, [Next]_vars
  PROVE  PublicationInv'
<1> USE DEF host, media, disk, process, operator
<1>1. ASSUME UNCHANGED <<packager, inbox, torn>>, copied' \subseteq copied,
             mounted' \subseteq mounted
      PROVE  PublicationInv'
  BY <1>1, PublicationKept
<1>2. ASSUME NEW h \in Packager, UNCHANGED <<inbox, torn, copied, mounted>>,
             packager' \in [Packager -> PackagerState],
             packager'[h].at \notin {"publish", "sync"},
             \A g \in Packager : g # h => packager'[g] = packager[g]
      PROVE  PublicationInv'
  BY <1>2, PublicationKept DEF Publishing
<1>3. ASSUME NEW h \in Packager, NEW r \in Root, LoadProfile(h, r) PROVE PublicationInv'
  BY <1>2, <1>3, TypeStep DEF LoadProfile, Idle, TypeOK
<1>4. ASSUME NEW h \in Packager, SaveConfirmed(h) PROVE PublicationInv'
  BY <1>2, <1>4, TypeStep DEF SaveConfirmed, TypeOK, PackagerState
<1>5. ASSUME NEW h \in Packager, NEW m \in Medium, NEW c \in Commit, NEW full \in BOOLEAN,
             NEW p \in PackageId, BuildPackage(h, m, c, full, p)
      PROVE  PublicationInv'
  <2>1. ~Built(p)
    BY <1>5, NotBuilt DEF BuildPackage, Built
  <2>2. /\ packager'[h].at = "publish" /\ packager'[h].package = p
        /\ \A g \in Packager : g # h => packager'[g] = packager[g]
        /\ UNCHANGED <<inbox, torn, copied, mounted>>
    BY <1>5 DEF BuildPackage, TypeOK, PackagerState
  <2>3. /\ \A g \in Publishing : packager[g].package # p
        /\ \A i \in copied : i.package # p
        /\ \A n \in Medium : p \notin inbox[n]
    BY <2>1 DEF ProcessInv, OriginInv, Publishing
  <2>4. Publishing' = Publishing \cup {h}
    BY <1>5, <2>2 DEF Publishing
  <2>5. h \notin Publishing
    BY <1>5 DEF BuildPackage, Publishing
  <2> QED
    BY <2>2, <2>3, <2>4, <2>5 DEF PublicationInv, WholeCopied, OnTarget, Publishing
<1>6. ASSUME NEW h \in Packager, Publish(h) PROVE PublicationInv'
  <2>1. /\ packager'[h].at = "sync" /\ packager'[h].package = packager[h].package
        /\ packager'[h].medium = packager[h].medium
        /\ \A g \in Packager : g # h => packager'[g] = packager[g]
        /\ UNCHANGED <<torn, copied, mounted>>
    BY <1>6 DEF Publish, TypeOK, PackagerState
  <2>2. /\ packager[h].at = "publish" /\ ~OnTarget(packager[h].medium)
        /\ \A n \in Medium : inbox'[n] = IF n = packager[h].medium
                                        THEN inbox[n] \cup {packager[h].package} ELSE inbox[n]
    BY <1>6 DEF Publish, TypeOK, ProcessInv
  <2>3. Publishing' = Publishing /\ h \in Publishing
    BY <2>1, <2>2 DEF Publishing
  <2>4. \A g \in Packager : packager'[g].package = packager[g].package
                          /\ packager'[g].medium = packager[g].medium
    BY <2>1
  <2>5. \A g \in Publishing, m \in Medium :
          packager[g].package \in inbox'[m] => packager'[g].at = "sync" /\ packager[g].medium = m
    <3> SUFFICES ASSUME NEW g \in Publishing, NEW m \in Medium,
                        packager[g].package \in inbox'[m]
                 PROVE  packager'[g].at = "sync" /\ packager[g].medium = m
      OBVIOUS
    <3>1. CASE g = h
      BY <2>1, <2>2, <2>3, <3>1 DEF PublicationInv
    <3>2. CASE g # h
      <4>1. packager[g].package # packager[h].package
        BY <2>3, <3>2 DEF PublicationInv
      <4>2. packager[g].package \in inbox[m] /\ packager'[g] = packager[g]
        BY <2>1, <2>2, <3>2, <4>1 DEF Publishing
      <4> QED
        BY <4>2 DEF PublicationInv
    <3> QED
      BY <3>1, <3>2
  <2>6. \A g \in Publishing : packager'[g].at = "sync" => ~OnTarget(packager[g].medium)'
    BY <2>1, <2>2 DEF PublicationInv, OnTarget, Publishing
  <2> QED
    BY <2>1, <2>3, <2>4, <2>5, <2>6 DEF PublicationInv, WholeCopied, Publishing
<1>7. ASSUME NEW h \in Packager, Sync(h) PROVE PublicationInv'
  BY <1>2, <1>7, TypeStep DEF Sync, TypeOK, PackagerState
<1>8. ASSUME NEW h \in Packager, SaveGeneration(h) PROVE PublicationInv'
  BY <1>2, <1>8, TypeStep DEF SaveGeneration, Idle, TypeOK
<1>9. ASSUME NEW h \in Packager, packager[h].at = "sync", Loses(h),
             packager' \in [Packager -> PackagerState],
             packager'[h].at \notin {"publish", "sync"},
             \A g \in Packager : g # h => packager'[g] = packager[g],
             UNCHANGED <<copied, mounted>>
      PROVE  PublicationInv'
  <2>1. \A g \in Publishing' : g \in Publishing /\ packager'[g] = packager[g]
    BY <1>9 DEF Publishing
  <2>2. CASE UNCHANGED torn
    <3>1. \A m \in Medium : inbox'[m] \subseteq inbox[m]
      BY <1>9 DEF Loses, TypeOK
    <3> QED
      BY <1>9, <2>1, <2>2, <3>1, PublicationKept
  <2>3. CASE torn' = torn \cup {packager[h].package} /\ UNCHANGED inbox
    <3>1. WholeCopied'
      BY <1>9, <2>3 DEF PublicationInv, Publishing, WholeCopied
    <3> QED
      BY <1>9, <2>1, <2>3, <3>1 DEF PublicationInv, OnTarget
  <2> QED
    BY <1>9, <2>2, <2>3 DEF Loses
<1>10. ASSUME NEW h \in Packager, PackagerStops(h) PROVE PublicationInv'
  <2>1. /\ packager' \in [Packager -> PackagerState] /\ packager'[h].at = "idle"
        /\ \A g \in Packager : g # h => packager'[g] = packager[g]
        /\ UNCHANGED <<copied, mounted>>
    BY <1>10, TypeStep DEF PackagerStops, Idle, TypeOK
  <2> QED
    BY <1>2, <1>9, <1>10, <2>1 DEF PackagerStops
<1>11. ASSUME NEW h \in Packager, Pull(h) PROVE PublicationInv'
  BY <1>9, <1>11, TypeStep DEF Pull, TypeOK, PackagerState
<1>12. ASSUME NEW m \in Medium, NEW ks \in SUBSET Mount, Insert(m, ks) PROVE PublicationInv'
  <2>1. \A h \in Publishing : packager[h].at = "sync" => packager[h].medium # m
    BY <1>12 DEF Insert, Publishing
  <2>2. /\ \A k \in mounted' \ mounted : MediumOf[k] = m
        /\ UNCHANGED <<packager, inbox, torn, copied>>
    BY <1>12 DEF Insert
  <2> QED
    BY <2>1, <2>2 DEF PublicationInv, WholeCopied, Publishing, OnTarget
<1>13. ASSUME CopyCandidates PROVE PublicationInv'
  <2>1. PICK read \in SUBSET {p \in Fresh : Verifies(p)} :
          copied' = copied \cup {[package |-> p, medium |-> scan.medium] : p \in read}
    BY <1>13 DEF CopyCandidates, CopiesFrom
  <2>2. scan.medium \in Medium /\ OnTarget(scan.medium)
    BY <1>13 DEF CopyCandidates, CopiesFrom, At, ProcessInv, MountInv, Replays, OnTarget
  <2>3. \A p \in read : p \in inbox[scan.medium] /\ p \notin torn
    BY <2>1 DEF Fresh, Verifies
  <2>4. \A h \in Publishing : packager[h].package \notin inbox[scan.medium]
    BY <2>2 DEF PublicationInv
  <2>5. \A i \in copied' : i \in copied \/ i.package \in read
    BY <2>1
  <2>6. UNCHANGED <<packager, inbox, torn, mounted>>
    BY <1>13 DEF CopyCandidates, CopiesFrom
  <2> QED
    BY <2>3, <2>4, <2>5, <2>6 DEF PublicationInv, WholeCopied, Publishing, OnTarget
<1>14. CASE \/ StartScan
            \/ \E k \in Mount : OperatorUnmounts(k)
            \/ \E m \in Medium : TakeAway(m)
  BY <1>1, <1>14 DEF StartScan, OperatorUnmounts, WritesBack, TakeAway
<1>15. CASE \/ \E k \in Mount : NextMedium(k)
            \/ \E x \in Result : BeginCopy(x)
            \/ FinishCopy \/ FailCopy \/ UnlinkReceipt \/ CopyingRaises
            \/ Unmount \/ UnmountFails
  BY <1>1, <1>15 DEF NextMedium, BeginCopy, FinishCopy, FailCopy, UnlinkReceipt, CopyingRaises,
                     Unmount, WritesBack, UnmountFails, Ends, Resumes
<1>16. CASE Applying \/ Crash
  BY <1>1, <1>16 DEF Applying, Choose, ApplyPackage, ApplyRaises, QueueResult, QueueRaises,
                     EndScan, Crash, Ends
<1>17. CASE UNCHANGED vars
  BY <1>1, <1>17 DEF vars
<1> QED
  BY <1>3, <1>4, <1>5, <1>6, <1>7, <1>8, <1>10, <1>11, <1>12, <1>13, <1>14, <1>15, <1>16, <1>17
  DEF Next, Packaging, Carrying, Replaying

-----------------------------------------------------------------------------
(* The theorems.                                                           *)

LEMMA InitInv == Init => Inv
<1> SUFFICES ASSUME Init PROVE Inv
  OBVIOUS
<1>1. TypeOK
  <2>1. Idle \in PackagerState
    BY DEF Idle, PackagerState
  <2>2. Asleep \in ScannerState
    BY DEF Asleep, ScannerState
  <2>3. faults \in 0..MaxFaults
    BY MountAssumption DEF Init
  <2>4. /\ inbox \in [Medium -> SUBSET PackageId]
        /\ returned \in [Medium -> SUBSET Result] /\ unsynced \in [Medium -> SUBSET Result]
        /\ pending \in [Medium -> SUBSET Result]
    BY DEF Init
  <2> QED
    BY <2>1, <2>2, <2>3, <2>4 DEF Init, TypeOK
<1>2. ProcessInv
  BY DEF Init, ProcessInv, Idle, Asleep
<1>3. OriginInv
  BY DEF Init, OriginInv, Asleep
<1>4. HeldInv
  BY DEF Init, HeldInv, BasesHeld, IncrementNeverRefused, NoManifest
<1>5. ChoiceInv
  BY DEF Init, ChoiceInv, Asleep
<1>6. ReplayInv
  BY DEF Init, ReplayInv, ReceiptKept, Asleep
<1>7. MountInv
  BY DEF Init, MountInv, Replays, Asleep
<1>8. PublicationInv
  BY DEF Init, PublicationInv, Publishing, WholeCopied, Idle
<1> QED
  BY <1>1, <1>2, <1>3, <1>4, <1>5, <1>6, <1>7, <1>8 DEF Inv

\* Everything the properties rest on is an invariant of the protocol.
THEOREM Invariance == Spec => []Inv
<1>1. Inv /\ [Next]_vars => Inv'
  BY TypeStep, ProcessStep, OriginStep, HeldStep, ChoiceStep, ReplayStep,
     MountStep, PublicationStep DEF Inv
<1> QED
  BY <1>1, InitInv, PTL DEF Spec

\* Every variable keeps its type.
THEOREM DeliveryTypeCorrect == Spec => []TypeOK
<1>1. Inv => TypeOK
  BY DEF Inv
<1> QED
  BY <1>1, Invariance, PTL

\* Every repository of a package counts only on commits the target holds (BasesHeld).
THEOREM BasesAreHeld == Spec => []BasesHeld
<1>1. Inv => BasesHeld
  BY DEF Inv, HeldInv
<1> QED
  BY <1>1, Invariance, PTL

\* A repository that counts on a receipt is never what a package is refused for
\* (IncrementNeverRefused).
THEOREM IncrementsAreAccepted == Spec => []IncrementNeverRefused
<1>1. Inv => IncrementNeverRefused
  BY DEF Inv, HeldInv
<1> QED
  BY <1>1, Invariance, PTL

\* A queued receipt is never lost, unless its medium was taken away before it was
\* unmounted (ReceiptKept).
THEOREM ReceiptsAreKept == Spec => []ReceiptKept
<1>1. Inv => ReceiptKept
  BY DEF Inv, ReplayInv
<1> QED
  BY <1>1, Invariance, PTL

\* What reaches the local staging is whole (WholeCopied).
THEOREM OnlyWholePackages == Spec => []WholeCopied
<1>1. Inv => WholeCopied
  BY DEF Inv, PublicationInv
<1> QED
  BY <1>1, Invariance, PTL

\* A success is newer than every earlier one (GenerationsGrow).
THEOREM InstalledGenerationsGrow == Spec => GenerationsGrow
<1> DEFINE Grows == \A x \in results' \ results : \A y \in results :
         Succeeded(x) /\ Succeeded(y) /\ manifest[x.package].root = manifest[y.package].root =>
           manifest[y.package].generation < manifest[x.package].generation
<1>1. Inv /\ Next => Grows
  <2> SUFFICES ASSUME Inv, Next PROVE Grows
    OBVIOUS
  <2>1. ASSUME At("apply"), NEW i \in chosen, Interrupted(i) PROVE Grows
    <3>1. Newer(i.package)
      BY <2>1 DEF At, Inv, ChoiceInv
    <3>2. \A x \in results' \ results : x.package = i.package
      BY <2>1, Applied DEF Inv
    <3>3. \A p \in PackageId : manifest[p].generation \in Nat
      BY DEF Inv, TypeOK, Manifest, NoManifest
    <3> QED
      BY <3>1, <3>2, <3>3 DEF Newer, Inv, TypeOK, Result, Item
  <2>3. CASE UNCHANGED results
    BY <2>3
  <2> QED
    BY <2>1, <2>3, Writers DEF BuildPackage, disk
<1>2. Inv /\ [Next]_vars => [Grows]_vars
  BY <1>1
<1> QED
  BY <1>2, Invariance, PTL DEF Spec, GenerationsGrow
-----------------------------------------------------------------------------
(* Progress of a scan.                                                     *)

LEMMA ScanStep ==
  ASSUME Inv, ~At("idle"), [Next]_vars
  PROVE  Advances \/ UNCHANGED <<scan.at, scan.mounts, scan.files, chosen>>
<1> USE DEF At
<1>1. CASE Packaging \/ Carrying \/ UNCHANGED vars
  <2>1. CASE Packaging
    <3>1. ASSUME NEW h \in Packager, NEW m \in Medium, NEW c \in Commit, NEW full \in BOOLEAN,
                 NEW p \in PackageId, BuildPackage(h, m, c, full, p)
          PROVE  UNCHANGED process
      BY <3>1, Zenon DEF BuildPackage
    <3>2. ASSUME NEW h \in Packager,
                 \/ \E r \in Root : LoadProfile(h, r)
                 \/ SaveConfirmed(h) \/ Publish(h) \/ Sync(h) \/ SaveGeneration(h)
                 \/ PackagerStops(h)
          PROVE  UNCHANGED process
      BY <3>2, Zenon DEF LoadProfile, SaveConfirmed, Publish, Sync, SaveGeneration, PackagerStops
    <3> QED
      BY <2>1, <3>1, <3>2 DEF Packaging, process
  <2>2. CASE Carrying
    <3>1. ASSUME NEW m \in Medium, TakeAway(m)
          PROVE  UNCHANGED <<scan.at, scan.mounts, scan.files, chosen>>
      BY <3>1 DEF TakeAway, Inv, TypeOK, ScannerState
    <3> QED
      BY <2>2, <3>1 DEF Carrying, Insert, Pull, OperatorUnmounts, process
  <2> QED
    BY <1>1, <2>1, <2>2 DEF vars, process
<1>2. ASSUME NEW k \in Mount, NextMedium(k) PROVE Advances
  <2>1. scan'.mounts = scan.mounts \ {k} /\ k \in scan.mounts
    BY <1>2 DEF NextMedium, Visits, Inv, TypeOK, ScannerState
  <2> QED
    BY <2>1 DEF Advances, Smaller
<1>3. ASSUME NEW x \in Result, BeginCopy(x) PROVE Advances
  <2>1. /\ scan'.files = scan.files \ {x} /\ x \in scan.files
        /\ scan'.mounts = scan.mounts /\ chosen' = chosen
    BY <1>3 DEF BeginCopy, Inv, TypeOK, ScannerState
  <2> QED
    BY <2>1 DEF Advances, Smaller
<1>4. CASE FinishCopy \/ FailCopy \/ UnlinkReceipt \/ CopyCandidates \/ CopyingRaises
  <2>1. /\ scan'.mounts = scan.mounts /\ scan'.files = scan.files /\ chosen' = chosen
        /\ \/ scan.at = "copying" /\ scan'.at \in {"unlink", "replay"}
           \/ scan.at = "unlink" /\ scan'.at \in {"replay", "unmount"}
           \/ scan.at = "replay" /\ scan'.at = "unmount"
    BY <1>4 DEF FinishCopy, FailCopy, UnlinkReceipt, CopyCandidates, CopiesFrom, CopyingRaises,
       Raises, Inv, TypeOK, ScannerState
  <2> QED
    BY <2>1 DEF Advances, StepsLeft
<1>5. CASE Unmount \/ UnmountFails
  <2>1. scan.at = "unmount" /\ (Ends \/ Resumes)
    BY <1>5 DEF Unmount, UnmountFails
  <2>2. CASE Ends
    BY <2>2 DEF Ends, Asleep, Advances
  <2>3. CASE Resumes
    <3>1. /\ scan'.mounts = scan.mounts /\ scan'.files = scan.files /\ scan'.at = "media"
          /\ chosen' = chosen
      BY <2>3 DEF Resumes, Inv, TypeOK, ScannerState
    <3> QED
      BY <2>1, <3>1 DEF Advances, StepsLeft
  <2> QED
    BY <2>1, <2>2, <2>3
<1>6. CASE Choose
  BY <1>6 DEF Choose, Advances, Inv, TypeOK, ScannerState
<1>7. ASSUME NEW i \in Item, ApplyPackage(i) \/ ApplyRaises(i) PROVE Advances
  <2>1. /\ chosen' = chosen \ {i} /\ i \in chosen
        /\ scan'.mounts = scan.mounts
    <3>1. CASE ApplyPackage(i)
      <4>0. scan \in ScannerState
        BY DEF Inv, TypeOK
      <4>1. PICK x \in Result :
              scan' = [scan EXCEPT !.at = "queue", !.result = x, !.medium = i.medium]
        BY <3>1, Zenon DEF ApplyPackage
      <4> QED
        BY <3>1, <4>0, <4>1 DEF ApplyPackage, ScannerState
    <3>2. CASE ApplyRaises(i)
      BY <3>2 DEF ApplyRaises
    <3> QED
      BY <1>7, <3>1, <3>2
  <2> QED
    BY <2>1 DEF Advances, Smaller
<1>8. CASE QueueResult
  BY <1>8 DEF QueueResult, Advances, StepsLeft, Inv, TypeOK, ScannerState
<1>9. CASE StartScan \/ QueueRaises \/ EndScan \/ Crash
  BY <1>9 DEF StartScan, QueueRaises, EndScan, Crash, Ends, Asleep, Advances
<1> QED
  BY <1>1, <1>2, <1>3, <1>4, <1>5, <1>6, <1>7, <1>8, <1>9 DEF Next, Replaying, Applying

\* Every step of a scan (scan_once, replay_pending) brings it nearer to its end,
\* for any media, packages and exceptions.
THEOREM ScansAdvance == Spec => ScanAdvances
<1>1. Inv /\ [Next]_vars => [~At("idle") => Advances \/ UNCHANGED <<scan.at, scan.mounts, scan.files, chosen>>]_vars
  BY ScanStep
<1> QED
  BY <1>1, Invariance, PTL DEF Spec, ScanAdvances
=============================================================================
