---------------------- MODULE DeliveryRefinementProofs ----------------------
(***************************************************************************)
(* Delivery implements OfflineSync, for every number of repositories,      *)
(* packages, packagers, media, mount points and faults.                    *)
(***************************************************************************)
EXTENDS DeliveryRefinement, DeliveryProofs

-----------------------------------------------------------------------------
(* UntriedInv is inductive.                                                *)

\* A step that begins no publication and chooses nothing.
LEMMA UntriedKept ==
  ASSUME UntriedInv, chosen' \subseteq chosen,
         \A x \in results' \ results : \E i \in chosen : x.package = i.package,
         \A g \in Publishing' : g \in Publishing /\ packager'[g].package = packager[g].package,
         \A p \in torn' \ torn : \E g \in Publishing : p = packager[g].package
  PROVE  UntriedInv'
  BY DEF UntriedInv

\* A step of one packager that leaves its publication or goes on with it.
LEMMA UntriedPackager ==
  ASSUME UntriedInv, NEW h \in Packager, UNCHANGED <<chosen, results>>,
         \A g \in Packager : g # h => packager'[g] = packager[g],
         \/ packager'[h].at \notin {"publish", "sync"}
         \/ h \in Publishing /\ packager'[h].package = packager[h].package,
         UNCHANGED torn \/ (h \in Publishing /\ torn' = torn \cup {packager[h].package})
  PROVE  UntriedInv'
<1>1. \A g \in Publishing' : g \in Publishing /\ packager'[g].package = packager[g].package
  BY DEF Publishing
<1> QED
  BY <1>1, UntriedKept

LEMMA UntriedBuild ==
  ASSUME MapInv, NEW h \in Packager, NEW m \in Medium, NEW c \in Commit, NEW full \in BOOLEAN,
         NEW p \in PackageId, BuildPackage(h, m, c, full, p)
  PROVE  UntriedInv'
<1>1. ~Built(p)
  BY NotBuilt DEF BuildPackage, Built
<1>2. /\ packager'[h].package = p
      /\ \A g \in Packager : g # h => packager'[g] = packager[g]
      /\ UNCHANGED <<chosen, results, torn>>
  BY DEF BuildPackage, MapInv, Inv, TypeOK, PackagerState, disk, media, process
<1>3. (\A i \in chosen : i.package # p) /\ (\A x \in results : x.package # p)
  BY <1>1 DEF MapInv, Inv, OriginInv
<1> QED
  BY <1>2, <1>3 DEF MapInv, UntriedInv, Publishing

LEMMA UntriedStep ==
  ASSUME MapInv, [Next]_vars
  PROVE  UntriedInv'
<1> USE DEF host, media, disk, process, operator
<1>0. TypeOK /\ TypeOK' /\ UntriedInv
  BY TypeStep DEF MapInv, Inv
<1>1. ASSUME NEW h \in Packager, NEW r \in Root, LoadProfile(h, r) PROVE UntriedInv'
  BY <1>0, <1>1, UntriedPackager DEF LoadProfile, Idle, TypeOK
<1>2. ASSUME NEW h \in Packager, SaveConfirmed(h) PROVE UntriedInv'
  BY <1>0, <1>2, UntriedPackager DEF SaveConfirmed, TypeOK, PackagerState
<1>3. ASSUME NEW h \in Packager, Publish(h) PROVE UntriedInv'
  BY <1>0, <1>3, UntriedPackager DEF Publish, TypeOK, PackagerState, Publishing
<1>4. ASSUME NEW h \in Packager, Sync(h) PROVE UntriedInv'
  BY <1>0, <1>4, UntriedPackager DEF Sync, TypeOK, PackagerState
<1>5. ASSUME NEW h \in Packager, SaveGeneration(h) PROVE UntriedInv'
  BY <1>0, <1>5, UntriedPackager DEF SaveGeneration, Idle, TypeOK
<1>6. ASSUME NEW h \in Packager, PackagerStops(h) PROVE UntriedInv'
  <2>1. /\ packager'[h].at = "idle" /\ \A g \in Packager : g # h => packager'[g] = packager[g]
        /\ UNCHANGED <<chosen, results>>
    BY <1>0, <1>6 DEF PackagerStops, Idle, TypeOK
  <2>2. UNCHANGED torn \/ (h \in Publishing /\ torn' = torn \cup {packager[h].package})
    BY <1>6 DEF PackagerStops, Loses, Publishing
  <2> QED
    BY <1>0, <2>1, <2>2, UntriedPackager
<1>7. ASSUME NEW h \in Packager, Pull(h) PROVE UntriedInv'
  <2>1. /\ packager'[h].at = "save" /\ \A g \in Packager : g # h => packager'[g] = packager[g]
        /\ UNCHANGED <<chosen, results>>
    BY <1>0, <1>7 DEF Pull, TypeOK, PackagerState
  <2>2. UNCHANGED torn \/ (h \in Publishing /\ torn' = torn \cup {packager[h].package})
    BY <1>7 DEF Pull, Loses, Publishing
  <2> QED
    BY <1>0, <2>1, <2>2, UntriedPackager
<1>8. CASE UNCHANGED <<packager, torn, results>> /\ chosen' \subseteq chosen
  BY <1>0, <1>8, UntriedKept DEF Publishing
<1>9. ASSUME Choose PROVE UntriedInv'
  <2>1. \A i \in chosen' : i \in copied
    BY <1>9 DEF Choose, OnePerRoot
  <2>2. UNCHANGED <<packager, torn, results>>
    BY <1>9 DEF Choose
  <2> QED
    BY <1>0, <2>1, <2>2 DEF MapInv, Inv, PublicationInv, WholeCopied, UntriedInv, Publishing
<1>10. ASSUME NEW i \in chosen, Interrupted(i), UNCHANGED <<packager, torn>>,
              chosen' \subseteq chosen
       PROVE  UntriedInv'
  <2>1. \A x \in results' \ results : x.package = i.package
    BY <1>10, Applied DEF MapInv, Inv
  <2> QED
    BY <1>0, <1>10, <2>1, UntriedKept DEF Publishing
<1>11. ASSUME NEW i \in Item, ApplyPackage(i) \/ ApplyRaises(i) PROVE UntriedInv'
  BY <1>10, <1>11 DEF ApplyPackage, ApplyRaises, Interrupted
<1>12. CASE Crash
  BY <1>8, <1>10, <1>12 DEF Crash, Ends
<1>13. CASE Carrying /\ ~ \E h \in Packager : Pull(h)
  BY <1>8, <1>13 DEF Carrying, Insert, TakeAway, OperatorUnmounts
<1>14. CASE StartScan \/ Replaying
  BY <1>8, <1>14 DEF StartScan, Replaying, NextMedium, BeginCopy, FinishCopy, FailCopy,
     UnlinkReceipt, CopyCandidates, CopiesFrom, CopyingRaises, Unmount, UnmountFails, Ends, Resumes
<1>15. CASE QueueResult \/ QueueRaises \/ EndScan
  BY <1>8, <1>15 DEF QueueResult, QueueRaises, EndScan, Ends
<1>16. CASE UNCHANGED vars
  BY <1>8, <1>16 DEF vars
<1> QED
  BY <1>1, <1>2, <1>3, <1>4, <1>5, <1>6, <1>7, <1>9, <1>11, <1>12, <1>13, <1>14, <1>15, <1>16,
     UntriedBuild DEF Next, Packaging, Applying

-----------------------------------------------------------------------------
(* Every step of the protocol is a step of the exchange, or none.          *)

\* What packaging counts on the host has a receipt of, and each part of it is an
\* ancestor of what is packaged.
LEMMA BasesAreAncestors ==
  ASSUME NEW known, NEW c, NEW bs \in Bases(known, c), NEW b \in bs
  PROVE  /\ \E x \in known : Succeeded(x) /\ b \in Graph(manifest[x.package].commit)
         /\ \E n \in Graph(c) : RepoOf[b] = RepoOf[n] /\ (b = n \/ <<b, n>> \in Ancestry)
<1>1. \E x \in known : Succeeded(x) /\ b \in Graph(manifest[x.package].commit)
  BY BasesAreReported
<1>2. \E n \in Graph(c) : RepoOf[b] = RepoOf[n] /\ (b = n \/ <<b, n>> \in Ancestry)
  BY DEF Bases
<1> QED
  BY <1>1, <1>2

LEMMA SameGraph ==
  ASSUME NEW c PROVE Abstract!Graph(c) = Graph(c)
  BY DEF Abstract!Graph, Graph

LEMMA OfferStep ==
  ASSUME MapInv, NEW h \in Packager, NEW m \in Medium, NEW c \in Commit, NEW full \in BOOLEAN,
         NEW p \in PackageId, BuildPackage(h, m, c, full, p)
  PROVE  Abstract!Next
<1> DEFINE new(bs) == [root |-> packager[h].root, generation |-> packager[h].generation + 1,
                       commit |-> c, bases |-> bs, full |-> full]
<1>1. PICK bs \in Bases(Known(m), c) : manifest' = [manifest EXCEPT ![p] = new(bs)]
  BY DEF BuildPackage
<1>2. manifest'[p] = new(bs) /\ manifest' = [manifest EXCEPT ![p] = manifest'[p]]
  BY <1>1 DEF MapInv, Inv, TypeOK
<1>3. manifest'[p] \in Abstract!Manifest
  <2>1. manifest'[p] \in Manifest \cup {NoManifest}
    BY TypeStep DEF MapInv, Inv, TypeOK, Next, Packaging
  <2>2. manifest'[p].commit # None
    BY <1>2, NoneAssumption
  <2> QED
    BY <2>1, <2>2 DEF NoManifest, Manifest, Abstract!Manifest
<1>4. receipts' = receipts \cup returned[m] /\ returned[m] \subseteq PostOf[m]
  BY DEF BuildPackage, Known, PostOf
<1>5. RepoOf[c] = packager[h].root /\ manifest[p] = NoManifest
  BY DEF BuildPackage
<1>6. bs \subseteq Abstract!Confirmed(receipts')
  BY <1>4, BasesAreAncestors, SameGraph DEF Known, Abstract!Confirmed, Abstract!Succeeded, Succeeded
<1>7. \A b \in bs : \E n \in Abstract!Graph(c) :
        RepoOf[b] = RepoOf[n] /\ (b = n \/ <<b, n>> \in Ancestry)
  BY BasesAreAncestors, SameGraph
<1>8. UNCHANGED <<torn, store, results, PostOf, taken>>
  BY DEF BuildPackage, PostOf, media, disk, operator
<1>9. /\ manifest'[p].root = packager[h].root /\ manifest'[p].commit = c
      /\ manifest'[p].bases = bs
  BY <1>2
<1> HIDE DEF new
<1>10. Abstract!Offer(p, m)
  BY <1>2, <1>3, <1>4, <1>5, <1>6, <1>7, <1>8, <1>9
     DEF Abstract!Offer, Abstract!NoManifest, NoManifest
<1> QED
  BY <1>10 DEF Abstract!Next

LEMMA TearStep ==
  ASSUME MapInv, NEW h \in Publishing, torn' = torn \cup {packager[h].package},
         UNCHANGED <<manifest, store, results, pending, returned, receipts, taken>>
  PROVE  Abstract!Next
<1>1. packager[h].package \in PackageId
  BY DEF MapInv, Inv, ProcessInv, Publishing
<1>2. Abstract!Tear(packager[h].package)
  BY DEF MapInv, UntriedInv, Abstract!Tear, PostOf
<1> QED
  BY <1>1, <1>2 DEF Abstract!Next

\* However a call of apply_package ends, the package was tried once.
LEMMA TryStep ==
  ASSUME MapInv, NEW i \in chosen, scan.at = "apply", Interrupted(i),
         UNCHANGED <<manifest, torn, pending, returned, receipts, taken>>
  PROVE  Abstract!Next \/ UNCHANGED Abstract!vars
<1> DEFINE p == i.package
<1>1. p \in PackageId /\ Built(p) /\ p \notin torn /\ Newer(p)
  BY DEF MapInv, Inv, TypeOK, Item, OriginInv, UntriedInv, ChoiceInv
<1>2. Abstract!Triable(p)
  <2>1. manifest[p] # NoManifest
    BY <1>1, NotBuilt DEF Built
  <2>2. \A q \in PackageId : manifest[q].generation \in Nat
    BY DEF MapInv, Inv, TypeOK, Manifest, NoManifest
  <2>3. \A x \in results : x.package \in PackageId
    BY DEF MapInv, Inv, TypeOK, Result
  <2>4. Abstract!Newest(p)
    BY <1>1, <2>2, <2>3 DEF Newer, Abstract!Newest, Abstract!Succeeded, Succeeded
  <2> QED
    BY <1>1, <2>1, <2>4 DEF Abstract!Triable, Abstract!NoManifest, NoManifest
<1>3. /\ \A n : Abstract!Lacks(p, n) <=> Lacks(p, n)
      /\ Abstract!Graph(manifest[p].commit) = Graph(manifest[p].commit)
      /\ \A done, n : Abstract!Reached(p, done, n) <=> Reached(p, done, n)
  BY SameGraph DEF Abstract!Lacks, Lacks, Abstract!Reached, Reached
<1>4. Abstract!Installable(p) = Importable(p)
  BY <1>3 DEF Abstract!Installable, Importable
<1>5. ASSUME NEW n, Lacks(p, n) PROVE Abstract!CountsOnNothing(p, n)
  BY <1>1, <1>5 DEF Lacks, Abstract!CountsOnNothing, MapInv, Inv, HeldInv, BasesHeld
<1>6. UNCHANGED <<PostOf, taken>>
  BY DEF PostOf
<1>12. ASSUME NEW done \in Importable(p), store' = With(done)
       PROVE  done \in Abstract!Installable(p) /\ Abstract!Holds(done)
  BY <1>4, <1>12 DEF Abstract!Holds, With
<1> HIDE DEF p
<1>7. ASSUME NEW done \in Importable(p), store' = With(done), UNCHANGED results
      PROVE  Abstract!FailToInstall(p)
  BY <1>2, <1>6, <1>7, <1>12 DEF Abstract!FailToInstall
<1>8. ASSUME NEW x \in Result, Settles(i, x)
      PROVE  Abstract!Install(p) \/ Abstract!Refuse(p) \/ Abstract!FailToInstall(p)
  <2>1. PICK done \in Importable(p) :
          /\ x.package = p
          /\ \/ x.status = "success" /\ x.needs = None /\ done = Graph(manifest[p].commit)
             \/ /\ x.status = "needs-full-bundle" /\ x.needs \in Graph(manifest[p].commit)
                /\ Lacks(p, x.needs) /\ Reached(p, done, x.needs)
             \/ x.status = "failed" /\ x.needs = None
          /\ store' = With(done)
          /\ results' = results \cup {x}
    BY <1>8 DEF Settles, p
  <2>2. results' = results \cup {[package |-> p, status |-> x.status, needs |-> x.needs]}
    BY <2>1 DEF Result
  <2>3. CASE x.status = "success" /\ x.needs = None /\ done = Graph(manifest[p].commit)
    BY <1>2, <1>3, <1>6, <1>12, <2>1, <2>2, <2>3 DEF Abstract!Install, Abstract!Reports
  <2>4. CASE /\ x.status = "needs-full-bundle" /\ x.needs \in Graph(manifest[p].commit)
             /\ Lacks(p, x.needs) /\ Reached(p, done, x.needs)
    BY <1>2, <1>3, <1>5, <1>6, <1>12, <2>1, <2>2, <2>4 DEF Abstract!Refuse, Abstract!Reports
  <2>5. CASE x.status = "failed" /\ x.needs = None
    BY <1>2, <1>6, <1>12, <2>1, <2>2, <2>5 DEF Abstract!FailToInstall, Abstract!Reports
  <2> QED
    BY <2>1, <2>3, <2>4, <2>5
<1>9. Abstract!Install(p) \/ Abstract!Refuse(p) \/ Abstract!FailToInstall(p)
  BY <1>7, <1>8 DEF Interrupted, p
<1>10. CASE UNCHANGED <<store, results>>
  BY <1>6, <1>10 DEF Abstract!vars
<1>11. CASE <<store, results>>' # <<store, results>>
  BY <1>1, <1>9, <1>11 DEF Abstract!Try, Abstract!Next
<1> QED
  BY <1>10, <1>11

LEMMA PostStep ==
  ASSUME MapInv, QueueResult
  PROVE  Abstract!Next
<1> DEFINE m == scan.medium
           x == scan.result
<1>1. m \in Medium /\ x \in results
  BY DEF MapInv, Inv, ProcessInv, QueueResult, At
<1>2. pending' = [pending EXCEPT ![m] = @ \cup {x}] /\ returned' = returned
  BY DEF QueueResult, media
<1>3. PostOf' = [PostOf EXCEPT ![m] = @ \cup {x}]
  BY <1>1, <1>2 DEF PostOf, MapInv, Inv, TypeOK
<1>4. Abstract!Post(m, x)
  BY <1>1, <1>3 DEF Abstract!Post, QueueResult, host, media, operator
<1> QED
  BY <1>1, <1>4 DEF Abstract!Next

\* A step between two moments of the exchange.
LEMMA QuietStep ==
  ASSUME UNCHANGED <<manifest, torn, store, results, pending, returned, receipts, taken>>
  PROVE  UNCHANGED Abstract!vars
  BY DEF Abstract!vars, PostOf

\* Receipts are lost with a medium that is taken away, at once or when a scan
\* unlinks what it copied to nowhere.
LEMMA LoseStep ==
  ASSUME NEW m \in Medium, taken' = taken \cup {m},
         \A n \in Medium : n # m => PostOf'[n] = PostOf[n], PostOf'[m] \subseteq PostOf[m],
         UNCHANGED <<manifest, torn, store, results, receipts>>
  PROVE  Abstract!Next
<1> DEFINE gone == PostOf[m] \ PostOf'[m]
<1>1. gone \in SUBSET PostOf[m] /\ PostOf'[m] = PostOf[m] \ gone
  OBVIOUS
<1>2. PostOf' = [PostOf EXCEPT ![m] = @ \ gone]
  <2>1. PostOf' = [n \in Medium |-> PostOf'[n]] /\ DOMAIN PostOf = Medium
    BY DEF PostOf
  <2>2. \A n \in Medium : PostOf'[n] = [PostOf EXCEPT ![m] = @ \ gone][n]
    BY <1>1, <2>1
  <2> QED
    BY <2>1, <2>2
<1>3. Abstract!Lose(m)
  BY <1>1, <1>2 DEF Abstract!Lose
<1> QED
  BY <1>3 DEF Abstract!Next

LEMMA TakeAwayStep ==
  ASSUME MapInv, NEW m \in Medium, TakeAway(m)
  PROVE  Abstract!Next \/ UNCHANGED Abstract!vars
<1>1. UNCHANGED <<manifest, torn, store, results, pending, receipts>>
  BY DEF TakeAway, host, disk
<1>2. PICK gone \in SUBSET unsynced[m] : returned' = [returned EXCEPT ![m] = @ \ gone]
  BY DEF TakeAway
<1>3. returned \in [Medium -> SUBSET Result]
  BY DEF MapInv, Inv, TypeOK
<1>4. CASE Exposed(m)
  <2>1. \A n \in Medium : n # m => PostOf'[n] = PostOf[n]
    BY <1>1, <1>2, <1>3 DEF PostOf
  <2>2. PostOf'[m] \subseteq PostOf[m]
    BY <1>1, <1>2, <1>3 DEF PostOf
  <2>3. taken' = taken \cup {m}
    BY <1>4 DEF TakeAway
  <2> QED
    BY <1>1, <2>1, <2>2, <2>3, LoseStep
<1>5. CASE ~Exposed(m)
  <2>1. returned' = returned
    BY <1>2, <1>3, <1>5 DEF Exposed
  <2> QED
    BY <1>1, <1>5, <2>1, QuietStep DEF TakeAway
<1> QED
  BY <1>4, <1>5

\* While a receipt is copied it is pending, and when it is unlinked it is copied,
\* unless the medium has gone.
LEMMA ReplayStepMaps ==
  ASSUME MapInv, FinishCopy \/ UnlinkReceipt \/ \E x \in Result : BeginCopy(x)
  PROVE  Abstract!Next \/ UNCHANGED Abstract!vars
<1> DEFINE m == scan.medium
<1>1. /\ m \in Medium
      /\ pending \in [Medium -> SUBSET Result] /\ returned \in [Medium -> SUBSET Result]
  BY DEF MapInv, Inv, TypeOK, ProcessInv, FinishCopy, UnlinkReceipt, BeginCopy, At
<1>2. UNCHANGED <<manifest, torn, store, results, receipts, taken>>
  BY DEF FinishCopy, UnlinkReceipt, BeginCopy, host, media, disk, operator
<1>3. ASSUME NEW x \in Result, BeginCopy(x) PROVE UNCHANGED PostOf
  <2>1. x \in pending[m]
    BY <1>3 DEF MapInv, Inv, ReplayInv, BeginCopy, At
  <2>2. pending' = pending /\ (returned' = returned \/ returned' = [returned EXCEPT ![m] = @ \ {x}])
    BY <1>3 DEF BeginCopy, disk
  <2>3. \A n \in Medium : pending'[n] \cup returned'[n] = pending[n] \cup returned[n]
    BY <1>1, <2>1, <2>2
  <2> QED
    BY <2>3 DEF PostOf
<1>4. ASSUME FinishCopy PROVE UNCHANGED PostOf
  <2>1. scan.result \in pending[m]
    BY <1>4 DEF MapInv, Inv, ReplayInv, FinishCopy, At
  <2>2. /\ pending' = pending
        /\ returned' = returned \/ returned' = [returned EXCEPT ![m] = @ \cup {scan.result}]
    BY <1>4 DEF FinishCopy, disk
  <2>3. \A n \in Medium : pending'[n] \cup returned'[n] = pending[n] \cup returned[n]
    BY <1>1, <2>1, <2>2
  <2> QED
    BY <2>3 DEF PostOf
<1>5. CASE UnlinkReceipt
  <2>1. scan.result \in returned[m] \/ m \in taken
    BY <1>5 DEF MapInv, Inv, ReplayInv, UnlinkReceipt, At
  <2>2. /\ pending' = pending \/ pending' = [pending EXCEPT ![m] = @ \ {scan.result}]
        /\ returned' = returned
    BY <1>5 DEF UnlinkReceipt, media
  <2>3. CASE scan.result \in returned[m]
    <3>1. \A n \in Medium : pending'[n] \cup returned'[n] = pending[n] \cup returned[n]
      BY <1>1, <2>2, <2>3
    <3> QED
      BY <1>2, <3>1 DEF PostOf, Abstract!vars
  <2>4. CASE m \in taken
    <3>1. \A n \in Medium : n # m => PostOf'[n] = PostOf[n]
      BY <1>1, <2>2 DEF PostOf
    <3>2. PostOf'[m] \subseteq PostOf[m]
      BY <1>1, <2>2 DEF PostOf
    <3>3. taken' = taken \cup {m}
      BY <1>2, <2>4
    <3> QED
      BY <1>1, <1>2, <3>1, <3>2, <3>3, LoseStep
  <2> QED
    BY <2>1, <2>3, <2>4
<1> QED
  BY <1>2, <1>3, <1>4, <1>5 DEF Abstract!vars

LEMMA RefinementStep ==
  ASSUME MapInv, [Next]_vars
  PROVE  Abstract!Next \/ UNCHANGED Abstract!vars
<1> USE DEF host, media, disk, process, operator
<1>1. CASE Packaging \/ \E h \in Packager : Pull(h)
  <2>1. ASSUME NEW h \in Packager, PackagerStops(h) \/ Pull(h)
        PROVE  Abstract!Next \/ UNCHANGED Abstract!vars
    <3>1. UNCHANGED torn \/ (h \in Publishing /\ torn' = torn \cup {packager[h].package})
      BY <2>1 DEF PackagerStops, Pull, Loses, Publishing
    <3>2. UNCHANGED <<manifest, store, results, pending, returned, receipts, taken>>
      BY <2>1 DEF PackagerStops, Pull
    <3> QED
      BY <3>1, <3>2, QuietStep, TearStep
  <2>2. ASSUME NEW h \in Packager,
               \/ \E r \in Root : LoadProfile(h, r)
               \/ SaveConfirmed(h) \/ Publish(h) \/ Sync(h) \/ SaveGeneration(h)
        PROVE  UNCHANGED Abstract!vars
    BY <2>2, QuietStep DEF LoadProfile, SaveConfirmed, Publish, Sync, SaveGeneration
  <2> QED
    BY <1>1, <2>1, <2>2, OfferStep DEF Packaging
<1>2. CASE Carrying /\ ~ \E h \in Packager : Pull(h)
  BY <1>2, QuietStep, TakeAwayStep DEF Carrying, Insert, OperatorUnmounts
<1>3. CASE StartScan \/ Replaying
  <2>1. CASE FinishCopy \/ UnlinkReceipt \/ \E x \in Result : BeginCopy(x)
    BY <2>1, ReplayStepMaps
  <2>2. CASE \/ StartScan \/ FailCopy \/ CopyCandidates \/ CopyingRaises
             \/ Unmount \/ UnmountFails
             \/ \E k \in Mount : NextMedium(k)
    BY <2>2, QuietStep DEF StartScan, FailCopy, CopyCandidates, CopiesFrom, CopyingRaises, Unmount,
       UnmountFails, NextMedium
  <2> QED
    BY <1>3, <2>1, <2>2 DEF Replaying
<1>4. ASSUME NEW i \in Item, ApplyPackage(i) \/ ApplyRaises(i)
      PROVE  Abstract!Next \/ UNCHANGED Abstract!vars
  BY <1>4, TryStep DEF ApplyPackage, ApplyRaises, Interrupted, At
<1>5. CASE Choose \/ QueueRaises \/ EndScan
  BY <1>5, QuietStep DEF Choose, QueueRaises, EndScan
<1>6. CASE Crash
  <2>1. UNCHANGED <<manifest, torn, pending, returned, receipts, taken>>
    BY <1>6 DEF Crash
  <2> QED
    BY <1>6, <2>1, TryStep, QuietStep DEF Crash, At
<1>7. CASE UNCHANGED vars
  BY <1>7, QuietStep DEF vars
<1> QED
  BY <1>1, <1>2, <1>3, <1>4, <1>5, <1>6, <1>7, PostStep DEF Next, Carrying, Applying

\* Whatever is mounted, pulled out, copied half way, raised or crashed, host and
\* target exchange packages and receipts as if there were nothing between them that
\* could fail, except that a medium taken away without an unmount may lose receipts
\* (package_repository, publish_package, replay_pending, scan_once).
THEOREM DeliveryIsAnExchange == Spec => ImplementsOfflineSync
<1>1. Init => UntriedInv /\ Abstract!Init
  BY DEF Init, UntriedInv, Publishing, Idle, Abstract!Init, Abstract!NoManifest, NoManifest, PostOf
<1>2. Inv /\ UntriedInv /\ [Next]_vars => UntriedInv'
  BY UntriedStep DEF MapInv
<1>3. Inv /\ UntriedInv /\ [Next]_vars => [Abstract!Next]_(Abstract!vars)
  BY RefinementStep DEF MapInv
<1> QED
  BY <1>1, <1>2, <1>3, Invariance, PTL DEF Spec, ImplementsOfflineSync, Abstract!Spec
=============================================================================
