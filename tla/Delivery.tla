------------------------------ MODULE Delivery ------------------------------
(***************************************************************************)
(* The offline loop between a host and a target.  The host packages the    *)
(* head of a repository and publishes it on a removable medium             *)
(* (packager.py); the medium is carried to the target, where one scan      *)
(* writes back earlier results, copies the packages, unmounts the medium   *)
(* and applies the newest package of each repository (scan_target.py,      *)
(* media.py); the results are queued until the same medium comes back, and *)
(* the host packages the next increment from them.                         *)
(*                                                                         *)
(* A package holds a commit of its root repository and those of the        *)
(* submodules it pins, each of which may count on a base of its own.  The  *)
(* transaction inside apply_package is TargetEngine's: here it either      *)
(* reports a result or raises.  A package is on a medium once its          *)
(* READY.json is, the last file of a publication: no process looks at what *)
(* an interrupted one leaves behind.                                       *)
(***************************************************************************)
EXTENDS Integers

CONSTANTS
  Root,         \* root repositories (host profiles) of one target
  Submodule,    \* the other repositories of their graphs
  Commit,
  RepoOf,       \* the repository of each commit
  Ancestry,     \* pairs <<b, c>>: b is a proper ancestor of c
  Gitlinks,     \* pairs <<c, n>>: c pins n, directly or through a submodule
  PackageId,    \* package identifiers (uuid4)
  Packager,     \* packager processes on the host
  Medium,
  Mount,        \* mount points on the target
  MediumOf,     \* the medium each mount point belongs to
  MaxFaults     \* bound: calls that raise, crashes, and media taken away

None == "none"

ASSUME AncestryAssumption ==
  /\ RepoOf \in [Commit -> Root \cup Submodule]
  /\ Ancestry \in SUBSET (Commit \X Commit) /\ Gitlinks \in SUBSET (Commit \X Commit)
  /\ \A b, c, d \in Commit : <<b, c>> \in Ancestry /\ <<c, d>> \in Ancestry => <<b, d>> \in Ancestry

ASSUME MountAssumption ==
  /\ MediumOf \in [Mount -> Medium]
  /\ MaxFaults \in Nat

ASSUME NoneAssumption ==
  None \notin Root \cup Commit \cup PackageId \cup Medium \cup Mount

VARIABLES
  generation,  \* host: "generation" of each profile on disk
  receipts,    \* host: receipts/<target>/*.json
  packager,    \* host: each process with the profile it loaded
  manifest,    \* manifest.json of each package that was built
  inbox,       \* medium: packages with READY.json
  torn,        \* medium: those that are not what READY.json lists
  returned,    \* medium: results/*.json
  unsynced,    \* medium: those of them that only an unmount will make durable
  mounted,     \* target: mount points in use
  store,       \* target: commits of the managed bare repositories
  results,     \* target: results/*.json
  pending,     \* target: pending-results/<medium>/*.json
  scan,        \* target: where the scanner process is
  copied,      \* target: packages in local staging, with their medium
  chosen,      \* target: those this scan will apply
  queued,      \* history: the results ever queued for a medium
  stuck,       \* history: media this scan failed to unmount
  taken,       \* history: media taken away while receipts were written to them
  wanted,      \* the insertion of a medium has started the scan service
  faults

host == <<generation, receipts, packager>>
media == <<inbox, torn, returned, unsynced>>
disk == <<store, results, pending>>
process == <<scan, copied, chosen, stuck>>
operator == <<mounted, taken, wanted>>
vars == <<host, manifest, media, operator, disk, process, queued, faults>>

\* "bases": the commits the target must hold for the bundles of the package.
Manifest == [root : Root, generation : Nat, commit : Commit, bases : SUBSET Commit,
             full : BOOLEAN]
NoManifest == [root |-> None, generation |-> 0, commit |-> None, bases |-> {}, full |-> FALSE]

\* discover_graph: the packaged commit and what it pins.
Graph(c) == {c} \cup {n \in Commit : <<c, n>> \in Gitlinks}

\* "needs": the repository that the message of a refusal names.
Result == [package : PackageId, status : {"success", "needs-full-bundle", "failed"},
           needs : Commit \cup {None}]
NoResult == [package |-> None, status |-> "none", needs |-> None]

\* A package in local staging.
Item == [package : PackageId, medium : Medium]

PackagerState ==
  [at : {"idle", "confirm", "build", "publish", "sync", "save"}, root : Root \cup {None},
   generation : Nat, medium : Medium \cup {None}, package : PackageId \cup {None}]
ScannerState ==
  [at : {"idle", "media", "replay", "copying", "unlink", "unmount", "apply", "queue"},
   mounts : SUBSET Mount, mount : Mount \cup {None}, files : SUBSET Result,
   result : Result \cup {NoResult}, medium : Medium \cup {None}, raised : BOOLEAN]

\* A packager process: the profile it loaded and the package it built.
Idle == [at |-> "idle", root |-> None, generation |-> 0, medium |-> None, package |-> None]

\* The scanner: the mount point it works on (None when the medium was taken from
\* there), what it has still to visit, the result it holds, and whether an
\* exception is on its way out of the loop.
Asleep == [at |-> "idle", mounts |-> {}, mount |-> None, files |-> {}, result |-> NoResult,
           medium |-> None, raised |-> FALSE]

Init ==
  /\ generation = [r \in Root |-> 0]
  /\ receipts = {}
  /\ packager = [h \in Packager |-> Idle]
  /\ manifest = [p \in PackageId |-> NoManifest]
  /\ inbox = [m \in Medium |-> {}] /\ torn = {} /\ returned = [m \in Medium |-> {}]
  /\ unsynced = [m \in Medium |-> {}]
  /\ mounted = {} /\ taken = {} /\ wanted = FALSE
  /\ store = {} /\ results = {} /\ pending = [m \in Medium |-> {}]
  /\ scan = Asleep /\ copied = {} /\ chosen = {}
  /\ queued = {} /\ stuck = {}
  /\ faults = 0

OnTarget(m) == \E k \in mounted : MediumOf[k] = m

\* Something goes wrong.
Fault == faults < MaxFaults /\ faults' = faults + 1

-----------------------------------------------------------------------------
(* The host (package_repository).  Several processes may run at once: no   *)
(* lock is taken.                                                          *)

LoadProfile(h, r) ==
  /\ packager[h].at = "idle"
  /\ packager' = [packager EXCEPT ![h] = [Idle EXCEPT !.at = "confirm", !.root = r,
                                                      !.generation = generation[r]]]
  /\ UNCHANGED <<generation, receipts, manifest, media, operator, disk, process, queued, faults>>

\* The profile is written back after the operator's answers, as it was loaded.
SaveConfirmed(h) ==
  /\ packager[h].at = "confirm"
  /\ generation' = [generation EXCEPT ![packager[h].root] = packager[h].generation]
  /\ packager' = [packager EXCEPT ![h].at = "build"]
  /\ UNCHANGED <<receipts, manifest, media, operator, disk, process, queued, faults>>

\* Mutant: a receipt of any status names commits the target holds.
Reported(x) == TRUE
Succeeded(x) == x.status = "success"

\* _latest_bases: the newest success of any repository of this target.
Newest(known) ==
  {x \in known : /\ Succeeded(x)
                 /\ \A y \in known : Succeeded(y) =>
                      manifest[y.package].generation <= manifest[x.package].generation}

\* Each repository of the graph counts on the commit the receipt gives for it, if
\* that is the commit itself or an ancestor of it.
Bases(known, c) ==
  LET usable(x) == {b \in Graph(manifest[x.package].commit) :
                      \E n \in Graph(c) : RepoOf[b] = RepoOf[n] /\ (b = n \/ <<b, n>> \in Ancestry)}
  IN  IF Newest(known) = {} THEN {{}} ELSE {usable(x) : x \in Newest(known)}

\* _ingest_receipts: the receipts on the medium join those kept before.
Known(m) == receipts \cup returned[m]

\* build_package.  A base is the start of an incremental bundle, or the packaged
\* commit itself, for which no bundle is made.
BuildPackage(h, m, c, full, p) ==
  LET self == packager[h]
  IN  /\ self.at = "build" /\ ~OnTarget(m)
      /\ RepoOf[c] = self.root
      /\ manifest[p] = NoManifest
      /\ receipts' = Known(m)
      /\ \E bs \in Bases(Known(m), c) :
           manifest' = [manifest EXCEPT ![p] =
             [root |-> self.root, generation |-> self.generation + 1, commit |-> c,
              bases |-> bs, full |-> full]]
      /\ packager' = [packager EXCEPT ![h].at = "publish", ![h].medium = m, ![h].package = p]
      /\ UNCHANGED <<generation, media, operator, disk, process, queued, faults>>

\* publish_package up to the READY.json: what it lists was read back.
Publish(h) ==
  LET m == packager[h].medium
  IN  /\ packager[h].at = "publish" /\ ~OnTarget(m)
      /\ inbox' = [inbox EXCEPT ![m] = @ \cup {packager[h].package}]
      /\ packager' = [packager EXCEPT ![h].at = "sync"]
      /\ UNCHANGED <<generation, receipts, manifest, torn, returned, unsynced, operator, disk,
                     process, queued, faults>>

\* fsync_dir and os.sync: from here the package survives the loss of power.
Sync(h) ==
  /\ packager[h].at = "sync"
  /\ packager' = [packager EXCEPT ![h].at = "save"]
  /\ UNCHANGED <<generation, receipts, manifest, media, operator, disk, process, queued, faults>>

\* Before, some of its files (bundles and lfs are directories no fsync named) or
\* its READY.json may never reach the medium.
Loses(h) ==
  \/ /\ torn' = torn \cup {packager[h].package}
     /\ UNCHANGED inbox
  \/ /\ inbox' = [inbox EXCEPT ![packager[h].medium] = @ \ {packager[h].package}]
     /\ UNCHANGED torn

SaveGeneration(h) ==
  /\ packager[h].at = "save"
  /\ generation' = [generation EXCEPT ![packager[h].root] =
                      manifest[packager[h].package].generation]
  /\ packager' = [packager EXCEPT ![h] = Idle]
  /\ UNCHANGED <<receipts, manifest, media, operator, disk, process, queued, faults>>

\* The operator interrupts it, a call raises, or the medium has gone.
PackagerStops(h) ==
  /\ packager[h].at # "idle"
  /\ Fault
  /\ packager' = [packager EXCEPT ![h] = Idle]
  /\ \/ UNCHANGED <<inbox, torn>>
     \/ packager[h].at = "sync" /\ Loses(h)
  /\ UNCHANGED <<generation, receipts, manifest, returned, unsynced, operator, disk, process, queued>>

-----------------------------------------------------------------------------
(* The operator carries the medium.  A desktop may mount it more than once.*)

\* udev starts the scan service, unless one is running: such a start does nothing.
Insert(m, ks) ==
  /\ ~OnTarget(m)
  /\ \A h \in Packager : packager[h].at = "sync" => packager[h].medium # m
  /\ ks # {} /\ \A k \in ks : MediumOf[k] = m
  /\ mounted' = mounted \cup ks
  /\ wanted' = (wanted \/ scan.at = "idle")
  /\ UNCHANGED <<host, manifest, media, taken, disk, process, queued, faults>>

\* The medium is pulled out before it is synced; os.sync reports nothing.
Pull(h) ==
  /\ packager[h].at = "sync"
  /\ Loses(h)
  /\ packager' = [packager EXCEPT ![h].at = "save"]
  /\ UNCHANGED <<generation, receipts, manifest, returned, unsynced, operator, disk, process, queued,
                 faults>>

\* The medium has receipts that are not yet durable, or a scan is visiting it.
Visited(m) == scan.mount # None /\ MediumOf[scan.mount] = m
Exposed(m) == Visited(m) \/ unsynced[m] # {}

\* It is taken away from the target without an unmount: what was not written back
\* is gone, and a scan that visits it goes on without it.
TakeAway(m) ==
  /\ OnTarget(m)
  /\ Fault
  /\ mounted' = {k \in mounted : MediumOf[k] # m}
  /\ \E gone \in SUBSET unsynced[m] : returned' = [returned EXCEPT ![m] = @ \ gone]
  /\ unsynced' = [unsynced EXCEPT ![m] = {}]
  /\ taken' = IF Exposed(m) THEN taken \cup {m} ELSE taken
  /\ scan' = IF Visited(m) THEN [scan EXCEPT !.mount = None] ELSE scan
  /\ UNCHANGED <<host, manifest, inbox, torn, wanted, disk, copied, chosen, stuck, queued>>

\* The last unmount of a file system writes everything back.
WritesBack(k) ==
  /\ mounted' = mounted \ {k}
  /\ unsynced' = [m \in Medium |-> {x \in unsynced[m] : \E l \in mounted \ {k} : MediumOf[l] = m}]

\* By hand, when no scan did.
OperatorUnmounts(k) ==
  /\ scan.at = "idle" /\ k \in mounted /\ ~wanted
  /\ WritesBack(k)
  /\ UNCHANGED <<host, manifest, inbox, torn, returned, taken, wanted, disk, process, queued,
                 faults>>

-----------------------------------------------------------------------------
(* The target (scan_once).  The lock admits one scanner process.           *)

At(label) == scan.at = label

\* Recovery comes first; it is TargetEngine's.
StartScan ==
  /\ At("idle")
  /\ scan' = [Asleep EXCEPT !.at = "media", !.mounts = mounted]
  /\ wanted' = FALSE
  /\ copied' = {} /\ chosen' = {} /\ stuck' = {}
  /\ UNCHANGED <<host, manifest, media, mounted, taken, disk, queued, faults>>

\* A call raises: it must where the medium has gone, elsewhere it may.
Breaks(here) == IF here THEN Fault ELSE UNCHANGED faults

\* The mount point the scan visits is still one of the medium.
Present == scan.mount # None

\* Mutant: the medium is known by its mount point, not by the id of its marker.
VisitsByPath(k, label) ==
  [scan EXCEPT !.at = label, !.mounts = @ \ {k}, !.mount = IF k \in mounted THEN k ELSE None,
               !.medium = k]

Visits(k, label) ==
  [scan EXCEPT !.at = label, !.mounts = @ \ {k}, !.mount = IF k \in mounted THEN k ELSE None,
               !.medium = MediumOf[k]]

\* Without a readable marker nothing is replayed or copied, but the mount
\* point is unmounted all the same (finally) and the exception goes on.
NextMedium(k) ==
  /\ At("media") /\ k \in scan.mounts
  /\ \/ /\ k \in mounted
        /\ scan' = [Visits(k, "replay") EXCEPT !.files = pending[MediumOf[k]]]
        /\ UNCHANGED faults
     \/ /\ scan' = [Visits(k, "unmount") EXCEPT !.raised = TRUE]
        /\ Breaks(k \in mounted)
  /\ UNCHANGED <<host, manifest, media, operator, disk, copied, chosen, stuck, queued>>

\* copy_verified opens the receipt on the medium for writing in place.
BeginCopy(x) ==
  /\ At("replay") /\ x \in scan.files
  /\ IF Present
     THEN /\ returned' = [returned EXCEPT ![scan.medium] = @ \ {x}]
          /\ unsynced' = [unsynced EXCEPT ![scan.medium] = @ \ {x}]
     ELSE UNCHANGED <<returned, unsynced>>
  /\ scan' = [scan EXCEPT !.at = "copying", !.files = @ \ {x}, !.result = x]
  /\ UNCHANGED <<host, manifest, inbox, torn, operator, disk, copied, chosen, stuck, queued, faults>>

\* The file is synced and read back, its directory is not synced.  Where the
\* medium has gone the copy is made all the same, in a directory of the target.
FinishCopy ==
  /\ At("copying")
  /\ IF Present
     THEN /\ returned' = [returned EXCEPT ![scan.medium] = @ \cup {scan.result}]
          /\ unsynced' = [unsynced EXCEPT ![scan.medium] = @ \cup {scan.result}]
     ELSE UNCHANGED <<returned, unsynced>>
  /\ scan' = [scan EXCEPT !.at = "unlink"]
  /\ UNCHANGED <<host, manifest, inbox, torn, operator, disk, copied, chosen, stuck, queued, faults>>

\* Mutant: a receipt that could not be copied is unlinked as well.
FailCopyUnlinks ==
  /\ At("copying") /\ Breaks(Present)
  /\ scan' = [scan EXCEPT !.at = "unlink"]
  /\ UNCHANGED <<host, manifest, media, operator, disk, copied, chosen, stuck, queued>>

\* The receipt stays pending and the next one is tried.
FailCopy ==
  /\ At("copying") /\ Breaks(Present)
  /\ scan' = [scan EXCEPT !.at = "replay", !.result = NoResult]
  /\ UNCHANGED <<host, manifest, media, operator, disk, copied, chosen, stuck, queued>>

\* The exception leaves the try block; the medium is unmounted on its way.
Raises == scan' = [scan EXCEPT !.at = "unmount", !.result = NoResult, !.raised = TRUE]

UnlinkReceipt ==
  /\ At("unlink")
  /\ \/ /\ pending' = [pending EXCEPT ![scan.medium] = @ \ {scan.result}]
        /\ scan' = [scan EXCEPT !.at = "replay", !.result = NoResult]
        /\ UNCHANGED faults
     \/ Raises /\ Fault /\ UNCHANGED pending
  /\ UNCHANGED <<host, manifest, media, operator, store, results, copied, chosen, stuck, queued>>

\* Mutant: the installed generation is offered again.
NotOlder(p) ==
  ~ \E x \in results : /\ Succeeded(x)
                      /\ manifest[x.package].root = manifest[p].root
                      /\ manifest[p].generation < manifest[x.package].generation

\* _installed_generations: a package is a candidate when no success of its
\* repository has its generation or a later one.
Newer(p) ==
  ~ \E x \in results : /\ Succeeded(x)
                      /\ manifest[x.package].root = manifest[p].root
                      /\ manifest[p].generation <= manifest[x.package].generation

\* verify_inventory: the files are those READY.json lists.
Verifies(p) == p \notin torn

Fresh == {p \in inbox[scan.medium] : Newer(p)}

\* The packages in "read" are copied to local staging; a call raised for another
\* one that could have been.
CopiesFrom(candidates, read) ==
  /\ Present
  /\ copied' = copied \cup {[package |-> p, medium |-> scan.medium] : p \in read}
  /\ IF read = candidates THEN UNCHANGED faults ELSE Fault
  /\ scan' = [scan EXCEPT !.at = "unmount"]
  /\ UNCHANGED <<host, manifest, media, operator, disk, chosen, stuck, queued>>

\* Mutant: READY.json is not compared with the files.
CopyUnverified ==
  /\ At("replay") /\ scan.files = {}
  /\ \E read \in SUBSET Fresh : CopiesFrom(Fresh, read)

\* A package that does not verify is skipped, and so is one that can not be read.
CopyCandidates ==
  /\ At("replay") /\ scan.files = {}
  /\ LET candidates == {p \in Fresh : Verifies(p)} IN
     \E read \in SUBSET candidates : CopiesFrom(candidates, read)

\* Reading the marker, the results or the inbox raises.
CopyingRaises ==
  /\ At("replay") /\ scan.files = {}
  /\ Raises /\ Breaks(Present)
  /\ UNCHANGED <<host, manifest, media, operator, disk, copied, chosen, stuck, queued>>

\* The process ends, and what it held with it.
Ends == scan' = Asleep /\ copied' = {} /\ chosen' = {} /\ stuck' = {}

\* Back to the loop over the mount points, unless an exception goes on.
Resumes ==
  /\ ~scan.raised
  /\ scan' = [scan EXCEPT !.at = "media", !.mount = None, !.medium = None]
  /\ UNCHANGED chosen

Unmount ==
  /\ At("unmount")
  /\ WritesBack(scan.mount)
  /\ \/ scan.raised /\ Ends
     \/ Resumes /\ UNCHANGED <<copied, stuck>>
  /\ UNCHANGED <<host, manifest, inbox, torn, returned, taken, wanted, disk, queued, faults>>

\* The packages of a medium that stays mounted are dropped; reading its marker
\* again may raise, and does when the medium has gone.
UnmountFails ==
  /\ At("unmount") /\ Breaks(Present)
  /\ \/ Ends
     \/ /\ Present /\ Resumes
        /\ stuck' = stuck \cup {scan.medium}
        /\ copied' = {i \in copied : i.medium # scan.medium}
  /\ UNCHANGED <<host, manifest, media, operator, disk, queued>>

\* _choose: the newest of each repository.
RootOf(i) == manifest[i.package].root
IsNewest(i, from) ==
  \A j \in from : RootOf(j) = RootOf(i) =>
    manifest[j.package].generation <= manifest[i.package].generation

OnePerRoot(picked, from) ==
  /\ picked \subseteq {i \in from : IsNewest(i, from)}
  /\ \A i, j \in picked : RootOf(i) = RootOf(j) => i = j
  /\ \A i \in from : \E j \in picked : RootOf(j) = RootOf(i)

Choose ==
  /\ At("media") /\ scan.mounts = {}
  /\ chosen' \in {picked \in SUBSET {i \in copied : Newer(i.package)} :
                    OnePerRoot(picked, {i \in copied : Newer(i.package)})}
  /\ scan' = [scan EXCEPT !.at = "apply", !.mount = None, !.medium = None]
  /\ UNCHANGED <<host, manifest, media, operator, disk, copied, stuck, queued, faults>>

\* Mutant: an increment is only for a commit that is held already.
LacksUnlessHeld(p, n) == n \notin store /\ ~manifest[p].full

\* _select_bundle finds no way to a commit: it is not held, nor is a base of its
\* repository, and no full bundle came with the package.
Lacks(p, n) ==
  /\ n \notin store
  /\ \A b \in manifest[p].bases \cap store : RepoOf[b] # RepoOf[n]
  /\ ~manifest[p].full

\* The graph is a tree, parents first: what pins n comes before it.
Reached(p, done, n) ==
  \A c \in Graph(manifest[p].commit) : <<c, n>> \in Gitlinks => c \in done

\* _import_repositories stops at the first repository that lacks a bundle, or at
\* one of which an import fails: those it may have imported by then.
Importable(p) ==
  {done \in SUBSET Graph(manifest[p].commit) :
     \A n \in done : ~Lacks(p, n) /\ Reached(p, done, n)}

\* An import brings a commit and its history.
With(done) == store \cup done \cup {b \in Commit : \E n \in done : <<b, n>> \in Ancestry}

\* The result apply_package writes.  Every ending other than these two is one
\* "failed", before, while or after the bundles were imported.
Settles(i, x) ==
  \E done \in Importable(i.package) :
    /\ x.package = i.package
    /\ \/ x.status = "success" /\ x.needs = None /\ done = Graph(manifest[i.package].commit)
       \/ /\ x.status = "needs-full-bundle" /\ x.needs \in Graph(manifest[i.package].commit)
          /\ Lacks(i.package, x.needs) /\ Reached(i.package, done, x.needs)
       \/ x.status = "failed" /\ x.needs = None
    /\ store' = With(done)
    /\ results' = results \cup {x}

\* It ends before it returns: without a result, or with one its caller never sees.
Interrupted(i) ==
  \/ /\ \E done \in Importable(i.package) : store' = With(done)
     /\ UNCHANGED results
  \/ \E x \in Result : Settles(i, x)

ApplyPackage(i) ==
  /\ At("apply") /\ i \in chosen
  /\ \E x \in Result :
       /\ Settles(i, x)
       /\ scan' = [scan EXCEPT !.at = "queue", !.result = x, !.medium = i.medium]
  /\ chosen' = chosen \ {i}
  /\ UNCHANGED <<host, manifest, media, operator, pending, copied, stuck, queued, faults>>

\* A write of a record or of the result raises out of apply_package.
ApplyRaises(i) ==
  /\ At("apply") /\ i \in chosen /\ Fault
  /\ Interrupted(i)
  /\ chosen' = chosen \ {i}
  /\ UNCHANGED <<host, manifest, media, operator, pending, scan, copied, stuck, queued>>

QueueResult ==
  /\ At("queue")
  /\ pending' = [pending EXCEPT ![scan.medium] = @ \cup {scan.result}]
  /\ queued' = queued \cup {<<scan.medium, scan.result>>}
  /\ scan' = [scan EXCEPT !.at = "apply", !.medium = None, !.result = NoResult]
  /\ UNCHANGED <<host, manifest, media, operator, store, results, copied, chosen, stuck, faults>>

\* It raises out of scan_once: the remaining packages wait for another scan.
QueueRaises ==
  /\ At("queue") /\ Fault
  /\ Ends
  /\ UNCHANGED <<host, manifest, media, operator, disk, queued>>

EndScan ==
  /\ At("apply") /\ chosen = {}
  /\ Ends
  /\ UNCHANGED <<host, manifest, media, operator, disk, queued, faults>>

\* The process dies.  The recovery of the next scan writes no result and queues
\* nothing.
Crash ==
  /\ ~At("idle")
  /\ Fault
  /\ \/ UNCHANGED <<store, results>>
     \/ At("apply") /\ \E i \in chosen : Interrupted(i)
  /\ Ends
  /\ UNCHANGED <<host, manifest, media, operator, pending, queued>>

-----------------------------------------------------------------------------
Packaging ==
  \/ \E h \in Packager, r \in Root : LoadProfile(h, r)
  \/ \E h \in Packager : SaveConfirmed(h)
  \/ \E h \in Packager, m \in Medium, c \in Commit, full \in BOOLEAN, p \in PackageId :
       BuildPackage(h, m, c, full, p)
  \/ \E h \in Packager : Publish(h)
  \/ \E h \in Packager : Sync(h)
  \/ \E h \in Packager : SaveGeneration(h)
  \/ \E h \in Packager : PackagerStops(h)

Carrying ==
  \/ \E m \in Medium, ks \in SUBSET Mount : Insert(m, ks)
  \/ \E h \in Packager : Pull(h)
  \/ \E m \in Medium : TakeAway(m)
  \/ \E k \in Mount : OperatorUnmounts(k)

Replaying ==
  \/ \E k \in Mount : NextMedium(k)
  \/ \E x \in Result : BeginCopy(x)
  \/ FinishCopy
  \/ FailCopy
  \/ UnlinkReceipt
  \/ CopyCandidates
  \/ CopyingRaises
  \/ Unmount
  \/ UnmountFails

Applying ==
  \/ Choose
  \/ \E i \in Item : ApplyPackage(i)
  \/ \E i \in Item : ApplyRaises(i)
  \/ QueueResult
  \/ QueueRaises
  \/ EndScan

Next ==
  \/ Packaging
  \/ Carrying
  \/ StartScan
  \/ Replaying
  \/ Applying
  \/ Crash

Spec == Init /\ [][Next]_vars

\* Of the programs: a scan that runs goes on, a scan udev has started begins, and
\* os.sync returns.
Scheduled ==
  /\ WF_vars(Replaying \/ Applying)
  /\ WF_vars(wanted /\ StartScan)
  /\ \A h \in Packager : WF_vars(Sync(h))

\* Of the operator: a medium that no scan unmounted is unmounted by hand, and each
\* one is brought again and again, also at times when no scan is running.
Patient ==
  /\ \A k \in Mount : WF_vars(OperatorUnmounts(k))
  /\ \A m \in Medium : SF_vars(At("idle") /\ \E ks \in SUBSET Mount : Insert(m, ks))

Fairness == Scheduled /\ Patient

FairSpec == Spec /\ Fairness

-----------------------------------------------------------------------------
\* Every variable has its type (the type invariant).
TypeOK ==
  /\ generation \in [Root -> Nat]
  /\ receipts \subseteq Result
  /\ packager \in [Packager -> PackagerState]
  /\ manifest \in [PackageId -> Manifest \cup {NoManifest}]
  /\ inbox \in [Medium -> SUBSET PackageId] /\ torn \subseteq PackageId
  /\ returned \in [Medium -> SUBSET Result]
  /\ unsynced \in [Medium -> SUBSET Result]
  /\ mounted \subseteq Mount /\ taken \subseteq Medium /\ wanted \in BOOLEAN
  /\ store \subseteq Commit
  /\ results \subseteq Result
  /\ pending \in [Medium -> SUBSET Result]
  /\ scan \in ScannerState
  /\ copied \subseteq Item /\ chosen \subseteq Item
  /\ queued \subseteq Medium \X Result
  /\ stuck \subseteq Medium
  /\ faults \in 0..MaxFaults

\* Every repository of a package counts only on a commit the target really holds,
\* although the host knows it only from receipts that may be late or tell of
\* failed updates (packager.py:161-173, 232, 242-245).
BasesHeld ==
  \A p \in PackageId : manifest[p].bases \subseteq store

\* A package is refused as needs-full-bundle only for a repository that counts on
\* nothing: one that counts on a receipt is never in the way, whatever happened
\* between packaging and applying (target_engine.py:63-83).
IncrementNeverRefused ==
  \A x \in results : x.status = "needs-full-bundle" =>
    \A b \in manifest[x.package].bases : RepoOf[b] # RepoOf[x.needs]

\* An update succeeds only with a generation newer than every one that
\* succeeded before it for the same repository: never twice, never a downgrade
\* (scan_target.py:65, 108).
GenerationsGrow ==
  [][\A x \in results' \ results : \A y \in results :
       Succeeded(x) /\ Succeeded(y) /\ manifest[x.package].root = manifest[y.package].root =>
         manifest[y.package].generation < manifest[x.package].generation]_vars

\* A queued result is never lost on its way, whatever raises or crashes: it waits
\* on the target until the medium has a complete copy of it (media.py:239-246).
\* Only a medium that is taken away before it was unmounted can lose one.
ReceiptKept ==
  \A q \in queued : q[1] \in taken \/ q[2] \in pending[q[1]] \cup returned[q[1]]

\* Only packages whose files are those the host listed reach the local staging,
\* wherever a publication stopped and whenever the medium was pulled out
\* (media.py:157-171, 179-203).
WholeCopied ==
  \A i \in copied : i.package \notin torn

\* "media remains mounted; copied packages will not be applied": no package of a
\* medium this scan left mounted is applied (scan_target.py:129-131).
UnmountedBeforeApply ==
  \A i \in chosen : At("apply") => i.medium \notin stuck

\* Every queued result reaches its medium and survives there, unless the medium is
\* taken away before it was unmounted (media.py:231-247): there is always a later
\* moment when none is outstanding.
Outstanding(m) == {x \in Result : <<m, x>> \in queued} \ (returned[m] \ unsynced[m])

ReceiptReturned ==
  \A m \in Medium : []<>(Outstanding(m) = {} \/ m \in taken)

\* Every result of an update is queued, if not by the scan that made it then by
\* a later one (README.md:131, "saves a machine-readable result locally and
\* queues it for the next writable insertion of the same medium").
EveryResultQueued ==
  \A x \in Result : (x \in results) ~> (\E m \in Medium : <<m, x>> \in queued)
=============================================================================
