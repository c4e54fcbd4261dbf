------------------------- MODULE DeliveryInvariants -------------------------
(***************************************************************************)
(* What makes the properties of Delivery inductive.                        *)
(***************************************************************************)
EXTENDS Delivery

Built(p) == manifest[p] \in Manifest

\* Where a process is says which of its fields are set.
ProcessInv ==
  /\ \A h \in Packager :
       /\ packager[h].at # "idle" => packager[h].root \in Root
       /\ packager[h].at \in {"publish", "sync", "save"} =>
            /\ packager[h].medium \in Medium
            /\ packager[h].package \in PackageId
            /\ Built(packager[h].package)
  /\ scan.at \in {"replay", "copying", "unlink", "unmount", "queue"} => scan.medium \in Medium
  /\ scan.at \in {"copying", "unlink", "queue"} => scan.result \in results

\* Packages on the way have a manifest, and receipts come from the target.
OriginInv ==
  /\ \A m \in Medium : \A p \in inbox[m] : Built(p)
  /\ \A i \in copied \cup chosen : Built(i.package)
  /\ \A x \in results : Built(x.package)
  /\ receipts \subseteq results /\ scan.files \subseteq results
  /\ \A m \in Medium : returned[m] \subseteq results /\ pending[m] \subseteq results

\* The target holds what it reported, hence what is counted on.
HeldInv ==
  /\ \A x \in results : Succeeded(x) => Graph(manifest[x.package].commit) \subseteq store
  /\ BasesHeld
  /\ IncrementNeverRefused

\* What remains chosen is still newer than everything installed.
ChoiceInv ==
  scan.at \in {"apply", "queue"} =>
    /\ \A i \in chosen : Newer(i.package)
    /\ \A i, j \in chosen : RootOf(i) = RootOf(j) => i = j

\* A receipt leaves the target only when its copy is complete, or goes nowhere.
ReplayInv ==
  /\ ReceiptKept
  /\ scan.at = "replay" => scan.files \subseteq pending[scan.medium]
  /\ scan.at \in {"copying", "unlink"} =>
       /\ scan.files \cup {scan.result} \subseteq pending[scan.medium]
       /\ scan.result \notin scan.files
  /\ scan.at = "unlink" => scan.result \in returned[scan.medium] \/ scan.medium \in taken

\* The scanner visits a mount point in use, or goes on where one was.
Replays == {"replay", "copying", "unlink"}
MountInv ==
  /\ scan.at \in Replays \cup {"unmount"} /\ Present =>
       scan.mount \in mounted /\ scan.medium = MediumOf[scan.mount]
  /\ scan.at \in Replays /\ ~Present => scan.medium \in taken

\* A package that is not yet synced has its own packager and has not been copied.
Publishing == {h \in Packager : packager[h].at \in {"publish", "sync"}}
PublicationInv ==
  /\ \A h \in Publishing :
       /\ \A i \in copied : i.package # packager[h].package
       /\ \A g \in Publishing : packager[g].package = packager[h].package => g = h
       /\ \A m \in Medium : packager[h].package \in inbox[m] =>
            packager[h].at = "sync" /\ packager[h].medium = m
       /\ packager[h].at = "sync" => ~OnTarget(packager[h].medium)
  /\ WholeCopied

Inv ==
  TypeOK /\ ProcessInv /\ OriginInv /\ HeldInv /\ ChoiceInv /\ ReplayInv /\ MountInv
  /\ PublicationInv

\* How far a scan has still to go with one mount point, or with one package.
StepsLeft(label) ==
  CASE label = "apply"   -> 0
    [] label = "queue"   -> 1
    [] label = "media"   -> 2
    [] label = "unmount" -> 3
    [] label = "replay"  -> 4
    [] label = "unlink"  -> 5
    [] label = "copying" -> 6

Smaller(new, old) == new \subseteq old /\ new # old

\* Mount points, then the packages of the one that is applied, then receipts.
Advances ==
  \/ scan'.at = "idle"
  \/ At("media") /\ scan'.at = "apply"
  \/ Smaller(scan'.mounts, scan.mounts)
  \/ /\ scan'.mounts = scan.mounts
     /\ \/ Smaller(chosen', chosen)
        \/ /\ chosen' = chosen
           /\ \/ Smaller(scan'.files, scan.files)
              \/ scan'.files = scan.files /\ StepsLeft(scan'.at) < StepsLeft(scan.at)

\* A scan visits a mount point once, tries a receipt once per visit and a package
\* once, whatever raises in the loops of scan_once and replay_pending; what the
\* operator and the host do meanwhile gives it nothing more to do.
ScanAdvances ==
  [][~At("idle") => Advances \/ UNCHANGED <<scan.at, scan.mounts, scan.files, chosen>>]_vars
=============================================================================
