------------------------- MODULE DeliveryRefinement -------------------------
(***************************************************************************)
(* Delivery implements OfflineSync.                                        *)
(***************************************************************************)
EXTENDS DeliveryInvariants

\* A receipt is on its way from the moment it is queued: it waits on the target
\* until the medium holds it.
PostOf == [m \in Medium |-> pending[m] \cup returned[m]]

Abstract == INSTANCE OfflineSync
              WITH offer <- manifest, held <- store, outcome <- results,
                   post <- PostOf, known <- receipts

\* Whatever is mounted twice, pulled out, copied half way, raised or crashed
\* between packager.py, media.py and scan_target.py: host and target do what a
\* reliable exchange of packages and receipts would do.
ImplementsOfflineSync == Abstract!Spec

\* A package that is not yet synced has not been tried, and what will be tried is
\* whole: the packages are chosen among the copies, which were verified.
UntriedInv ==
  /\ \A h \in Publishing : /\ \A i \in chosen : i.package # packager[h].package
                           /\ \A x \in results : x.package # packager[h].package
  /\ \A i \in chosen : i.package \notin torn

MapInv == Inv /\ UntriedInv
=============================================================================
