----------------------------- MODULE OfflineSync -----------------------------
(***************************************************************************)
(* What the offline loop promises its operator: the host offers packages,  *)
(* each repository of which counts at most on what a receipt told it; the  *)
(* target tries whole ones, each newer than all it installed of that       *)
(* profile, and refuses one only for a repository that counts on nothing;  *)
(* what it posts stays posted until the medium is taken away.  There are   *)
(* no mounts, copies, scans, exceptions or crashes: a package is tried at  *)
(* one moment and a receipt is on its way or it is not.                    *)
(***************************************************************************)
EXTENDS Naturals

CONSTANTS Root, Commit, RepoOf, Ancestry, Gitlinks, PackageId, Medium, None

VARIABLES
  offer,    \* the manifest of each package the host has built
  torn,     \* packages that never reached their medium whole
  held,     \* the commits the target holds
  outcome,  \* the results of the target
  post,     \* the results on their way back with each medium
  taken,    \* media that were taken away too early
  known     \* the receipts of the host

vars == <<offer, torn, held, outcome, post, taken, known>>

Manifest == [root : Root, generation : Nat, commit : Commit, bases : SUBSET Commit,
             full : BOOLEAN]
NoManifest == [root |-> None, generation |-> 0, commit |-> None, bases |-> {}, full |-> FALSE]

Graph(c) == {c} \cup {n \in Commit : <<c, n>> \in Gitlinks}

Init ==
  /\ offer = [p \in PackageId |-> NoManifest]
  /\ torn = {} /\ held = {} /\ outcome = {}
  /\ post = [m \in Medium |-> {}] /\ taken = {}
  /\ known = {}

Succeeded(x) == x.status = "success"

\* The commits of which a receipt says that the target installed them.
Confirmed(receipts) == UNION {Graph(offer[x.package].commit) : x \in {y \in receipts : Succeeded(y)}}

\* The host reads the receipts of one medium and offers a package.
Offer(p, m) ==
  LET new == offer'[p]
  IN  /\ offer[p] = NoManifest /\ new \in Manifest
      /\ offer' = [offer EXCEPT ![p] = new]
      /\ \E news \in SUBSET post[m] : known' = known \cup news
      /\ RepoOf[new.commit] = new.root
      /\ new.bases \subseteq Confirmed(known')
      /\ \A b \in new.bases : \E n \in Graph(new.commit) :
           RepoOf[b] = RepoOf[n] /\ (b = n \/ <<b, n>> \in Ancestry)
      /\ UNCHANGED <<torn, held, outcome, post, taken>>

\* Nothing the target has tried is ever found to have been torn.
Tear(p) ==
  /\ torn' = torn \cup {p}
  /\ \A x \in outcome : x.package # p
  /\ UNCHANGED <<offer, held, outcome, post, taken, known>>

Newest(p) ==
  \A x \in outcome : Succeeded(x) /\ offer[x.package].root = offer[p].root
                       => offer[x.package].generation < offer[p].generation

Triable(p) == offer[p] # NoManifest /\ p \notin torn /\ Newest(p)

CountsOnNothing(p, n) == \A b \in offer[p].bases : RepoOf[b] # RepoOf[n]

Lacks(p, n) ==
  /\ n \notin held /\ ~offer[p].full
  /\ \A b \in offer[p].bases : RepoOf[b] = RepoOf[n] => b \notin held

\* Repositories that can be installed, with those that pin them.
Reached(p, done, n) == \A c \in Graph(offer[p].commit) : <<c, n>> \in Gitlinks => c \in done

Installable(p) ==
  {done \in SUBSET Graph(offer[p].commit) :
     \A n \in done : ~Lacks(p, n) /\ Reached(p, done, n)}

Holds(done) == held' = held \cup done \cup {b \in Commit : \E n \in done : <<b, n>> \in Ancestry}

Reports(p, status, n) ==
  outcome' = outcome \cup {[package |-> p, status |-> status, needs |-> n]}

Install(p) ==
  /\ Reports(p, "success", None) /\ Holds(Graph(offer[p].commit))
  /\ Triable(p) /\ Graph(offer[p].commit) \in Installable(p)
  /\ UNCHANGED <<offer, torn, post, taken, known>>

Refuse(p) ==
  /\ Triable(p)
  /\ \E n \in Graph(offer[p].commit), done \in Installable(p) :
       /\ Lacks(p, n) /\ CountsOnNothing(p, n) /\ Reached(p, done, n)
       /\ Holds(done) /\ Reports(p, "needs-full-bundle", n)
  /\ UNCHANGED <<offer, torn, post, taken, known>>

\* A failure may leave commits it imported, and may go without a report.
FailToInstall(p) ==
  /\ Reports(p, "failed", None) \/ UNCHANGED outcome
  /\ \E done \in Installable(p) : Holds(done)
  /\ Triable(p)
  /\ UNCHANGED <<offer, torn, post, taken, known>>

Post(m, x) ==
  /\ x \in outcome
  /\ post' = [post EXCEPT ![m] = @ \cup {x}]
  /\ UNCHANGED <<offer, torn, held, outcome, taken, known>>

\* A medium taken away too early loses receipts, then or when a scan goes on
\* without it.
Lose(m) ==
  /\ taken' = taken \cup {m}
  /\ \E gone \in SUBSET post[m] : post' = [post EXCEPT ![m] = @ \ gone]
  /\ UNCHANGED <<offer, torn, held, outcome, known>>

\* An attempt that leaves neither a report nor commits is none.
Try(p) ==
  /\ <<held, outcome>>' # <<held, outcome>>
  /\ Install(p) \/ Refuse(p) \/ FailToInstall(p)

Next ==
  \/ \E p \in PackageId : Tear(p) \/ Try(p)
  \/ \E p \in PackageId, m \in Medium : Offer(p, m)
  \/ \E m \in Medium : Lose(m) \/ \E x \in outcome : Post(m, x)

Spec == Init /\ [][Next]_vars
=============================================================================
