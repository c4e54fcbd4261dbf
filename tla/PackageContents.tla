--------------------------- MODULE PackageContents ---------------------------
(***************************************************************************)
(* What is inside a package: a root repository and its submodules, read by *)
(* build_package (packager.py, gitrepo.py) while the developer goes on     *)
(* working, imported and checked out as one release by apply_package       *)
(* (_import_repositories and _materialize of target_engine.py).            *)
(*                                                                         *)
(* How a package travels, which one is chosen and when, and the            *)
(* transaction around a release are those of Delivery and TargetEngine: a  *)
(* published package may be applied at any time, and a release that is     *)
(* ready may be installed or not.                                          *)
(***************************************************************************)
EXTENDS Integers

CONSTANTS
  Root, Child,  \* the root repository and the submodules it can have
  Commit,
  NodeOf,       \* the repository of each commit
  Ancestry,     \* pairs <<b, c>>: b is a proper ancestor of c
  Gitlinks,     \* the commit, or None, of each submodule in each root commit
  Package       \* package identifiers (uuid4)

None == "none"

Node == Child \cup {Root}
CommitsOf(n) == {c \in Commit : NodeOf[c] = n}
RootCommit == CommitsOf(Root)

ASSUME NodeAssumption == Root \notin Child /\ NodeOf \in [Commit -> Node]

ASSUME AncestryAssumption ==
  /\ Ancestry \subseteq Commit \X Commit
  /\ \A b, c, d \in Commit : <<b, c>> \in Ancestry /\ <<c, d>> \in Ancestry => <<b, d>> \in Ancestry

ASSUME GitlinksAssumption ==
  /\ Gitlinks \in [RootCommit -> [Child -> Commit \cup {None}]]
  /\ \A c \in RootCommit, m \in Child : Gitlinks[c][m] \in CommitsOf(m) \cup {None}

ASSUME NoneAssumption == None \notin Commit \cup Package \cup Node

VARIABLES
  head,        \* host: what each work tree has checked out
  pack,        \* host: the packager process
  manifest,    \* the packages that were published
  store,       \* target: commits of the managed bare repositories
  release,     \* target: releases/<root>/<commit>
  registered,  \* target: worktrees the bare repositories know of
  apply,       \* target: the transaction
  succeeded,   \* target: packages with a result "success"
  refused      \* target: packages with a result "needs-full-bundle"

host == <<head, pack, manifest>>
target == <<store, release, registered, apply, succeeded, refused>>
vars == <<host, target>>

\* A commit of each repository, None of those that are left out.
Graph == [Node -> Commit \cup {None}]
Nothing == [n \in Node |-> None]

\* The bundles of a package by repository: where each one ends, and the base the
\* target must hold (which the manifest names in the incremental bundle only).
Contents ==
  [commit : RootCommit \cup {None}, graph : Graph, base : Graph, increment : Graph, full : Graph]
Empty == [commit |-> None, graph |-> Nothing, base |-> Nothing, increment |-> Nothing,
          full |-> Nothing]

\* The packager: the package it builds, the root commit it walks from, the nodes
\* it has still to visit or to bundle, the newest receipt and the answer.
PackState ==
  [at : {"idle", "graph", "visit", "receipts", "node", "increment", "fallback", "full"},
   contents : Contents, root : RootCommit \cup {None}, todo : SUBSET Node,
   node : Node \cup {None}, installed : Graph, fallback : BOOLEAN]
Idle == [at |-> "idle", contents |-> Empty, root |-> None, todo |-> {}, node |-> None,
         installed |-> Nothing, fallback |-> FALSE]

Release == [tree : Graph, ready : BOOLEAN]
Absent == [tree |-> Nothing, ready |-> FALSE]

ApplyState ==
  [at : {"idle", "import", "prune", "add_root", "add_children", "activate"},
   package : Package \cup {None}, todo : SUBSET Node]
Asleep == [at |-> "idle", package |-> None, todo |-> {}]

Init ==
  /\ head \in Graph /\ \A n \in Node : head[n] \in CommitsOf(n)
  /\ pack = Idle
  /\ manifest = [p \in Package |-> Empty]
  /\ store = {} /\ registered = {}
  /\ release = [c \in RootCommit |-> Absent]
  /\ apply = Asleep /\ succeeded = {} /\ refused = {}

-----------------------------------------------------------------------------
(* The host.                                                               *)

\* What a root commit pins.
Pinned(c) == [n \in Node |-> IF n = Root THEN c ELSE Gitlinks[c][n]]
NodesOf(graph) == {n \in Node : graph[n] # None}

\* The developer commits or checks out something else, whenever he likes.
Checkout(n, c) ==
  /\ c \in CommitsOf(n) /\ head' = [head EXCEPT ![n] = c]
  /\ UNCHANGED <<pack, manifest, target>>

\* git status of the root reports a submodule that is not at its gitlink.
Clean(n) ==
  n = Root => \A m \in NodesOf(Pinned(head[Root])) : head[m] = Pinned(head[Root])[m]

Packs == UNCHANGED <<head, manifest, target>>

\* Mutant: the manifest names the repository where it should name the commit.
ReadRepository ==
  /\ pack.at = "idle" /\ Clean(Root)
  /\ \E answer \in BOOLEAN :
       pack' = [Idle EXCEPT !.at = "graph", !.fallback = answer, !.contents.commit = Root]
  /\ Packs

\* The operator has answered whether a full bundle is wanted; the commit read here
\* is the one the manifest will name.
ReadFacts ==
  /\ pack.at = "idle" /\ Clean(Root)
  /\ \E answer \in BOOLEAN :
       pack' = [Idle EXCEPT !.at = "graph", !.fallback = answer, !.contents.commit = head[Root]]
  /\ Packs

\* discover_graph reads the root a second time.
ReadRoot ==
  /\ pack.at = "graph" /\ Clean(Root)
  /\ pack' = [pack EXCEPT !.at = "visit", !.root = head[Root], !.todo = {Root}]
  /\ Packs

Visit(n) ==
  /\ pack.at = "visit" /\ n \in pack.todo
  /\ Clean(n) /\ head[n] = Pinned(pack.root)[n]
  /\ pack' = [pack EXCEPT
                !.contents.graph[n] = Pinned(pack.root)[n],
                !.todo = IF n = Root THEN NodesOf(Pinned(pack.root)) \ {Root} ELSE @ \ {n}]
  /\ Packs

\* The newest receipt is that of some success, as old as it may be, or there is
\* none yet (Delivery says which).
ReadReceipts ==
  /\ pack.at = "visit" /\ pack.todo = {}
  /\ \E installed \in {Nothing} \cup {manifest[p].graph : p \in succeeded} :
       pack' = [pack EXCEPT !.at = "node", !.installed = installed,
                            !.todo = NodesOf(pack.contents.graph)]
  /\ Packs

Usable(base, c) == base # None /\ (base = c \/ <<base, c>> \in Ancestry)

\* With a base create_bundle compares the HEAD; it makes no bundle when the
\* target has the commit already.
CheckIncrement(n) ==
  LET c == pack.contents.graph[n]
      base == pack.installed[n]
  IN  /\ pack.at = "node" /\ n \in pack.todo
      /\ IF Usable(base, c)
         THEN /\ head[n] = c
              /\ pack' = [pack EXCEPT !.at = IF base = c THEN "fallback" ELSE "increment",
                                      !.node = n, !.contents.base[n] = base]
         ELSE pack' = [pack EXCEPT !.at = "fallback", !.node = n]
      /\ Packs

\* git bundle takes the HEAD of this moment.
WriteIncrement ==
  /\ pack.at = "increment"
  /\ pack' = [pack EXCEPT !.at = "fallback", !.contents.increment[pack.node] = head[pack.node]]
  /\ Packs

\* A full bundle only on request; for it the HEAD is compared again.
CheckFallback ==
  /\ pack.at = "fallback"
  /\ IF pack.fallback
     THEN /\ head[pack.node] = pack.contents.graph[pack.node]
          /\ pack' = [pack EXCEPT !.at = "full"]
     ELSE pack' = [pack EXCEPT !.at = "node", !.todo = @ \ {pack.node}]
  /\ Packs

WriteFull ==
  /\ pack.at = "full"
  /\ pack' = [pack EXCEPT !.at = "node", !.todo = @ \ {pack.node},
                          !.contents.full[pack.node] = head[pack.node]]
  /\ Packs

Published(p) == manifest[p].commit # None

Publish(p) ==
  /\ pack.at = "node" /\ pack.todo = {} /\ ~Published(p)
  /\ manifest' = [manifest EXCEPT ![p] = pack.contents]
  /\ pack' = Idle
  /\ UNCHANGED <<head, target>>

\* A check fails, a call raises or the operator interrupts it.
PackagerStops ==
  /\ pack.at # "idle" /\ pack' = Idle
  /\ Packs

-----------------------------------------------------------------------------
(* The target.                                                             *)

contents == manifest[apply.package]
path == contents.commit  \* the release directory is named after it

StartApply(p) ==
  /\ apply.at = "idle" /\ Published(p) /\ p \notin succeeded
  /\ apply' = [at |-> "import", package |-> p, todo |-> NodesOf(manifest[p].graph)]
  /\ UNCHANGED <<host, store, release, registered, succeeded, refused>>

\* Mutant: whatever is packaged is taken for missing.
NothingHeld(c) == FALSE
Held(c) == c \in store

\* The incremental bundle when its base is held, else the full one: where it ends.
Route(p, n) ==
  IF manifest[p].increment[n] # None /\ Held(manifest[p].base[n])
  THEN manifest[p].increment[n] ELSE manifest[p].full[n]

ImportDone(n) == apply' = [apply EXCEPT !.todo = @ \ {n}]

SkipHeld(n) ==
  /\ apply.at = "import" /\ n \in apply.todo /\ Held(contents.graph[n])
  /\ ImportDone(n)
  /\ UNCHANGED <<host, store, release, registered, succeeded, refused>>

\* A bundle that does not end in the packaged commit raises (TransactionRaises).
Fetch(n) ==
  LET c == contents.graph[n]
  IN  /\ apply.at = "import" /\ n \in apply.todo /\ ~Held(c)
      /\ Route(apply.package, n) = c
      /\ store' = store \cup {c} \cup {a \in Commit : <<a, c>> \in Ancestry}
      /\ ImportDone(n)
      /\ UNCHANGED <<host, release, registered, succeeded, refused>>

NeedsFull(n) ==
  /\ apply.at = "import" /\ n \in apply.todo /\ ~Held(contents.graph[n])
  /\ Route(apply.package, n) = None
  /\ refused' = refused \cup {apply.package} /\ apply' = Asleep
  /\ UNCHANGED <<host, store, release, registered, succeeded>>

Imported == apply.at = "import" /\ apply.todo = {}

Exists(c) == release[c].tree[Root] # None

\* Mutant: any directory will do.
ReusableIfThere(c) == Exists(c)
Reusable(c) == release[c].ready

Reuse ==
  /\ Imported /\ Reusable(path)
  /\ apply' = [apply EXCEPT !.at = "activate"]
  /\ UNCHANGED <<host, store, release, registered, succeeded, refused>>

\* What a crash has left is removed, and its worktrees are pruned one by one.
RemoveStale ==
  /\ Imported /\ ~Reusable(path) /\ Exists(path)
  /\ release' = [release EXCEPT ![path] = Absent]
  /\ apply' = [apply EXCEPT !.at = "prune", !.todo = NodesOf(contents.graph)]
  /\ UNCHANGED <<host, store, registered, succeeded, refused>>

InPlace(n, c) == release[c].tree[n] # None

\* git worktree prune forgets those whose directory is missing.
Prune(n) ==
  /\ apply.at = "prune" /\ n \in apply.todo
  /\ registered' = {w \in registered : w[1] = n => InPlace(n, w[2])}
  /\ ImportDone(n)
  /\ UNCHANGED <<host, store, release, succeeded, refused>>

BeginTree ==
  /\ \/ Imported /\ ~Reusable(path) /\ ~Exists(path)
     \/ apply.at = "prune" /\ apply.todo = {}
  /\ apply' = [apply EXCEPT !.at = "add_root", !.todo = {}]
  /\ UNCHANGED <<host, store, release, registered, succeeded, refused>>

\* git worktree add refuses a path that is missing but registered, and raises.
AddWorktree(n) ==
  /\ <<n, path>> \notin registered
  /\ release' = [release EXCEPT ![path].tree[n] = contents.graph[n]]
  /\ registered' = registered \cup {<<n, path>>}

AddRoot ==
  /\ apply.at = "add_root" /\ AddWorktree(Root)
  /\ apply' = [apply EXCEPT !.at = "add_children", !.todo = NodesOf(contents.graph) \ {Root}]
  /\ UNCHANGED <<host, store, succeeded, refused>>

AddChild(n) ==
  /\ apply.at = "add_children" /\ n \in apply.todo /\ AddWorktree(n)
  /\ ImportDone(n)
  /\ UNCHANGED <<host, store, succeeded, refused>>

\* LFS files and persistent paths are in place: the marker.
MarkReady ==
  /\ apply.at = "add_children" /\ apply.todo = {}
  /\ release' = [release EXCEPT ![path].ready = TRUE]
  /\ apply' = [apply EXCEPT !.at = "activate"]
  /\ UNCHANGED <<host, store, registered, succeeded, refused>>

\* The except clause of _materialize removes the directory, and nothing else.
MaterializeRaises ==
  /\ apply.at = "add_children"
  /\ release' = [release EXCEPT ![path] = Absent]
  /\ apply' = Asleep
  /\ UNCHANGED <<host, store, registered, succeeded, refused>>

Succeed ==
  /\ apply.at = "activate"
  /\ succeeded' = succeeded \cup {apply.package} /\ apply' = Asleep
  /\ UNCHANGED <<host, store, release, registered, refused>>

\* Every other failure of the transaction, and a crash, leave the disk as it is.
TransactionEnds ==
  /\ apply.at # "idle" /\ apply' = Asleep
  /\ UNCHANGED <<host, store, release, registered, succeeded, refused>>

-----------------------------------------------------------------------------
Packages ==
  \/ ReadFacts
  \/ ReadRoot
  \/ \E n \in Node : Visit(n)
  \/ ReadReceipts
  \/ \E n \in Node : CheckIncrement(n)
  \/ WriteIncrement
  \/ CheckFallback
  \/ WriteFull
  \/ \E p \in Package : Publish(p)
  \/ PackagerStops

Imports ==
  \/ \E p \in Package : StartApply(p)
  \/ \E n \in Node : SkipHeld(n)
  \/ \E n \in Node : Fetch(n)
  \/ \E n \in Node : NeedsFull(n)

Materializes ==
  \/ Reuse
  \/ RemoveStale
  \/ \E n \in Node : Prune(n)
  \/ BeginTree
  \/ AddRoot
  \/ \E n \in Node : AddChild(n)
  \/ MarkReady
  \/ MaterializeRaises

Next ==
  \/ \E n \in Node, c \in Commit : Checkout(n, c)
  \/ Packages
  \/ Imports
  \/ Materializes
  \/ Succeed
  \/ TransactionEnds

Spec == Init /\ [][Next]_vars

-----------------------------------------------------------------------------
\* Every variable has its type (the type invariant).
TypeOK ==
  /\ head \in Graph /\ pack \in PackState
  /\ manifest \in [Package -> Contents]
  /\ store \subseteq Commit
  /\ release \in [RootCommit -> Release]
  /\ registered \subseteq Node \X RootCommit
  /\ apply \in ApplyState
  /\ succeeded \subseteq Package /\ refused \subseteq Package

\* The root moved between the two times build_package read its HEAD.
Moved(p) == Published(p) /\ manifest[p].commit # manifest[p].graph[Root]

\* What a success installed is the graph one root commit pins, never a mixture of
\* two; and it is the commit the result names, unless a package was built while the
\* root moved (packager.py:217-218, target_engine.py:213-247).
InstalledIsExact ==
  \A p \in succeeded :
    LET installed == release[manifest[p].commit].tree
    IN  /\ installed[Root] \in RootCommit /\ installed = Pinned(installed[Root])
        /\ installed[Root] = manifest[p].commit \/ \E q \in Package : Moved(q)

\* Only a package without a full bundle for a repository of which no received
\* result knew an ancestor is refused, whatever the target did since then and
\* whatever it imported before it refused (target_engine.py:63-83).
RefusedLacksBundle ==
  \A p \in refused :
    \E n \in NodesOf(manifest[p].graph) : manifest[p].base[n] = None /\ manifest[p].full[n] = None

\* A release that has to be built can be: its directory is not one Git still takes
\* for a worktree (target_engine.py:221-230).
ReleaseCanBeBuilt ==
  apply.at = "add_root" => <<Root, path>> \notin registered
=============================================================================
