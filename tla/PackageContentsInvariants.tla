---------------------- MODULE PackageContentsInvariants ----------------------
(***************************************************************************)
(* The inductive invariant of PackageContents.                             *)
(***************************************************************************)
EXTENDS PackageContents

\* Every work tree has something checked out.
HeadInv == \A n \in Node : head[n] \in CommitsOf(n)

Walked == {"node", "increment", "fallback", "full"}

\* The graph of a package is what one root commit pins, as far as it was walked.
GraphInv ==
  /\ pack.at \in {"visit"} \cup Walked => pack.root \in RootCommit
  /\ pack.at = "graph" => pack.contents.graph = Nothing
  /\ pack.at = "visit" =>
       \/ pack.todo = {Root} /\ pack.contents.graph = Nothing
       \/ /\ Root \notin pack.todo
          /\ pack.contents.graph =
               [n \in Node |-> IF n \in pack.todo THEN None ELSE Pinned(pack.root)[n]]
  /\ pack.at \in Walked => pack.contents.graph = Pinned(pack.root)
  /\ \A p \in Package : Published(p) =>
       /\ manifest[p].graph[Root] \in RootCommit
       /\ manifest[p].graph = Pinned(manifest[p].graph[Root])

\* What a base names is on the target, and there is a bundle that starts from it
\* unless it is the packaged commit.
BaseInv ==
  /\ \A n \in Node :
       /\ pack.installed[n] \in store \cup {None}
       /\ pack.contents.base[n] \in store \cup {None}
       /\ pack.contents.base[n] # None =>
            \/ pack.contents.base[n] = pack.contents.graph[n]
            \/ pack.contents.increment[n] # None
            \/ pack.at = "increment" /\ pack.node = n
       /\ pack.at \in {"idle", "graph", "visit"} => pack.contents.base[n] = None
  /\ \A p \in Package, n \in Node :
       /\ manifest[p].base[n] \in store \cup {None}
       /\ manifest[p].base[n] # None =>
            manifest[p].base[n] = manifest[p].graph[n] \/ manifest[p].increment[n] # None

\* A transaction imports a published package and goes on with all of it.
ImportInv ==
  /\ apply.at # "idle" =>
       /\ apply.package \in Package /\ Published(apply.package)
       /\ apply.at = "import" => apply.todo \subseteq NodesOf(contents.graph)
       /\ \A n \in Node : (apply.at = "import" => n \notin apply.todo) =>
            contents.graph[n] \in store \cup {None}
  /\ \A p \in succeeded :
       /\ Published(p)
       /\ \A n \in Node : manifest[p].graph[n] \in store \cup {None}
  /\ \A p \in refused : Published(p)

\* What a release directory holds, from its first worktree to its marker.
ReleaseInv ==
  /\ \A c \in RootCommit :
       /\ ~Exists(c) => release[c] = Absent
       /\ release[c].ready =>
            /\ release[c].tree[Root] \in RootCommit
            /\ release[c].tree = Pinned(release[c].tree[Root])
            /\ release[c].tree[Root] = c \/ \E q \in Package : Moved(q)
  /\ apply.at \in {"prune", "add_root"} => release[path] = Absent
  /\ apply.at = "add_children" =>
       /\ Root \notin apply.todo /\ ~release[path].ready
       /\ release[path].tree = [n \in Node |-> IF n \in apply.todo THEN None ELSE contents.graph[n]]
  /\ apply.at = "activate" => release[path].ready
  /\ \A p \in succeeded : release[manifest[p].commit].ready

Inv ==
  /\ TypeOK
  /\ HeadInv
  /\ GraphInv
  /\ BaseInv
  /\ ImportInv
  /\ ReleaseInv
  /\ RefusedLacksBundle
=============================================================================
