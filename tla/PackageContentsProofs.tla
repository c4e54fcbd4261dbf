------------------------ MODULE PackageContentsProofs ------------------------
(***************************************************************************)
(* Proofs about PackageContents, for every repository with any submodules  *)
(* and any history, and any number of packages.                            *)
(***************************************************************************)
EXTENDS PackageContentsInvariants, TLAPS

\* None is no commit, and no repository.
LEMMA NoneIsNew ==
  /\ \A n \in Node : None \notin CommitsOf(n)
  /\ \A c \in Commit : c # None
  /\ None \notin Node /\ None \notin Package /\ Root \in Node
BY NoneAssumption DEF CommitsOf, Node

\* The values the variables start from are of their types.
LEMMA StartTypes ==
  /\ Nothing \in Graph /\ Empty \in Contents /\ Idle \in PackState
  /\ Absent \in Release /\ Asleep \in ApplyState
<1>1. Nothing \in Graph  BY DEF Nothing, Graph
<1>2. Empty \in Contents  BY <1>1 DEF Empty, Contents
<1>3. Idle \in PackState  BY <1>1, <1>2 DEF Idle, PackState
<1>4. Absent \in Release  BY <1>1 DEF Absent, Release
<1>5. Asleep \in ApplyState  BY DEF Asleep, ApplyState
<1> QED  BY <1>1, <1>2, <1>3, <1>4, <1>5

\* A root commit pins a graph that has it as its root.
LEMMA PinnedType ==
  ASSUME NEW c \in RootCommit
  PROVE  /\ Pinned(c) \in Graph
         /\ Pinned(c)[Root] = c
         /\ \A n \in Node : Pinned(c)[n] \in CommitsOf(n) \cup {None}
         /\ c \in Commit /\ c # None
<1>1. c \in Commit /\ c # None /\ c \in CommitsOf(Root)
  BY NoneIsNew DEF RootCommit, CommitsOf
<1>2. ASSUME NEW n \in Node
      PROVE  Pinned(c)[n] \in CommitsOf(n) \cup {None} /\ Pinned(c)[n] \in Commit \cup {None}
  <2>1. CASE n = Root  BY <1>1, <2>1 DEF Pinned
  <2>2. CASE n # Root
    <3>1. n \in Child  BY <2>2 DEF Node
    <3>2. Gitlinks[c][n] \in CommitsOf(n) \cup {None}  BY <3>1, GitlinksAssumption
    <3> QED  BY <2>2, <3>2 DEF Pinned, CommitsOf
  <2> QED  BY <2>1, <2>2
<1>3. Pinned(c)[Root] = c  BY NoneIsNew DEF Pinned
<1>4. Pinned(c) = [n \in Node |-> Pinned(c)[n]]  BY DEF Pinned
<1>5. Pinned(c) \in Graph  BY <1>2, <1>4 DEF Graph
<1> QED  BY <1>1, <1>2, <1>3, <1>5

-----------------------------------------------------------------------------
(* Steps of the host.                                                      *)

\* The packager changes nothing but its own process until it publishes.
LEMMA PacksFrame ==
  ASSUME Inv, Packs
  PROVE  HeadInv' /\ ImportInv' /\ ReleaseInv' /\ RefusedLacksBundle'
<1> USE DEF Packs, target
<1>1. HeadInv'  BY DEF Inv, HeadInv
<1>2. ImportInv'  BY DEF Inv, ImportInv, Published, contents, NodesOf
<1>3. ReleaseInv'  BY DEF Inv, ReleaseInv, Exists, Moved, Published, contents, path
<1>4. RefusedLacksBundle'  BY DEF Inv, RefusedLacksBundle
<1> QED  BY <1>1, <1>2, <1>3, <1>4

\* What its steps have to show.
LEMMA PacksStep ==
  ASSUME Inv, Packs, pack' \in PackState,
         pack'.at \in {"visit"} \cup Walked => pack'.root \in RootCommit,
         pack'.at = "graph" => pack'.contents.graph = Nothing,
         pack'.at = "visit" =>
           \/ pack'.todo = {Root} /\ pack'.contents.graph = Nothing
           \/ /\ Root \notin pack'.todo
              /\ pack'.contents.graph =
                   [n \in Node |-> IF n \in pack'.todo THEN None ELSE Pinned(pack'.root)[n]],
         pack'.at \in Walked => pack'.contents.graph = Pinned(pack'.root),
         \A n \in Node :
           /\ pack'.installed[n] \in store \cup {None}
           /\ pack'.contents.base[n] \in store \cup {None}
           /\ pack'.contents.base[n] # None =>
                \/ pack'.contents.base[n] = pack'.contents.graph[n]
                \/ pack'.contents.increment[n] # None
                \/ pack'.at = "increment" /\ pack'.node = n
           /\ pack'.at \in {"idle", "graph", "visit"} => pack'.contents.base[n] = None
  PROVE  Inv'
<1>1. TypeOK'  BY DEF Inv, TypeOK, Packs, target
<1>2. GraphInv'  BY DEF Inv, GraphInv, Packs, target, Published
<1>3. BaseInv'  BY DEF Inv, BaseInv, Packs, target
<1> QED  BY <1>1, <1>2, <1>3, PacksFrame DEF Inv

LEMMA ReadFactsStep == ASSUME Inv, ReadFacts PROVE Inv'
<1>1. PICK answer \in BOOLEAN :
        pack' = [Idle EXCEPT !.at = "graph", !.fallback = answer, !.contents.commit = head[Root]]
  BY DEF ReadFacts
<1>2. Packs /\ head[Root] \in RootCommit
  BY NoneIsNew DEF ReadFacts, Inv, HeadInv, RootCommit
<1>3. pack' = [at |-> "graph", contents |-> [Empty EXCEPT !.commit = head[Root]], root |-> None,
               todo |-> {}, node |-> None, installed |-> Nothing, fallback |-> answer]
  BY <1>1 DEF Idle
<1>4. [Empty EXCEPT !.commit = head[Root]] \in Contents
  BY <1>2, StartTypes DEF Contents
<1>5. pack' \in PackState  BY <1>3, <1>4, StartTypes DEF PackState
<1>6. /\ pack'.at = "graph" /\ pack'.installed = Nothing
      /\ pack'.contents.base = Nothing /\ pack'.contents.graph = Nothing
  BY <1>3 DEF Empty
<1>7. \A n \in Node : pack'.installed[n] = None /\ pack'.contents.base[n] = None
  BY <1>6 DEF Nothing
<1> QED  BY <1>2, <1>5, <1>6, <1>7, PacksStep DEF Walked

LEMMA ReadRootStep == ASSUME Inv, ReadRoot PROVE Inv'
<1>1. Packs /\ head[Root] \in RootCommit
  BY NoneIsNew DEF ReadRoot, Inv, HeadInv, RootCommit
<1>2. pack \in PackState  BY DEF Inv, TypeOK
<1>3. pack' = [pack EXCEPT !.at = "visit", !.root = head[Root], !.todo = {Root}]
  BY DEF ReadRoot
<1>4. pack' \in PackState  BY <1>1, <1>2, <1>3, NoneIsNew DEF PackState
<1>5. /\ pack'.at = "visit" /\ pack'.root \in RootCommit /\ pack'.todo = {Root}
      /\ pack'.contents = pack.contents /\ pack'.installed = pack.installed
  BY <1>1, <1>2, <1>3 DEF PackState
<1>6. pack.at = "graph" /\ pack.contents.graph = Nothing  BY DEF ReadRoot, Inv, GraphInv
<1>7. \A n \in Node : pack.installed[n] \in store \cup {None} /\ pack.contents.base[n] = None
  BY <1>6 DEF Inv, BaseInv
<1> QED  BY <1>1, <1>4, <1>5, <1>6, <1>7, PacksStep DEF Walked

LEMMA VisitStep == ASSUME Inv, NEW n \in Node, Visit(n) PROVE Inv'
<1> DEFINE pinned == Pinned(pack.root)
           todo == IF n = Root THEN NodesOf(pinned) \ {Root} ELSE pack.todo \ {n}
           built == [pack.contents EXCEPT !.graph = [pack.contents.graph EXCEPT ![n] = pinned[n]]]
<1>1. /\ Packs /\ pack \in PackState /\ pack.contents \in Contents /\ pack.contents.graph \in Graph
      /\ pack.root \in RootCommit /\ pack.at = "visit" /\ n \in pack.todo
  BY DEF Visit, Inv, TypeOK, GraphInv, PackState, Contents
<1>2. /\ pinned \in Graph /\ pinned[Root] = pack.root /\ pack.root # None
  BY <1>1, PinnedType
<1>3. pack' = [pack EXCEPT !.contents = built, !.todo = todo]
  BY <1>1 DEF Visit, PackState, Contents
<1>4. todo \subseteq Node /\ built \in Contents
  <2>1. [pack.contents.graph EXCEPT ![n] = pinned[n]] \in Graph  BY <1>1, <1>2 DEF Graph
  <2>2. todo \subseteq Node  BY <1>1 DEF NodesOf, PackState
  <2> QED  BY <2>1, <2>2, <1>1 DEF Contents
<1>5. /\ pack' \in PackState /\ pack'.at = "visit" /\ pack'.root = pack.root /\ pack'.todo = todo
      /\ pack'.contents = built /\ pack'.installed = pack.installed
  BY <1>1, <1>3, <1>4 DEF PackState
<1>6. /\ built.base = pack.contents.base /\ built.increment = pack.contents.increment
      /\ built.graph = [pack.contents.graph EXCEPT ![n] = pinned[n]]
  BY <1>1 DEF Contents
<1>7. /\ Root \notin todo
      /\ built.graph = [m \in Node |-> IF m \in todo THEN None ELSE pinned[m]]
  <2>1. CASE n = Root
    <3>1. pack.contents.graph = Nothing
      BY <1>1, <1>2, <2>1 DEF Inv, GraphInv
    <3>2. \A m \in Node : m \in todo <=> pinned[m] # None /\ m # Root
      BY <2>1 DEF NodesOf
    <3> QED  BY <1>6, <2>1, <3>1, <3>2 DEF Nothing
  <2>2. CASE n # Root
    <3>1. /\ Root \notin pack.todo
          /\ pack.contents.graph = [m \in Node |-> IF m \in pack.todo THEN None ELSE pinned[m]]
      BY <1>1, <2>2 DEF Inv, GraphInv
    <3> QED  BY <1>6, <2>2, <3>1
  <2> QED  BY <2>1, <2>2
<1>8. \A m \in Node : pack.installed[m] \in store \cup {None} /\ pack.contents.base[m] = None
  BY <1>1 DEF Inv, BaseInv
<1> HIDE DEF pinned, todo, built
<1>9. pinned = Pinned(pack.root)  BY DEF pinned
<1> QED  BY <1>1, <1>5, <1>6, <1>7, <1>8, <1>9, PacksStep DEF Walked

LEMMA ReadReceiptsStep == ASSUME Inv, ReadReceipts PROVE Inv'
<1>1. PICK installed \in {Nothing} \cup {manifest[p].graph : p \in succeeded} :
        pack' = [pack EXCEPT !.at = "node", !.installed = installed,
                             !.todo = NodesOf(pack.contents.graph)]
  BY DEF ReadReceipts
<1>2. /\ Packs /\ pack \in PackState /\ pack.root \in RootCommit
      /\ pack.at = "visit" /\ pack.todo = {}
  BY DEF ReadReceipts, Inv, TypeOK, GraphInv
<1>3. installed \in Graph /\ \A n \in Node : installed[n] \in store \cup {None}
  <2>1. CASE installed = Nothing  BY <2>1, StartTypes DEF Nothing
  <2>2. CASE installed \in {manifest[p].graph : p \in succeeded}
    <3>1. PICK p \in succeeded : installed = manifest[p].graph  BY <2>2
    <3>2. p \in Package /\ manifest[p] \in Contents  BY DEF Inv, TypeOK
    <3> QED  BY <3>1, <3>2 DEF Inv, ImportInv, Contents
  <2> QED  BY <1>1, <2>1, <2>2
<1>4. /\ pack' \in PackState /\ pack'.at = "node" /\ pack'.root = pack.root
      /\ pack'.contents = pack.contents /\ pack'.installed = installed
  <2>1. NodesOf(pack.contents.graph) \subseteq Node  BY DEF NodesOf
  <2> QED  BY <1>1, <1>2, <1>3, <2>1 DEF PackState
<1>5. pack.contents.graph = Pinned(pack.root)
  <2>1. pack.contents.graph = [n \in Node |-> Pinned(pack.root)[n]]
    BY <1>2 DEF Inv, GraphInv
  <2> QED  BY <2>1 DEF Pinned
<1>6. \A n \in Node : pack.contents.base[n] = None  BY <1>2 DEF Inv, BaseInv
<1> QED  BY <1>2, <1>3, <1>4, <1>5, <1>6, PacksStep DEF Walked

\* While the packager walks the graph to bundle it, a step that keeps the graph and
\* what it knows of the target has only its bundles to account for.
LEMMA BundleStep ==
  ASSUME Inv, Packs, pack.at \in Walked, pack' \in PackState, pack'.at \in Walked,
         pack'.root = pack.root, pack'.installed = pack.installed,
         pack'.contents.graph = pack.contents.graph,
         \A n \in Node :
           /\ pack'.contents.base[n] \in {pack.contents.base[n], pack.installed[n]}
           /\ pack'.contents.base[n] # None =>
                \/ pack'.contents.base[n] = pack'.contents.graph[n]
                \/ pack'.contents.increment[n] # None
                \/ pack'.at = "increment" /\ pack'.node = n
  PROVE  Inv'
<1>1. pack.root \in RootCommit /\ pack.contents.graph = Pinned(pack.root)
  BY DEF Inv, GraphInv
<1>2. \A n \in Node : /\ pack'.installed[n] \in store \cup {None}
                      /\ pack'.contents.base[n] \in store \cup {None}
  BY DEF Inv, BaseInv
<1>3. pack'.at \notin {"idle", "graph", "visit"}  BY DEF Walked
<1> QED  BY <1>1, <1>2, <1>3, PacksStep

LEMMA CheckIncrementStep == ASSUME Inv, NEW n \in Node, CheckIncrement(n) PROVE Inv'
<1> DEFINE c == pack.contents.graph[n]
           base == pack.installed[n]
<1>1. /\ Packs /\ pack \in PackState /\ pack.contents \in Contents /\ pack.at = "node"
      /\ pack.installed \in Graph /\ pack.contents.base \in Graph
  BY DEF CheckIncrement, Inv, TypeOK, PackState, Contents
<1>2. \A m \in Node : pack.contents.base[m] # None =>
        pack.contents.base[m] = pack.contents.graph[m] \/ pack.contents.increment[m] # None
  BY <1>1 DEF Inv, BaseInv
<1>3. CASE Usable(base, c)
  <2> DEFINE bases == [pack.contents.base EXCEPT ![n] = base]
             built == [pack.contents EXCEPT !.base = bases]
             place == IF base = c THEN "fallback" ELSE "increment"
  <2>1. bases \in Graph /\ built \in Contents  BY <1>1 DEF Graph, Contents
  <2>2. pack' = [pack EXCEPT !.at = place, !.node = n, !.contents = built]
    BY <1>1, <1>3 DEF CheckIncrement, PackState, Contents
  <2>3. /\ pack' \in PackState /\ pack'.at = place /\ pack'.node = n
        /\ pack'.contents = built /\ pack'.root = pack.root /\ pack'.installed = pack.installed
    BY <1>1, <2>1, <2>2 DEF PackState
  <2>4. /\ built.base = bases /\ built.graph = pack.contents.graph
        /\ built.increment = pack.contents.increment
    BY <1>1 DEF Contents
  <2>5. bases[n] = base /\ \A m \in Node : m # n => bases[m] = pack.contents.base[m]
    BY <1>1 DEF Graph
  <2>6. (place = "increment" \/ base = c) /\ place \in Walked  BY DEF Walked
  <2> HIDE DEF bases, built, place
  <2>7. \A m \in Node :
          /\ built.base[m] \in {pack.contents.base[m], pack.installed[m]}
          /\ built.base[m] # None =>
               \/ built.base[m] = built.graph[m]
               \/ built.increment[m] # None
               \/ place = "increment" /\ n = m
    BY <1>2, <2>4, <2>5, <2>6
  <2> QED  BY <1>1, <2>3, <2>4, <2>6, <2>7, BundleStep DEF Walked
<1>4. CASE ~Usable(base, c)
  <2>1. pack' = [pack EXCEPT !.at = "fallback", !.node = n]  BY <1>4 DEF CheckIncrement
  <2>2. /\ pack' \in PackState /\ pack'.at = "fallback" /\ pack'.contents = pack.contents
        /\ pack'.root = pack.root /\ pack'.installed = pack.installed
    BY <1>1, <2>1 DEF PackState
  <2> QED  BY <1>1, <1>2, <2>2, BundleStep DEF Walked
<1> QED  BY <1>3, <1>4

LEMMA WriteIncrementStep == ASSUME Inv, WriteIncrement PROVE Inv'
<1> DEFINE bundles == [pack.contents.increment EXCEPT ![pack.node] = head[pack.node]]
           built == [pack.contents EXCEPT !.increment = bundles]
<1>1. /\ Packs /\ pack \in PackState /\ pack.contents \in Contents /\ pack.at = "increment"
      /\ pack.contents.increment \in Graph /\ head \in Graph /\ pack.node \in Node \cup {None}
  BY DEF WriteIncrement, Inv, TypeOK, PackState, Contents
<1>2. /\ bundles \in Graph
      /\ \A m \in Node : bundles[m] = IF m = pack.node THEN head[m] ELSE pack.contents.increment[m]
  BY <1>1 DEF Graph
<1>3. built \in Contents  BY <1>1, <1>2 DEF Contents
<1>4. pack' = [pack EXCEPT !.at = "fallback", !.contents = built]
  BY <1>1 DEF WriteIncrement, PackState, Contents
<1>5. /\ pack' \in PackState /\ pack'.at = "fallback" /\ pack'.contents = built
      /\ pack'.root = pack.root /\ pack'.installed = pack.installed
  BY <1>1, <1>3, <1>4 DEF PackState
<1>6. /\ built.base = pack.contents.base /\ built.graph = pack.contents.graph
      /\ built.increment = bundles
  BY <1>1 DEF Contents
<1>7. \A m \in Node : head[m] # None  BY NoneIsNew DEF Inv, HeadInv
<1>8. \A m \in Node : pack.contents.base[m] # None =>
        \/ pack.contents.base[m] = pack.contents.graph[m]
        \/ pack.contents.increment[m] # None
        \/ pack.node = m
  BY DEF Inv, BaseInv
<1> HIDE DEF bundles, built
<1>9. \A m \in Node : pack.contents.base[m] # None =>
        pack.contents.base[m] = pack.contents.graph[m] \/ bundles[m] # None
  BY <1>2, <1>7, <1>8
<1> QED  BY <1>1, <1>5, <1>6, <1>9, BundleStep DEF Walked

LEMMA CheckFallbackStep == ASSUME Inv, CheckFallback PROVE Inv'
<1>1. Packs /\ pack \in PackState /\ pack.at = "fallback"
  BY DEF CheckFallback, Inv, TypeOK
<1>2. /\ pack' \in PackState /\ pack'.at \in {"full", "node"} /\ pack'.contents = pack.contents
      /\ pack'.root = pack.root /\ pack'.installed = pack.installed
  <2>1. CASE pack.fallback
    <3>1. pack' = [pack EXCEPT !.at = "full"]  BY <2>1 DEF CheckFallback
    <3> QED  BY <1>1, <3>1 DEF PackState
  <2>2. CASE ~pack.fallback
    <3>1. pack' = [pack EXCEPT !.at = "node", !.todo = pack.todo \ {pack.node}]
      BY <2>2 DEF CheckFallback
    <3> QED  BY <1>1, <3>1 DEF PackState
  <2> QED  BY <2>1, <2>2
<1>3. \A m \in Node : pack.contents.base[m] # None =>
        pack.contents.base[m] = pack.contents.graph[m] \/ pack.contents.increment[m] # None
  BY <1>1 DEF Inv, BaseInv
<1> QED  BY <1>1, <1>2, <1>3, BundleStep DEF Walked

LEMMA WriteFullStep == ASSUME Inv, WriteFull PROVE Inv'
<1> DEFINE bundles == [pack.contents.full EXCEPT ![pack.node] = head[pack.node]]
           built == [pack.contents EXCEPT !.full = bundles]
<1>1. /\ Packs /\ pack \in PackState /\ pack.contents \in Contents /\ pack.at = "full"
      /\ pack.contents.full \in Graph /\ head \in Graph
  BY DEF WriteFull, Inv, TypeOK, PackState, Contents
<1>2. bundles \in Graph  BY <1>1 DEF Graph
<1>3. built \in Contents  BY <1>1, <1>2 DEF Contents
<1>4. pack' = [pack EXCEPT !.at = "node", !.todo = pack.todo \ {pack.node}, !.contents = built]
  BY <1>1 DEF WriteFull, PackState, Contents
<1>5. /\ pack' \in PackState /\ pack'.at = "node" /\ pack'.contents = built
      /\ pack'.root = pack.root /\ pack'.installed = pack.installed
  BY <1>1, <1>3, <1>4 DEF PackState
<1>6. /\ built.base = pack.contents.base /\ built.graph = pack.contents.graph
      /\ built.increment = pack.contents.increment
  BY <1>1 DEF Contents
<1>7. \A m \in Node : pack.contents.base[m] # None =>
        pack.contents.base[m] = pack.contents.graph[m] \/ pack.contents.increment[m] # None
  BY <1>1 DEF Inv, BaseInv
<1> HIDE DEF bundles, built
<1> QED  BY <1>1, <1>5, <1>6, <1>7, BundleStep DEF Walked

LEMMA PackagerStopsStep == ASSUME Inv, PackagerStops PROVE Inv'
<1>1. Packs /\ pack' = Idle /\ pack' \in PackState  BY StartTypes DEF PackagerStops
<1>2. /\ pack'.at = "idle" /\ pack'.installed = Nothing /\ pack'.contents.base = Nothing
  BY <1>1 DEF Idle, Empty
<1>3. \A n \in Node : Nothing[n] = None  BY DEF Nothing
<1> QED  BY <1>1, <1>2, <1>3, PacksStep DEF Walked

\* A package that is published was none before: what the target knows stands.
LEMMA PublishStep == ASSUME Inv, NEW p \in Package, Publish(p) PROVE Inv'
<1>1. /\ pack.at = "node" /\ pack \in PackState /\ pack.contents \in Contents /\ ~Published(p)
      /\ manifest \in [Package -> Contents] /\ pack' = Idle
      /\ UNCHANGED head /\ UNCHANGED target
      /\ manifest' = [manifest EXCEPT ![p] = pack.contents]
  BY DEF Publish, Inv, TypeOK, PackState
<1>2. /\ manifest' \in [Package -> Contents] /\ manifest'[p] = pack.contents
      /\ \A q \in Package : q # p => manifest'[q] = manifest[q]
  BY <1>1
<1>3. \A q \in Package : Published(q) => manifest'[q] = manifest[q]  BY <1>1, <1>2
<1>4. TypeOK'  BY <1>1, <1>2, StartTypes DEF Inv, TypeOK, target
<1>5. HeadInv'  BY <1>1 DEF Inv, HeadInv
<1>6. GraphInv'
  <2>1. Idle.at = "idle"  BY DEF Idle
  <2>2. pack.root \in RootCommit /\ pack.contents.graph = Pinned(pack.root)
    BY <1>1 DEF Inv, GraphInv, Walked
  <2>3. pack.contents.graph[Root] = pack.root  BY <2>2, PinnedType
  <2>4. ASSUME NEW q \in Package, Published(q)'
        PROVE  manifest'[q].graph[Root] \in RootCommit
                 /\ manifest'[q].graph = Pinned(manifest'[q].graph[Root])
    <3>1. CASE q = p  BY <1>2, <2>2, <2>3, <3>1
    <3>2. CASE q # p  BY <1>2, <2>4, <3>2 DEF Inv, GraphInv, Published
    <3> QED  BY <3>1, <3>2
  <2> QED  BY <1>1, <2>1, <2>4 DEF GraphInv, Walked
<1>7. BaseInv'
  <2>1. \A n \in Node : Idle.installed[n] = None /\ Idle.contents.base[n] = None
    BY DEF Idle, Empty, Nothing
  <2>2. \A q \in Package, n \in Node :
          /\ manifest'[q].base[n] \in store \cup {None}
          /\ manifest'[q].base[n] # None =>
               manifest'[q].base[n] = manifest'[q].graph[n] \/ manifest'[q].increment[n] # None
    BY <1>1, <1>2 DEF Inv, BaseInv
  <2> QED  BY <1>1, <2>1, <2>2 DEF BaseInv, target
<1>8. ImportInv'
  <2>1. apply.at # "idle" => contents' = contents
    BY <1>1, <1>3 DEF Inv, ImportInv, contents, target
  <2> QED  BY <1>1, <1>3, <2>1 DEF Inv, TypeOK, ImportInv, Published, NodesOf, target
<1>9. ReleaseInv'
  <2>1. \A q \in Package : Moved(q) => Moved(q)'  BY <1>3 DEF Moved, Published
  <2>2. apply.at # "idle" => apply.package \in Package /\ Published(apply.package)
    BY DEF Inv, ImportInv
  <2>3. apply.at # "idle" => contents' = contents /\ path' = path
    BY <1>1, <1>3, <2>2 DEF contents, path, target
  <2>4. \A q \in succeeded : q \in Package /\ Published(q)  BY DEF Inv, TypeOK, ImportInv
  <2>5. /\ \A c \in RootCommit : Exists(c)' = Exists(c)
        /\ UNCHANGED <<release, apply, succeeded>>
    BY <1>1 DEF Exists, target
  <2>6. /\ apply.at \in {"prune", "add_root"} => release[path]' = Absent
        /\ apply.at = "add_children" =>
             /\ Root \notin apply.todo /\ ~release[path]'.ready
             /\ release[path]'.tree =
                  [n \in Node |-> IF n \in apply.todo THEN None ELSE contents'.graph[n]]
        /\ apply.at = "activate" => release[path]'.ready
    BY <2>3, <2>5 DEF Inv, ReleaseInv
  <2>7. \A q \in succeeded : release[manifest'[q].commit].ready
    BY <1>3, <2>4 DEF Inv, ReleaseInv
  <2> QED  BY <2>1, <2>5, <2>6, <2>7 DEF Inv, ReleaseInv
<1>10. RefusedLacksBundle'
  <2>1. \A q \in refused : q \in Package /\ Published(q)  BY DEF Inv, TypeOK, ImportInv
  <2>2. \A q \in refused : manifest'[q] = manifest[q]  BY <1>3, <2>1
  <2> QED  BY <1>1, <2>2 DEF Inv, RefusedLacksBundle, NodesOf, target
<1> QED  BY <1>4, <1>5, <1>6, <1>7, <1>8, <1>9, <1>10 DEF Inv

LEMMA CheckoutStep == ASSUME Inv, NEW n \in Node, NEW c \in Commit, Checkout(n, c) PROVE Inv'
<1>1. /\ head' = [head EXCEPT ![n] = c] /\ c \in CommitsOf(n)
      /\ UNCHANGED <<pack, manifest, target>>
  BY DEF Checkout
<1>2. head \in Graph  BY DEF Inv, TypeOK
<1>3. head' \in Graph  BY <1>1, <1>2 DEF Graph
<1>4. TypeOK'  BY <1>1, <1>3 DEF Inv, TypeOK, target
<1>5. HeadInv'
  <2>1. \A m \in Node : head'[m] = IF m = n THEN c ELSE head[m]  BY <1>1, <1>2 DEF Graph
  <2> QED  BY <1>1, <2>1 DEF Inv, HeadInv
<1>6. GraphInv'  BY <1>1 DEF Inv, GraphInv, Published
<1>7. BaseInv'  BY <1>1 DEF Inv, BaseInv, target
<1>8. ImportInv'  BY <1>1 DEF Inv, ImportInv, Published, contents, NodesOf, target
<1>9. ReleaseInv'  BY <1>1 DEF Inv, ReleaseInv, Exists, Moved, Published, contents, path, target
<1>10. RefusedLacksBundle'  BY <1>1 DEF Inv, RefusedLacksBundle, target
<1> QED  BY <1>4, <1>5, <1>6, <1>7, <1>8, <1>9, <1>10 DEF Inv

-----------------------------------------------------------------------------
(* Steps of the target.                                                    *)

\* They leave the host alone, and what the store holds it keeps.
LEMMA TargetFrame ==
  ASSUME Inv, UNCHANGED host, store \subseteq store'
  PROVE  /\ HeadInv' /\ GraphInv' /\ BaseInv'
         /\ refused' = refused => RefusedLacksBundle'
<1>1. HeadInv'  BY DEF Inv, HeadInv, host
<1>2. GraphInv'  BY DEF Inv, GraphInv, host, Published
<1>3. BaseInv'  BY DEF Inv, BaseInv, host
<1>4. refused' = refused => RefusedLacksBundle'  BY DEF Inv, RefusedLacksBundle, host
<1> QED  BY <1>1, <1>2, <1>3, <1>4

\* What a step does that neither builds a release nor reports a result.
LEMMA ImportStep ==
  ASSUME Inv, UNCHANGED host, UNCHANGED <<release, registered, succeeded, refused>>,
         store \subseteq store', store' \subseteq Commit, apply' \in ApplyState,
         apply'.at \in {"idle", "import"},
         apply'.at = "import" =>
           /\ apply'.package \in Package /\ Published(apply'.package)
           /\ apply'.todo \subseteq NodesOf(manifest[apply'.package].graph)
           /\ \A n \in Node : n \notin apply'.todo =>
                manifest[apply'.package].graph[n] \in store' \cup {None}
  PROVE  Inv'
<1>1. TypeOK'  BY DEF Inv, TypeOK, host
<1>2. ImportInv'  BY DEF Inv, ImportInv, Published, contents, NodesOf, host
<1>3. ReleaseInv'
  <2>1. \A q \in Package : Moved(q)' = Moved(q)  BY DEF Moved, Published, host
  <2>2. \A c \in RootCommit : Exists(c)' = Exists(c)  BY DEF Exists
  <2> QED  BY <2>1, <2>2 DEF Inv, ReleaseInv, host
<1> QED  BY <1>1, <1>2, <1>3, TargetFrame DEF Inv

LEMMA StartApplyStep == ASSUME Inv, NEW p \in Package, StartApply(p) PROVE Inv'
<1>1. NodesOf(manifest[p].graph) \subseteq Node  BY DEF NodesOf
<1>2. apply' \in ApplyState  BY <1>1 DEF StartApply, ApplyState
<1>3. \A n \in Node : n \notin apply'.todo => manifest[p].graph[n] = None
  BY DEF StartApply, NodesOf
<1>4. store \subseteq Commit  BY DEF Inv, TypeOK
<1> QED  BY <1>2, <1>3, <1>4, ImportStep DEF StartApply

\* One repository of the graph is on the target.
LEMMA ImportDoneStep ==
  ASSUME Inv, NEW n \in Node, UNCHANGED <<host, release, registered, succeeded, refused>>,
         apply.at = "import", ImportDone(n), store \subseteq store', store' \subseteq Commit,
         contents.graph[n] \in store'
  PROVE  Inv'
<1>1. apply \in ApplyState  BY DEF Inv, TypeOK
<1>2. /\ apply' \in ApplyState /\ apply'.at = "import" /\ apply'.package = apply.package
      /\ apply'.todo = apply.todo \ {n}
  BY <1>1 DEF ImportDone, ApplyState
<1>3. /\ apply.package \in Package /\ Published(apply.package)
      /\ \A m \in Node : m \notin apply.todo =>
           contents.graph[m] \in store \cup {None}
      /\ apply.todo \subseteq NodesOf(contents.graph)
  BY DEF Inv, ImportInv
<1>4. \A m \in Node : m \notin apply'.todo =>
        manifest[apply'.package].graph[m] \in store' \cup {None}
  BY <1>2, <1>3 DEF contents
<1>5. apply'.todo \subseteq NodesOf(manifest[apply'.package].graph)
  BY <1>2, <1>3 DEF contents
<1> QED  BY <1>2, <1>3, <1>4, <1>5, ImportStep

LEMMA SkipHeldStep == ASSUME Inv, NEW n \in Node, SkipHeld(n) PROVE Inv'
BY ImportDoneStep DEF SkipHeld, Held, Inv, TypeOK

LEMMA FetchStep == ASSUME Inv, NEW n \in Node, Fetch(n) PROVE Inv'
<1> DEFINE c == contents.graph[n]
<1>1. /\ apply.at = "import" /\ ImportDone(n) /\ n \in apply.todo
      /\ store' = store \cup {c} \cup {a \in Commit : <<a, c>> \in Ancestry}
      /\ UNCHANGED <<host, release, registered, succeeded, refused>>
  BY DEF Fetch
<1>2. /\ apply.package \in Package /\ n \in NodesOf(contents.graph)
  BY <1>1 DEF Inv, ImportInv
<1>3. contents \in Contents /\ store \subseteq Commit  BY <1>2 DEF Inv, TypeOK, contents
<1>4. c \in Commit  BY <1>2, <1>3 DEF Contents, Graph, NodesOf
<1>5. store \subseteq store' /\ store' \subseteq Commit /\ c \in store'  BY <1>1, <1>3, <1>4
<1> QED  BY <1>1, <1>5, ImportDoneStep

\* A refusal: the package has no full bundle for the repository, and no base, since
\* a base would be held and have its bundle.
LEMMA NeedsFullStep == ASSUME Inv, NEW n \in Node, NeedsFull(n) PROVE Inv'
<1> DEFINE p == apply.package
<1>1. /\ apply.at = "import" /\ n \in apply.todo /\ ~Held(manifest[p].graph[n])
      /\ Route(p, n) = None /\ refused' = refused \cup {p} /\ apply' = Asleep
      /\ UNCHANGED <<host, store, release, registered, succeeded>>
  BY DEF NeedsFull, contents
<1>2. p \in Package /\ Published(p) /\ n \in NodesOf(manifest[p].graph)
  BY <1>1 DEF Inv, ImportInv, contents
<1>3. manifest[p].base[n] = None /\ manifest[p].full[n] = None
  <2>1. ~(manifest[p].increment[n] # None /\ Held(manifest[p].base[n])) /\ manifest[p].full[n] = None
    BY <1>1 DEF Route
  <2>2. ASSUME manifest[p].base[n] # None  PROVE FALSE
    <3>1. Held(manifest[p].base[n])  BY <1>2, <2>2 DEF Inv, BaseInv, Held
    <3>2. manifest[p].base[n] = manifest[p].graph[n]
      BY <1>2, <2>1, <2>2, <3>1 DEF Inv, BaseInv
    <3> QED  BY <1>1, <3>1, <3>2
  <2> QED  BY <2>1, <2>2
<1> HIDE DEF p
<1>4. TypeOK'  BY <1>1, <1>2, StartTypes DEF Inv, TypeOK, host
<1>5. RefusedLacksBundle'  BY <1>1, <1>2, <1>3 DEF Inv, RefusedLacksBundle, NodesOf, host
<1>6. ImportInv'  BY <1>1, <1>2 DEF Inv, ImportInv, Asleep, Published, host
<1>7. ReleaseInv'
  <2>1. \A q \in Package : Moved(q)' = Moved(q)  BY <1>1 DEF Moved, Published, host
  <2>2. \A c \in RootCommit : Exists(c)' = Exists(c)  BY <1>1 DEF Exists
  <2> QED  BY <1>1, <2>1, <2>2 DEF Inv, ReleaseInv, Asleep, host
<1> QED  BY <1>1, <1>4, <1>5, <1>6, <1>7, TargetFrame DEF Inv

\* What a step of _materialize has to show of the release it works on.
LEMMA MaterializeStep ==
  ASSUME Inv, UNCHANGED <<host, store, succeeded, refused>>,
         apply.at # "idle", apply.at = "import" => apply.todo = {},
         registered' \subseteq Node \X RootCommit, apply' \in ApplyState,
         apply'.at \in {"idle", "prune", "add_root", "add_children", "activate"},
         apply'.at # "idle" => apply'.package = apply.package,
         NEW k \in Release, release' = [release EXCEPT ![path] = k],
         release[path].ready => k = release[path],
         k.tree[Root] = None => k = Absent,
         k.ready =>
           /\ k.tree[Root] \in RootCommit /\ k.tree = Pinned(k.tree[Root])
           /\ k.tree[Root] = path \/ \E q \in Package : Moved(q),
         apply'.at \in {"prune", "add_root"} => k = Absent,
         apply'.at = "add_children" =>
           /\ Root \notin apply'.todo /\ ~k.ready
           /\ k.tree = [n \in Node |-> IF n \in apply'.todo THEN None ELSE contents.graph[n]],
         apply'.at = "activate" => k.ready
  PROVE  Inv'
<1>1. /\ apply.package \in Package /\ Published(apply.package)
      /\ release \in [RootCommit -> Release] /\ manifest \in [Package -> Contents]
      /\ succeeded \subseteq Package
  BY DEF Inv, TypeOK, ImportInv
<1>2. path \in RootCommit  BY <1>1 DEF path, contents, Published, Contents
<1>3. /\ release' \in [RootCommit -> Release] /\ release'[path] = k
      /\ \A c \in RootCommit : c # path => release'[c] = release[c]
  BY <1>1, <1>2
<1>4. TypeOK'  BY <1>3 DEF Inv, TypeOK, host
<1>5. \A n \in Node : contents.graph[n] \in store \cup {None}  BY DEF Inv, ImportInv
<1>6. apply'.at # "idle" => contents' = contents /\ path' = path
  BY DEF contents, path, host
<1>7. ImportInv'
  <2>1. apply'.at # "idle" =>
          /\ apply'.package \in Package /\ manifest'[apply'.package].commit # None
          /\ \A n \in Node : contents'.graph[n] \in store' \cup {None}
    BY <1>1, <1>5, <1>6 DEF Published, host
  <2>2. apply'.at # "import"  OBVIOUS
  <2>3. \A p \in succeeded : Published(p)' /\ \A n \in Node : manifest'[p].graph[n] \in store' \cup {None}
    BY DEF Inv, ImportInv, Published, host
  <2>4. \A p \in refused : Published(p)'  BY DEF Inv, ImportInv, Published, host
  <2> QED  BY <2>1, <2>2, <2>3, <2>4 DEF ImportInv, Published, contents
<1>8. ReleaseInv'
  <2>1. \A q \in Package : Moved(q)' = Moved(q)  BY DEF Moved, Published, host
  <2>2. ASSUME NEW c \in RootCommit
        PROVE  /\ ~Exists(c)' => release'[c] = Absent
               /\ release'[c].ready =>
                    /\ release'[c].tree[Root] \in RootCommit
                    /\ release'[c].tree = Pinned(release'[c].tree[Root])
                    /\ release'[c].tree[Root] = c \/ \E q \in Package : Moved(q)
    <3>1. CASE c = path  BY <1>3, <3>1 DEF Exists
    <3>2. CASE c # path  BY <1>3, <3>2 DEF Inv, ReleaseInv, Exists
    <3> QED  BY <3>1, <3>2
  <2>3. ASSUME NEW p \in succeeded  PROVE release'[manifest'[p].commit].ready
    <3>1. manifest[p].commit \in RootCommit /\ release[manifest[p].commit].ready
      BY <1>1 DEF Inv, ImportInv, ReleaseInv, Published, Contents
    <3> QED  BY <1>3, <3>1 DEF host
  <2>4. apply'.at # "idle" => release'[path'] = k  BY <1>3, <1>6
  <2>5. /\ apply'.at \in {"prune", "add_root"} => release'[path'] = Absent
        /\ apply'.at = "add_children" =>
             /\ Root \notin apply'.todo /\ ~release'[path'].ready
             /\ release'[path'].tree =
                  [n \in Node |-> IF n \in apply'.todo THEN None ELSE contents'.graph[n]]
        /\ apply'.at = "activate" => release'[path'].ready
    BY <1>6, <2>4
  <2> QED  BY <2>1, <2>2, <2>3, <2>5 DEF ReleaseInv
<1> QED  BY <1>4, <1>7, <1>8, TargetFrame DEF Inv

\* While it works on a published package.
LEMMA Materializing ==
  ASSUME Inv, apply.at # "idle"
  PROVE  /\ apply \in ApplyState /\ apply.package \in Package
         /\ contents \in Contents /\ path \in RootCommit
         /\ release \in [RootCommit -> Release] /\ release[path] \in Release
         /\ release = [release EXCEPT ![path] = release[path]]
         /\ registered \subseteq Node \X RootCommit
         /\ contents.graph[Root] \in RootCommit /\ contents.graph = Pinned(contents.graph[Root])
         /\ contents.graph[Root] = path \/ Moved(apply.package)
         /\ release[path].tree[Root] = None => release[path] = Absent
         /\ release[path].ready =>
              /\ release[path].tree[Root] \in RootCommit
              /\ release[path].tree = Pinned(release[path].tree[Root])
              /\ release[path].tree[Root] = path \/ \E q \in Package : Moved(q)
         /\ ~Absent.ready /\ Absent \in Release
<1>1. /\ apply \in ApplyState /\ apply.package \in Package /\ Published(apply.package)
      /\ manifest \in [Package -> Contents] /\ release \in [RootCommit -> Release]
      /\ registered \subseteq Node \X RootCommit
  BY DEF Inv, TypeOK, ImportInv
<1>2. contents \in Contents /\ path \in RootCommit
  BY <1>1 DEF path, contents, Published, Contents
<1>3. release = [release EXCEPT ![path] = release[path]] /\ release[path] \in Release
  BY <1>1, <1>2
<1>4. /\ contents.graph[Root] \in RootCommit /\ contents.graph = Pinned(contents.graph[Root])
      /\ contents.graph[Root] = path \/ Moved(apply.package)
  BY <1>1 DEF Inv, GraphInv, contents, path, Moved
<1>5. /\ release[path].tree[Root] = None => release[path] = Absent
      /\ release[path].ready =>
              /\ release[path].tree[Root] \in RootCommit
              /\ release[path].tree = Pinned(release[path].tree[Root])
              /\ release[path].tree[Root] = path \/ \E q \in Package : Moved(q)
  BY <1>2 DEF Inv, ReleaseInv, Exists
<1>6. ~Absent.ready /\ Absent \in Release  BY StartTypes DEF Absent
<1> QED  BY <1>1, <1>2, <1>3, <1>4, <1>5, <1>6

\* Steps that leave every directory as it is.
LEMMA KeepStep ==
  ASSUME Inv, UNCHANGED <<host, store, release, succeeded, refused>>,
         apply.at # "idle", apply.at = "import" => apply.todo = {},
         registered' \subseteq registered, apply' \in ApplyState,
         apply'.at \in {"idle", "prune", "add_root", "activate"},
         apply'.at # "idle" => apply'.package = apply.package,
         apply'.at \in {"prune", "add_root"} => release[path] = Absent,
         apply'.at = "activate" => release[path].ready
  PROVE  Inv'
<1>1. registered' \subseteq Node \X RootCommit  BY Materializing
<1>2. release' = [release EXCEPT ![path] = release[path]]  BY Materializing
<1> QED  BY <1>1, <1>2, Materializing, MaterializeStep

LEMMA ReuseStep == ASSUME Inv, Reuse PROVE Inv'
<1>1. apply \in ApplyState /\ apply.at = "import" /\ apply.todo = {}
  BY DEF Reuse, Imported, Inv, TypeOK
<1>2. /\ apply' \in ApplyState /\ apply'.at = "activate" /\ apply'.package = apply.package
  BY <1>1 DEF Reuse, ApplyState
<1> QED  BY <1>1, <1>2, KeepStep DEF Reuse, Reusable, host

LEMMA RemoveStaleStep == ASSUME Inv, RemoveStale PROVE Inv'
<1>1. /\ apply \in ApplyState /\ apply.at = "import" /\ apply.todo = {}
      /\ ~release[path].ready
  BY DEF RemoveStale, Imported, Reusable, Inv, TypeOK
<1>2. NodesOf(contents.graph) \subseteq Node  BY DEF NodesOf
<1>3. /\ apply' \in ApplyState /\ apply'.at = "prune" /\ apply'.package = apply.package
  BY <1>1, <1>2 DEF RemoveStale, ApplyState
<1>4. /\ registered' \subseteq Node \X RootCommit
      /\ UNCHANGED <<host, store, registered, succeeded, refused>>
      /\ release' = [release EXCEPT ![path] = Absent]
  BY <1>1, Materializing DEF RemoveStale
<1> QED  BY <1>1, <1>3, <1>4, Materializing, MaterializeStep

LEMMA PruneStep == ASSUME Inv, NEW n \in Node, Prune(n) PROVE Inv'
<1>1. apply \in ApplyState /\ apply.at = "prune"  BY DEF Prune, Inv, TypeOK
<1>2. /\ apply' \in ApplyState /\ apply'.at = "prune" /\ apply'.package = apply.package
  BY <1>1 DEF Prune, ImportDone, ApplyState
<1>3. release[path] = Absent  BY <1>1 DEF Inv, ReleaseInv
<1>4. registered' \subseteq registered /\ UNCHANGED <<host, store, release, succeeded, refused>>
  BY DEF Prune
<1> QED  BY <1>1, <1>2, <1>3, <1>4, KeepStep

LEMMA BeginTreeStep == ASSUME Inv, BeginTree PROVE Inv'
<1>1. /\ apply \in ApplyState /\ apply.at \in {"import", "prune"} /\ apply.todo = {}
      /\ UNCHANGED <<host, store, release, registered, succeeded, refused>>
  BY DEF BeginTree, Imported, Inv, TypeOK
<1>2. /\ apply' \in ApplyState /\ apply'.at = "add_root" /\ apply'.package = apply.package
  BY <1>1 DEF BeginTree, ApplyState
<1>3. release[path] = Absent
  <2>1. CASE apply.at = "prune"  BY <2>1 DEF Inv, ReleaseInv
  <2>2. CASE apply.at = "import"
    <3>1. release[path].tree[Root] = None  BY <2>2 DEF BeginTree, Exists
    <3> QED  BY <2>2, <3>1, Materializing
  <2> QED  BY <1>1, <2>1, <2>2
<1> QED  BY <1>1, <1>2, <1>3, KeepStep

\* One more worktree stands in the release.
LEMMA TreeStep ==
  ASSUME Inv, NEW n \in Node, AddWorktree(n), UNCHANGED <<host, store, succeeded, refused>>,
         apply.at \in {"add_root", "add_children"}, apply' \in ApplyState,
         apply'.at = "add_children", apply'.package = apply.package,
         Root \notin apply'.todo, ~release[path].ready,
         \A m \in Node : IF m = n THEN m \notin apply'.todo
                         ELSE release[path].tree[m] =
                                IF m \in apply'.todo THEN None ELSE contents.graph[m]
  PROVE  Inv'
<1> DEFINE tree == [release[path].tree EXCEPT ![n] = contents.graph[n]]
           k == [release[path] EXCEPT !.tree = tree]
<1>1. /\ release \in [RootCommit -> Release] /\ release[path] \in Release /\ path \in RootCommit
      /\ contents \in Contents /\ contents.graph \in Graph
      /\ contents.graph[Root] \in RootCommit
      /\ registered \subseteq Node \X RootCommit
  BY Materializing DEF Contents
<1>2. tree \in Graph /\ tree = [m \in Node |-> IF m = n THEN contents.graph[n] ELSE release[path].tree[m]]
  BY <1>1 DEF Release, Graph
<1>3. k \in Release /\ k.tree = tree /\ ~k.ready  BY <1>1, <1>2 DEF Release
<1>4. release' = [release EXCEPT ![path] = k]  BY <1>1 DEF AddWorktree, Release
<1>5. registered' \subseteq Node \X RootCommit  BY <1>1 DEF AddWorktree
<1>6. tree = [m \in Node |-> IF m \in apply'.todo THEN None ELSE contents.graph[m]]
  BY <1>2
<1> HIDE DEF tree, k
<1>7. k.tree[Root] # None
  <2>1. k.tree[Root] = contents.graph[Root]  BY <1>3, <1>6, NoneIsNew
  <2> QED  BY <1>1, <2>1, PinnedType
<1> QED  BY <1>3, <1>4, <1>5, <1>6, <1>7, MaterializeStep

LEMMA AddRootStep == ASSUME Inv, AddRoot PROVE Inv'
<1>1. apply \in ApplyState /\ apply.at = "add_root" /\ release[path] = Absent
  BY DEF AddRoot, Inv, TypeOK, ReleaseInv
<1>2. NodesOf(contents.graph) \ {Root} \subseteq Node  BY DEF NodesOf
<1>3. /\ apply' \in ApplyState /\ apply'.at = "add_children" /\ apply'.package = apply.package
      /\ apply'.todo = NodesOf(contents.graph) \ {Root}
  BY <1>1, <1>2 DEF AddRoot, ApplyState
<1>4. \A m \in Node : Absent.tree[m] = None  BY DEF Absent, Nothing
<1>5. \A m \in Node : m \notin NodesOf(contents.graph) => contents.graph[m] = None  BY DEF NodesOf
<1>6. /\ AddWorktree(Root) /\ Root \in Node /\ UNCHANGED <<host, store, succeeded, refused>>
  BY NoneIsNew DEF AddRoot
<1>7. ~Absent.ready  BY DEF Absent
<1>8. \A m \in Node : IF m = Root THEN m \notin apply'.todo
                      ELSE release[path].tree[m] =
                             IF m \in apply'.todo THEN None ELSE contents.graph[m]
  BY <1>1, <1>3, <1>4, <1>5
<1> QED  BY <1>1, <1>3, <1>6, <1>7, <1>8, TreeStep

LEMMA AddChildStep == ASSUME Inv, NEW n \in Node, AddChild(n) PROVE Inv'
<1>1. /\ apply \in ApplyState /\ apply.at = "add_children" /\ AddWorktree(n)
      /\ Root \notin apply.todo /\ ~release[path].ready
      /\ release[path].tree = [m \in Node |-> IF m \in apply.todo THEN None ELSE contents.graph[m]]
      /\ UNCHANGED <<host, store, succeeded, refused>>
  BY DEF AddChild, Inv, TypeOK, ReleaseInv
<1>2. /\ apply' \in ApplyState /\ apply'.at = "add_children" /\ apply'.package = apply.package
      /\ apply'.todo = apply.todo \ {n}
  BY <1>1 DEF AddChild, ImportDone, ApplyState
<1>3. \A m \in Node : IF m = n THEN m \notin apply'.todo
                      ELSE release[path].tree[m] =
                             IF m \in apply'.todo THEN None ELSE contents.graph[m]
  BY <1>1, <1>2
<1> QED  BY <1>1, <1>2, <1>3, TreeStep

LEMMA MarkReadyStep == ASSUME Inv, MarkReady PROVE Inv'
<1> DEFINE k == [release[path] EXCEPT !.ready = TRUE]
<1>1. /\ apply \in ApplyState /\ apply.at = "add_children" /\ apply.todo = {}
      /\ release[path].tree = [m \in Node |-> IF m \in apply.todo THEN None ELSE contents.graph[m]]
      /\ ~release[path].ready
  BY DEF MarkReady, Inv, TypeOK, ReleaseInv
<1>2. /\ apply' \in ApplyState /\ apply'.at = "activate" /\ apply'.package = apply.package
      /\ UNCHANGED <<host, store, registered, succeeded, refused>>
  BY <1>1 DEF MarkReady, ApplyState
<1>3. /\ release[path] \in Release /\ release \in [RootCommit -> Release] /\ path \in RootCommit
      /\ contents \in Contents /\ contents.graph[Root] \in RootCommit
      /\ contents.graph = Pinned(contents.graph[Root])
      /\ contents.graph[Root] = path \/ Moved(apply.package)
      /\ apply.package \in Package
      /\ registered \subseteq Node \X RootCommit
  BY <1>1, Materializing
<1>4. k \in Release /\ k.ready /\ k.tree = release[path].tree  BY <1>3 DEF Release
<1>5. release' = [release EXCEPT ![path] = k]  BY <1>3 DEF MarkReady
<1>6. release[path].tree = contents.graph
  <2>1. contents.graph = [m \in Node |-> contents.graph[m]]  BY <1>3 DEF Contents, Graph
  <2> QED  BY <1>1, <2>1
<1>7. contents.graph[Root] # None  BY <1>3, PinnedType
<1> HIDE DEF k
<1> QED  BY <1>1, <1>2, <1>3, <1>4, <1>5, <1>6, <1>7, MaterializeStep

LEMMA MaterializeRaisesStep == ASSUME Inv, MaterializeRaises PROVE Inv'
<1>1. apply.at = "add_children" /\ ~release[path].ready
  BY DEF MaterializeRaises, Inv, ReleaseInv
<1>2. /\ apply' \in ApplyState /\ apply'.at = "idle"
      /\ UNCHANGED <<host, store, registered, succeeded, refused>>
      /\ release' = [release EXCEPT ![path] = Absent]
  BY StartTypes DEF MaterializeRaises, Asleep
<1> QED  BY <1>1, <1>2, Materializing, MaterializeStep

LEMMA SucceedStep == ASSUME Inv, Succeed PROVE Inv'
<1>1. /\ apply.at = "activate" /\ apply' = Asleep
      /\ succeeded' = succeeded \cup {apply.package}
      /\ UNCHANGED <<host, store, release, registered, refused>>
  BY DEF Succeed
<1>2. /\ apply.package \in Package /\ Published(apply.package) /\ release[path].ready
      /\ \A n \in Node : contents.graph[n] \in store \cup {None}
  BY <1>1 DEF Inv, ImportInv, ReleaseInv
<1>3. Asleep.at = "idle"  BY DEF Asleep
<1>4. TypeOK'  BY <1>1, <1>2, StartTypes DEF Inv, TypeOK, host
<1>5. ImportInv'
  <2>1. \A p \in succeeded' :
          Published(p) /\ \A n \in Node : manifest[p].graph[n] \in store \cup {None}
    BY <1>1, <1>2 DEF Inv, ImportInv, contents
  <2> QED  BY <1>1, <1>3, <2>1 DEF Inv, ImportInv, Published, host
<1>6. ReleaseInv'
  <2>1. \A q \in Package : Moved(q)' = Moved(q)  BY <1>1 DEF Moved, Published, host
  <2>2. \A c \in RootCommit : Exists(c)' = Exists(c)  BY <1>1 DEF Exists
  <2>3. \A p \in succeeded' : release[manifest[p].commit].ready
    BY <1>1, <1>2 DEF Inv, ReleaseInv, path, contents
  <2> QED  BY <1>1, <1>3, <2>1, <2>2, <2>3 DEF Inv, ReleaseInv, host
<1> QED  BY <1>1, <1>4, <1>5, <1>6, TargetFrame DEF Inv

LEMMA TransactionEndsStep == ASSUME Inv, TransactionEnds PROVE Inv'
<1>1. /\ apply' = Asleep /\ UNCHANGED <<host, store, release, registered, succeeded, refused>>
  BY DEF TransactionEnds
<1>2. apply' \in ApplyState /\ apply'.at = "idle"  BY <1>1, StartTypes DEF Asleep
<1>3. store \subseteq Commit  BY DEF Inv, TypeOK
<1> QED  BY <1>1, <1>2, <1>3, ImportStep

-----------------------------------------------------------------------------
(* The invariant.                                                          *)

LEMMA InitInv == ASSUME Init PROVE Inv
<1>1. /\ pack = Idle /\ apply = Asleep /\ succeeded = {} /\ refused = {} /\ store = {}
      /\ registered = {} /\ manifest = [p \in Package |-> Empty]
      /\ release = [c \in RootCommit |-> Absent]
      /\ head \in Graph /\ \A n \in Node : head[n] \in CommitsOf(n)
  BY DEF Init
<1>2. /\ Idle.at = "idle" /\ Asleep.at = "idle" /\ Empty.commit = None /\ ~Absent.ready
      /\ \A n \in Node : /\ Idle.installed[n] = None /\ Idle.contents.base[n] = None
                         /\ Empty.base[n] = None
  BY DEF Idle, Asleep, Empty, Absent, Nothing
<1>3. TypeOK  BY <1>1, StartTypes DEF TypeOK
<1>4. HeadInv  BY <1>1 DEF HeadInv
<1>5. GraphInv  BY <1>1, <1>2 DEF GraphInv, Published, Walked
<1>6. BaseInv  BY <1>1, <1>2 DEF BaseInv
<1>7. ImportInv  BY <1>1, <1>2 DEF ImportInv
<1>8. ReleaseInv  BY <1>1, <1>2 DEF ReleaseInv
<1>9. RefusedLacksBundle  BY <1>1 DEF RefusedLacksBundle
<1> QED  BY <1>3, <1>4, <1>5, <1>6, <1>7, <1>8, <1>9 DEF Inv

LEMMA StutterStep == ASSUME Inv, UNCHANGED vars PROVE Inv'
<1>1. UNCHANGED <<head, pack, manifest, store, release, registered, apply, succeeded, refused>>
  BY DEF vars, host, target
<1>2. TypeOK' /\ HeadInv' /\ RefusedLacksBundle'
  BY <1>1 DEF Inv, TypeOK, HeadInv, RefusedLacksBundle
<1>3. GraphInv' /\ BaseInv'  BY <1>1 DEF Inv, GraphInv, BaseInv, Published
<1>4. ImportInv'  BY <1>1 DEF Inv, ImportInv, Published, contents
<1>5. ReleaseInv'  BY <1>1 DEF Inv, ReleaseInv, Exists, Moved, Published, contents, path
<1> QED  BY <1>2, <1>3, <1>4, <1>5 DEF Inv

LEMMA NextInv == ASSUME Inv, [Next]_vars PROVE Inv'
<1>1. CASE \E n \in Node, c \in Commit : Checkout(n, c)  BY <1>1, CheckoutStep
<1>2. CASE Packages
  BY <1>2, ReadFactsStep, ReadRootStep, VisitStep, ReadReceiptsStep, CheckIncrementStep,
     WriteIncrementStep, CheckFallbackStep, WriteFullStep, PublishStep, PackagerStopsStep
     DEF Packages
<1>3. CASE Imports
  BY <1>3, StartApplyStep, SkipHeldStep, FetchStep, NeedsFullStep DEF Imports
<1>4. CASE Materializes
  BY <1>4, ReuseStep, RemoveStaleStep, PruneStep, BeginTreeStep, AddRootStep, AddChildStep,
     MarkReadyStep, MaterializeRaisesStep DEF Materializes
<1>5. CASE Succeed  BY <1>5, SucceedStep
<1>6. CASE TransactionEnds  BY <1>6, TransactionEndsStep
<1>7. CASE UNCHANGED vars  BY <1>7, StutterStep
<1> QED  BY <1>1, <1>2, <1>3, <1>4, <1>5, <1>6, <1>7 DEF Next

\* The invariant holds in every reachable state.
THEOREM ContentsInvariant == Spec => []Inv
<1>1. Init => Inv  BY InitInv
<1>2. Inv /\ [Next]_vars => Inv'  BY NextInv
<1> QED  BY <1>1, <1>2, PTL DEF Spec

\* Type correctness of the packager, the packages and the target's repositories.
THEOREM ContentsTypeCorrect == Spec => []TypeOK
<1>1. Inv => TypeOK  BY DEF Inv
<1> QED  BY <1>1, ContentsInvariant, PTL

\* What a success installed is the graph of one root commit; and of the named one,
\* unless a root moved while a package was built.
THEOREM InstalledGraphsAreExact == Spec => []InstalledIsExact
<1>1. ASSUME Inv  PROVE InstalledIsExact
  <2>1. ASSUME NEW p \in succeeded
        PROVE  LET installed == release[manifest[p].commit].tree
               IN  /\ installed[Root] \in RootCommit /\ installed = Pinned(installed[Root])
                   /\ installed[Root] = manifest[p].commit \/ \E q \in Package : Moved(q)
    <3>1. p \in Package /\ Published(p) /\ manifest \in [Package -> Contents]
      BY <1>1 DEF Inv, TypeOK, ImportInv
    <3>2. manifest[p].commit \in RootCommit  BY <3>1 DEF Published, Contents
    <3>3. release[manifest[p].commit].ready  BY <1>1 DEF Inv, ReleaseInv
    <3> QED  BY <1>1, <3>2, <3>3 DEF Inv, ReleaseInv
  <2> QED  BY <2>1 DEF InstalledIsExact
<1> QED  BY <1>1, ContentsInvariant, PTL

\* A refused package has no full bundle for a repository the host had no base of.
THEOREM RefusalsLackBundles == Spec => []RefusedLacksBundle
<1>1. Inv => RefusedLacksBundle  BY DEF Inv
<1> QED  BY <1>1, ContentsInvariant, PTL
=============================================================================
