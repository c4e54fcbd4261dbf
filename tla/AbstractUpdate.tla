--------------------------- MODULE AbstractUpdate ---------------------------
(***************************************************************************)
(* What the target promises whoever looks at the destination path: between *)
(* transactions it stays as it is; during one it shows the old contents or *)
(* the new release, and nothing at all only when the old contents were not *)
(* a symlink; a committed transaction leaves the new release, a restored   *)
(* one the old contents.                                                   *)
(***************************************************************************)
CONSTANTS Tx, Commit, Absent, Original, External

VARIABLES
  dest,    \* what is at the destination
  base,    \* what was there when the open transaction began
  target,  \* the release the open transaction installs
  state    \* of each transaction

vars == <<dest, base, target, state>>

Link == Commit \cup {External}

IsOpen == \E t \in Tx : state[t] = "open"

Visible == {base, target} \cup (IF base \in Link THEN {} ELSE {Absent})

Init ==
  /\ dest \in {Absent, Original, External}
  /\ base = dest
  /\ target = dest
  /\ state = [t \in Tx |-> "none"]

Begin(t) ==
  /\ ~IsOpen /\ state[t] = "none"
  /\ state' = [state EXCEPT ![t] = "open"]
  /\ target' \in Commit
  /\ UNCHANGED <<dest, base>>

Move ==
  /\ IsOpen
  /\ dest' \in Visible
  /\ UNCHANGED <<base, target, state>>

\* Outside a transaction both names mean what is at the destination.
Close(t, outcome) ==
  /\ state[t] = "open"
  /\ state' = [state EXCEPT ![t] = outcome]
  /\ base' = dest /\ target' = dest
  /\ UNCHANGED dest

Commits(t)  == dest = target /\ Close(t, "committed")
Restores(t) == dest = base /\ Close(t, "restored")
Breaks(t)   == Close(t, "broken")

\* The process can fail after it settled a transaction and before it knows.
Downgrades(t) ==
  /\ ~IsOpen /\ state[t] \in {"committed", "restored"}
  /\ state' = [state EXCEPT ![t] = "broken"]
  /\ UNCHANGED <<dest, base, target>>

Next ==
  \/ Move
  \/ \E t \in Tx : Begin(t) \/ Commits(t) \/ Restores(t) \/ Breaks(t) \/ Downgrades(t)

Spec == Init /\ [][Next]_vars
=============================================================================
