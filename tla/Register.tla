------------------------------ MODULE Register ------------------------------
(***************************************************************************)
(* What a replacement of a file promises: a register written by one-shot   *)
(* calls.  A call takes effect at one moment or never; until the value is  *)
(* hardened a loss of power may bring back an older one; a call commits    *)
(* only when nothing older than its own value can come back.  A call that  *)
(* expects a value compares it first; the comparison and the effect are    *)
(* two moments.                                                            *)
(***************************************************************************)
CONSTANTS Call, Old, None

VARIABLES
  value,     \* what a reader sees: a call stands for the contents it writes
  maybe,     \* what a reader may see after a loss of power
  older,     \* of each call, what "maybe" was when it took effect
  expected,  \* of each call, the value it expects or None
  state      \* of each call

vars == <<value, maybe, older, expected, state>>

Init ==
  /\ value = Old /\ maybe = {Old}
  /\ older = [c \in Call |-> {}]
  /\ expected = [c \in Call |-> None]
  /\ state = [c \in Call |-> "new"]

Moves(c, from, to) == state[c] = from /\ state' = [state EXCEPT ![c] = to]

Begin(c) ==
  /\ Moves(c, "new", "pending")
  /\ \E v \in {None, value} : expected' = [expected EXCEPT ![c] = v]
  /\ UNCHANGED <<value, maybe, older>>

Compare(c) ==
  /\ Moves(c, "pending", "compared")
  /\ expected[c] \in {None, value}
  /\ UNCHANGED <<value, maybe, older, expected>>

TakeEffect(c) ==
  /\ Moves(c, "compared", "visible")
  /\ value' = c
  /\ maybe' = maybe \cup {c}
  /\ older' = [older EXCEPT ![c] = maybe]
  /\ UNCHANGED expected

Harden == maybe' = {value} /\ UNCHANGED <<value, older, expected, state>>

Commit(c) ==
  /\ Moves(c, "visible", "committed")
  /\ maybe \cap older[c] = {}
  /\ UNCHANGED <<value, maybe, older, expected>>

\* Without an effect it has failed; with one its caller cannot tell.
Fail(c) ==
  /\ \/ Moves(c, "pending", "failed")
     \/ Moves(c, "compared", "failed")
     \/ Moves(c, "visible", "unsure")
  /\ UNCHANGED <<value, maybe, older, expected>>

Running(c) == state[c] \in {"pending", "compared", "visible"}

Lose(c) ==
  /\ Running(c) /\ state' = [state EXCEPT ![c] = "lost"]
  /\ UNCHANGED <<value, maybe, older, expected>>

PowerLoss ==
  /\ value' \in maybe /\ maybe' = {value'}
  /\ state' = [c \in Call |-> IF Running(c) THEN "lost" ELSE state[c]]
  /\ UNCHANGED <<older, expected>>

Next ==
  \/ Harden
  \/ PowerLoss
  \/ \E c \in Call : Begin(c) \/ Compare(c) \/ TakeEffect(c) \/ Commit(c) \/ Fail(c) \/ Lose(c)

Spec == Init /\ [][Next]_vars
=============================================================================
