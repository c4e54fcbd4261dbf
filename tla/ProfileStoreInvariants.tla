----------------------- MODULE ProfileStoreInvariants -----------------------
(***************************************************************************)
(* What makes the properties of ProfileStore inductive.                    *)
(***************************************************************************)
EXTENDS ProfileStore

\* Whoever is inside a call holds the lock.
LockInv == \A p \in Process : call[p].at # "idle" => lock = p

\* Identifiers are used once.
MintedInv ==
  /\ \A i \in Id : Exists(i) => i \in minted
  /\ \A s \in Source : identity[s] # None => identity[s] \in minted

\* An answer is what the identity file still says.
AnswerInv == \A s \in Source : answered[s] \subseteq {identity[s]}

\* The profile of a call of initialize before it is written.
Unborn(c) ==
  /\ c.source \in Source /\ c.new \in Profile /\ c.new.source = c.source
  /\ c.id \in minted /\ ~Exists(c.id)
  /\ \A s \in Source : identity[s] # c.id
  /\ \A i \in Id : profile[i].source # c.source
  /\ identity[c.source] = None

\* What edit and rotate_token write differs in one field from what is there.
OneField(c) ==
  /\ Exists(c.id) /\ c.new \in Profile
  /\ c.new.source = profile[c.id].source
  /\ c.new.settings = profile[c.id].settings \/ c.new.token = profile[c.id].token

\* The profile is there and its clone has no identity file yet.
Unindexed(c) ==
  /\ c.source \in Source
  /\ Exists(c.id) /\ profile[c.id].source = c.source
  /\ identity[c.source] = None

\* The profile is there, and of the remote of the clone.
Related(c) ==
  /\ c.source \in Source
  /\ Exists(c.id) /\ RemoteOf[profile[c.id].source] = RemoteOf[c.source]

\* What is true of a call before each of its steps.
CallInv(c) ==
  /\ c.at = "profile" => \/ c.op = "initialize" /\ Unborn(c)
                         \/ c.op = "edit" /\ OneField(c)
  /\ c.at = "profile-sync" => \/ c.op = "initialize" /\ Unindexed(c)
                              \/ c.op = "edit"
  /\ c.at = "identity" => \/ c.op \in {"initialize", "recover"} /\ Unindexed(c)
                          \/ c.op = "link" /\ Related(c)
  /\ c.at = "identity-sync" => c.source \in Source /\ identity[c.source] = c.id
  /\ c.at = "undo" => faults > 0

Inv ==
  /\ TypeOK /\ LockInv /\ MintedInv /\ AnswerInv
  /\ \A p \in Process : CallInv(call[p])
  /\ OneProfilePerSource /\ ProvenanceKept /\ CrashesAreRepaired
=============================================================================
