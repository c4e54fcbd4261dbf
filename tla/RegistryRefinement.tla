------------------------- MODULE RegistryRefinement -------------------------
(***************************************************************************)
(* ProfileStore implements Registry: its two files, written one after the  *)
(* other, are one directory whose changes happen at one moment.            *)
(***************************************************************************)
EXTENDS ProfileStoreInvariants

\* A clone leads to what its identity file says; without the file to its own
\* profile, which _resolve finds.
LeadsTo(s) ==
  IF identity[s] # None THEN identity[s]
  ELSE IF Matches(s) # {} THEN CHOOSE i \in Matches(s) : TRUE
  ELSE None

LeadsOf == [s \in Source |-> LeadsTo(s)]

Abstract == INSTANCE Registry WITH entry <- profile, leads <- LeadsOf, told <- answered

\* Whoever calls the store sees each call happen at one moment: a profile that
\* initialize takes back (profiles.py:114-120) was returned to nobody and led to
\* by no other clone, and no call between the two writes of another sees half.
ImplementsRegistry == Abstract!Spec

\* What is known of the profile of a call past its first write.
Own(c) ==
  /\ c.at = "identity-sync" => Exists(c.id)
  /\ c.at = "undo" => c.op = "initialize"
  /\ c.op = "initialize" /\ c.at # "profile" =>
       /\ c.source \in Source /\ profile[c.id].source = c.source
       /\ identity[c.source] \in {None, c.id}
       /\ \A s \in Source \ {c.source} : identity[s] # c.id
       /\ answered[c.source] = {}

OwnInv == \A p \in Process : Own(call[p])

\* The mapping of leads, without CHOOSE.
LeadsRight ==
  \A s \in Source :
    /\ LeadsOf[s] \in Id \cup {None}
    /\ identity[s] # None => LeadsOf[s] = identity[s]
    /\ identity[s] = None => \A i \in Id : LeadsOf[s] = i <=> profile[i].source = s

MapInv == Inv /\ OwnInv /\ LeadsRight
=============================================================================
