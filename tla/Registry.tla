------------------------------ MODULE Registry ------------------------------
(***************************************************************************)
(* What the store promises its callers: a directory of entries in which    *)
(* every change happens at one moment.  A clone is given an entry once; an *)
(* entry is withdrawn only when nobody was told of it and nobody else is   *)
(* led to it; nothing else removes one, and a change is one of its         *)
(* settings or of its token.                                               *)
(***************************************************************************)
CONSTANTS Id, Source, RemoteOf, Settings, Token, None

VARIABLES
  entry,   \* of each identifier
  leads,   \* the identifier a clone leads to, whether or not its entry is there
  told     \* what the callers were told of a clone since its last link

vars == <<entry, leads, told>>

Entry == [source : Source, settings : Settings, token : Token]
Missing == [source |-> None, settings |-> None, token |-> None]

Init ==
  /\ entry = [i \in Id |-> Missing]
  /\ leads = [s \in Source |-> None]
  /\ told = [s \in Source |-> {}]

Fresh(i) == entry[i] = Missing /\ \A s \in Source : leads[s] # i

Register(s, i) ==
  /\ leads[s] = None /\ Fresh(i)
  /\ \E new \in Entry : new.source = s /\ entry' = [entry EXCEPT ![i] = new]
  /\ leads' = [leads EXCEPT ![s] = i]
  /\ UNCHANGED told

\* The clone leads nowhere afterwards, or to what is not there any more.
Withdraw(s, i) ==
  /\ leads[s] = i /\ entry[i].source = s
  /\ told[s] = {}
  /\ \A u \in Source \ {s} : leads[u] # i
  /\ entry' = [entry EXCEPT ![i] = Missing]
  /\ leads' \in {leads, [leads EXCEPT ![s] = None]}
  /\ UNCHANGED told

Change(i) ==
  /\ entry[i] # Missing
  /\ \/ \E settings \in Settings : entry' = [entry EXCEPT ![i].settings = settings]
     \/ \E token \in Token : entry' = [entry EXCEPT ![i].token = token]
  /\ UNCHANGED <<leads, told>>

Link(s, i) ==
  /\ entry[i] # Missing /\ RemoteOf[entry[i].source] = RemoteOf[s]
  /\ leads' = [leads EXCEPT ![s] = i]
  /\ told' = [told EXCEPT ![s] = {}]
  /\ UNCHANGED entry

Tell(s, i) ==
  /\ leads[s] = i /\ entry[i] # Missing
  /\ told' = [told EXCEPT ![s] = @ \cup {i}]
  /\ UNCHANGED <<entry, leads>>

Next ==
  \/ \E i \in Id : Change(i)
  \/ \E s \in Source, i \in Id : Register(s, i) \/ Withdraw(s, i) \/ Link(s, i) \/ Tell(s, i)

Spec == Init /\ [][Next]_vars
=============================================================================
