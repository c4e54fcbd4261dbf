---------------------------- MODULE ProfileStore ----------------------------
(***************************************************************************)
(* The store of packaging profiles (packaging/profiles.py): one file per   *)
(* profile, named by its repository identifier, and one identity file per  *)
(* clone, which leads from the clone to its profile.  Every call holds one *)
(* lock while it reads and writes both; processes crash, and a write that  *)
(* raises may have replaced the file, because atomic_write_private checks  *)
(* and syncs after the rename.                                             *)
(*                                                                         *)
(* A call that raises before its first write changes nothing: it is not an *)
(* action.  Such are calls on a profile that does not exist or whose clone *)
(* is not at its path any more, and on a clone whose files disagree.       *)
(***************************************************************************)
EXTENDS Integers

CONSTANTS
  Process,
  Id,          \* repository identifiers (uuid4)
  Source,      \* clones: the common Git directory with its remote
  RemoteOf,    \* the provenance remote of each clone
  Settings,
  Token,
  MaxFaults,   \* bound: calls that raise while they write
  MaxCrashes   \* bound: crashes of a process

None == "none"

ASSUME NoneAssumption == None \notin Process \cup Id \cup Source

ASSUME BoundAssumption == MaxFaults \in Nat /\ MaxCrashes \in Nat

VARIABLES
  profile,    \* repos/<id>.json
  identity,   \* identities/<clone>.json: the profile of the clone
  lock,       \* who holds profiles.lock
  call,       \* of each process: the call it is in
  minted,     \* the identifiers RepoId.generate has returned
  present,    \* the clones that are still at their path
  answered,   \* history: what initialize and reuse returned since the last link
  faults, crashes

files == <<profile, identity>>
counters == <<faults, crashes>>
vars == <<files, lock, call, minted, present, answered, counters>>

Profile == [source : Source, settings : Settings, token : Token]
NoProfile == [source |-> None, settings |-> None, token |-> None]

\* The call in progress: what it does next, what it writes, and for whom.
Call == [at : {"profile", "profile-sync", "identity", "identity-sync", "undo"},
         op : {"initialize", "recover", "edit", "link"},
         source : Source \cup {None}, id : Id, new : Profile \cup {NoProfile}]
NoCall == [at |-> "idle", op |-> None, source |-> None, id |-> None, new |-> NoProfile]

Init ==
  /\ profile = [i \in Id |-> NoProfile]
  /\ identity = [s \in Source |-> None]
  /\ lock = None
  /\ call = [p \in Process |-> NoCall]
  /\ minted = {}
  /\ present = Source
  /\ answered = [s \in Source |-> {}]
  /\ faults = 0 /\ crashes = 0

Exists(i) == profile[i] # NoProfile

\* _load resolves the path of the clone, which fails without the directory.
Loads(i) == Exists(i) /\ profile[i].source \in present

-----------------------------------------------------------------------------
(* The beginning of each call: the lock, and what it reads under it.       *)

\* Mutant: the lock is shared.
Shared == TRUE
Unlocked == lock = None

Begin(p, at, op, s, i, new) ==
  /\ Unlocked
  /\ call[p].at = "idle"
  /\ lock' = p
  /\ call' = [call EXCEPT ![p] = [at |-> at, op |-> op, source |-> s, id |-> i, new |-> new]]

\* Mutant: only profiles that have their identity file are found.
MatchesIndexed(s) == {i \in Id : profile[i].source = s /\ identity[s] = i}
\* _matching_profiles loads every profile to find those of one clone.
Matches(s) == {i \in Id : profile[i].source = s}
AllLoad == \A i \in Id : Exists(i) => Loads(i)

\* initialize, of a clone without a profile.
Initialize(p, s, i, new) ==
  /\ s \in present /\ AllLoad
  /\ identity[s] = None /\ Matches(s) = {}
  /\ i \notin minted /\ minted' = minted \cup {i}
  /\ new.source = s
  /\ Begin(p, "profile", "initialize", s, i, new)
  /\ UNCHANGED <<files, present, answered, counters>>

\* initialize or reuse, of a clone whose profile lacks its identity file.
Recover(p, s, i) ==
  /\ s \in present /\ AllLoad
  /\ identity[s] = None /\ Matches(s) = {i}
  /\ Begin(p, "identity", "recover", s, i, NoProfile)
  /\ UNCHANGED <<files, minted, present, answered, counters>>

\* _resolve refuses a profile of this clone that is not its only one; the
\* profile of another clone was linked.
Resolves(s, i) ==
  /\ s \in present /\ identity[s] = i /\ Loads(i)
  /\ profile[i].source = s => AllLoad /\ Matches(s) = {i}

\* initialize or reuse, of a clone that has one: the answer needs no write.
Answer(s, i) ==
  /\ Unlocked
  /\ Resolves(s, i)
  /\ answered' = [answered EXCEPT ![s] = @ \cup {i}]
  /\ UNCHANGED <<files, lock, call, minted, present, counters>>

\* edit and reset.
Edit(p, i, settings) ==
  /\ Loads(i)
  /\ Begin(p, "profile", "edit", None, i, [profile[i] EXCEPT !.settings = settings])
  /\ UNCHANGED <<files, minted, present, answered, counters>>

\* Mutant: the new token is written into the wrong field.
RotatedSwapped(i, token) == [profile[i] EXCEPT !.settings = token]
Rotated(i, token) == [profile[i] EXCEPT !.token = token]

RotateToken(p, i, token) ==
  /\ Loads(i)
  /\ Begin(p, "profile", "edit", None, i, Rotated(i, token))
  /\ UNCHANGED <<files, minted, present, answered, counters>>

\* Mutants: the profile is not loaded; the remotes are not compared.
LinkableUnloaded(s, i) == Exists(i) => RemoteOf[s] = RemoteOf[profile[i].source]
LinkableAnywhere(s, i) == Loads(i)
Linkable(s, i) == Loads(i) /\ RemoteOf[s] = RemoteOf[profile[i].source]

Link(p, s, i) ==
  /\ s \in present /\ Linkable(s, i)
  /\ Begin(p, "identity", "link", s, i, NoProfile)
  /\ UNCHANGED <<files, minted, present, answered, counters>>

-----------------------------------------------------------------------------
(* The writes.                                                             *)

At(p, at) == call[p].at = at

Continue(p, at) ==
  /\ call' = [call EXCEPT ![p].at = at]
  /\ UNCHANGED lock

\* The call returns or raises: the lock is released.
End(p) ==
  /\ call' = [call EXCEPT ![p] = NoCall]
  /\ lock' = None

Fault == faults < MaxFaults /\ faults' = faults + 1 /\ UNCHANGED crashes

WriteProfile(p) ==
  /\ At(p, "profile")
  /\ \/ /\ profile' = [profile EXCEPT ![call[p].id] = call[p].new]
        /\ Continue(p, "profile-sync") /\ UNCHANGED counters
     \/ End(p) /\ Fault /\ UNCHANGED profile
  /\ UNCHANGED <<identity, minted, present, answered>>

\* initialize takes nothing back when the write of its profile raises.
SyncProfile(p) ==
  /\ At(p, "profile-sync")
  /\ \/ /\ IF call[p].op = "initialize" THEN Continue(p, "identity") ELSE End(p)
        /\ UNCHANGED counters
     \/ End(p) /\ Fault
  /\ UNCHANGED <<files, minted, present, answered>>

\* Mutant: the recovery of an identity file takes the profile back as well.
RaisesAndUndoes(p) ==
  /\ IF call[p].op # "link" THEN Continue(p, "undo") ELSE End(p)
  /\ Fault
IdentityRaises(p) ==
  /\ IF call[p].op = "initialize" THEN Continue(p, "undo") ELSE End(p)
  /\ Fault

\* From the rename on a linked clone resolves to its new profile.
WriteIdentity(p) ==
  /\ At(p, "identity")
  /\ \/ /\ identity' = [identity EXCEPT ![call[p].source] = call[p].id]
        /\ answered' = IF call[p].op = "link"
                       THEN [answered EXCEPT ![call[p].source] = {}] ELSE answered
        /\ Continue(p, "identity-sync") /\ UNCHANGED counters
     \/ IdentityRaises(p) /\ UNCHANGED <<identity, answered>>
  /\ UNCHANGED <<profile, minted, present>>

\* The call may still raise on its way out, when the directories are rechecked.
SyncIdentity(p) ==
  /\ At(p, "identity-sync")
  /\ \/ /\ answered' = [answered EXCEPT ![call[p].source] = @ \cup {call[p].id}]
        /\ End(p) /\ UNCHANGED counters
     \/ IdentityRaises(p) /\ UNCHANGED answered
     \/ End(p) /\ Fault /\ UNCHANGED answered
  /\ UNCHANGED <<files, minted, present>>

\* initialize removes the profile whose identity could not be written.
Undo(p) ==
  /\ At(p, "undo")
  /\ \/ profile' = [profile EXCEPT ![call[p].id] = NoProfile] /\ UNCHANGED counters
     \/ Fault /\ UNCHANGED profile
  /\ End(p)
  /\ UNCHANGED <<identity, minted, present, answered>>

\* The kernel releases the lock of a process that dies.
Crash(p) ==
  /\ ~At(p, "idle")
  /\ crashes < MaxCrashes /\ crashes' = crashes + 1
  /\ End(p)
  /\ UNCHANGED <<files, minted, present, answered, faults>>

\* The operator moves or removes a clone.
CloneMoves(s) ==
  /\ s \in present
  /\ present' = present \ {s}
  /\ UNCHANGED <<files, lock, call, minted, answered, counters>>

-----------------------------------------------------------------------------
Next ==
  \/ \E p \in Process, s \in Source, i \in Id, new \in Profile : Initialize(p, s, i, new)
  \/ \E p \in Process, s \in Source, i \in Id : Recover(p, s, i)
  \/ \E s \in Source, i \in Id : Answer(s, i)
  \/ \E p \in Process, i \in Id, settings \in Settings : Edit(p, i, settings)
  \/ \E p \in Process, i \in Id, token \in Token : RotateToken(p, i, token)
  \/ \E p \in Process, s \in Source, i \in Id : Link(p, s, i)
  \/ \E p \in Process : WriteProfile(p)
  \/ \E p \in Process : SyncProfile(p)
  \/ \E p \in Process : WriteIdentity(p)
  \/ \E p \in Process : SyncIdentity(p)
  \/ \E p \in Process : Undo(p)
  \/ \E p \in Process : Crash(p)
  \/ \E s \in Source : CloneMoves(s)

Spec == Init /\ [][Next]_vars

-----------------------------------------------------------------------------
\* Every variable has its type (the type invariant).
TypeOK ==
  /\ profile \in [Id -> Profile \cup {NoProfile}]
  /\ identity \in [Source -> Id \cup {None}]
  /\ lock \in Process \cup {None}
  /\ call \in [Process -> Call \cup {NoCall}]
  /\ minted \subseteq Id
  /\ present \subseteq Source
  /\ answered \in [Source -> SUBSET Id]
  /\ faults \in 0..MaxFaults /\ crashes \in 0..MaxCrashes

\* A clone never gets a second profile, whatever concurrent calls, raising
\* writes and crashes left of the first: _resolve would refuse the clone from
\* then on (profiles.py:248-256).
OneProfilePerSource ==
  \A i, j \in Id : Exists(i) /\ Exists(j) /\ profile[i].source = profile[j].source => i = j

\* Between two links of a clone initialize and reuse return one and the same
\* repository, so no caller holds a profile that later calls do not know
\* (profiles.py:98-126, the undo of 114-120 included).
AnswersAgree ==
  \A s \in Source : \A i, j \in answered[s] : i = j

\* A profile is replaced with a change of its settings or of its token alone:
\* no edit takes back a rotation that went on at the same time, nor the other
\* way round (profiles.py:133-154).
NoLostUpdate ==
  [][\A i \in Id :
       /\ Exists(i) /\ Exists(i)' /\ profile'[i] # profile[i]
       => /\ profile'[i].source = profile[i].source
          /\ \/ profile'[i].settings = profile[i].settings
             \/ profile'[i].token = profile[i].token]_vars

\* The profile a clone leads to.
Leads(s) == identity[s] \in Id /\ Exists(identity[s])

\* A profile, and with it its token, is shared only by clones of one remote
\* (profiles.py:160).
ProvenanceKept ==
  \A s \in Source : Leads(s) => RemoteOf[profile[identity[s]].source] = RemoteOf[s]

\* Every identity file leads to a profile.
IdentityResolves == \A s \in Source : identity[s] # None => Leads(s)

\* Crashes alone never leave an identity file without its profile: the two
\* files are written in the order that recovery can repair (profiles.py:111-113).
CrashesAreRepaired == faults = 0 => IdentityResolves
=============================================================================
