------------------------- MODULE ProfileStoreProofs -------------------------
(***************************************************************************)
(* The invariants of ProfileStore hold for every number of processes,      *)
(* clones, identifiers, raising writes and crashes, and with them the      *)
(* store implements Registry.                                              *)
(***************************************************************************)
EXTENDS RegistryRefinement, TLAPS

\* What the files say, apart from the calls that are going on.
FilesInv == MintedInv /\ AnswerInv /\ OneProfilePerSource /\ ProvenanceKept /\ CrashesAreRepaired

CallsInv == LockInv /\ \A p \in Process : CallInv(call[p])

LEMMA InvParts == Inv <=> TypeOK /\ FilesInv /\ CallsInv
  BY DEF Inv, FilesInv, CallsInv

LEMMA InvNext == TypeOK' /\ FilesInv' /\ CallsInv' => Inv'
  BY DEF Inv, FilesInv, CallsInv

LEMMA ExistingTyped ==
  ASSUME TypeOK, NEW i \in Id, Exists(i)
  PROVE  /\ profile[i] \in Profile
         /\ profile[i].source \in Source
  BY DEF TypeOK, Exists, Profile

LEMMA MissingTyped ==
  ASSUME TypeOK, NEW i \in Id, ~Exists(i)
  PROVE  profile[i].source \notin Source
  BY NoneAssumption DEF Exists, NoProfile

LEMMA NoCallHolds == CallInv(NoCall)
  BY DEF CallInv, NoCall

\* A step of the process that holds, takes or releases the lock.
LEMMA CallsStep ==
  ASSUME TypeOK, CallsInv, NEW p \in Process, NEW c \in Call \cup {NoCall},
         lock \in {None, p}, lock' \in {None, p},
         call' = [call EXCEPT ![p] = c],
         c.at # "idle" => lock' = p,
         CallInv(c)'
  PROVE  /\ call' \in [Process -> Call \cup {NoCall}]
         /\ lock' \in Process \cup {None}
         /\ CallsInv'
<1>1. call' \in [Process -> Call \cup {NoCall}] /\ call'[p] = c
  BY DEF TypeOK
<1>2. \A q \in Process \ {p} : call'[q] = NoCall
  <2> SUFFICES ASSUME NEW q \in Process \ {p} PROVE call'[q] = NoCall
    OBVIOUS
  <2>1. call[q].at = "idle"
    BY NoneAssumption DEF CallsInv, LockInv
  <2>2. call[q] = NoCall
    BY <2>1 DEF TypeOK, Call
  <2> QED
    BY <2>2 DEF TypeOK
<1>3. LockInv'
  BY <1>1, <1>2 DEF LockInv, NoCall
<1>4. ASSUME NEW q \in Process PROVE CallInv(call[q])'
  <2>1. CASE q = p
    BY <1>1, <2>1
  <2>2. CASE q # p
    <3>1. CallInv(NoCall)'
      BY DEF CallInv, NoCall
    <3> QED
      BY <1>2, <2>2, <3>1
  <2> QED
    BY <2>1, <2>2
<1> QED
  BY <1>1, <1>3, <1>4 DEF CallsInv

\* The holder of the lock is the process inside a call.
LEMMA Holder ==
  ASSUME TypeOK, CallsInv, NEW p \in Process, call[p].at # "idle"
  PROVE  lock = p /\ call[p] \in Call /\ CallInv(call[p])
  BY DEF TypeOK, CallsInv, LockInv, NoCall

LEMMA EndStep ==
  ASSUME TypeOK, CallsInv, NEW p \in Process, call[p].at # "idle", End(p)
  PROVE  /\ call' \in [Process -> Call \cup {NoCall}]
         /\ lock' \in Process \cup {None}
         /\ CallsInv'
<1>1. CallInv(NoCall)'
  BY DEF CallInv, NoCall
<1> QED
  BY <1>1, Holder, CallsStep DEF End, NoCall

LEMMA ContinueStep ==
  ASSUME TypeOK, CallsInv, NEW p \in Process, call[p].at # "idle",
         NEW at \in {"profile", "profile-sync", "identity", "identity-sync", "undo"},
         Continue(p, at), NEW c, c = [call[p] EXCEPT !.at = at], CallInv(c)'
  PROVE  /\ call' \in [Process -> Call \cup {NoCall}]
         /\ lock' \in Process \cup {None}
         /\ CallsInv'
<1>1. call[p] \in Call /\ lock = p
  BY Holder
<1>2. c \in Call
  BY <1>1 DEF Call
<1>3. call' = [call EXCEPT ![p] = c] /\ lock' = p
  BY <1>1 DEF Continue
<1> QED
  BY <1>1, <1>2, <1>3, CallsStep

LEMMA BeginStep ==
  ASSUME TypeOK, CallsInv, NEW p \in Process,
         NEW at \in {"profile", "identity"}, NEW op \in {"initialize", "recover", "edit", "link"},
         NEW s \in Source \cup {None}, NEW i \in Id, NEW new \in Profile \cup {NoProfile},
         Begin(p, at, op, s, i, new),
         CallInv([at |-> at, op |-> op, source |-> s, id |-> i, new |-> new])'
  PROVE  /\ call' \in [Process -> Call \cup {NoCall}]
         /\ lock' \in Process \cup {None}
         /\ CallsInv'
<1> DEFINE c == [at |-> at, op |-> op, source |-> s, id |-> i, new |-> new]
<1>1. c \in Call
  BY DEF Call
<1>2. call' = [call EXCEPT ![p] = c] /\ lock' = p /\ lock = None
  BY DEF Begin, Unlocked
<1>3. CallInv(c)'
  OBVIOUS
<1> HIDE DEF c
<1> QED
  BY <1>1, <1>2, <1>3, CallsStep

\* A step that leaves the files alone.
LEMMA FilesKept ==
  ASSUME TypeOK, FilesInv, UNCHANGED files, minted \subseteq minted', faults' = 0 => faults = 0,
         \A s \in Source : answered'[s] \subseteq {identity[s]}
  PROVE  FilesInv'
  BY DEF FilesInv, files, MintedInv, AnswerInv, OneProfilePerSource, ProvenanceKept,
         CrashesAreRepaired, IdentityResolves, Leads, Exists

LEMMA FaultTyped ==
  ASSUME TypeOK, Fault
  PROVE  /\ faults' \in 0..MaxFaults /\ crashes' \in 0..MaxCrashes
         /\ faults' > 0
  BY BoundAssumption DEF TypeOK, Fault

-----------------------------------------------------------------------------
(* One lemma per action.                                                   *)

LEMMA InitializeStep ==
  ASSUME Inv, NEW p \in Process, NEW s \in Source, NEW i \in Id, NEW new \in Profile,
         Initialize(p, s, i, new)
  PROVE  Inv'
<1> USE InvParts
<1> DEFINE c == [at |-> "profile", op |-> "initialize", source |-> s, id |-> i, new |-> new]
<1>1. CallInv(c)'
  <2>1. ~Exists(i) /\ \A t \in Source : identity[t] # i
    BY NoneAssumption DEF Initialize, FilesInv, MintedInv
  <2>2. \A j \in Id : profile[j].source # s
    BY DEF Initialize, Matches
  <2> QED
    BY <2>1, <2>2 DEF Initialize, CallInv, Unborn, files, Exists
<1>2. FilesInv'
  BY FilesKept DEF Initialize, counters, FilesInv, AnswerInv
<1>3. /\ call' \in [Process -> Call \cup {NoCall}]
      /\ lock' \in Process \cup {None}
      /\ CallsInv'
  BY <1>1, BeginStep DEF Initialize
<1>4. TypeOK'
  BY <1>3 DEF TypeOK, Initialize, files, counters
<1> QED
  BY <1>2, <1>3, <1>4, InvNext

LEMMA RecoverStep ==
  ASSUME Inv, NEW p \in Process, NEW s \in Source, NEW i \in Id, Recover(p, s, i)
  PROVE  Inv'
<1> USE InvParts
<1> DEFINE c == [at |-> "identity", op |-> "recover", source |-> s, id |-> i, new |-> NoProfile]
<1>1. CallInv(c)'
  <2>1. profile[i].source = s
    BY DEF Recover, Matches
  <2>2. Exists(i)
    BY <2>1, MissingTyped
  <2> QED
    BY <2>1, <2>2 DEF Recover, CallInv, Unindexed, files, Exists
<1>2. FilesInv'
  BY FilesKept DEF Recover, counters, FilesInv, AnswerInv
<1>3. /\ call' \in [Process -> Call \cup {NoCall}]
      /\ lock' \in Process \cup {None}
      /\ CallsInv'
  BY <1>1, BeginStep DEF Recover
<1>4. TypeOK'
  BY <1>3 DEF TypeOK, Recover, files, counters
<1> QED
  BY <1>2, <1>3, <1>4, InvNext

LEMMA AnswerStep ==
  ASSUME Inv, NEW s \in Source, NEW i \in Id, Answer(s, i)
  PROVE  Inv'
<1> USE InvParts
<1>1. FilesInv'
  BY FilesKept DEF Answer, Resolves, Loads, counters, FilesInv, AnswerInv, TypeOK
<1>2. CallsInv'
  BY DEF Answer, CallsInv, LockInv, CallInv, Unborn, OneField, Unindexed, Related, Exists, files,
         counters
<1>3. TypeOK'
  BY DEF TypeOK, Answer, files, counters
<1> QED
  BY <1>1, <1>2, <1>3, InvNext

\* edit, reset and rotate_token.
LEMMA EditStep ==
  ASSUME Inv, NEW p \in Process, NEW i \in Id, Exists(i), NEW new \in Profile,
         new.source = profile[i].source,
         new.settings = profile[i].settings \/ new.token = profile[i].token,
         Begin(p, "profile", "edit", None, i, new),
         UNCHANGED <<files, minted, present, answered, counters>>
  PROVE  Inv'
<1> USE InvParts
<1> DEFINE c == [at |-> "profile", op |-> "edit", source |-> None, id |-> i, new |-> new]
<1>1. CallInv(c)'
  BY DEF CallInv, OneField, files, Exists
<1>2. FilesInv'
  BY FilesKept DEF counters, FilesInv, AnswerInv
<1>3. /\ call' \in [Process -> Call \cup {NoCall}]
      /\ lock' \in Process \cup {None}
      /\ CallsInv'
  BY <1>1, BeginStep
<1>4. TypeOK'
  BY <1>3 DEF TypeOK, files, counters
<1> QED
  BY <1>2, <1>3, <1>4, InvNext

LEMMA LinkStep ==
  ASSUME Inv, NEW p \in Process, NEW s \in Source, NEW i \in Id, Link(p, s, i)
  PROVE  Inv'
<1> USE InvParts
<1> DEFINE c == [at |-> "identity", op |-> "link", source |-> s, id |-> i, new |-> NoProfile]
<1>1. CallInv(c)'
  BY DEF Link, CallInv, Related, Linkable, Loads, files, Exists
<1>2. FilesInv'
  BY FilesKept DEF Link, counters, FilesInv, AnswerInv
<1>3. /\ call' \in [Process -> Call \cup {NoCall}]
      /\ lock' \in Process \cup {None}
      /\ CallsInv'
  BY <1>1, BeginStep DEF Link
<1>4. TypeOK'
  BY <1>3 DEF TypeOK, Link, files, counters
<1> QED
  BY <1>2, <1>3, <1>4, InvNext

\* A call that raises and releases the lock, the files as they are.
LEMMA RaiseStep ==
  ASSUME Inv, NEW p \in Process, call[p].at # "idle", End(p), Fault,
         UNCHANGED <<files, minted, present, answered>>
  PROVE  Inv'
<1> USE InvParts
<1>1. FilesInv'
  BY FilesKept, FaultTyped DEF FilesInv, AnswerInv
<1>2. TypeOK'
  BY EndStep, FaultTyped DEF TypeOK, files
<1> QED
  BY <1>1, <1>2, EndStep, InvNext

LEMMA WriteProfileStep ==
  ASSUME Inv, NEW p \in Process, WriteProfile(p)
  PROVE  Inv'
<1> USE InvParts
<1>1. lock = p /\ call[p] \in Call /\ CallInv(call[p]) /\ call[p].at = "profile"
  BY Holder DEF WriteProfile, At
<1>2. CASE End(p) /\ Fault /\ UNCHANGED profile
  BY <1>1, <1>2, RaiseStep DEF WriteProfile, files
<1>3. CASE /\ profile' = [profile EXCEPT ![call[p].id] = call[p].new]
           /\ Continue(p, "profile-sync") /\ UNCHANGED counters
  <2>1. PICK i \in Id, new \in Profile :
          /\ i = call[p].id /\ new = call[p].new
          /\ i \in minted
          /\ \/ /\ \A s \in Source : identity[s] # i
                /\ \A j \in Id : profile[j].source # new.source
             \/ Exists(i) /\ new.source = profile[i].source
    BY <1>1 DEF CallInv, Unborn, OneField, Call, FilesInv, MintedInv
  <2>2. PICK c : c = [call[p] EXCEPT !.at = "profile-sync"]
    OBVIOUS
  <2>3. profile' = [profile EXCEPT ![i] = new]
    BY <1>3, <2>1
  <2>4. new # NoProfile
    BY NoneAssumption DEF Profile, NoProfile
  <2>5. /\ profile' \in [Id -> Profile \cup {NoProfile}]
        /\ \A j \in Id : Exists(j)' <=> j = i \/ Exists(j)
    BY <2>3, <2>4 DEF TypeOK, Exists
  <2>6. CallInv(c)'
    <3>1. c.at = "profile-sync" /\ c.op = call[p].op /\ c.id = i /\ c.source = call[p].source
      BY <1>1, <2>1, <2>2 DEF Call
    <3>2. CASE c.op = "edit"
      BY <3>1, <3>2 DEF CallInv
    <3>3. CASE c.op # "edit"
      <4>1. Unborn(call[p]) /\ c.op = "initialize"
        BY <1>1, <3>1, <3>3 DEF CallInv
      <4>2. profile'[i] = new /\ identity' = identity
        BY <2>3 DEF WriteProfile, TypeOK
      <4>3. c.source \in Source /\ new.source = c.source /\ identity[c.source] = None
        BY <2>1, <3>1, <4>1 DEF Unborn
      <4>4. Unindexed(c)'
        BY <2>5, <3>1, <4>2, <4>3 DEF Unindexed
      <4> QED
        BY <3>1, <4>1, <4>4 DEF CallInv
    <3> QED
      BY <3>2, <3>3
  <2>7. FilesInv'
    <3>1. UNCHANGED <<identity, minted, answered, faults>>
      BY <1>3 DEF WriteProfile, counters
    <3>2. MintedInv' /\ AnswerInv' /\ CrashesAreRepaired'
      BY <2>1, <2>5, <3>1 DEF FilesInv, MintedInv, AnswerInv, CrashesAreRepaired,
         IdentityResolves, Leads
    <3>3. OneProfilePerSource'
      BY <2>1, <2>3, <2>5 DEF FilesInv, OneProfilePerSource, TypeOK
    <3>4. ProvenanceKept'
      BY <2>1, <2>3, <2>5, <3>1 DEF FilesInv, ProvenanceKept, Leads, TypeOK
    <3> QED
      BY <3>2, <3>3, <3>4 DEF FilesInv
  <2>8. CallsInv' /\ call' \in [Process -> Call \cup {NoCall}] /\ lock' \in Process \cup {None}
    BY <1>1, <1>3, <2>2, <2>6, ContinueStep
  <2>9. TypeOK'
    BY <1>3, <2>5, <2>8 DEF TypeOK, WriteProfile, counters
  <2> QED
    BY <2>7, <2>8, <2>9, InvNext
<1> QED
  BY <1>2, <1>3 DEF WriteProfile

LEMMA SyncProfileStep ==
  ASSUME Inv, NEW p \in Process, SyncProfile(p)
  PROVE  Inv'
<1> USE InvParts
<1>1. lock = p /\ call[p] \in Call /\ CallInv(call[p]) /\ call[p].at = "profile-sync"
  BY Holder DEF SyncProfile, At
<1>2. CASE End(p) /\ Fault
  BY <1>1, <1>2, RaiseStep DEF SyncProfile
<1>3. CASE /\ IF call[p].op = "initialize" THEN Continue(p, "identity") ELSE End(p)
           /\ UNCHANGED counters
  <2>1. FilesInv'
    BY <1>3, FilesKept DEF SyncProfile, counters, FilesInv, AnswerInv
  <2>2. CallsInv' /\ call' \in [Process -> Call \cup {NoCall}] /\ lock' \in Process \cup {None}
    <3>1. CASE call[p].op # "initialize"
      BY <1>1, <1>3, <3>1, EndStep
    <3>2. CASE call[p].op = "initialize"
      <4>1. PICK c : c = [call[p] EXCEPT !.at = "identity"]
        OBVIOUS
      <4>2. c.at = "identity" /\ c.op = "initialize" /\ c.id = call[p].id /\ c.source = call[p].source
        BY <1>1, <3>2, <4>1 DEF Call
      <4>3. Unindexed(call[p])
        BY <1>1, <3>2 DEF CallInv
      <4>4. Unindexed(c)'
        BY <4>2, <4>3 DEF Unindexed, SyncProfile, files, Exists
      <4>5. CallInv(c)'
        BY <4>2, <4>4 DEF CallInv
      <4> QED
        BY <1>1, <1>3, <3>2, <4>1, <4>5, ContinueStep
    <3> QED
      BY <3>1, <3>2
  <2>3. TypeOK'
    BY <1>3, <2>2 DEF TypeOK, SyncProfile, files, counters
  <2> QED
    BY <2>1, <2>2, <2>3, InvNext
<1> QED
  BY <1>2, <1>3 DEF SyncProfile

\* The identity file could not be written, or could not be synced.
LEMMA IdentityRaisesStep ==
  ASSUME Inv, NEW p \in Process, call[p].at # "idle", IdentityRaises(p),
         UNCHANGED <<files, minted, present, answered>>
  PROVE  Inv'
<1> USE InvParts
<1>1. CASE call[p].op # "initialize"
  BY <1>1, RaiseStep DEF IdentityRaises
<1>2. CASE call[p].op = "initialize"
  <2>1. Continue(p, "undo") /\ Fault
    BY <1>2 DEF IdentityRaises
  <2>2. FilesInv'
    BY <2>1, FilesKept, FaultTyped DEF FilesInv, AnswerInv
  <2>3. PICK c : c = [call[p] EXCEPT !.at = "undo"]
    OBVIOUS
  <2>4. CallInv(c)'
    BY <2>1, <2>3, Holder, FaultTyped DEF CallInv, Call
  <2>5. CallsInv' /\ call' \in [Process -> Call \cup {NoCall}] /\ lock' \in Process \cup {None}
    BY <2>1, <2>3, <2>4, ContinueStep
  <2>6. TypeOK'
    BY <2>1, <2>5, FaultTyped DEF TypeOK, files
  <2> QED
    BY <2>2, <2>5, <2>6, InvNext
<1> QED
  BY <1>1, <1>2

LEMMA WriteIdentityStep ==
  ASSUME Inv, NEW p \in Process, WriteIdentity(p)
  PROVE  Inv'
<1> USE InvParts
<1>1. lock = p /\ call[p] \in Call /\ CallInv(call[p]) /\ call[p].at = "identity"
  BY Holder DEF WriteIdentity, At
<1>2. CASE IdentityRaises(p) /\ UNCHANGED <<identity, answered>>
  BY <1>1, <1>2, IdentityRaisesStep DEF WriteIdentity, files
<1>3. CASE /\ identity' = [identity EXCEPT ![call[p].source] = call[p].id]
           /\ answered' = IF call[p].op = "link"
                          THEN [answered EXCEPT ![call[p].source] = {}] ELSE answered
           /\ Continue(p, "identity-sync") /\ UNCHANGED counters
  <2>1. PICK i \in Id, s \in Source :
          /\ i = call[p].id /\ s = call[p].source /\ Exists(i)
          /\ RemoteOf[profile[i].source] = RemoteOf[s]
          /\ call[p].op # "link" => identity[s] = None
    BY <1>1 DEF CallInv, Unindexed, Related, Call
  <2>2. PICK c : c = [call[p] EXCEPT !.at = "identity-sync"]
    OBVIOUS
  <2>3. identity' = [identity EXCEPT ![s] = i]
    BY <1>3, <2>1
  <2>4. UNCHANGED <<profile, minted, present, faults>>
    BY <1>3 DEF WriteIdentity, counters
  <2>5. answered' \in [Source -> SUBSET Id] /\ AnswerInv'
    <3>1. \A t \in Source : answered[t] \subseteq Id \cap {identity[t]}
      BY DEF TypeOK, FilesInv, AnswerInv
    <3>2. CASE call[p].op = "link"
      <4>1. answered' = [answered EXCEPT ![s] = {}]
        BY <1>3, <2>1, <3>2
      <4> QED
        BY <2>3, <3>1, <4>1 DEF TypeOK, AnswerInv
    <3>3. CASE call[p].op # "link"
      <4>1. answered' = answered /\ identity[s] = None
        BY <1>3, <2>1, <3>3
      <4>2. answered[s] = {}
        BY <3>1, <4>1, NoneAssumption
      <4> QED
        BY <2>3, <3>1, <4>1, <4>2 DEF TypeOK, AnswerInv
    <3> QED
      BY <3>2, <3>3
  <2>6. FilesInv'
    <3>1. MintedInv'
      BY <2>1, <2>3, <2>4 DEF FilesInv, MintedInv, TypeOK, Exists
    <3>2. OneProfilePerSource'
      BY <2>4 DEF FilesInv, OneProfilePerSource, Exists
    <3>3. ProvenanceKept'
      BY <2>1, <2>3, <2>4 DEF FilesInv, ProvenanceKept, Leads, Exists, TypeOK
    <3>4. CrashesAreRepaired'
      BY <2>1, <2>3, <2>4 DEF FilesInv, CrashesAreRepaired, IdentityResolves, Leads, Exists, TypeOK
    <3> QED
      BY <2>5, <3>1, <3>2, <3>3, <3>4 DEF FilesInv
  <2>7. CallInv(c)'
    <3>1. c.at = "identity-sync" /\ c.id = i /\ c.source = s
      BY <1>1, <2>1, <2>2 DEF Call
    <3> QED
      BY <2>3, <3>1 DEF CallInv, TypeOK
  <2>8. CallsInv' /\ call' \in [Process -> Call \cup {NoCall}] /\ lock' \in Process \cup {None}
    BY <1>1, <1>3, <2>2, <2>7, ContinueStep
  <2>9. identity' \in [Source -> Id \cup {None}]
    BY <2>3 DEF TypeOK
  <2>10. TypeOK'
    BY <1>3, <2>4, <2>5, <2>8, <2>9 DEF TypeOK, counters
  <2> QED
    BY <2>6, <2>8, <2>10, InvNext
<1> QED
  BY <1>2, <1>3 DEF WriteIdentity

LEMMA SyncIdentityStep ==
  ASSUME Inv, NEW p \in Process, SyncIdentity(p)
  PROVE  Inv'
<1> USE InvParts
<1>1. lock = p /\ call[p] \in Call /\ CallInv(call[p]) /\ call[p].at = "identity-sync"
  BY Holder DEF SyncIdentity, At
<1>2. CASE IdentityRaises(p) /\ UNCHANGED answered
  BY <1>1, <1>2, IdentityRaisesStep DEF SyncIdentity, files
<1>3. CASE End(p) /\ Fault /\ UNCHANGED answered
  BY <1>1, <1>3, RaiseStep DEF SyncIdentity
<1>4. CASE /\ answered' = [answered EXCEPT ![call[p].source] = @ \cup {call[p].id}]
           /\ End(p) /\ UNCHANGED counters
  <2>1. PICK i \in Id, s \in Source : i = call[p].id /\ s = call[p].source /\ identity[s] = i
    BY <1>1 DEF CallInv, Call
  <2>2. answered' = [answered EXCEPT ![s] = @ \cup {i}]
    BY <1>4, <2>1
  <2>3. \A t \in Source : answered'[t] \subseteq {identity[t]}
    BY <2>1, <2>2 DEF FilesInv, AnswerInv, TypeOK
  <2>4. FilesInv'
    BY <1>4, <2>3, FilesKept DEF SyncIdentity, counters
  <2>5. CallsInv' /\ call' \in [Process -> Call \cup {NoCall}] /\ lock' \in Process \cup {None}
    BY <1>1, <1>4, EndStep
  <2>6. answered' \in [Source -> SUBSET Id]
    BY <2>2 DEF TypeOK
  <2>7. TypeOK'
    BY <1>4, <2>5, <2>6 DEF TypeOK, SyncIdentity, files, counters
  <2> QED
    BY <2>4, <2>5, <2>7, InvNext
<1> QED
  BY <1>2, <1>3, <1>4 DEF SyncIdentity

LEMMA UndoStep ==
  ASSUME Inv, NEW p \in Process, Undo(p)
  PROVE  Inv'
<1> USE InvParts
<1>1. lock = p /\ call[p] \in Call /\ CallInv(call[p]) /\ call[p].at = "undo"
  BY Holder DEF Undo, At
<1>2. faults > 0 /\ faults \in Nat
  BY <1>1, BoundAssumption DEF CallInv, TypeOK
<1>3. CASE Fault /\ UNCHANGED profile
  BY <1>1, <1>3, RaiseStep DEF Undo, files
<1>4. CASE profile' = [profile EXCEPT ![call[p].id] = NoProfile] /\ UNCHANGED counters
  <2>1. PICK i \in Id : i = call[p].id
    BY <1>1 DEF Call
  <2>2. profile' = [profile EXCEPT ![i] = NoProfile]
    BY <1>4, <2>1
  <2>3. \A j \in Id : Exists(j)' => Exists(j) /\ profile'[j] = profile[j]
    BY <2>2 DEF Exists, TypeOK
  <2>4. FilesInv'
    BY <1>2, <1>4, <2>3 DEF Undo, counters, FilesInv, MintedInv, AnswerInv, OneProfilePerSource,
       ProvenanceKept, CrashesAreRepaired, Leads
  <2>5. CallsInv' /\ call' \in [Process -> Call \cup {NoCall}] /\ lock' \in Process \cup {None}
    BY <1>1, EndStep DEF Undo
  <2>6. TypeOK'
    BY <1>4, <2>2, <2>5 DEF TypeOK, Undo, counters
  <2> QED
    BY <2>4, <2>5, <2>6, InvNext
<1> QED
  BY <1>3, <1>4 DEF Undo

LEMMA CrashStep ==
  ASSUME Inv, NEW p \in Process, Crash(p)
  PROVE  Inv'
<1> USE InvParts
<1>1. FilesInv'
  BY FilesKept DEF Crash, FilesInv, AnswerInv
<1>2. CallsInv' /\ call' \in [Process -> Call \cup {NoCall}] /\ lock' \in Process \cup {None}
  BY EndStep DEF Crash, At
<1>3. TypeOK'
  BY <1>2, BoundAssumption DEF TypeOK, Crash, files
<1> QED
  BY <1>1, <1>2, <1>3, InvNext

LEMMA CloneMovesStep ==
  ASSUME Inv, NEW s \in Source, CloneMoves(s)
  PROVE  Inv'
<1> USE InvParts
<1>1. FilesInv'
  BY FilesKept DEF CloneMoves, counters, FilesInv, AnswerInv
<1>2. CallsInv'
  BY DEF CloneMoves, CallsInv, LockInv, CallInv, Unborn, OneField, Unindexed, Related, Exists, files,
         counters
<1>3. TypeOK'
  BY DEF TypeOK, CloneMoves, files, counters
<1> QED
  BY <1>1, <1>2, <1>3, InvNext

-----------------------------------------------------------------------------
LEMMA Start == Init => Inv
  BY NoneAssumption, BoundAssumption DEF Init, Inv, TypeOK, LockInv, MintedInv, AnswerInv, CallInv,
     NoCall, OneProfilePerSource, ProvenanceKept, CrashesAreRepaired, IdentityResolves, Leads, Exists

LEMMA Step == Inv /\ [Next]_vars => Inv'
<1> SUFFICES ASSUME Inv, [Next]_vars PROVE Inv'
  OBVIOUS
<1>1. ASSUME NEW p \in Process, NEW i \in Id, NEW settings \in Settings, Edit(p, i, settings)
     PROVE  Inv'
  <2>1. PICK new : new = [profile[i] EXCEPT !.settings = settings]
    OBVIOUS
  <2>2. Exists(i) /\ profile[i] \in Profile
    BY <1>1, ExistingTyped, InvParts DEF Edit, Loads
  <2>3. /\ new \in Profile
        /\ new.source = profile[i].source /\ new.token = profile[i].token
    BY <2>1, <2>2 DEF Profile
  <2> QED
    BY <1>1, <2>1, <2>2, <2>3, EditStep DEF Edit
<1>2. ASSUME NEW p \in Process, NEW i \in Id, NEW token \in Token, RotateToken(p, i, token)
     PROVE  Inv'
  <2>1. PICK new : new = Rotated(i, token)
    OBVIOUS
  <2>2. Exists(i) /\ profile[i] \in Profile
    BY <1>2, ExistingTyped, InvParts DEF RotateToken, Loads
  <2>3. /\ new \in Profile
        /\ new.source = profile[i].source /\ new.settings = profile[i].settings
    BY <2>1, <2>2 DEF Profile, Rotated
  <2> QED
    BY <1>2, <2>1, <2>2, <2>3, EditStep DEF RotateToken
<1>3. CASE UNCHANGED vars
  BY <1>3 DEF vars, files, counters, Inv, TypeOK, LockInv, MintedInv, AnswerInv, CallInv, Unborn,
     OneField, Unindexed, Related, OneProfilePerSource, ProvenanceKept, CrashesAreRepaired,
     IdentityResolves, Leads, Exists
<1> QED
  BY <1>1, <1>2, <1>3, InitializeStep, RecoverStep, AnswerStep, LinkStep, WriteProfileStep,
     SyncProfileStep, WriteIdentityStep, SyncIdentityStep, UndoStep, CrashStep,
     CloneMovesStep DEF Next

\* The invariant behind the theorems below.
THEOREM Invariance == Spec => []Inv
  BY Start, Step, PTL DEF Spec

\* Every variable has its type.
THEOREM StoreTypeCorrect == Spec => []TypeOK
<1>1. Inv => TypeOK
  BY DEF Inv
<1> QED
  BY <1>1, Invariance, PTL

\* initialize never gives a clone a second profile, whatever raised or crashed
\* before (_resolve, _matching_profiles).
THEOREM ProfilesAreUnique == Spec => []OneProfilePerSource
<1>1. Inv => OneProfilePerSource
  BY DEF Inv
<1> QED
  BY <1>1, Invariance, PTL

\* initialize and reuse agree about a clone until it is linked again.
THEOREM AnswersDoAgree == Spec => []AnswersAgree
<1>1. Inv => AnswersAgree
  BY DEF Inv, AnswerInv, AnswersAgree, TypeOK
<1> QED
  BY <1>1, Invariance, PTL

\* Only clones of one remote share a profile (link, _resolve).
THEOREM ProvenanceIsKept == Spec => []ProvenanceKept
<1>1. Inv => ProvenanceKept
  BY DEF Inv
<1> QED
  BY <1>1, Invariance, PTL

\* Crashes alone never leave an identity file without its profile.
THEOREM CrashesDoNoHarm == Spec => []CrashesAreRepaired
<1>1. Inv => CrashesAreRepaired
  BY DEF Inv
<1> QED
  BY <1>1, Invariance, PTL

\* No edit takes back a rotation of the token, nor the other way round.
THEOREM NoUpdateIsLost == Spec => NoLostUpdate
<1> DEFINE Kept == \A i \in Id :
       /\ Exists(i) /\ Exists(i)' /\ profile'[i] # profile[i]
       => /\ profile'[i].source = profile[i].source
          /\ \/ profile'[i].settings = profile[i].settings
             \/ profile'[i].token = profile[i].token
<1>1. Inv /\ [Next]_vars => [Kept]_vars
  <2> SUFFICES ASSUME Inv, Next, NEW i \in Id, Exists(i), Exists(i)', profile'[i] # profile[i]
               PROVE  /\ profile'[i].source = profile[i].source
                      /\ \/ profile'[i].settings = profile[i].settings
                         \/ profile'[i].token = profile[i].token
    OBVIOUS
  <2>1. TypeOK /\ CallsInv
    BY InvParts
  <2>2. CASE profile' = profile
    BY <2>2
  <2>3. ASSUME NEW p \in Process, WriteProfile(p), profile' # profile
       PROVE  OneField(call[p]) /\ call[p].id = i /\ profile'[i] = call[p].new
    <3>1. CallInv(call[p]) /\ call[p].at = "profile" /\ call[p] \in Call
      BY <2>1, <2>3, Holder DEF WriteProfile, At
    <3>2. profile' = [profile EXCEPT ![call[p].id] = call[p].new]
      BY <2>3 DEF WriteProfile
    <3>3. call[p].id = i /\ profile'[i] = call[p].new
      BY <2>1, <3>1, <3>2 DEF TypeOK, Call
    <3> QED
      BY <3>1, <3>3 DEF CallInv, Unborn
  <2>4. ASSUME NEW p \in Process, Undo(p), profile' # profile PROVE FALSE
    <3>1. call[p] \in Call
      BY <2>1, <2>4, Holder DEF Undo, At
    <3>2. profile' = [profile EXCEPT ![call[p].id] = NoProfile]
      BY <2>4 DEF Undo
    <3> QED
      BY <2>1, <3>1, <3>2 DEF TypeOK, Exists, Call
  <2>5. \/ profile' = profile
        \/ \E p \in Process : WriteProfile(p)
        \/ \E p \in Process : Undo(p)
    BY DEF Next, Initialize, Recover, Answer, Edit, RotateToken, Link, SyncProfile, WriteIdentity,
       SyncIdentity, Crash, CloneMoves, files
  <2> QED
    BY <2>2, <2>3, <2>4, <2>5 DEF OneField
<1> QED
  BY <1>1, Invariance, PTL DEF Spec, NoLostUpdate

-----------------------------------------------------------------------------
(* OwnInv is inductive.                                                    *)

\* Only the holder of the lock has a call.
LEMMA OwnOfHolder ==
  ASSUME Inv', NEW p \in Process, lock' \in {None, p}, Own(call[p])'
  PROVE  OwnInv'
<1> SUFFICES ASSUME NEW q \in Process
             PROVE  Own(call[q])'
  BY DEF OwnInv
<1>1. CASE q = p
  BY <1>1
<1>2. CASE q # p
  <2>1. call'[q].at = "idle"
    BY <1>2, NoneAssumption DEF Inv, LockInv
  <2>2. call'[q] = NoCall
    BY <2>1 DEF Inv, TypeOK, Call
  <2> QED
    BY <2>2 DEF Own, NoCall, None
<1> QED
  BY <1>1, <1>2

LEMMA OwnEnds ==
  ASSUME Inv, Inv', NEW p \in Process, End(p)
  PROVE  OwnInv'
<1>1. call'[p] = NoCall /\ lock' = None
  BY DEF End, Inv, TypeOK
<1>2. Own(call[p])'
  BY <1>1 DEF Own, NoCall, None
<1> QED
  BY <1>1, <1>2, OwnOfHolder

LEMMA OwnBegins ==
  ASSUME Inv, Inv', NEW p \in Process, NEW at, NEW op, NEW s, NEW i, NEW new,
         Begin(p, at, op, s, i, new),
         at = "profile" \/ (at = "identity" /\ op # "initialize")
  PROVE  OwnInv'
<1>1. call'[p] = [at |-> at, op |-> op, source |-> s, id |-> i, new |-> new] /\ lock' = p
  BY DEF Begin, Inv, TypeOK
<1>2. Own(call[p])'
  BY <1>1 DEF Own
<1> QED
  BY <1>1, <1>2, OwnOfHolder

\* The call goes on: what it is about stays.
LEMMA Goes ==
  ASSUME Inv, NEW p \in Process, call[p].at # "idle", NEW at, Continue(p, at)
  PROVE  /\ call'[p].at = at /\ lock' = p
         /\ call'[p].op = call[p].op
         /\ call'[p].source = call[p].source
         /\ call'[p].id = call[p].id
<1>1. lock = p /\ call[p] \in Call
  BY Holder, InvParts
<1>2. call'[p] = [call[p] EXCEPT !.at = at]
  BY DEF Continue, Inv, TypeOK
<1> QED
  BY <1>1, <1>2 DEF Continue, Call

\* The files and the answers as they are, the call past its first write.
LEMMA OwnGoesOn ==
  ASSUME Inv, Inv', OwnInv, NEW p \in Process, call[p].at \notin {"idle", "profile"},
         NEW at, at = "identity" \/ (at = "undo" /\ call[p].op = "initialize"),
         Continue(p, at), UNCHANGED <<files, answered>>
  PROVE  OwnInv'
<1>1. Own(call[p])
  BY DEF OwnInv
<1>2. Own(call[p])'
  BY <1>1, Goes DEF Own, files, Exists
<1> QED
  BY <1>2, Goes, OwnOfHolder

LEMMA OwnIdentityRaises ==
  ASSUME Inv, Inv', OwnInv, NEW p \in Process, call[p].at \in {"identity", "identity-sync"},
         IdentityRaises(p), UNCHANGED <<files, answered>>
  PROVE  OwnInv'
<1>1. CASE Continue(p, "undo") /\ call[p].op = "initialize"
  BY <1>1, OwnGoesOn
<1>2. CASE End(p)
  BY <1>2, OwnEnds
<1> QED
  BY <1>1, <1>2 DEF IdentityRaises

LEMMA OwnWriteProfile ==
  ASSUME Inv, Inv', NEW p \in Process, WriteProfile(p)
  PROVE  OwnInv'
<1>1. lock = p /\ call[p] \in Call /\ CallInv(call[p]) /\ call[p].at = "profile"
  BY Holder, InvParts DEF WriteProfile, At
<1>2. CASE End(p)
  BY <1>2, OwnEnds
<1>3. CASE /\ profile' = [profile EXCEPT ![call[p].id] = call[p].new]
           /\ Continue(p, "profile-sync")
  <2> DEFINE c == call[p]
  <2>1. /\ call'[p].at = "profile-sync" /\ lock' = p
        /\ call'[p].op = c.op /\ call'[p].source = c.source /\ call'[p].id = c.id
    BY <1>1, <1>3, Goes
  <2>2. CASE c.op # "initialize"
    BY <2>1, <2>2, OwnOfHolder DEF Own
  <2>3. CASE c.op = "initialize"
    <3>1. Unborn(c) /\ c.id \in Id
      BY <1>1, <2>3 DEF CallInv, Call
    <3>2. profile'[c.id].source = c.source
      BY <1>3, <3>1 DEF Unborn, Inv, TypeOK
    <3>3. answered[c.source] = {}
      BY <3>1, NoneAssumption DEF Unborn, Inv, AnswerInv, TypeOK
    <3>4. identity' = identity /\ answered' = answered
      BY DEF WriteProfile
    <3>5. Own(call[p])'
      BY <2>1, <3>1, <3>2, <3>3, <3>4 DEF Own, Unborn
    <3> QED
      BY <2>1, <3>5, OwnOfHolder
  <2> QED
    BY <2>2, <2>3
<1> QED
  BY <1>2, <1>3 DEF WriteProfile

LEMMA OwnWriteIdentity ==
  ASSUME Inv, Inv', OwnInv, NEW p \in Process, WriteIdentity(p)
  PROVE  OwnInv'
<1>1. lock = p /\ call[p] \in Call /\ CallInv(call[p]) /\ call[p].at = "identity"
  BY Holder, InvParts DEF WriteIdentity, At
<1>2. CASE IdentityRaises(p) /\ UNCHANGED <<identity, answered>>
  BY <1>1, <1>2, OwnIdentityRaises DEF WriteIdentity, files
<1>3. CASE /\ identity' = [identity EXCEPT ![call[p].source] = call[p].id]
           /\ answered' = IF call[p].op = "link"
                          THEN [answered EXCEPT ![call[p].source] = {}] ELSE answered
           /\ Continue(p, "identity-sync")
  <2> DEFINE c == call[p]
  <2>1. /\ call'[p].at = "identity-sync" /\ lock' = p
        /\ call'[p].op = c.op /\ call'[p].source = c.source /\ call'[p].id = c.id
    BY <1>1, <1>3, Goes
  <2>2. Exists(c.id) /\ profile' = profile
    BY <1>1 DEF CallInv, Unindexed, Related, WriteIdentity
  <2>3. CASE c.op # "initialize"
    <3>1. Own(call[p])'
      BY <2>1, <2>2, <2>3 DEF Own, Exists
    <3> QED
      BY <2>1, <3>1, OwnOfHolder
  <2>4. CASE c.op = "initialize"
    <3>1. Own(c)
      BY DEF OwnInv
    <3>2. /\ c.source \in Source /\ profile[c.id].source = c.source
          /\ \A s \in Source \ {c.source} : identity[s] # c.id
          /\ answered[c.source] = {}
      BY <1>1, <2>4, <3>1 DEF Own
    <3>3. identity'[c.source] = c.id /\ \A s \in Source \ {c.source} : identity'[s] = identity[s]
      BY <1>3, <3>2 DEF Inv, TypeOK
    <3>4. answered' = answered
      BY <1>3, <2>4
    <3>5. Own(call[p])'
      BY <2>1, <2>2, <3>2, <3>3, <3>4 DEF Own, Exists
    <3> QED
      BY <2>1, <3>5, OwnOfHolder
  <2> QED
    BY <2>3, <2>4
<1> QED
  BY <1>2, <1>3 DEF WriteIdentity

LEMMA OwnStep ==
  ASSUME Inv, Inv', OwnInv, [Next]_vars
  PROVE  OwnInv'
<1>1. CASE UNCHANGED <<files, call, answered>>
  BY <1>1 DEF OwnInv, Own, files, Exists
<1>2. ASSUME NEW s \in Source, NEW i \in Id, Answer(s, i)
      PROVE  OwnInv'
  <2>1. \A q \in Process : call'[q] = NoCall
    BY <1>2, NoneAssumption DEF Answer, Unlocked, Inv, LockInv, TypeOK, Call
  <2> QED
    BY <2>1 DEF OwnInv, Own, NoCall, None
<1>3. ASSUME NEW p \in Process, SyncProfile(p)
      PROVE  OwnInv'
  BY <1>3, OwnEnds, OwnGoesOn DEF SyncProfile, At
<1>4. ASSUME NEW p \in Process, SyncIdentity(p)
      PROVE  OwnInv'
  BY <1>4, OwnEnds, OwnIdentityRaises DEF SyncIdentity, At
<1>5. ASSUME NEW p \in Process, Undo(p) \/ Crash(p)
      PROVE  OwnInv'
  BY <1>5, OwnEnds DEF Undo, Crash
<1>6. ASSUME NEW p \in Process, NEW i \in Id,
             \/ \E settings \in Settings : Edit(p, i, settings)
             \/ \E token \in Token : RotateToken(p, i, token)
      PROVE  OwnInv'
  BY <1>6, OwnBegins DEF Edit, RotateToken
<1>7. ASSUME NEW p \in Process, NEW s \in Source, NEW i \in Id, NEW new \in Profile,
             Initialize(p, s, i, new)
      PROVE  OwnInv'
  <2>1. Begin(p, "profile", "initialize", s, i, new)
    BY <1>7 DEF Initialize
  <2> QED
    BY <2>1, OwnBegins
<1>10. ASSUME NEW p \in Process, NEW s \in Source, NEW i \in Id, Recover(p, s, i) \/ Link(p, s, i)
       PROVE  OwnInv'
  BY <1>10, OwnBegins DEF Recover, Link
<1>8. ASSUME NEW s \in Source, CloneMoves(s)
      PROVE  OwnInv'
  BY <1>1, <1>8 DEF CloneMoves
<1>9. CASE UNCHANGED vars
  BY <1>1, <1>9 DEF vars
<1> QED
  BY <1>2, <1>3, <1>4, <1>5, <1>6, <1>7, <1>8, <1>9, <1>10, OwnWriteProfile, OwnWriteIdentity
     DEF Next

-----------------------------------------------------------------------------
(* Where the clones lead.                                                  *)

LEMMA LeadsAreRight == Inv => LeadsRight
<1> SUFFICES ASSUME Inv, NEW s \in Source
             PROVE  /\ LeadsOf[s] \in Id \cup {None}
                    /\ identity[s] # None => LeadsOf[s] = identity[s]
                    /\ identity[s] = None => \A i \in Id : LeadsOf[s] = i <=> profile[i].source = s
  BY DEF LeadsRight
<1>1. LeadsOf[s] = LeadsTo(s)
  BY DEF LeadsOf
<1>2. CASE identity[s] # None
  BY <1>1, <1>2 DEF LeadsTo, Inv, TypeOK
<1>3. CASE identity[s] = None /\ Matches(s) = {}
  BY <1>1, <1>3, NoneAssumption DEF LeadsTo, Matches
<1>4. ASSUME identity[s] = None, NEW i \in Matches(s)
      PROVE  LeadsTo(s) = i /\ \A j \in Id : profile[j].source = s => j = i
  <2>1. \A j \in Matches(s) : Exists(j)
    BY NoneAssumption DEF Matches, Exists, NoProfile
  <2>2. \A j \in Matches(s) : j = i
    BY <2>1 DEF Matches, Inv, OneProfilePerSource
  <2>3. Matches(s) = {i}
    BY <2>2
  <2> QED
    BY <1>4, <2>2, <2>3 DEF LeadsTo, Matches
<1>5. CASE identity[s] = None /\ Matches(s) # {}
  <2>1. PICK i \in Matches(s) : TRUE
    BY <1>5
  <2>2. i \in Id /\ profile[i].source = s
    BY DEF Matches
  <2> QED
    BY <1>1, <1>4, <1>5, <2>1, <2>2
<1> QED
  BY <1>2, <1>3, <1>5

\* A clone whose file and whose own profile stay leads where it led.
LEMMA SameLeads ==
  ASSUME LeadsRight, LeadsRight', NEW s \in Source, identity'[s] = identity[s],
         \A i \in Id : profile'[i].source = s <=> profile[i].source = s
  PROVE  LeadsOf'[s] = LeadsOf[s]
  BY NoneAssumption DEF LeadsRight

\* A step that touches no file.
LEMMA LeadsKept == UNCHANGED files => UNCHANGED LeadsOf
  BY DEF LeadsOf, LeadsTo, Matches, files

LEMMA LeadsEqual ==
  ASSUME NEW f, f \in [Source -> Id \cup {None}], \A s \in Source : LeadsOf'[s] = f[s]
  PROVE  LeadsOf' = f
  BY DEF LeadsOf

LEMMA LeadsTyped == LeadsRight => LeadsOf \in [Source -> Id \cup {None}]
<1>1. LeadsOf = [s \in Source |-> LeadsOf[s]]
  BY DEF LeadsOf
<1> QED
  BY <1>1 DEF LeadsRight

-----------------------------------------------------------------------------
(* Every step of the store is a step of the registry, or none.             *)

\* initialize shows its profile with the first of its two writes.
LEMMA RegisterStep ==
  ASSUME MapInv, MapInv', NEW p \in Process, WriteProfile(p), profile' # profile,
         call[p].op = "initialize"
  PROVE  Abstract!Next
<1> DEFINE s == call[p].source
           i == call[p].id
           new == call[p].new
<1>1. call[p] \in Call /\ Unborn(call[p])
  BY Holder, InvParts DEF MapInv, WriteProfile, At, CallInv
<1>2. /\ s \in Source /\ i \in Id /\ new \in Profile /\ new.source = s
      /\ profile[i] = NoProfile
      /\ \A u \in Source : identity[u] # i
      /\ \A j \in Id : profile[j].source # s
      /\ identity[s] = None
  BY <1>1 DEF Unborn, Exists, Call
<1> HIDE DEF s, i, new
<1>3. profile' = [profile EXCEPT ![i] = new] /\ identity' = identity /\ answered' = answered
  BY DEF WriteProfile, i, new
<1>4. LeadsRight /\ LeadsRight' /\ LeadsOf \in [Source -> Id \cup {None}]
  BY LeadsTyped DEF MapInv
<1>5. LeadsOf[s] = None
  BY <1>2, <1>4 DEF LeadsRight
<1>6. \A u \in Source : LeadsOf[u] # i
  BY <1>2, <1>4, NoneAssumption DEF LeadsRight, NoProfile
<1>7. LeadsOf' = [LeadsOf EXCEPT ![s] = i]
  <2>1. profile'[i].source = s /\ \A j \in Id \ {i} : profile'[j] = profile[j]
    BY <1>2, <1>3 DEF MapInv, Inv, TypeOK
  <2>2. LeadsOf'[s] = i
    BY <1>2, <1>3, <1>4, <2>1 DEF LeadsRight
  <2>3. ASSUME NEW u \in Source \ {s}
        PROVE  LeadsOf'[u] = LeadsOf[u]
    <3>1. profile[i].source # u
      BY <1>2, NoneAssumption DEF NoProfile
    <3> QED
      BY <1>3, <1>4, <2>1, <3>1, SameLeads
  <2>4. \A u \in Source : LeadsOf'[u] = [LeadsOf EXCEPT ![s] = i][u]
    BY <1>4, <2>2, <2>3
  <2>5. [LeadsOf EXCEPT ![s] = i] \in [Source -> Id \cup {None}]
    BY <1>2, <1>4
  <2> QED
    BY <2>4, <2>5, LeadsEqual
<1>8. Abstract!Register(s, i)
  BY <1>2, <1>3, <1>5, <1>6, <1>7 DEF Abstract!Register, Abstract!Fresh, Abstract!Missing,
     Abstract!Entry, NoProfile, Profile
<1> QED
  BY <1>2, <1>8 DEF Abstract!Next

\* edit, reset and rotate_token.
LEMMA ChangeStep ==
  ASSUME MapInv, MapInv', NEW p \in Process, WriteProfile(p), profile' # profile,
         call[p].op # "initialize"
  PROVE  Abstract!Next
<1> DEFINE i == call[p].id
           new == call[p].new
<1>1. call[p] \in Call /\ OneField(call[p])
  BY Holder, InvParts DEF MapInv, WriteProfile, At, CallInv
<1>2. /\ i \in Id /\ Exists(i) /\ new \in Profile /\ profile[i] \in Profile
      /\ new.source = profile[i].source
      /\ new.settings = profile[i].settings \/ new.token = profile[i].token
  BY <1>1, ExistingTyped DEF OneField, Call, MapInv, Inv
<1> HIDE DEF i, new
<1>3. profile' = [profile EXCEPT ![i] = new] /\ identity' = identity /\ answered' = answered
  BY DEF WriteProfile, i, new
<1>4. \/ new = [profile[i] EXCEPT !.settings = new.settings]
      \/ new = [profile[i] EXCEPT !.token = new.token]
  BY <1>2 DEF Profile
<1>5. new.settings \in Settings /\ new.token \in Token
  BY <1>2 DEF Profile
<1>6. LeadsOf' = LeadsOf
  <2>1. \A j \in Id : profile'[j].source = profile[j].source
    BY <1>2, <1>3 DEF MapInv, Inv, TypeOK
  <2>2. \A s \in Source : LeadsOf'[s] = LeadsOf[s]
    BY <1>3, <2>1, SameLeads DEF MapInv
  <2> QED
    BY <2>2, LeadsTyped, LeadsEqual DEF MapInv
<1>7. Abstract!Change(i)
  <2>1. profile[i] # Abstract!Missing
    BY <1>2 DEF Exists, NoProfile, Abstract!Missing
  <2> QED
    BY <1>3, <1>4, <1>5, <1>6, <2>1 DEF Abstract!Change
<1> QED
  BY <1>2, <1>7 DEF Abstract!Next

\* The identity file of a clone with a profile of its own changes nothing that
\* could be seen; link leads the clone elsewhere.
LEMMA IdentityStep ==
  ASSUME MapInv, MapInv', NEW p \in Process, WriteIdentity(p), identity' # identity
  PROVE  Abstract!Next \/ UNCHANGED Abstract!vars
<1> DEFINE s == call[p].source
           i == call[p].id
<1>1. call[p] \in Call /\ CallInv(call[p]) /\ call[p].at = "identity"
  BY Holder, InvParts DEF MapInv, WriteIdentity, At
<1>2. /\ identity' = [identity EXCEPT ![s] = i]
      /\ answered' = IF call[p].op = "link" THEN [answered EXCEPT ![s] = {}] ELSE answered
      /\ profile' = profile
  BY DEF WriteIdentity
<1>3. s \in Source /\ i \in Id /\ Exists(i)
  BY <1>1 DEF CallInv, Unindexed, Related, Call
<1>4. /\ call[p].op = "link" => RemoteOf[profile[i].source] = RemoteOf[s]
      /\ call[p].op # "link" => identity[s] = None /\ profile[i].source = s
  BY <1>1 DEF CallInv, Unindexed, Related
<1> HIDE DEF s, i
<1>5. LeadsRight /\ LeadsRight' /\ LeadsOf \in [Source -> Id \cup {None}]
  BY LeadsTyped DEF MapInv
<1>6. LeadsOf' = [LeadsOf EXCEPT ![s] = i]
  <2>1. identity'[s] = i /\ \A u \in Source \ {s} : identity'[u] = identity[u]
    BY <1>2, <1>3 DEF MapInv, Inv, TypeOK
  <2>2. LeadsOf'[s] = i
    BY <1>3, <1>5, <2>1, NoneAssumption DEF LeadsRight
  <2>3. \A u \in Source \ {s} : LeadsOf'[u] = LeadsOf[u]
    BY <1>2, <1>5, <2>1, SameLeads
  <2>4. \A u \in Source : LeadsOf'[u] = [LeadsOf EXCEPT ![s] = i][u]
    BY <1>5, <2>2, <2>3
  <2>5. [LeadsOf EXCEPT ![s] = i] \in [Source -> Id \cup {None}]
    BY <1>3, <1>5
  <2> QED
    BY <2>4, <2>5, LeadsEqual
<1>7. CASE call[p].op = "link"
  <2>1. Abstract!Link(s, i)
    BY <1>2, <1>3, <1>4, <1>6, <1>7 DEF Abstract!Link, Abstract!Missing, Exists, NoProfile
  <2> QED
    BY <1>3, <2>1 DEF Abstract!Next
<1>8. CASE call[p].op # "link"
  <2>1. LeadsOf[s] = i
    BY <1>3, <1>4, <1>5, <1>8 DEF LeadsRight
  <2>2. LeadsOf' = LeadsOf
    BY <1>5, <1>6, <2>1
  <2> QED
    BY <1>2, <1>8, <2>2 DEF Abstract!vars
<1> QED
  BY <1>7, <1>8

\* The caller is told: by the end of its call, or at once.
LEMMA TellStep ==
  ASSUME MapInv, NEW s \in Source, NEW i \in Id, identity[s] = i, Exists(i),
         answered' = [answered EXCEPT ![s] = @ \cup {i}], UNCHANGED files
  PROVE  Abstract!Next
<1>1. LeadsOf[s] = i
  BY NoneAssumption DEF MapInv, LeadsRight
<1>2. Abstract!Tell(s, i)
  BY <1>1, LeadsKept DEF Abstract!Tell, Abstract!Missing, Exists, NoProfile, files
<1> QED
  BY <1>2 DEF Abstract!Next

\* initialize takes back what it was about to return.
LEMMA WithdrawStep ==
  ASSUME MapInv, MapInv', NEW p \in Process, Undo(p), profile' # profile
  PROVE  Abstract!Next
<1> DEFINE s == call[p].source
           i == call[p].id
<1>1. call[p] \in Call /\ call[p].at = "undo" /\ Own(call[p])
  BY Holder, InvParts DEF MapInv, OwnInv, Undo, At
<1>2. /\ s \in Source /\ i \in Id /\ profile[i].source = s
      /\ identity[s] \in {None, i}
      /\ \A u \in Source \ {s} : identity[u] # i
      /\ answered[s] = {}
  BY <1>1 DEF Own, Call
<1>3. profile' = [profile EXCEPT ![i] = NoProfile] /\ identity' = identity /\ answered' = answered
  BY DEF Undo
<1> HIDE DEF s, i
<1>4. LeadsRight /\ LeadsRight' /\ LeadsOf \in [Source -> Id \cup {None}]
  BY LeadsTyped DEF MapInv
<1>5. LeadsOf[s] = i
  BY <1>2, <1>4, NoneAssumption DEF LeadsRight
<1>6. \A u \in Source \ {s} : LeadsOf[u] # i
  BY <1>2, <1>4 DEF LeadsRight
<1>7. profile'[i] = NoProfile /\ \A j \in Id \ {i} : profile'[j] = profile[j]
  BY <1>2, <1>3 DEF MapInv, Inv, TypeOK
<1>8. \A u \in Source \ {s} : LeadsOf'[u] = LeadsOf[u]
  <2> SUFFICES ASSUME NEW u \in Source \ {s}
               PROVE  LeadsOf'[u] = LeadsOf[u]
    OBVIOUS
  <2>1. profile[i].source # u /\ profile'[i].source # u
    BY <1>2, <1>7, NoneAssumption DEF NoProfile
  <2> QED
    BY <1>3, <1>4, <1>7, <2>1, SameLeads
<1>9. LeadsOf'[s] \in {i, None}
  <2>1. CASE identity[s] = i
    BY <1>2, <1>3, <1>4, <2>1, NoneAssumption DEF LeadsRight
  <2>2. CASE identity[s] = None
    <3>1. Exists(i)
      BY <1>2, MissingTyped DEF MapInv, Inv
    <3>2. \A j \in Id : profile[j].source = s => Exists(j)
      BY <1>2, MissingTyped DEF MapInv, Inv
    <3>3. \A j \in Id : profile[j].source = s => j = i
      BY <1>2, <3>1, <3>2 DEF MapInv, Inv, OneProfilePerSource
    <3>4. profile'[i].source # s
      BY <1>2, <1>7, NoneAssumption DEF NoProfile
    <3> QED
      BY <1>2, <1>3, <1>4, <1>7, <2>2, <3>3, <3>4 DEF LeadsRight
  <2> QED
    BY <1>2, <2>1, <2>2
<1>10. LeadsOf' = [LeadsOf EXCEPT ![s] = LeadsOf'[s]]
  <2>1. \A u \in Source : LeadsOf'[u] = [LeadsOf EXCEPT ![s] = LeadsOf'[s]][u]
    BY <1>4, <1>8
  <2>2. [LeadsOf EXCEPT ![s] = LeadsOf'[s]] \in [Source -> Id \cup {None}]
    BY <1>2, <1>4, <1>9
  <2> QED
    BY <2>1, <2>2, LeadsEqual
<1>11. LeadsOf' \in {LeadsOf, [LeadsOf EXCEPT ![s] = None]}
  BY <1>4, <1>5, <1>9, <1>10
<1>12. Abstract!Withdraw(s, i)
  BY <1>2, <1>3, <1>5, <1>6, <1>11 DEF Abstract!Withdraw, Abstract!Missing, NoProfile
<1> QED
  BY <1>2, <1>12 DEF Abstract!Next

LEMMA RefinementStep ==
  ASSUME MapInv, MapInv', [Next]_vars
  PROVE  Abstract!Next \/ UNCHANGED Abstract!vars
<1>1. CASE UNCHANGED <<files, answered>>
  BY <1>1, LeadsKept DEF Abstract!vars, files
<1>2. ASSUME NEW s \in Source, NEW i \in Id, Answer(s, i)
      PROVE  Abstract!Next
  BY <1>2, TellStep DEF Answer, Resolves, Loads
<1>3. ASSUME NEW p \in Process, WriteProfile(p), ~ UNCHANGED <<files, answered>>
      PROVE  Abstract!Next
  <2>1. profile' # profile
    BY <1>3 DEF WriteProfile, files
  <2> QED
    BY <1>3, <2>1, RegisterStep, ChangeStep
<1>4. ASSUME NEW p \in Process, WriteIdentity(p), ~ UNCHANGED <<files, answered>>
      PROVE  Abstract!Next \/ UNCHANGED Abstract!vars
  <2>1. CASE identity' # identity
    BY <1>4, <2>1, IdentityStep
  <2>2. CASE identity' = identity
    <3>1. /\ call[p].op = "link"
          /\ answered' = [answered EXCEPT ![call[p].source] = {}]
          /\ identity' = [identity EXCEPT ![call[p].source] = call[p].id]
          /\ profile' = profile
      BY <1>4, <2>2 DEF WriteIdentity, files
    <3>2. call[p] \in Call /\ Related(call[p])
      BY <1>4, <3>1, Holder, InvParts DEF MapInv, WriteIdentity, At, CallInv
    <3>3. PICK s \in Source, i \in Id : s = call[p].source /\ i = call[p].id
      BY <3>2 DEF Related, Call
    <3>4. identity[s] = i
      BY <2>2, <3>1, <3>3 DEF MapInv, Inv, TypeOK
    <3>5. LeadsOf[s] = i /\ LeadsOf' = LeadsOf /\ LeadsOf \in [Source -> Id \cup {None}]
      BY <2>2, <3>1, <3>4, NoneAssumption, LeadsKept, LeadsTyped DEF MapInv, LeadsRight, files
    <3>6. LeadsOf' = [LeadsOf EXCEPT ![s] = i]
      BY <3>5
    <3>7. Abstract!Link(s, i)
      BY <3>1, <3>2, <3>3, <3>6 DEF Abstract!Link, Abstract!Missing, Related, Exists, NoProfile
    <3> QED
      BY <3>7 DEF Abstract!Next
  <2> QED
    BY <2>1, <2>2
<1>5. ASSUME NEW p \in Process, SyncIdentity(p), ~ UNCHANGED <<files, answered>>
      PROVE  Abstract!Next
  <2>1. /\ answered' = [answered EXCEPT ![call[p].source] = @ \cup {call[p].id}]
        /\ UNCHANGED files
    BY <1>5 DEF SyncIdentity
  <2>2. /\ call[p] \in Call /\ Own(call[p])
        /\ call[p].source \in Source /\ identity[call[p].source] = call[p].id
        /\ Exists(call[p].id)
    BY <1>5, Holder, InvParts DEF MapInv, OwnInv, Own, SyncIdentity, At, CallInv
  <2>3. call[p].id \in Id
    BY <2>2 DEF Call
  <2> QED
    BY <2>1, <2>2, <2>3, TellStep
<1>6. ASSUME NEW p \in Process, Undo(p), ~ UNCHANGED <<files, answered>>
      PROVE  Abstract!Next
  BY <1>6, WithdrawStep DEF Undo, files
<1>7. \/ UNCHANGED <<files, answered>>
      \/ \E s \in Source, i \in Id : Answer(s, i)
      \/ \E p \in Process : WriteProfile(p) \/ WriteIdentity(p) \/ SyncIdentity(p) \/ Undo(p)
  BY DEF Next, vars, Initialize, Recover, Edit, RotateToken, Link, SyncProfile, Crash, CloneMoves
<1> QED
  BY <1>1, <1>2, <1>3, <1>4, <1>5, <1>6, <1>7

LEMMA RefinementInit == Init => Abstract!Init
<1> SUFFICES ASSUME Init
             PROVE  Abstract!Init
  OBVIOUS
<1>1. \A s \in Source : Matches(s) = {} /\ identity[s] = None
  BY NoneAssumption DEF Init, Matches, NoProfile
<1>2. LeadsOf = [s \in Source |-> None]
  BY <1>1 DEF LeadsOf, LeadsTo
<1> QED
  BY <1>2 DEF Init, Abstract!Init, Abstract!Missing, NoProfile

\* The two files, written one after the other by processes that raise and die, are
\* one directory: every call of the store happens at one moment or not at all, and
\* what initialize takes back nobody has seen (profiles.py:92-164).
THEOREM StoreIsARegistry == Spec => ImplementsRegistry
<1>1. Init => OwnInv
  <2>1. Own(NoCall)
    BY DEF Own, NoCall, None
  <2>2. Init => \A p \in Process : call[p] = NoCall
    BY DEF Init
  <2> QED
    BY <2>1, <2>2 DEF OwnInv
<1>2. Inv /\ Inv' /\ OwnInv /\ [Next]_vars => OwnInv'
  BY OwnStep
<1>3. Inv /\ OwnInv => MapInv
  BY LeadsAreRight DEF MapInv
<1>4. MapInv /\ MapInv' /\ [Next]_vars => [Abstract!Next]_(Abstract!vars)
  BY RefinementStep
<1> QED
  BY <1>1, <1>2, <1>3, <1>4, Invariance, RefinementInit, PTL
     DEF Spec, ImplementsRegistry, Abstract!Spec
=============================================================================
