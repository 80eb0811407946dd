------------------------ MODULE BridgeManagerProofs ------------------------
(***************************************************************************)
(* For every set of profile files, whatever ids their stems give, and any  *)
(* number of edits and failures: the manager keeps its types, never has    *)
(* two children for one file, and leaves no name behind at the Hub.        *)
(*                                                                         *)
(* That two children never share a file rests on three facts: an edit      *)
(* number names one file (Numbered), the ids of a scan keep its files      *)
(* apart (DesiredApart), and once the stale children are stopped, a child  *)
(* under an id has the file the scan gave that id (Matching).              *)
(***************************************************************************)
EXTENDS BridgeManager, FiniteSetTheorems, TLAPS

(* The edit number of a profile leads to its file.                         *)
Names(p) == p.edit \in 1 .. edits /\ \A f \in File : edited[f] = p.edit => f = p.file
Agree(p, q) == p.edit = q.edit => p.file = q.file

Numbered ==
  /\ \A f \in File : edited[f] <= edits /\ (disk[f] \in Vias => edited[f] # 0)
  /\ \A f, g \in File : edited[f] = edited[g] /\ edited[f] # 0 => f = g
  /\ \A i \in DOMAIN desired : Names(desired[i])
  /\ \A i, j \in DOMAIN desired : Agree(desired[i], desired[j])
  /\ \A i \in Id : Managing(i) =>
       /\ Names(child[i].profile)
       /\ \A j \in DOMAIN desired : Agree(child[i].profile, desired[j])

DesiredApart ==
  \A i, j \in DOMAIN desired : desired[i].file = desired[j].file => i = j

Matched(i) == i \in DOMAIN desired /\ child[i].profile.file = desired[i].file
Matching ==
  \A i \in Id : Managing(i) =>
    /\ stage = "stopping" => i \in stale \/ Matched(i)
    /\ stage \in {"restarting", "starting"} => Matched(i)

ChildrenApart ==
  \A i, j \in Id : Managing(i) /\ Managing(j)
    /\ child[i].profile.file = child[j].profile.file => i = j

IInv ==
  /\ TypeOK /\ NoGhost
  /\ Numbered /\ DesiredApart /\ Matching /\ ChildrenApart

-----------------------------------------------------------------------------
(* The parts of the state                                                  *)

LEMMA ManagedIsNot == \A m \in Managed : m # NotManaged
BY DEF Managed, NotManaged, States

LEMMA WithProcess ==
  ASSUME TypeOK, NEW i \in Id, child[i].proc # "none"
  PROVE  child[i] \in Managed /\ Managing(i) /\ child[i].state = "running"
BY ManagedIsNot DEF TypeOK, Managing, NotManaged

LEMMA WithState ==
  ASSUME TypeOK, NEW i \in Id, child[i].state \in States
  PROVE  child[i] \in Managed /\ Managing(i)
BY ManagedIsNot DEF TypeOK, Managing, NotManaged, States

LEMMA IsManaged ==
  ASSUME TypeOK, NEW i \in Id
  PROVE  Managing(i) <=> child[i] \in Managed
BY ManagedIsNot DEF TypeOK, Managing

LEMMA NewManaged ==
  ASSUME NEW p \in Profile
  PROVE  /\ Waiting(p) \in Managed /\ Spawned(p) \in Managed
         /\ Waiting(p).profile = p /\ Spawned(p).profile = p
         /\ Waiting(p).proc = "none" /\ Spawned(p).state = "running"
<1>1. p.via \in Vias /\ 0 \in 0 .. MaxEdits
  BY ManagerAssumption DEF Profile
<1> QED
  BY <1>1 DEF Waiting, Spawned, Managed, States, Procs

LEMMA IdFinite == IsFiniteSet(Id)
<1> DEFINE A == { <<BaseId[f], 0>> : f \in File }
           B == { <<BaseId[f], f>> : f \in File }
           a == [f \in File |-> <<BaseId[f], 0>>]
           b == [f \in File |-> <<BaseId[f], f>>]
<1>1. a \in Surjection(File, A)
  BY DEF Surjection
<1>2. b \in Surjection(File, B)
  BY DEF Surjection
<1>3. IsFiniteSet(A) /\ IsFiniteSet(B)
  BY <1>1, <1>2, FS_Surjection, ManagerAssumption
<1> QED
  BY <1>3, FS_Union DEF Id

LEMMA FailingBounded ==
  ASSUME TypeOK, NEW some \in SUBSET Id, NEW failed \in Failing(some)
  PROVE  failures + Cardinality(failed) \in 0 .. MaxFailures
<1>1. IsFiniteSet(failed)
  BY IdFinite, FS_Subset DEF Failing
<1>2. Cardinality(failed) \in Nat
  BY <1>1, FS_CardinalityType
<1> QED
  BY <1>2, ManagerAssumption DEF Failing, TypeOK

(* The ids of a scan are ids, its profiles those of the files found, each  *)
(* under an id of its own.                                                 *)
LEMMA DiscoveredOK ==
  ASSUME TypeOK
  PROVE  /\ DOMAIN Discovered \subseteq Id
         /\ \A i \in DOMAIN Discovered : \E f \in Found :
              IdIn(f, Found) = i /\ Discovered[i] = ProfileOf(f)
         /\ \A f \in Found : ProfileOf(f) \in Profile
<1>1. \A f \in Found : IdIn(f, Found) \in Id
  BY DEF Found, IdIn, Id
<1>2. ASSUME NEW i \in DOMAIN Discovered
      PROVE  \E f \in Found : IdIn(f, Found) = i /\ Discovered[i] = ProfileOf(f)
  <2>1. \E f \in Found : IdIn(f, Found) = i
    BY <1>2 DEF Discovered
  <2> DEFINE f == CHOOSE f \in Found : IdIn(f, Found) = i
  <2>2. f \in Found /\ IdIn(f, Found) = i
    BY <2>1
  <2>3. Discovered[i] = ProfileOf(f)
    BY <1>2 DEF Discovered
  <2> QED
    BY <2>2, <2>3
<1>3. \A f \in Found : ProfileOf(f) \in Profile
  BY DEF Found, ProfileOf, Profile, TypeOK
<1> QED
  BY <1>1, <1>2, <1>3 DEF Discovered

-----------------------------------------------------------------------------
(* The scan                                                                *)

LEMMA InitIInv == Init => IInv
<1> SUFFICES ASSUME Init PROVE IInv
  OBVIOUS
<1> USE ManagerAssumption DEF Init
<1>1. TypeOK
  BY DEF TypeOK, Stages, Contents, NotManaged
<1>2. NoGhost /\ DesiredApart
  BY DEF NoGhost, DesiredApart
<1>3. \A i \in Id : ~ Managing(i)
  BY DEF Managing
<1>4. Numbered /\ Matching /\ ChildrenApart
  BY <1>3 DEF Numbered, Matching, ChildrenApart, Vias
<1> QED
  BY <1>1, <1>2, <1>4 DEF IInv

LEMMA DiscoverKeeps == ASSUME IInv, Discover PROVE IInv'
<1> USE DEF IInv, Discover, userVars, hubVars
<1>1. DOMAIN desired' \subseteq Id /\ \A i \in DOMAIN desired' : \E f \in Found :
        IdIn(f, Found) = i /\ desired'[i] = ProfileOf(f)
  BY DiscoveredOK
<1>2. TypeOK'
  BY <1>1, DiscoveredOK DEF TypeOK, Stages, StaleIds
<1>3. \A i \in Id : Managing(i)' <=> Managing(i)
  BY DEF Managing
<1>4. NoGhost'
  <2> SUFFICES ASSUME NEW n \in registered
               PROVE  Managing(n) \/ n \in deregs \cup ghosts
    BY <1>3 DEF NoGhost, TypeOK
  <2> QED
    BY DEF NoGhost
<1>5. Numbered'
  <2>0. \A f \in Found : /\ f \in File /\ ProfileOf(f).file = f
                         /\ ProfileOf(f).edit = edited[f] /\ edited[f] \in 1 .. edits
    BY DEF Numbered, Found, ProfileOf, TypeOK
  <2>1. \A i \in DOMAIN desired' : Names(desired'[i])
    BY <1>1, <2>0 DEF Numbered, Names
  <2>2. \A i, j \in DOMAIN desired' : Agree(desired'[i], desired'[j])
    BY <1>1, <2>0 DEF Numbered, Agree
  <2>3. \A i \in Id : Managing(i) =>
          \A j \in DOMAIN desired' : Agree(child[i].profile, desired'[j])
    BY <1>1, <2>0 DEF Numbered, Names, Agree
  <2> QED
    BY <1>3, <2>1, <2>2, <2>3 DEF Numbered, Names, Agree
<1>6. DesiredApart'
  BY <1>1 DEF DesiredApart, ProfileOf
<1>7. Matching'
  <2> SUFFICES ASSUME NEW i \in Id, Managing(i), i \notin stale' PROVE Matched(i)'
    BY <1>3 DEF Matching
  <2>1. i \in DOMAIN desired' /\ desired'[i].edit = child[i].profile.edit
    BY DEF StaleIds
  <2>2. Agree(child[i].profile, desired'[i])
    BY <1>3, <1>5, <2>1 DEF Numbered
  <2> QED
    BY <2>1, <2>2 DEF Agree, Matched
<1>8. ChildrenApart'
  BY <1>3 DEF ChildrenApart
<1> QED
  BY <1>2, <1>4, <1>5, <1>6, <1>7, <1>8

LEMMA StopStaleKeeps == ASSUME IInv, NEW s \in Id, StopStale(s) PROVE IInv'
<1> USE DEF IInv, StopStale, Terminated, userVars
<1>1. /\ child' \in [Id -> Managed \cup {NotManaged}] /\ child'[s] = NotManaged
      /\ \A i \in Id : i # s => child'[i] = child[i]
  BY DEF TypeOK
<1>2. TypeOK'
  BY <1>1 DEF TypeOK, NotManaged
<1>3. \A i \in Id : Managing(i)' <=> Managing(i) /\ i # s
  BY <1>1 DEF Managing
<1>4. NoGhost'
  BY <1>3 DEF NoGhost, TypeOK
<1>5. Numbered'
  BY <1>1, <1>3 DEF Numbered, Names, Agree
<1>6. Matching' /\ ChildrenApart' /\ DesiredApart'
  BY <1>1, <1>3 DEF Matching, Matched, ChildrenApart, DesiredApart
<1> QED
  BY <1>2, <1>4, <1>5, <1>6

(* Actions that change no profile and manage nothing new.                  *)
SameProfiles ==
  \A i \in Id : /\ Managing(i)' <=> Managing(i)
                /\ Managing(i) => child'[i].profile = child[i].profile

LEMMA ProfilesStay ==
  ASSUME IInv, SameProfiles, UNCHANGED <<disk, edited, edits, desired>>
  PROVE  Numbered' /\ DesiredApart' /\ ChildrenApart'
BY DEF IInv, SameProfiles, Numbered, Names, Agree, DesiredApart, ChildrenApart

LEMMA MarkExitedKeeps == ASSUME IInv, MarkExited PROVE IInv'
<1> USE DEF IInv, MarkExited, userVars, hubVars
<1>1. ASSUME NEW i \in Id
      PROVE  /\ child[i] \in Managed => child'[i] \in Managed
             /\ child[i] = NotManaged => child'[i] = NotManaged
             /\ child[i] \in Managed => child'[i].profile = child[i].profile
             /\ child'[i].proc # "none" => child'[i].state = "running"
  <2>1. child'[i] = Marked(child[i]) /\ child[i] \in Managed \cup {NotManaged}
    BY DEF TypeOK
  <2>2. CASE child[i].state = "running" /\ child[i].proc = "exited"
    <3>1. child[i] \in Managed /\ child[i] # NotManaged
      BY <2>2, WithState, ManagedIsNot DEF States
    <3>2. child'[i] = [child[i] EXCEPT !.state = "probing", !.proc = "none"]
      BY <2>1, <2>2 DEF Marked
    <3> QED
      BY <3>1, <3>2 DEF Managed, States, Procs
  <2>3. CASE child[i].state = "probed"
    <3>1. child[i] \in Managed /\ child[i] # NotManaged /\ child[i].proc = "none"
      BY <2>3, WithState, ManagedIsNot DEF States, TypeOK
    <3>2. child'[i] = [child[i] EXCEPT !.state = "restarting"]
      BY <2>1, <2>3 DEF Marked
    <3> QED
      BY <3>1, <3>2 DEF Managed, States, Procs
  <2>4. CASE ~ (child[i].state = "running" /\ child[i].proc = "exited")
             /\ child[i].state # "probed"
    BY <2>1, <2>4 DEF Marked, TypeOK
  <2> QED
    BY <2>2, <2>3, <2>4
<1>2. child' \in [Id -> Managed \cup {NotManaged}]
  BY <1>1 DEF TypeOK
<1>3. TypeOK'
  BY <1>1, <1>2 DEF TypeOK, Stages
<1>4. SameProfiles
  BY <1>1, <1>3, IsManaged, ManagedIsNot DEF SameProfiles, Managing, TypeOK
<1>5. NoGhost'
  <2> SUFFICES ASSUME NEW n \in registered
               PROVE  \/ Managing(n) \/ n \in deregs \cup ghosts
                      \/ n \in DOMAIN desired
    BY <1>4 DEF NoGhost, SameProfiles, TypeOK
  <2> QED
    BY DEF NoGhost
<1>6. Matching'
  BY <1>4 DEF Matching, Matched, SameProfiles, AllStopped
<1> QED
  BY <1>3, <1>4, <1>5, <1>6, ProfilesStay

LEMMA RestartReadyKeeps == ASSUME IInv, RestartReady PROVE IInv'
<1> USE DEF IInv, RestartReady, userVars, hubVars
<1> DEFINE ready == { i \in Id : child[i].state = "ready" }
<1>0. \A i \in ready : child[i] \in Managed /\ child[i].profile \in Profile
  BY WithState DEF States, Managed
<1>1. /\ DOMAIN child' = Id
      /\ \A i \in Id :
           \/ child'[i] = child[i]
           \/ i \in ready /\ child'[i] \in {Waiting(child[i].profile), Spawned(child[i].profile)}
  OBVIOUS
<1>2. ASSUME NEW i \in Id
      PROVE  /\ child'[i] \in Managed \cup {NotManaged}
             /\ child'[i].proc # "none" => child'[i].state = "running"
             /\ child[i] \in Managed <=> child'[i] \in Managed
             /\ child[i] \in Managed => child'[i].profile = child[i].profile
  <2>1. CASE child'[i] = child[i]
    BY <2>1 DEF TypeOK
  <2>2. CASE i \in ready /\ child'[i] \in {Waiting(child[i].profile), Spawned(child[i].profile)}
    BY <1>0, <2>2, NewManaged
  <2> QED
    BY <1>1, <2>1, <2>2
<1>3. failures' \in 0 .. MaxFailures
  BY FailingBounded
<1>4. child' \in [Id -> Managed \cup {NotManaged}]
  BY <1>1, <1>2
<1>5. TypeOK'
  BY <1>2, <1>3, <1>4 DEF TypeOK, Stages
<1>6. SameProfiles
  BY <1>2, <1>5, ManagedIsNot DEF SameProfiles, Managing, TypeOK
<1>7. NoGhost' /\ Matching'
  BY <1>6 DEF NoGhost, Matching, Matched, SameProfiles, TypeOK
<1> QED
  BY <1>5, <1>6, <1>7, ProfilesStay

LEMMA StartNewKeeps == ASSUME IInv, StartNew PROVE IInv'
<1> USE DEF IInv, StartNew, userVars, hubVars
<1> DEFINE new == { i \in DOMAIN desired : ~ Managing(i) }
<1>0. \A i \in DOMAIN desired : i \in Id /\ desired[i] \in Profile
  BY DEF TypeOK
<1>1. /\ DOMAIN child' = Id
      /\ \A i \in Id :
           \/ i \notin new /\ child'[i] = child[i]
           \/ i \in new /\ child'[i] \in {Waiting(desired[i]), Spawned(desired[i])}
  OBVIOUS
<1>2. ASSUME NEW i \in Id
      PROVE  /\ child'[i] \in Managed \cup {NotManaged}
             /\ child'[i].proc # "none" => child'[i].state = "running"
             /\ i \in new => Managing(i)' /\ child'[i].profile = desired[i]
             /\ i \notin new => child'[i] = child[i] /\ (Managing(i)' <=> Managing(i))
  <2>1. CASE i \notin new /\ child'[i] = child[i]
    BY <2>1 DEF TypeOK, Managing
  <2>2. CASE i \in new /\ child'[i] \in {Waiting(desired[i]), Spawned(desired[i])}
    BY <1>0, <2>2, NewManaged, ManagedIsNot DEF Managing
  <2> QED
    BY <1>1, <2>1, <2>2
<1>3. failures' \in 0 .. MaxFailures
  <2>1. new \in SUBSET Id
    BY <1>0
  <2> QED
    BY <2>1, FailingBounded
<1>4. child' \in [Id -> Managed \cup {NotManaged}]
  BY <1>1, <1>2
<1>5. TypeOK'
  BY <1>2, <1>3, <1>4 DEF TypeOK, Stages
<1>6. \A i \in Id : Managing(i)' =>
        /\ i \in DOMAIN desired /\ child'[i].profile.file = desired[i].file
        /\ \/ child'[i].profile = desired[i]
           \/ Managing(i) /\ child'[i] = child[i]
  <2>1. ASSUME NEW i \in Id, Managing(i) PROVE Matched(i)
    BY <2>1 DEF Matching
  <2>2. ASSUME NEW i \in Id, Managing(i)'
        PROVE  \/ i \in new /\ child'[i].profile = desired[i]
               \/ i \notin new /\ Managing(i) /\ child'[i] = child[i]
    <3>1. CASE i \in new
      BY <1>2, <3>1
    <3>2. CASE i \notin new
      BY <1>2, <2>2, <3>2
    <3> QED
      BY <3>1, <3>2
  <2> QED
    BY <2>1, <2>2 DEF Matched
<1>7. NoGhost'
  <2> SUFFICES ASSUME NEW n \in registered
               PROVE  Managing(n)' \/ n \in deregs \cup ghosts
    BY DEF NoGhost
  <2>1. n \in Id
    BY DEF TypeOK
  <2> QED
    BY <1>2, <2>1 DEF NoGhost
<1>8. Numbered'
  <2>1. \A i \in Id : Managing(i)' => Names(child'[i].profile)
    BY <1>6 DEF Numbered
  <2>2. \A i \in Id : Managing(i)' =>
          \A j \in DOMAIN desired : Agree(child'[i].profile, desired[j])
    BY <1>6 DEF Numbered
  <2> QED
    BY <2>1, <2>2 DEF Numbered, Names, Agree
<1>9. Matching' /\ DesiredApart' /\ ChildrenApart'
  BY <1>6 DEF Matching, DesiredApart, ChildrenApart
<1> QED
  BY <1>5, <1>7, <1>8, <1>9

LEMMA StopAllKeeps == ASSUME IInv, StopAll PROVE IInv'
<1> USE DEF IInv, StopAll, Terminated, userVars, hubVars
<1>1. TypeOK'
  BY DEF TypeOK, Stages, NotManaged
<1>2. \A i \in Id : ~ Managing(i)'
  BY DEF Managing
<1>3. NoGhost' /\ DesiredApart'
  BY DEF NoGhost, DesiredApart
<1>4. Numbered' /\ Matching' /\ ChildrenApart'
  BY <1>2 DEF Numbered, Names, Agree, Matching, ChildrenApart
<1> QED
  BY <1>1, <1>3, <1>4

-----------------------------------------------------------------------------
(* Tasks, processes and the user                                           *)

(* One child changes its state or its process.                             *)
LEMMA OneChanges ==
  ASSUME TypeOK, NEW i \in Id, child[i] \in Managed, NEW x \in Managed,
         x.profile = child[i].profile, x.proc # "none" => x.state = "running",
         child' = [child EXCEPT ![i] = x]
  PROVE  /\ child' \in [Id -> Managed \cup {NotManaged}]
         /\ \A j \in Id : child'[j].proc # "none" => child'[j].state = "running"
         /\ SameProfiles
<1>1. \A j \in Id : child'[j] = IF j = i THEN x ELSE child[j]
  BY DEF TypeOK
<1> QED
  BY <1>1, ManagedIsNot DEF TypeOK, SameProfiles, Managing

LEMMA ProbeOrDelayKeeps ==
  ASSUME IInv, NEW i \in Id, ProbeEnds(i) \/ DelayEnds(i) PROVE IInv'
<1> USE DEF IInv, ProbeEnds, DelayEnds, userVars, hubVars, scanVars
<1>1. child[i] \in Managed /\ child[i].proc = "none"
  BY WithState DEF States, TypeOK
<1>2. PICK s \in {"probed", "ready"} : child' = [child EXCEPT ![i].state = s]
  OBVIOUS
<1> DEFINE x == [child[i] EXCEPT !.state = s]
<1>3. x \in Managed /\ x.profile = child[i].profile /\ x.proc = "none"
  BY <1>1 DEF Managed, States
<1>4. child' = [child EXCEPT ![i] = x]
  BY <1>2
<1>5. TypeOK' /\ SameProfiles
  BY <1>1, <1>3, <1>4, OneChanges DEF TypeOK
<1>6. NoGhost' /\ Matching'
  BY <1>5 DEF NoGhost, Matching, Matched, SameProfiles, TypeOK
<1> QED
  BY <1>5, <1>6, ProfilesStay

LEMMA DeregisterKeeps == ASSUME IInv, NEW n \in Id, Deregister(n) PROVE IInv'
<1> USE DEF IInv, Deregister, userVars, scanVars
<1>1. TypeOK' /\ SameProfiles
  BY DEF TypeOK, SameProfiles, Managing
<1>2. NoGhost' /\ Matching'
  BY DEF NoGhost, Matching, Matched, Managing
<1> QED
  BY <1>1, <1>2, ProfilesStay

LEMMA ChildActs ==
  ASSUME IInv, NEW i \in Id, ChildConnects(i) \/ ChildRejected(i) \/ ChildExits(i)
  PROVE  IInv'
<1> USE DEF IInv, ChildConnects, ChildRejected, ChildExits, Fails, Live, userVars, scanVars, hubVars
<1>1. /\ child[i] \in Managed /\ Managing(i) /\ child[i].state = "running"
      /\ CredPath(i, child[i].profile.via) \in Id \X Vias
      /\ child[i].profile.file \in File
  <2>1. child[i] \in Managed /\ Managing(i) /\ child[i].state = "running"
    BY WithProcess
  <2> QED
    BY <2>1 DEF Managed, Profile, CredPath
<1> DEFINE f == child[i].profile.file
           up == [child[i] EXCEPT !.proc = "up", !.loaded = edited[f], !.runs = disk[f]]
           exited == [child[i] EXCEPT !.proc = "exited"]
<1>2. \/ child' = child
      \/ child' = [child EXCEPT ![i] = up] /\ disk[f] \in Vias
      \/ child' = [child EXCEPT ![i] = exited]
  BY DEF Vias
<1>3. /\ exited \in Managed /\ exited.profile = child[i].profile /\ exited.state = "running"
      /\ up.profile = child[i].profile /\ up.state = "running"
      /\ disk[f] \in Vias => up \in Managed
  BY <1>1 DEF Managed, Procs, TypeOK
<1>4. /\ child' \in [Id -> Managed \cup {NotManaged}]
      /\ \A j \in Id : child'[j].proc # "none" => child'[j].state = "running"
      /\ SameProfiles
  <2>1. CASE child' = child
    BY <2>1 DEF TypeOK, SameProfiles, Managing
  <2>2. CASE child' = [child EXCEPT ![i] = up] /\ disk[f] \in Vias
    BY <1>1, <1>3, <2>2, OneChanges
  <2>3. CASE child' = [child EXCEPT ![i] = exited]
    BY <1>1, <1>3, <2>3, OneChanges
  <2> QED
    BY <1>2, <2>1, <2>2, <2>3
<1>5. /\ cred' \subseteq Id \X Vias /\ failures' \in 0 .. MaxFailures
      /\ registered' \subseteq registered \cup {i}
      /\ ghosts \ {i} \subseteq ghosts' /\ ghosts' \subseteq ghosts
  BY <1>1, ManagerAssumption DEF TypeOK
<1>6. TypeOK'
  BY <1>4, <1>5 DEF TypeOK
<1>7. NoGhost' /\ Matching'
  BY <1>1, <1>4, <1>5 DEF NoGhost, Matching, Matched, SameProfiles, TypeOK
<1> QED
  BY <1>4, <1>6, <1>7, ProfilesStay

LEMMA PairKeeps == ASSUME IInv, NEW i \in Id, Pair(i) PROVE IInv'
<1> USE DEF IInv, Pair, userVars, scanVars, hubVars
<1>1. TypeOK' /\ SameProfiles
  BY DEF TypeOK, SameProfiles, Managing, CredPath, Vias
<1>2. NoGhost' /\ Matching'
  BY DEF NoGhost, Matching, Matched, Managing
<1> QED
  BY <1>1, <1>2, ProfilesStay

LEMMA EditKeeps == ASSUME IInv, NEW f \in File, Edit(f) PROVE IInv'
<1> USE DEF IInv, Edit, scanVars, hubVars
<1>1. /\ edits \in Nat /\ edits + 1 \in 1 .. MaxEdits
      /\ edited' \in [File -> 0 .. MaxEdits] /\ disk' \in [File -> Contents]
      /\ \A g \in File : edited'[g] = IF g = f THEN edits + 1 ELSE edited[g]
      /\ \A g \in File : g # f => disk'[g] = disk[g]
  BY ManagerAssumption DEF TypeOK
<1>2. TypeOK'
  BY <1>1 DEF TypeOK
<1>3. \A i \in Id : Managing(i)' <=> Managing(i)
  BY DEF Managing
<1>4. ASSUME NEW p, Names(p) PROVE Names(p)'
  BY <1>1, <1>4 DEF Names
<1>5. Numbered'
  <2>1. \A g \in File : edited[g] \in Nat /\ edited[g] <= edits
    BY DEF Numbered, TypeOK
  <2>2. \A g \in File : edited'[g] <= edits' /\ (disk'[g] \in Vias => edited'[g] # 0)
    BY <1>1, <2>1 DEF Numbered
  <2>3. \A g, h \in File : edited'[g] = edited'[h] /\ edited'[g] # 0 => g = h
    BY <1>1, <2>1 DEF Numbered
  <2>4. \A i \in DOMAIN desired : Names(desired[i])'
    BY <1>4 DEF Numbered
  <2>5. \A i \in Id : Managing(i) => Names(child[i].profile)'
    BY <1>4 DEF Numbered
  <2> QED
    BY <1>3, <2>2, <2>3, <2>4, <2>5 DEF Numbered, Agree
<1>6. NoGhost' /\ DesiredApart' /\ Matching' /\ ChildrenApart'
  BY <1>3 DEF NoGhost, DesiredApart, Matching, Matched, ChildrenApart, TypeOK
<1> QED
  BY <1>2, <1>5, <1>6

LEMMA IInvStep == IInv /\ [Next]_vars => IInv'
<1> SUFFICES ASSUME IInv, [Next]_vars PROVE IInv'
  OBVIOUS
<1>1. CASE Scan
  BY <1>1, DiscoverKeeps, StopStaleKeeps, MarkExitedKeeps, RestartReadyKeeps, StartNewKeeps DEF Scan
<1>2. CASE StopAll
  BY <1>2, StopAllKeeps
<1>3. ASSUME NEW i \in Id, ProbeEnds(i) \/ DelayEnds(i) \/ Deregister(i) PROVE IInv'
  BY <1>3, ProbeOrDelayKeeps, DeregisterKeeps
<1>4. ASSUME NEW i \in Id, ChildConnects(i) \/ ChildRejected(i) \/ ChildExits(i) \/ Pair(i)
      PROVE  IInv'
  BY <1>4, ChildActs, PairKeeps
<1>5. ASSUME NEW f \in File, Edit(f) PROVE IInv'
  BY <1>5, EditKeeps
<1>6. CASE UNCHANGED vars
  <2> USE <1>6 DEF vars, userVars, scanVars, hubVars
  <2>1. TypeOK' /\ NoGhost'
    BY DEF IInv, TypeOK, NoGhost, Managing
  <2>2. SameProfiles /\ Matching'
    BY DEF IInv, SameProfiles, Managing, Matching, Matched
  <2> QED
    BY <2>1, <2>2, ProfilesStay DEF IInv
<1> QED
  BY <1>1, <1>2, <1>3, <1>4, <1>5, <1>6 DEF Next

THEOREM Invariant == Spec => []IInv
BY InitIInv, IInvStep, PTL DEF Spec

(* Every reachable state of the manager has its type: a child with a       *)
(* process is in state running, and the failures counted keep their bound. *)
THEOREM TypeCorrect == Spec => []TypeOK
<1>1. IInv => TypeOK
  BY DEF IInv
<1> QED
  BY <1>1, Invariant, PTL

(* Every name at the Hub belongs to a profile that is managed or about to  *)
(* be, or its deregistration is under way or has failed.                   *)
THEOREM NoGhosts == Spec => []NoGhost
<1>1. IInv => NoGhost
  BY DEF IInv
<1> QED
  BY <1>1, Invariant, PTL

(* No two live processes serve one profile file, for any number of files   *)
(* and whatever their names: ids that shift when a file goes do not lead   *)
(* to a second process.                                                    *)
THEOREM OneProcess == Spec => []OneProcessPerFile
<1>1. IInv => OneProcessPerFile
  <2> SUFFICES ASSUME IInv, NEW i \in Id, NEW j \in Id, Live(i), Live(j),
                      child[i].profile.file = child[j].profile.file
               PROVE  i = j
    BY DEF OneProcessPerFile
  <2>1. Managing(i) /\ Managing(j)
    BY WithProcess DEF IInv, Live
  <2> QED
    BY <2>1 DEF IInv, ChildrenApart
<1> QED
  BY <1>1, Invariant, PTL
=============================================================================
