---------------------------- MODULE BridgeManager ----------------------------
(***************************************************************************)
(* manager.rs: one bridge process for every profile YAML of a directory.   *)
(* A scan (reconcile_once) reads the directory, stops the children whose   *)
(* profile is gone or changed, one after the other, notices exited ones,   *)
(* restarts those whose delay is over and starts new ones.  Meanwhile the  *)
(* user edits files, children exit, and calls to the Hub are under way.    *)
(*                                                                         *)
(* Edits are numbered through all files, and the number stands for the     *)
(* fingerprint (length and times).  Restart delays are not measured: a     *)
(* delay ends some time.  A child resolves its connection in one step.     *)
(***************************************************************************)
EXTENDS Naturals, FiniteSets

CONSTANTS
  File,         \* the profile files, numbered in the order of their paths
  BaseId,       \* the profile id of each, from its file stem
  MaxEdits,     \* bound: edits of profile files
  MaxFailures   \* bound: exits of children, failed probes and failed spawns

ASSUME ManagerAssumption ==
  /\ File \subseteq Nat \ {0} /\ IsFiniteSet(File)
  /\ DOMAIN BaseId = File
  /\ {MaxEdits, MaxFailures} \subseteq Nat

VARIABLES
  stage,       \* of the manager's scan, or "idle" or "stopped"
  disk,        \* what is in each profile file
  edited,      \* the number of the last edit of each
  edits,       \* how many edits there were
  desired,     \* the profiles the scan found, by id
  stale,       \* ids of children the scan has still to stop
  child,       \* ManagedBridge by id: profile, state and process
  cred,        \* the credential files that hold a token
  registered,  \* names registered with the Hub
  deregs,      \* names with a deregistration under way
  ghosts,      \* names whose last deregistration failed
  failures     \* how many failures there were

userVars == <<disk, edited, edits>>
scanVars == <<stage, desired, stale>>
hubVars == <<registered, deregs, ghosts>>
vars == <<userVars, scanVars, hubVars, child, cred, failures>>

Stages == {"idle", "stopping", "restarting", "starting", "stopped"}
Vias == {"hub", "direct"}
Contents == Vias \cup {"absent", "invalid"}
States == {"running", "probing", "probed", "restarting", "ready"}
Procs == {"none", "starting", "up", "exited"}

Id == { <<BaseId[f], 0>> : f \in File } \cup { <<BaseId[f], f>> : f \in File }
Profile == [file : File, edit : 0 .. MaxEdits, via : Vias]
Managed == [profile : Profile, state : States, proc : Procs,
            loaded : 0 .. MaxEdits, runs : Vias]
NotManaged == [state |-> "absent", proc |-> "none"]

CredPath(i, via) == <<i, via>>
Managing(i) == child[i] # NotManaged
Live(i) == child[i].proc \in {"starting", "up"}

(* disambiguate_duplicate_ids: the first path keeps the id, the others get *)
(* a suffix made from their path.                                          *)
IdIn(f, found) ==
  IF \E g \in found : g < f /\ BaseId[g] = BaseId[f]
  THEN <<BaseId[f], f>> ELSE <<BaseId[f], 0>>

(* discover_profile_specs: files that are absent or do not parse are left  *)
(* out.                                                                    *)
Found == { f \in File : disk[f] \in Vias }
ProfileOf(f) == [file |-> f, edit |-> edited[f], via |-> disk[f]]
Discovered ==
  [i \in { IdIn(f, Found) : f \in Found } |->
     ProfileOf(CHOOSE f \in Found : IdIn(f, Found) = i)]

(* direct_spec_blocker: a direct profile waits for a saved token (or for   *)
(* its base_url, which counts as the same here).                           *)
Blocked(i, p) == p.via = "direct" /\ CredPath(i, "direct") \notin cred

Waiting(p) == [profile |-> p, state |-> "restarting", proc |-> "none",
               loaded |-> 0, runs |-> p.via]
Spawned(p) == [profile |-> p, state |-> "running", proc |-> "starting",
               loaded |-> 0, runs |-> p.via]

Init ==
  /\ stage = "idle"
  /\ disk = [f \in File |-> "absent"]
  /\ edited = [f \in File |-> 0]
  /\ edits = 0
  /\ desired = [i \in {} |-> NotManaged]
  /\ stale = {}
  /\ child = [i \in Id |-> NotManaged]
  /\ cred = {}
  /\ registered = {} /\ deregs = {} /\ ghosts = {}
  /\ failures = 0

-----------------------------------------------------------------------------
(* The scan                                                                *)

(* Broken form: only profiles that are gone, not those that changed.       *)
StaleIdsGone(found) == { i \in Id : Managing(i) /\ i \notin DOMAIN found }
StaleIds(found) ==
  { i \in Id : Managing(i) /\
      (i \in DOMAIN found => found[i].edit # child[i].profile.edit) }

Discover ==
  /\ stage = "idle"
  /\ stage' = "stopping"
  /\ desired' = Discovered
  /\ stale' = StaleIds(Discovered)
  /\ UNCHANGED <<userVars, hubVars, child, cred, failures>>

(* stop_managed_child: at the end of the wait for the process, terminated  *)
(* or killed after the grace period, the probe aborted.                    *)
Terminated(ids) == [i \in Id |-> IF i \in ids THEN NotManaged ELSE child[i]]

(* Broken form: a profile without a process is deleted without the Hub.    *)
StopStaleIfLive(i) ==
  /\ stage = "stopping" /\ i \in stale
  /\ stale' = stale \ {i}
  /\ child' = [child EXCEPT ![i] = NotManaged]
  /\ cred' = cred \ {CredPath(i, child[i].profile.via)}
  /\ deregs' = IF Live(i) THEN deregs \cup {i} ELSE deregs
  /\ UNCHANGED <<userVars, stage, desired, registered, ghosts, failures>>

(* stop_removed_or_changed for one child: the credentials of a removed profile are deleted and a         *)
(* deregistration is sent off; a changed profile loses the credential file *)
(* of the other kind if its `via` flipped.                                 *)
StopStale(i) ==
  LET p == child[i].profile IN
  /\ stage = "stopping" /\ i \in stale
  /\ stale' = stale \ {i}
  /\ child' = Terminated({i})
  /\ \/ /\ i \notin DOMAIN desired
        /\ cred' = cred \ {CredPath(i, p.via)}
        /\ deregs' = deregs \cup {i}
     \/ /\ i \in DOMAIN desired
        /\ cred' = IF desired[i].via # p.via THEN cred \ {CredPath(i, p.via)} ELSE cred
        /\ UNCHANGED deregs
  /\ UNCHANGED <<userVars, stage, desired, registered, ghosts, failures>>

(* Broken form: the scan goes on while children are being stopped.         *)
StoppedInBackground == TRUE
AllStopped == stale = {}

(* Broken forms: the exited process is kept; probes are never collected.   *)
MarkedKeepingProc(m) ==
  IF m.state = "running" /\ m.proc = "exited" THEN [m EXCEPT !.state = "probing"]
  ELSE IF m.state = "probed" THEN [m EXCEPT !.state = "restarting"] ELSE m
MarkedUncollected(m) ==
  IF m.state = "running" /\ m.proc = "exited"
  THEN [m EXCEPT !.state = "probing", !.proc = "none"] ELSE m

(* mark_exited_children for one child: an exited process is probed for its *)
(* cause, a finished probe starts the restart delay.                       *)
Marked(m) ==
  CASE m.state = "running" /\ m.proc = "exited" ->
         [m EXCEPT !.state = "probing", !.proc = "none"]
    [] m.state = "probed" -> [m EXCEPT !.state = "restarting"]
    [] OTHER -> m

MarkExited ==
  /\ stage = "stopping" /\ AllStopped
  /\ stage' = "restarting"
  /\ child' = [i \in Id |-> Marked(child[i])]
  /\ UNCHANGED <<userVars, desired, stale, hubVars, cred, failures>>

(* Failures of this step, within the bound.                                *)
Failing(some) == { s \in SUBSET some : failures + Cardinality(s) <= MaxFailures }

(* restart_ready_children: blocked ones and those whose spawn fails wait   *)
(* again.                                                                  *)
RestartReady ==
  LET ready == { i \in Id : child[i].state = "ready" }
      blocked == { i \in ready : Blocked(i, child[i].profile) } IN
  /\ stage = "restarting"
  /\ stage' = "starting"
  /\ \E failed \in Failing(ready \ blocked) :
       /\ child' = [i \in Id |->
            IF i \notin ready THEN child[i]
            ELSE IF i \in blocked \cup failed THEN Waiting(child[i].profile)
            ELSE Spawned(child[i].profile)]
       /\ failures' = failures + Cardinality(failed)
  /\ UNCHANGED <<userVars, desired, stale, hubVars, cred>>

(* start_new_children: the same for profiles that are not managed yet,     *)
(* with a probe before.                                                    *)
StartNew ==
  LET new == { i \in DOMAIN desired : ~ Managing(i) }
      blocked == { i \in new : Blocked(i, desired[i]) } IN
  /\ stage = "starting"
  /\ stage' = "idle"
  /\ \E failed \in Failing(new \ blocked) :
       /\ child' = [i \in Id |->
            IF i \notin new THEN child[i]
            ELSE IF i \in blocked \cup failed THEN Waiting(desired[i])
            ELSE Spawned(desired[i])]
       /\ failures' = failures + Cardinality(failed)
  /\ UNCHANGED <<userVars, desired, stale, hubVars, cred>>

(* stop_all, between two scans: every child is terminated.                 *)
StopAll ==
  /\ stage = "idle"
  /\ stage' = "stopped"
  /\ child' = Terminated(Id)
  /\ UNCHANGED <<userVars, desired, stale, hubVars, cred, failures>>

-----------------------------------------------------------------------------
(* Tasks of the manager                                                    *)

ProbeEnds(i) ==
  /\ child[i].state = "probing"
  /\ child' = [child EXCEPT ![i].state = "probed"]
  /\ UNCHANGED <<userVars, scanVars, hubVars, cred, failures>>

DelayEnds(i) ==
  /\ child[i].state = "restarting"
  /\ child' = [child EXCEPT ![i].state = "ready"]
  /\ UNCHANGED <<userVars, scanVars, hubVars, cred, failures>>

(* deregister_from_hub: tried once.                                        *)
Deregister(n) ==
  /\ n \in deregs
  /\ deregs' = deregs \ {n}
  /\ \/ registered' = registered \ {n} /\ UNCHANGED ghosts
     \/ ghosts' = ghosts \cup {n} /\ UNCHANGED registered
  /\ UNCHANGED <<userVars, scanVars, child, cred, failures>>

-----------------------------------------------------------------------------
(* The processes and the user                                              *)

Fails == failures < MaxFailures /\ failures' = failures + 1

(* The child reads the file as it is now, but works on the credential file *)
(* the manager chose.  A hub child registers under the manager's name      *)
(* unless its saved token is good; a direct child needs a saved token.     *)
ChildConnects(i) ==
  LET path == CredPath(i, child[i].profile.via)
      f == child[i].profile.file
      up == [child EXCEPT ![i].proc = "up", ![i].loaded = edited[f],
                          ![i].runs = disk[f]]
      exited == [child EXCEPT ![i].proc = "exited"] IN
  /\ child[i].proc = "starting"
  /\ \/ disk[f] = "hub" /\ path \in cred /\ i \in registered
        /\ child' = up /\ UNCHANGED <<cred, registered, ghosts, failures>>
     \/ disk[f] = "hub"
        /\ child' = up /\ cred' = cred \cup {path}
        /\ registered' = registered \cup {i} /\ ghosts' = ghosts \ {i}
        /\ UNCHANGED failures
     \/ disk[f] = "hub" /\ Fails
        /\ child' = exited /\ cred' = cred \ {path}
        /\ registered' \in {registered, registered \cup {i}} /\ UNCHANGED ghosts
     \/ disk[f] = "direct" /\ path \in cred
        /\ child' = up /\ UNCHANGED <<cred, registered, ghosts, failures>>
     \/ disk[f] = "direct" /\ path \in cred /\ Fails
        /\ child' = exited /\ cred' = cred \ {path}
        /\ UNCHANGED <<registered, ghosts>>
     \/ (disk[f] = "direct" => path \notin cred) /\ disk[f] # "hub"
        /\ child' = exited /\ UNCHANGED <<cred, registered, ghosts, failures>>
  /\ UNCHANGED <<userVars, scanVars, deregs>>

(* The token of a running child is revoked (run_loop.rs): the credential   *)
(* file is removed and the child registers again, or exits, as it must if  *)
(* it is direct.                                                           *)
ChildRejected(i) ==
  LET path == CredPath(i, child[i].profile.via) IN
  /\ child[i].proc = "up" /\ (child[i].runs = "hub" => i \notin registered)
  /\ \/ child[i].runs = "hub" /\ registered' = registered \cup {i} /\ ghosts' = ghosts \ {i}
        /\ cred' = cred \cup {path} /\ UNCHANGED <<child, failures>>
     \/ Fails /\ child' = [child EXCEPT ![i].proc = "exited"]
        /\ cred' = cred \ {path} /\ UNCHANGED <<registered, ghosts>>
  /\ UNCHANGED <<userVars, scanVars, deregs>>

ChildExits(i) ==
  /\ Live(i) /\ Fails
  /\ child' = [child EXCEPT ![i].proc = "exited"]
  /\ UNCHANGED <<userVars, scanVars, hubVars, cred>>

Edit(f) ==
  /\ edits < MaxEdits
  /\ edits' = edits + 1
  /\ edited' = [edited EXCEPT ![f] = edits + 1]
  /\ \E c \in Contents : disk' = [disk EXCEPT ![f] = c]
  /\ UNCHANGED <<scanVars, hubVars, child, cred, failures>>

(* im-agentproc --pair for a direct profile.                               *)
Pair(i) ==
  /\ Managing(i) /\ child[i].profile.via = "direct"
  /\ cred' = cred \cup {CredPath(i, "direct")}
  /\ UNCHANGED <<userVars, scanVars, hubVars, child, failures>>

-----------------------------------------------------------------------------
Scan == Discover \/ (\E i \in Id : StopStale(i)) \/ MarkExited \/ RestartReady \/ StartNew

Next ==
  \/ Scan
  \/ StopAll
  \/ \E i \in Id :
       \/ ProbeEnds(i)
       \/ DelayEnds(i)
       \/ Deregister(i)
       \/ ChildConnects(i)
       \/ ChildRejected(i)
       \/ ChildExits(i)
       \/ Pair(i)
  \/ \E f \in File : Edit(f)

(* The scan timer, the probes (which have timeouts) and the restart delays *)
(* run; what children, users and the Hub do is not owed.                   *)
Fairness ==
  /\ WF_vars(Scan)
  /\ \A i \in Id : WF_vars(ProbeEnds(i)) /\ WF_vars(DelayEnds(i))

Spec == Init /\ [][Next]_vars /\ Fairness

-----------------------------------------------------------------------------
(* Properties                                                              *)

TypeOK ==
  /\ stage \in Stages
  /\ disk \in [File -> Contents]
  /\ edited \in [File -> 0 .. MaxEdits] /\ edits \in 0 .. MaxEdits
  /\ DOMAIN desired \subseteq Id /\ \A i \in DOMAIN desired : desired[i] \in Profile
  /\ stale \subseteq Id
  /\ child \in [Id -> Managed \cup {NotManaged}]
  /\ \A i \in Id : child[i].proc # "none" => child[i].state = "running"
  /\ cred \subseteq Id \X Vias
  /\ registered \subseteq Id /\ deregs \subseteq Id /\ ghosts \subseteq Id
  /\ failures \in 0 .. MaxFailures

(* README.md:55, one child bridge per YAML: no two live processes serve    *)
(* one file, although its id may change with the files around it.          *)
OneProcessPerFile ==
  \A i, j \in Id :
    Live(i) /\ Live(j) /\ child[i].profile.file = child[j].profile.file => i = j

(* A name stays registered with the Hub only while a profile has it, or is *)
(* about to get it, or its deregistration is under way or has failed.      *)
NoGhost ==
  \A n \in registered :
    \/ Managing(n) \/ n \in deregs \cup ghosts
    \/ stage \in {"stopping", "restarting", "starting"} /\ n \in DOMAIN desired
    \/ stage = "stopped"

(* Once the user leaves the files alone, the manager has, from some time   *)
(* on, exactly the profiles that parse, each under its id and as it is     *)
(* now, and the children that are up have loaded it so.                    *)
FollowsTheFiles ==
  /\ \A i \in Id : Managing(i) <=> i \in DOMAIN Discovered
  /\ \A i \in DOMAIN Discovered :
       /\ child[i].profile = Discovered[i]
       /\ child[i].proc = "up" => child[i].loaded = Discovered[i].edit
FilesAreFollowed ==
  edits = MaxEdits ~> [](stage = "stopped" \/ FollowsTheFiles)

(* A child that exited is spawned again, unless its profile goes, or waits *)
(* for a token, or the manager stops.                                      *)
ExitedChildComesBack ==
  \A i \in Id : child[i].proc = "exited" ~>
    \/ ~ Managing(i) \/ Live(i) \/ Blocked(i, child[i].profile)

=============================================================================
