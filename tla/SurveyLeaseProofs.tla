-------------------------- MODULE SurveyLeaseProofs --------------------------
(***************************************************************************)
(* The lease excludes: for any number of contenders and any faults, the    *)
(* safety properties of SurveyLease hold.                                  *)
(*                                                                         *)
(* HolderOwns is not inductive.  A reclaimer removes a file by a name it   *)
(* has read before, so the proof needs that what it is about to remove has *)
(* lapsed (SeenLapsed); and an agent outlives its supervisor, so the proof *)
(* of exclusion needs to know where the file of its contender is           *)
(* (AgentsOwn).                                                            *)
(***************************************************************************)
EXTENDS SurveyLease, TLAPS

\* What a reclaimer is about to unlink has been stale.
SeenLapsed ==
  /\ stale \subseteq lapsed
  /\ \A c \in Contenders : pc[c] = "unlink" => saw[c] \in lapsed

\* A surveying agent has a supervisor that lives or was killed, and its file is
\* the one in the lock until it has been stale.
AgentsOwn ==
  \A c \in Contenders :
    agent[c] = "running" =>
      pc[c] \in {"running", "dead"} /\ (c \in lapsed \/ owners = {c})

LeaseInv == TypeOK /\ HolderOwns /\ SeenLapsed /\ AgentsOwn

\* Holders and agents of the contenders that do not move.
Bystanders(c) ==
  \A d \in Contenders \ {c} :
    owners = {d} /\ exists /\ d \notin lapsed' => owners' = {d} /\ exists'

USE DEF Goto, At, dirVars, ageVars

LEMMA InitLease ==
  ASSUME Init
  PROVE  LeaseInv
BY LeaseConstants DEF Init, LeaseInv, TypeOK, Points, HolderPoints, HolderOwns, SeenLapsed, AgentsOwn

\* Steps of a contender leave the file of a live holder in its place.
LEMMA StepSpares ==
  ASSUME LeaseInv, NEW c \in Contenders, Step(c)
  PROVE  Bystanders(c)
<1> USE DEF LeaseInv, TypeOK, SeenLapsed, Bystanders
<1>1. CASE Claim(c) \/ Retry(c)
  BY <1>1 DEF Claim, Retry, MoveIn, MoveInFails
<1>2. CASE UnlinkStale(c)
  BY <1>2 DEF UnlinkStale, UnlinkOwner
<1>3. CASE Sweep(c) \/ RemoveStaleDirectory(c) \/ Leave(c)
  BY <1>3 DEF Sweep, RemoveStaleDirectory, Leave, RemoveIfEmpty
<1>4. CASE Release(c)
  BY <1>4 DEF Release, UnlinkOwner
<1>5. CASE \/ Stage(c) \/ ListOwners(c) \/ StatOwner(c) \/ SpawnSupervisor(c)
           \/ Supervise(c) \/ SpawnAgent(c) \/ Heartbeat(c) \/ AgentGone(c)
  BY <1>5 DEF Stage, ListOwners, StatOwner, SpawnSupervisor, Supervise, SpawnAgent,
              Heartbeat, AgentGone
<1> QED BY <1>1, <1>2, <1>3, <1>4, <1>5 DEF Step

\* A contender that takes a step has the types right and finds itself the owner
\* at the holder's points.
LEMMA StepMoves ==
  ASSUME LeaseInv, NEW c \in Contenders, Step(c)
  PROVE  /\ TypeOK'
         /\ SeenLapsed'
         /\ lapsed' = lapsed
         /\ \A d \in Contenders \ {c} : pc'[d] = pc[d] /\ agent'[d] = agent[d]
         /\ pc'[c] \in HolderPoints /\ c \notin lapsed => exists' /\ owners' = {c}
         /\ agent'[c] = "running" =>
              pc'[c] = "running" /\ (c \in lapsed \/ owners' = {c})
<1> USE DEF LeaseInv, TypeOK, Points, HolderPoints, HolderOwns, SeenLapsed, AgentsOwn
<1>1. CASE Stage(c)
  BY <1>1 DEF Stage
<1>2. CASE Claim(c) \/ Retry(c)
  BY <1>2, ZenonT(40) DEF Claim, Retry, MoveIn, MoveInFails
<1>3. CASE ListOwners(c)
  BY <1>3 DEF ListOwners
<1>4. CASE Sweep(c) \/ RemoveStaleDirectory(c) \/ Leave(c)
  BY <1>4, ZenonT(40) DEF Sweep, RemoveStaleDirectory, Leave, RemoveIfEmpty
<1>5. CASE StatOwner(c)
  BY <1>5 DEF StatOwner
<1>6. CASE UnlinkStale(c) \/ Release(c)
  BY <1>6 DEF UnlinkStale, Release, UnlinkOwner
<1>7. CASE SpawnSupervisor(c) \/ SpawnAgent(c) \/ AgentGone(c)
  BY <1>7 DEF SpawnSupervisor, SpawnAgent, AgentGone
<1>8. CASE Supervise(c)
  BY <1>8 DEF Supervise, Beat
<1>9. CASE Heartbeat(c)
  BY <1>9 DEF Heartbeat, Beat, Kill
<1> QED BY <1>1, <1>2, <1>3, <1>4, <1>5, <1>6, <1>7, <1>8, <1>9 DEF Step

LEMMA StepInv ==
  ASSUME LeaseInv, NEW c \in Contenders, Step(c)
  PROVE  LeaseInv'
<1>1. HolderOwns'
  BY StepMoves, StepSpares DEF LeaseInv, HolderOwns, Bystanders
<1>2. AgentsOwn'
  <2> SUFFICES ASSUME NEW d \in Contenders, agent'[d] = "running"
               PROVE  /\ pc'[d] \in {"running", "dead"}
                      /\ d \in lapsed' \/ owners' = {d}
    BY DEF AgentsOwn
  <2>1. CASE d = c
    BY <2>1, StepMoves
  <2>2. CASE d # c
    <3>1. /\ pc[d] \in {"running", "dead"} /\ pc'[d] = pc[d] /\ lapsed' = lapsed
          /\ d \in lapsed \/ owners = {d}
      BY <2>2, StepMoves DEF LeaseInv, AgentsOwn
    <3>2. owners = {d} => exists
      BY DEF LeaseInv, TypeOK
    <3> QED BY <2>2, <3>1, <3>2, StepSpares DEF Bystanders
  <2> QED BY <2>1, <2>2
<1> QED BY <1>1, <1>2, StepMoves DEF LeaseInv

\* Time, signals, suspensions, crashes and the ends of agents touch no file.
LEMMA OutsideInv ==
  ASSUME LeaseInv, NEW c \in Contenders, AgentEnds(c) \/ Wake(c) \/ Fault(c)
  PROVE  LeaseInv'
<1> USE DEF LeaseInv, TypeOK, Points, HolderPoints, HolderOwns, SeenLapsed, AgentsOwn
<1>1. CASE AgentEnds(c)
  BY <1>1 DEF AgentEnds
<1>2. CASE Wake(c)
  BY <1>2 DEF Wake
<1>3. CASE Stop(c)
  BY <1>3 DEF Stop, Kill
<1>4. CASE Expire(c)
  BY <1>4 DEF Expire
<1>5. CASE Suspend(c)
  BY <1>5 DEF Suspend
<1>6. CASE Crash(c)
  BY <1>6 DEF Crash
<1> QED BY <1>1, <1>2, <1>3, <1>4, <1>5, <1>6 DEF Fault

LEMMA StutterInv ==
  ASSUME LeaseInv, UNCHANGED vars
  PROVE  LeaseInv'
BY DEF vars, LeaseInv, TypeOK, HolderOwns, SeenLapsed, AgentsOwn

\* The lease's invariant: types and layout, ownership, what reclaimers have seen.
THEOREM LeaseInvariance == Spec => []LeaseInv
<1>1. Init => LeaseInv
  BY InitLease
<1>2. LeaseInv /\ [Next]_vars => LeaseInv'
  BY StepInv, OutsideInv, StutterInv DEF Next, Finished
<1> QED BY <1>1, <1>2, PTL DEF Spec

\* The lock keeps the layout reclaimIfStale expects: one owner file at most.
THEOREM LeaseTypes == Spec => []TypeOK
<1>1. LeaseInv => TypeOK
  BY DEF LeaseInv
<1> QED BY <1>1, LeaseInvariance, PTL

\* Who holds the lease holds it alone until its file has been stale.
THEOREM HoldersOwn == Spec => []HolderOwns
<1>1. LeaseInv => HolderOwns
  BY DEF LeaseInv
<1> QED BY <1>1, LeaseInvariance, PTL

\* Two surveys run together only if the file of one of them has been stale.
THEOREM SurveysAlwaysExclude == Spec => []SurveysExclude
<1>1. LeaseInv => SurveysExclude
  BY DEF LeaseInv, AgentsOwn, SurveysExclude
<1> QED BY <1>1, LeaseInvariance, PTL

\* Nobody but its own contender removes a file that has never been stale.
THEOREM OwnersAlwaysKeepTheirFile == Spec => OwnersKeepTheirFile
<1>1. LeaseInv /\ [Next]_vars =>
        [\A c \in owners \ owners' : pc[c] = "release" \/ c \in lapsed]_vars
  <2> SUFFICES ASSUME LeaseInv, Next, NEW d \in owners \ owners'
               PROVE  pc[d] = "release" \/ d \in lapsed
    OBVIOUS
  <2>1. PICK c \in Contenders : Step(c) \/ AgentEnds(c) \/ Wake(c) \/ Fault(c)
    BY DEF Next, Finished, vars
  <2>2. CASE Step(c)
    <3>1. CASE UnlinkStale(c)
      BY <3>1 DEF UnlinkStale, UnlinkOwner, LeaseInv, SeenLapsed
    <3>2. CASE Release(c)
      BY <3>2 DEF Release, UnlinkOwner
    <3>3. CASE Claim(c) \/ Retry(c)
      BY <3>3 DEF Claim, Retry, MoveIn, MoveInFails
    <3>4. CASE ~(UnlinkStale(c) \/ Release(c) \/ Claim(c) \/ Retry(c))
      BY <2>2, <3>4 DEF Step, Stage, ListOwners, Sweep, StatOwner, RemoveStaleDirectory,
                        SpawnSupervisor, Supervise, SpawnAgent, Heartbeat, AgentGone, Leave
    <3> QED BY <3>1, <3>2, <3>3, <3>4
  <2>3. CASE AgentEnds(c) \/ Wake(c) \/ Fault(c)
    BY <2>3 DEF AgentEnds, Wake, Fault, Stop, Expire, Suspend, Crash
  <2> QED BY <2>1, <2>2, <2>3
<1> QED BY <1>1, LeaseInvariance, PTL DEF Spec, OwnersKeepTheirFile
=============================================================================
