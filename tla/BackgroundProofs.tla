-------------------------- MODULE BackgroundProofs --------------------------
(***************************************************************************)
(* What a session start sets going keeps its types: the lease of the       *)
(* survey, the bank and the hooks of SessionStart, the lock and the        *)
(* processes of AutoUpdate.                                                *)
(***************************************************************************)
EXTENDS MCBackground, TLAPS

-----------------------------------------------------------------------------
(* The lease *)

\* Every step of a contender and of its surroundings keeps the lease's types.
LEMMA LeaseStep ==
  ASSUME Lease!TypeOK, Lease!Next
  PROVE  Lease!TypeOK'
<1> USE DEF Lease!TypeOK, Lease!Points, Lease!HolderPoints, Lease!Goto, Lease!At, Lease!dirVars,
            Lease!ageVars
<1>1. CASE Lease!Finished
  BY <1>1 DEF Lease!Finished, Lease!vars
<1>2. ASSUME NEW c \in Contenders,
             Lease!Step(c) \/ Lease!AgentEnds(c) \/ Lease!Wake(c) \/ Lease!Fault(c)
      PROVE  Lease!TypeOK'
  <2>1. CASE Lease!Stage(c)
    BY <2>1 DEF Lease!Stage
  <2>2. CASE Lease!Claim(c) \/ Lease!Retry(c)
    BY <2>2, ZenonT(40) DEF Lease!Claim, Lease!Retry, Lease!MoveIn, Lease!MoveInFails
  <2>3. CASE Lease!ListOwners(c)
    BY <2>3 DEF Lease!ListOwners
  <2>4. CASE Lease!Sweep(c) \/ Lease!RemoveStaleDirectory(c) \/ Lease!Leave(c)
    BY <2>4, ZenonT(40) DEF Lease!Sweep, Lease!RemoveStaleDirectory, Lease!Leave,
                            Lease!RemoveIfEmpty
  <2>5. CASE Lease!StatOwner(c)
    BY <2>5 DEF Lease!StatOwner
  <2>6. CASE Lease!UnlinkStale(c) \/ Lease!Release(c)
    BY <2>6 DEF Lease!UnlinkStale, Lease!Release, Lease!UnlinkOwner
  <2>7. CASE Lease!SpawnSupervisor(c) \/ Lease!SpawnAgent(c) \/ Lease!AgentGone(c)
    BY <2>7 DEF Lease!SpawnSupervisor, Lease!SpawnAgent, Lease!AgentGone
  <2>8. CASE Lease!Supervise(c)
    BY <2>8 DEF Lease!Supervise, Lease!Beat
  <2>9. CASE Lease!Heartbeat(c)
    BY <2>9 DEF Lease!Heartbeat, Lease!Beat, Lease!Kill
  <2>10. CASE Lease!AgentEnds(c) \/ Lease!Wake(c)
    BY <2>10 DEF Lease!AgentEnds, Lease!Wake
  <2>11. CASE Lease!Stop(c)
    BY <2>11 DEF Lease!Stop, Lease!Kill
  <2>12. CASE Lease!Expire(c)
    BY <2>12 DEF Lease!Expire
  <2>13. CASE Lease!Suspend(c)
    BY <2>13 DEF Lease!Suspend
  <2>14. CASE Lease!Crash(c)
    BY <2>14 DEF Lease!Crash
  <2> QED
    BY <1>2, <2>1, <2>2, <2>3, <2>4, <2>5, <2>6, <2>7, <2>8, <2>9, <2>10, <2>11, <2>12, <2>13,
       <2>14 DEF Lease!Step, Lease!Fault
<1> QED BY <1>1, <1>2 DEF Lease!Next

-----------------------------------------------------------------------------
(* The hooks of a session start *)

Hooks ==
  [point : {"idle", "git", "markers", "documents", "uploads", "decide"}, git : BOOLEAN,
   markers : SUBSET (0..MaxCommits), empty : BOOLEAN, findings : BOOLEAN, truth : BOOLEAN]

\* TypeOK says nothing of what a hook carries, which it needs to be kept.
StartTypes ==
  /\ Start!TypeOK
  /\ gitIngest \in BOOLEAN /\ start \in [Sessions -> Hooks] /\ faults \in 0..MaxFaults
  /\ surveying \in BOOLEAN /\ seeded \in BOOLEAN /\ misread \in BOOLEAN /\ deletes \in 0..MaxDeletes

\* The steps of a hook keep the types of the bank and of the hooks.
LEMMA HookTypes ==
  ASSUME StartTypes, NEW s \in Sessions, NEW ok \in BOOLEAN, Start!Hook(s, ok) \/ Start!Begin(s)
  PROVE  Start!TypeOK' /\ start' \in [Sessions -> Hooks] /\ UNCHANGED <<gitIngest, deletes>>
         /\ seeded' \in BOOLEAN /\ surveying' \in BOOLEAN /\ misread' \in BOOLEAN
<1> USE DEF StartTypes, Start!TypeOK, Start!At, Start!Go, Start!bank, Start!repo, Start!engine
<1>1. CASE Start!Begin(s)
  BY <1>1 DEF Start!Begin, Start!Idle, Hooks
<1>2. CASE Start!ListGit(s, ok)
  <2>1. start' = [start EXCEPT ![s] = Start!Idle]
        \/ start' = [start EXCEPT ![s] = [start[s] EXCEPT !.point = "markers", !.git = docs.git]]
    BY <1>2 DEF Start!ListGit
  <2>2. Start!Idle \in Hooks
    BY DEF Start!Idle, Hooks
  <2>3. [start[s] EXCEPT !.point = "markers", !.git = docs.git] \in Hooks
    BY DEF Hooks
  <2>4. start' \in [Sessions -> Hooks]
    BY <2>1, <2>2, <2>3
  <2>5. UNCHANGED <<docs, markers, writes, head, lost, gitIngest, deletes, seeded, surveying, misread>>
    BY <1>2 DEF Start!ListGit
  <2> QED BY <2>4, <2>5 DEF Hooks
<1>3. CASE Start!ListMarkers(s, ok)
  <2> DEFINE hook == [start[s] EXCEPT !.markers = IF ok THEN markers ELSE Start!Unread]
             point == IF Start!Cold(hook) THEN "documents" ELSE "uploads"
  <2>1. markers \in SUBSET (0..MaxCommits) /\ Start!Unread \in SUBSET (0..MaxCommits)
    BY BackgroundConstants DEF Start!Unread, Start!SessionStartConstants
  <2>2. hook \in Hooks
    BY <2>1 DEF Hooks
  <2>3. point \in {"documents", "uploads"}
    OBVIOUS
  <2>4. start' = [start EXCEPT ![s] = [hook EXCEPT !.point = point]]
    BY <1>3 DEF Start!ListMarkers
  <2>5. UNCHANGED <<docs, markers, writes, head, lost, gitIngest, deletes, seeded, surveying, misread>>
    BY <1>3 DEF Start!ListMarkers
  <2> HIDE DEF hook, point
  <2>6. [hook EXCEPT !.point = point] \in Hooks
    BY <2>2, <2>3 DEF Hooks
  <2>7. start' \in [Sessions -> Hooks]
    BY <2>4, <2>6
  <2> QED BY <2>5, <2>7 DEF Hooks
<1>4. CASE Start!ListDocuments(s, ok)
  <2>1. Start!ConfirmedEmpty(ok) \in BOOLEAN
    BY DEF Start!ConfirmedEmpty, Start!BankEmpty
  <2> DEFINE hook == [start[s] EXCEPT !.point = "decide", !.empty = Start!ConfirmedEmpty(ok)]
  <2>2. start' = [start EXCEPT ![s] = hook]
    BY <1>4 DEF Start!ListDocuments
  <2>3. UNCHANGED <<docs, markers, writes, head, lost, gitIngest, deletes, seeded, surveying, misread>>
    BY <1>4 DEF Start!ListDocuments
  <2>4. hook \in Hooks
    BY <2>1 DEF Hooks
  <2> HIDE DEF hook
  <2>5. start' \in [Sessions -> Hooks]
    BY <2>2, <2>4
  <2> QED BY <2>3, <2>5 DEF Hooks
<1>5. CASE Start!ListUploads(s, ok)
  <2> DEFINE found == ok /\ docs.findings
             hook == [start[s] EXCEPT !.point = "decide", !.findings = found, !.truth = docs.findings]
  <2>1. found \in BOOLEAN /\ docs.findings \in BOOLEAN
    OBVIOUS
  <2>2. start' = [start EXCEPT ![s] = hook]
    BY <1>5 DEF Start!ListUploads
  <2>3. UNCHANGED <<docs, markers, writes, head, lost, gitIngest, deletes, seeded, surveying, misread>>
    BY <1>5 DEF Start!ListUploads
  <2> HIDE DEF found
  <2>4. hook \in Hooks
    BY <2>1 DEF Hooks
  <2> HIDE DEF hook
  <2>5. start' \in [Sessions -> Hooks]
    BY <2>2, <2>4
  <2> QED BY <2>3, <2>5 DEF Hooks
<1>6. CASE Start!Decide(s, ok)
  <2>1. start' \in [Sessions -> Hooks]
    BY <1>6 DEF Start!Decide, Start!Idle, Hooks
  <2>2. writes' \subseteq 1..MaxCommits
    BY <1>6 DEF Start!Decide
  <2>3. UNCHANGED <<docs, markers, head, lost, gitIngest, deletes>>
    BY <1>6 DEF Start!Decide
  <2>4. seeded' \in BOOLEAN /\ surveying' \in BOOLEAN /\ misread' \in BOOLEAN
    BY <1>6 DEF Start!Decide
  <2> QED BY <2>1, <2>2, <2>3, <2>4 DEF Hooks
<1> QED BY <1>1, <1>2, <1>3, <1>4, <1>5, <1>6 DEF Start!Hook

\* What happens around the hooks, and every step, keeps the types.
LEMMA StartStep ==
  ASSUME StartTypes, Start!Next
  PROVE  StartTypes'
<1> USE DEF Start!bank, Start!repo, Start!engine
<1>1. ASSUME NEW ok \in BOOLEAN, Start!Fallible(ok), faults' \in 0..MaxFaults
      PROVE  StartTypes'
  <2>1. CASE \E s \in Sessions : Start!Hook(s, ok)
    BY <1>1, <2>1, HookTypes DEF StartTypes
  <2>2. ASSUME NEW c \in writes, Start!WriteBaseline(c, ok)
        PROVE  StartTypes'
    BY <1>1, <2>2 DEF StartTypes, Start!TypeOK, Start!WriteBaseline
  <2>3. CASE Start!SurveyEnds(ok)
    <3> DEFINE found == docs.findings \/ ok
    <3>1. found \in BOOLEAN /\ docs' = [docs EXCEPT !.findings = found]
      BY <2>3 DEF Start!SurveyEnds
    <3> HIDE DEF found
    <3>2. docs' \in [git : BOOLEAN, findings : BOOLEAN, other : BOOLEAN]
      BY <3>1 DEF StartTypes, Start!TypeOK
    <3>3. surveying' = FALSE
          /\ UNCHANGED <<markers, writes, deletes, gitIngest, head, lost, seeded, misread, start>>
      BY <2>3 DEF Start!SurveyEnds
    <3> QED BY <1>1, <3>2, <3>3 DEF StartTypes, Start!TypeOK
  <2> QED BY <1>1, <2>1, <2>2, <2>3 DEF Start!Fallible
<1>2. CASE Start!Fallible(TRUE) /\ UNCHANGED faults
  BY <1>1, <1>2 DEF StartTypes
<1>3. CASE Start!Fallible(FALSE) /\ faults < MaxFaults /\ faults' = faults + 1
  <2>1. faults' \in 0..MaxFaults
    BY <1>3, BackgroundConstants DEF StartTypes, Start!SessionStartConstants
  <2> QED BY <1>1, <1>3, <2>1
<1>4. CASE UNCHANGED faults /\ Start!Ingest
  BY <1>4 DEF StartTypes, Start!TypeOK, Start!Ingest
<1>5. CASE UNCHANGED faults /\ Start!DeleteBank
  BY <1>5, BackgroundConstants
  DEF StartTypes, Start!TypeOK, Start!DeleteBank, Start!NoDocs, Start!SessionStartConstants
<1>6. ASSUME NEW rewritten \in BOOLEAN, UNCHANGED faults, Start!Commit(rewritten)
      PROVE  StartTypes'
  <2>1. head' \in 1..MaxCommits /\ lost' \in 0..MaxCommits
    BY <1>6, BackgroundConstants
    DEF StartTypes, Start!TypeOK, Start!Commit, Start!SessionStartConstants
  <2> QED BY <1>6, <2>1 DEF StartTypes, Start!TypeOK, Start!Commit
<1> QED BY <1>2, <1>3, <1>4, <1>5, <1>6 DEF Start!Next

-----------------------------------------------------------------------------
(* The updater *)

\* Every step of a session start, an updater and of time keeps the types.
LEMMA UpdateStep ==
  ASSUME Update!TypeOK, Update!Next
  PROVE  Update!TypeOK'
<1> USE DEF Update!TypeOK
<1>1. \A s \in Starters : Update!Hook(s) \in Update!Processes /\ Update!Child(s) \in Update!Processes
  BY DEF Update!Processes
<1>3. Update!Released \in [pid : Update!Processes \cup {Update!NoOne}, fresh : BOOLEAN]
  BY DEF Update!Released
<1>4. \A p : Update!Orphaned(p) \in [pid : Update!Processes \cup {Update!NoOne}, fresh : BOOLEAN]
  BY DEF Update!Orphaned
<1>5. ASSUME NEW s \in Starters, Update!Begin(s) \/ Update!HookStep(s) \/ Update!ChildStep(s)
      PROVE  Update!TypeOK'
  <2>1. CASE Update!Begin(s)
    BY <1>1, <2>1 DEF Update!Begin
  <2>2. CASE Update!ReadLock(s)
    BY <1>1, <2>2 DEF Update!ReadLock
  <2>3. CASE Update!ClaimLock(s)
    BY <1>1, <2>3 DEF Update!ClaimLock
  <2>4. CASE Update!NothingNewer(s)
    BY <1>1, <1>3, <2>4 DEF Update!NothingNewer
  <2>5. CASE Update!SpawnUpdater(s)
    BY <1>1, <2>5 DEF Update!SpawnUpdater
  <2>6. CASE Update!RemoveDist(s)
    BY <1>1, <2>6 DEF Update!RemoveDist
  <2>7. CASE Update!CopyDist(s)
    BY <1>1, <1>4, <2>7 DEF Update!CopyDist
  <2> QED BY <1>5, <2>1, <2>2, <2>3, <2>4, <2>5, <2>6, <2>7 DEF Update!HookStep, Update!ChildStep
<1>6. ASSUME NEW s \in Starters, Update!LockUnwritable(s)
      PROVE  Update!TypeOK'
  BY <1>1, <1>6, BackgroundConstants DEF Update!LockUnwritable, Update!UpdateConstants
<1>7. ASSUME NEW p \in Update!Processes, Update!Die(p)
      PROVE  Update!TypeOK'
  BY <1>3, <1>4, <1>7, BackgroundConstants DEF Update!Die, Update!UpdateConstants
<1>8. CASE Update!LockAges
  BY <1>8 DEF Update!LockAges
<1>9. CASE Update!DayPasses
  BY <1>9, BackgroundConstants DEF Update!DayPasses, Update!UpdateConstants
<1> QED BY <1>5, <1>6, <1>7, <1>8, <1>9 DEF Update!Next

-----------------------------------------------------------------------------
(* All of them *)

Types ==
  /\ part \in {"lease", "start", "update"}
  /\ part = "lease" => Lease!TypeOK
  /\ part = "start" => StartTypes
  /\ part = "update" => Update!TypeOK

\* Types hold at the start, whichever part a behaviour follows.
LEMMA InitTypes ==
  ASSUME Init
  PROVE  Types
<1>1. CASE part = "lease"
  <2>1. Lease!Init
    BY <1>1 DEF Init
  <2>2. Lease!TypeOK
    BY <2>1, BackgroundConstants DEF Lease!Init, Lease!TypeOK, Lease!Points, Lease!HolderPoints
  <2> QED BY <1>1, <2>2 DEF Types
<1>2. CASE part = "start"
  <2>1. Start!Init
    BY <1>2 DEF Init
  <2>2. /\ markers \subseteq 1..MaxCommits /\ writes \subseteq 1..MaxCommits
        /\ head \in 1..MaxCommits /\ lost \in 0..MaxCommits
        /\ faults \in 0..MaxFaults /\ deletes \in 0..MaxDeletes
    BY <2>1, BackgroundConstants DEF Start!Init, Start!SessionStartConstants
  <2>3. docs \in [git : BOOLEAN, findings : BOOLEAN, other : BOOLEAN]
    <3>1. docs = Start!NoDocs \/ docs = [Start!NoDocs EXCEPT !.other = TRUE]
      BY <2>1 DEF Start!Init
    <3>2. CASE docs = Start!NoDocs
      BY <3>2 DEF Start!NoDocs
    <3>3. CASE docs = [Start!NoDocs EXCEPT !.other = TRUE]
      BY <3>3 DEF Start!NoDocs
    <3> QED BY <3>1, <3>2, <3>3
  <2>4. start \in [Sessions -> Hooks]
    BY <2>1 DEF Start!Init, Start!Idle, Hooks
  <2>5. /\ gitIngest \in BOOLEAN /\ surveying \in BOOLEAN /\ seeded \in BOOLEAN
        /\ misread \in BOOLEAN
    BY <2>1 DEF Start!Init
  <2>6. Start!TypeOK
    BY <2>2, <2>3, <2>4 DEF Start!TypeOK, Hooks
  <2>7. StartTypes
    BY <2>2, <2>4, <2>5, <2>6 DEF StartTypes
  <2> QED BY <1>2, <2>7 DEF Types
<1>3. CASE part = "update"
  <2>1. Update!Init
    BY <1>3 DEF Init
  <2>2. Update!TypeOK
    BY <2>1, BackgroundConstants
    DEF Update!Init, Update!TypeOK, Update!Released, Update!UpdateConstants
  <2> QED BY <1>3, <2>2 DEF Types
<1> QED BY <1>1, <1>2, <1>3 DEF Init

\* A step of one part leaves the others at rest.
LEMMA NextTypes ==
  ASSUME Types, [Next]_all
  PROVE  Types'
<1>1. CASE LeaseNext
  BY <1>1, LeaseStep DEF LeaseNext, Types
<1>2. CASE StartNext
  BY <1>2, StartStep DEF StartNext, Types
<1>3. CASE UpdateNext
  BY <1>3, UpdateStep DEF UpdateNext, Types
<1>4. CASE UNCHANGED all
  <2>1. UNCHANGED <<part, leaseVars, startVars, updateVars>>
    BY <1>4 DEF all
  <2>2. Lease!TypeOK => Lease!TypeOK'
    BY <2>1 DEF leaseVars, Lease!TypeOK, Lease!Points, Lease!HolderPoints
  <2>3. StartTypes => StartTypes'
    BY <2>1 DEF startVars, StartTypes, Start!TypeOK
  <2>4. Update!TypeOK => Update!TypeOK'
    BY <2>1 DEF updateVars, Update!TypeOK, Update!Processes, Update!NoOne, Update!Hook, Update!Child
  <2> QED BY <2>1, <2>2, <2>3, <2>4 DEF Types
<1> QED BY <1>1, <1>2, <1>3, <1>4 DEF Next

\* Whatever a session start sets going keeps its types: one owner file at most
\* under the lock (acquireLease), baselines of commits that were made
\* (buildSessionStartContext), a lock of a process or of nobody (acquireUpdateLock).
THEOREM BackgroundTypes == Spec => []TypeOK
<1>1. Init => Types
  BY InitTypes
<1>2. Types /\ [Next]_all => Types'
  BY NextTypes
<1>3. Types => TypeOK
  BY DEF Types, StartTypes, TypeOK
<1> QED BY <1>1, <1>2, <1>3, PTL DEF Spec
=============================================================================
