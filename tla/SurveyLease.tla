----------------------------- MODULE SurveyLease -----------------------------
(***************************************************************************)
(* The lease that keeps one background survey per destination              *)
(* (core/survey-lease.ts, core/survey.ts): a lock directory that holds one *)
(* owner file, named by a random token, whose mtime a heartbeat refreshes. *)
(*                                                                         *)
(* Contenders share nothing but the file system, so every system call is a *)
(* step.  A contender is one attempt to survey, with the token it draws:   *)
(* first the hook that takes the lease, then the supervisor the hook hands *)
(* it to, which runs the survey agent.  Attempts may be suspended (the     *)
(* machine sleeps) and killed between any two steps.                       *)
(***************************************************************************)
EXTENDS Naturals

CONSTANTS
  Contenders,   \* attempts, and the tokens they draw
  Nobody,       \* no token
  MaxCrashes,   \* bound: hooks and supervisors killed
  MaxSuspends,  \* bound: suspensions
  MaxGlitches   \* bound: failed utimes calls and clock steps

ASSUME LeaseConstants ==
  /\ Nobody \notin Contenders
  /\ MaxCrashes \in Nat /\ MaxSuspends \in Nat /\ MaxGlitches \in Nat

VARIABLES
  exists,  \* the lock directory exists
  owners,  \* the owner files in it
  stale,   \* tokens whose file has an mtime out of the threshold
  lapsed,  \* history: tokens whose file has ever been stale
  pc,      \* control point of a contender
  saw,     \* the owner a reclaimer has read from the directory
  awake,   \* the contender's process runs
  agent,   \* its survey agent
  budget   \* faults that may still happen

vars == <<exists, owners, stale, lapsed, pc, saw, awake, agent, budget>>
dirVars == <<exists, owners>>
ageVars == <<stale, lapsed>>

\* The points at which a contender believes it holds the lease.
HolderPoints == {"held", "start", "spawn", "running"}

Points ==
  HolderPoints \cup
  {"idle", "claim", "list", "sweep", "stat", "unlink", "rmdir", "retry",
   "release", "leave", "out", "dead"}

-----------------------------------------------------------------------------
(* System calls *)

Goto(c, point) == pc' = [pc EXCEPT ![c] = point]

At(c, point) == awake[c] /\ pc[c] = point

\* Mutant of MoveIn: the owner file is created in a directory that may exist.
Mut_MoveInJoins(c) ==
  /\ exists' = TRUE
  /\ owners' = owners \cup {c}

\* rename of the staging directory onto the lock: never onto a nonempty one.
\* POSIX replaces an empty directory, Windows does not.
MoveIn(c) ==
  /\ owners = {}
  /\ exists' = TRUE
  /\ owners' = {c}

MoveInFails == exists /\ UNCHANGED dirVars

\* unlink of one owner file, by name; it may be gone already.
UnlinkOwner(o) == owners' = owners \ {o}

\* rmdir, which spares a directory with an owner in it.
RemoveIfEmpty == exists' = (exists /\ owners # {})

\* utimes: ENOENT is the only sign of a lost lease, other failures are retried.
Beat(c, kept, lost) ==
  \/ c \in owners /\ stale' = stale \ {c} /\ Goto(c, kept) /\ UNCHANGED budget
  \/ c \notin owners /\ Goto(c, lost) /\ UNCHANGED <<stale, budget>>
  \/ /\ c \in owners /\ budget.glitches > 0
     /\ budget' = [budget EXCEPT !.glitches = @ - 1]
     /\ Goto(c, kept)
     /\ UNCHANGED stale

-----------------------------------------------------------------------------
(* acquireLease and reclaimIfStale *)

\* The owner file is written into a private staging directory.
Stage(c) ==
  /\ At(c, "idle")
  /\ Goto(c, "claim")
  /\ UNCHANGED <<dirVars, ageVars, saw, awake, agent, budget>>

Claim(c) ==
  /\ At(c, "claim")
  /\ \/ MoveIn(c) /\ Goto(c, "held")
     \/ MoveInFails /\ Goto(c, "list")
  /\ UNCHANGED <<ageVars, saw, awake, agent, budget>>

\* readdir; a directory that is gone, or not of our layout, counts as held.
ListOwners(c) ==
  /\ At(c, "list")
  /\ \/ exists /\ owners = {} /\ Goto(c, "sweep") /\ UNCHANGED saw
     \/ \E o \in Contenders :
          owners = {o} /\ saw' = [saw EXCEPT ![c] = o] /\ Goto(c, "stat")
     \/ ~exists /\ Goto(c, "out") /\ UNCHANGED saw
  /\ UNCHANGED <<dirVars, ageVars, awake, agent, budget>>

Sweep(c) ==
  /\ At(c, "sweep")
  /\ RemoveIfEmpty
  /\ Goto(c, "retry")
  /\ UNCHANGED <<owners, ageVars, saw, awake, agent, budget>>

\* Mutant of StatOwner: the age of the owner file is not looked at.
Mut_StatOwnerAgeless(c) ==
  /\ At(c, "stat")
  /\ Goto(c, IF saw[c] \in owners THEN "unlink" ELSE "out")
  /\ UNCHANGED <<dirVars, ageVars, saw, awake, agent, budget>>

StatOwner(c) ==
  /\ At(c, "stat")
  /\ Goto(c, IF saw[c] \in owners \cap stale THEN "unlink" ELSE "out")
  /\ UNCHANGED <<dirVars, ageVars, saw, awake, agent, budget>>

\* Mutant of UnlinkStale: whatever is in the directory goes.
Mut_UnlinkStaleAny(c) ==
  /\ At(c, "unlink")
  /\ owners' = {}
  /\ Goto(c, IF owners # {} THEN "rmdir" ELSE "retry")
  /\ UNCHANGED <<exists, ageVars, saw, awake, agent, budget>>

\* releaseLease of the generation that was seen, whoever is in the lock by now.
UnlinkStale(c) ==
  /\ At(c, "unlink")
  /\ UnlinkOwner(saw[c])
  /\ Goto(c, IF saw[c] \in owners THEN "rmdir" ELSE "retry")
  /\ UNCHANGED <<exists, ageVars, saw, awake, agent, budget>>

RemoveStaleDirectory(c) ==
  /\ At(c, "rmdir")
  /\ RemoveIfEmpty
  /\ Goto(c, "retry")
  /\ UNCHANGED <<owners, ageVars, saw, awake, agent, budget>>

\* Mutant of Retry: the outcome of the second rename is ignored.
Mut_RetryIgnoresOutcome(c) ==
  /\ At(c, "retry")
  /\ MoveIn(c) \/ MoveInFails
  /\ Goto(c, "held")
  /\ UNCHANGED <<ageVars, saw, awake, agent, budget>>

\* The retried rename decides between racing reclaimers.
Retry(c) ==
  /\ At(c, "retry")
  /\ \/ MoveIn(c) /\ Goto(c, "held")
     \/ MoveInFails /\ Goto(c, "out")
  /\ UNCHANGED <<ageVars, saw, awake, agent, budget>>

-----------------------------------------------------------------------------
(* The hand-over to the supervisor, and the supervisor *)

\* Either the supervisor's process starts or the spawn fails and the hook
\* releases what it holds.
SpawnSupervisor(c) ==
  /\ At(c, "held")
  /\ Goto(c, "start") \/ Goto(c, "release")
  /\ UNCHANGED <<dirVars, ageVars, saw, awake, agent, budget>>

\* The first heartbeat: a lease that is gone already is somebody else's.
Supervise(c) ==
  /\ At(c, "start")
  /\ Beat(c, "spawn", "out")
  /\ UNCHANGED <<dirVars, lapsed, saw, awake, agent>>

SpawnAgent(c) ==
  /\ At(c, "spawn")
  /\ \/ Goto(c, "running") /\ agent' = [agent EXCEPT ![c] = "running"]
     \/ Goto(c, "release") /\ UNCHANGED agent
  /\ UNCHANGED <<dirVars, ageVars, saw, awake, budget>>

Kill(c) ==
  agent' = [agent EXCEPT ![c] = IF @ = "running" THEN "signalled" ELSE @]

\* Mutant of Heartbeat: a lost lease goes unnoticed.
Mut_HeartbeatForgiving(c) ==
  /\ At(c, "running")
  /\ Beat(c, "running", "running")
  /\ UNCHANGED <<dirVars, lapsed, saw, awake, agent>>

\* The agent of a lost lease is killed; the lease is left alone.
Heartbeat(c) ==
  /\ At(c, "running")
  /\ Beat(c, "running", "out")
  /\ IF c \in owners THEN UNCHANGED agent ELSE Kill(c)
  /\ UNCHANGED <<dirVars, lapsed, saw, awake>>

\* "exit" and "error" events of the child.
AgentGone(c) ==
  /\ At(c, "running")
  /\ agent[c] = "gone"
  /\ Goto(c, "release")
  /\ UNCHANGED <<dirVars, ageVars, saw, awake, agent, budget>>

\* SIGTERM, SIGINT or SIGHUP: the lease is released at once.
Stop(c) ==
  /\ At(c, "running")
  /\ Kill(c)
  /\ Goto(c, "release")
  /\ UNCHANGED <<dirVars, ageVars, saw, awake, budget>>

Release(c) ==
  /\ At(c, "release")
  /\ UnlinkOwner(c)
  /\ Goto(c, IF c \in owners THEN "leave" ELSE "out")
  /\ UNCHANGED <<exists, ageVars, saw, awake, agent, budget>>

Leave(c) ==
  /\ At(c, "leave")
  /\ RemoveIfEmpty
  /\ Goto(c, "out")
  /\ UNCHANGED <<owners, ageVars, saw, awake, agent, budget>>

-----------------------------------------------------------------------------
(* Agents, time and faults *)

\* An agent ends of itself, or of the signal it was sent.
AgentEnds(c) ==
  /\ agent[c] \in {"running", "signalled"}
  /\ agent' = [agent EXCEPT ![c] = "gone"]
  /\ UNCHANGED <<dirVars, ageVars, pc, saw, awake, budget>>

\* Six heartbeats in a row were missed: the process is suspended, dead, or not
\* yet heartbeating.  Otherwise the clock was set or utimes kept failing.
Expire(c) ==
  /\ pc[c] \notin {"idle", "out"} /\ c \notin stale
  /\ \/ /\ ~awake[c] \/ pc[c] # "running"
        /\ UNCHANGED budget
     \/ /\ At(c, "running") /\ budget.glitches > 0
        /\ budget' = [budget EXCEPT !.glitches = @ - 1]
  /\ stale' = stale \cup {c}
  /\ lapsed' = lapsed \cup {c}
  /\ UNCHANGED <<dirVars, pc, saw, awake, agent>>

Suspend(c) ==
  /\ awake[c] /\ budget.suspends > 0
  /\ awake' = [awake EXCEPT ![c] = FALSE]
  /\ budget' = [budget EXCEPT !.suspends = @ - 1]
  /\ UNCHANGED <<dirVars, ageVars, pc, saw, agent>>

Wake(c) ==
  /\ ~awake[c]
  /\ awake' = [awake EXCEPT ![c] = TRUE]
  /\ UNCHANGED <<dirVars, ageVars, pc, saw, agent, budget>>

\* The hook or the supervisor is killed.  A survey agent outlives its supervisor.
Crash(c) ==
  /\ pc[c] \notin {"idle", "out", "dead"}
  /\ budget.crashes > 0
  /\ budget' = [budget EXCEPT !.crashes = @ - 1]
  /\ Goto(c, "dead")
  /\ UNCHANGED <<dirVars, ageVars, saw, awake, agent>>

Finished ==
  /\ \A c \in Contenders : pc[c] \in {"out", "dead"}
  /\ UNCHANGED vars

-----------------------------------------------------------------------------
Init ==
  /\ exists = FALSE
  /\ owners = {}
  /\ stale = {}
  /\ lapsed = {}
  /\ pc = [c \in Contenders |-> "idle"]
  /\ saw = [c \in Contenders |-> Nobody]
  /\ awake = [c \in Contenders |-> TRUE]
  /\ agent = [c \in Contenders |-> "none"]
  /\ budget = [crashes |-> MaxCrashes, suspends |-> MaxSuspends,
               glitches |-> MaxGlitches]

Step(c) ==
  \/ Stage(c) \/ Claim(c) \/ ListOwners(c) \/ Sweep(c) \/ StatOwner(c)
  \/ UnlinkStale(c) \/ RemoveStaleDirectory(c) \/ Retry(c)
  \/ SpawnSupervisor(c) \/ Supervise(c) \/ SpawnAgent(c)
  \/ Heartbeat(c) \/ AgentGone(c) \/ Release(c) \/ Leave(c)

Fault(c) == Stop(c) \/ Expire(c) \/ Suspend(c) \/ Crash(c)

Next ==
  \/ \E c \in Contenders : Step(c) \/ AgentEnds(c) \/ Wake(c) \/ Fault(c)
  \/ Finished

Spec == Init /\ [][Next]_vars

\* Running processes take their steps, the heartbeat's timer among them, and
\* suspended machines wake up.  Nothing is assumed of how long an agent surveys.
FairSpec ==
  /\ Spec
  /\ \A c \in Contenders :
       WF_vars(Step(c)) /\ WF_vars(Wake(c))

-----------------------------------------------------------------------------
(* Properties *)

\* Every variable has its type, and the lock the layout reclaimIfStale expects.
TypeOK ==
  /\ exists \in BOOLEAN
  /\ owners \subseteq Contenders
  /\ owners # {} => exists
  /\ \A o, p \in owners : o = p
  /\ stale \subseteq Contenders
  /\ lapsed \subseteq Contenders
  /\ pc \in [Contenders -> Points]
  /\ saw \in [Contenders -> Contenders \cup {Nobody}]
  /\ awake \in [Contenders -> BOOLEAN]
  /\ agent \in [Contenders -> {"none", "running", "signalled", "gone"}]
  /\ budget \in [crashes : Nat, suspends : Nat, glitches : Nat]

\* Whoever believes to hold the lease holds it, alone, until its file has gone
\* stale: neither a releaser nor a reclaimer that acts on what it read earlier
\* takes the file of a live holder with it (acquireLease, releaseLease).
HolderOwns ==
  \A c \in Contenders :
    pc[c] \in HolderPoints /\ c \notin lapsed => exists /\ owners = {c}

\* Two surveys run at a time only if the file of one of them has been stale: its
\* machine slept, its clock was set, or its supervisor is dead.
SurveysExclude ==
  \A c, d \in Contenders :
    agent[c] = "running" /\ agent[d] = "running" /\ c # d =>
      lapsed \cap {c, d} # {}

\* An owner file is removed by its own contender or once it has been stale, also
\* by a reclaimer that was overtaken by the owner's next heartbeat.
OwnersKeepTheirFile ==
  [][\A c \in owners \ owners' : pc[c] = "release" \/ c \in lapsed]_vars

\* A survey whose lease was taken is stopped by its supervisor, unless that has
\* died (superviseSurvey).
LostSurveyEnds ==
  \A c \in Contenders :
    agent[c] = "running" /\ c \notin owners ~> agent[c] # "running" \/ pc[c] = "dead"

\* "a reclaimed lease never leaves two surveys running": of two surveys one is at
\* least about to be killed by its supervisor.
ReclaimLeavesOneSurvey ==
  \A c, d \in Contenders :
    agent[c] = "running" /\ agent[d] = "running" /\ c # d =>
      \E s \in {c, d} : s \notin owners /\ pc[s] = "running"
=============================================================================
