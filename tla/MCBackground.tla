---------------------------- MODULE MCBackground ----------------------------
(***************************************************************************)
(* What a session start sets going in the background and nobody waits for: *)
(* the survey of a repository, the lease it is surveyed under and the      *)
(* update of the integration itself.  One behaviour follows one of them,   *)
(* chosen at the start; the variables of the others are 0.                 *)
(***************************************************************************)
EXTENDS Integers, FiniteSets

CONSTANTS
  Contenders, Nobody, MaxCrashes, MaxSuspends, MaxGlitches,
  Sessions, MaxCommits, Refresh, MaxDeletes, MaxFaults,
  Starters, MaxDays, MaxDeaths

VARIABLES
  part,
  exists, owners, stale, lapsed, pc, saw, awake, agent, budget,
  gitIngest, docs, markers, writes, head, lost, surveying, seeded, start, misread, deletes,
  faults,
  process, lock, due, dist, days, deaths

leaseVars == <<exists, owners, stale, lapsed, pc, saw, awake, agent, budget>>
startVars == <<gitIngest, docs, markers, writes, head, lost, surveying, seeded, start, misread,
               deletes, faults>>
updateVars == <<process, lock, due, dist, days, deaths>>
all == <<part, leaseVars, startVars, updateVars>>

Lease == INSTANCE SurveyLease
Start == INSTANCE SessionStart
Update == INSTANCE AutoUpdate WITH pc <- process

ASSUME BackgroundConstants ==
  /\ Nobody \notin Contenders
  /\ MaxCrashes \in Nat /\ MaxSuspends \in Nat /\ MaxGlitches \in Nat
  /\ Start!SessionStartConstants /\ Update!UpdateConstants

LeaseRests ==
  /\ exists = 0 /\ owners = 0 /\ stale = 0 /\ lapsed = 0 /\ pc = 0 /\ saw = 0 /\ awake = 0
  /\ agent = 0 /\ budget = 0
StartRests ==
  /\ gitIngest = 0 /\ docs = 0 /\ markers = 0 /\ writes = 0 /\ head = 0 /\ lost = 0
  /\ surveying = 0 /\ seeded = 0 /\ start = 0 /\ misread = 0 /\ deletes = 0 /\ faults = 0
UpdateRests ==
  /\ process = 0 /\ lock = 0 /\ due = FALSE /\ dist = 0 /\ days = 0 /\ deaths = 0

Init ==
  /\ part \in {"lease", "start", "update"}
  /\ IF part = "lease" THEN Lease!Init ELSE LeaseRests
  /\ IF part = "start" THEN Start!Init ELSE StartRests
  /\ IF part = "update" THEN Update!Init ELSE UpdateRests

LeaseNext == part = "lease" /\ Lease!Next /\ UNCHANGED <<part, startVars, updateVars>>
StartNext == part = "start" /\ Start!Next /\ UNCHANGED <<part, leaseVars, updateVars>>
UpdateNext == part = "update" /\ Update!Next /\ UNCHANGED <<part, leaseVars, startVars>>
Next == LeaseNext \/ StartNext \/ UpdateNext

\* The fairness of each part, not owed while it rests.
Owed(p, A) == part = p /\ A
Spec ==
  /\ Init /\ [][Next]_all
  /\ \A c \in Contenders :
       /\ WF_leaseVars(Owed("lease", Lease!Step(c)))
       /\ WF_leaseVars(Owed("lease", Lease!Wake(c)))
  /\ \A s \in Sessions : WF_startVars(Owed("start", Start!Hook(s, TRUE) /\ UNCHANGED faults))
  /\ \A c \in 1..MaxCommits :
       WF_startVars(Owed("start", Start!WriteBaseline(c, TRUE) /\ UNCHANGED faults))
  /\ WF_startVars(Owed("start", Start!SurveyEnds(TRUE) /\ UNCHANGED faults))
  /\ \A s \in Starters :
       /\ WF_updateVars(Owed("update", Update!Begin(s)))
       /\ WF_updateVars(Owed("update", Update!HookStep(s)))
       /\ WF_updateVars(Owed("update", Update!ChildStep(s)))

-----------------------------------------------------------------------------
\* The types of all parts.
TypeOK ==
  CASE part = "lease" -> Lease!TypeOK
    [] part = "start" -> Start!TypeOK
    [] part = "update" -> Update!TypeOK

\* A survey whose lease was taken is stopped by its supervisor, unless that has
\* died (SurveyLease).
LostSurveyEnds ==
  \A c \in Contenders :
    part = "lease" /\ agent[c] = "running" /\ c \notin owners
      ~> part # "lease" \/ agent[c] # "running" \/ pc[c] = "dead"
\* A survey that came to nothing is run again by a later session (SessionStart).
SurveyRetried == <>[](part = "start" => docs.findings)
\* A due check for an update is made in the end, whoever died with the lock
\* (AutoUpdate).
ChecksResume == Update!ChecksResume
=============================================================================
