----------------------------- MODULE AutoUpdate -----------------------------
(***************************************************************************)
(* core/auto-update.ts: once a day a session start asks npm for the        *)
(* published version and spawns a detached updater, which replaces the     *)
(* staged runtime (stageRuntime inside a transaction of its own).          *)
(*                                                                         *)
(* Several session starts run at once, each a process; the lock file is    *)
(* read in one step and written in another.  A process of this module is   *)
(* <<"hook", s>> or the updater it spawned, <<"child", s>>.                *)
(***************************************************************************)
EXTENDS Naturals, FiniteSets

CONSTANTS
    Starters,      \* session starts, numbered
    MaxDays,       \* how often the check interval elapses
    MaxDeaths      \* processes that die in the middle, and lock files that cannot be written

\* The modules that instantiate this one assume it.
UpdateConstants == MaxDays \in Nat /\ MaxDeaths \in Nat

NoOne == <<"nobody", 0>>
Hook(s) == <<"hook", s>>
Child(s) == <<"child", s>>
Processes == {Hook(s) : s \in Starters} \cup {Child(s) : s \in Starters}

VARIABLES
    pc,            \* process -> where it is
    lock,          \* auto-update.lock: the pid in it and whether it is younger than LOCK_STALE_MS
    due,           \* dueForCheck: the last stamp is older than CHECK_INTERVAL_MS
    dist,          \* the staged runtime: "old", "new", or "gone" while it is being replaced
    days, deaths

updateVars == <<pc, lock, due, dist, days, deaths>>
Released == [pid |-> NoOne, fresh |-> FALSE]
Resting == {"off"}

Init ==
    /\ pc = [p \in Processes |-> "off"]
    /\ lock = Released /\ due = TRUE /\ dist = "old" /\ days = 0 /\ deaths = 0

Alive(p) == p \in Processes /\ pc[p] \notin Resting

(* The lock after its holder p has ended: its pid is nobody's any more (a  *)
(* pid the system gives to another process is left to LOCK_STALE_MS).      *)
Orphaned(p) == IF lock.pid = p THEN [lock EXCEPT !.pid = NoOne] ELSE lock

(* maybeAutoUpdate up to the lock: the interval, the ownership marker and  *)
(* npx on PATH.  A runtime npx did not download, or no npx, only stamps.   *)
Begin(s) ==
    /\ pc[Hook(s)] = "off" /\ due /\ dist # "gone"
    /\ \/ pc' = [pc EXCEPT ![Hook(s)] = "read"] /\ UNCHANGED due
       \/ due' = FALSE /\ UNCHANGED pc
    /\ UNCHANGED <<lock, dist, days, deaths>>

\* Mutant of Held: a lock is honoured though its holder is dead.
Mut_HeldByTheDead == lock.fresh

(* acquireUpdateLock, the reading half: a lock held by a living process    *)
(* and not yet stale ends the attempt.                                     *)
Held == lock.fresh /\ Alive(lock.pid)
ReadLock(s) ==
    /\ pc[Hook(s)] = "read"
    /\ pc' = [pc EXCEPT ![Hook(s)] = IF Held THEN "off" ELSE "claim"]
    /\ UNCHANGED <<lock, due, dist, days, deaths>>

(* ... and the writing half; a lock that cannot be written ends it as well.*)
ClaimLock(s) ==
    /\ pc[Hook(s)] = "claim"
    /\ pc' = [pc EXCEPT ![Hook(s)] = "view"] /\ lock' = [pid |-> Hook(s), fresh |-> TRUE]
    /\ UNCHANGED <<due, dist, days, deaths>>
LockUnwritable(s) ==
    /\ pc[Hook(s)] = "claim" /\ deaths < MaxDeaths
    /\ pc' = [pc EXCEPT ![Hook(s)] = "off"] /\ deaths' = deaths + 1
    /\ UNCHANGED <<lock, due, dist, days>>

(* npm view answers, fails or is killed at its deadline: the check is      *)
(* stamped.  Nothing newer releases the lock, whoever holds it by now.     *)
NothingNewer(s) ==
    /\ pc[Hook(s)] = "view"
    /\ due' = FALSE
    /\ pc' = [pc EXCEPT ![Hook(s)] = "off"] /\ lock' = Released
    /\ UNCHANGED <<dist, days, deaths>>

(* A newer release: spawn the detached updater and hand it the lock.       *)
SpawnUpdater(s) ==
    /\ pc[Hook(s)] = "view" /\ dist # "new" /\ pc[Child(s)] \in Resting
    /\ due' = FALSE
    /\ pc' = [pc EXCEPT ![Hook(s)] = "off", ![Child(s)] = "start"]
    /\ lock' = [pid |-> Child(s), fresh |-> TRUE]
    /\ UNCHANGED <<dist, days, deaths>>

(* stageRuntime in the child: the old dist goes, the new one comes; a      *)
(* failure restores what the transaction found when it began.              *)
RemoveDist(s) ==
    /\ pc[Child(s)] = "start"
    /\ pc' = [pc EXCEPT ![Child(s)] = "copy"] /\ dist' = "gone"
    /\ UNCHANGED <<lock, due, days, deaths>>
CopyDist(s) ==
    /\ pc[Child(s)] = "copy"
    /\ \E result \in {"new", "old"} : dist' = result
    /\ pc' = [pc EXCEPT ![Child(s)] = "off"] /\ lock' = Orphaned(Child(s))
    /\ UNCHANGED <<due, days, deaths>>

(* A process dies where it stands; a spawn error releases the lock.  (An   *)
(* updater killed while it copies leaves a runtime no hook can load; what  *)
(* follows is a new installation, not a check.)                            *)
Die(p) ==
    /\ Alive(p) /\ pc[p] # "copy" /\ deaths < MaxDeaths
    /\ pc' = [pc EXCEPT ![p] = "off"] /\ deaths' = deaths + 1
    /\ \/ lock' = Orphaned(p)
       \/ pc[p] = "start" /\ lock' = Released
    /\ UNCHANGED <<due, dist, days>>

(* Time: the lock outlives LOCK_STALE_MS, the check interval elapses.      *)
LockAges == lock.fresh /\ lock' = [lock EXCEPT !.fresh = FALSE] /\ UNCHANGED <<pc, due, dist, days, deaths>>
DayPasses == ~due /\ days < MaxDays /\ due' = TRUE /\ days' = days + 1 /\ UNCHANGED <<pc, lock, dist, deaths>>

HookStep(s) == ReadLock(s) \/ ClaimLock(s) \/ NothingNewer(s) \/ SpawnUpdater(s)
ChildStep(s) == RemoveDist(s) \/ CopyDist(s)
Next ==
    \/ \E s \in Starters : Begin(s) \/ HookStep(s) \/ ChildStep(s)
    \/ \E s \in Starters : LockUnwritable(s)
    \/ \E p \in Processes : Die(p)
    \/ LockAges \/ DayPasses

(* Sessions keep starting, and a started process runs on; nothing makes    *)
(* time pass.                                                              *)
Fairness == \A s \in Starters :
    WF_updateVars(Begin(s)) /\ WF_updateVars(HookStep(s)) /\ WF_updateVars(ChildStep(s))

Spec == Init /\ [][Next]_updateVars
FairSpec == Spec /\ Fairness
---------------------------------------------------------------------------
TypeOK ==
    /\ pc \in [Processes -> {"off", "read", "claim", "view", "start", "copy"}]
    /\ lock \in [pid : Processes \cup {NoOne}, fresh : BOOLEAN] /\ due \in BOOLEAN
    /\ dist \in {"old", "new", "gone"} /\ days \in 0..MaxDays /\ deaths \in 0..MaxDeaths

(* Two updaters never replace the runtime at once: "a burst of             *)
(* simultaneous session starts makes ONE request and can only ever produce *)
(* one updater".                                                           *)
OneUpdater == Cardinality({s \in Starters : pc[Child(s)] # "off"}) <= 1

(* A due check is made in the end: no process that died with the lock, and *)
(* no lock that was never released, keeps later sessions from checking,    *)
(* however long the lock's own expiry takes.                               *)
ChecksResume == due ~> ~due
============================================================================
