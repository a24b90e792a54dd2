---------------------------- MODULE RetainService ----------------------------
(***************************************************************************)
(* The service that schedules replays of the retain queue in the OpenClaw  *)
(* plugin (registerService in src/plugin.ts): an interval timer that       *)
(* flushes, one flush at a time, and the host's calls of start and stop,   *)
(* which may overlap.                                                      *)
(*                                                                         *)
(* A call of the host, a tick of the timer, the end of a flush and the     *)
(* expiry of the shutdown deadline are tasks of the event loop.  The       *)
(* promise reactions a task sets off run before the next task, so they are *)
(* part of its step: the end of a stop and what the starts that waited for *)
(* it do are one step.                                                     *)
(***************************************************************************)
EXTENDS Naturals

CONSTANT Callers  \* calls of the host that can be open at a time

VARIABLES
  flushTimer,        \* the interval is set
  activeFlush,       \* a flush is running
  stopping,          \* a stop waits for it
  runningRequested,  \* the host's latest call was a start
  call               \* the open calls

vars == <<flushTimer, activeFlush, stopping, runningRequested, call>>

-----------------------------------------------------------------------------
\* A start that may schedule: it sets the interval, and flushes at once unless a
\* flush is running.
Schedule ==
  /\ flushTimer' = TRUE
  /\ activeFlush' = TRUE

\* A start waits for a stop, and finds nothing to do while the interval is set.
Start(c) ==
  /\ call[c] = "none"
  /\ runningRequested' = TRUE
  /\ IF stopping
     THEN /\ call' = [call EXCEPT ![c] = "starting"]
          /\ UNCHANGED <<flushTimer, activeFlush>>
     ELSE /\ IF flushTimer
             THEN UNCHANGED <<flushTimer, activeFlush>>
             ELSE Schedule
          /\ UNCHANGED call
  /\ UNCHANGED stopping

\* Mutant of Stop: the interval is cleared only if there is a flush to wait for.
Mut_StopKeepsTimer(c) ==
  /\ call[c] = "none"
  /\ runningRequested' = FALSE
  /\ flushTimer' = (flushTimer /\ ~activeFlush)
  /\ stopping' = activeFlush
  /\ call' = [call EXCEPT ![c] = IF activeFlush THEN "stopping" ELSE "none"]
  /\ UNCHANGED activeFlush

\* While another stop waits this one waits with it.
Stop(c) ==
  /\ call[c] = "none"
  /\ runningRequested' = FALSE
  /\ IF stopping
     THEN /\ call' = [call EXCEPT ![c] = "stopping"]
          /\ UNCHANGED <<flushTimer, stopping>>
     ELSE /\ flushTimer' = FALSE
          /\ stopping' = activeFlush
          /\ call' = [call EXCEPT ![c] = IF activeFlush THEN "stopping" ELSE "none"]
  /\ UNCHANGED activeFlush

Tick ==
  /\ flushTimer
  /\ ~activeFlush
  /\ activeFlush' = TRUE
  /\ UNCHANGED <<flushTimer, stopping, runningRequested, call>>

\* Mutant of Restarting: a start that waited does not look at later stops.
Mut_RestartingAnyway == \E c \in Callers : call[c] = "starting"

\* A start that waited goes on unless a stop came after it.
Restarting ==
  /\ \E c \in Callers : call[c] = "starting"
  /\ runningRequested
  /\ ~flushTimer

\* The stop that waits is over, with or without its flush.
EndStop(flushing) ==
  /\ stopping' = FALSE
  /\ call' = [c \in Callers |-> "none"]
  /\ IF Restarting
     THEN Schedule
     ELSE activeFlush' = flushing /\ UNCHANGED flushTimer
  /\ UNCHANGED runningRequested

FlushEnds ==
  /\ activeFlush
  /\ IF stopping
     THEN EndStop(FALSE)
     ELSE activeFlush' = FALSE /\ UNCHANGED <<flushTimer, stopping, runningRequested, call>>

\* Mutant of DeadlineExpires: the wait for the flush has no deadline.
Mut_DeadlineExpiresNever == FALSE /\ UNCHANGED vars

\* RETAIN_SHUTDOWN_TIMEOUT_MS have passed; the flush may finish after the stop.
DeadlineExpires ==
  /\ stopping
  /\ EndStop(TRUE)

-----------------------------------------------------------------------------
Init ==
  /\ flushTimer = FALSE
  /\ activeFlush = FALSE
  /\ stopping = FALSE
  /\ runningRequested = FALSE
  /\ call = [c \in Callers |-> "none"]

Next ==
  \/ \E c \in Callers : Start(c) \/ Stop(c)
  \/ Tick \/ FlushEnds \/ DeadlineExpires

Spec == Init /\ [][Next]_vars

\* The deadline's timer fires.  Nothing is assumed of flushes, which talk to a
\* server, nor of the host.
FairSpec == Spec /\ WF_vars(DeadlineExpires)

-----------------------------------------------------------------------------
(* Properties *)

\* A stop that waits has a flush to wait for, and has taken the interval away.
TypeOK ==
  /\ flushTimer \in BOOLEAN /\ activeFlush \in BOOLEAN
  /\ stopping \in BOOLEAN /\ runningRequested \in BOOLEAN
  /\ call \in [Callers -> {"none", "starting", "stopping"}]
  /\ stopping => activeFlush /\ ~flushTimer
  /\ ~stopping => call = [c \in Callers |-> "none"]

\* The interval is set just when the host's latest call was a start, but for the
\* time a start waits for a stop: the latest call wins whatever overlapped.
LatestCallWins ==
  /\ flushTimer => runningRequested
  /\ runningRequested /\ ~flushTimer => stopping

\* "A stop request disables scheduling": no flush begins after it.
NoFlushWhenStopped ==
  [][~activeFlush /\ activeFlush' => runningRequested']_vars

\* Every call of the host returns, also if a flush never does: those that wait
\* for a stop return with it.
AllReturned == call = [c \in Callers |-> "none"]
CallsReturn == ~AllReturned ~> AllReturned
=============================================================================
