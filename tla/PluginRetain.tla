---------------------------- MODULE PluginRetain ----------------------------
(***************************************************************************)
(* The retain hooks of the OpenClaw plugin (registerRetainHooks in         *)
(* src/plugin.ts) for one session of one principal: agent_end and          *)
(* session_end hooks that run concurrently, and retain a transcript unless *)
(* the same one was retained last or is being retained.                    *)
(*                                                                         *)
(* JavaScript runs a hook up to its await without interruption, so the     *)
(* steps are: the hook up to its await, the answer of the retain           *)
(* coordinator, the finally of the request, and the finally of each hook   *)
(* that awaited it.                                                        *)
(***************************************************************************)
EXTENDS Integers

CONSTANTS
  Hooks,       \* hook calls of the session
  Digests,     \* digests of transcripts
  NoDigest,    \* a hook without a transcript, or nothing retained
  MaxEvictions \* bound: evictions of the session from retainedDigests

PluginConstants ==
  /\ NoDigest \notin Digests
  /\ MaxEvictions \in Nat

VARIABLES
  hook,       \* the hook calls
  inFlight,   \* the entry of inFlight
  retained,   \* the entry of retainedDigests
  clock,      \* history: number of requests made
  newest,     \* history: the request made last of those that were accepted
  sent,       \* history: requests under way, each with its number
  lastHook,   \* history: name of the hook that was called last
  evictions   \* evictions that may still happen

vars == <<hook, inFlight, retained, clock, newest, sent, lastHook, evictions>>
history == <<clock, newest, sent, lastHook>>

HookNames == {"agent_end", "session_end"}

NoSession ==
  [ active |-> FALSE, requests |-> <<>>, nextOrdinal |-> 0,
    retainedOrdinal |-> -1, ended |-> FALSE ]

NewHook == [point |-> "new", name |-> "agent_end", digest |-> NoDigest]

\* A request has been made, answered (its then or catch handler has run), or is
\* gone, which is when the hooks that await it may continue.
Request(ordinal, number) ==
  [ordinal |-> ordinal, number |-> number, answered |-> FALSE]

Pending == DOMAIN inFlight.requests

-----------------------------------------------------------------------------
(* A hook *)

\* The finally block of the hook: deletion of the digest of an ended session.
LeaveHook(name, digest, session, kept) ==
  IF name = "session_end" /\ digest # NoDigest /\ ~session.active
  THEN NoDigest
  ELSE kept

\* No transcript, a session that is not retained, or a principal without a bank.
SkipHook(h) ==
  /\ hook[h].point = "new"
  /\ \E name \in HookNames :
       hook' = [hook EXCEPT ![h] = [point |-> "done", name |-> name, digest |-> NoDigest]]
  /\ UNCHANGED <<inFlight, retained, history, evictions>>

\* session_end marks the requests under way as the session's last.
Marked(session, name) ==
  IF session.active /\ name = "session_end"
  THEN [session EXCEPT !.ended = TRUE]
  ELSE session

\* The transcript is the one retained last.
RepeatedHook(h, name, digest) ==
  /\ retained = digest
  /\ hook' = [hook EXCEPT ![h] = [point |-> "done", name |-> name, digest |-> digest]]
  /\ inFlight' = Marked(inFlight, name)
  /\ retained' = LeaveHook(name, digest, inFlight, retained)
  /\ UNCHANGED <<clock, newest, sent>>

\* The transcript is being retained: the hook awaits that request.
JoiningHook(h, name, digest) ==
  /\ retained # digest
  /\ digest \in Pending
  /\ hook' = [hook EXCEPT ![h] = [point |-> "waiting", name |-> name, digest |-> digest]]
  /\ inFlight' = Marked(inFlight, name)
  /\ UNCHANGED <<retained, clock, newest, sent>>

WithRequest(session, digest, request) ==
  [session EXCEPT
     !.active = TRUE,
     !.nextOrdinal = @ + 1,
     !.requests = [d \in DOMAIN @ \cup {digest} |->
                     IF d = digest THEN request ELSE @[d]]]

RetainingHook(h, name, digest) ==
  /\ retained # digest
  /\ digest \notin Pending
  /\ hook' = [hook EXCEPT ![h] = [point |-> "waiting", name |-> name, digest |-> digest]]
  /\ LET session == IF inFlight.active THEN Marked(inFlight, name)
                    ELSE [NoSession EXCEPT !.ended = name = "session_end"]
     IN inFlight' = WithRequest(session, digest, Request(session.nextOrdinal, clock + 1))
  /\ clock' = clock + 1
  /\ sent' = sent \cup {<<digest, clock + 1>>}
  /\ UNCHANGED <<retained, newest>>

RunHook(h) ==
  /\ hook[h].point = "new"
  /\ \E name \in HookNames, digest \in Digests :
       /\ \/ RepeatedHook(h, name, digest)
          \/ JoiningHook(h, name, digest)
          \/ RetainingHook(h, name, digest)
       /\ lastHook' = name
  /\ UNCHANGED evictions

-----------------------------------------------------------------------------
(* A request *)

\* Mutant of Accepted: the answer that comes last is recorded.
Mut_AcceptedUnordered(digest) ==
  /\ digest \in Pending /\ ~inFlight.requests[digest].answered
  /\ LET request == inFlight.requests[digest] IN
     /\ retained' = digest
     /\ inFlight' = [inFlight EXCEPT !.requests[digest].answered = TRUE,
                                     !.retainedOrdinal = request.ordinal]
     /\ newest' = IF request.number > newest.number
                  THEN [number |-> request.number, digest |-> digest]
                  ELSE newest
     /\ sent' = sent \ {<<digest, request.number>>}
  /\ UNCHANGED <<hook, clock, lastHook, evictions>>

\* The coordinator has delivered or queued the write.  An older request may be
\* accepted after a newer one was: it is not recorded.
Accepted(digest) ==
  /\ digest \in Pending /\ ~inFlight.requests[digest].answered
  /\ LET request == inFlight.requests[digest]
         recorded == request.ordinal > inFlight.retainedOrdinal
     IN
     /\ retained' = IF recorded THEN digest ELSE retained
     /\ inFlight' = [inFlight EXCEPT !.requests[digest].answered = TRUE,
                                     !.retainedOrdinal =
                                        IF recorded THEN request.ordinal ELSE @]
     /\ newest' = IF request.number > newest.number
                  THEN [number |-> request.number, digest |-> digest]
                  ELSE newest
     /\ sent' = sent \ {<<digest, request.number>>}
  /\ UNCHANGED <<hook, clock, lastHook, evictions>>

\* The coordinator refused the write or was too busy; it is reported.
Failed(digest) ==
  /\ digest \in Pending /\ ~inFlight.requests[digest].answered
  /\ inFlight' = [inFlight EXCEPT !.requests[digest].answered = TRUE]
  /\ sent' = sent \ {<<digest, inFlight.requests[digest].number>>}
  /\ UNCHANGED <<hook, retained, clock, newest, lastHook, evictions>>

\* Mutant of Drained: the entry of a session without requests stays.
Mut_DrainedKept(rest) == [inFlight EXCEPT !.requests = rest]

Drained(rest) ==
  IF DOMAIN rest = {} THEN NoSession ELSE [inFlight EXCEPT !.requests = rest]

\* The finally of the request: the last one drops the session's entry, and what
\* was retained if the session has ended.
Drain(digest) ==
  /\ digest \in Pending /\ inFlight.requests[digest].answered
  /\ inFlight' = Drained([d \in Pending \ {digest} |-> inFlight.requests[d]])
  /\ retained' = IF Pending = {digest} /\ inFlight.ended THEN NoDigest ELSE retained
  /\ hook' = [h \in Hooks |->
                IF hook[h].point = "waiting" /\ hook[h].digest = digest
                THEN [hook[h] EXCEPT !.point = "resumed"]
                ELSE hook[h]]
  /\ UNCHANGED <<history, evictions>>

ResumeHook(h) ==
  /\ hook[h].point = "resumed"
  /\ hook' = [hook EXCEPT ![h].point = "done"]
  /\ retained' = LeaveHook(hook[h].name, hook[h].digest, inFlight, retained)
  /\ UNCHANGED <<inFlight, history, evictions>>

\* A thousand other sessions were retained since (setBounded).
Evict ==
  /\ evictions > 0
  /\ evictions' = evictions - 1
  /\ retained # NoDigest
  /\ retained' = NoDigest
  /\ UNCHANGED <<hook, inFlight, history>>

AllDone == \A h \in Hooks : hook[h].point = "done"

Finished == AllDone /\ UNCHANGED vars

-----------------------------------------------------------------------------
Init ==
  /\ hook = [h \in Hooks |-> NewHook]
  /\ inFlight = NoSession
  /\ retained = NoDigest
  /\ clock = 0
  /\ newest = [number |-> 0, digest |-> NoDigest]
  /\ sent = {}
  /\ lastHook = "none"
  /\ evictions = MaxEvictions

Next ==
  \/ \E h \in Hooks : SkipHook(h) \/ RunHook(h) \/ ResumeHook(h)
  \/ \E digest \in Digests : Accepted(digest) \/ Failed(digest) \/ Drain(digest)
  \/ Evict
  \/ Finished

Spec == Init /\ [][Next]_vars

-----------------------------------------------------------------------------
(* Properties *)

\* Every variable has its type; a session has an entry just while it has requests,
\* and their ordinals are those the entry has given out.
TypeOK ==
  /\ hook \in [Hooks -> [point : {"new", "waiting", "resumed", "done"},
                         name : HookNames, digest : Digests \cup {NoDigest}]]
  /\ Pending \subseteq Digests
  /\ inFlight.active <=> Pending # {}
  /\ inFlight.retainedOrdinal < inFlight.nextOrdinal
  /\ \A d, e \in Pending :
       /\ inFlight.requests[d].ordinal \in 0 .. inFlight.nextOrdinal - 1
       /\ inFlight.requests[d].ordinal = inFlight.requests[e].ordinal => d = e
  /\ inFlight.ended \in BOOLEAN
  /\ retained \in Digests \cup {NoDigest}
  /\ evictions \in Nat


\* What a hook is spared is what the principal's memory has: the digest that is
\* kept is the one of the newest request that was accepted, whatever the order in
\* which the requests were answered.
KeptIsNewest == retained # NoDigest => retained = newest.digest

\* A transcript is not sent a second time while it is on its way.
SentOnce ==
  \A x, y \in sent : x[1] = y[1] => x = y

\* Once all hooks of a session are done, the last of them a session_end with a
\* transcript, nothing of the session is kept.
EndedSessionForgotten ==
  AllDone /\ lastHook = "session_end" => retained = NoDigest /\ ~inFlight.active
=============================================================================
