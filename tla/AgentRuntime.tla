---------------------------- MODULE AgentRuntime ----------------------------
(***************************************************************************)
(* The runtime of a host that loads the agent plugin once and keeps it     *)
(* (RuntimeCore in core/runtime.ts), with the adapters that feed it:       *)
(* opencode, opencode2, pi, Cline and dsh.  One core serves the sessions   *)
(* of one workspace; each adapter turns what its host announces into calls *)
(* of the core, in an order of its own.                                    *)
(*                                                                         *)
(* A call runs without interruption up to an await, so a task is what is   *)
(* under way across one: a prompt (recall), an idle call (the transcript   *)
(* is fetched) or a retain.  A task holds the session's state object, and  *)
(* the map may have dropped it meanwhile; objects are numbered.            *)
(***************************************************************************)
EXTENDS Integers, FiniteSets, Functions

CONSTANTS
  Hosts,        \* adapters considered
  Sessions,     \* sessions of the workspace
  Foreign,      \* sessions of other workspaces whose events reach the adapter
  MaxSessions,  \* MAX_RUNTIME_SESSIONS
  MaxPrompts,   \* bound: prompts of all sessions
  MaxObjects,   \* bound: admissions of sessions
  MaxTasks      \* bound: tasks under way at a time

\* The modules that instantiate this one assume it.
RuntimeConstants ==
  /\ Hosts \subseteq {"opencode", "opencode2", "pi", "cline", "dsh"}
  /\ Sessions \cap Foreign = {}
  /\ MaxSessions \in Nat \ {0} /\ MaxPrompts \in Nat
  /\ MaxObjects \in Nat /\ MaxTasks \in Nat \ {0}

VARIABLES
  host,       \* the adapter
  seeding,    \* seedIfCold: "running", "new" (deferInitialReflect), "done"
  awaited,    \* sessionStartAwaited (pi, Cline)
  phase,      \* where each session's turn is
  prompts,    \* prompts of each session so far
  replied,    \* the last prompt has its reply in the transcript
  idle,       \* end-of-turn events that are still to be delivered
  order,      \* pairs of keys of sessionState, the one used less recently first
  object,     \* the state object sessionState holds, 0 if none
  state,      \* the state objects
  admitted,   \* number of state objects made
  cursor,     \* the write-back cursor: none, clean, or with unsent turns
  tasks,      \* what is under way
  injection,  \* the block kept for a session: the prompt it was built for
  last,       \* lastInjection, with lastInjectionSession
  delivered,  \* the block the session's last request carried
  written     \* history: most turns of a session known to be retained

hostVars == <<host, seeding, awaited, phase, prompts, replied, idle>>
blockVars == <<injection, last, delivered>>
coreVars == <<order, object, state, admitted, cursor, tasks, written>>
vars == <<hostVars, coreVars, blockVars>>

Ids == Sessions \cup Foreign
None == [session |-> "none", prompt |-> 0]
Fresh == [retained |-> 0, active |-> FALSE, busy |-> 0, generation |-> 0, ended |-> FALSE]

\* Turns in a session's transcript.
Turns(s) == 2 * prompts[s] - (IF replied[s] THEN 0 ELSE 1)

\* A task, numbered to be told from an equal one that is under way.
Task(kind, s, o, n) == [kind |-> kind, session |-> s, object |-> o, n |-> n]
Numbered(t, copy) ==
  [kind |-> t.kind, session |-> t.session, object |-> t.object, n |-> t.n, copy |-> copy]
Begin(ts, t) ==
  LET free == {copy \in 1 .. MaxTasks : Numbered(t, copy) \notin ts}
  IN  ts \cup {Numbered(t, CHOOSE copy \in free : \A other \in free : copy <= other)}
Room == Cardinality(tasks) < MaxTasks

\* What a call does to a state object.
Busier(x) == [x EXCEPT !.busy = @ + 1]
LessBusy(x) == [x EXCEPT !.busy = @ - 1]
Working(x) == [x EXCEPT !.active = TRUE]
Resting(x) == [x EXCEPT !.active = FALSE]
Ended(x) == [x EXCEPT !.ended = TRUE, !.active = FALSE]
Counted(x, n) == [x EXCEPT !.retained = n]
Prompted(x) == [retained |-> x.retained, active |-> TRUE, busy |-> x.busy,
                generation |-> x.generation + 1, ended |-> FALSE]

-----------------------------------------------------------------------------
(* The core's map of sessions.  A core is the record of what it keeps, so   *)
(* that a call is a composition of operators.                              *)

Core == [order |-> order, object |-> object, state |-> state, admitted |-> admitted,
         cursor |-> cursor, injection |-> injection, last |-> last, tasks |-> tasks]

Becomes(c) ==
  /\ order' = c.order /\ object' = c.object /\ state' = c.state /\ admitted' = c.admitted
  /\ cursor' = c.cursor /\ injection' = c.injection /\ last' = c.last /\ tasks' = c.tasks
CoreUnchanged == UNCHANGED <<order, object, state, admitted, cursor, injection, last, tasks>>

Keys(c) == {s \in Ids : c.object[s] # 0}

\* Mutant of Removable: a task under way does not pin its session.
Mut_RemovableBusy(c, s, o) == ~c.state[o].active /\ c.cursor[s] # "unsent"

Removable(c, s, o) ==
  ~c.state[o].active /\ c.state[o].busy = 0 /\ c.cursor[s] # "unsent"

\* removeSession, for some sessions.  (A state object that nothing holds any more
\* is blank.)
Remove(c, gone) ==
  [c EXCEPT !.state = [o \in DOMAIN @ |-> IF @[o].busy = 0 /\ \E s \in gone : c.object[s] = o
                                          THEN Fresh ELSE @[o]],
            !.order = {pair \in @ : pair[1] \notin gone /\ pair[2] \notin gone},
            !.object = [s \in Ids |-> IF s \in gone THEN 0 ELSE @[s]],
            !.cursor = [s \in Ids |-> IF s \in gone THEN "none" ELSE @[s]],
            !.injection = [s \in Ids |-> IF s \in gone THEN 0 ELSE @[s]],
            !.last = IF @.session \in gone THEN None ELSE @]

CleanupEnded(c, s, o) ==
  IF c.state[o].ended /\ Removable(c, s, o) THEN Remove(c, {s}) ELSE c

\* s is the last key of the map.
Latest(c, s) ==
  [c EXCEPT !.order = {pair \in @ : s \notin {pair[1], pair[2]}}
                      \cup ((Keys(c) \ {s}) \X {s})]

\* The least recently used of the sessions that may be removed.
Oldest(c) ==
  LET free == {k \in Keys(c) : Removable(c, k, c.object[k])}
  IN  {k \in free : \A j \in free \ {k} : <<k, j>> \in c.order}

\* The core with s admitted as the most recent session: its state object is
\* object[s], 0 when every entry is pinned.
Admit(c, s) ==
  LET made == [c EXCEPT !.admitted = @ + 1, !.state[c.admitted + 1] = Fresh]
  IN  IF Cardinality(Keys(c)) >= MaxSessions THEN c
      ELSE Latest([made EXCEPT !.object[s] = made.admitted], s)
StateFor(c, s) ==
  IF c.object[s] # 0 THEN Latest(c, s)
  ELSE Admit(IF Cardinality(Keys(c)) >= MaxSessions THEN Remove(c, Oldest(c)) ELSE c, s)

Pin(c, t) == [c EXCEPT !.state[t.object] = Busier(@), !.tasks = Begin(@, t)]

\* The finally of a task.
Release(c, t) ==
  CleanupEnded([c EXCEPT !.state[t.object] = LessBusy(@), !.tasks = @ \ {t}],
               t.session, t.object)

\* disposeSession, for some sessions.
Dispose(c, ss) ==
  LET over == [c EXCEPT !.state = [o \in DOMAIN @ |->
                                     IF \E s \in ss : c.object[s] = o
                                     THEN Ended(@[o]) ELSE @[o]]]
  IN  Remove(over, {s \in ss \cap Keys(c) : Removable(over, s, c.object[s])})

HasSession(s) == object[s] # 0 /\ ~state[object[s]].ended

-----------------------------------------------------------------------------
(* onPrompt *)

\* Mutant of Activate: the block of the prompt before stays.
Mut_ActivateStale(c, s, o) == [c EXCEPT !.state[o] = Prompted(@)]

Activate(c, s, o) == [c EXCEPT !.state[o] = Prompted(@), !.injection[s] = 0]

\* The call up to the await of buildHookOutput, for an empty prompt to its end.
\* The reflection put off for a new bank is handed to this session.
OnPrompt(s, empty) ==
  LET c == StateFor([Core EXCEPT !.last = None], s)
      o == c.object[s]
      t == Task("prompt", s, o, prompts'[s])
      begun == Activate(c, s, o)
  IN  /\ o # 0 /\ ~empty => Room
      /\ Becomes(IF o = 0 THEN c ELSE IF empty THEN begun ELSE Pin(begun, t))
      /\ seeding' = IF o # 0 /\ ~empty /\ seeding = "new" THEN "done" ELSE seeding
      /\ phase' = [phase EXCEPT ![s] = IF o = 0 \/ empty THEN "request" ELSE "prompt"]

\* The user's next prompt, which only in opencode2 may overtake the event that
\* ends the turn before it.  pi and Cline hold the first one of the process back
\* until seedIfCold is over.  The core hears of an empty prompt from opencode and
\* opencode2 only; dsh then asks for no block either, pi and Cline do.
UserPrompt(s) ==
  /\ phase[s] = "rest" /\ FoldFunction(+, 0, prompts) < MaxPrompts
  /\ idle[s] > 0 => host = "opencode2"
  /\ admitted < MaxObjects
  /\ prompts' = [prompts EXCEPT ![s] = @ + 1]
  /\ replied' = [replied EXCEPT ![s] = FALSE]
  /\ \E empty \in BOOLEAN :
       IF host \in {"pi", "cline"} /\ ~awaited
       THEN /\ ~empty
            /\ awaited' = TRUE
            /\ phase' = [phase EXCEPT ![s] = "start"]
            /\ CoreUnchanged /\ UNCHANGED seeding
       ELSE /\ IF empty /\ host \notin {"opencode", "opencode2"}
               THEN /\ phase' = [phase EXCEPT ![s] = IF host = "dsh" THEN "model" ELSE "request"]
                    /\ CoreUnchanged /\ UNCHANGED seeding
               ELSE OnPrompt(s, empty)
            /\ UNCHANGED awaited
  /\ UNCHANGED <<host, idle, delivered, written>>

\* The prompt that was held back goes on; Cline's patience is bounded.
StartedPrompt(s) ==
  /\ phase[s] = "start"
  /\ seeding # "running" \/ host = "cline"
  /\ admitted < MaxObjects
  /\ UNCHANGED prompts /\ OnPrompt(s, FALSE)
  /\ UNCHANGED <<host, awaited, replied, idle, delivered, written>>

\* The cold check of the bank ends; a new bank puts the first reflection off.
SeedIfCold ==
  /\ seeding = "running"
  /\ seeding' \in {"new", "done"}
  /\ UNCHANGED <<host, awaited, phase, prompts, replied, idle, coreVars, blockVars>>

Continue(s) == phase' = [phase EXCEPT ![s] = IF @ = "prompt" THEN "request" ELSE @]

\* The block is built, or access to a bank was denied.
PromptEnds(t) ==
  /\ t \in tasks /\ t.kind = "prompt"
  /\ \E denied \in BOOLEAN :
       Becomes(Release(IF denied THEN Core
                       ELSE [Core EXCEPT !.injection[t.session] = t.n,
                                         !.last = [session |-> t.session, prompt |-> t.n]], t))
  /\ Continue(t.session)
  /\ UNCHANGED <<host, seeding, awaited, prompts, replied, idle, delivered, written>>

\* Cline aborts a hook after three seconds; the recall goes on.
HookBudgetEnds(s) ==
  /\ host = "cline" /\ phase[s] = "prompt"
  /\ Continue(s)
  /\ UNCHANGED <<host, seeding, awaited, prompts, replied, idle, coreVars, blockVars>>

-----------------------------------------------------------------------------
(* getInjection, onTranscript, onSessionIdle *)

\* opencode asks without an id: the block of the turn that was prompted last.
GetInjection(s) ==
  IF host = "opencode"
  THEN IF last.session # "none" /\ HasSession(last.session) THEN last ELSE None
  ELSE IF HasSession(s) /\ injection[s] # 0
       THEN [session |-> s, prompt |-> injection[s]] ELSE None

\* The host builds a model request.
Inject(s) ==
  /\ phase[s] = "request"
  /\ delivered' = [delivered EXCEPT ![s] = GetInjection(s)]
  /\ phase' = [phase EXCEPT ![s] = IF host = "opencode" THEN "transform" ELSE "model"]
  /\ UNCHANGED <<host, seeding, awaited, prompts, replied, idle, coreVars, injection, last>>

\* opencode hands the transcript over while it builds the request, before the reply.
Transform(s) ==
  /\ phase[s] = "transform" /\ admitted < MaxObjects
  /\ LET c == StateFor(Core, s)
         o == c.object[s]
         t == Task("retain", s, o, Turns(s))
     IN  /\ o # 0 => Room
         /\ Becomes(IF o = 0 THEN c
                    ELSE Pin([c EXCEPT !.state[o] = Working(@)], t))
  /\ phase' = [phase EXCEPT ![s] = "model"]
  /\ UNCHANGED <<host, seeding, awaited, prompts, replied, idle, delivered, written>>

\* The model's reply ends the turn, which the host announces.
Reply(s) ==
  /\ phase[s] = "model"
  /\ phase' = [phase EXCEPT ![s] = "rest"]
  /\ replied' = [replied EXCEPT ![s] = TRUE]
  /\ idle' = [idle EXCEPT ![s] = IF host = "opencode2" THEN 2 ELSE 1]
  /\ delivered' = [delivered EXCEPT ![s] = None]
  /\ UNCHANGED <<host, seeding, awaited, prompts, coreVars, injection, last>>

\* agent_end (pi), afterRun (Cline): the transcript of the finished run.  Cline's
\* and pi's may have no visible turn left, which only releases the session.
RunEnds(s) ==
  /\ host \in {"pi", "cline"} /\ idle[s] > 0 /\ admitted < MaxObjects
  /\ idle' = [idle EXCEPT ![s] = 0]
  /\ \E empty \in BOOLEAN :
       LET c == IF empty THEN Core ELSE StateFor(Core, s)
           o == c.object[s]
           calm == [c EXCEPT !.state[o] = Resting(@)]
           t == Task("retain", s, o, Turns(s))
       IN  /\ o # 0 /\ ~empty => Room
           /\ Becomes(IF o = 0 THEN c
                      ELSE IF empty THEN CleanupEnded(calm, s, o) ELSE Pin(calm, t))
  /\ UNCHANGED <<host, seeding, awaited, phase, prompts, replied, delivered, written>>

\* opencode2's events come from every workspace of the service.
Eligible(s) == host = "opencode2" => HasSession(s)

\* session.idle, or turn-stopping of dsh, up to the fetch of the transcript.
\* opencode2 announces the end of a turn in two events.
SessionIdle(s) ==
  /\ host \in {"opencode", "opencode2", "dsh"} /\ idle[s] > 0 /\ admitted < MaxObjects
  /\ idle' = [idle EXCEPT ![s] = @ - 1]
  /\ IF Eligible(s)
     THEN LET c == StateFor(Core, s)
              o == c.object[s]
              t == Task("idle", s, o, c.state[o].generation)
          IN  IF o = 0 THEN Becomes(c) ELSE Room /\ Becomes(Pin(c, t))
     ELSE CoreUnchanged
  /\ UNCHANGED <<host, seeding, awaited, phase, prompts, replied, delivered, written>>

Retained(c, t, n) ==
  IF n <= c.state[t.object].retained THEN c
  ELSE Pin([c EXCEPT !.state[t.object] = Counted(@, n)], Task("retain", t.session, t.object, n))

\* The prompt the idle call found is over, a newer one is not.
Settled(c, t) ==
  IF c.state[t.object].generation = t.n THEN [c EXCEPT !.state[t.object] = Resting(@)] ELSE c

\* The transcript is there, or it is empty or cannot be fetched.
IdleEnds(t) ==
  /\ t \in tasks /\ t.kind = "idle"
  /\ \E n \in {0, Turns(t.session)} :
       Becomes(Release(Settled(IF n = 0 THEN Core ELSE Retained(Core, t, n), t), t))
  /\ UNCHANGED <<hostVars, delivered, written>>

-----------------------------------------------------------------------------
(* retain *)

\* One write-back of a session at a time; it claims the cursor, then sends.
RetainClaims(t) ==
  /\ t \in tasks /\ t.kind = "retain" /\ cursor[t.session] # "unsent"
  /\ cursor' = [cursor EXCEPT ![t.session] = "unsent"]
  /\ UNCHANGED <<hostVars, blockVars, order, object, state, admitted, tasks, written>>

\* Mutant of RetainFails: the count of retained turns stays.
Mut_RetainFailsCounted(t) ==
  /\ t \in tasks /\ t.kind = "retain"
  /\ Becomes(Release(Core, t))
  /\ UNCHANGED <<hostVars, delivered, written>>

RetainFails(t) ==
  /\ t \in tasks /\ t.kind = "retain"
  /\ Becomes(Release([Core EXCEPT !.state[t.object] = Counted(@, 0)], t))
  /\ UNCHANGED <<hostVars, delivered, written>>

RetainSucceeds(t) ==
  /\ t \in tasks /\ t.kind = "retain" /\ cursor[t.session] = "unsent"
  /\ Becomes(Release([Core EXCEPT !.cursor[t.session] = "clean"], t))
  /\ written' = [written EXCEPT ![t.session] = IF t.n > @ THEN t.n ELSE @]
  /\ UNCHANGED <<hostVars, delivered>>

-----------------------------------------------------------------------------
(* The end of sessions *)

\* session.deleted, agent/disposed: between two turns or in the middle of one.
Deleted(s) ==
  /\ host \in {"opencode", "opencode2", "dsh"} /\ phase[s] # "over"
  /\ IF Eligible(s) THEN Becomes(Dispose(Core, {s}))
     ELSE CoreUnchanged
  /\ phase' = [phase EXCEPT ![s] = "over"]
  /\ UNCHANGED <<host, seeding, awaited, prompts, replied, idle, delivered, written>>

\* Teardown of opencode2, session_shutdown of pi: no events from here on.  pi's
\* host waits for what is under way, within a limit.
Teardown ==
  /\ host \in {"opencode2", "pi"} /\ \E s \in Sessions : phase[s] # "over"
  /\ Becomes(Dispose(Core, Ids))
  /\ phase' = [s \in Ids |-> "over"]
  /\ idle' = [s \in Ids |-> 0]
  /\ UNCHANGED <<host, seeding, awaited, prompts, replied, delivered, written>>

-----------------------------------------------------------------------------
Init ==
  /\ host \in Hosts
  /\ seeding = "running" /\ awaited = FALSE
  /\ phase = [s \in Ids |-> IF s \in Sessions THEN "rest" ELSE "over"]
  /\ prompts = [s \in Ids |-> 0] /\ replied = [s \in Ids |-> TRUE]
  /\ idle = [s \in Ids |-> IF host = "opencode2" /\ s \in Foreign THEN 1 ELSE 0]
  /\ order = {} /\ object = [s \in Ids |-> 0]
  /\ state = [o \in 1 .. MaxObjects |-> Fresh] /\ admitted = 0
  /\ cursor = [s \in Ids |-> "none"] /\ tasks = {}
  /\ injection = [s \in Ids |-> 0] /\ last = None
  /\ delivered = [s \in Ids |-> None]
  /\ written = [s \in Ids |-> 0]

Next ==
  \/ SeedIfCold
  \/ \E s \in Ids :
       \/ UserPrompt(s) \/ StartedPrompt(s) \/ HookBudgetEnds(s) \/ Inject(s)
       \/ Transform(s) \/ Reply(s) \/ RunEnds(s) \/ SessionIdle(s) \/ Deleted(s)
  \/ \E t \in tasks :
       PromptEnds(t) \/ IdleEnds(t) \/ RetainClaims(t) \/ RetainFails(t) \/ RetainSucceeds(t)
  \/ Teardown

Spec == Init /\ [][Next]_vars

-----------------------------------------------------------------------------
(* Properties *)

\* The map has at most MAX_RUNTIME_SESSIONS keys, each used before or after any
\* other, and a state object is as busy as it has tasks.
TypeOK ==
  /\ Cardinality(Keys(Core)) <= MaxSessions
  /\ \A s, r \in Keys(Core) : (<<s, r>> \in order) # (s = r \/ <<r, s>> \in order)
  /\ \A pair \in order : {pair[1], pair[2]} \subseteq Keys(Core)
  /\ \A s \in Ids : object[s] \in 0 .. admitted
  /\ \A o \in DOMAIN state :
       state[o].busy = Cardinality({t \in tasks : t.object = o})

\* While something of a session is under way, the core keeps the session, and the
\* very object the task works on: neither eviction nor disposal pulls it away.
WorkKeepsItsSession == \A t \in tasks : object[t.session] = t.object

\* A session whose transcript the core believes retained really is, or a write of
\* those turns is on its way: an idle event that finds nothing new is right.
RetainedIsBacked ==
  \A s \in Ids :
    object[s] # 0 /\ state[object[s]].retained > 0 =>
      \/ written[s] >= state[object[s]].retained
      \/ \E t \in tasks : t.kind = "retain" /\ t.session = s
                          /\ t.n >= state[object[s]].retained

\* An ended session stays only while something of it is under way or unsent.
EndedSessionsLeave ==
  \A s \in Ids : object[s] # 0 /\ state[object[s]].ended => ~Removable(Core, s, object[s])

\* A prompt's session stays pinned until its own turn ends, though the transcript
\* of the turn before is still being fetched.
ActiveUntilReply ==
  host # "opencode2" => \A s \in Sessions :
    phase[s] \in {"prompt", "transform", "model"} /\ object[s] # 0
      /\ state[object[s]].generation = prompts[s] => state[object[s]].active

\* The core of a workspace never works for a session of another one.
ForeignNeverTouched ==
  \A s \in Foreign : object[s] = 0 /\ ~ \E t \in tasks : t.session = s

\* A request of opencode2 and dsh carries the block of its own prompt or none: a
\* recall that was denied does not bring the block before it back.  (pi repeats a
\* block for an image, Cline may be early or late.)
InjectionIsFresh ==
  host \in {"opencode2", "dsh"} =>
    \A s \in Sessions : delivered[s] # None => delivered[s].prompt = prompts[s]

\* "so lastInjection is this turn's block" (core/runtime.ts:266), for opencode too.
LastInjectionIsThisTurns ==
  \A s \in Sessions : delivered[s] # None =>
    delivered[s].session = s /\ delivered[s].prompt = prompts[s]
=============================================================================
