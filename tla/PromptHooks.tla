---------------------------- MODULE PromptHooks ----------------------------
(***************************************************************************)
(* The hook processes of one session of a hook harness (core/hook.ts,      *)
(* core/session-start.ts, core/session-cache.ts).  Every event of the host *)
(* runs a process of its own; the processes meet only in files: the        *)
(* session cache, which a prompt reads, keeps while it asks the server and *)
(* then writes over, and, for a host that hands only the context of a tool *)
(* hook to the model, the blocks published for the next tool hook.         *)
(***************************************************************************)
EXTENDS Integers, Sequences, FiniteSets

CONSTANTS
  Settings,       \* pairs <<cfg.autoInject, the host wants a tool hook>>
  Slots,          \* processes at a time
  Scopes,         \* endpoint, bank, workspace, identity and banks, as one
  MaxHooks,       \* bound: processes started
  MaxChanges,     \* bound: changes of the scope and of what is granted
  InjectAttempts, \* HOOK_INJECT_ATTEMPTS
  EmptyAttempts,  \* HOOK_INJECT_EMPTY_ATTEMPTS
  Cadence,        \* pageRefreshEveryTurns
  Batch           \* PENDING_CONTEXT_BATCH_SIZE

\* An empty answer is asked for again at least as often as a failed one.
\* MCAgents, which instantiates this module, assumes it.
PromptConstants ==
  /\ InjectAttempts \in Nat \ {0} /\ EmptyAttempts \in Nat
  /\ InjectAttempts <= EmptyAttempts
  /\ MaxHooks \in Nat

VARIABLES
  source,    \* cfg.autoInject
  defers,    \* the host wants a tool hook (HookSpec.toolHook)
  scope,     \* scope a process derives now
  granted,   \* scopes the router lets through now
  cache,     \* the session cache file
  blocks,    \* blocks published, in order: [key, what, there, times, condemned]
  hook,      \* [Slots -> the process in the slot]
  started,   \* number of processes started
  changes,   \* number of changes
  tally      \* history: counts of what happened; lost counts the writes to the
             \* cache that a later write of one that had not read them undid

vars == <<source, defers, scope, granted, cache, blocks, hook, started, changes, tally>>
settings == <<source, defers>>
access == <<scope, granted, changes>>

NoCache == [exists |-> FALSE, turns |-> 0, attempts |-> 0, answered |-> FALSE, defer |-> FALSE]
Gone == [kind |-> "none"]
One(happened) == IF happened THEN 1 ELSE 0
Zero == [asks |-> 0, failures |-> 0, injected |-> 0, marks |-> 0, deferred |-> 0,
         writes |-> 0, lost |-> 0]

Init ==
  /\ \E setting \in Settings : source = setting[1] /\ defers = setting[2]
  /\ scope \in Scopes /\ granted = Scopes
  /\ cache = NoCache /\ blocks = <<>>
  /\ hook = [s \in Slots |-> Gone] /\ started = 0 /\ changes = 0 /\ tally = Zero

Enter(s, process) ==
  /\ hook[s] = Gone /\ started < MaxHooks
  /\ hook' = [hook EXCEPT ![s] = process]
  /\ started' = started + 1
Leave(s) == hook' = [hook EXCEPT ![s] = Gone] /\ UNCHANGED started

-----------------------------------------------------------------------------
(* Blocks for a tool hook *)

\* pendingContextFiles, cut at the batch size: the oldest ones.
Pending(key) == {n \in DOMAIN blocks : blocks[n].there /\ blocks[n].key = key}
FirstPending(key) ==
  {n \in Pending(key) : Cardinality({m \in Pending(key) : m < n}) < Batch}

\* stashPendingContext: content a waiting block already holds is left out.
Stash(key, what) ==
  blocks' = IF what = {} \/ \E n \in FirstPending(key) : what \subseteq blocks[n].what
            THEN blocks
            ELSE Append(blocks, [key |-> key, what |-> what, there |-> TRUE, times |-> 0,
                                 condemned |-> FALSE])

\* discardPendingContext.  The code renames block by block, and so may lose some to
\* a hook that claims them meanwhile; each claim is exclusive, so every block is
\* discarded or handed over, as it is when this one step comes before or after.
Discard(key) ==
  blocks' = [n \in DOMAIN blocks |->
               IF blocks[n].there /\ blocks[n].key = key
               THEN [blocks[n] EXCEPT !.there = FALSE, !.condemned = TRUE] ELSE blocks[n]]

\* The context goes to the tool hook when the scope is still the one of the
\* start of the process, to the host when the host takes it.
HandOver(s, what) ==
  IF defers /\ scope = hook[s].scope THEN Stash(scope, what) ELSE UNCHANGED blocks

-----------------------------------------------------------------------------
(* SessionStart *)

BeginStart(s) == Enter(s, [kind |-> "start", scope |-> scope])
                 /\ UNCHANGED <<settings, access, cache, blocks, tally>>

\* The server confirmed that the bank holds no document, or not.
EndStart(s, empty) ==
  /\ hook[s].kind = "start" /\ Leave(s)
  /\ cache' = IF empty THEN [NoCache EXCEPT !.exists = TRUE, !.defer = TRUE] ELSE cache
  /\ tally' = IF empty THEN [tally EXCEPT !.marks = @ + 1,
                                          !.writes = @ + 1,
                                          !.lost = @ + cache.turns] ELSE tally
  /\ HandOver(s, {"preamble"})
  /\ UNCHANGED <<settings, access>>

-----------------------------------------------------------------------------
(* A prompt *)

\* The session still asks for its one injection.
Asks(cached) == ~cached.defer /\ ~cached.answered /\ source # "none"

BeginPrompt(s) ==
  /\ Enter(s, [kind |-> "prompt", scope |-> scope, cached |-> cache,
               seen |-> tally.writes])
  /\ UNCHANGED <<settings, access, cache, blocks, tally>>

\* What a source gives: a body; nothing; a failure, which for a reflection may
\* be permanent, or send the query to the pages and then to the memories.
Givings(cached) ==
  IF ~Asks(cached) THEN {"unasked"}
  ELSE {"body", "empty", "failed"} \cup (IF source = "reflect" THEN {"permanent"} ELSE {})
Fallback(pages, memories) == IF "body" \in {pages, memories} THEN "body" ELSE "failed"

\* resolveInjection: nothing more is asked in this session.
Resolved(got, attempts) ==
  \/ got \in {"body", "permanent"}
  \/ got = "empty" /\ (source = "reflect" \/ attempts >= EmptyAttempts)
  \/ got = "failed" /\ attempts >= InjectAttempts

\* buildHookOutput returns: the cache is written over, the context handed on.
EndPrompt(s, got) ==
  LET cached == hook[s].cached
      ran == got # "unasked"
      attempts == IF ran THEN cached.attempts + 1 ELSE cached.attempts
      turns == cached.turns + 1
      context == (IF got = "body" THEN {"answer"} ELSE {})
                 \cup (IF turns % Cadence = 0 THEN {"roster"} ELSE {}) IN
    /\ hook[s].kind = "prompt" /\ got \in Givings(cached) /\ Leave(s)
    /\ cache' = [exists |-> TRUE, turns |-> turns, attempts |-> attempts, defer |-> FALSE,
                 answered |-> cached.answered \/ (ran /\ Resolved(got, attempts))]
    /\ HandOver(s, context)
    /\ tally' = [tally EXCEPT !.writes = @ + 1,
                              !.lost = @ + tally.writes - hook[s].seen,
                              !.asks = @ + One(ran),
                              !.deferred = @ + One(cached.defer),
                              !.failures = @ + One(got \in {"failed", "permanent"}),
                              !.injected = @ + One(got = "body")]
    /\ UNCHANGED <<settings, access>>

\* A reflection that timed out or met a server error falls back.
EndPromptBackedUp(s, pages, memories) ==
  source = "reflect" /\ EndPrompt(s, Fallback(pages, memories))

-----------------------------------------------------------------------------
(* A tool hook *)

\* A process that has blocks still to claim and blocks it got.
Claiming(key, files, got) == [kind |-> "claim", scope |-> key, files |-> files, got |-> got]

\* Without a block waiting for its scope the process ends.
BeginTool(s) ==
  /\ defers /\ Pending(scope) # {}
  /\ Enter(s, [kind |-> "tool", scope |-> scope])
  /\ UNCHANGED <<settings, access, cache, blocks, tally>>

\* Every bank has been probed: a refusal, or a scope that changed meanwhile,
\* discards what is pending; a failure leaves it; else it is claimed.
EndProbe(s, answer) ==
  LET key == hook[s].scope IN
    /\ hook[s].kind = "tool"
    /\ answer = "ok" => key \in granted
    /\ IF answer = "denied" \/ scope # key THEN Discard(key) ELSE UNCHANGED blocks
    /\ hook' = [hook EXCEPT ![s] =
         IF answer = "ok" /\ scope = key
         THEN Claiming(key, FirstPending(key), {}) ELSE Gone]
    /\ UNCHANGED <<settings, access, cache, started, tally>>

\* Mutant of Claimed: a block another process has renamed is claimed as well.
Mut_ClaimedAnyway(n) == TRUE

\* claimPendingContext: the rename of one file, which another process may
\* have renamed first.
Claimed(n) == blocks[n].there
Claim(s) ==
  /\ hook[s].kind = "claim"
  /\ \E n \in hook[s].files :
       /\ \A m \in hook[s].files : n <= m
       /\ hook' = [hook EXCEPT ![s] = Claiming(@.scope, @.files \ {n},
                                               @.got \cup {m \in {n} : Claimed(m)})]
       /\ blocks' = [blocks EXCEPT ![n].there = FALSE]
  /\ UNCHANGED <<settings, access, cache, started, tally>>

Deliver(s) ==
  /\ hook[s].kind = "claim" /\ hook[s].files = {} /\ Leave(s)
  /\ blocks' = [n \in DOMAIN blocks |->
                  IF n \in hook[s].got THEN [blocks[n] EXCEPT !.times = @ + 1] ELSE blocks[n]]
  /\ UNCHANGED <<settings, access, cache, tally>>

-----------------------------------------------------------------------------
\* A process is killed by its host (hostTimeoutSec) or ends on a refusal.
Kill(s) == /\ hook[s] # Gone /\ Leave(s)
           /\ UNCHANGED <<settings, access, cache, blocks, tally>>

\* The credentials, the banks or the working directory change; the router
\* stops or resumes letting a scope through.
Change == changes < MaxChanges /\ changes' = changes + 1
          /\ UNCHANGED <<settings, cache, blocks, hook, started, tally>>
ChangeScope == Change /\ UNCHANGED granted /\ \E new \in Scopes \ {scope} : scope' = new
Regrant == /\ Change /\ UNCHANGED scope
           /\ \E changed \in Scopes :
                granted' = IF changed \in granted THEN granted \ {changed}
                           ELSE granted \cup {changed}

Outcomes == {"body", "empty", "failed"}
Step(s) ==
  \/ BeginStart(s) \/ BeginPrompt(s) \/ BeginTool(s) \/ Claim(s) \/ Deliver(s) \/ Kill(s)
  \/ \E empty \in BOOLEAN : EndStart(s, empty)
  \/ \E got \in Outcomes \cup {"permanent", "unasked"} : EndPrompt(s, got)
  \/ \E pages, memories \in Outcomes : EndPromptBackedUp(s, pages, memories)
  \/ \E answer \in {"ok", "denied", "failed"} : EndProbe(s, answer)
Next == ChangeScope \/ Regrant \/ \E s \in Slots : Step(s)

Spec == Init /\ [][Next]_vars

-----------------------------------------------------------------------------
(* Properties *)

\* Types of the files and the processes.
TypeOK ==
  /\ scope \in Scopes /\ granted \subseteq Scopes
  /\ cache \in [exists : BOOLEAN, turns : 0..MaxHooks, attempts : 0..MaxHooks,
                answered : BOOLEAN, defer : BOOLEAN]
  /\ blocks \in Seq([key : Scopes, what : SUBSET {"preamble", "answer", "roster"}, there : BOOLEAN,
                     times : Nat, condemned : BOOLEAN])
  /\ \A s \in Slots : hook[s].kind \in {"none", "start", "prompt", "tool", "claim"}

\* Of overlapping hooks the last to write wins and what the others counted is
\* lost; but for those writes a session is answered once, gives up after so
\* many failures and so many questions, and skips one prompt for each time its
\* bank was found empty.
InjectionBudget ==
  /\ tally.injected <= 1 + tally.lost
  /\ tally.failures <= InjectAttempts + tally.lost
  /\ tally.asks <= EmptyAttempts + tally.lost
  /\ tally.deferred <= tally.marks + tally.lost

\* A block reaches the model at most once, however many tool hooks claim it,
\* never after a tool hook of its scope was refused while it was waiting.
HandoffOnce ==
  \A n \in DOMAIN blocks :
    /\ blocks[n].times <= 1
    /\ blocks[n].condemned => blocks[n].times = 0

\* A process claims only what was published under the scope it has just
\* proved, and that the router let through.
ClaimsItsScope ==
  \A s \in Slots : hook[s].kind = "claim" => \A n \in hook[s].got : blocks[n].key = hook[s].scope
=============================================================================
