# Formal model of the Hindsight memory router integrations

This directory holds TLA+ modules that model the stateful core of the
repository, TLC configurations that model-check them on small instances, and
proofs, checked by TLAPS, that hold for every value of the constants.  Paths
below are relative to the repository root; `shared/` stands for `src/shared/`,
`agents/` for `src/upstream/coding-agents/src/` and `core/` for `agents/core/`.

## 1. Inventory

The repository connects two kinds of hosts, the OpenClaw gateway and some
thirty coding agents, to a memory router that stores memories in banks.

| Component | State it keeps | Operations | Modules |
|---|---|---|---|
| Retain coordination (`shared/retain-coordinator.ts`) | none of its own: the queue file and three locks per principal | `retain`, `flushQueues` | `RetainCoordinator` |
| Retain queue (`src/upstream/src/retain-queue.ts`) | rows of a JSONL file: identity, bank, operation id, attempts, replay state | enqueue, remove, set state, ensure operation ids, clean up, recover | `RetainQueue`, `QueueFile` |
| Queue storage (`shared/retain-queue-storage.ts`, `shared/private-queue-files.ts`) | lock files, queue directory, recovery snapshots | `admission`, `replay`, `transaction` | `RetainCoordinator`, `QueueFile` |
| OpenClaw plugin (`src/plugin.ts`) | per-session digests and in-flight counters; flush timer, stop flags | recall hook, retain hooks, service start and stop, knowledge tools | `PluginRetain`, `RetainService`, `Recall` |
| Recall coordination (`shared/recall-coordinator.ts`, `shared/read-execution.ts`) | one deadline per read | parallel bank reads, merge, trim | `Recall` |
| Authenticated clients (`shared/authenticated-client-factory.ts`, `shared/router-transport.ts`, `shared/hosted-client.ts`) | client and transport per agent, denied-token latch, replay probe | `forAgent`, `createRetainReplayProbe`, `request` | `RouterTransport`, `RouterClients` |
| Bank access, credentials, knowledge tools (`shared/bank-access.ts`, `shared/principal-credential-resolver.ts`, `shared/knowledge-tools.ts`) | routing table, re-read when it changes | `resolveWriteBank`, `resolveReadBanks`, authorization of a URL | `BankAccess` |
| Human login (`src/coding-agents/`) | browser login in progress, stored session | login, sign-out, the transport of an agent | `HumanSession` |
| Agent session runtime (`core/runtime.ts` and the adapters of live hosts) | state per session, injections, idle calls and retains in flight | prompt, idle, dispose, teardown | `AgentRuntime` |
| Prompt, session-start and stop hooks (`core/hook.ts`, `core/session-start.ts`, `core/session-cache.ts`, `agents/harness/hook-lifecycle.ts`) | a session's cache and pending blocks | one process per event of the host | `PromptHooks`, `SessionStart` |
| Turn journal, private state (`core/turn-journal.ts`, `core/private-state.ts`) | a session's root and journal | append, read | `SessionFiles` |
| Session write-back (`core/chat.ts`, `core/retain-cursor.ts`, `core/retain-hook.ts`) | a cursor per session: turns, fingerprint, pending entries, outstanding operations | append, replace, settle | `SessionWriteBack` |
| Transcripts (`core/transcript*.ts`) | none: they read the hosts' logs | eighteen readers | `Transcripts` |
| Survey lease and survey (`core/survey-lease.ts`, `core/survey.ts`, `agents/deepen.ts`) | a lease directory per repository; markers and documents of a bank | acquire, heartbeat, hand over, release, reclaim | `SurveyLease`, `SessionStart` |
| Installer (`agents/installer.ts`, `agents/install-transaction.ts`) | configuration files of the agents, snapshots of them | install, uninstall, update, roll back | `HostAdapters`, `Install` |
| Auto-update (`core/auto-update.ts`) | lock file, stamp, staged runtime | check, spawn, replace | `AutoUpdate` |
| Configuration, REST client, audit, usage | none | parsing, formatting, requests | see section 8 |

What makes each component hard and correct:

* **Retain path.**  Several processes share one queue directory; each may die
  between the request and its record.  Writes of one document must reach the
  server in the order they were accepted; a write whose outcome is unknown must
  stop the principal; a closed authorization gate must hold everything but one
  probe, and what it holds must not be lost to expiry or abandonment; a retry
  must carry the operation id of the first attempt; unreadable bytes must hold
  whatever lies behind them.
* **Queue file.**  A crash can tear the last line or leave a snapshot behind;
  reading the file must neither duplicate nor lose rows, and the answer to a
  request must fit in the file that holds its marker.
* **Plugin.**  Hooks of one turn run concurrently; the service is stopped and
  started while requests are under way; banks answer a recall in any order.
* **Clients and logins.**  A denial latches a token that may already have been
  rotated; a probe publishes a client while another is being built; a browser's
  callback races the login's timer.
* **Runtime and hooks.**  Disposal and eviction race work in flight; processes
  of one session meet only in files and may be killed between any two of them.
* **Write-back and readers.**  The document at the server must be the
  transcript, without repeated or missing turns, though appends fail or are
  killed half-way and hosts write their logs out of order.
* **Leases, updates, installs.**  Locks are read and then replaced; a roll-back
  can fail; a background process may die with everything it holds.

`PROJECT.json` lists every component with its status and every hazard with its
source line and the properties that cover it.

## 2. How the project is built

Components that share state are one module or compose: the retain path is one
specification over the file, its locks and its actors, with an abstract outbox
above it.  The others meet only over HTTP or through the user's machine, so each
is a specification of its own.  Three modules gather them for TLC: a behaviour of
`MCRouter`, `MCAgents` or `MCBackground` chooses one part in its initial state,
follows that part's specification, and leaves the variables of the others at
rest.  A property of such a module names the part it is about.

| Module | What it is |
|---|---|
| `RetainQueue`, `RetainCoordinator`, `RetainOutbox`, `MCRetainCoordinator` | the retain path, the abstract specification it implements, constants for TLC |
| `RetainCoordinatorProofs` | proofs about it |
| `QueueFile`, `QueueFileProofs` | the bytes under a queue, and proofs about them |
| `PluginRetain` | the retain hooks of one OpenClaw session |
| `RetainService` | the service that schedules flushes |
| `BankAccess`, `Recall` | what a principal may do; one recall over several banks |
| `RouterTransport`, `RouterClients`, `HumanSession` | the latch on denied tokens, and its two users |
| `AgentRuntime` | the sessions of a live host |
| `PromptHooks`, `SessionFiles` | the hook processes of one session and the files they share |
| `SessionWriteBack`, `MCSessionWriteBack` | the cursor protocol |
| `Transcripts` | what the hosts' logs become |
| `HostAdapters`, `Install` | what an installation writes, and the transaction around it |
| `SessionStart`, `SurveyLease`, `SurveyLeaseProofs`, `MCSurveyLease`, `AutoUpdate` | what a session start sets going in the background |
| `MCRouter`, `MCAgents`, `MCBackground` | the parts gathered for TLC |
| `RouterProofs`, `AgentsProofs`, `AgentRuntimeProofs`, `BackgroundProofs` | proofs about the parts |
| `RecursionLemmas` | induction, and functions defined by recursion |
| `Lists` | the operators of `SequencesExt` and `FiniteSetsExt` that the components use, alone: extending those modules in each component would triple the time of the proofs about a composition |

What is left to do, most useful first: a proof that the transcript readers lose and
double no turn (`RetainsTheSession`); the watch on the managed configuration file; the
sequential import of old conversations.

## 3. The retain path

### State

`queue` is the file: a function from row identities to rows, with `pos` for the
order of its lines.  `admission` and `delivery` are the holders of
`.retain-admission.lock` and `.retain-replay.lock`.  The mutation lock is not a
variable: `storage.transaction` holds it around synchronous code only, so a
transaction is one action.  `pc` is the control point of each sender and each
flush; every point other than a lock wait, an HTTP request or a re-read of the
routing table is left by a transaction.  `work` holds the locals of a flush:
the rows it loaded, how far it got, the row it claimed and the state that row
had.  `writeBank` is what `resolveWriteBank` returns now.  `applied`, `sent`,
`turn` and `shielded` are history variables: writes the server performed,
operation ids used, admission order, rows a gate has protected.

### Actions

A sender (`retain`) goes `Retain` (bank resolved, admission lock taken),
`TryDelivery` (the delivery lock is tried, not waited for), `Inspect` (the
transaction that prepares the queue and decides between sending and queueing),
`RecheckBank`, then `DirectDelivered`, `DirectRefused` or `DirectTransient`,
and `EnqueueRequest`.  A flush goes `Flush`, `ReplayQueue` (prepare, decide
between probing and a batch), `PrepareReplayOperationIds`, then `AttemptProbe`
or `AttemptNext` (claim of a row: operation id, sending marker, attempts),
`CheckBank`, `Deliver` or `Refuse`, and one of `Acknowledge`, `Deny`,
`QuarantinePermanent`, `RecordTransientFailure`, `Unroute`, `Mismatch`.

`Abort` is a storage failure or the death of a process at any point, with any
prefix of the rewrites of the current transaction (`PartialWrites`), a torn
append included.  `Reroute`, `Age` and `OperatorResume` are the environment:
an edit of the routing table, the passing of time, and the documented repair of
an unresolved request.

### Under the queue: `QueueFile`

`QueueFile` replaces "a rewrite is one step" by the steps it is made of: the
prefix of legible lines is kept, illegible bytes are copied into a numbered
recovery snapshot (`Preserve`), the new file is renamed over the old one
(`Replace`), an append may be torn (`AppendRow`, then `Crash`), and a file whose
last line lacks its newline is repaired first (`RepairLine`).  Lines have lengths
in bytes, so that the two limits of the code decide: an append must leave room
for what answering the rows being sent will add, and a marker that could not be
written stops the request before it is made.  `Enqueue`, `EnsureOperationIds`,
`MarkSending`, `Answer` and the flush's `Prepared` are the callers.

### Bounds

`MaxAborts`, `MaxReroutes` and `MaxResumes` bound faults; `FreshOps` bounds
the ids a replay may generate; `MaxReplayAttempts = AttemptCap = 2` lets a row
be abandoned and the counter saturate.  Two writes of a document are what an
order can be violated with; two flushes and a sender are what can race over a
marker; the third initial file has two gates.  One crash leaves a marker, the
second hits the recovery from it.  `QueueFile` starts from three files (two whole
rows; two illegible stretches, a row and a torn end; rows of two banks, the last
without its newline), appends up to two rows of 150 bytes under limits of 485,
1000 and 1450 bytes, which are one row too few, just enough and plenty, through at
most five rewrites, one crash and one change of bank.

## 4. The plugin and the shared client (`MCRouter`)

**`PluginRetain`** is the retain hook of one OpenClaw session (`runRetain`).
Hooks are coroutines of one JavaScript thread, so the code between two awaits is
one action: `RunHook` covers a hook from its arrival to its first await,
whichever of the early returns it takes; `Accepted` and `Failed` resume the hook
whose request was answered; `Drain` is the finally of a request and `ResumeHook`
that of each hook which awaited it.  `Evict` is the bounded map that drops an old
session.

**`RetainService`** is `registerService`.  A call of the host, a tick of the
interval, the end of a flush and the shutdown deadline are tasks of the event
loop; the promise reactions a task sets off run before the next task and belong
to its action (`EndStop`).  The one assumption in this is that the host makes its
calls from tasks of its own.

**`Recall`** is one recall: `Start` resolves the banks and asks all of them,
`Answers`, `Fails` and `Timers` settle them in any order, `Finish` merges, ranks
and trims.  An answer may be malformed or arrive after the deadline; a denial
keeps everything back.  Its callers are the hook, the plugin's tool and the MCP
server, which treat a partial failure differently.  `BankAccess` holds the tables:
how a principal is resolved, which request each tool and each method of the hosted
client makes, which of them the transport lets through.

**`RouterClients`** is the cache of `AuthenticatedClientFactory`: a client and a
transport, each with the token it was built for, a probe of its own that is
committed only if nothing else was cached meanwhile, and requests answered at any
later time, after the token was rotated and perhaps rotated back.  The latch
itself (`credential`, `request`) is `RouterTransport`, shared with
**`HumanSession`**: login commands (browser callback, timer, exchange, secure
store, revocation), sign-out commands and the requests of an agent process, which
reads the stored session anew for each.

## 5. The coding agents (`MCAgents`, `MCBackground`)

**`AgentRuntime`** is `RuntimeCore` with the adapters of five live hosts.  A
host is what it announces, in its own order: opencode hands over the transcript
while it builds a request, opencode2 announces an end of turn in two events and
hears events of other workspaces, pi and Cline hold the first prompt back, Cline
gives up on a hook.  A call runs up to its await; what is under way is a task that
holds the session's state object, which the map may have dropped meanwhile.

**`PromptHooks`** is one session of a host that runs a process per event.  A
process reads the session cache, asks, and writes the cache over; where the model
only sees what a tool hook prints, it publishes a block that a later tool hook
claims by renaming it, after probing every bank.  Scope and grants change while
processes run, and a process may be killed anywhere.  **`SessionFiles`** is two
more files of the session, the recorded root and the journal that stands in for a
transcript: reading the tail, appending and being killed in the middle are steps
of their own.

**`SessionWriteBack`** cuts `writeSession` at its awaits: `Start` reads
transcript, bank and cursor; `Probe` asks whether the server takes appends;
`SettleOps` asks what became of accepted operations; `ReplaceDocument`,
`AppendTurns` and `Skip` are the plan with its claim; `Deliver`, `NotFound` and
`RateLimited` are the answers; `ConfirmReplace` and `ConfirmAppend` store the
outcome; `GiveUp` ends a write-back at any await.  A turn is a number, a
fingerprint of a prefix the prefix itself, an operation id the record of what it
is the hash of.  The server is external: it performs the operations of a bank in
the order it accepted them, each may fail, and a known id is collapsed into the
operation it names.  It is assumed to accept a request, if at all, before the
client is done with it.  `Start` reads transcript and cursor in one step: a live
host captures the turns before the write-back has its turn in the in-process chain,
which is first in, first out, and nothing else reads the transcript, so that a
later capture is the same behaviour with the changes in between postponed.

**`Transcripts`** has a host append records in the order that its format's
reader documents, and states what the reader should make of them: a message
written as several kinds of records, injected memory, side conversations,
summaries, the final reply that is not in the log yet when the Stop hook runs.  That
may happen in every host that runs hooks (`SlowHosts`: `core/usage.ts:124-136` measured
it for Claude Code); dcode alone hands the reply over with the hook
(`CarriesReply`).  In the others the reply is read by the next Stop, and if there is
none it is never retained: `RetainsTheSession` says so of exactly that turn.

**`HostAdapters`** and **`Install`**: a file is its shape (absent, JSON, comments,
illegible), the user's content and the entries of ours in it.  The user's content is
the set of things in it that some adapter looks at or acts on (`KeyFiles`): settings
that are seeded where they are missing, a server or skill under our name, and hooks
or plugins that mention `coding-agents`, by which the code knows its own.  Each of 22
hosts is a table of the rewrites its adapter makes, and `Effect` says what each does:
what it keeps, seeds, refuses and leaves behind.  `Begin` checks and snapshots,
`Write` performs one rewrite, `Commit`, `Fail` and `Rollback` end the command.
`PassOver` is a failed write that the code swallows (`BestEffort`: TraeCode's user-level
and per-repo registrations and its `.gitignore`, and verdicts of command lines that
nobody looks at); the command goes on and commits with whatever is in the file.  A
write that fails or is killed (`Killed`) leaves the file as it was, illegible, or, where
it is text, with half a block (`HalfWritten`).  `RunAdapter` takes up the next of the
hosts still `remaining`, in any order.  A later command may have another release or
another tool prefix.

**`SessionStart`** is what a session start decides about a repository, on four
lists read one after the other from a bank that changes meanwhile: seed it, refresh
it after commits, survey it again.  **`SurveyLease`** is the lease under which it is
surveyed: contenders share the file system only, so every system call is an
action.  A contender is first the hook that takes the lease, then the supervisor it
hands it to, then the supervisor of a running agent.  `Expire` makes an owner file
stale when its process is suspended, dead or not yet beating, or, within the bound
on glitches, when heartbeats fail or the clock is set.  **`AutoUpdate`** is the
daily check: the lock is read in one step and written in another, and the updater
is a process of its own.

## 6. Runs

| Run | Instance | What it shows |
|---|---|---|
| `RetainOrder` | two senders of one document, one flush, a corrupt row, two crashes | `TypeOK`; nothing passes a corrupt row (`BarrierHoldsSuccessors`); no earlier write of a document is alive once a later one was sent (`OvertakenIsSettled`); the path implements `RetainOutbox` (`ImplementsOutbox`) |
| `RetainGate` | two flushes, one sender, two legacy rows, three initial files, expiry | an unresolved request pauses the principal; a gate admits its probe only; protected rows survive; operation ids are stable; every removal has a reason |
| `RetainLiveness` | one flush, one sender, no expiry | every `retain` returns; a queued row drains unless only an operator can move it |
| `Router` | `MCRouter`, six parts, 574 370 states | recall: the best of what was heard in time, nothing when a bank refuses, the tables of tools agree (`RecallIsBest`); clients: a commit never replaces a newer client (`NewestIsCached`); logins: no session left by a failed one, requests carry the owner of their token and are refused for cause; hooks: `KeptIsNewest`; service: `LatestCallWins`, `NoFlushWhenStopped`; file: `NothingLost`; `EveryCallReturns` |
| `Agents` | `MCAgents`, six parts, 2 671 875 states | runtime: work keeps its session, a session believed retained is, requests carry their own block; hooks: a block is handed over once and in its scope; files: what was read is read again (`PrefixKept`); write-back: `TurnsSentOnce`, `CursorTellsTruth`; readers: `RetainsTheSession`; installer: a failed command restores and nothing of the user's is lost but what the code gives up (`FailureRestores`), after an install every entry is there once, after an uninstall nothing but what the code leaves (`InstalledOnce`) |
| `Background` | `MCBackground`, three parts, 131 221 states | a survey that lost its lease is stopped, a survey that came to nothing is run again, a due check is made in the end |
| `SurveyExclusion` | three contenders, a crash, a suspension, a glitch | a holder owns its lease until its file has been stale; two surveys run only after that; no live owner's file is removed |
| `SurveyOrphan`, `WriteBackOverlap`, `WriteBackUnwritten`, `UpdateRace`, `TraeHooks` | | *violated*: see below |

Several properties of a part are conjunctions, as the modules say: for
example `KeptIsNewest` of `MCRouter` is `KeptIsNewest`, `SentOnce` and
`EndedSessionForgotten` of `PluginRetain`.

**Deadlock.**  On the retain path and the lease a state of rest stutters
(`Settled`, `Finished`), and the runs check that nothing else stops.  In the three
gathering modules a recall, a conversation, a journal, a series of commands come
to their ends, so those runs do not check for deadlock; what must go on in them is
a liveness property.  `UpdateRace` and `TraeHooks` likewise end.

**Bounds.**

* `Router`: two tokens, four transports and two rotations, enough for a token to be
  rotated away and back under a probe; two logins and one sign-out of two
  principals, with two requests, so that a denial can arrive for a session before
  the present one; three hooks over two transcripts (one sends, one joins or
  repeats, one is newer) with an eviction; five overlapping calls of the service;
  recalls of two banks with zero to three items, budgets of two and three, top-k
  absent or one.
* `Agents`: five hosts, two sessions in a map of one and a session of another
  workspace, two prompts, three admissions, two tasks at a time; four hook
  processes in two slots over two scopes with two changes, 2 and 3 attempts, a
  cadence and a batch of two; three events over two directories and a journal of
  two lines; three turns, two banks, one move, two tracked operations and one
  write-back at a time; three happenings in each of twenty formats (four were
  checked as well, 124 651 states of that part); two commands with one fault, each harness alone and the two pairs
  that share a file.  A file of the installer begins absent or with what one of three
  users has (`Starts`: all the settings and hooks that look like ours; a `version` and
  events of their own; a server under our name), and one file at a time may be there
  with nothing of the user's; an earlier release may have left TraeCode's server at the
  user level, and between the two commands a new release makes today's entries old.
  The parts have 534 804 states (installer), 1 069 473 (write-back), 545 934 (hooks),
  342 417 (files), 161 349 (runtime) and 17 898 (readers).  Three turns let a
  replacement, an append and a buffered append coexist, with a second operation
  tracked and the third forgotten.
* `Background`: two contenders with one fault of each kind; one session starting
  again and again over two commits, one deletion of the bank and one failure; two
  starters over two days with two deaths, so that a lock's holder dies and so does
  the process that took the lock over.
* `SurveyExclusion`: an owner, a reclaimer and a second reclaimer or new owner.

**Fairness.**  `RetainCoordinator!FairSpec` has weak fairness of each sender and
each flush: requests have timeouts, locks are polled for a bounded time
(`shared/retain-queue-storage.ts`), and the service's interval timer starts
flush after flush.  Strong fairness of `Deliver` says that the server is not
down for ever.  `MCRouter` assumes that a recall is started, its timers fire and
its merge runs, and that the service's deadline fires; of banks and of flushes it
assumes nothing.  `MCBackground` lets running processes take their steps (the
heartbeat's timer among them), suspended machines wake up, sessions start again
and again, and a survey or a write that does not fail end; failures are bounded and
never owed.  Nothing is assumed of faults and of the environment.

**Disagreements with the documentation.**  Each of the five is a run that TLC
refutes:

* `SurveyOrphan`: `core/survey-lease.ts:17-19` says that a reclaimed lease never
  leaves two surveys running.  An agent outlives a supervisor that is killed
  outright; its lease goes stale, another survey takes it, and nobody is left to
  stop the first.
* `WriteBackOverlap`: `core/retain-cursor.ts:39-41` says that an overlapping
  retain sees the advanced cursor.  Between reading the cursor and claiming a
  position a write-back awaits the status of earlier operations; the chain that
  keeps write-backs apart is in the memory of one process.
* `WriteBackUnwritten`: `core/session-cache.ts:229` says that a cursor that
  cannot be written costs a replace, never data.  It leaves the previous cursor,
  which is trusted: turns are appended a second time.
* `UpdateRace`: `core/auto-update.ts:418-420` says that simultaneous session
  starts can only ever produce one updater.  The lock is read and, when absent or
  stale, written in a later call (`:224`) that overwrites whatever is there.
* `TraeHooks`: `agents/installer.ts:2203` says that foreign hooks keep the file
  alive.  The uninstall keeps it only if more than one key is left (`:2204`), so a
  file of the user's hooks alone, without a `version`, is deleted.

Others were met on the way and are not runs of their own:

* `LastInjectionIsThisTurns` of `AgentRuntime` states the comment at
  `core/runtime.ts:264-266`; for opencode, which asks without a session id, TLC
  finds the block of another session.
* `RetriedSurveyDied` of `SessionStart` states what the log line near
  `core/session-start.ts:322` says of a survey that is run again: it may also be
  run because a list that failed to load was taken for an empty one.
* Uninstalling ZCode's hooks deletes the whole hooks block when no events are left in
  it (`agents/installer.ts:2010`), and with it a `maxOutputBytes` of the user's, which
  `:1953-1954` says the user owns.
* Hooks and plugins are known as ours by the text `coding-agents` (`:210-217`): a hook of
  the user's that mentions it is dropped.
* A failed write of TraeCode's registrations is swallowed (`:2051-2065`,
  `core/traecode-mcp.ts:278-284,322-324`): the command commits, and the snapshot of a
  torn file is dropped.  These three are what `UserContentKept` of `Install` excepts
  (`Forfeit`, `passedOver`).
* The last reply of a session is lost when its Stop hook ran too early (above).
* A host's configuration with comments passes the installer's validation, which
  tolerates them, and is then read by `readJson` as an empty object: the write that
  follows loses its contents.  `Install` starts from files without comments where
  an adapter uses `readJson`.
* `.trae/mcp.json.hindsight-backup` is written outside the paths a command
  snapshots.
* A Codex session that a newer release resumes has its messages in two kinds of
  records, and the reader takes one kind only (`core/transcript-codex.ts:207,242`);
  Kimi's budget of items is shared between agents, so turns read before may fall
  out (`core/transcript-kimi.ts:280-305`).  `Transcripts` has one release per log
  and stays within the budgets.

## 7. Proofs

`RetainCoordinatorProofs` proves, for any number of senders, flushes, rows,
documents and banks, from `QueueConstants` and `CoordinatorConstants` only:

* `TypeCorrectness`: `Spec => []TypeOK`;
* `UnresolvedSendPausesAlways`, `GateHoldsBacklogAlways`,
  `BarrierHoldsSuccessorsAlways`: the three properties of the same name.

None of the four is inductive.  The invariant behind them (`Invariance`) adds

* lock ownership: who holds which lock at which control point, so that at most
  one actor is between a claim and its outcome;
* the claim of a flush: between claim and outcome, the file holds its target
  with the sending marker, no other row has a marker, no gate other than the
  target's is closed when probing, and no corrupt row lies before the target;
* the clear file of a direct send: while a sender has a request on the wire the
  file has no marker, no gate and no corrupt row, because only the holder of
  the delivery lock writes those and expiry and admission are held off.

Its first section states once what each rewrite does to the type, the gates, the
markers and the order of rows.

Its second part proves `ShieldedNeverLost` and `OperationIdsStable` on top of
that invariant.  A protected row is one whose durable state keeps expiry and
abandonment off, and it must do so in every rewrite, torn ones included
(`ShieldOK`); a write that was sent has been sent under one id, and its row, if it
still has one, carries it (`OpsOK`); what a flush remembers of the row it claimed
agrees with the row (`NotesOK`).  `Keeps` is the relation between two contents of
the file under which both histories stay true; each rewrite is shown to be one.

It proves `WritesInOrder` and `RemovalsJustified` as well.  The sender
that was admitted last has the last turn and its row is appended behind all
others, so the lines of the file are in the order of turns (`LinesOK`,
`TurnsOK`).  Whoever sends has seen no row of its document in front (`FirstOK`
for the claim of a flush, `DirectOK` for a sender that inspected the file), hence
no performed write has an earlier one waiting (`WaitingOK`).  For removals the
invariant says in addition that a row has either no replay state or one that is
present (`StatesOK`), so that a row which expires or is abandoned is neither
protected nor quarantined.  `SameRows` and `Appends` are the relations each
rewrite is shown to be.

Its last theorem is `OutboxImplemented`: `Spec => ImplementsOutbox`.  An
admission is a `TakeOn`; every other step opens no write (`Ordered`) and has one
of three effects, which map to a `Close` or a stutter (`Quietly`), to `Perform`
(`Performs`, in turn by `WireInTurn`) and to `Pin` (`Pins`).

`SurveyLeaseProofs` proves, for any number of contenders and faults, `TypeOK`,
`HolderOwns`, `SurveysExclude` and `OwnersKeepTheirFile`.  The invariant
(`LeaseInvariance`) adds that a reclaimer about to unlink saw a file that has
been stale (`SeenLapsed`), which is what keeps a late unlink away from a live
owner, and that the supervisor of a running agent is at `running` or was killed,
with its own file in the lock unless that file has been stale (`AgentsOwn`).

`QueueFileProofs` proves `NothingIsEverLost` (`AnySpec => []NothingLost`): from the files
and under the limits `MCRouter` starts with, for any rows appended, any banks and any
number of rewrites, crashes and re-routes, an acknowledged row and every
illegible stretch survive each step of a rewrite and each torn append, barriers
describe bytes their snapshot holds, each its own, and the answer to the row that is
sent can be recorded.  Of the constants it assumes that the shortest row has 125
bytes (an id, a bank, a date, and the JSON around them): a barrier, which may replace an
illegible line, is bounded by what a line may come to.  `FileInv` has five parts.

* `LinesInv` is about the file: ids are distinct and barriers carry the generation
  they were made in, which is over, so that the names a rewrite gives next are new;
  the snapshot under way holds a prefix of the file's junk, which is why a crash after
  part of it was written does no harm.
* `NextInv` and `PendingInv` are about the operation under way: what each stage of it
  may still find (`StagesOk`), and that what is about to be put in place keeps
  everything, with the junk of the file in the snapshot before the rename.
* `RoomLeft` is the account of bytes.  An append is only admitted with 256 bytes left
  for every line, more than a line can grow (`Growth`), so after one each line may
  grow to its limit (`Roomy`), and no rewrite ends that.  A file found nearly full has
  no such room, and gets none, since nothing is appended to it.  There the other
  alternative holds: a closed gate has protected all rows (`GateProtects`), so that later
  steps do not add that a second time; the rows a flush may send are of one bank
  (`OneBank`), so that none is quarantined while one of them is sent; and what the
  answer may add was set aside when the row was marked (`Tight`).
* `FileTypes` are the types.

What reading a file yields (`Items`) and how long it is (`Total`) are recursive
functions, unfolded by induction over its lines (`ReadItems`, `TotalUnfolds`): each row
read is a line of the file or a barrier for a run of junk, in the order of the file,
and the barriers' ranges are the runs (`Reading`).

`RouterProofs` is about the parts of `MCRouter`, for any number of tokens,
transports, commands, requests, hooks, banks and items.

* `NewestIsAlwaysCached`: a client or a transport is as old as its place in the
  order of creation, and the transport of a probe is younger than whatever the
  probe found cached (`ClientsInv`), so that a commit under the unchanged cache
  replaces something older.
* `FailedLoginsLeaveNothing`, `AlwaysRefusedForCause`: a token is issued to one
  login (`HumanInv`), a login that is not over holds one that nobody else has
  stored, and what a command or a request saw of the store is a state the store
  had; a denial is of the very token the request carries.
* `AlwaysKeepsNewest`: the code compares ordinals that start again with every entry of
  `inFlight`, the property speaks of all requests ever made.  The invariant
  (`HooksInv`) says that both orders agree among the requests of an entry
  (`SameOrder`) and on which unanswered request is newer than what was recorded
  (`NewerAgrees`).
* `AlwaysTyped` is `MCRouter`'s type invariant, from the invariants of its six parts.
* `LatestCallAlwaysWins`, `NeverFlushesWhenStopped`: while a stop is under way and
  the latest call was a start, some start is still waiting for the stop to end
  (`WaitingStart`).
* `AlwaysRecallsBest`: while a recall runs only its types matter, as the result is
  computed in the one step that hands it over.  The rest is about the functions:
  merging keeps, of each text, a candidate that no other of all banks beats;
  the rank of a candidate is the number of those better than it, which is one to
  one and hence onto `0 .. n-1`, so that ranking is sorting; what trimming keeps is
  the longest prefix within the budget and the top k.

`AgentsProofs` is about the write-back, the prompt hooks and the installer of `MCAgents`.

* Write-back, for any number of turns, banks, moves, operations and retries.
  `TurnsAreSentOnce` rests on one fact (`WriteBackInv`): every turn of the
  transcript in an operation that a bank accepted lies within the position of the
  cursor kept for that bank, so that the slice behind the position is new to the
  bank.  `CursorAlwaysTellsTruth` adds `TruthInv`.  A cursor that is not dirty is
  `Truthful`, the stored one and those that a write-back carries through its
  awaits: once box and buffer are performed the document is the transcript up to
  the position, and every operation in the box is counted by the cursor, or
  followed by a replacement that makes its failure irrelevant (`Followed`).  What
  is buffered holds a turn newer than any replacement the bank accepted
  (`Buffered`).  A replacement that was accepted is what the document ends in, has
  failed, or was overtaken by a newer turn (`LatestOK`); the newest turn a
  write-back read tells its version of the transcript from all others (`Newest`),
  so a replacement that is confirmed cannot have been overtaken.  `After`, which
  performs a sequence of operations, is unfolded by the lemmas `AfterOneMore`,
  `AfterTheFirst` and `AfterReset`.  Both theorems assume that write-backs do not
  overlap (`OneAtATime`) and that the cursor can be written (`CursorIsWritten`);
  the runs `WriteBackOverlap` and `WriteBackUnwritten` show what happens otherwise.
* `BlocksAreHandedOverOnce`, for any number of hook processes, scopes and grants: a
  block is with its file, with the one process that renamed it, or delivered
  (`BlocksInv`), and the counts in the session cache may exceed the limits by the
  writes that a process at work has not seen (`BudgetInv`).

Of the installer it proves two theorems, for every harness and for machines on which
two of them share files, and for any number of commands, failures and kills.

* `RollbackAlwaysRestores`: the writes of a command that are still to come are to
  files that were snapshotted, and all other files are as before (`RestoreInv`).
* `FailuresAlwaysRestore`: each write of an adapter keeps what the user has in a file,
  but for what `Forfeit` names, or takes all of it away, and takes it away only where
  a copy is kept (`ContentInv`).  The adapters of the 22 hosts are a finite table, of
  which the proof uses what `EveryAdapter` reads off it: which kinds of writes there
  are, and to which files.  What each kind makes of a file is told by `EffectOK`.
  What a write may leave when it fails or dies is text or illegible (`FileOK`), and a
  file in which a failure was passed over is no longer spoken of.  The assumption is
  `NoLoneKey`: no hook file of TraeCode's begins with a single key of the user's.  The run
  `TraeHooks` is about the file for which it matters.

`AgentRuntimeProofs` proves `WorkAlwaysKeepsItsSession`, `RetainedAlwaysBacked`
and `InjectionAlwaysFresh` for any number of sessions, prompts and tasks and for
each host.  In `RuntimeInv` a session's state object is its own and at least as
busy as the tasks that hold it (`CoreOK`); the turn of each session is where its
host's order of announcements lets it be (`TurnOK`); what a state object says of
its generation, its retained turns and its injection agrees with the tasks under
way and with that turn (`ObjectOK`); an object of an ended session is only there
for work (`EndedOK`).

The same module proves `PrefixAlwaysKept`, for any number of hook processes,
directories, turns and lines of a journal.  While no two processes overlap, the
journal tells what was said in the order it was said in, and a process about to
append knows how the journal ends and that what is read of it stops short of the
turn it brings (`ProcessOK`): had it held that turn, it would end in it, and the
process would have left.  A process that found a root recorded, and nobody about to
record another, sees that root to the end (`CalmOK`).  Overlap or not, a record
joined to a line that was read to its end only adds to what is read
(`JoinedLine`, from `ToldOneMore` and `ToldAlike`).

Last in the module is `AgentsTypes`, the type invariant of `MCAgents`; it assumes of the
constants that every bound is a natural number and that the sets of harnesses a machine
may have (`Scenes`) are of one or two.  For the runtime the invariant
(`TypesInv`) is `RuntimeInv` with the account of places and tasks (`Typed`): a
session is only admitted where there is room, of any two sessions the order tells which one
was used later, and it tells of no session that is gone; and a task keeps the number it was pinned under until it is
released, so the count of an object is that of its tasks.  Of a write-back it is that the
operations a cursor tracks, those sent and those in a bank's box are well formed and for
the bank they are sent to (`WriteBackTypes`), and that what a hook remembers fits the step
it is at (`WorkTyped`); it needs neither of the two conditions of `TurnsAreSentOnce`.  For
the journal, `LinesEnded` is kept because a record is joined to an unterminated last line,
which then counts as bad.

`BackgroundProofs` proves `BackgroundTypes`, the type invariant of the three parts of
`MCBackground`, which is inductive for each of them.

`RecursionLemmas` replaces the library's theorems on induction and recursion, whose
operator parameters the provers cannot instantiate, by statements about sets: a set
of numbers that holds 0 and with each number its successor holds all (`Induction`),
and a function that follows a given sequence of steps exists (`Recursion`).  The
recursive functions of `Recall`, `SessionWriteBack` and `SessionFiles` are unfolded
with them.

Only model-checked: liveness (`RetainReturns`, `BacklogDrains`, `EveryCallReturns`,
`LostSurveyEnds`, `SurveyRetried`, `ChecksResume`), and whatever is ENABLED, which are out
of the prover's reach; and two invariants: `RetainsTheSession` of `Transcripts`, which
compares the output of eighteen recursive readers, and `InstalledOnce` of `Install`,
which is about what each adapter's whole table of writes comes to.

## 8. Not modelled

* Contents of memories, wording, logging, missions and other texts.
* Duplicate identities in a queue file (the queue throws) are outside the
  representation of a queue as a function.  The adoption of a queue directory,
  file modes and the move of a legacy file happen once, before anything else.
* The server: it performs a request, performs it without saying so, or refuses it.
* How the managed configuration file is watched: the coordinator sees a table that
  may change at any time, which is what every check in it is for.
* Configuration of the coding agents (`core/config.ts`, `core/banks.ts`): values
  read once per process.  Audit, tool prefix, router URL: formatting and validation
  of one value.
* The endpoints of the REST client (`core/hindsight.ts`) beyond those the
  write-back and the session start depend on; the ingestion of `deepen.ts` and the
  import of old conversations, which are sequential; the menus of the installer;
  path discovery of transcripts; the e2e harness and the release scripts.
* An update killed in the middle of a copy, a staged runtime replaced while an
  install runs, and a pid given to another process are outside `AutoUpdate` and
  `Install`.
* Of a session that several transcript files tell of, how `writeSession` puts the turns
  together or refuses to (`core/chat.ts:353-445`): `SessionWriteBack` starts from one
  transcript.
* Of the installer: the copies kept as `*.hindsight-backup`, Cline's hooks of an early
  release, dcode's second marketplace file; a new release and a new tool prefix are one
  event; the repositories TraeCode is registered in are one repository, CodeBuddy's three
  server files one file; a Codex configuration that has `[features]` without the
  flag, to which nothing is added, counts as having it; of Grok's blocks, one; droid's
  `settings.json` is taken to have hooks when there is no `hooks.json`.
