------------------------------ MODULE MCAgents ------------------------------
(***************************************************************************)
(* The parts of the coding-agent integration that share nothing but the    *)
(* machine: the runtime of an agent session, the prompt hooks and their    *)
(* session cache, the files of a session's Stop hooks, the write-back, the *)
(* readers of the hosts' logs and the installer.  One behaviour follows    *)
(* one of them, chosen at the start; the variables of the others are 0.    *)
(***************************************************************************)
EXTENDS Integers, Sequences, FiniteSets, TLC

CONSTANTS
  Hosts, Sessions, Foreign, MaxSessions, MaxPrompts, MaxObjects, MaxTasks,
  Slots, Scopes, MaxHooks, MaxChanges, InjectAttempts, EmptyAttempts, Cadence, Batch,
  Dirs, NoDir, Texts, MaxEvents, MaxLines,
  Hooks, Banks, NoCursor, MaxTurns, MaxMoves, MaxCursorOps, RetryAttempts, CursorWritesFail,
  Formats, MaxHappenings,
  Scenes, Starts, MaxCommands, MaxFaults

VARIABLES
  part,
  host, seeding, awaited, phase, prompts, replied, idle, order, object, state, admitted, cursor,
  tasks, injection, last, delivered, written,
  source, defers, scope, granted, cache, blocks, hook, started, changes, tally,
  root, journal, stopHook, said, events, overlap,
  transcript, made, bank, moves, stored, pc, work, document, inbox, status, forgotten,
  format, log, late, spoken, open, happened, read,
  scene, cli, disk, origin, command, todo, remaining, before, snapshots, left, passedOver, result,
  died, commands, faults

runtimeVars == <<host, seeding, awaited, phase, prompts, replied, idle, order, object, state,
                 admitted, cursor, tasks, injection, last, delivered, written>>
promptVars == <<source, defers, scope, granted, cache, blocks, hook, started, changes, tally>>
fileVars == <<root, journal, stopHook, said, events, overlap>>
writeBackVars == <<transcript, made, bank, moves, stored, pc, work, document, inbox, status,
                   forgotten>>
readerVars == <<format, log, late, spoken, open, happened, read>>
machineVars == <<scene, cli, disk, origin, command, todo, remaining, before, snapshots, left,
                 passedOver, result, died, commands, faults>>
all == <<part, runtimeVars, promptVars, fileVars, writeBackVars, readerVars, machineVars>>

\* Values of cfg.autoInject with and without a tool hook of the host.
Settings == {<<"reflect", TRUE>>, <<"reflect", FALSE>>, <<"pages", FALSE>>, <<"none", FALSE>>}

Runtime == INSTANCE AgentRuntime
Prompt == INSTANCE PromptHooks
Files == INSTANCE SessionFiles WITH hook <- stopHook
WriteBack == INSTANCE SessionWriteBack WITH cursor <- stored
Readers == INSTANCE Transcripts
             WITH Hosts <- Formats, MaxEvents <- MaxHappenings, host <- format, events <- happened
Setup == INSTANCE Install

ASSUME AgentsConstants ==
  /\ Runtime!RuntimeConstants /\ Prompt!PromptConstants /\ WriteBack!WriteBackConstants
  /\ Readers!ReadersConstants /\ Setup!InstallConstants

RuntimeRests ==
  /\ host = 0 /\ seeding = 0 /\ awaited = 0 /\ phase = 0 /\ prompts = 0 /\ replied = 0 /\ idle = 0
  /\ order = 0 /\ object = 0 /\ state = 0 /\ admitted = 0 /\ cursor = 0 /\ tasks = 0
  /\ injection = 0 /\ last = 0 /\ delivered = 0 /\ written = 0
PromptRests ==
  /\ source = 0 /\ defers = 0 /\ scope = 0 /\ granted = 0 /\ cache = 0 /\ blocks = 0
  /\ hook = 0 /\ started = 0 /\ changes = 0 /\ tally = 0
FilesRest ==
  /\ root = 0 /\ journal = 0 /\ stopHook = 0 /\ said = 0 /\ events = 0 /\ overlap = 0
WriteBackRests ==
  /\ transcript = 0 /\ made = 0 /\ bank = 0 /\ moves = 0 /\ stored = 0 /\ pc = 0 /\ work = 0
  /\ document = 0 /\ inbox = 0 /\ status = 0 /\ forgotten = 0
ReadersRest ==
  /\ format = 0 /\ log = 0 /\ late = 0 /\ spoken = 0 /\ open = 0 /\ happened = 0 /\ read = 0
SetupRests ==
  /\ scene = 0 /\ cli = 0 /\ disk = 0 /\ origin = 0 /\ command = 0 /\ todo = 0
  /\ remaining = 0 /\ before = 0 /\ snapshots = 0 /\ left = 0 /\ passedOver = 0 /\ result = 0
  /\ died = 0 /\ commands = 0 /\ faults = 0

Init ==
  /\ part \in {"runtime", "prompt", "files", "writeBack", "readers", "setup"}
  /\ IF part = "runtime" THEN Runtime!Init ELSE RuntimeRests
  /\ IF part = "prompt" THEN Prompt!Init ELSE PromptRests
  /\ IF part = "files" THEN Files!Init ELSE FilesRest
  /\ IF part = "writeBack" THEN WriteBack!Init ELSE WriteBackRests
  /\ IF part = "readers" THEN Readers!Init ELSE ReadersRest
  /\ IF part = "setup" THEN Setup!Init ELSE SetupRests

RuntimeNext ==
  /\ part = "runtime" /\ Runtime!Next
  /\ UNCHANGED <<part, promptVars, fileVars, writeBackVars, readerVars, machineVars>>
PromptNext ==
  /\ part = "prompt" /\ Prompt!Next
  /\ UNCHANGED <<part, runtimeVars, fileVars, writeBackVars, readerVars, machineVars>>
FilesNext ==
  /\ part = "files" /\ Files!Next
  /\ UNCHANGED <<part, runtimeVars, promptVars, writeBackVars, readerVars, machineVars>>
WriteBackNext ==
  /\ part = "writeBack" /\ WriteBack!Next
  /\ UNCHANGED <<part, runtimeVars, promptVars, fileVars, readerVars, machineVars>>
ReadersNext ==
  /\ part = "readers" /\ Readers!Next
  /\ UNCHANGED <<part, runtimeVars, promptVars, fileVars, writeBackVars, machineVars>>
SetupNext ==
  /\ part = "setup" /\ Setup!Next
  /\ UNCHANGED <<part, runtimeVars, promptVars, fileVars, writeBackVars, readerVars>>
Next == RuntimeNext \/ PromptNext \/ FilesNext \/ WriteBackNext \/ ReadersNext \/ SetupNext
Spec == Init /\ [][Next]_all

\* Banks are alike.
Interchangeable == Permutations(Banks)

-----------------------------------------------------------------------------
\* The types of all parts.
TypeOK ==
  CASE part = "runtime" -> Runtime!TypeOK
    [] part = "prompt" -> Prompt!TypeOK
    [] part = "files" -> Files!TypeOK
    [] part = "writeBack" -> WriteBack!TypeOK
    [] part = "readers" -> Readers!TypeOK
    [] part = "setup" -> Setup!TypeOK

\* A session with work of its own keeps its state object until its turn's reply
\* is back, and an ended one leaves nothing behind (AgentRuntime).
WorkKeepsItsSession ==
  part = "runtime" =>
    Runtime!WorkKeepsItsSession /\ Runtime!ActiveUntilReply /\ Runtime!EndedSessionsLeave
\* A cursor says no more was retained than was (AgentRuntime).
RetainedIsBacked == part = "runtime" => Runtime!RetainedIsBacked
\* A request carries the block built for its own prompt and session, and events
\* of other workspaces change nothing (AgentRuntime).
InjectionIsFresh ==
  part = "runtime" => Runtime!InjectionIsFresh /\ Runtime!ForeignNeverTouched

\* A session's block is handed over at most once, in the scope it was made for, and
\* asked for a bounded number of times (PromptHooks).
HandoffOnce ==
  part = "prompt" => Prompt!HandoffOnce /\ Prompt!ClaimsItsScope /\ Prompt!InjectionBudget

\* A journal read back holds turns that were said, its prefix does not change, and
\* a session keeps one root (SessionFiles).
PrefixKept ==
  /\ [](part = "files" => Files!NoPhantomTurns /\ Files!OneRoot)
  /\ [][part = "files" => Files!PrefixStays]_fileVars

\* No turn is stored twice, no slice is sent twice, and the cursor claims what the
\* server holds (SessionWriteBack).
TurnsSentOnce ==
  part = "writeBack" => WriteBack!NoRepeatedTurns /\ WriteBack!SlicesSentOnce
CursorTellsTruth == part = "writeBack" => WriteBack!CursorTellsTruth

\* What is retained of a session is what was said and done in it, but for a final
\* reply that no Stop hook came late enough for (Transcripts).
RetainsTheSession ==
  part = "readers" => Readers!RetainsTheSession /\ Readers!ReadsExtend

\* A failed command leaves every file as it was, and the user's content stays
\* through all of them (Install).
FailureRestores == part = "setup" => Setup!FailureRestores /\ Setup!UserContentKept
\* Installing again leaves one registration, and an uninstall leaves none (Install).
InstalledOnce == part = "setup" => Setup!InstalledOnce /\ Setup!UninstallLeavesNothing
=============================================================================
