------------------------------ MODULE MCRouter ------------------------------
(***************************************************************************)
(* The parts of the plugin and of the shared client that only meet over    *)
(* HTTP: the recall over several banks, the cached clients of an agent,    *)
(* human sessions, the retain hooks of a session, the service that         *)
(* schedules replays and the queue file they leave their rows in.  They    *)
(* share no state, so one behaviour follows one of them, chosen at the     *)
(* start, while the others rest.  The service is the module extended here; *)
(* Init, Next, vars, Callers and call are its own.                         *)
(***************************************************************************)
EXTENDS RetainService, Integers, Sequences, FiniteSets

CONSTANTS
  TokenCount, MaxTransports, MaxRotations,
  Logins, SignOuts, Requests, Principals, NoOne,
  Readers, Limits, TopKs,
  Hooks, Digests, NoDigest, MaxEvictions,
  NewRows, RowBytes, Banks, MaxGenerations, MaxCrashes, MaxReroutes

VARIABLES
  part,
  config, recall, banks, settled, outcome,
  token, accepted, transports, made, client, transport, requests, probe, rotations, denials,
  stored, owner, live, login, signOut, latch, session, request, denied,
  hook, inFlight, retained, clock, newest, sent, lastHook, evictions,
  lines, generation, recovery, op, bank, flushing, limit, acked, junked, answered, crashes,
  reroutes

recallVars == <<config, recall, banks, settled, outcome>>
clientVars == <<token, accepted, transports, made, client, transport, requests, probe,
                rotations, denials>>
humanVars == <<stored, owner, live, login, signOut, latch, session, request, denied>>
hookVars == <<hook, inFlight, retained, clock, newest, sent, lastHook, evictions>>
fileVars == <<lines, generation, recovery, op, bank, flushing, limit, acked, junked, answered,
              crashes, reroutes>>
all == <<part, recallVars, clientVars, humanVars, hookVars, vars, fileVars>>

\* Banks 1 and 2: a write bank alone, with another to read, only banks to
\* read, an agent without an entry and one whose configuration is refused.
Entry(kind, write, reads, absent) ==
  [token |-> kind, write |-> write, reads |-> reads, absent |-> absent]
Configs ==
  { Entry("valid", 1, <<>>, TRUE), Entry("valid", 2, <<1, 2, 1>>, FALSE),
    Entry("valid", 0, <<2, 1>>, FALSE), Entry("none", 0, <<>>, TRUE),
    Entry("secret-ref", 1, <<>>, TRUE), Entry("valid", 1, <<-1>>, FALSE) }

\* Three texts; the second costs two tokens.
Item(text, score) == [text |-> text, score |-> score]
Replies == { <<>>, <<Item(1, 1)>>, <<Item(1, -1)>>, <<Item(3, -1)>>,
             <<Item(1, 0), Item(2, 1)>>, <<Item(2, 0), Item(1, 1), Item(3, 0)>> }
Cost == <<1, 2, 1>>

Recall == INSTANCE Recall WITH Callers <- Readers, call <- recall

\* Queue files of an earlier run: without an operation id, with torn records
\* between rows and at the end, and with a last line that lacks its newline.
Lines == INSTANCE QueueFile WITH accepted <- acked, StartFiles <- {}, Limits <- {}
Left(id, in, named) == [Lines!Row(<<id>>, RowBytes, in) EXCEPT !.named = named]
LeftFiles ==
  { <<Left("o1", "A", FALSE), Left("o2", "A", TRUE)>>,
    <<Lines!Junk(<<"j1">>, 10, TRUE), Lines!Junk(<<"j2">>, 1, TRUE), Left("o1", "A", TRUE),
      Lines!Junk(<<"j3">>, 20, FALSE)>>,
    <<Left("o1", "A", TRUE), Left("o2", "B", FALSE),
      [Left("o3", "A", TRUE) EXCEPT !.ended = FALSE]>> }
File == INSTANCE QueueFile
          WITH accepted <- acked, StartFiles <- LeftFiles, Limits <- {485, 1000, 1450}

Clients == INSTANCE RouterClients
Human == INSTANCE HumanSession
Plugin == INSTANCE PluginRetain

RecallRests ==
  /\ config = Entry("none", 0, <<>>, TRUE) /\ banks = <<>> /\ settled = <<>>
  /\ recall = [caller |-> "hook", maxTokens |-> 1, requested |-> 0, topK |-> 0, enabled |-> TRUE]
  /\ outcome = [kind |-> "new"]

FileRests ==
  /\ lines = <<>> /\ generation = 0 /\ recovery = <<>> /\ op = <<>> /\ bank = 0
  /\ flushing = FALSE /\ limit = 0 /\ acked = {} /\ junked = <<>> /\ answered = {}
  /\ crashes = 0 /\ reroutes = 0

ASSUME RouterConstants ==
  /\ Recall!RecallConstants /\ Clients!RouterClientsConstants
  /\ Human!HumanConstants /\ Plugin!PluginConstants /\ File!QueueFileConstants

AnyInit ==
  /\ part \in {"recall", "clients", "human", "plugin", "service", "file"}
  /\ Clients!Init /\ Human!Init /\ Plugin!Init /\ Init
  /\ IF part = "recall" THEN Recall!Init ELSE RecallRests
  /\ IF part = "file" THEN File!Init ELSE FileRests

RecallNext ==
  /\ part = "recall" /\ Recall!Next
  /\ UNCHANGED <<part, clientVars, humanVars, hookVars, vars, fileVars>>
ClientsNext ==
  /\ part = "clients" /\ Clients!Next
  /\ UNCHANGED <<part, recallVars, humanVars, hookVars, vars, fileVars>>
HumanNext ==
  /\ part = "human" /\ Human!Next
  /\ UNCHANGED <<part, recallVars, clientVars, hookVars, vars, fileVars>>
PluginNext ==
  /\ part = "plugin" /\ Plugin!Next
  /\ UNCHANGED <<part, recallVars, clientVars, humanVars, vars, fileVars>>
ServiceNext ==
  /\ part = "service" /\ Next
  /\ UNCHANGED <<part, recallVars, clientVars, humanVars, hookVars, fileVars>>
FileNext ==
  /\ part = "file" /\ File!Next
  /\ UNCHANGED <<part, recallVars, clientVars, humanVars, hookVars, vars>>
AnyNext == RecallNext \/ ClientsNext \/ HumanNext \/ PluginNext \/ ServiceNext \/ FileNext

\* The fairness of the recall and of the service, not owed while they rest.
Owed(p, A) == part = p /\ A
AnySpec ==
  /\ AnyInit /\ [][AnyNext]_all
  /\ WF_recallVars(Owed("recall", Recall!Start))
  /\ WF_recallVars(Owed("recall", Recall!Finish))
  /\ WF_recallVars(Owed("recall", Recall!Timers))
  /\ WF_vars(Owed("service", DeadlineExpires))

-----------------------------------------------------------------------------
\* The types of all parts.
TypesOK ==
  CASE part = "recall" -> Recall!TypeOK
    [] part = "clients" -> Clients!TypeOK
    [] part = "human" -> Human!TypeOK
    [] part = "plugin" -> Plugin!TypeOK
    [] part = "service" -> TypeOK
    [] part = "file" -> File!TypeOK

\* What is recalled is the best of what was heard in time, within the budget,
\* and nothing when a bank refuses the agent; its tools are registered exactly
\* where the transport lets them through (Recall).
RecallIsBest ==
  part = "recall" =>
    Recall!RecallIsBest /\ Recall!DeniedRecallsNothing /\ Recall!ToolsMatchAccess
\* The commit of a replay probe never puts an older transport in place of a newer
\* one, and until then the probe stays apart from the other calls (RouterClients).
NewestIsCached ==
  /\ [](part = "clients" => Clients!ProbeIsIsolated)
  /\ [][part = "clients" => Clients!NewestStays]_clientVars
\* A failed login leaves no session behind, and a session somebody was told is
\* signed out is revoked (HumanSession).
FailedLoginLeavesNothing ==
  part = "human" => Human!FailedLoginLeavesNothing /\ Human!SignedOutIsRevoked
\* Every request names the owner of its token, and no session is blocked by the
\* denial of another one (HumanSession).
RefusedForCause == part = "human" => Human!PrincipalOwnsToken /\ Human!RefusedForCause
\* The digest kept is that of the newest accepted request, a transcript is not
\* sent twice at a time, and an ended session is forgotten (PluginRetain).
KeptIsNewest ==
  part = "plugin" => Plugin!KeptIsNewest /\ Plugin!SentOnce /\ Plugin!EndedSessionForgotten
\* Every call ends: a recall though a bank never answers, a start or a stop though
\* a flush never does (Recall, RetainService).
EveryCallReturns == (part = "recall" ~> Recall!Done) /\ CallsReturn
\* What was acknowledged or found damaged is in the file or in a recovery file that
\* the file's barriers describe, and the outcome of a send can be recorded within
\* the limit (QueueFile).
NothingLost ==
  part = "file" => File!NothingLost /\ File!BarriersHaveBytes /\ File!OutcomeFits
=============================================================================
