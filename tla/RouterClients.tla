---------------------------- MODULE RouterClients ----------------------------
(***************************************************************************)
(* AuthenticatedClientFactory (shared/authenticated-client-factory.ts) for *)
(* one principal whose token is rotated, perhaps back to an earlier one.   *)
(* A client and a transport are cached with the token they were made for.  *)
(* A transport is bound to one token, so a denial disables it for good;    *)
(* the probe that replays a retained item uses a transport of its own, and *)
(* publishes it only if nothing else was cached meanwhile.                 *)
(***************************************************************************)
EXTENDS RouterTransport, Sequences

CONSTANTS
  TokenCount,     \* tokens the principal may have
  MaxTransports, \* bound: transports made
  MaxRotations   \* bound: changes of the configured token

\* The modules that instantiate this one assume it.
RouterClientsConstants ==
  TokenCount \in Nat \ {0} /\ MaxTransports \in Nat /\ MaxRotations \in Nat

VARIABLES
  token,      \* token of the principal's credentials
  accepted,   \* tokens the router accepts
  transports, \* [1..made -> [token, latch]], in the order they are made
  made,       \* number of transports made
  client,     \* cache: transport of the cached client, 0 for none
  transport,  \* cache: cached transport, 0 for none
  requests,   \* requests in flight: [via, mode]
  probe,      \* the replay probe
  rotations,  \* rotations so far
  denials     \* history: transports to which the router answered a denial

vars == <<token, accepted, transports, made, client, transport, requests, probe,
          rotations, denials>>
caches == <<transports, made, client, transport>>

Tokens == 1..TokenCount
NoProbe == [mode |-> "none", via |-> 0, client |-> 0, transport |-> 0]
TokenOf(n) == IF n = 0 THEN NoToken ELSE transports[n].token

Init ==
  /\ token = 1 /\ accepted = Tokens
  /\ transports = <<>> /\ made = 0 /\ client = 0 /\ transport = 0
  /\ requests = {} /\ probe = NoProbe /\ rotations = 0 /\ denials = {}

\* createTransport; its constructor reads the token, which nothing denied yet.
Make == /\ made < MaxTransports
        /\ made' = made + 1
        /\ transports' = Append(transports, [token |-> token, latch |-> NoToken])

\* transportFor
TransportFor ==
  IF TokenOf(transport) = token
  THEN UNCHANGED <<transports, made, transport>> ELSE Make /\ transport' = made'

\* forAgent: a client that is not cached for this token is built on transportFor.
ForAgent ==
  IF TokenOf(client) = token THEN UNCHANGED caches ELSE TransportFor /\ client' = transport'

\* A call on the transport: it is refused at once or sent.
CallOn(n, mode) ==
  requests' = IF Refused(transports'[n].latch, transports'[n].token) THEN requests
              ELSE requests \cup {[via |-> n, mode |-> mode]}

\* A recall or a retain uses the cached client, a knowledge tool the transport.
CallClient == ForAgent /\ CallOn(client', "call")
              /\ UNCHANGED <<token, accepted, probe, rotations, denials>>
CallTool == TransportFor /\ UNCHANGED client /\ CallOn(transport', "call")
            /\ UNCHANGED <<token, accepted, probe, rotations, denials>>

\* createRetainReplayProbe and the replay of the owner of the retain gate.
StartProbe ==
  /\ probe = NoProbe
  /\ Make
  /\ probe' = [mode |-> "sent", via |-> made', client |-> client, transport |-> transport]
  /\ requests' = requests \cup {[via |-> made', mode |-> "probe"]}
  /\ UNCHANGED <<token, accepted, client, transport, rotations, denials>>

Answer(request, status) ==
  LET n == request.via IN
    /\ request \in requests
    /\ status = "ok" => TokenOf(n) \in accepted
    /\ requests' = requests \ {request}
    /\ transports' = [transports EXCEPT ![n].latch = Answered(@, TokenOf(n), status)]
    /\ denials' = IF status = "denied" THEN denials \cup {n} ELSE denials
    /\ probe' = IF request.mode = "call" THEN probe
                ELSE IF status = "ok" THEN [probe EXCEPT !.mode = "replayed"] ELSE NoProbe
    /\ UNCHANGED <<token, accepted, made, client, transport, rotations>>

\* Mutant of Current: what is cached is known by its token alone.
Mut_CurrentByToken ==
  LET mine == TokenOf(probe.via) IN TokenOf(client) = mine /\ TokenOf(transport) = mine

\* What the probe found cached, for its own token, is still what is cached.
Current ==
  LET mine == TokenOf(probe.via) IN
    /\ TokenOf(probe.client) = mine /\ TokenOf(probe.transport) = mine
    /\ client = probe.client /\ transport = probe.transport

\* commit(), once the owner's acknowledgement is durable.
Commit ==
  /\ probe.mode = "replayed"
  /\ client' = IF Current THEN probe.via ELSE client
  /\ transport' = IF Current THEN probe.via ELSE transport
  /\ probe' = NoProbe
  /\ UNCHANGED <<token, accepted, transports, made, requests, rotations, denials>>

\* The acknowledgement failed: the probe is dropped.
DropProbe == /\ probe.mode = "replayed" /\ probe' = NoProbe
             /\ UNCHANGED <<token, accepted, caches, requests, rotations, denials>>

Rotate(new) == /\ rotations < MaxRotations /\ new # token
               /\ token' = new /\ rotations' = rotations + 1
               /\ UNCHANGED <<accepted, caches, requests, probe, denials>>

\* The router stops or resumes accepting a token.
Regrant == /\ \E t \in Tokens : accepted' = IF t \in accepted THEN accepted \ {t}
                                           ELSE accepted \cup {t}
           /\ UNCHANGED <<token, caches, requests, probe, rotations, denials>>

Next == \/ CallClient \/ CallTool \/ StartProbe \/ Commit \/ DropProbe \/ Regrant
        \/ \E request \in requests, status \in Statuses : Answer(request, status)
        \/ \E new \in Tokens : Rotate(new)

Spec == Init /\ [][Next]_vars

-----------------------------------------------------------------------------
(* Properties *)

\* Types of the caches.
TypeOK ==
  /\ token \in Tokens /\ accepted \subseteq Tokens /\ made \in 0..MaxTransports
  /\ transports \in [1..made -> [token : Tokens, latch : Tokens \cup {NoToken}]]
  /\ client \in 0..made /\ transport \in 0..made

\* A transport is disabled only by an answer the router gave to a request of
\* its own token, and an ordinary call never uses the probe's transport
\* before the probe has been answered.
ProbeIsIsolated ==
  /\ \A n \in 1..made : transports[n].latch # NoToken <=> n \in denials
  /\ probe.mode = "sent" => /\ client # probe.via /\ transport # probe.via
                            /\ [via |-> probe.via, mode |-> "call"] \notin requests

\* A commit never puts an older transport in place of a newer one: what was
\* cached while the probe was under way stays, even when the token was
\* rotated and rotated back.
NewestStays == transport' >= transport /\ client' >= client
NewestIsCached == [][NewestStays]_vars
=============================================================================
