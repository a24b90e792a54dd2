----------------------------- MODULE BankAccess -----------------------------
(***************************************************************************)
(* What a principal may do to which memory bank: shared/bank-access.ts,    *)
(* the resolver of principals (shared/principal-credential-resolver.ts),   *)
(* the check of each URL by the router transport, and the operations that  *)
(* the hosted client and the knowledge tools send.  Operators only.        *)
(*                                                                         *)
(* A bank is a number, ordered as its name is; 0 is no bank and -1 a name  *)
(* that BANK_ID_PATTERN refuses.  A path below a bank is the sequence of   *)
(* its segments, with the query removed and each identifier written "id".  *)
(***************************************************************************)
EXTENDS Integers, Sequences, Lists

NoBank == 0
BadBank == -1

Distinct(seq) ==
  LET kept[n \in 0..Len(seq)] ==
        IF n = 0 THEN <<>>
        ELSE IF seq[n] \in ToSet(kept[n - 1]) THEN kept[n - 1] ELSE Append(kept[n - 1], seq[n])
  IN kept[Len(seq)]

\* An access is [write, reads]; the code throws when some bank is malformed.
VisibleBanks(access) ==
  Distinct((IF access.write = NoBank THEN <<>> ELSE <<access.write>>) \o access.reads)

RequireBank(access, bank, operation) ==
  /\ bank \in ToSet(VisibleBanks(access))
  /\ operation = "write" => bank = access.write

-----------------------------------------------------------------------------
(* Operations on a bank *)

ReadRoots == {"config", "stats", "tags", "graph", "documents", "operations",
              "memories", "mental-models", "knowledge-base"}
WriteRoots == {"config", "import", "memories", "documents", "mental-models",
               "knowledge-base", "consolidate", "consolidation"}
Below(path, roots) == path = <<>> \/ Head(path) \in roots

ClassifyOperation(method, path) ==
  IF method = "POST" /\ path \in {<<"memories", "recall">>, <<"reflect">>} THEN "read"
  ELSE IF method = "GET" /\ Below(path, ReadRoots) THEN "read"
  ELSE IF method # "GET" /\ Below(path, WriteRoots) THEN "write"
  ELSE "denied"

\* assertAuthorizedUrl for a request below a bank.
Authorized(access, bank, request) ==
  LET operation == ClassifyOperation(request.method, request.path) IN
    operation # "denied" /\ RequireBank(access, bank, operation)

Send(method, path) == [method |-> method, path |-> path]

\* The requests of HostedRouterClient, those that only read and the others.
HostedReads ==
  {Send("POST", <<"memories", "recall">>), Send("POST", <<"reflect">>),
   Send("GET", <<"documents">>), Send("GET", <<"documents", "id">>),
   Send("GET", <<"documents", "id", "chunks">>), Send("GET", <<"knowledge-base", "tree">>),
   Send("GET", <<"knowledge-base", "search">>), Send("GET", <<"knowledge-base", "pages", "id">>)}
HostedWrites ==
  {Send("POST", <<"memories">>), Send("PATCH", <<"documents", "id">>),
   Send("DELETE", <<"documents", "id">>), Send("POST", <<"documents", "id", "reprocess">>),
   Send("POST", <<"knowledge-base", "pages">>), Send("PATCH", <<"knowledge-base", "nodes", "id">>),
   Send("DELETE", <<"knowledge-base", "nodes", "id">>)}

\* TOOL_SPECS: what a knowledge tool requires of the bank, and what it sends.
Tool(read, method, path) == [read |-> read, request |-> Send(method, path)]
ToolSpecs ==
  [ list_pages  |-> Tool(TRUE, "GET", <<"mental-models">>),
    get_page    |-> Tool(TRUE, "GET", <<"mental-models", "id">>),
    create_page |-> Tool(FALSE, "POST", <<"mental-models">>),
    update_page |-> Tool(FALSE, "PATCH", <<"mental-models", "id">>),
    delete_page |-> Tool(FALSE, "DELETE", <<"mental-models", "id">>),
    ingest      |-> Tool(FALSE, "POST", <<"memories">>) ]

\* execute of a routed tool: the bank named in the call, or the write bank.
ToolAllowed(access, name, bank) ==
  LET spec == ToolSpecs[name]
      used == IF bank = NoBank THEN access.write ELSE bank IN
    /\ used # NoBank
    /\ RequireBank(access, used, IF spec.read THEN "read" ELSE "write")
    /\ Authorized(access, used, spec.request)

\* Knowledge tools the plugin registers for an agent.
ReadKnowledgeTools == {"list_pages", "get_page"}
RegisteredTools(access) ==
  {name \in DOMAIN ToolSpecs :
     IF name \in ReadKnowledgeTools THEN access.reads # <<>> ELSE access.write # NoBank}

-----------------------------------------------------------------------------
(* Principals.  A configured principal is [token, write, reads, absent]:   *)
(* "absent" says that additionalReadBanks is not configured.               *)

\* "none": the principal has no entry.
TokenKinds == {"none", "missing", "secret-ref", "malformed", "valid"}
Principal(config) ==
  /\ config \in [token : TokenKinds, write : Int, reads : Seq(Int), absent : BOOLEAN]
  /\ NoBank \notin ToSet(config.reads)

ResolveReadBanks(config) ==
  IF config.absent
  THEN IF config.write = NoBank THEN <<>> ELSE <<config.write>>
  ELSE VisibleBanks([write |-> config.write, reads |-> Distinct(config.reads)])

\* resolve throws otherwise.
Resolves(config) ==
  /\ config.token = "valid"
  /\ config.write # BadBank
  /\ config.absent \/ BadBank \notin ToSet(config.reads)

Resolve(config) == [write |-> config.write, reads |-> ResolveReadBanks(config)]

\* validateConfiguredPrincipals, for one principal, when the plugin is loaded.
ValidPrincipal(config) ==
  Resolves(config) /\ (config.write # NoBank \/ ResolveReadBanks(config) # <<>>)
=============================================================================
