------------------------------- MODULE Recall -------------------------------
(***************************************************************************)
(* One recall over the banks an agent may read (RecallCoordinator), called *)
(* by the before_prompt_build hook or the recall tool of the OpenClaw      *)
(* plugin, or by the MCP server (readAcrossBanks).  All banks are asked at *)
(* once under one deadline; each answers, fails or is too late, in any     *)
(* order; then the answers are merged.                                     *)
(*                                                                         *)
(* An item is [text, score]; texts are numbers, ordered as the texts are;  *)
(* score -1 stands for an item without a number as its score.              *)
(***************************************************************************)
EXTENDS BankAccess, FiniteSets

CONSTANTS
  Configs,   \* configured principals
  Callers,   \* subset of {"hook", "tool", "read", "reflect"}
  Replies,   \* sequences of items a bank may answer with
  Cost,      \* Cost[text]: tokens an item with this text is estimated at
  Limits,    \* token budgets
  TopKs      \* values of recallTopK, 0 when it is not configured

\* Texts are numbered; costs, budgets and banks are numbers.
Items == [text : DOMAIN Cost, score : Int]
RecallConstants ==
  /\ DOMAIN Cost \subseteq Int /\ \A text \in DOMAIN Cost : Cost[text] \in Nat
  /\ Replies \subseteq Seq(Items)
  /\ Limits \subseteq Nat \ {0} /\ TopKs \subseteq Nat
  /\ \A entry \in Configs : Principal(entry)

VARIABLES
  config,    \* the configured principal
  call,      \* [caller, maxTokens, requested, topK, enabled]: configured and
             \* requested budget (0 for none); "enabled" says that autoRecall
             \* is on and that the event holds a prompt
  banks,     \* banks of the recall
  settled,   \* settled[i]: outcome of the i-th bank, or Pending
  outcome    \* what the caller gets

vars == <<config, call, banks, settled, outcome>>

Pending == [status |-> "pending"]
Answered(items) == [status |-> "fulfilled", items |-> items]
\* Reasons: a 401 or 403; a status or an error that may pass (a malformed
\* response counts as a 502); any other error.
Rejected(reason) == [status |-> "rejected", reason |-> reason]
Reasons == {"authorization", "transient", "permanent"}

Running == [kind |-> "running"]
Nothing(why) == [kind |-> "nothing", why |-> why]
Recalled(items, failed) == [kind |-> "recalled", items |-> items, failed |-> failed]

-----------------------------------------------------------------------------
(* Merging *)

\* compareBankItems(a, b) < 0
Before(a, b) ==
  \/ a.item.score > b.item.score
  \/ a.item.score = b.item.score /\ a.bank < b.bank
  \/ a.item.score = b.item.score /\ a.bank = b.bank /\ a.item.text < b.item.text

\* Mutant of KeepBest: the first item heard of a text stays.
Mut_KeepBestFirst(best, candidate) ==
  IF \E c \in best : c.item.text = candidate.item.text THEN best ELSE best \cup {candidate}

\* The map of representatives after one more item: best item for each text.
KeepBest(best, candidate) ==
  LET text == candidate.item.text IN
    IF \E c \in best : c.item.text = text /\ ~Before(candidate, c) THEN best
    ELSE {c \in best : c.item.text # text} \cup {candidate}

CandidatesOf(i) ==
  IF settled[i].status # "fulfilled" THEN <<>>
  ELSE [n \in DOMAIN settled[i].items |-> [bank |-> banks[i], item |-> settled[i].items[n]]]

\* The items are merged bank by bank.
KeepAll(before, items) ==
  LET best[n \in 0..Len(items)] ==
        IF n = 0 THEN before ELSE KeepBest(best[n - 1], items[n])
  IN best[Len(items)]
MergeSettled ==
  LET merged[i \in 0..Len(banks)] ==
        IF i = 0 THEN {} ELSE KeepAll(merged[i - 1], CandidatesOf(i))
  IN merged[Len(banks)]

FailedBanks == {banks[i] : i \in {j \in DOMAIN banks : settled[j].status = "rejected"}}

\* The first rejection, in the order of the banks, that is not transient.
Refusals == {i \in DOMAIN banks :
               settled[i].status = "rejected" /\ settled[i].reason # "transient"}
FirstRefusal == settled[CHOOSE i \in Refusals : \A j \in Refusals : i <= j].reason

Sorted(best) ==
  [n \in 1..Cardinality(best) |->
     (CHOOSE c \in best : Cardinality({d \in best : Before(d, c)}) = n - 1).item]

Trim(items, maxTokens) ==
  LET trimmed[n \in 0..Len(items)] ==
        IF n = 0 THEN [items |-> <<>>, spent |-> 0]
        ELSE LET kept == trimmed[n - 1]
                 spent == kept.spent + Cost[items[n].text]
             IN IF spent > maxTokens THEN kept
                ELSE [items |-> Append(kept.items, items[n]), spent |-> spent]
  IN trimmed[Len(items)].items

TopK(items) == IF call.topK \in 1..Len(items) THEN SubSeq(items, 1, call.topK) ELSE items

\* requestedRecallOptions: a tool call may ask for less than is configured.
MaxTokens == IF call.requested \in 1..call.maxTokens THEN call.requested ELSE call.maxTokens

-----------------------------------------------------------------------------
(* Steps *)

Init ==
  /\ config \in Configs
  /\ config.token = "none" \/ ValidPrincipal(config)  \* else the plugin is not loaded
  /\ call \in [caller : Callers, maxTokens : Limits, requested : Limits \cup {0},
               topK : TopKs, enabled : BOOLEAN]
  /\ call.caller # "hook" => call.topK = 0 /\ call.enabled
  /\ call.caller # "tool" => call.requested = 0
  /\ banks = <<>>
  /\ settled = <<>>
  /\ outcome = [kind |-> "new"]

\* The calls are made, unless there is no bank to read or nothing to ask.
Start ==
  /\ outcome.kind = "new"
  /\ LET asked == IF Resolves(config) THEN ResolveReadBanks(config) ELSE <<>>
         idle == asked = <<>> \/ ~call.enabled IN
       IF idle
       THEN /\ outcome' = Nothing(IF Resolves(config) THEN "idle" ELSE "identity")
            /\ UNCHANGED <<banks, settled>>
       ELSE /\ banks' = asked
            /\ settled' = [i \in DOMAIN asked |-> Pending]
            /\ outcome' = Running
  /\ UNCHANGED <<config, call>>

Settle(i, value) ==
  /\ outcome = Running /\ i \in DOMAIN banks /\ settled[i] = Pending
  /\ settled' = [settled EXCEPT ![i] = value]
  /\ UNCHANGED <<config, call, banks, outcome>>

\* A reflection answers with one text without score, or with none.
Answer(i, items) ==
  /\ call.caller = "reflect" => Len(items) <= 1 /\ \A n \in DOMAIN items : items[n].score = -1
  /\ Settle(i, Answered(items))
Fail(i, reason) == Settle(i, Rejected(reason))

\* The timer of a bank fires before its call has settled; the answer that
\* still comes finds the race decided.
TimeOut(i) == Settle(i, Rejected("transient"))

\* All calls have settled: merge, rank, trim, hand to the caller.
Finish ==
  /\ outcome = Running
  /\ \A i \in DOMAIN banks : settled[i] # Pending
  /\ outcome' = IF Refusals # {} THEN Nothing(FirstRefusal)
                ELSE LET best == MergeSettled
                         ranked == Sorted(best)
                     IN Recalled(TopK(Trim(ranked, MaxTokens)), FailedBanks)
  /\ UNCHANGED <<config, call, banks, settled>>

Next ==
  \/ Start \/ Finish
  \/ \E i \in DOMAIN banks : \/ TimeOut(i)
                             \/ \E items \in Replies : Answer(i, items)
                             \/ \E reason \in Reasons : Fail(i, reason)

Done == outcome.kind \in {"nothing", "recalled"}

\* The event loop runs what is ready and the timers fire; no bank need answer.
Timers == \E i \in DOMAIN banks : TimeOut(i)
Fairness == WF_vars(Start) /\ WF_vars(Finish) /\ WF_vars(Timers)
Spec == Init /\ [][Next]_vars /\ Fairness

-----------------------------------------------------------------------------
(* Properties *)

Outcomes == {Pending} \cup {Answered(items) : items \in Replies}
            \cup {Rejected(reason) : reason \in Reasons}

\* Types of the variables of a recall.
TypeOK ==
  /\ config \in Configs
  /\ settled \in Seq(Outcomes) /\ Len(settled) = Len(banks)
  /\ outcome.kind \in {"new", "running", "nothing", "recalled"}

Heard == {i \in DOMAIN banks : settled[i].status = "fulfilled"}
Candidates == UNION {ToSet(CandidatesOf(i)) : i \in Heard}
Spent(items) ==
  LET sum[n \in 0..Len(items)] == IF n = 0 THEN 0 ELSE sum[n - 1] + Cost[items[n].text]
  IN sum[Len(items)]

\* A bank that refuses the agent keeps everything else back as well: no item
\* of any other bank reaches the prompt.
DeniedRecallsNothing ==
  outcome.kind = "recalled" =>
    \A i \in DOMAIN banks : settled[i] # Rejected("authorization")

\* What is handed over does not depend on the order in which the banks
\* answered: each text once, with the best score any bank that answered in
\* time gave it, best first; within the budget, and no text is left out that
\* would still have fitted; the banks reported missing are those not heard.
RecallIsBest ==
  outcome.kind = "recalled" =>
    LET items == outcome.items IN
      /\ outcome.failed = {banks[i] : i \in DOMAIN banks \ Heard}
      /\ \A m, n \in DOMAIN items :
           m < n => items[m].text # items[n].text /\ items[m].score >= items[n].score
      /\ \A n \in DOMAIN items :
           /\ \E c \in Candidates : c.item = items[n]
           /\ \A c \in Candidates : c.item.text = items[n].text => c.item.score <= items[n].score
      /\ Spent(items) <= MaxTokens
      /\ \A c \in Candidates :
           \/ \E n \in DOMAIN items : items[n].text = c.item.text
           \/ Spent(items) + Cost[c.item.text] > MaxTokens
           \/ call.topK # 0 /\ Len(items) = call.topK

\* The tables agree: a knowledge tool is registered for an agent exactly when
\* some bank exists on which the transport lets it through, and the hosted
\* client can read every bank the agent sees but write only its own.
ToolsMatchAccess ==
  Resolves(config) =>
    LET access == Resolve(config)
        seen == ToSet(VisibleBanks(access)) IN
      /\ \A name \in DOMAIN ToolSpecs :
           name \in RegisteredTools(access) <=> \E bank \in seen : ToolAllowed(access, name, bank)
      /\ \A bank \in seen :
           /\ \A request \in HostedReads : Authorized(access, bank, request)
           /\ \A request \in HostedWrites : Authorized(access, bank, request) <=> bank = access.write

\* A recall ends even when a bank never answers.
RecallEnds == <>Done
=============================================================================
