----------------------------- MODULE Transcripts -----------------------------
(***************************************************************************)
(* What a coding agent's own log becomes: the readers of core/transcript*.ts *)
(* turn the records each host writes into the turns a write-back sends.    *)
(*                                                                         *)
(* A host is an environment that appends records while its session goes    *)
(* on; how it writes is taken from the formats the readers document.  A    *)
(* text is a sequence of tokens: what was said, injected blocks, wrappers. *)
(* Malformed lines, which every reader skips, and times, which are the     *)
(* records' order, and the size budgets of a session are left out.         *)
(*                                                                         *)
(* A hook host runs its Stop hook while it is still writing the reply, so  *)
(* what a Stop reads may lack that reply; only dcode hands it over with    *)
(* the hook.  The next Stop's read has it: the reply of the last turn of a *)
(* session that sees no further Stop is never retained.                    *)
(***************************************************************************)
EXTENDS Naturals, Sequences, FiniteSets, TLC, Lists

CONSTANTS
  Hosts,       \* formats to check
  MaxEvents    \* bound: things that happen in a session

\* The modules that instantiate this one assume it.
ReadersConstants == MaxEvents \in Nat

VARIABLES
  host,
  log,     \* records, in the order they are written
  late,    \* the final reply, when the host has yet to write it
  spoken,  \* history: the turns of the session as it really went
  open,    \* the reply being streamed: its id, 0 if none
  events,  \* things that have happened, which also numbers what is said
  read     \* the turns the last write-back read

transcriptVars == <<host, log, late, spoken, open, events, read>>

Said(n) == <<<<"said", n>>>>
Injected == <<<<"injected", 0>>>>      \* a block stripInjectedMemory knows
Context == <<<<"context", 0>>>>        \* a block only the CodeBuddy IDE writes
Startup == <<<<"startup", 0>>>>        \* Codex's start-up instructions
Synthetic == <<<<"cb_summary", 0>>>>   \* how a machine-written user record begins
Query(text) == <<<<"user_query", 0>>>> \o text \o <<<<"/user_query", 0>>>>

Speakers == {"user", "assistant"}
Turn(role, said) == [role |-> role, said |-> said]

Part(kind, text) == [kind |-> kind, text |-> text, note |-> "none"]
Noted(part, note) == [part EXCEPT !.note = note]
Text(text) == Part("text", text)
Tool(n) == Part("tool", Said(n))
Record(type, role, parts) ==
  [type |-> type, role |-> role, parts |-> parts, marks |-> {}, id |-> 0, agent |-> "main"]
Marked(r, mark) == [r EXCEPT !.marks = @ \cup {mark}]
Of(r, agent) == [r EXCEPT !.agent = agent]
Message(role, parts) == Record("message", role, parts)
Typed(type, parts) == Record(type, "none", parts)

-----------------------------------------------------------------------------
(* What the readers share *)

\* stripInjectedMemory: the block goes, the text around it stays.
Strip(text) == SelectSeq(text, LAMBDA t : t # Injected[1])
Kind(parts, kind) == SelectSeq(parts, LAMBDA p : p.kind = kind)
JoinText(parts) == FlattenSeq([i \in DOMAIN parts |-> parts[i].text])

\* A turn without text is none; each tool call is a turn of its own, without
\* its arguments or its output (actionLine).
Prose(role, text) == IF text = <<>> THEN <<>> ELSE <<Turn(role, text)>>
Actions(parts) ==
  LET tools == Kind(parts, "tool") IN [i \in DOMAIN tools |-> Turn("action", tools[i].text)]
Render(role, parts) == Prose(role, Strip(JoinText(Kind(parts, "text")))) \o Actions(parts)

-----------------------------------------------------------------------------
(* Readers that take one record at a time *)

ReadClaude(r) ==
  IF r.type \in Speakers /\ r.marks \cap {"isMeta", "isSidechain", "isCompactSummary"} = {}
  THEN Render(r.type, r.parts) ELSE <<>>

ReadDroid(r) ==
  IF r.type = "message" /\ r.role \in Speakers /\ r.marks \cap {"user_only", "llm_only"} = {}
  THEN Render(r.role, r.parts) ELSE <<>>

ReadPi(r) == IF r.type = "message" /\ r.role \in Speakers THEN Render(r.role, r.parts) ELSE <<>>
ReadOpencode(r) == IF r.role \in Speakers THEN Render(r.role, r.parts) ELSE <<>>
ReadOpencode2(r) == IF r.type \in Speakers THEN Render(r.type, r.parts) ELSE <<>>

ReadCursor(r) ==
  LET role == IF r.role = "none" THEN r.type ELSE r.role IN
    IF role \in Speakers
    THEN Prose(role, Strip(JoinText(Kind(r.parts, "text"))))
           \o IF role = "assistant" THEN Actions(r.parts) ELSE <<>>
    ELSE IF r.type = "tool_call" THEN Actions(r.parts) ELSE <<>>

\* Neither keeps tool calls.
ReadAntigravity(r) ==
  LET role == CASE r.type \in {"user", "USER_INPUT"} -> "user"
                [] r.type \in {"assistant", "model", "PLANNER_RESPONSE"} -> "assistant"
                [] OTHER -> "none"
  IN IF role = "none" THEN <<>> ELSE Prose(role, Strip(JoinText(r.parts)))
ReadCopilot(r) ==
  LET role == CASE r.type = "user.message" -> "user"
                [] r.type = "assistant.message" -> "assistant"
                [] OTHER -> "none"
  IN IF role = "none" THEN <<>> ELSE Prose(role, Strip(JoinText(r.parts)))

ReadDsh(r) ==
  CASE r.type = "user/message" /\ "user" \in r.marks -> Prose("user", Strip(JoinText(Kind(r.parts, "text"))))
    [] r.type = "assistant/message" -> Prose("assistant", Strip(JoinText(Kind(r.parts, "text"))))
    [] r.type = "tool/call" -> Actions(r.parts)
    [] OTHER -> <<>>

ReadGrok(r) ==
  IF r.type = "assistant" \/ (r.type = "user" /\ "prompt_index" \in r.marks)
  THEN Render(r.type, r.parts) ELSE <<>>

ReadDcode(r) ==
  CASE "schema 1" \notin r.marks -> <<>>
    [] r.role \in Speakers -> Prose(r.role, Strip(JoinText(Kind(r.parts, "text"))))
    [] r.role = "tool" -> Actions(r.parts)
    [] OTHER -> <<>>

\* unwrapUserQuery is anchored: a prompt that only quotes the tags stays.
Unwrap(text) ==
  IF Len(text) >= 2 /\ text[1] = Query(<<>>)[1] /\ Last(text) = Query(<<>>)[2]
  THEN SubSeq(text, 2, Len(text) - 1) ELSE text
UserText(text) == IF IsPrefix(Synthetic, text) THEN <<>> ELSE Unwrap(text)

ReadWorkbuddy(r) ==
  LET text == Strip(JoinText(r.parts)) IN
    CASE r.type = "message" /\ r.role = "user" -> Prose("user", UserText(text))
      [] r.type = "message" /\ r.role = "assistant" -> Prose("assistant", text)
      [] r.type = "function_call" -> Actions(r.parts)
      [] OTHER -> <<>>

ReadCodebuddyIde(r) ==
  LET text == Strip(JoinText(Kind(r.parts, "text")))
      bare == SelectSeq(text, LAMBDA t : t # Context[1])
  IN (CASE r.role = "user" -> Prose("user", UserText(bare))
        [] r.role = "assistant" -> Prose("assistant", text)
        [] OTHER -> <<>>) \o Actions(r.parts)

\* Provenance decides who a user record is from; without one it is a
\* subagent's, whose other records have a subtype.  With hookContext the displayText is the prompt; a whole context
\* in the last of several parts is dropped.
IsRealUser(r) == \/ "real_user" \in r.marks
                 \/ r.marks \cap {"real_user", "system", "subtype"} = {} /\ "agentId" \in r.marks
QwenParts(r) ==
  IF "hookContext" \in r.marks THEN Kind(r.parts, "displayText")
  ELSE IF Len(r.parts) > 1 /\ Last(r.parts).text = Context THEN Front(r.parts)
  ELSE r.parts
Visible(parts) == [i \in DOMAIN parts |->
                     IF parts[i].kind = "displayText" THEN Text(parts[i].text) ELSE parts[i]]
ReadQwen(r) ==
  IF r.type = "assistant" \/ (r.type = "user" /\ IsRealUser(r))
  THEN Render(r.type, Visible(QwenParts(r))) ELSE <<>>

\* The Stop transcript of ZCode has its role in the message and its tool calls nowhere.
ReadZcode(r) ==
  LET role == IF r.role = "none" THEN r.type ELSE r.role IN
    IF role \in Speakers THEN Prose(role, Strip(JoinText(Kind(r.parts, "text")))) ELSE <<>>

-----------------------------------------------------------------------------
(* Readers of a whole log *)

Each(Reader(_)) == FlattenSeq([i \in DOMAIN log |-> Reader(log[i])])

\* Codex: prompts and calls are recorded twice if the rollout has item events,
\* and then only the events count.
HasItem(kinds) == \E i \in DOMAIN log : log[i].type = "item" /\ log[i].role \in kinds
\* Mutant: prompts and their events are both read.
Mut_UserFromMessages == FALSE
UserFromEvents == HasItem({"UserMessage"})
ActionsFromEvents == HasItem({"McpToolCall", "CommandExecution"})
FallbackUserText(parts) ==
  IF \A i \in DOMAIN parts : parts[i].note # "none"
  THEN JoinText(SelectSeq(parts, LAMBDA p : p.note # "startup"))
  ELSE LET text == JoinText(SelectSeq(parts, LAMBDA p : Strip(p.text) # Startup)) IN
         IF IsPrefix(Startup, Strip(text)) THEN <<>> ELSE text
ReadCodexRecord(r) ==
  CASE r.type = "item" /\ r.role = "UserMessage" -> Prose("user", Strip(JoinText(r.parts)))
    [] r.type = "item" -> Actions(r.parts)
    [] r.type = "message" /\ r.role = "assistant" ->
         IF r.marks \cap {"analysis", "reasoning"} # {} THEN <<>>
         ELSE Prose("assistant", Strip(JoinText(r.parts)))
    [] r.type = "message" /\ r.role = "user" /\ ~UserFromEvents ->
         Prose("user", Strip(FallbackUserText(r.parts)))
    [] r.type = "function_call" -> Actions(r.parts)
    [] r.type = "custom_tool_call" ->
         IF ActionsFromEvents /\ "exec" \in r.marks THEN <<>> ELSE Actions(r.parts)
    [] OTHER -> <<>>

\* Devin: the last text of a message takes the place of the first.
FirstOf(id) == CHOOSE i \in DOMAIN log : log[i].id = id /\ \A j \in DOMAIN log : log[j].id = id => i <= j
LastOf(id) == CHOOSE i \in DOMAIN log : log[i].id = id /\ \A j \in DOMAIN log : log[j].id = id => j <= i
ReadDevin ==
  LET Spoke(r) == r.role \in Speakers /\ Strip(JoinText(r.parts)) # <<>>
      At(i) == IF ~Spoke(log[i]) \/ i # FirstOf(log[i].id) THEN <<>>
               ELSE Prose(log[i].role, Strip(JoinText(log[LastOf(log[i].id)].parts)))
  IN FlattenSeq([i \in DOMAIN log |-> At(i)])

\* Kimi: each agent has a log, in which the text parts of a step are buffered
\* until the step changes; the agents' turns are ordered by time.
NoStep == [id |-> 0, text |-> <<>>, at |-> 0]
Flush(s) == IF Strip(s.step.text) = <<>> THEN [s EXCEPT !.step = NoStep]
            ELSE [step |-> NoStep, turns |-> Append(s.turns, [at |-> s.step.at,
                                                turn |-> Turn("assistant", Strip(s.step.text))])]
Put(s, i, turns) ==
  IF turns = <<>> THEN s ELSE [s EXCEPT !.turns = Append(@, [at |-> i, turn |-> turns[1]])]
Gather(s, i) ==
  LET same == IF s.step.at # 0 /\ s.step.id # log[i].id THEN Flush(s) ELSE s IN
    [same EXCEPT !.step.id = log[i].id, !.step.text = @ \o JoinText(log[i].parts),
                 !.step.at = IF @ = 0 THEN i ELSE @]
KimiStep(s, i) ==
  CASE log[i].type = "turn.prompt" ->
         Put(Flush(s), i, IF "user" \in log[i].marks THEN Prose("user", Strip(JoinText(log[i].parts))) ELSE <<>>)
    [] log[i].type = "content.part" /\ Kind(log[i].parts, "text") # <<>> -> Gather(s, i)
    [] log[i].type = "tool.call" -> Put(Flush(s), i, Actions(log[i].parts))
    [] OTHER -> s
KimiTurns(agent) ==
  LET after[i \in 0 .. Len(log)] ==
        IF i = 0 THEN [step |-> NoStep, turns |-> <<>>]
        ELSE IF log[i].agent = agent THEN KimiStep(after[i - 1], i) ELSE after[i - 1]
  IN Flush(after[Len(log)]).turns
ReadKimi ==
  LET all == KimiTurns("main") \o KimiTurns("agent-1")
      sorted == SortSeq(SetToSeq(ToSet(all)), LAMBDA s, t : s.at < t.at)
  IN [i \in DOMAIN sorted |-> sorted[i].turn]

\* Hosts that may call the Stop hook before the reply is in their log: all but
\* those a live plugin serves, which is told when the reply is in.
SlowHosts == Hosts \ {"pi", "opencode", "opencode2", "dsh"}

\* Hosts whose Stop payload carries the reply.
CarriesReply == {"dcode"}

Turns ==
  CASE host = "claude" -> Each(ReadClaude)
    [] host = "droid" -> Each(ReadDroid)
    [] host = "pi" -> Each(ReadPi)
    [] host = "opencode" -> Each(ReadOpencode)
    [] host = "opencode2" -> Each(ReadOpencode2)
    [] host = "cursor" -> Each(ReadCursor)
    [] host = "antigravity" -> Each(ReadAntigravity)
    [] host = "copilot" -> Each(ReadCopilot)
    [] host = "dsh" -> Each(ReadDsh)
    [] host = "grok" -> Each(ReadGrok)
    [] host = "dcode" -> Each(ReadDcode)
    [] host = "workbuddy" -> Each(ReadWorkbuddy)
    [] host = "codebuddy" -> Each(ReadCodebuddyIde)
    [] host = "zcode" -> Each(ReadZcode)
    [] host \in {"qwen", "qwenAgent"} -> Each(ReadQwen)
    [] host \in {"codex", "codexItems"} -> Each(ReadCodexRecord)
    [] host = "devin" -> ReadDevin
    [] host = "kimi" -> ReadKimi

\* buildRetain: the reply of the Stop payload is added unless the log ends with it.
WithReply(turns) ==
  LET reply == IF host \in CarriesReply /\ spoken # <<>> /\ Last(spoken).role = "assistant"
               THEN <<Last(spoken)>> ELSE <<>>
  IN IF turns # <<>> /\ <<Last(turns)>> = reply THEN turns ELSE turns \o reply
Submitted == WithReply(Turns)

-----------------------------------------------------------------------------
(* How the hosts write.  n numbers what is said; a field is something that   *)
(* can happen in that host, its value the records it leaves.                *)

\* A prompt may carry injected context; "notice" is whatever the host says in
\* the user's name: start-up context, reminders, task notices.
Blocks(Rec(_, _), n) ==
  [prompt |-> <<Rec("user", <<Text(Said(n))>>)>>,
   recalled |-> <<Rec("user", <<Text(Injected \o Said(n))>>)>>,
   reply |-> <<Rec("assistant", <<Text(Said(n))>>)>>,
   work |-> <<Rec("assistant", <<Part("thinking", Said(n)), Tool(n), Text(Said(n)), Tool(n)>>)>>,
   output |-> <<Rec("user", <<Part("tool_result", Said(n))>>)>>,
   notice |-> <<Rec("user", <<Text(Injected)>>)>>]

ClaudeWrites(n) ==
  [summary |-> <<Marked(Typed("user", <<Text(Said(n))>>), "isCompactSummary")>>,
   meta |-> <<Marked(Typed("user", <<Text(Said(n))>>), "isMeta")>>,
   side |-> <<Marked(Typed("assistant", <<Text(Said(n))>>), "isSidechain")>>]
  @@ Blocks(Typed, n)
DroidWrites(n) ==
  [summary |-> <<Marked(Message("user", <<Text(Said(n))>>), "llm_only")>>,
   meta |-> <<Marked(Message("user", <<Text(Said(n))>>), "user_only")>>] @@ Blocks(Message, n)
PiWrites(n) ==
  [output |-> <<Message("toolResult", <<Text(Said(n))>>)>>,
   meta |-> <<Record("model_change", "user", <<Text(Said(n))>>)>>] @@ Blocks(Message, n)
OpencodeWrites(n) == [meta |-> <<Message("system", <<Text(Said(n))>>)>>] @@ Blocks(Message, n)
Opencode2Writes(n) == [summary |-> <<Typed("compaction", <<Text(Said(n))>>)>>] @@ Blocks(Typed, n)
CursorWrites(n) ==
  [call |-> <<Typed("tool_call", <<Tool(n)>>)>>] @@ Blocks(Message, n)

Plain(user, assistant, n) ==
  [prompt |-> <<Typed(user, <<Text(Said(n))>>)>>,
   recalled |-> <<Typed(user, <<Text(Injected \o Said(n))>>)>>,
   reply |-> <<Typed(assistant, <<Text(Said(n))>>)>>,
   output |-> <<Typed("tool", <<Text(Said(n))>>)>>]
DshWrites(n) ==
  [prompt |-> <<Marked(Typed("user/message", <<Text(Said(n))>>), "user")>>,
   recalled |-> <<Marked(Typed("user/message", <<Text(Said(n))>>), "user"),
                  Marked(Typed("user/message", <<Text(Injected)>>), "plugin:hindsight")>>,
   notice |-> <<Marked(Typed("user/message", <<Text(Said(n))>>), "plugin:skills")>>,
   reply |-> <<Typed("assistant/message", <<Part("reasoning", Said(n)), Text(Said(n))>>)>>,
   call |-> <<Typed("tool/call", <<Tool(n)>>)>>,
   output |-> <<Typed("tool/result", <<Text(Said(n))>>)>>]
GrokWrites(n) ==
  [work |-> <<Typed("assistant", <<Tool(n), Text(Said(n)), Tool(n)>>)>>,
   prompt |-> <<Marked(Typed("user", <<Text(Said(n))>>), "prompt_index")>>,
   recalled |-> <<Marked(Typed("user", <<Text(Injected \o Said(n))>>), "prompt_index")>>,
   notice |-> <<Marked(Typed("user", <<Text(Said(n))>>), "synthetic_reason")>>,
   reply |-> <<Typed("assistant", <<Text(Said(n))>>)>>]
DcodeWrites(n) ==
  LET Rec(role, parts) == Marked(Message(role, parts), "schema 1") IN
    [prompt |-> <<Rec("user", <<Text(Said(n))>>)>>,
     recalled |-> <<Rec("user", <<Text(Injected \o Said(n))>>)>>,
     reply |-> <<Rec("assistant", <<Part("reasoning", Said(n)), Text(Said(n))>>)>>,
     call |-> <<Rec("tool", <<Tool(n)>>)>>,
     meta |-> <<Message("user", <<Text(Said(n))>>)>>]
\* A user who quotes the engine's own tags is not wrapped out of his words.
Quoted(n) == Said(n) \o Query(Said(n))
WorkbuddyWrites(n) ==
  [prompt |-> <<Message("user", <<Text(Injected \o Query(Said(n)))>>)>>,
   quoted |-> <<Message("user", <<Text(Injected \o Query(Quoted(n)))>>)>>,
   summary |-> <<Message("user", <<Text(Synthetic \o Said(n))>>)>>,
   reply |-> <<Typed("reasoning", <<Text(Said(n))>>), Message("assistant", <<Text(Said(n))>>)>>,
   call |-> <<Typed("function_call", <<Tool(n)>>)>>,
   output |-> <<Typed("function_call_result", <<Text(Said(n))>>)>>]
CodebuddyWrites(n) ==
  [prompt |-> <<Message("user", <<Text(Context \o Injected), Text(Query(Said(n)))>>)>>,
   quoted |-> <<Message("user", <<Text(Context), Text(Query(Quoted(n)))>>)>>,
   summary |-> <<Message("user", <<Text(Context \o Synthetic \o Said(n))>>)>>,
   work |-> <<Message("assistant", <<Part("reasoning", Said(n)), Tool(n), Text(Said(n)), Tool(n)>>)>>,
   reply |-> <<Message("assistant", <<Part("reasoning", Said(n)), Text(Said(n))>>)>>,
   output |-> <<Message("tool", <<Part("tool-result", Said(n))>>)>>]
QwenWrites(n) ==
  LET From(mark, parts) == Marked(Typed("user", parts), mark) IN
    [prompt |-> <<From("real_user", <<Text(Said(n))>>)>>,
     recalled |-> <<Marked(From("real_user", <<Part("displayText", Said(n)), Text(Said(n)), Text(Context)>>),
                           "hookContext")>>,
     recalledOld |-> <<From("real_user", <<Text(Said(n)), Text(Context)>>)>>,
     notice |-> <<From("system", <<Text(Said(n))>>)>>,
     work |-> <<Typed("assistant", <<Part("thought", Said(n)), Tool(n), Text(Said(n)), Tool(n)>>)>>,
     reply |-> <<Typed("assistant", <<Part("thought", Said(n)), Text(Said(n))>>)>>,
     output |-> <<Typed("tool_result", <<Part("functionResponse", Said(n))>>)>>]
QwenAgentWrites(n) ==
  [prompt |-> <<Marked(Typed("user", <<Text(Said(n))>>), "agentId")>>,
   notice |-> <<Marked(Marked(Typed("user", <<Text(Said(n))>>), "agentId"), "subtype")>>]
  @@ QwenWrites(n)
ZcodeWrites(n) == [reply |-> <<Message("assistant", <<Part("thinking", Said(n)), Text(Said(n))>>)>>]
\* Older rollouts have no item events.
CodexWrites(n) ==
  [prompt |-> <<Message("user", <<Text(Said(n))>>)>>,
   recalled |-> <<Message("developer", <<Text(Injected)>>), Message("user", <<Text(Said(n))>>)>>,
   annotated |-> <<Message("user", <<Noted(Text(Startup), "startup"), Noted(Text(Said(n)), "prompt")>>)>>,
   notice |-> <<Message("user", <<Text(Startup)>>)>>,
   thought |-> <<Marked(Message("assistant", <<Text(Said(n))>>), "analysis")>>,
   reply |-> <<Typed("reasoning", <<Text(Said(n))>>), Message("assistant", <<Text(Said(n))>>)>>,
   call |-> <<Typed("function_call", <<Tool(n)>>), Typed("function_call_output", <<Text(Said(n))>>)>>]
CodexItemsWrites(n) ==
  LET typed == Record("item", "UserMessage", <<Text(Said(n))>>) IN
    [prompt |-> <<Message("user", <<Text(Said(n))>>), typed>>,
     recalled |-> <<Message("developer", <<Text(Injected)>>), Message("user", <<Text(Said(n))>>), typed>>,
     annotated |-> CodexWrites(n).annotated \o <<typed>>,
     summary |-> <<Message("user", <<Text(Said(n))>>)>>,
     call |-> <<Marked(Typed("custom_tool_call", <<Tool(n)>>), "exec"),
                Record("item", "McpToolCall", <<Tool(n)>>)>>]
  @@ CodexWrites(n)
DevinWrites(n) ==
  LET Node(role, id, text) == [Message(role, <<Text(text)>>) EXCEPT !.id = id] IN
    [prompt |-> <<Node("user", n, Said(n))>>,
     recalled |-> <<Node("user", n, Injected \o Said(n))>>,
     output |-> <<Node("tool", n, Said(n))>>,
     begin |-> <<Node("assistant", n, Said(n))>>,
     more |-> <<Node("assistant", open, (IF open = 0 THEN <<>> ELSE Said(open)) \o Said(n))>>]
KimiWrites(n) ==
  LET Loop(type, id, part) == [Typed(type, <<part>>) EXCEPT !.id = id] IN
    [prompt |-> <<Marked(Typed("turn.prompt", <<Text(Said(n))>>), "user"),
                  Typed("context.append_message", <<Text(Said(n))>>)>>,
     notice |-> <<Of(Marked(Typed("turn.prompt", <<Text(Said(n))>>), "system_trigger"), "agent-1")>>,
     thought |-> <<Loop("content.part", n, Part("think", Said(n)))>>,
     begin |-> <<Loop("content.part", n, Text(Said(n)))>>,
     more |-> <<Loop("content.part", open, Text(Said(n)))>>,
     call |-> <<Loop("tool.call", n, Tool(n)), Loop("tool.result", n, Part("result", Said(n)))>>,
     side |-> <<Of(Loop("content.part", n, Text(Said(n))), "agent-1")>>]

Writes(n) ==
  CASE host = "claude" -> ClaudeWrites(n)
    [] host = "droid" -> DroidWrites(n)
    [] host = "pi" -> PiWrites(n)
    [] host = "opencode" -> OpencodeWrites(n)
    [] host = "opencode2" -> Opencode2Writes(n)
    [] host = "cursor" -> CursorWrites(n)
    [] host = "antigravity" -> Plain("USER_INPUT", "PLANNER_RESPONSE", n)
    [] host = "copilot" -> Plain("user.message", "assistant.message", n)
    [] host = "dsh" -> DshWrites(n)
    [] host = "grok" -> GrokWrites(n)
    [] host = "dcode" -> DcodeWrites(n)
    [] host = "workbuddy" -> WorkbuddyWrites(n)
    [] host = "codebuddy" -> CodebuddyWrites(n)
    [] host = "qwen" -> QwenWrites(n)
    [] host = "qwenAgent" -> QwenAgentWrites(n)
    [] host = "zcode" -> ZcodeWrites(n)
    [] host = "codex" -> CodexWrites(n)
    [] host = "codexItems" -> CodexItemsWrites(n)
    [] host = "devin" -> DevinWrites(n)
    [] host = "kimi" -> KimiWrites(n)

\* What was really said: a user's words without what the host put around them.
Happened(what, n) ==
  CASE what \in {"prompt", "recalled", "recalledOld", "annotated"} -> <<Turn("user", Said(n))>>
    [] what = "quoted" -> <<Turn("user", Quoted(n))>>
    [] what \in {"reply", "begin"} -> <<Turn("assistant", Said(n))>>
    [] what = "side" /\ host = "kimi" -> <<Turn("assistant", Said(n))>>
    [] what = "call" -> <<Turn("action", Said(n))>>
    [] what = "work" -> <<Turn("assistant", Said(n)), Turn("action", Said(n)), Turn("action", Said(n))>>
    [] OTHER -> <<>>

-----------------------------------------------------------------------------
Init ==
  /\ host \in Hosts /\ log = <<>> /\ late = <<>> /\ spoken = <<>> /\ open = 0 /\ events = 0 /\ read = <<>>

Happen(what) ==
  /\ events < MaxEvents /\ events' = events + 1
  /\ what # "more" /\ what \in DOMAIN Writes(events + 1)
  /\ what = "summary" => \E i \in DOMAIN spoken : spoken[i].role = "user"
  /\ LET new == Writes(events + 1)[what] IN
       \/ log' = log \o late \o new /\ late' = <<>>
       \/ host \in SlowHosts /\ what \in {"reply", "begin"} /\ log' = log \o late /\ late' = new
  /\ spoken' = spoken \o Happened(what, events + 1)
  /\ open' = CASE what = "begin" -> events + 1
               [] what \in {"side", "thought"} -> open
               [] OTHER -> 0
  /\ UNCHANGED <<host, read>>

\* The reply being streamed goes on; other agents may have written meanwhile.
More ==
  /\ events < MaxEvents /\ events' = events + 1 /\ open # 0
  /\ log' = log \o late \o Writes(events + 1).more /\ late' = <<>>
  /\ LET i == CHOOSE j \in DOMAIN spoken : spoken[j].said[1] = Said(open)[1]
                                           /\ spoken[j].role = "assistant"
     IN spoken' = [spoken EXCEPT ![i].said = @ \o Said(events + 1)]
  /\ open' = IF host = "devin" THEN 0 ELSE open   \* bound: one update of a Devin message
  /\ UNCHANGED <<host, read>>

\* A write-back reads the log when the agent has come to rest.
Stop ==
  /\ read # Submitted /\ open' = 0 /\ read' = Submitted
  /\ UNCHANGED <<host, log, late, spoken, events>>

Happenings == {"prompt", "recalled", "recalledOld", "annotated", "quoted", "reply", "begin", "work", "call",
               "thought", "output", "notice", "summary", "meta", "side"}
Next == More \/ Stop \/ \E what \in Happenings : Happen(what)
Spec == Init /\ [][Next]_transcriptVars

-----------------------------------------------------------------------------
TypeOK ==
  /\ host \in Hosts /\ events <= MaxEvents /\ open <= events
  /\ \A i \in DOMAIN spoken : spoken[i].role \in Speakers \cup {"action"}

\* What a write-back retains of a session is what was said and done in it, in
\* order, once: no recalled memory fed back, no scaffolding in the user's name,
\* no reasoning, no tool output, no summary of turns retained before, and no
\* prompt taken for any of these.  The one turn that may be missing is a final
\* reply the host has yet to write and does not hand over with its Stop hook.
Retainable == IF late # <<>> /\ host \notin CarriesReply THEN Front(spoken) ELSE spoken
RetainsTheSession == Submitted = Retainable

\* A log that grows leaves the turns read before where they were: the append
\* cursor counts on it, and a reply that a Stop came too early for is new to the
\* next one.
ReadsExtend == IsPrefix(read, Submitted)
=============================================================================
