---------------------------- MODULE HostAdapters ----------------------------
(***************************************************************************)
(* What installing the coding-agent plugin writes into the agents' own     *)
(* files: installer.ts's adapters, the lifecycle table they share with the *)
(* hooks (harness/hook-lifecycle.ts) and the companion skill directories.  *)
(*                                                                         *)
(* A file is what the installer can tell apart: whether it is there and    *)
(* parses, what in it is the user's, and which entries are ours.  An entry *)
(* of ours says whose it is, which part it plays, and whether it is of     *)
(* this installation or of an earlier one (an old path or tool prefix).    *)
(* Copies kept as *.hindsight-backup, Cline's hooks of an early release    *)
(* and dcode's second marketplace file are left out.                       *)
(***************************************************************************)
EXTENDS Naturals, Sequences

Shapes == {"absent", "plain", "commented", "broken"}
File(shape, user, ours) == [shape |-> shape, user |-> user, ours |-> ours]
Absent == File("absent", {}, {})
Torn == File("broken", {}, {})
Item(h, part, rev) == [of |-> h, part |-> part, rev |-> rev]

(* readJson: anything but a plain JSON object reads as {}. *)
ReadJson(c) == IF c.shape = "plain" THEN c ELSE File("plain", {}, {})

(* parseJsonc: comments are fine, an unparsable file is refused. *)
ParseJsonc(c) == IF c.shape = "absent" THEN File("plain", {}, {}) ELSE c

(* What the user may have in a file that an adapter looks at or acts on:   *)
(* a seed or switch of their own, a server or skill under the name we      *)
(* would use ("rival"), and hooks or plugins that mention 'coding-agents'  *)
(* ("lookalike"), the mark by which the installer knows its own.  The rest *)
(* is "data".                                                              *)
KeyFiles ==
    [version |-> {"cursor.hooks", "trae.hooks"}, status |-> {"agy.settings"}, grant |-> {"trae.sandbox"},
     limit |-> {"zcode.config"}, events |-> {"zcode.config"}, features |-> {"codex.toml"}, rule |-> {"trae.ignore"},
     rival |-> {"claude.json", "agy.mcp", "devin.mcp", "cursor.mcp", "copilot.mcp", "kimi.mcp", "cline.mcp",
                "qwen.settings", "droid.mcp", "zcode.config", "trae.user", "trae.repo", "workbuddy.mcp",
                "codebuddy.mcp", "codex.toml", "grok.toml"},
     lookalike |-> {"claude.settings", "codex.hooks", "agy.hooks", "devin.config", "cursor.hooks", "grok.hooks",
                    "qwen.settings", "droid.hooks", "zcode.config", "trae.hooks", "workbuddy.settings",
                    "codebuddy.settings", "opencode.json", "kilo.json", "pi.settings", "prime.settings"}]
Keys(f) == {"data"} \cup {k \in DOMAIN KeyFiles : f \in KeyFiles[k]}

---------------------------------------------------------------------------
(* HOOK_HARNESSES[..].install and additionalHooks: the native events a     *)
(* harness's three lifecycles, and its extra hooks, are registered under.  *)

ClaudeEvents == {"SessionStart", "UserPromptSubmit", "Stop"}
ClaudeHost == [style |-> "nested", events |-> ClaudeEvents]
CodexHost == ClaudeHost
DevinHost == ClaudeHost
QwenHost == ClaudeHost
TraecodeHost == ClaudeHost
WorkbuddyHost == ClaudeHost
CodebuddyHost == ClaudeHost
GrokHost == [style |-> "nested", events |-> ClaudeEvents \cup {"PostToolUse"}]
DroidHost == [style |-> "nested", events |-> ClaudeEvents \cup {"Notification"}]
ZcodeHost == [style |-> "process", events |-> ClaudeEvents]
KimiHost == [style |-> "toml-array", events |-> ClaudeEvents]
CursorHost == [style |-> "flat", events |-> {"sessionStart", "beforeSubmitPrompt", "stop"}]
CopilotHost == [style |-> "flat", events |-> {"sessionStart", "userPromptTransformed", "agentStop"}]
AntigravityHost == [style |-> "flat", events |-> {"PreInvocation", "Stop"}]  \* start and prompt share one event

HookHosts == [claude |-> ClaudeHost, codex |-> CodexHost, devin |-> DevinHost, qwen |-> QwenHost,
              traecode |-> TraecodeHost, workbuddy |-> WorkbuddyHost, codebuddy |-> CodebuddyHost,
              grok |-> GrokHost, droid |-> DroidHost, zcode |-> ZcodeHost, kimi |-> KimiHost,
              cursor |-> CursorHost, copilot |-> CopilotHost, antigravity |-> AntigravityHost]

HookEntries(h) == {Item(h, e, "new") : e \in HookHosts[h].events}
IsHook(h, i) == i.of = h /\ i.part \in HookHosts[h].events

(* mergeHarnessHooks and stripHarnessHooks over a file read with readJson: *)
(* ours is whatever mentions 'coding-agents'.                              *)
WithoutMarked(c) == [c EXCEPT !.user = @ \ {"lookalike"}]
StripHooks(h, c) == [WithoutMarked(c) EXCEPT !.ours = {i \in @ : ~IsHook(h, i)}]
MergeHooks(h, c) == [StripHooks(h, c) EXCEPT !.ours = @ \cup HookEntries(h)]

---------------------------------------------------------------------------
(* One write of an adapter: [do, file], and what it makes of the file.     *)
(* ok = FALSE is an adapter returning false or throwing.                   *)

Op(do, file) == [do |-> do, file |-> file]
Done(c) == [ok |-> TRUE, to |-> c]
Same(c) == [ok |-> FALSE, to |-> c]
Put(h, part, c) == [c EXCEPT !.ours = {i \in @ : ~(i.of = h /\ i.part = part)} \cup {Item(h, part, "new")}]
Drop(h, part, c) == [c EXCEPT !.ours = {i \in @ : ~(i.of = h /\ i.part = part)}]
RemoveIfEmpty(c) == IF c.user \cup c.ours = {} THEN Absent ELSE c

(* mcpServers[registrationName()] = entry: replaces the entry of that      *)
(* name; one of an earlier name stays.                                     *)
PutServer(h, c) == [c EXCEPT !.ours = @ \cup {Item(h, "mcp", "new")}]

(* A setting that is seeded where it is missing, and then kept.            *)
Has(part, c) == part \in c.user \/ \E i \in c.ours : i.part = part
Seed(h, part, c) == IF Has(part, c) THEN c ELSE Put(h, part, c)

(* registerOpencodePlugin / kilo.install: an edit of the one key, refused  *)
(* when the file does not parse.                                           *)
RegisterPlugin(h, c) ==
    IF c.shape = "broken" THEN Same(c) ELSE Done(Put(h, "plugin", ParseJsonc(WithoutMarked(c))))
UnregisterPlugin(h, c) ==
    IF c.shape \in {"absent", "broken"} THEN Done(c) ELSE Done(Drop(h, "plugin", WithoutMarked(c)))

(* Codex's tables: both verbs parse config.toml first, and [features] hooks*)
(* is added unless something like it is there, and stays.                  *)
WriteTables(h, c) ==
    IF c.shape = "broken" THEN Same(c) ELSE Done(Seed(h, "features", Put(h, "block", ParseJsonc(c))))
StripTables(h, c) ==
    IF c.shape = "broken" THEN Same(c) ELSE Done(Drop(h, "block", c))

(* Grok's block, between its marks: a file that does not parse, or would   *)
(* not, is refused.                                                        *)
WriteBlock(h, c) ==
    IF c.shape = "broken" \/ "rival" \in c.user THEN Same(c) ELSE Done(Put(h, "block", ParseJsonc(c)))

(* A block is taken out from its first mark to the next end mark: a half   *)
(* block before it goes with it, and one with no end after it stays.       *)
StripBlock(h, c) ==
    IF \E i \in c.ours : i.part = "block" THEN Drop(h, "half", Drop(h, "block", c)) ELSE c

(* Kimi's and dsh's blocks are appended to whatever the file holds: it is  *)
(* never parsed, and its shape only says whether it is there.              *)
AppendBlock(h, c) == Put(h, "block", ParseJsonc(StripBlock(h, c)))

(* The status line is the user's when they have one.                       *)
EnableStatusLine(c) ==
    LET s == ReadJson(c) IN IF "status" \in s.user THEN Done(c) ELSE Done(Put("antigravity", "status", s))

(* TraeCode: grant the sandbox only what it lacks; on uninstall take back  *)
(* what the ownership record says was ours.                                *)
GrantSandbox(c) == LET s == ReadJson(c) IN IF Has("grant", s) THEN Done(c) ELSE Done(Put("traecode", "grant", s))

(* The hook files with a `version`, which is seeded and stays.             *)
MergeVersioned(h, c) == MergeHooks(h, Seed(h, "version", ReadJson(c)))

(* A TraeCode hook file left with a single key is deleted.                 *)
TraeKeys(c) == c.user \cup {i.part : i \in c.ours}
TraeUninstall(c) ==
    LET s == StripHooks("traecode", ReadJson(c))
    IN  IF c.shape = "absent" THEN c
        ELSE IF \E k, l \in TraeKeys(s) : k # l THEN s ELSE Absent

(* droid.install: a first hooks.json starts with the hooks settings.json   *)
(* has (it is taken to have some), which it would hide.                    *)
AdoptHooks(h, c) ==
    MergeHooks(h, IF c.shape = "absent" THEN File("plain", {"copied"}, {}) ELSE ReadJson(c))

(* ZCode's hooks block with its switch and its limit, and the server.      *)
ZcodeInstall(c) ==
    LET s == Seed("zcode", "limit", Put("zcode", "enabled", ReadJson(c)))
    IN  PutServer("zcode", MergeHooks("zcode", s))

(* When no events are left the whole block goes, with what the user had in *)
(* it; the events of others keep it, switch and all.                       *)
ZcodeUninstall(c) ==
    LET read == Drop("zcode", "mcp", ReadJson(c))
        s == StripHooks("zcode", read)
    IN  IF c.shape = "absent" THEN c
        ELSE IF "events" \in s.user \/ s = read THEN s
        ELSE Drop("zcode", "enabled", Drop("zcode", "limit", [s EXCEPT !.user = @ \ {"limit"}]))

(* Every kind of write.  cli: the agent's own command line works.          *)
(* granted: the ownership record holds the sandbox grant.                  *)
Effect(do, h, c, cli, granted) ==
    CASE do = "hooks"    -> Done(MergeHooks(h, ReadJson(c)))
      [] do = "unhook"   -> Done(IF c.shape = "absent" THEN c ELSE StripHooks(h, ReadJson(c)))
      [] do = "tidyhook" -> Done(IF c.shape = "absent" THEN c ELSE RemoveIfEmpty(StripHooks(h, ReadJson(c))))
      [] do = "adopt"    -> Done(AdoptHooks(h, c))
      [] do = "versioned" -> Done(MergeVersioned(h, c))
      [] do = "traeunhook" -> Done(TraeUninstall(c))
      [] do = "ownfile"  -> Done(MergeHooks(h, File("plain", {}, {})))
      [] do = "delete"   -> Done(Absent)
      [] do = "both"     -> Done(ZcodeInstall(c))
      [] do = "unboth"   -> Done(ZcodeUninstall(c))
      [] do = "mcp"      -> Done(PutServer(h, ReadJson(c)))
      [] do = "unmcp"    -> Done(IF \E i \in c.ours : i.of = h /\ i.part = "mcp"
                                 THEN Drop(h, "mcp", ReadJson(c)) ELSE c)
      [] do = "plugin"   -> RegisterPlugin(h, c)
      [] do = "unplugin" -> UnregisterPlugin(h, c)
      [] do = "extension" -> Done(Put(h, "extension", WithoutMarked(ReadJson(c))))
      [] do = "unextension" -> Done(IF c.shape = "absent" THEN c ELSE Drop(h, "extension", WithoutMarked(ReadJson(c))))
      [] do = "tables"   -> WriteTables(h, c)
      [] do = "untables" -> StripTables(h, c)
      [] do = "block"    -> WriteBlock(h, c)
      [] do = "append"   -> Done(AppendBlock(h, c))
      [] do = "unblock"  -> Done(StripBlock(h, c))
      [] do = "status"   -> EnableStatusLine(c)
      [] do = "unstatus" -> Done(Drop(h, "status", c))
      [] do = "skill"    -> Done(File("plain", c.user, {i \in c.ours : i.part = "half"} \cup {Item("skill", "skill", "new")}))
      [] do = "unskill"  -> Done(RemoveIfEmpty(Drop("skill", "skill", c)))
      [] do = "cli"      -> IF cli THEN Done(Put(h, "mcp", ParseJsonc(c))) ELSE Same(c)
      [] do = "uncli"    -> Done(IF cli THEN Drop(h, "mcp", c) ELSE c)       \* the verdict is not looked at
      [] do = "cliplugin" -> IF cli THEN Done(Put(h, "plugin", ParseJsonc(c))) ELSE Same(c)
      [] do = "trycliplugin" -> Done(IF cli THEN Put(h, "plugin", ParseJsonc(c)) ELSE c)
      [] do = "verdict"  -> IF cli THEN Done(c) ELSE Same(c)
      [] do = "uncliplugin" -> Done(IF cli THEN Drop(h, "plugin", c) ELSE c)
      [] do = "mustuncli" -> IF cli THEN Done(Drop(h, "plugin", c)) ELSE Same(c)
      [] do = "grant"    -> GrantSandbox(c)
      [] do = "ungrant"  -> Done(IF granted THEN Drop(h, "grant", c) ELSE c)
      [] do = "forget"   -> Done(Drop(h, "record", c))

(* What an install's write is to leave in its file, one entry each, and    *)
(* the settings it needs there, the user's or ours.                        *)
Entries(do, h, user) ==
    CASE do \in {"hooks", "adopt", "versioned", "ownfile"} -> HookEntries(h)
      [] do = "both" -> HookEntries(h) \cup {Item(h, "mcp", "new")}
      [] do \in {"mcp", "cli", "repo"} -> {Item(h, "mcp", "new")}
      [] do \in {"plugin", "cliplugin", "trycliplugin"} -> {Item(h, "plugin", "new")}
      [] do = "extension" -> {Item(h, "extension", "new")}
      [] do \in {"tables", "block", "append"} -> {Item(h, "block", "new")}
      [] do = "status" /\ "status" \notin user -> {Item(h, "status", "new")}
      [] do = "skill" -> {Item("skill", "skill", "new")}
      [] OTHER -> {}
Settings(do) ==
    CASE do = "versioned" -> {"version"} [] do = "tables" -> {"features"} [] do = "grant" -> {"grant"}
      [] do = "both" -> {"enabled", "limit"} [] OTHER -> {}

---------------------------------------------------------------------------
(* The adapters: the writes of install and uninstall, in order, and the    *)
(* other files mutationPaths names for the harness.                        *)

Adapter(install, uninstall) == [install |-> install, uninstall |-> uninstall]
SkillDir ==
    [pi |-> "pi.skills", prime |-> "prime.skills", claude |-> "claude.skills", codex |-> "agents.skills",
     antigravity |-> "agy.skills", cursor |-> "cursor.skills", copilot |-> "copilot.skills",
     grok |-> "grok.skills", kimi |-> "kimi.skills", cline |-> "cline.skills", dsh |-> "agents.skills",
     qwen |-> "qwen.skills", droid |-> "droid.skills", zcode |-> "zcode.skills", traecode |-> "trae.skills",
     workbuddy |-> "workbuddy.skills", codebuddy |-> "codebuddy.skills"]
SkillDirs == {SkillDir[h] : h \in DOMAIN SkillDir}
Skill(h) == Op("skill", SkillDir[h])
Unskill(h) == Op("unskill", SkillDir[h])

OpencodeAdapter == Adapter(<<Op("plugin", "opencode.json")>>, <<Op("unplugin", "opencode.json")>>)
KiloAdapter == Adapter(<<Op("plugin", "kilo.json")>>, <<Op("unplugin", "kilo.json")>>)
PiFamily(h, settings) ==
    Adapter(<<Op("extension", settings), Skill(h)>>, <<Unskill(h), Op("unextension", settings)>>)
ClaudeAdapter ==
    Adapter(<<Op("hooks", "claude.settings"), Skill("claude"), Op("cli", "claude.json")>>,
            <<Op("unhook", "claude.settings"), Op("uncli", "claude.json"), Unskill("claude")>>)
CodexAdapter ==
    Adapter(<<Op("hooks", "codex.hooks"), Op("tables", "codex.toml"), Skill("codex")>>,
            <<Op("unhook", "codex.hooks"), Unskill("codex"), Op("untables", "codex.toml")>>)
AntigravityAdapter ==
    Adapter(<<Op("hooks", "agy.hooks"), Op("mcp", "agy.mcp"), Op("status", "agy.settings"), Skill("antigravity")>>,
            <<Op("unhook", "agy.hooks"), Op("unmcp", "agy.mcp"), Op("unstatus", "agy.settings"), Unskill("antigravity")>>)
DevinAdapter ==
    Adapter(<<Op("hooks", "devin.config"), Op("mcp", "devin.mcp")>>,
            <<Op("unhook", "devin.config"), Op("unmcp", "devin.mcp")>>)
CursorAdapter ==
    Adapter(<<Op("versioned", "cursor.hooks"), Op("mcp", "cursor.mcp"), Skill("cursor")>>,
            <<Op("unhook", "cursor.hooks"), Op("unmcp", "cursor.mcp"), Unskill("cursor")>>)
CopilotAdapter ==
    Adapter(<<Op("ownfile", "copilot.hooks"), Op("mcp", "copilot.mcp"), Skill("copilot")>>,
            <<Op("delete", "copilot.hooks"), Op("unmcp", "copilot.mcp"), Unskill("copilot")>>)
GrokAdapter ==
    Adapter(<<Op("block", "grok.toml"), Op("hooks", "grok.hooks"), Skill("grok")>>,
            <<Op("unblock", "grok.toml"), Op("tidyhook", "grok.hooks"), Unskill("grok")>>)
KimiAdapter ==
    Adapter(<<Op("append", "kimi.toml"), Op("mcp", "kimi.mcp"), Skill("kimi")>>,
            <<Op("unblock", "kimi.toml"), Op("unmcp", "kimi.mcp"), Unskill("kimi")>>)
ClineAdapter ==
    Adapter(<<Op("trycliplugin", "cline.plugins"), Op("mcp", "cline.mcp"), Skill("cline"), Op("verdict", "cline.plugins")>>,
            <<Op("uncliplugin", "cline.plugins"), Op("unmcp", "cline.mcp"), Unskill("cline")>>)
DcodeAdapter ==
    Adapter(<<Op("plugin", "dcode.market"), Op("cliplugin", "dcode.plugins")>>,
            <<Op("mustuncli", "dcode.plugins")>>)
DshAdapter ==
    Adapter(<<Op("append", "dsh.yml"), Skill("dsh")>>, <<Op("unblock", "dsh.yml"), Unskill("dsh")>>)
QwenAdapter ==
    Adapter(<<Op("hooks", "qwen.settings"), Skill("qwen"), Op("cli", "qwen.settings")>>,
            <<Op("unhook", "qwen.settings"), Op("uncli", "qwen.settings"), Unskill("qwen")>>)
DroidAdapter ==
    Adapter(<<Op("adopt", "droid.hooks"), Skill("droid"), Op("mcp", "droid.mcp")>>,
            <<Op("tidyhook", "droid.hooks"), Op("unmcp", "droid.mcp"), Unskill("droid")>>)
ZcodeAdapter ==
    Adapter(<<Op("both", "zcode.config"), Skill("zcode")>>, <<Op("unboth", "zcode.config"), Unskill("zcode")>>)
TraecodeAdapter ==
    Adapter(<<Op("versioned", "trae.hooks"), Skill("traecode"), Op("unuser", "trae.user"), Op("grant", "trae.sandbox"),
              Op("record", "runtime"), Op("repo", "trae.repo"), Op("ignore", "trae.ignore")>>,
            <<Op("traeunhook", "trae.hooks"), Op("unuser", "trae.user"), Op("unrepo", "trae.repo"),
              Op("ungrant", "trae.sandbox"), Op("forget", "runtime"), Unskill("traecode")>>)
GenieFamily(h, settings, servers) ==
    Adapter(<<Op("hooks", settings), Op("mcp", servers), Skill(h)>>,
            <<Op("unhook", settings), Op("unmcp", servers), Unskill(h)>>)

(* INSTALLERS; opencode and opencode2 share their entry. *)
Adapters ==
    [opencode |-> OpencodeAdapter, opencode2 |-> OpencodeAdapter, kilo |-> KiloAdapter,
     pi |-> PiFamily("pi", "pi.settings"), prime |-> PiFamily("prime", "prime.settings"),
     claude |-> ClaudeAdapter, codex |-> CodexAdapter,
     antigravity |-> AntigravityAdapter, devin |-> DevinAdapter, cursor |-> CursorAdapter,
     copilot |-> CopilotAdapter, grok |-> GrokAdapter, kimi |-> KimiAdapter, cline |-> ClineAdapter,
     dcode |-> DcodeAdapter, dsh |-> DshAdapter, qwen |-> QwenAdapter, droid |-> DroidAdapter,
     zcode |-> ZcodeAdapter, traecode |-> TraecodeAdapter,
     workbuddy |-> GenieFamily("workbuddy", "workbuddy.settings", "workbuddy.mcp"),
     codebuddy |-> GenieFamily("codebuddy", "codebuddy.settings", "codebuddy.mcp")]
Harnesses == DOMAIN Adapters
Owner(h) == IF h = "opencode2" THEN "opencode" ELSE h
============================================================================
