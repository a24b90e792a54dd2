------------------------------- MODULE Install -------------------------------
(***************************************************************************)
(* The installer's commands: run() of installer.ts over the adapters of    *)
(* HostAdapters, inside the transaction of install-transaction.ts.         *)
(*                                                                         *)
(* A command checks the files it is about to change, snapshots them, puts  *)
(* the runtime in place, removes registrations of other names, runs the    *)
(* adapters and drops the snapshots; a failure on the way restores them,   *)
(* except that a few writes may fail unnoticed.  A process that dies leaves*)
(* the file it was writing torn and its snapshots where they are.          *)
(***************************************************************************)
EXTENDS HostAdapters, FiniteSets, Lists

CONSTANTS
    Scenes,        \* sets of harnesses one machine has: one, or two that share files
    Starts,        \* the user's content a file may begin with
    MaxCommands, MaxFaults

(* The modules that instantiate this one assume it.                        *)
InstallConstants ==
    /\ MaxCommands \in Nat /\ MaxFaults \in Nat
    /\ \A S \in Scenes : \E g, h \in Harnesses : S = {g, h}

VARIABLES
    scene,         \* the harnesses of this machine
    cli,           \* whether the agents' own command lines work
    disk,          \* file -> what it holds
    origin,        \* file -> the user's content at the start
    command,       \* the command in progress: verb and targets
    todo,          \* the writes of its present stage still to come
    remaining,       \* the harnesses whose adapter it has yet to run
    before,        \* the disk when it started
    snapshots,     \* the files its transaction has copied
    left,          \* file -> the user's content in snapshots left behind
    passedOver,    \* the files in which a failed write went unnoticed
    result,        \* how the last command ended
    died,          \* whether a command was ever killed or its roll-back failed
    commands, faults

installVars == <<scene, cli, disk, origin, command, todo, remaining, before, snapshots, left, passedOver, result,
                 died, commands, faults>>

Idle == [verb |-> "none", on |-> {}]
Runtime == "runtime"
OpsOf(h) == Adapters[h].install \o Adapters[h].uninstall
FilesOf(h) == {OpsOf(h)[k].file : k \in 1..Len(OpsOf(h))} \ {Runtime}
Files(S) == {Runtime} \cup UNION {FilesOf(h) : h \in S}

\* Mutant of MutationPaths: the staged runtime is not part of the transaction.
Mut_MutationPathsAdapters(S) == Files(S) \ {Runtime}

(* mutationPaths: what a command on S may write and therefore snapshots.   *)
MutationPaths(S) == Files(S)

(* The files it parses first: every JSON file of the list.                 *)
TextFiles == {"codex.toml", "grok.toml", "kimi.toml", "dsh.yml", "trae.ignore"}
NotJson == TextFiles \cup {"cline.plugins", "dcode.plugins", Runtime}
JsonFiles(S) == MutationPaths(S) \ (NotJson \cup SkillDirs)

(* managedJsonRegistrations, the JSON check, codexMcpBlock and the skill   *)
(* check: the command is refused before anything is written.  Grok's server*)
(* is looked for by the adapter; what is left of a skill has no mark of    *)
(* ours, so it too stands in the way.                                      *)
Refused(verb, S) ==
    \/ \E f \in JsonFiles(S) : disk[f].shape = "broken"
    \/ verb = "install" /\ \E f \in MutationPaths(S) \ {"grok.toml"} : "rival" \in disk[f].user
    \/ verb = "install" /\ \E f \in MutationPaths(S) \cap SkillDirs : Item("skill", "half", "new") \in disk[f].ours
    \/ verb = "install" /\ "codex" \in S /\ disk["codex.toml"].shape = "broken"

\* Mutant of Sweep: entries under an earlier name stay.
Mut_SweepNot(verb, S, f) == disk[f]

(* managedJsonRegistrations with mutate: entries of ours under another name*)
(* go; on uninstall all of them do.                                        *)
Sweep(verb, S, f) ==
    LET stale(i) == i.part = "mcp" /\ i.of \in S /\ (verb = "install" => i.rev = "old")
    IN  IF \E i \in disk[f].ours : stale(i)
        THEN File("plain", disk[f].user, {i \in disk[f].ours : ~stale(i)})
        ELSE disk[f]

(* stageRuntime replaces the staged copy wholesale and brands it; the      *)
(* ownership record of the sandbox grants lives beside it and stays.       *)
StageRuntime(c) ==
    File("plain", c.user, {i \in c.ours : i.part = "record"} \cup {Item("runtime", "dist", "new")})

Step(of, do, f) == [of |-> of, do |-> do, file |-> f]

(* The writes of one adapter: target.install or target.uninstall.          *)
WritesOf(verb, h) ==
    LET ops == IF verb = "install" THEN Adapters[h].install ELSE Adapters[h].uninstall
    IN  [k \in 1..Len(ops) |-> Step(h, ops[k].do, ops[k].file)]

(* What comes before the adapters: the runtime is staged, the files swept. *)
Plan(verb, S) ==
    LET stage == IF verb = "uninstall" THEN <<>> ELSE <<Step("runtime", "stage", Runtime)>>
        files == SetToSeq(JsonFiles(S))
    IN  stage \o [k \in 1..Len(files) |-> Step("sweep", "sweep", files[k])]

---------------------------------------------------------------------------
(* A file is absent, or has what Starts says of it, or, where the others   *)
(* do, has nothing of the user's.  An earlier release may have left        *)
(* TraeCode's server at the user level.                                    *)
Fresh == SkillDirs \cup {Runtime, "copilot.hooks"}
Earlier(f) == IF f = "trae.user" THEN {Item("traecode", "mcp", "new")} ELSE {}
Begins(how, f, start) ==
    CASE how = "absent" -> Absent
      [] how = "empty" -> File("plain", {}, Earlier(f))
      [] OTHER -> File("plain", start \cap Keys(f), Earlier(f))
UsesItsCli(S) == S \cap {"claude", "cline", "dcode", "qwen"} # {}

Init ==
    /\ scene \in Scenes
    /\ cli \in (IF UsesItsCli(scene) THEN BOOLEAN ELSE {TRUE})
    /\ \E start \in Starts, how \in [Files(scene) \ Fresh -> {"absent", "empty", "full"}] :
         /\ \A f, g \in DOMAIN how : how[f] = "empty" /\ f # g => how[g] = "full"
         /\ disk = [f \in Files(scene) |-> Begins(IF f \in Fresh THEN "absent" ELSE how[f], f, start)]
    /\ origin = [f \in Files(scene) |-> disk[f].user]
    /\ command = Idle /\ todo = <<>> /\ remaining = {} /\ before = disk /\ snapshots = {}
    /\ left = [f \in Files(scene) |-> {}] /\ passedOver = {}
    /\ result = "none" /\ died = FALSE /\ commands = 0 /\ faults = 0

(* run(): targets chosen, checks passed, the transaction opened.           *)
Begin(verb, S) ==
    /\ command = Idle /\ commands < MaxCommands
    /\ S # {} /\ S \subseteq scene
    /\ ~Refused(verb, S)
    /\ command' = [verb |-> verb, on |-> S]
    /\ todo' = Plan(verb, S) /\ remaining' = S
    /\ before' = disk /\ snapshots' = MutationPaths(S)
    /\ commands' = commands + 1
    /\ result' = "running"
    /\ UNCHANGED <<scene, cli, disk, origin, left, passedOver, died, faults>>

(* update without names: the runtime alone, in a transaction of its own.   *)
BeginUpdate ==
    /\ command = Idle /\ commands < MaxCommands
    /\ command' = [verb |-> "update", on |-> {}]
    /\ todo' = <<Step("runtime", "stage", Runtime)>> /\ remaining' = {}
    /\ before' = disk /\ snapshots' = {Runtime}
    /\ commands' = commands + 1
    /\ result' = "running"
    /\ UNCHANGED <<scene, cli, disk, origin, left, passedOver, died, faults>>

Granted == \E i \in disk[Runtime].ours : i.part = "record"
HasServer(c) == \E i \in c.ours : i.of = "traecode" /\ i.part = "mcp"
HasGrant(c) == \E i \in c.ours : i.part = "grant"

(* The writes that look at more than their own file: TraeCode's entry at   *)
(* the user level, which the sweep may have taken already, the repo's      *)
(* registration, its .gitignore, if the registration made the file, and    *)
(* the record of the sandbox grant, if this command gave it.               *)
Outcome(s) ==
    LET c == disk[s.file]
    IN  CASE s.do = "stage" -> Done(StageRuntime(c))
          [] s.do = "sweep" -> Done(Sweep(command.verb, command.on, s.file))
          [] s.do = "unuser" ->
               Done(IF HasServer(before[s.file]) /\ c.shape # "absent"
                    THEN RemoveIfEmpty(Drop("traecode", "mcp", ReadJson(c))) ELSE c)
          [] s.do = "repo" -> Done(IF c.shape = "broken" THEN c ELSE PutServer("traecode", ParseJsonc(c)))
          [] s.do = "unrepo" ->
               Done(IF c.shape = "plain" /\ HasServer(c) THEN RemoveIfEmpty(Drop("traecode", "mcp", c)) ELSE c)
          [] s.do = "ignore" ->
               Done(IF /\ before["trae.repo"].shape = "absent" /\ HasServer(disk["trae.repo"])
                       /\ c.shape # "absent" /\ "rule" \notin c.user
                    THEN Put("traecode", "ignore", c) ELSE c)
          [] s.do = "record" ->
               Done(IF HasGrant(disk["trae.sandbox"]) /\ ~HasGrant(before["trae.sandbox"])
                    THEN Put("traecode", "record", c) ELSE c)
          [] OTHER -> Effect(s.do, Owner(s.of), c, cli, Granted)

(* What a write to f that fails or dies may leave: the file as it was, one *)
(* with nothing legible in it or, where we write text, a part of what was  *)
(* to come, the block without its end mark.                                *)
Half(i) == IF i.part \in {"block", "skill"} THEN [i EXCEPT !.part = "half"] ELSE i
HalfWritten(f, c, to) ==
    {c} \cup (CASE f \in TextFiles -> {Torn, File("plain", {}, {}), File("broken", to.user, {Half(i) : i \in to.ours})}
                [] f \in SkillDirs -> {File("plain", c.user, {i \in c.ours : i.part # "skill"} \cup {Item("skill", "half", "new")})}
                [] OTHER -> {Torn})

(* The next write.                                                         *)
Write ==
    /\ todo # <<>> /\ result = "running"
    /\ Outcome(Head(todo)).ok
    /\ disk' = [disk EXCEPT ![Head(todo).file] = Outcome(Head(todo)).to]
    /\ todo' = Tail(todo)
    /\ UNCHANGED <<scene, cli, origin, command, remaining, before, snapshots, left, passedOver, result, died, commands, faults>>

(* The loop over the targets: the next adapter begins.  The targets come in*)
(* the order the command names them.                                       *)
RunAdapter(h) ==
    /\ result = "running" /\ todo = <<>> /\ h \in remaining
    /\ todo' = WritesOf(command.verb, h)
    /\ remaining' = remaining \ {h}
    /\ UNCHANGED <<scene, cli, disk, origin, command, before, snapshots, left, passedOver, result, died, commands, faults>>

(* transaction.commit(): the snapshots are dropped.                        *)
Commit ==
    /\ command # Idle /\ todo = <<>> /\ remaining = {} /\ result = "running"
    /\ result' = "committed"
    /\ snapshots' = {}
    /\ UNCHANGED <<scene, cli, disk, origin, command, todo, remaining, before, left, passedOver, died, commands, faults>>

(* The writes whose errors are caught, or whose verdict is not looked at.  *)
BestEffort == {"unuser", "repo", "ignore", "unrepo", "uncli", "uncliplugin"}

(* The adapter refuses, or the write throws and may leave its file torn.   *)
Fail ==
    /\ todo # <<>> /\ result = "running"
    /\ LET f == Head(todo).file
       IN  \/ /\ ~Outcome(Head(todo)).ok
              /\ UNCHANGED <<disk, faults>>
           \/ /\ Head(todo).do \notin BestEffort
              /\ faults < MaxFaults /\ faults' = faults + 1
              /\ \E c \in HalfWritten(f, disk[f], Outcome(Head(todo)).to) : disk' = [disk EXCEPT ![f] = c]
    /\ result' = "failing"
    /\ UNCHANGED <<scene, cli, origin, command, todo, remaining, before, snapshots, left, passedOver, died, commands>>

(* One of those fails: the command goes on as if it had been made.         *)
PassOver ==
    /\ todo # <<>> /\ result = "running"
    /\ Head(todo).do \in BestEffort
    /\ faults < MaxFaults /\ faults' = faults + 1
    /\ LET f == Head(todo).file
       IN  /\ \E c \in HalfWritten(f, disk[f], Outcome(Head(todo)).to) : disk' = [disk EXCEPT ![f] = c]
           /\ passedOver' = passedOver \cup {f}
    /\ todo' = Tail(todo)
    /\ UNCHANGED <<scene, cli, origin, command, remaining, before, snapshots, left, result, died, commands>>

(* rollback(): every path is removed and copied back; one that cannot be   *)
(* restored keeps every snapshot.                                          *)
Rollback(stuck) ==
    /\ result = "failing"
    /\ stuck # {} => faults < MaxFaults
    /\ faults' = IF stuck = {} THEN faults ELSE faults + 1
    /\ disk' = [f \in DOMAIN disk |->
                  IF f \in stuck THEN Absent ELSE IF f \in snapshots THEN before[f] ELSE disk[f]]
    /\ left' = IF stuck = {} THEN left
               ELSE [f \in DOMAIN left |-> IF f \in snapshots THEN left[f] \cup before[f].user ELSE left[f]]
    /\ died' = (died \/ stuck # {})
    /\ result' = IF stuck = {} THEN "restored" ELSE "incomplete"
    /\ todo' = <<>> /\ remaining' = {} /\ snapshots' = {}
    /\ UNCHANGED <<scene, cli, origin, command, before, passedOver, commands>>

(* The process is killed while it writes: no roll-back, the snapshots stay.*)
Killed ==
    /\ result = "running" /\ todo # <<>> /\ faults < MaxFaults
    /\ faults' = faults + 1
    /\ LET f == Head(todo).file
       IN  \E c \in HalfWritten(f, disk[f], Outcome(Head(todo)).to) : disk' = [disk EXCEPT ![f] = c]
    /\ left' = [f \in DOMAIN left |-> IF f \in snapshots THEN left[f] \cup before[f].user ELSE left[f]]
    /\ result' = "killed" /\ died' = TRUE
    /\ todo' = <<>> /\ remaining' = {} /\ snapshots' = {}
    /\ UNCHANGED <<scene, cli, origin, command, before, passedOver, commands>>

(* The command has returned; the next one is another process, and in the   *)
(* meantime an older release may be what wrote our entries: a new release  *)
(* or tool prefix makes today's entries old.                               *)
Return ==
    /\ result \in {"committed", "restored", "incomplete", "killed"}
    /\ command # Idle
    /\ command' = Idle
    /\ \E newRelease \in BOOLEAN :
         disk' = IF newRelease
                 THEN [f \in DOMAIN disk |-> [disk[f] EXCEPT !.ours = {[i EXCEPT !.rev = "old"] : i \in @}]]
                 ELSE disk
    /\ result' = "none"
    /\ UNCHANGED <<scene, cli, origin, todo, remaining, before, snapshots, left, passedOver, died, commands, faults>>

Next ==
    \/ \E verb \in {"install", "uninstall"}, S \in SUBSET scene : Begin(verb, S)
    \/ BeginUpdate
    \/ \E h \in remaining : RunAdapter(h)
    \/ Write \/ Commit \/ Fail \/ PassOver \/ Killed \/ Return
    \/ \E stuck \in SUBSET snapshots : Cardinality(stuck) <= 1 /\ Rollback(stuck)

Spec == Init /\ [][Next]_installVars

---------------------------------------------------------------------------
TypeOK ==
    /\ scene \in Scenes /\ cli \in BOOLEAN
    /\ \A f \in DOMAIN disk : disk[f].shape \in Shapes
    /\ result \in {"none", "running", "failing", "committed", "restored", "incomplete", "killed"}
    /\ snapshots \subseteq DOMAIN disk /\ passedOver \subseteq DOMAIN disk
    /\ faults <= MaxFaults /\ commands <= MaxCommands

(* A command that failed and reports a complete roll-back has left every   *)
(* file of every agent, and the runtime, exactly as it found them.         *)
FailureRestores == result = "restored" => disk = before

(* Whatever fails, is killed or cannot be rolled back, the user's content  *)
(* of every file is on the disk or in a snapshot that was left behind,     *)
(* except for what the code gives up: hooks and plugins that mention       *)
(* 'coding-agents', the limit in a ZCode hooks block with no event of the  *)
(* user's, and the files in which a failed write went unnoticed.           *)
Forfeit(f) ==
    {"lookalike"} \cup (IF f = "zcode.config" /\ "events" \notin origin[f] THEN {"limit"} ELSE {})
UserContentKept ==
    \A f \in DOMAIN disk \ passedOver :
        origin[f] \ Forfeit(f) \subseteq
            disk[f].user \cup left[f] \cup (IF f \in snapshots THEN before[f].user ELSE {})

(* "Foreign hooks keep the file (and the field) alive": a command that      *)
(* succeeds leaves the hooks of others in TraeCode's hook file.             *)
ForeignHooksKeepTheFile ==
    (result = "committed" /\ ~died /\ "trae.hooks" \in DOMAIN disk) =>
        origin["trae.hooks"] \subseteq disk["trae.hooks"].user

(* What outlives the command that wrote it: seeds, the grant, the switch of*)
(* ZCode's block, and half a block or skill that a dead command left.      *)
Lasting == {"version", "features", "grant", "ignore", "enabled", "limit", "half"}
OwnIn(f, h) == {i \in disk[f].ours : i.of \in {Owner(h), "skill"}}

(* After an install commits, each file of each chosen harness holds each of*)
(* its entries once, of this installation, and no other entry of ours but  *)
(* what lasts; and the settings they need are there.  So it is whatever    *)
(* releases, names and half-finished commands came before.                 *)
InstalledOnce ==
    (result = "committed" /\ command.verb = "install") =>
        \A h \in command.on, f \in DOMAIN disk \ passedOver :
            LET writes == {op \in ToSet(Adapters[h].install) : op.file = f}
            IN  (f \in FilesOf(h)) =>
                  /\ {i \in OwnIn(f, h) : i.part \notin Lasting} =
                        UNION {Entries(op.do, Owner(h), disk[f].user) : op \in writes}
                  /\ \A op \in writes : Settings(op.do) \subseteq disk[f].user \cup {i.part : i \in disk[f].ours}

(* After an uninstall commits, with the agents' command lines working, no  *)
(* command killed before and no failed write passed over, nothing of the   *)
(* chosen harnesses is left in their files but what the code leaves there: *)
(* the version of two hook files, Codex's feature flag, the line in        *)
(* .gitignore, the switch and limit of a ZCode block that has hooks of the *)
(* user's, and dcode's marketplace file, which is ours.                    *)
Leftovers(f) ==
    CASE f \in {"cursor.hooks", "trae.hooks"} -> {"version"}
      [] f = "codex.toml" -> {"features"}
      [] f = "trae.ignore" -> {"ignore"}
      [] f = "zcode.config" /\ "events" \in disk[f].user -> {"enabled", "limit"}
      [] f = "dcode.market" -> {"plugin"}
      [] OTHER -> {}
UninstallLeavesNothing ==
    (result = "committed" /\ command.verb = "uninstall" /\ cli /\ ~died) =>
        \A h \in command.on, f \in DOMAIN disk \ passedOver :
            f \in FilesOf(h) => \A i \in OwnIn(f, h) : i.part \in Leftovers(f)
============================================================================
