------------------------------ MODULE QueueFile ------------------------------
(***************************************************************************)
(* The JSONL file under RetainQueue (src/src/upstream/src/retain-queue.ts, *)
(* src/src/shared/private-queue-files.ts, retain-queue-storage.ts): its    *)
(* lines with their lengths in bytes, the bytes that are no row, and the   *)
(* recovery snapshots that keep them.  RetainCoordinator takes a rewrite   *)
(* for one step that succeeds or fails; here it is the steps it is made    *)
(* of, any of which a crash may follow, against the two byte limits.       *)
(*                                                                         *)
(* A line is a row, or junk: bytes no row can be read from.  The mutation  *)
(* lock leaves one operation at a time.  Files of other principals, which  *)
(* only tighten the limit of an append, and durability below fsync are     *)
(* left out.                                                               *)
(***************************************************************************)
EXTENDS Integers, Sequences, FiniteSets, Lists

CONSTANTS
  NewRows,        \* rows that may be appended
  RowBytes,       \* their length
  Banks,          \* banks the principal may write to
  StartFiles,     \* files the system may start from
  Limits,         \* values of retainQueueMaxBytes
  MaxGenerations, \* bound: files, by inode, under the queue's name
  MaxCrashes,     \* bound: crashes
  MaxReroutes     \* bound: changes of the write bank

\* The modules that instantiate this one assume it.  The shortest row, with an
\* id, a bank, a date and no content, has 125 bytes.
QueueFileConstants ==
  /\ RowBytes \in Nat /\ RowBytes >= 125 /\ Limits \subseteq Nat
  /\ MaxGenerations \in Nat \ {0} /\ MaxCrashes \in Nat /\ MaxReroutes \in Nat

VARIABLES
  lines,      \* the queue file
  generation, \* its inode: "source"
  recovery,   \* [generation -> the junk its recovery snapshot holds]
  op,         \* the operation under the mutation lock
  bank,       \* the principal's write bank
  flushing,   \* a flush holds the delivery lock
  limit,      \* retainQueueMaxBytes
  accepted,   \* history: rows an enqueue was acknowledged for and none removed
  junked,     \* history: junk there has been
  answered,   \* history: rows whose last send has its answer being recorded
  crashes, reroutes

vars == <<lines, generation, recovery, op, bank, flushing, limit, accepted, junked, answered, crashes, reroutes>>

NoState == [present |-> FALSE, quarantine |-> "none", gate |-> "none",
            sending |-> FALSE, protected |-> FALSE]
NoRange == [source |-> 0, offset |-> 0, length |-> 0]   \* archive, offset, length: in pieces of junk
Row(id, bytes, in) ==
  [id |-> id, junk |-> FALSE, bytes |-> bytes, named |-> TRUE, bank |-> in, attempts |-> 0,
   state |-> NoState, range |-> NoRange, ended |-> TRUE]
Junk(id, bytes, ended) == [Row(id, bytes, "none") EXCEPT !.junk = TRUE, !.ended = ended]

IdsOf(file) == {file[n].id : n \in DOMAIN file}
\* The junk of the first n lines, by id.
JunkBefore(file) ==
  LET ids[n \in 0..Len(file)] ==
        IF n = 0 THEN <<>>
        ELSE IF file[n].junk THEN Append(ids[n - 1], file[n].id) ELSE ids[n - 1]
  IN ids
JunkOf(file) == JunkBefore(file)[Len(file)]
Total(bytes) ==
  LET sum[n \in 0..Len(bytes)] == IF n = 0 THEN 0 ELSE sum[n - 1] + bytes[n] IN sum[Len(bytes)]

-----------------------------------------------------------------------------
(* Lengths: JSON.stringify of a row and of its replay metadata. *)

Present(b, bytes) == IF b THEN bytes ELSE 0
\* The members of replayState, each with the comma that follows it.
MemberBytes(s) ==
    Present(s.quarantine = "bank-mismatch", 29) + Present(s.quarantine = "permanent", 25)
  + Present(s.gate = "probe", 15) + Present(s.gate = "operator", 18)
  + Present(s.sending, 15) + Present(s.protected, 17)
\* ,"replayState":{...} and ,"replayAttempts":n: replayMetadataBytes.  A corrupt
\* row's quarantine and range are counted in BarrierBytes.
MetadataBytes(r) ==
  LET state == MemberBytes(r.state)
      barrier == r.state.quarantine = "corrupt" IN
    Present(r.state.present /\ ~barrier, 17) + state - Present(state > 0 /\ ~barrier, 1)
    + Present(r.attempts > 0, 19)

BarrierBytes == 313   \* a synthetic row with its newline and offsets of three digits
OperationIdBytes == 53
LineBytes(r) == IF r.junk THEN r.bytes
                ELSE r.bytes + Present(r.named, OperationIdBytes) + MetadataBytes(r)
FileBytes(file) == Total([n \in DOMAIN file |-> LineBytes(file[n])])

-----------------------------------------------------------------------------
(* Reading *)

Barrier(source, start, offset) ==
  [Row(<<"corrupt", source, start>>, BarrierBytes - OperationIdBytes, "unknown") EXCEPT
     !.state = [NoState EXCEPT !.present = TRUE, !.quarantine = "corrupt"],
     !.range = [source |-> source, offset |-> offset, length |-> 1]]

\* readAll: a run of junk becomes one row, which names the bytes in the snapshot
\* of the file's generation; the last row is read with or without its newline.
ReadLine(items, n) ==
  LET offset == Len(JunkBefore(lines)[n - 1]) IN
    IF ~lines[n].junk THEN Append(items, [lines[n] EXCEPT !.ended = TRUE])
    ELSE IF n > 1 /\ lines[n - 1].junk
         THEN [items EXCEPT ![Len(items)].range.length = @ + 1]
         ELSE Append(items, Barrier(generation, n, offset))
Items ==
  LET items[n \in 0..Len(lines)] == IF n = 0 THEN <<>> ELSE ReadLine(items[n - 1], n)
  IN items[Len(lines)]

\* Mutant of Unterminated: the last line is taken to have its newline.
Mut_UnterminatedNever == FALSE

\* hasUnterminatedRecord
Unterminated == lines # <<>> /\ ~Last(lines).ended

-----------------------------------------------------------------------------
(* The room an outcome needs: replayOutcomeHeadroom *)

Completed(s) == [s EXCEPT !.sending = FALSE]
Protected(s) == [s EXCEPT !.present = TRUE, !.protected = TRUE]
Grown(r, state, attempts) ==
  MetadataBytes([r EXCEPT !.state = state, !.attempts = attempts]) - MetadataBytes(r)

ProtectionBytes(items) ==
  Total([n \in DOMAIN items |->
           Grown(items[n], Protected(Completed(items[n].state)), items[n].attempts)])
GateBytes(items) ==
  Max({0} \cup {LET s == Protected(Completed(items[n].state)) IN
                  Grown([items[n] EXCEPT !.state = s], [s EXCEPT !.gate = "probe"], items[n].attempts)
                : n \in DOMAIN items})
Mismatched(s) == [s EXCEPT !.present = TRUE,
                           !.quarantine = IF @ = "corrupt" THEN @ ELSE "bank-mismatch",
                           !.gate = IF @ = "none" THEN @ ELSE "operator"]
OutcomeBytes(items) ==
  Max({0} \cup UNION {{Grown(items[n], [items[n].state EXCEPT !.present = TRUE, !.sending = TRUE], items[n].attempts + 1),
                       Grown(items[n], Mismatched(Completed(items[n].state)), items[n].attempts)}
                      : n \in DOMAIN items})
ReplayOutcomeHeadroom(items) == Max({ProtectionBytes(items) + GateBytes(items), OutcomeBytes(items)})

-----------------------------------------------------------------------------
(* What a stage of an operation makes of the rows it reads *)

At(id) == CHOOSE n \in DOMAIN Items : Items[n].id = id
SendingIds == {Items[n].id : n \in {m \in DOMAIN Items : Items[m].state.sending}}
SetStates(State(_)) == [n \in DOMAIN Items |-> [Items[n] EXCEPT !.state = State(Items[n])]]
SetState(id, state) == [Items EXCEPT ![At(id)].state = state]

\* prepareQueue: a closed gate protects the backlog; a row of another bank is
\* quarantined.
PreparedState(r) ==
  LET gated == \E n \in DOMAIN Items : Items[n].state.gate # "none"
      s == IF gated THEN Protected(r.state) ELSE r.state IN
    IF s.quarantine = "none" /\ r.bank # bank THEN Mismatched(s) ELSE s

Sent(id) == LET s == Items[At(id)].state IN
              SetState(id, [s EXCEPT !.present = TRUE, !.sending = TRUE])
Delivered(id) == RemoveAt(Items, At(id))
Denied(id) == SetStates(LAMBDA r: [Protected(Completed(r.state)) EXCEPT
                                     !.gate = IF r.id = id THEN "probe" ELSE @])
Refused(id) == SetState(id, [Mismatched(Completed(Items[At(id)].state)) EXCEPT
                               !.quarantine = "permanent"])
\* completedReplayState: a state with nothing in it is none at all.
Emptied(s) == [s EXCEPT !.present = s # [NoState EXCEPT !.present = TRUE]]
Released(id) == SetState(id, Emptied(Completed(Items[At(id)].state)))
Counted(id) == [Items EXCEPT ![At(id)].attempts = @ + 1]
Outcomes(id) == {Delivered(id), Denied(id), Refused(id), Released(id), Counted(id)}

Made(do, id) ==
  CASE do = "snapshot" -> Items
    [] do = "prepare" -> SetStates(PreparedState)
    [] do = "name" -> [Items EXCEPT ![At(id)].named = TRUE]
    [] do = "mark" -> Sent(id)
    [] do = "deliver" -> Delivered(id)
    [] do = "deny" -> Denied(id)
    [] do = "refuse" -> Refused(id)
    [] do = "release" -> Released(id)
    [] do = "count" -> Counted(id)

\* Room is set aside when a row is marked, by setReplayStates, or is given its
\* operation id.
Changed(items) == {n \in DOMAIN items : items[n] # Items[n]}
Reserved(do, items) ==
  IF \/ do \in {"mark", "name"}
     \/ do = "prepare" /\ \E n \in Changed(items) : items[n].state.sending
  THEN ReplayOutcomeHeadroom(items) ELSE 0

\* snapshot rewrites if there is junk, prepareQueue if a state changes.
NothingToDo(do, items) ==
  \/ do = "snapshot" /\ JunkOf(lines) = <<>>
  \/ do \in {"prepare", "name"} /\ Changed(items) = {}

-----------------------------------------------------------------------------
(* Operations, made of stages, under the mutation lock *)

Idle == [point |-> "idle", todo |-> <<>>, items |-> <<>>, reserved |-> 0]
Init ==
  /\ lines \in StartFiles /\ limit \in Limits /\ FileBytes(lines) <= limit
  /\ generation = 1 /\ recovery = [g \in 1..MaxGenerations |-> <<>>]
  /\ op = Idle /\ bank \in Banks /\ flushing = FALSE /\ answered = {}
  /\ accepted = {lines[n].id : n \in {m \in DOMAIN lines : ~lines[m].junk}}
  /\ junked = ToSet(JunkOf(lines)) /\ crashes = 0 /\ reroutes = 0

file == <<lines, generation>>
history == <<accepted, junked, answered>>
outside == <<bank, limit, reroutes, crashes>>

Stage(do, id) == <<do, id>>
Turn(todo) == IF todo = <<>> THEN Idle ELSE [Idle EXCEPT !.point = "next", !.todo = todo]
Start(stages) == op = Idle /\ op' = Turn(stages)
Do(do) == op.point = "next" /\ op.todo[1][1] = do

\* writeAll begins with the junk; the operation's next stages wait.
Rewriting(items, reserved, todo) ==
  [point |-> IF JunkOf(lines) = <<>> THEN "replace" ELSE "preserve",
   todo |-> todo, items |-> items, reserved |-> reserved]
Rewrite ==
  /\ op.point = "next" /\ op.todo[1][1] \notin {"append", "flush"}
  /\ LET do == op.todo[1][1]
         items == Made(do, op.todo[1][2]) IN
       op' = IF NothingToDo(do, items) THEN Turn(Tail(op.todo))
             ELSE Rewriting(items, Reserved(do, items), Tail(op.todo))
  /\ UNCHANGED <<file, recovery, history, flushing, outside>>

\* preserveCorruptRecords: the snapshot of this generation, which may hold a
\* part already, is replaced by a rename.  The prior one must be a prefix.
SnapshotFits == JunkOf(lines) = <<>> \/ IsPrefix(recovery[generation], JunkOf(lines))
Preserve ==
  /\ op.point = "preserve"
  /\ IF SnapshotFits
     THEN /\ recovery' = [recovery EXCEPT ![generation] = JunkOf(lines)]
          /\ op' = [op EXCEPT !.point = "replace"]
     ELSE op' = Idle /\ UNCHANGED recovery
  /\ UNCHANGED <<file, history, flushing, outside>>

\* An empty queue is removed; one that would not be readable is left as it is;
\* else a temporary file takes its name.
TooLong(items, reserved) == items # <<>> /\ FileBytes(items) + reserved > limit
Replace ==
  /\ op.point = "replace" /\ generation < MaxGenerations
  /\ IF TooLong(op.items, op.reserved)
     THEN op' = Idle /\ UNCHANGED file
     ELSE /\ lines' = op.items /\ generation' = generation + 1
          /\ op' = Turn(op.todo)
  /\ UNCHANGED <<recovery, history, flushing, outside>>

\* assertAppend: every line has 256 bytes set aside for its metadata.
ReplayMetadataBytes == 256
AppendFits(row) ==
  FileBytes(lines) + LineBytes(row) + (Len(lines) + 1) * ReplayMetadataBytes <= limit

\* What the file holds with a row written behind the last line: a line that
\* was not ended takes it in.
Joined(row) == IF lines # <<>> /\ ~Last(lines).ended
               THEN Append(Front(lines),
                           Junk(<<"joined", row.id>>, LineBytes(Last(lines)) + LineBytes(row), TRUE))
               ELSE Append(lines, row)
\* enqueue: an unterminated line is rewritten first.
RepairLine == /\ Do("append") /\ Unterminated
              /\ op' = Rewriting(Items, 0, op.todo)
              /\ UNCHANGED <<file, recovery, history, flushing, outside>>
AppendRow ==
  /\ Do("append") /\ ~Unterminated
  /\ LET row == op.todo[1][2] IN
       IF AppendFits(row)
       THEN /\ lines' = Joined(row) /\ accepted' = accepted \cup {row.id}
            /\ op' = Turn(Tail(op.todo))
       ELSE op' = Idle /\ UNCHANGED <<lines, accepted>>
  /\ UNCHANGED <<generation, recovery, junked, answered, flushing, outside>>

\* The process dies, or the disk fails, between two steps, or while a row is
\* written: part of it is in the file, or all but its newline.
Crash ==
  /\ op # Idle /\ crashes < MaxCrashes /\ crashes' = crashes + 1 /\ op' = Idle
  /\ UNCHANGED <<generation, recovery, accepted, answered, flushing, bank, limit, reroutes>>
  /\ \/ UNCHANGED <<lines, junked>>
     \/ /\ Do("append") /\ ~Unterminated /\ AppendFits(op.todo[1][2])
        /\ LET row == op.todo[1][2] IN
             \/ lines' = Append(lines, [row EXCEPT !.ended = FALSE]) /\ UNCHANGED junked
             \/ \E part \in {1, LineBytes(row) - 2} :
                  /\ lines' = Append(lines, Junk(<<"torn", row.id>>, part, FALSE))
                  /\ junked' = junked \cup {<<"torn", row.id>>}

-----------------------------------------------------------------------------
(* The callers: retain-coordinator.ts *)

Prepare == <<Stage("snapshot", <<>>), Stage("prepare", <<>>)>>

\* The backlog is checked, a row appended, the backlog checked again.
Tried(id) == \/ <<id>> \in IdsOf(lines) \cup accepted
             \/ <<"torn", <<id>>>> \in junked
Enqueue(id) ==
  /\ ~Tried(id)
  /\ Start(Prepare \o <<Stage("append", Row(<<id>>, RowBytes, bank))>> \o Prepare)
  /\ UNCHANGED <<file, recovery, history, flushing, outside>>

\* A flush prepares the queue; it goes on unless a send is unresolved.
BeginFlush == /\ ~flushing /\ SendingIds = {}
              /\ Start(Prepare \o <<Stage("flush", <<>>)>>)
              /\ UNCHANGED <<file, recovery, history, flushing, outside>>
Prepared == /\ Do("flush") /\ op' = Turn(Tail(op.todo))
            /\ flushing' = (SendingIds = {})
            /\ UNCHANGED <<file, recovery, history, outside>>

\* prepareReplayOperationIds; a lack of room is passed over.
EnsureOperationIds(id) ==
  /\ flushing /\ ~Items[At(id)].named /\ Start(<<Stage("name", id)>>)
  /\ UNCHANGED <<file, recovery, history, flushing, outside>>

MarkSending(id) ==
  LET row == Items[At(id)] IN
    /\ flushing /\ SendingIds = {}
    /\ row.state.quarantine = "none" /\ row.state.gate # "operator"
    /\ \A n \in DOMAIN Items : /\ Items[n].state.gate # "none" => Items[n].id = id
                               /\ Items[n].state.quarantine = "corrupt" => n > At(id)
    /\ Start(<<Stage("snapshot", <<>>), Stage("name", id), Stage("mark", id)>>)
    /\ answered' = answered \ {id}
    /\ UNCHANGED <<file, recovery, accepted, junked, flushing, outside>>

\* The answer arrived: a transient failure is counted before the marker is
\* taken away.
MaxAttempts == 1   \* bound: failed attempts counted per row
Awaited == IF op = Idle THEN SendingIds \ answered ELSE {}
Answer(id) ==
  /\ flushing /\ id \in Awaited /\ answered' = answered \cup {id}
  /\ \/ /\ \E do \in {"deny", "refuse", "release"} : Start(<<Stage(do, id)>>)
        /\ UNCHANGED accepted
     \/ Start(<<Stage("deliver", id)>>) /\ accepted' = accepted \ {id}
     \/ /\ Items[At(id)].attempts < MaxAttempts
        /\ Start(<<Stage("count", id), Stage("release", id)>>) /\ UNCHANGED accepted
  /\ UNCHANGED <<file, recovery, junked, flushing, outside>>

\* The flush ends, or dies, and with it whoever waits for the answer.
EndFlush == /\ flushing /\ op = Idle /\ flushing' = FALSE /\ answered' = answered \cup SendingIds
            /\ UNCHANGED <<file, recovery, op, accepted, junked, outside>>

Reroute == /\ reroutes < MaxReroutes /\ reroutes' = reroutes + 1
           /\ bank' \in Banks \ {bank}
           /\ UNCHANGED <<file, recovery, op, flushing, limit, history, crashes>>

Next ==
  \/ Rewrite \/ Preserve \/ Replace \/ RepairLine \/ AppendRow \/ Crash
  \/ BeginFlush \/ Prepared \/ EndFlush \/ Reroute
  \/ \E id \in NewRows : Enqueue(id)
  \/ \E id \in IdsOf(Items) : EnsureOperationIds(id) \/ MarkSending(id) \/ Answer(id)

Spec == Init /\ [][Next]_vars

-----------------------------------------------------------------------------
(* Properties *)

\* Types of the file and of the operation under way.
TypeOK ==
  /\ generation \in 1..MaxGenerations
  /\ \A n \in DOMAIN lines : lines[n].ended \/ n = Len(lines)
  /\ op.point \in {"idle", "next", "preserve", "replace"}
  /\ Cardinality(IdsOf(lines)) = Len(lines)

\* No acknowledged row is lost or taken in by a torn line, and no junk either:
\* it is in the file or in a snapshot, through a crash at any step.
NothingLost ==
  /\ accepted \subseteq IdsOf(lines)
  /\ junked \subseteq IdsOf(lines) \cup UNION {ToSet(recovery[g]) : g \in DOMAIN recovery}

\* Every synthetic row in the file names bytes its snapshot holds, no two rows
\* of a snapshot the same ones, and a snapshot never bars the next rewrite.
BarriersHaveBytes ==
  /\ \A n \in DOMAIN lines : LET range == lines[n].range IN
       range # NoRange => /\ range.offset + range.length <= Len(recovery[range.source])
                          /\ \A m \in 1..n-1 : lines[m].range.source = range.source
                               => lines[m].range.offset + lines[m].range.length <= range.offset
  /\ SnapshotFits

\* Once a row is marked as being sent, whatever the answer and whatever was
\* appended, torn or quarantined meanwhile, the answer can be recorded.
OutcomeFits ==
  \A id \in Awaited : \A items \in Outcomes(id) : ~TooLong(items, 0)
=============================================================================
