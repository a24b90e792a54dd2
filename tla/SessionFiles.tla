---------------------------- MODULE SessionFiles ----------------------------
(***************************************************************************)
(* Two more files the hook processes of a session share: the directory the *)
(* session started in, which decides the bank (sessionRootDir), and the    *)
(* journal that stands in for a transcript where the host keeps none       *)
(* (core/turn-journal.ts): the prompt hook appends what the user said, the *)
(* Stop hook what the assistant replied.  A host may deliver one Stop more *)
(* than once, processes overlap, and one may be killed while it writes.    *)
(***************************************************************************)
EXTENDS Integers, Sequences, Lists

CONSTANTS
  Slots,     \* processes at a time
  Dirs,      \* working directories the agent moves between
  NoDir,     \* no root recorded
  Texts,     \* what is said
  MaxEvents, \* bound: events of the host
  MaxLines   \* JOURNAL_MAX_BYTES, in lines

VARIABLES
  root,     \* the session's .root file
  journal,  \* lines: [turn, form], "whole", "bare" (no newline), "part" or "bad"
  hook,     \* [Slots -> the process in the slot]
  said,     \* history: the conversation
  events,   \* number of events
  overlap   \* history: two processes were in the journal, or in its order, at once

vars == <<root, journal, hook, said, events, overlap>>

Gone == [point |-> "none"]
NoTurn == [role |-> "none", text |-> "none"]
Points == {"new", "unrecorded", "rooted", "appending"}

Init == /\ root = NoDir /\ journal = <<>> /\ said = <<>> /\ events = 0 /\ overlap = FALSE
        /\ hook = [s \in Slots |-> Gone]

At(s, point) == hook[s].point = point
Go(s, process) == hook' = [hook EXCEPT ![s] = process]

\* The host runs a hook: for a new prompt or reply, or again for the last one.
Event(s, turn, dir, again) ==
  /\ At(s, "none") /\ events < MaxEvents
  /\ IF again THEN said # <<>> /\ Last(said) = turn /\ turn.role = "assistant" /\ UNCHANGED said
     ELSE said' = Append(said, turn)
  /\ Go(s, [point |-> "new", turn |-> turn, dir |-> dir,
            calm |-> root # NoDir /\ \A t \in Slots : ~At(t, "unrecorded")])
  /\ overlap' = (overlap \/ \E t \in Slots : ~At(t, "none"))
  /\ events' = events + 1
  /\ UNCHANGED <<root, journal>>

\* sessionRootDir: the recorded directory, or this one, which is recorded.
ReadRoot(s) ==
  /\ At(s, "new")
  /\ Go(s, IF root = NoDir THEN [hook[s] EXCEPT !.point = "unrecorded"]
           ELSE [hook[s] EXCEPT !.point = "rooted", !.dir = root])
  /\ UNCHANGED <<root, journal, said, events, overlap>>
WriteRoot(s) ==
  /\ At(s, "unrecorded")
  /\ Go(s, [hook[s] EXCEPT !.point = "rooted"])
  /\ root' \in {hook[s].dir, root}   \* best effort
  /\ UNCHANGED <<journal, said, events, overlap>>

-----------------------------------------------------------------------------
(* The journal *)

Legible(line) == line.form \in {"whole", "bare"}

\* The turns of the lines that can be read.
Told(lines) ==
  LET first[n \in 0 .. Len(lines)] ==
        IF n = 0 THEN <<>>
        ELSE IF Legible(lines[n]) THEN Append(first[n - 1], lines[n].turn) ELSE first[n - 1]
  IN first[Len(lines)]
Read == Told(journal)
Terminated == journal = <<>> \/ Last(journal).form \notin {"bare", "part"}

\* readJournalTail: the last turn that can be read.
LastTurn == IF Read = <<>> THEN NoTurn ELSE Last(Read)

\* Mutant of Repeats: a turn delivered again is appended again.
Mut_RepeatsNever(turn) == FALSE

\* appendJournalTurn reads: nothing is appended to a full journal, nor a turn
\* that repeats the last one.
Repeats(turn) == LastTurn = turn
ReadTail(s) ==
  /\ At(s, "rooted")
  /\ Go(s, IF Len(journal) >= MaxLines \/ Repeats(hook[s].turn) THEN Gone
           ELSE [point |-> "appending", turn |-> hook[s].turn, terminated |-> Terminated])
  /\ UNCHANGED <<root, journal, said, events, overlap>>

\* A record after a line that has ended, or joined to one that has not.
Joined(line, terminated) ==
  IF Terminated THEN Append(journal, line)
  ELSE IF terminated THEN Append(Front(journal), [line EXCEPT !.form =
                                   IF @ = "whole" THEN "bad" ELSE "part"])
  ELSE Append([journal EXCEPT ![Len(journal)].form = IF @ = "bare" THEN "whole" ELSE "bad"], line)

\* appendFileSync: all of the record, or, when the process is killed, the
\* record but its newline, part of it, or nothing.
AppendTurn(s, form) ==
  /\ At(s, "appending") /\ Go(s, Gone)
  /\ journal' = Joined([turn |-> hook[s].turn, form |-> form], hook[s].terminated)
  /\ UNCHANGED <<root, said, events, overlap>>
Kill(s) == ~At(s, "none") /\ Go(s, Gone) /\ UNCHANGED <<root, journal, said, events, overlap>>

Turns == [role : {"user", "assistant"}, text : Texts]
Step(s) ==
  \/ ReadRoot(s) \/ WriteRoot(s) \/ ReadTail(s) \/ Kill(s)
  \/ \E turn \in Turns, dir \in Dirs, again \in BOOLEAN : Event(s, turn, dir, again)
  \/ \E form \in {"whole", "bare", "part"} : AppendTurn(s, form)
Next == \E s \in Slots : Step(s)
Spec == Init /\ [][Next]_vars

-----------------------------------------------------------------------------
(* Properties *)

\* Types of the files and the processes.
TypeOK ==
  /\ root \in Dirs \cup {NoDir} /\ said \in Seq(Turns)
  /\ journal \in Seq([turn : Turns, form : {"whole", "bare", "part", "bad"}])
  /\ \A s \in Slots : hook[s].point \in Points \cup {"none"}
  /\ \A n \in 1..(Len(journal) - 1) : journal[n].form \in {"whole", "bad"}

\* The journal read back tells nothing that was not said, in the order it was
\* said, whatever is lost to a kill, unless two processes overlapped.
NoPhantomTurns ==
  overlap \/ \E place \in [DOMAIN Read -> DOMAIN said] :
               \A n \in DOMAIN Read : /\ Read[n] = said[place[n]]
                                      /\ \A m \in 1 .. (n - 1) : place[m] < place[n]

\* A process that began when the root was recorded, and nobody was about to
\* record another one, works for the bank of that root.
OneRoot == \A s \in Slots : At(s, "rooted") /\ hook[s].calm => hook[s].dir = root

\* What has been read once is read again, as a prefix: the cursor of the
\* write-back fingerprints it.  Only a record appended by a process that did not
\* see that the line before it lacks its newline can spoil that line.
PrefixStays == (overlap /\ ~Terminated) \/ IsPrefix(Read, Read')
PrefixKept == [][PrefixStays]_vars
=============================================================================
