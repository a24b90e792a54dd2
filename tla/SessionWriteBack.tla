--------------------------- MODULE SessionWriteBack ---------------------------
(***************************************************************************)
(* The write-back of one coding session into its conversation document     *)
(* (core/chat.ts, core/retain-cursor.ts, core/retain-hook.ts): a cursor    *)
(* kept between write-backs says how much of the transcript the document   *)
(* holds, so that a write-back appends the new turns, replays appends      *)
(* whose outcome it never learnt, or replaces the document when the cursor *)
(* cannot be trusted.                                                      *)
(*                                                                         *)
(* A turn is a number, drawn in the order turns are written, so the        *)
(* fingerprint of a prefix is the prefix.  An operation's id is a hash of  *)
(* bank, mode and content: the record of the three.  The server performs   *)
(* the operations of a bank in the order it accepted them, in the          *)
(* background, and collapses a repeated id into the first operation.       *)
(* Left out: a session that several transcript files tell of, whose turns  *)
(* writeSession puts together, or refuses to, before any of this.          *)
(***************************************************************************)
EXTENDS Naturals, Lists

CONSTANTS
  Hooks,             \* write-backs that can be under way at a time
  Banks,
  NoCursor,          \* no cursor is stored
  MaxTurns,          \* bound: turns ever written, rewritten ones included
  MaxMoves,          \* bound: changes of the session's bank
  MaxCursorOps,      \* MAX_CURSOR_OPS
  RetryAttempts,     \* RETAIN_RETRY_ATTEMPTS
  CursorWritesFail   \* the cursor's file may be impossible to write

\* The modules that instantiate this one assume it.
WriteBackConstants ==
  /\ MaxTurns \in Nat /\ MaxMoves \in Nat /\ RetryAttempts \in Nat
  /\ MaxCursorOps \in Nat \ {0}
  /\ CursorWritesFail \in BOOLEAN

VARIABLES
  transcript,  \* the session's turns
  made,        \* turns written so far
  bank,        \* the bank the session's directory maps to
  moves,       \* changes of it so far
  cursor,      \* the stored cursor
  pc, work,    \* control point and locals of a write-back
  document,    \* per bank: the turns stored
  inbox,       \* per bank: accepted operations, not yet performed
  status,      \* operations the server knows
  forgotten    \* history: operations no longer tracked, their outcome unknown

sessionVars == <<transcript, made, bank, moves>>
serverVars == <<document, inbox, status>>
vars == <<sessionVars, cursor, pc, work, serverVars, forgotten>>

-----------------------------------------------------------------------------
(* Cursors and operations *)

Turns == 1 .. MaxTurns

Operation(b, append, content) ==
  [bank |-> b, append |-> append, content |-> content]

Cursor(upto, b, append, dirty, pending, ops) ==
  [upto |-> upto, bank |-> b, append |-> append, dirty |-> dirty,
   pending |-> pending, ops |-> ops]

\* The locals of a write-back that has read its session; one it has no more use
\* for goes back to what it is here.
Locals(turns, b, c) ==
  [turns |-> turns, bank |-> b, cursor |-> c, append |-> c # NoCursor /\ c.append,
   ops |-> <<>>, queue |-> <<>>, attempts |-> 0]

Idle == Locals(<<>>, NoCursor, NoCursor)

StatusOf(op) == IF op \in DOMAIN status THEN status[op] ELSE "not_found"

\* The store is best-effort: a write that fails leaves the old cursor.
WriteCursor(c) ==
  \/ cursor' = c
  \/ CursorWritesFail /\ UNCHANGED cursor

At(h, point) == pc[h] = point

Goto(h, point) == pc' = [pc EXCEPT ![h] = point]

Set(h, w) == work' = [work EXCEPT ![h] = w]

Finish(h) == Goto(h, "idle") /\ Set(h, Idle)

-----------------------------------------------------------------------------
(* planRetain *)

\* The transcript extends what was written.
Continues(turns, c) == IsPrefix(c.upto, turns)

\* Mutant of Trusted: an operation that failed is not repaired.
Mut_TrustedThoughDirty(w, expired) ==
  /\ w.append /\ w.cursor # NoCursor
  /\ ~expired
  /\ w.cursor.bank = w.bank
  /\ Continues(w.turns, w.cursor)

\* The document can be appended to: every doubt makes the plan a replacement.
\* Buffered appends are too old, or too many, to be replayed if expired.
Trusted(w, expired) ==
  /\ w.append /\ w.cursor # NoCursor
  /\ ~w.cursor.dirty
  /\ ~expired
  /\ w.cursor.bank = w.bank
  /\ Continues(w.turns, w.cursor)

\* The appends a write-back sends: what is buffered, then what is new.
AppendQueue(w) ==
  w.cursor.pending \o
    IF Len(w.turns) = Len(w.cursor.upto) THEN <<>>
    ELSE <<Operation(w.bank, TRUE,
             SubSeq(w.turns, Len(w.cursor.upto) + 1, Len(w.turns)))>>

\* The cursor once everything planned is done, but for ops and pending.
Position(w, dirty, pending, ops) ==
  Cursor(w.turns, w.bank, w.append, dirty, pending, ops)

-----------------------------------------------------------------------------
(* writeSession *)

\* Capability and operations belong to the bank the cursor was kept for.
UsableCursor(b) ==
  IF cursor # NoCursor /\ cursor.bank = b THEN cursor ELSE NoCursor

\* A cached "yes" spares the probe; operations are checked if they can matter.
AfterProbe(w) ==
  IF w.append /\ w.cursor # NoCursor /\ ~w.cursor.dirty /\ w.cursor.ops # <<>>
  THEN "settle" ELSE "plan"

\* Transcript, bank and cursor are read when the write-back has its turn.  A live
\* host hands its turns over before the write-back has its turn in the process's
\* chain; the chain is first in, first out and nobody else reads the transcript, so
\* that is a transcript whose later changes have not happened yet.
Start(h) ==
  /\ At(h, "idle")
  /\ transcript # <<>>
  /\ LET c == UsableCursor(bank)
         w == Locals(transcript, bank, c)
     IN /\ Set(h, w)
        /\ Goto(h, IF w.append THEN AfterProbe(w) ELSE "probe")
  /\ UNCHANGED <<sessionVars, cursor, serverVars, forgotten>>

\* A server that cannot be asked counts as one that cannot take appends.
Probe(h) ==
  /\ At(h, "probe")
  /\ \E answer \in BOOLEAN :
       LET w == [work[h] EXCEPT !.append = answer]
       IN Set(h, w) /\ Goto(h, AfterProbe(w))
  /\ UNCHANGED <<sessionVars, cursor, serverVars, forgotten>>

\* The operations among those of a set, in their order.
Among(ops, these) ==
  LET first[n \in 0 .. Len(ops)] ==
        IF n = 0 THEN <<>>
        ELSE IF ops[n] \in these THEN Append(first[n - 1], ops[n]) ELSE first[n - 1]
  IN first[Len(ops)]

\* A status that cannot be read leaves its operation tracked; an operation the
\* server does not know is taken for an old one.
SettleOps(h) ==
  /\ At(h, "settle")
  /\ \E unread \in SUBSET ToSet(work[h].cursor.ops) :
       LET ops  == work[h].cursor.ops
           lost == \E op \in ToSet(ops) \ unread : StatusOf(op) = "failed"
           unsettled == unread \cup {op \in ToSet(ops) : StatusOf(op) = "running"}
           Unknown(op) == op \notin unread /\ StatusOf(op) = "not_found"
       IN /\ Set(h, [work[h] EXCEPT
                       !.cursor.dirty = lost,
                       !.ops = IF lost THEN <<>> ELSE Among(ops, unsettled)])
          /\ forgotten' = forgotten \cup
               IF lost THEN {} ELSE {op \in ToSet(ops) : Unknown(op)}
  /\ Goto(h, "plan")
  /\ UNCHANGED <<sessionVars, cursor, serverVars>>

\* The replacement is claimed unconfirmed: nothing is buffered.
ReplaceDocument(h) ==
  /\ At(h, "plan")
  /\ LET w == work[h]
     IN /\ \E expired \in BOOLEAN :
             /\ expired => w.cursor # NoCursor /\ w.cursor.pending # <<>>
             /\ ~Trusted(w, expired)
        /\ WriteCursor(Position(w, TRUE, <<>>, <<>>))
        /\ Set(h, [w EXCEPT !.queue = <<Operation(w.bank, FALSE, w.turns)>>,
                            !.cursor = NoCursor, !.ops = <<>>])
  /\ forgotten' = {}
  /\ Goto(h, "send")
  /\ UNCHANGED <<sessionVars, serverVars>>

\* Mutant of AppendTurns: nothing is claimed before the request.
Mut_AppendTurnsUnclaimed(h) ==
  /\ At(h, "plan")
  /\ LET w == work[h]
     IN /\ Trusted(w, FALSE)
        /\ AppendQueue(w) # <<>>
        /\ Set(h, [w EXCEPT !.queue = AppendQueue(w), !.cursor = NoCursor])
  /\ Goto(h, "send")
  /\ UNCHANGED <<sessionVars, cursor, serverVars, forgotten>>

\* The position is claimed with the bytes of everything not yet confirmed.
AppendTurns(h) ==
  /\ At(h, "plan")
  /\ LET w == work[h]
     IN /\ Trusted(w, FALSE)
        /\ AppendQueue(w) # <<>>
        /\ WriteCursor(Position(w, FALSE, AppendQueue(w), w.ops))
        /\ Set(h, [w EXCEPT !.queue = AppendQueue(w), !.cursor = NoCursor])
  /\ Goto(h, "send")
  /\ UNCHANGED <<sessionVars, serverVars, forgotten>>

\* Nothing new and nothing buffered.
Skip(h) ==
  /\ At(h, "plan")
  /\ Trusted(work[h], FALSE)
  /\ AppendQueue(work[h]) = <<>>
  /\ Finish(h)
  /\ UNCHANGED <<sessionVars, cursor, serverVars, forgotten>>

-----------------------------------------------------------------------------
(* submitWithRetry and the server *)

\* The server accepts the operation, or collapses it into the one it knows.
Accept(b, op) ==
  IF op \in DOMAIN status THEN UNCHANGED <<inbox, status>>
  ELSE /\ inbox' = [inbox EXCEPT ![b] = Append(@, op)]
       /\ status' = [o \in DOMAIN status \cup {op} |->
                       IF o = op THEN "running" ELSE status[o]]

Deliver(h) ==
  /\ At(h, "send")
  /\ Accept(work[h].bank, Head(work[h].queue))
  /\ Goto(h, "confirm") /\ Set(h, [work[h] EXCEPT !.attempts = 0])
  /\ UNCHANGED <<sessionVars, cursor, document, forgotten>>

\* The client takes a 404 for success, whoever sent it.
NotFound(h) ==
  /\ At(h, "send")
  /\ Goto(h, "confirm") /\ Set(h, [work[h] EXCEPT !.attempts = 0])
  /\ UNCHANGED <<sessionVars, cursor, serverVars, forgotten>>

StillOurs(h) == cursor # NoCursor /\ cursor.upto = work[h].turns

\* The server asks to wait, and the claim is still the newest.
RateLimited(h) ==
  /\ At(h, "send")
  /\ work[h].attempts < RetryAttempts
  /\ StillOurs(h)
  /\ Set(h, [work[h] EXCEPT !.attempts = @ + 1])
  /\ UNCHANGED <<sessionVars, cursor, pc, serverVars, forgotten>>

ConfirmReplace(h) ==
  /\ At(h, "confirm")
  /\ ~Head(work[h].queue).append
  /\ WriteCursor(Position(work[h], FALSE, <<>>, work[h].queue))
  /\ Finish(h)
  /\ UNCHANGED <<sessionVars, serverVars, forgotten>>

\* Mutant of Tracked: every operation is.
Mut_TrackedAll(ops) == ops

\* The operations a cursor keeps.
Tracked(ops) == SubSeq(ops, Len(ops) - Min({Len(ops), MaxCursorOps}) + 1, Len(ops))

\* The confirmed entry leaves the buffer before the next one is sent; the oldest
\* operations are no longer tracked.
ConfirmAppend(h) ==
  /\ At(h, "confirm")
  /\ Head(work[h].queue).append
  /\ LET w    == work[h]
         all  == Append(w.ops, Head(w.queue))
         ops  == Tracked(all)
         rest == Tail(w.queue)
     IN /\ WriteCursor(Position(w, FALSE, rest, ops))
        /\ forgotten' = forgotten \cup (ToSet(all) \ ToSet(ops))
        /\ IF rest = <<>> THEN Finish(h)
           ELSE /\ Set(h, [w EXCEPT !.queue = rest, !.ops = ops])
                /\ Goto(h, "send")
  /\ UNCHANGED <<sessionVars, serverVars>>

\* The process is killed, a request is denied, unanswered or refused, or the
\* host's deadline is too near: the stored cursor is what remains.
GiveUp(h) ==
  /\ pc[h] \in {"probe", "settle", "plan", "send", "confirm"}
  /\ Finish(h)
  /\ UNCHANGED <<sessionVars, cursor, serverVars, forgotten>>

Perform(op, doc) == IF op.append THEN doc \o op.content ELSE op.content

\* The oldest accepted operation of a bank is performed, or fails.
Complete(b) ==
  /\ inbox[b] # <<>>
  /\ LET op == Head(inbox[b])
     IN /\ document' = [document EXCEPT ![b] = Perform(op, @)]
        /\ status' = [status EXCEPT ![op] = "completed"]
  /\ inbox' = [inbox EXCEPT ![b] = Tail(@)]
  /\ UNCHANGED <<sessionVars, cursor, pc, work, forgotten>>

Fail(b) ==
  /\ inbox[b] # <<>>
  /\ status' = [status EXCEPT ![Head(inbox[b])] = "failed"]
  /\ inbox' = [inbox EXCEPT ![b] = Tail(@)]
  /\ UNCHANGED <<sessionVars, cursor, pc, work, document, forgotten>>

-----------------------------------------------------------------------------
(* The session *)

WriteTurn ==
  /\ made < MaxTurns
  /\ made' = made + 1
  /\ transcript' = Append(transcript, made + 1)
  /\ UNCHANGED <<bank, moves, cursor, pc, work, serverVars, forgotten>>

\* A turn is edited, or the session is taken back to it and continued.
Rewrite ==
  /\ made < MaxTurns
  /\ made' = made + 1
  /\ \E k \in 1 .. Len(transcript) :
       \/ transcript' = [transcript EXCEPT ![k] = made + 1]
       \/ transcript' = Append(SubSeq(transcript, 1, k - 1), made + 1)
  /\ UNCHANGED <<bank, moves, cursor, pc, work, serverVars, forgotten>>

Move ==
  /\ moves < MaxMoves
  /\ moves' = moves + 1
  /\ bank' \in Banks \ {bank}
  /\ UNCHANGED <<transcript, made, cursor, pc, work, serverVars, forgotten>>

\* The cursor's file is cleaned up, or the process that held it ends.
LoseCursor ==
  /\ cursor # NoCursor
  /\ cursor' = NoCursor
  /\ UNCHANGED <<sessionVars, pc, work, serverVars, forgotten>>

-----------------------------------------------------------------------------
Init ==
  /\ transcript = <<>>
  /\ made = 0
  /\ bank \in Banks
  /\ moves = 0
  /\ cursor = NoCursor
  /\ pc = [h \in Hooks |-> "idle"]
  /\ work = [h \in Hooks |-> Idle]
  /\ document = [b \in Banks |-> <<>>]
  /\ inbox = [b \in Banks |-> <<>>]
  /\ status = <<>>
  /\ forgotten = {}

WriteBack(h) ==
  \/ Start(h) \/ Probe(h) \/ SettleOps(h)
  \/ ReplaceDocument(h) \/ AppendTurns(h) \/ Skip(h)
  \/ Deliver(h) \/ NotFound(h) \/ RateLimited(h)
  \/ ConfirmReplace(h) \/ ConfirmAppend(h) \/ GiveUp(h)

Next ==
  \/ \E h \in Hooks : WriteBack(h)
  \/ \E b \in Banks : Complete(b) \/ Fail(b)
  \/ WriteTurn \/ Rewrite \/ Move \/ LoseCursor

Spec == Init /\ [][Next]_vars

-----------------------------------------------------------------------------
(* Properties *)

\* A document once the operations of a sequence are performed, but for those in done.
After(doc, ops, done) ==
  LET first[n \in 0 .. Len(ops)] ==
        IF n = 0 THEN doc
        ELSE IF ops[n] \in done THEN first[n - 1] ELSE Perform(ops[n], first[n - 1])
  IN first[Len(ops)]

\* The turns a document will hold once what was accepted for it is performed.
Expected(b) == After(document[b], inbox[b], {})

\* Operations whose turns are missing though the cursor counts them.
Missing ==
  {op \in forgotten \cup ToSet(cursor.ops) :
     StatusOf(op) \in {"failed", "not_found"}}
    \cup {op \in ToSet(cursor.pending) : StatusOf(op) = "failed"}

OperationsOf(banks) == [bank : banks, append : BOOLEAN, content : Seq(Turns)]

Operations == OperationsOf(Banks)

Cursors ==
  [upto : Seq(Turns), bank : Banks, append : BOOLEAN, dirty : BOOLEAN,
   pending : Seq(Operations), ops : Seq(Operations)]

\* Every variable has its type; an operation is kept by the bank it was built
\* for, though the buffered bytes do not name it (writeSession).
TypeOK ==
  /\ transcript \in Seq(Turns) /\ made \in 0 .. MaxTurns
  /\ bank \in Banks /\ moves \in 0 .. MaxMoves
  /\ cursor \in Cursors \cup {NoCursor}
  /\ cursor # NoCursor => Len(cursor.ops) <= MaxCursorOps
  /\ pc \in [Hooks -> {"idle", "probe", "settle", "plan", "send", "confirm"}]
  /\ DOMAIN work = Hooks
  /\ document \in [Banks -> Seq(Turns)]
  /\ \A b \in Banks : inbox[b] \in Seq(OperationsOf({b}))
  /\ DOMAIN status \subseteq Operations
  /\ \A op \in DOMAIN status : status[op] \in {"running", "completed", "failed"}

\* No turn is ever stored twice: not by a replay of what the server had performed,
\* nor by an append that starts from an old position (submit, planRetain).
NoRepeatedTurns == \A b \in Banks : IsInjective(document[b])

\* "An overlapping retain sees the advanced cursor and does not re-send the same
\* slice": no turn is part of two appends the server accepted.
SlicesSentOnce ==
  \A p, q \in {op \in DOMAIN status : op.append} :
    p.bank = q.bank /\ p # q => ToSet(p.content) \cap ToSet(q.content) = {}

\* A cursor that is not dirty tells what the document will hold: the transcript
\* up to its position, with nothing missing in the middle, once the operations
\* accepted and buffered are performed, unless one of them failed or was mislaid.
CursorTellsTruth ==
  cursor # NoCursor /\ ~cursor.dirty /\ Missing = {} =>
    After(Expected(cursor.bank), cursor.pending, DOMAIN status) = cursor.upto
=============================================================================
