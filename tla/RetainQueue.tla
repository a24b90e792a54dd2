----------------------------- MODULE RetainQueue -----------------------------
(***************************************************************************)
(* The durable retain queue of one principal, as a value: the rows of its  *)
(* JSONL file and the rewrites src/src/upstream/src/retain-queue.ts makes  *)
(* of them.                                                                *)
(*                                                                         *)
(* A queue is a function from row identities to rows.  The order of the    *)
(* lines of the file is the field pos: rewrites never reorder rows, so a   *)
(* row keeps the position it was appended at.  What RetainQueue does on    *)
(* duplicate identities (it throws) is outside this representation.        *)
(***************************************************************************)
EXTENDS Naturals, FiniteSets

CONSTANTS
  Requests,     \* retain requests made while the system runs
  Legacy,       \* rows an earlier version left in the file
  Barriers,     \* identities of rows that stand for corrupt bytes
  Docs,         \* document ids
  NoDoc,        \* the omitted document id
  DocOf,        \* the document each identity writes
  Banks,        \* bank ids
  UnknownBank,  \* the bank of a corrupt row
  FreshOps,     \* operation ids the replay can generate
  NoOp,         \* the missing operation id
  MaxReplayAttempts,  \* MAX_REPLAY_ATTEMPTS
  AttemptCap,         \* the saturation value of replayAttempts
  ReplayBatchSize     \* REPLAY_BATCH_SIZE

Writes == Requests \cup Legacy
Ids == Writes \cup Barriers
Operations == Requests \cup FreshOps

\* The identities are of three kinds, a corrupt row has no document, and the
\* values that stand for "absent" are not values of the fields they complete.
ASSUME QueueConstants ==
  /\ Requests \cap Legacy = {}
  /\ Requests \cap Barriers = {}
  /\ Legacy \cap Barriers = {}
  /\ DocOf \in [Ids -> Docs \cup {NoDoc}]
  /\ \A b \in Barriers : DocOf[b] = NoDoc
  /\ NoDoc \notin Docs
  /\ UnknownBank \notin Banks
  /\ NoOp \notin Operations
  /\ MaxReplayAttempts \in Nat \ {0}
  /\ AttemptCap \in Nat
  /\ AttemptCap >= MaxReplayAttempts
  /\ ReplayBatchSize \in Nat \ {0}

-----------------------------------------------------------------------------
(***************************************************************************)
(* RetainReplayState.  "present" tells an undefined replayState from an    *)
(* empty one: an operator who removes the last field of a state leaves     *)
(* "{}", which exempts the row from expiry and abandonment.                *)
(***************************************************************************)
ReplayState ==
  [ present    : BOOLEAN,
    quarantine : {"none", "permanent", "bank-mismatch", "corrupt"},
    gate       : {"none", "probe", "operator"},
    sending    : BOOLEAN,
    protected  : BOOLEAN ]

NoState ==
  [ present |-> FALSE, quarantine |-> "none", gate |-> "none",
    sending |-> FALSE, protected |-> FALSE ]

Row ==
  [ pos      : Nat,
    bank     : Banks \cup {UnknownBank},
    op       : Operations \cup {NoOp},
    attempts : Nat,
    old      : BOOLEAN,      \* createdAt is before the expiry cutoff
    state    : ReplayState ]

IsQueue(q) ==
  /\ DOMAIN q \subseteq Ids
  /\ q \in [DOMAIN q -> Row]

FreshRow(bank, op, line) ==
  [ pos |-> line, bank |-> bank, op |-> op, attempts |-> 0,
    old |-> FALSE, state |-> NoState ]

\* The barrier readAll puts in the place of a run of unreadable bytes.
CorruptRow(line) ==
  [ pos |-> line, bank |-> UnknownBank, op |-> NoOp, attempts |-> 0,
    old |-> TRUE,
    state |-> [NoState EXCEPT !.present = TRUE, !.quarantine = "corrupt"] ]

-----------------------------------------------------------------------------
(* Reading a queue *)

\* sameRetainDocument: an omitted document id is like no other, itself included.
SameRetainDocument(q, i, j) ==
  /\ DocOf[i] # NoDoc
  /\ DocOf[i] = DocOf[j]
  /\ q[i].bank = q[j].bank

Before(q, i, j) == q[i].pos < q[j].pos

Quarantined(q, i) == q[i].state.quarantine # "none"
Corrupt(q, i) == q[i].state.quarantine = "corrupt"
Gates(q) == {i \in DOMAIN q : q[i].state.gate # "none"}
Sending(q) == {i \in DOMAIN q : q[i].state.sending}

\* i is the first of the rows S in file order (Array.prototype.find).
IsFirst(q, S, i) == i \in S /\ \A j \in S : q[i].pos <= q[j].pos

\* An earlier write of the same document is still in the file.
HasPredecessor(q, i) ==
  \E j \in DOMAIN q : Before(q, j, i) /\ SameRetainDocument(q, j, i)

BehindCorrupt(q, i) == \E j \in DOMAIN q : Before(q, j, i) /\ Corrupt(q, j)

\* The rows the replay loops pass over: a quarantined row, and the later rows of
\* a document with a quarantined row or with one of the rows in "blocked".
Skipped(q, i, blocked) ==
  \/ Quarantined(q, i)
  \/ \E j \in DOMAIN q :
       /\ Before(q, j, i)
       /\ j \in blocked \/ Quarantined(q, j)
       /\ SameRetainDocument(q, j, i)

\* Both replay loops end at the first corrupt row.
Replayable(q, blocked) ==
  {i \in DOMAIN q :
     ~Corrupt(q, i) /\ ~BehindCorrupt(q, i) /\ ~Skipped(q, i, blocked)}

-----------------------------------------------------------------------------
(* Rewriting a queue *)

SetReplayState(q, i, state) == [q EXCEPT ![i].state = state]

Remove(q, i) == [j \in DOMAIN q \ {i} |-> q[j]]

Enqueue(q, i, row) ==
  [j \in DOMAIN q \cup {i} |-> IF j = i THEN row ELSE q[j]]

\* ensureOperationIds and ensureOperationId: a row that has an id keeps it.
EnsureOperationIds(q, plan) ==
  [i \in DOMAIN q |->
     IF i \in DOMAIN plan /\ q[i].op = NoOp
     THEN [q[i] EXCEPT !.op = plan[i]]
     ELSE q[i]]

IncrementReplayAttempts(q, i) ==
  [q EXCEPT ![i].attempts = IF @ < AttemptCap THEN @ + 1 ELSE AttemptCap]

\* completedReplayState: the durable state of the row without the sending
\* marker; undefined only if nothing is left and the row had no state before.
CompletedReplayState(current, before) ==
  LET kept == \/ current.quarantine # "none"
              \/ current.gate # "none"
              \/ current.protected
  IN [current EXCEPT !.sending = FALSE, !.present = kept \/ before.present]

Quarantine(state, kind) ==
  [state EXCEPT !.present = TRUE,
                !.quarantine = kind,
                !.gate = IF @ = "none" THEN "none" ELSE "operator"]

Protect(state) == [state EXCEPT !.present = TRUE, !.protected = TRUE]

\* Mutant of PrepareQueue: the backlog behind a gate is not protected.
Mut_PrepareQueueUnprotected(q, bank) ==
  [i \in DOMAIN q |->
     [q[i] EXCEPT !.state =
        IF @.quarantine = "none" /\ q[i].bank # bank
        THEN Quarantine(@, "bank-mismatch")
        ELSE @]]

\* prepareQueue: behind a gate every row becomes protected, and every row of a
\* bank other than the current one is quarantined.
PreparedState(q, i, bank) ==
  LET s == IF Gates(q) # {} THEN Protect(q[i].state) ELSE q[i].state
  IN IF s.quarantine = "none" /\ q[i].bank # bank
     THEN Quarantine(s, "bank-mismatch")
     ELSE s

PrepareQueue(q, bank) ==
  [i \in DOMAIN q |-> [q[i] EXCEPT !.state = PreparedState(q, i, bank)]]

\* The row outlives its age: cleanup keeps it whatever its createdAt.
KeptByCleanup(q, i) ==
  \/ Gates(q) # {}
  \/ Sending(q) # {}
  \/ Corrupt(q, i) \/ BehindCorrupt(q, i)
  \/ q[i].state.present
  \/ \E j \in DOMAIN q :
       Before(q, j, i) /\ q[j].state.present /\ SameRetainDocument(q, j, i)

Cleanup(q) ==
  [i \in {j \in DOMAIN q : KeptByCleanup(q, j) \/ ~q[j].old} |-> q[i]]

\* The state update of a replay that was denied: one rewrite that closes the
\* gate on the denied row, protects the whole backlog and clears the marker.
DeniedState(s, owner) ==
  [Protect(s) EXCEPT !.sending = FALSE, !.gate = IF owner THEN "probe" ELSE @]

DenyReplay(q, denied) ==
  [i \in DOMAIN q |-> [q[i] EXCEPT !.state = DeniedState(@, i = denied)]]
=============================================================================
