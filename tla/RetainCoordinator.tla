-------------------------- MODULE RetainCoordinator --------------------------
(***************************************************************************)
(* RetainCoordinator (src/src/shared/retain-coordinator.ts) for one        *)
(* principal: concurrent senders that deliver or queue a retain request    *)
(* and concurrent flushes that replay the queue, in any number of          *)
(* processes over one queue directory.                                     *)
(*                                                                         *)
(* Three OS file locks order them.  The admission lock is held by a sender *)
(* until its request is delivered or queued; the delivery lock             *)
(* (storage.replay) by whoever may talk to the server; the mutation lock   *)
(* (storage.transaction) only around a synchronous rewrite of the file,    *)
(* which is why a transaction is one step here and an HTTP request, a lock *)
(* wait or a re-read of the routing table between two transactions is not. *)
(*                                                                         *)
(* A transaction may also fail, or its process die, after any of the       *)
(* atomic rewrites it makes: Abort.                                        *)
(***************************************************************************)
EXTENDS RetainQueue

CONSTANTS
  Replayers,      \* concurrent flushes
  NoBank,         \* the principal has no write bank
  NoOne,          \* a free lock
  NoId,           \* no row
  InitialQueues,  \* the files the system may start from
  FirstLine,      \* their first free line
  MaxItems,       \* retainQueueMaxItems
  Expires,        \* retainQueueMaxAgeMs is not negative
  MaxAborts,      \* bound: crashes and storage failures in a behaviour
  MaxReroutes,    \* bound: changes of the principal's write bank
  MaxResumes      \* bound: operator repairs

Actors == Requests \cup Replayers

ASSUME CoordinatorConstants ==
  /\ Requests \cap Replayers = {}
  /\ NoBank \notin Banks \cup {UnknownBank}
  /\ NoOne \notin Actors
  /\ NoId \notin Ids
  /\ Expires \in BOOLEAN
  /\ MaxItems \in Nat
  /\ FirstLine \in Nat
  /\ MaxAborts \in Nat /\ MaxReroutes \in Nat /\ MaxResumes \in Nat
  /\ \A q \in InitialQueues :
       /\ IsQueue(q)
       /\ DOMAIN q \cap Requests = {}
       /\ \A i \in DOMAIN q :
            /\ q[i].pos \in 1 .. FirstLine - 1
            /\ q[i].state.gate # "none" => q[i].state.protected
            /\ q[i].state # NoState => q[i].state.present
            /\ \A j \in DOMAIN q : q[i].pos = q[j].pos => i = j

VARIABLES
  queue,      \* the queue file
  line,       \* position of the next appended row
  writeBank,  \* the principal's current write bank
  admission,  \* holder of .retain-admission.lock
  delivery,   \* holder of .retain-replay.lock
  pc,         \* control point of every actor
  bankOf,     \* the bank a request was resolved to (rows keep their own)
  result,     \* what retain returned to the caller of a request
  work,       \* the local variables of a flush
  tickets,    \* number of admissions so far
  turn,       \* history: the order in which requests were admitted
  applied,    \* history: writes the server has performed
  sent,       \* history: operation ids under which a write was sent
  shielded,   \* history: rows that a closed gate has protected
  budget      \* faults that may still happen

fileVars == <<queue, line>>
lockVars == <<admission, delivery>>
senderVars == <<bankOf, result, tickets, turn>>
serverVars == <<applied, sent>>
vars == <<queue, line, writeBank, admission, delivery, pc, bankOf, result,
          work, tickets, turn, applied, sent, shielded, budget>>

SenderPoints ==
  {"idle", "admitted", "exclusive", "recheck", "http", "queueing", "done"}
ReplayPoints ==
  {"idle", "begin", "ids", "probe", "batch", "check", "unroute", "mismatch",
   "http", "delivered", "denied", "permanent", "transient", "reopen"}

Results == {"none", "delivered", "queued", "failed"}

IsWork(s) ==
  /\ IsQueue(s.items)
  /\ DOMAIN s.plan \subseteq Ids
  /\ s.plan \in [DOMAIN s.plan -> FreshOps]
  /\ s \in [ items    : {s.items},            \* the rows the pass started from
             cursor   : Nat,                  \* position of the row attempted last
             blocked  : SUBSET Ids,
             attempts : Nat,
             probing  : BOOLEAN,
             target   : Ids \cup {NoId},      \* the row being delivered
             before   : ReplayState,          \* its state before it was claimed
             op       : Operations \cup {NoOp},
             plan     : {s.plan} ]

NoWork ==
  [ items |-> <<>>, cursor |-> 0, blocked |-> {}, attempts |-> 0,
    probing |-> FALSE, target |-> NoId, before |-> NoState, op |-> NoOp,
    plan |-> <<>> ]

-----------------------------------------------------------------------------
(* Helpers *)

Goto(a, point) == pc' = [pc EXCEPT ![a] = point]

\* The finally blocks of admission and replay: closing the descriptors frees
\* whichever locks the actor holds.
Unlock(a) ==
  /\ admission' = IF admission = a THEN NoOne ELSE admission
  /\ delivery' = IF delivery = a THEN NoOne ELSE delivery

Finish(r, outcome) ==
  /\ Goto(r, "done")
  /\ result' = [result EXCEPT ![r] = outcome]
  /\ Unlock(r)

EndReplay(w) ==
  /\ Goto(w, "idle")
  /\ work' = [work EXCEPT ![w] = NoWork]
  /\ Unlock(w)

\* A server that performed a write knows it under its identity.
Perform(i) == applied' = applied \cup {i}

Send(i, op) == sent' = [sent EXCEPT ![i] = @ \cup {op}]

\* randomUUID: an id no row carries and no request was ever sent under.
UnusedOps ==
  FreshOps \ (UNION {sent[i] : i \in Ids} \cup {queue[i].op : i \in DOMAIN queue})

-----------------------------------------------------------------------------
(* A sender: retain, retainAdmitted and enqueue *)

\* Mutant of Retain: admission is not serialised.
Mut_RetainUnserialised(r) ==
  /\ pc[r] = "idle"
  /\ writeBank # NoBank
  /\ Goto(r, "admitted")
  /\ bankOf' = [bankOf EXCEPT ![r] = writeBank]
  /\ tickets' = tickets + 1
  /\ turn' = [turn EXCEPT ![r] = tickets + 1]
  /\ UNCHANGED <<fileVars, lockVars, writeBank, work, result, serverVars, shielded,
                 budget>>

\* The admission lock is taken and the request is bound to the current bank.
Retain(r) ==
  /\ pc[r] = "idle"
  /\ admission = NoOne
  /\ IF writeBank = NoBank
     THEN /\ Finish(r, "failed")
          /\ UNCHANGED <<bankOf, tickets, turn>>
     ELSE /\ admission' = r
          /\ Goto(r, "admitted")
          /\ bankOf' = [bankOf EXCEPT ![r] = writeBank]
          /\ tickets' = tickets + 1
          /\ turn' = [turn EXCEPT ![r] = tickets + 1]
          /\ UNCHANGED <<result, delivery>>
  /\ UNCHANGED <<fileVars, writeBank, work, serverVars, shielded, budget>>

\* RETAIN_QUEUE_BUSY: another sender kept the admission lock for all the tries.
AdmissionTimeout(r) ==
  /\ pc[r] = "idle"
  /\ admission # NoOne
  /\ Finish(r, "failed")
  /\ UNCHANGED <<fileVars, writeBank, bankOf, work, tickets, turn, serverVars,
                 shielded, budget>>

\* Mutant of TryDelivery: the sender waits for the delivery lock.
Mut_TryDeliveryWaits(r) ==
  /\ pc[r] = "admitted"
  /\ delivery = NoOne
  /\ delivery' = r
  /\ Goto(r, "exclusive")
  /\ UNCHANGED <<fileVars, writeBank, admission, senderVars, work, serverVars,
                 shielded, budget>>

\* storage.replay does not wait: behind a busy delivery lock the request is queued.
TryDelivery(r) ==
  /\ pc[r] = "admitted"
  /\ IF delivery = NoOne
     THEN delivery' = r /\ Goto(r, "exclusive")
     ELSE Goto(r, "queueing") /\ UNCHANGED delivery
  /\ UNCHANGED <<fileVars, writeBank, admission, senderVars, work, serverVars,
                 shielded, budget>>

\* Mutants of MustQueue: one of the reasons to queue is forgotten.
Mut_MustQueueNoGate(q, r) ==
  \E i \in DOMAIN q :
    \/ q[i].state.sending \/ Corrupt(q, i)
    \/ DocOf[i] # NoDoc /\ DocOf[i] = DocOf[r] /\ q[i].bank = bankOf[r]

Mut_MustQueueNoSending(q, r) ==
  \E i \in DOMAIN q :
    \/ q[i].state.gate # "none" \/ Corrupt(q, i)
    \/ DocOf[i] # NoDoc /\ DocOf[i] = DocOf[r] /\ q[i].bank = bankOf[r]

Mut_MustQueueNoCorrupt(q, r) ==
  \E i \in DOMAIN q :
    \/ q[i].state.gate # "none" \/ q[i].state.sending
    \/ DocOf[i] # NoDoc /\ DocOf[i] = DocOf[r] /\ q[i].bank = bankOf[r]

\* The rows that make a new write wait its turn in the queue.
MustQueue(q, r) ==
  \E i \in DOMAIN q :
    \/ q[i].state.gate # "none"
    \/ q[i].state.sending
    \/ Corrupt(q, i)
    \/ DocOf[i] # NoDoc /\ DocOf[i] = DocOf[r] /\ q[i].bank = bankOf[r]

\* The file is prepared and inspected; a write that may not overtake it is queued.
Inspect(r) ==
  /\ pc[r] = "exclusive"
  /\ IF writeBank = NoBank
     THEN Finish(r, "failed") /\ UNCHANGED queue
     ELSE LET ready == PrepareQueue(queue, writeBank) IN
          /\ queue' = ready
          /\ Goto(r, IF MustQueue(ready, r) THEN "queueing" ELSE "recheck")
          /\ UNCHANGED <<lockVars, result>>
  /\ UNCHANGED <<line, writeBank, bankOf, work, tickets, turn, serverVars, shielded,
                 budget>>

\* Routing is read again after the transaction: the request is sent only to the
\* bank it was resolved to.
RecheckBank(r) ==
  /\ pc[r] = "recheck"
  /\ IF bankOf[r] = writeBank
     THEN Goto(r, "http") /\ Send(r, r) /\ UNCHANGED <<lockVars, result>>
     ELSE Finish(r, "failed") /\ UNCHANGED sent
  /\ UNCHANGED <<fileVars, writeBank, bankOf, work, tickets, turn, applied, shielded,
                 budget>>

DirectDelivered(r) ==
  /\ pc[r] = "http" /\ r \in Requests
  /\ Perform(r)
  /\ Finish(r, "delivered")
  /\ UNCHANGED <<fileVars, writeBank, bankOf, work, tickets, turn, sent, shielded,
                 budget>>

\* 401, 403 and every error that is not transient go back to the caller.
DirectRefused(r) ==
  /\ pc[r] = "http" /\ r \in Requests
  /\ Finish(r, "failed")
  /\ UNCHANGED <<fileVars, writeBank, bankOf, work, tickets, turn, serverVars,
                 shielded, budget>>

\* Mutant of DirectTransient: the locks are freed before the request is queued.
Mut_DirectTransientUnlocks(r) ==
  /\ pc[r] = "http" /\ r \in Requests
  /\ Goto(r, "queueing")
  /\ Unlock(r)
  /\ Perform(r) \/ UNCHANGED applied
  /\ UNCHANGED <<fileVars, writeBank, senderVars, work, sent, shielded, budget>>

\* A transient error; the server may have performed the write all the same.
DirectTransient(r) ==
  /\ pc[r] = "http" /\ r \in Requests
  /\ Goto(r, "queueing")
  /\ Perform(r) \/ UNCHANGED applied
  /\ UNCHANGED <<fileVars, writeBank, lockVars, senderVars, work, sent, shielded,
                 budget>>

\* The enqueue transaction: prepare, append, prepare the longer queue.
Enqueued(r) ==
  PrepareQueue(
    Enqueue(PrepareQueue(queue, writeBank), r, FreshRow(bankOf[r], r, line)),
    writeBank)

EnqueueRequest(r) ==
  /\ pc[r] = "queueing"
  /\ IF writeBank = NoBank
     THEN Finish(r, "failed") /\ UNCHANGED <<fileVars, shielded>>
     ELSE IF Cardinality(DOMAIN queue) >= MaxItems
     THEN /\ queue' = PrepareQueue(queue, writeBank)   \* RetainQueueCapacityError
          /\ Finish(r, "failed")
          /\ UNCHANGED <<line, shielded>>
     ELSE /\ queue' = Enqueued(r)
          /\ line' = line + 1
          /\ shielded' = IF Gates(queue') # {} THEN shielded \cup {r} ELSE shielded
          /\ Finish(r, "queued")
  /\ UNCHANGED <<writeBank, bankOf, work, tickets, turn, serverVars, budget>>

-----------------------------------------------------------------------------
(* A flush: flushQueueFile, replayQueue, deliverReplayBatch, deliverQueued *)

\* A queue file exists and nobody else delivers.
Flush(w) ==
  /\ pc[w] = "idle" /\ w \in Replayers
  /\ DOMAIN queue # {}
  /\ delivery = NoOne
  /\ delivery' = w
  /\ Goto(w, "begin")
  /\ UNCHANGED <<fileVars, writeBank, admission, senderVars, work, serverVars,
                 shielded, budget>>

\* Mutant of MayReplay: a closed gate is never probed.
Mut_MayReplayNoProbe(q) == Sending(q) = {} /\ Gates(q) = {}

\* No request of an earlier flush is unresolved, and the gate, if there is one,
\* may be probed.
MayReplay(q) ==
  /\ Sending(q) = {}
  /\ \A i \in Gates(q) :
       IsFirst(q, Gates(q), i) =>
         /\ q[i].state.gate = "probe"
         /\ ~Quarantined(q, i)
         /\ ~BehindCorrupt(q, i)
         /\ ~HasPredecessor(q, i)

ReplayQueue(w) ==
  /\ pc[w] = "begin"
  /\ IF writeBank = NoBank
     THEN EndReplay(w) /\ UNCHANGED queue
     ELSE LET prepared == PrepareQueue(queue, writeBank)
              ready == IF Expires THEN Cleanup(prepared) ELSE prepared
          IN /\ queue' = ready
             /\ IF MayReplay(ready)
                THEN /\ Goto(w, "ids")
                     /\ work' = [work EXCEPT ![w] =
                          [NoWork EXCEPT !.items = ready,
                                         !.probing = Gates(ready) # {}]]
                     /\ UNCHANGED lockVars
                ELSE EndReplay(w)
  /\ UNCHANGED <<line, writeBank, senderVars, serverVars, shielded, budget>>

\* The row a probe is for.
GateOwner(w, i) == IsFirst(work[w].items, Gates(work[w].items), i)

\* The rows of this pass that lack an operation id: the gate owner, then the
\* rows the batch will attempt.
MissingIds(w) ==
  LET q == work[w].items
      gate == {i \in Gates(q) : GateOwner(w, i)}
      eligible == Replayable(q, {}) \ gate
      ahead(i) == {j \in eligible : Before(q, j, i)}
      batch == {i \in eligible :
                  Cardinality(ahead(i)) + Cardinality(gate) < ReplayBatchSize}
  IN {i \in gate \cup batch : q[i].op = NoOp}

\* A rewrite that does not fit is not an error here: the ids stay planned.
PrepareReplayOperationIds(w) ==
  /\ pc[w] = "ids"
  /\ \E plan \in [MissingIds(w) -> UnusedOps] :
       /\ \A i, j \in DOMAIN plan : plan[i] = plan[j] => i = j
       /\ queue' = EnsureOperationIds(queue, plan) \/ UNCHANGED queue
       /\ work' = [work EXCEPT ![w].plan = plan]
  /\ Goto(w, IF work[w].probing THEN "probe" ELSE "batch")
  /\ UNCHANGED <<line, writeBank, lockVars, senderVars, serverVars, shielded,
                 budget>>

\* The rows this pass has yet to attempt.
Pending(w) ==
  IF work[w].attempts >= ReplayBatchSize THEN {}
  ELSE {i \in Replayable(work[w].items, work[w].blocked) :
          work[w].items[i].pos > work[w].cursor}

BatchDone(w) ==
  /\ pc[w] = "batch"
  /\ Pending(w) = {}
  /\ EndReplay(w)
  /\ UNCHANGED <<fileVars, writeBank, senderVars, serverVars, shielded, budget>>

\* deliverQueued decides on the file, not on the rows the pass started from.
MustStop(i) ==
  \/ i \notin DOMAIN queue
  \/ Sending(queue) # {}
  \/ Gates(queue) # {} /\ ~IsFirst(queue, Gates(queue), i)
  \/ queue[i].state.gate = "operator"
  \/ BehindCorrupt(queue, i)

Blocked(i) == Quarantined(queue, i) \/ HasPredecessor(queue, i)

\* The claimed row as it enters the file before its request is sent.
Claimed(i, op) ==
  LET named == EnsureOperationIds(queue, [j \in {i} |-> op])
  IN SetReplayState(named, i,
       [queue[i].state EXCEPT !.present = TRUE, !.sending = TRUE])

\* Mutant of OperationFor: an attempt always brings an id of its own.
Mut_OperationForIgnoresRow(w, i) ==
  IF i \in DOMAIN work[w].plan THEN {work[w].plan[i]} ELSE UnusedOps

OperationFor(w, i) ==
  IF queue[i].op # NoOp THEN {queue[i].op}
  ELSE IF i \in DOMAIN work[w].plan THEN {work[w].plan[i]}
  ELSE UnusedOps

\* "quarantined" and "mismatched" end a probe; a batch goes on without the row.
PassOver(w, i, attempts) ==
  IF work[w].probing
  THEN EndReplay(w)
  ELSE /\ Goto(w, "batch")
       /\ work' = [work EXCEPT ![w].blocked = @ \cup {i},
                               ![w].cursor = work[w].items[i].pos,
                               ![w].attempts = attempts,
                               ![w].target = NoId,
                               ![w].before = NoState,
                               ![w].op = NoOp]
       /\ UNCHANGED lockVars

\* Mutant of Attempt: the claim does not count the attempt.
Mut_AttemptUncounted(w, i) ==
  \/ /\ MustStop(i)
     /\ EndReplay(w)
     /\ UNCHANGED queue
  \/ /\ ~MustStop(i) /\ Blocked(i)
     /\ PassOver(w, i, work[w].attempts)
     /\ UNCHANGED queue
  \/ /\ ~MustStop(i) /\ ~Blocked(i)
     /\ \E op \in OperationFor(w, i) :
          /\ queue' = Claimed(i, op)
          /\ work' = [work EXCEPT ![w].target = i,
                                  ![w].before = queue[i].state,
                                  ![w].op = op]
     /\ Goto(w, "check")
     /\ UNCHANGED lockVars

Attempt(w, i) ==
  \/ /\ MustStop(i)
     /\ EndReplay(w)
     /\ UNCHANGED queue
  \/ /\ ~MustStop(i) /\ Blocked(i)
     /\ PassOver(w, i, work[w].attempts + 1)
     /\ UNCHANGED queue
  \/ /\ ~MustStop(i) /\ ~Blocked(i)
     /\ \E op \in OperationFor(w, i) :
          /\ queue' = Claimed(i, op)
          /\ work' = [work EXCEPT ![w].target = i,
                                  ![w].before = queue[i].state,
                                  ![w].op = op,
                                  ![w].attempts = @ + 1]
     /\ Goto(w, "check")
     /\ UNCHANGED lockVars

\* The row a flush attempts next: the owner of the gate, or the next of the batch.
NextUp(w) ==
  IF pc[w] = "probe"
  THEN {i \in Gates(work[w].items) : GateOwner(w, i)}
  ELSE {i \in Pending(w) : IsFirst(work[w].items, Pending(w), i)}

AttemptProbe(w) ==
  /\ pc[w] = "probe"
  /\ \E i \in NextUp(w) : Attempt(w, i)
  /\ UNCHANGED <<line, writeBank, senderVars, serverVars, shielded, budget>>

AttemptNext(w) ==
  /\ pc[w] = "batch"
  /\ \E i \in NextUp(w) : Attempt(w, i)
  /\ UNCHANGED <<line, writeBank, senderVars, serverVars, shielded, budget>>

\* Routing is read again after the transaction, and the request sent.
CheckBank(w) ==
  /\ pc[w] = "check"
  /\ LET i == work[w].target IN
     \/ /\ writeBank = NoBank
        /\ Goto(w, "unroute") /\ UNCHANGED sent
     \/ /\ writeBank # NoBank /\ queue[i].bank # writeBank
        /\ Goto(w, "mismatch") /\ UNCHANGED sent
     \/ /\ queue[i].bank = writeBank
        /\ Goto(w, "http") /\ Send(i, work[w].op)
  /\ UNCHANGED <<fileVars, writeBank, lockVars, senderVars, work, applied, shielded,
                 budget>>

Completed(w) ==
  CompletedReplayState(queue[work[w].target].state, work[w].before)

\* No request was sent: only the provisional marker is discarded.
Unroute(w) ==
  /\ pc[w] = "unroute"
  /\ queue' = SetReplayState(queue, work[w].target, Completed(w))
  /\ EndReplay(w)
  /\ UNCHANGED <<line, writeBank, senderVars, serverVars, shielded, budget>>

\* The quarantine is built on the state the row had before it was claimed.
Mismatch(w) ==
  /\ pc[w] = "mismatch"
  /\ queue' = SetReplayState(queue, work[w].target,
                Quarantine(work[w].before, "bank-mismatch"))
  /\ PassOver(w, work[w].target, work[w].attempts - 1)
  /\ UNCHANGED <<line, writeBank, senderVars, serverVars, shielded, budget>>

\* The server performs the write and says so.
Deliver(w) ==
  /\ pc[w] = "http" /\ w \in Replayers
  /\ Goto(w, "delivered")
  /\ Perform(work[w].target)
  /\ UNCHANGED <<fileVars, writeBank, lockVars, senderVars, work, sent, shielded,
                 budget>>

\* Any other answer, or none.  A transient error says nothing about whether the
\* write was performed.
Refuse(w) ==
  /\ pc[w] = "http" /\ w \in Replayers
  /\ \/ Goto(w, "denied") /\ UNCHANGED applied
     \/ Goto(w, "permanent") /\ UNCHANGED applied
     \/ Goto(w, "transient") /\ (Perform(work[w].target) \/ UNCHANGED applied)
  /\ UNCHANGED <<fileVars, writeBank, lockVars, senderVars, work, sent, shielded,
                 budget>>

\* The deletion of the row acknowledges it.  A probe then commits its client,
\* unless another client was built meanwhile, and the batch starts afresh.
Acknowledge(w) ==
  /\ pc[w] = "delivered"
  /\ queue' = Remove(queue, work[w].target)
  /\ IF work[w].probing
     THEN \/ EndReplay(w)
          \/ Goto(w, "reopen") /\ UNCHANGED <<lockVars, work>>
     ELSE /\ Goto(w, "batch")
          /\ work' = [work EXCEPT ![w].cursor = work[w].items[work[w].target].pos,
                                  ![w].target = NoId,
                                  ![w].before = NoState,
                                  ![w].op = NoOp]
          /\ UNCHANGED lockVars
  /\ UNCHANGED <<line, writeBank, senderVars, serverVars, shielded, budget>>

Reopen(w) ==
  /\ pc[w] = "reopen"
  /\ IF Gates(queue) # {}
     THEN EndReplay(w)
     ELSE /\ Goto(w, "batch")
          /\ work' = [work EXCEPT ![w] =
               [NoWork EXCEPT !.items = queue,
                              !.attempts = work[w].attempts,
                              !.plan = work[w].plan]]
          /\ UNCHANGED lockVars
  /\ UNCHANGED <<fileVars, writeBank, senderVars, serverVars, shielded, budget>>

Deny(w) ==
  /\ pc[w] = "denied"
  /\ queue' = DenyReplay(queue, work[w].target)
  /\ shielded' = shielded \cup DOMAIN queue
  /\ EndReplay(w)
  /\ UNCHANGED <<line, writeBank, senderVars, serverVars, budget>>

QuarantinePermanent(w) ==
  /\ pc[w] = "permanent"
  /\ queue' = SetReplayState(queue, work[w].target,
                Quarantine(Completed(w), "permanent"))
  /\ PassOver(w, work[w].target, work[w].attempts)
  /\ UNCHANGED <<line, writeBank, senderVars, serverVars, shielded, budget>>

\* Mutant of RecordTransientFailure: protection does not stop abandonment.
Mut_RecordTransientFailureAbandons(w) ==
  /\ pc[w] = "transient"
  /\ LET i == work[w].target
         counted == IncrementReplayAttempts(queue, i)
         settled == SetReplayState(counted, i, Completed(w))
     IN queue' = IF counted[i].attempts >= MaxReplayAttempts
                 THEN Remove(settled, i)
                 ELSE settled
  /\ EndReplay(w)
  /\ UNCHANGED <<line, writeBank, senderVars, serverVars, shielded, budget>>

\* Abandonment counts the failure and looks at the durable state in one
\* transaction: a row that was protected or quarantined meanwhile stays.
RecordTransientFailure(w) ==
  /\ pc[w] = "transient"
  /\ LET i == work[w].target
         counted == IncrementReplayAttempts(queue, i)
         settled == SetReplayState(counted, i, Completed(w))
     IN queue' = IF counted[i].attempts >= MaxReplayAttempts /\ ~Completed(w).present
                 THEN Remove(settled, i)
                 ELSE settled
  /\ EndReplay(w)
  /\ UNCHANGED <<line, writeBank, senderVars, serverVars, shielded, budget>>

-----------------------------------------------------------------------------
(* What happens to the actors and to the file from outside *)

\* The contents a transaction of the actor may leave behind when it fails or its
\* process dies between two of its rewrites.  An append can be torn.
PartialWrites(a) ==
  CASE pc[a] = "queueing" /\ writeBank # NoBank ->
         LET ready == PrepareQueue(queue, writeBank) IN
         {ready, Enqueue(ready, a, FreshRow(bankOf[a], a, line)), Enqueued(a)}
           \cup {Enqueue(ready, b, CorruptRow(line)) : b \in Barriers \ DOMAIN queue}
    [] pc[a] = "begin" /\ writeBank # NoBank -> {PrepareQueue(queue, writeBank)}
    [] pc[a] \in {"probe", "batch"} ->
         \* the operation id was written, the marker was not
         UNION {{EnsureOperationIds(queue, [j \in {i} |-> op]) :
                   op \in OperationFor(a, i)} :
                i \in {k \in NextUp(a) : ~MustStop(k) /\ ~Blocked(k)}}
    [] pc[a] = "delivered" ->
         \* the deletion did not commit; the outcome is classified instead
         {SetReplayState(queue, work[a].target, Completed(a))}
    [] pc[a] = "transient" ->
         LET counted == IncrementReplayAttempts(queue, work[a].target) IN
         {counted, SetReplayState(counted, work[a].target, Completed(a))}
    [] OTHER -> {}

\* The write whose request the actor has on the wire.
OnWire(a) == IF a \in Requests THEN a ELSE work[a].target

\* A storage failure or the death of the process: the locks are freed, the local
\* state is lost, and a request on the wire may or may not be performed.
Abort(a) ==
  /\ pc[a] \notin {"idle", "done"}
  /\ budget.aborts > 0
  /\ budget' = [budget EXCEPT !.aborts = @ - 1]
  /\ queue' \in {queue} \cup PartialWrites(a)
  /\ line' = IF pc[a] = "queueing" THEN line + 1 ELSE line
  /\ \/ pc[a] = "http" /\ Perform(OnWire(a))
     \/ UNCHANGED applied
  /\ IF a \in Requests
     THEN Finish(a, "failed") /\ UNCHANGED work
     ELSE EndReplay(a) /\ UNCHANGED result
  /\ UNCHANGED <<writeBank, bankOf, tickets, turn, sent, shielded>>

\* The routing table is edited.
Reroute(bank) ==
  /\ bank # writeBank
  /\ budget.reroutes > 0
  /\ budget' = [budget EXCEPT !.reroutes = @ - 1]
  /\ writeBank' = bank
  /\ UNCHANGED <<fileVars, lockVars, pc, senderVars, work, serverVars, shielded>>

\* Rows up to a position pass their age.
Age ==
  /\ Expires
  /\ \E k \in {queue[i].pos : i \in {j \in DOMAIN queue : ~queue[j].old}} :
       queue' = [i \in DOMAIN queue |->
                   [queue[i] EXCEPT !.old = @ \/ queue[i].pos <= k]]
  /\ UNCHANGED <<line, writeBank, lockVars, pc, senderVars, work, serverVars,
                 shielded, budget>>

AtRest == \A a \in Actors : pc[a] \in {"idle", "done"}

\* Operator recovery of an unresolved request, with every writer stopped: the
\* marker becomes a probe gate and the whole backlog is protected.
OperatorResume ==
  /\ AtRest
  /\ budget.resumes > 0
  /\ budget' = [budget EXCEPT !.resumes = @ - 1]
  /\ \E i \in Sending(queue) : queue' = DenyReplay(queue, i)
  /\ shielded' = shielded \cup DOMAIN queue
  /\ UNCHANGED <<line, writeBank, lockVars, pc, senderVars, work, serverVars>>

\* Nothing is left to do.
Settled ==
  /\ \A r \in Requests : pc[r] = "done"
  /\ \A w \in Replayers : pc[w] = "idle"
  /\ DOMAIN queue = {}
  /\ UNCHANGED vars

-----------------------------------------------------------------------------
Init ==
  /\ queue \in InitialQueues
  /\ line = FirstLine
  /\ writeBank \in Banks
  /\ admission = NoOne
  /\ delivery = NoOne
  /\ pc = [a \in Actors |-> "idle"]
  /\ bankOf = [r \in Requests |-> NoBank]
  /\ result = [r \in Requests |-> "none"]
  /\ work = [w \in Replayers |-> NoWork]
  /\ tickets = FirstLine
  /\ turn = [i \in Writes |-> IF i \in DOMAIN queue THEN queue[i].pos ELSE 0]
  /\ applied = {}
  /\ sent = [i \in Ids |-> {}]
  /\ shielded = {i \in DOMAIN queue : queue[i].state.protected}
  /\ budget = [aborts |-> MaxAborts, reroutes |-> MaxReroutes,
               resumes |-> MaxResumes]

SenderStep(r) ==
  \/ Retain(r) \/ AdmissionTimeout(r) \/ TryDelivery(r) \/ Inspect(r)
  \/ RecheckBank(r) \/ DirectDelivered(r) \/ DirectRefused(r) \/ DirectTransient(r)
  \/ EnqueueRequest(r)

ReplayStep(w) ==
  \/ Flush(w) \/ ReplayQueue(w) \/ PrepareReplayOperationIds(w) \/ BatchDone(w)
  \/ AttemptProbe(w) \/ AttemptNext(w) \/ CheckBank(w) \/ Unroute(w) \/ Mismatch(w)
  \/ Deliver(w) \/ Refuse(w) \/ Acknowledge(w) \/ Reopen(w) \/ Deny(w)
  \/ QuarantinePermanent(w) \/ RecordTransientFailure(w)

Environment ==
  \/ \E a \in Actors : Abort(a)
  \/ \E bank \in Banks \cup {NoBank} : Reroute(bank)
  \/ Age
  \/ OperatorResume

Next ==
  \/ \E r \in Requests : SenderStep(r)
  \/ \E w \in Replayers : ReplayStep(w)
  \/ Environment
  \/ Settled

Spec == Init /\ [][Next]_vars

\* Awaits return (requests have a timeout, locks are polled for a bounded time)
\* and the service's interval timer flushes again and again.  The server is not
\* down for ever: requests sent again and again are performed at some point.
FairSpec ==
  /\ Spec
  /\ \A r \in Requests : WF_vars(SenderStep(r))
  /\ \A w \in Replayers : WF_vars(ReplayStep(w)) /\ SF_vars(Deliver(w))

-----------------------------------------------------------------------------
(* Properties *)

\* Every variable has its type.
TypeOK ==
  /\ IsQueue(queue)
  /\ line \in Nat
  /\ writeBank \in Banks \cup {NoBank}
  /\ admission \in Requests \cup {NoOne}
  /\ delivery \in Actors \cup {NoOne}
  /\ pc \in [Actors -> SenderPoints \cup ReplayPoints]
  /\ bankOf \in [Requests -> Banks \cup {NoBank}]
  /\ result \in [Requests -> Results]
  /\ DOMAIN work = Replayers
  /\ \A w \in Replayers : IsWork(work[w])
  /\ tickets \in Nat
  /\ turn \in [Writes -> Nat]
  /\ applied \subseteq Ids
  /\ sent \in [Ids -> SUBSET Operations]
  /\ shielded \subseteq Ids
  /\ budget \in [aborts : Nat, reroutes : Nat, resumes : Nat]

\* A row whose request is unresolved pauses the principal: while its marker is in
\* the file nobody has a request on the wire but the flush that wrote the marker,
\* whether the flush lives or died (deliverQueued, retainAdmitted, replayQueue).
UnresolvedSendPauses ==
  \A i \in Sending(queue), a \in Actors :
    pc[a] = "http" => a \in Replayers /\ OnWire(a) = i

\* While an authorization gate is closed the only request on the wire is the
\* probe of the row that owns the gate (the first, if an operator left several).
GateHoldsBacklog ==
  \A a \in Actors :
    Gates(queue) # {} /\ pc[a] = "http" =>
      a \in Replayers /\ IsFirst(queue, Gates(queue), OnWire(a))

\* Nothing that lies behind a corrupt row is sent: no replayed row, and no new
\* request at all while the file has a corrupt row.
BarrierHoldsSuccessors ==
  \A i \in DOMAIN queue, a \in Actors :
    Corrupt(queue, i) /\ pc[a] = "http" =>
      a \in Replayers /\ ~BehindCorrupt(queue, OnWire(a))

\* The write i can still reach the server: its row is in the file, or its sender
\* is still at work.
Alive(i) ==
  \/ i \in DOMAIN queue
  \/ i \in Requests /\ pc[i] \in SenderPoints \ {"idle", "done"}

BankOf(i) == IF i \in DOMAIN queue THEN queue[i].bank ELSE bankOf[i]

Destination(i) ==
  IF DocOf[i] = NoDoc THEN NoDoc ELSE <<BankOf(i), DocOf[i]>>

\* Writes of one document are performed in the order their senders were admitted:
\* once a write was performed or is on the wire, no write of that document which
\* was admitted earlier can still reach the server.
OvertakenIsSettled ==
  \A i \in Writes, j \in Requests :
    /\ Alive(i) /\ 0 < turn[i] /\ turn[i] < turn[j]
    /\ DocOf[i] # NoDoc /\ DocOf[i] = DocOf[j] /\ BankOf(i) = bankOf[j]
    => /\ j \notin applied
       /\ \A a \in Actors : pc[a] = "http" => OnWire(a) # j

\* A row that a closed gate has protected is never lost: it stays in the file,
\* through retries, expiry, crashes and restarts, until the server has it.
ShieldedNotLost == shielded \subseteq DOMAIN queue \cup applied

\* Every request of a write carries one operation id, over retries, crashes and
\* restarts, also for rows that entered the file without one.
StableOperationId ==
  \A i \in Ids, u, v \in Operations : u \in sent[i] /\ v \in sent[i] => u = v

\* A row leaves the file because the server performed it, or because it was
\* unprotected and expired or was abandoned after the allowed number of retries.
RemovalIsJustified ==
  [][\A i \in DOMAIN queue \ DOMAIN queue' :
       \/ i \in applied
       \/ /\ Gates(queue) = {}
          /\ ~BehindCorrupt(queue, i) /\ ~Quarantined(queue, i)
          /\ ~HasPredecessor(queue, i) \/ Sending(queue) = {}
          /\ ~queue[i].state.protected
          /\ queue[i].old \/ queue[i].attempts + 1 >= MaxReplayAttempts]_vars

\* Every retain call returns, whatever the locks do: admission before delivery,
\* neither awaited while the other holder is on the wire (storage.replay).
RetainReturns == \A r \in Requests : <>(pc[r] = "done")

\* The marker of a request whose flush is gone.
Orphaned ==
  /\ Sending(queue) # {}
  /\ \A w \in Replayers : pc[w] \in {"idle", "begin", "ids", "probe", "batch", "reopen"}

\* Only an operator gets the row i out of the file.
NeedsOperator(i) ==
  \/ writeBank = NoBank
  \/ Orphaned
  \/ BehindCorrupt(queue, i)
  \/ Skipped(queue, i, {})
  \/ \E g \in Gates(queue) :
       /\ IsFirst(queue, Gates(queue), g)
       /\ \/ queue[g].state.gate = "operator"
          \/ Quarantined(queue, g)
          \/ BehindCorrupt(queue, g)
          \/ HasPredecessor(queue, g)

\* A queued write leaves the file in the end, also from behind a gate that the
\* server keeps closed for a while, unless it is left to an operator for good.
BacklogDrains ==
  \A i \in Writes :
    i \in DOMAIN queue ~> (i \notin DOMAIN queue \/ [](i \in DOMAIN queue => NeedsOperator(i)))

-----------------------------------------------------------------------------
(***************************************************************************)
(* The senders, the flushes and the file together implement the outbox:    *)
(* open are the writes whose sender is at work or whose row is in the      *)
(* file, pinned are the rows a gate has protected.                         *)
(***************************************************************************)
Outbox == INSTANCE RetainOutbox WITH
  Destinations <- (Banks \cup {UnknownBank}) \X Docs,
  Nowhere <- NoDoc,
  open <- [i \in {j \in Writes : Alive(j)} |-> Destination(i)],
  done <- applied \cap Writes,
  pinned <- shielded \ Barriers

\* Every step of the retain path is a step of the outbox or leaves it unchanged:
\* writes of a document are performed in order, and protected writes are not lost.
ImplementsOutbox == Outbox!OutboxSpec
=============================================================================
