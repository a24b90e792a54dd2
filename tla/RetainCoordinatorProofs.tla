------------------------ MODULE RetainCoordinatorProofs ------------------------
(***************************************************************************)
(* Proofs about RetainCoordinator, for every number of senders, flushes,   *)
(* rows and documents.  Inv is the inductive invariant: the types, what    *)
(* the two long-held locks exclude, and what a flush that has claimed a    *)
(* row, or a sender whose request is on the wire, knows of the file; on    *)
(* top of it History and Order say what has become of earlier rows.        *)
(***************************************************************************)
EXTENDS RetainCoordinator, TLAPS

-----------------------------------------------------------------------------
(* Replay states *)

\* The absent state is a state.
LEMMA NoStateType == NoState \in ReplayState
BY DEF NoState, ReplayState

\* Quarantining a row for a reason that is not corruption (prepareQueue and
\* deliverQueued) closes no gate, opens none and leaves the marker alone.
LEMMA QuarantineType ==
  ASSUME NEW s \in ReplayState, NEW kind \in {"permanent", "bank-mismatch"}
  PROVE  /\ Quarantine(s, kind) \in ReplayState
         /\ Quarantine(s, kind).sending = s.sending
         /\ Quarantine(s, kind).gate = "none" <=> s.gate = "none"
         /\ Quarantine(s, kind).quarantine = kind
BY DEF Quarantine, ReplayState

\* So does protecting it, and the quarantine stays what it was.
LEMMA ProtectType ==
  ASSUME NEW s \in ReplayState
  PROVE  /\ Protect(s) \in ReplayState
         /\ Protect(s).sending = s.sending
         /\ Protect(s).gate = s.gate
         /\ Protect(s).quarantine = s.quarantine
BY DEF Protect, ReplayState

\* completedReplayState only drops the marker.
LEMMA CompletedType ==
  ASSUME NEW s \in ReplayState, NEW before \in ReplayState
  PROVE  /\ CompletedReplayState(s, before) \in ReplayState
         /\ ~CompletedReplayState(s, before).sending
BY DEF CompletedReplayState, ReplayState

-----------------------------------------------------------------------------
(* Rewrites of one row *)

LEMMA SetReplayStateType ==
  ASSUME NEW q, IsQueue(q), NEW i \in DOMAIN q, NEW s \in ReplayState
  PROVE  /\ IsQueue(SetReplayState(q, i, s))
         /\ DOMAIN SetReplayState(q, i, s) = DOMAIN q
         /\ \A j \in DOMAIN q :
              /\ SetReplayState(q, i, s)[j].pos = q[j].pos
              /\ SetReplayState(q, i, s)[j].op = q[j].op
              /\ SetReplayState(q, i, s)[j].state = IF j = i THEN s ELSE q[j].state
BY DEF IsQueue, SetReplayState, Row

LEMMA RemoveType ==
  ASSUME NEW q, IsQueue(q), NEW i
  PROVE  /\ IsQueue(Remove(q, i))
         /\ DOMAIN Remove(q, i) = DOMAIN q \ {i}
         /\ \A j \in DOMAIN q \ {i} : Remove(q, i)[j] = q[j]
BY DEF IsQueue, Remove

LEMMA EnqueueType ==
  ASSUME NEW q, IsQueue(q), NEW i \in Ids, NEW row \in Row
  PROVE  /\ IsQueue(Enqueue(q, i, row))
         /\ DOMAIN Enqueue(q, i, row) = DOMAIN q \cup {i}
         /\ Enqueue(q, i, row)[i] = row
         /\ \A j \in DOMAIN q \ {i} : Enqueue(q, i, row)[j] = q[j]
BY DEF IsQueue, Enqueue

LEMMA IncrementType ==
  ASSUME NEW q, IsQueue(q), NEW i \in DOMAIN q
  PROVE  /\ IsQueue(IncrementReplayAttempts(q, i))
         /\ DOMAIN IncrementReplayAttempts(q, i) = DOMAIN q
         /\ \A j \in DOMAIN q :
              /\ IncrementReplayAttempts(q, i)[j].pos = q[j].pos
              /\ IncrementReplayAttempts(q, i)[j].state = q[j].state
BY QueueConstants DEF IsQueue, IncrementReplayAttempts, Row

\* New rows carry no marker and close no gate; only the barrier is corrupt.
LEMMA NewRowType ==
  ASSUME NEW at \in Nat
  PROVE  /\ CorruptRow(at) \in Row
         /\ CorruptRow(at).pos = at
         /\ ~CorruptRow(at).state.sending
         /\ CorruptRow(at).state.gate = "none"
         /\ \A bank \in Banks, op \in Operations \cup {NoOp} :
              /\ FreshRow(bank, op, at) \in Row
              /\ FreshRow(bank, op, at).pos = at
              /\ ~FreshRow(bank, op, at).state.sending
              /\ FreshRow(bank, op, at).state.gate = "none"
              /\ FreshRow(bank, op, at).state.quarantine = "none"
BY DEF CorruptRow, FreshRow, Row, NoState, ReplayState

-----------------------------------------------------------------------------
(* Rewrites of the whole file *)

LEMMA EnsureOperationIdsType ==
  ASSUME NEW q, IsQueue(q),
         NEW plan, \A i \in DOMAIN plan : plan[i] \in Operations
  PROVE  /\ IsQueue(EnsureOperationIds(q, plan))
         /\ DOMAIN EnsureOperationIds(q, plan) = DOMAIN q
         /\ \A j \in DOMAIN q :
              /\ EnsureOperationIds(q, plan)[j].pos = q[j].pos
              /\ EnsureOperationIds(q, plan)[j].state = q[j].state
BY DEF IsQueue, EnsureOperationIds, Row

LEMMA CleanupType ==
  ASSUME NEW q, IsQueue(q)
  PROVE  /\ IsQueue(Cleanup(q))
         /\ DOMAIN Cleanup(q) \subseteq DOMAIN q
         /\ \A j \in DOMAIN Cleanup(q) : Cleanup(q)[j] = q[j]
BY DEF IsQueue, Cleanup

\* The rewrites other actors make while a row is being delivered: they keep the
\* rows, their order, the markers, the gates and the barriers, and they append.
Benign(q, q2) ==
  /\ DOMAIN q \subseteq DOMAIN q2
  /\ \A i \in DOMAIN q :
       /\ q2[i].pos = q[i].pos
       /\ q2[i].state.sending = q[i].state.sending
       /\ q2[i].state.gate = "none" <=> q[i].state.gate = "none"
       /\ q2[i].state.quarantine = "corrupt" <=> q[i].state.quarantine = "corrupt"
  /\ \A i \in DOMAIN q2 \ DOMAIN q :
       /\ q2[i].state.gate = "none"
       /\ ~q2[i].state.sending
       /\ \A j \in DOMAIN q : q[j].pos < q2[i].pos

\* prepareQueue is such a rewrite, and it appends nothing.
LEMMA PrepareQueueType ==
  ASSUME NEW q, IsQueue(q), NEW bank
  PROVE  /\ IsQueue(PrepareQueue(q, bank))
         /\ DOMAIN PrepareQueue(q, bank) = DOMAIN q
         /\ Benign(q, PrepareQueue(q, bank))
<1>1. ASSUME NEW i \in DOMAIN q
      PROVE  /\ PreparedState(q, i, bank) \in ReplayState
             /\ PreparedState(q, i, bank).sending = q[i].state.sending
             /\ PreparedState(q, i, bank).gate = "none" <=> q[i].state.gate = "none"
             /\ PreparedState(q, i, bank).quarantine = "corrupt"
                  <=> q[i].state.quarantine = "corrupt"
  <2> DEFINE s == IF Gates(q) # {} THEN Protect(q[i].state) ELSE q[i].state
  <2>1. /\ q[i].state \in ReplayState
        /\ s \in ReplayState
        /\ s.sending = q[i].state.sending
        /\ s.gate = q[i].state.gate
        /\ s.quarantine = q[i].state.quarantine
    BY ProtectType DEF IsQueue, Row
  <2>2. PreparedState(q, i, bank) = IF s.quarantine = "none" /\ q[i].bank # bank
                                    THEN Quarantine(s, "bank-mismatch")
                                    ELSE s
    BY DEF PreparedState
  <2> HIDE DEF s
  <2> QED BY <2>1, <2>2, QuarantineType
<1>2. DOMAIN PrepareQueue(q, bank) = DOMAIN q
  BY DEF PrepareQueue
<1>3. ASSUME NEW i \in DOMAIN q
      PROVE  /\ PrepareQueue(q, bank)[i] \in Row
             /\ PrepareQueue(q, bank)[i].pos = q[i].pos
             /\ PrepareQueue(q, bank)[i].state = PreparedState(q, i, bank)
  BY <1>1 DEF PrepareQueue, IsQueue, Row
<1>4. IsQueue(PrepareQueue(q, bank))
  BY <1>2, <1>3 DEF IsQueue, PrepareQueue
<1>5. Benign(q, PrepareQueue(q, bank))
  BY <1>1, <1>2, <1>3 DEF Benign
<1> QED BY <1>2, <1>4, <1>5

LEMMA BenignTransitive ==
  ASSUME NEW q1, NEW q2, NEW q3, Benign(q1, q2), Benign(q2, q3)
  PROVE  Benign(q1, q3)
BY DEF Benign

\* Appending a row behind all others is such a rewrite, whatever the row.
LEMMA AppendBenign ==
  ASSUME NEW q, IsQueue(q), NEW i \in Ids \ DOMAIN q, NEW row \in Row,
         row.state.gate = "none", ~row.state.sending,
         \A j \in DOMAIN q : q[j].pos < row.pos
  PROVE  Benign(q, Enqueue(q, i, row))
<1>1. /\ DOMAIN Enqueue(q, i, row) = DOMAIN q \cup {i}
      /\ Enqueue(q, i, row)[i] = row
      /\ \A j \in DOMAIN q \ {i} : Enqueue(q, i, row)[j] = q[j]
  BY EnqueueType
<1> QED BY <1>1 DEF Benign

\* A denied probe leaves no marker behind.
LEMMA DenyReplayType ==
  ASSUME NEW q, IsQueue(q), NEW i
  PROVE  /\ IsQueue(DenyReplay(q, i))
         /\ DOMAIN DenyReplay(q, i) = DOMAIN q
         /\ \A j \in DOMAIN q : DenyReplay(q, i)[j].pos = q[j].pos
<1>1. ASSUME NEW j \in DOMAIN q
      PROVE  DeniedState(q[j].state, j = i) \in ReplayState
  <2> DEFINE s == Protect(q[j].state)
  <2>1. s \in ReplayState
    BY ProtectType DEF IsQueue, Row
  <2>2. DeniedState(q[j].state, j = i) =
          [s EXCEPT !.sending = FALSE, !.gate = IF j = i THEN "probe" ELSE @]
    BY DEF DeniedState
  <2> HIDE DEF s
  <2>3. CASE j = i
    BY <2>1, <2>2, <2>3 DEF ReplayState
  <2>4. CASE j # i
    BY <2>1, <2>2, <2>4 DEF ReplayState
  <2> QED BY <2>3, <2>4
<1>2. DOMAIN DenyReplay(q, i) = DOMAIN q
  BY DEF DenyReplay
<1>3. ASSUME NEW j \in DOMAIN q
      PROVE  /\ DenyReplay(q, i)[j] \in Row
             /\ DenyReplay(q, i)[j].pos = q[j].pos
  BY <1>1 DEF DenyReplay, IsQueue, Row
<1> QED BY <1>2, <1>3 DEF IsQueue, DenyReplay

-----------------------------------------------------------------------------
(* The inductive invariant *)

\* The points at which a flush has claimed its target and not yet settled it.
ClaimPoints ==
  {"check", "unroute", "mismatch", "http", "delivered", "denied", "permanent",
   "transient"}

\* The points at which a sender is admitted.
AdmittedPoints == {"admitted", "exclusive", "recheck", "http", "queueing"}

\* The points at which a sender may send: it has seen a clear file.
SoloPoints == {"recheck", "http"}

PointsOK ==
  /\ \A r \in Requests : pc[r] \in SenderPoints
  /\ \A w \in Replayers : pc[w] \in ReplayPoints

\* An admitted request was resolved to a bank.
BanksOK == \A r \in Requests : pc[r] \in AdmittedPoints => bankOf[r] \in Banks

\* Who is at a point that needs a lock holds it.
LocksOK ==
  /\ \A r \in Requests :
       /\ pc[r] \in AdmittedPoints => admission = r
       /\ pc[r] \in {"exclusive"} \cup SoloPoints => delivery = r
  /\ \A w \in Replayers : pc[w] # "idle" => delivery = w

\* Rows are appended after all others, and a request has one only when its
\* sender has returned.
RowsOK ==
  \A i \in DOMAIN queue :
    /\ queue[i].pos < line
    /\ i \in Requests => pc[i] = "done"

\* What a flush knows of the row it has claimed: the row stays in the file, no
\* other row carries a marker, no other row owns the gate, no barrier precedes.
Claim(s, q) ==
  /\ s.target \in DOMAIN q
  /\ s.target \in DOMAIN s.items
  /\ s.attempts > 0
  /\ s.op \in Operations
  /\ Sending(q) \subseteq {s.target}
  /\ Gates(q) # {} => IsFirst(q, Gates(q), s.target)
  /\ ~BehindCorrupt(q, s.target)

ClaimsOK ==
  \A w \in Replayers : pc[w] \in ClaimPoints => Claim(work[w], queue)

\* What a sender knows of the file from the inspection until the answer.
Clear(q) ==
  /\ Sending(q) = {}
  /\ Gates(q) = {}
  /\ \A i \in DOMAIN q : ~Corrupt(q, i)

SoloOK == \A r \in Requests : pc[r] \in SoloPoints => Clear(queue)

Inv ==
  /\ TypeOK
  /\ PointsOK
  /\ BanksOK
  /\ LocksOK
  /\ RowsOK
  /\ ClaimsOK
  /\ SoloOK

-----------------------------------------------------------------------------
(* Claims under the steps of others *)

\* A claim survives the rewrites that other actors make.
LEMMA BenignClaim ==
  ASSUME NEW q, NEW q2, IsQueue(q), IsQueue(q2), Benign(q, q2),
         NEW s, Claim(s, q)
  PROVE  Claim(s, q2)
<1>1. s.target \in DOMAIN q2 /\ q2[s.target].pos = q[s.target].pos
  BY DEF Claim, Benign
<1>2. Gates(q2) = Gates(q) /\ Sending(q2) = Sending(q)
  BY DEF Gates, Sending, Benign
<1>3. Gates(q2) # {} => IsFirst(q2, Gates(q2), s.target)
  BY <1>2 DEF Claim, IsFirst, Benign, Gates
<1>4. ASSUME NEW j \in DOMAIN q2, Before(q2, j, s.target), Corrupt(q2, j)
      PROVE  FALSE
  <2>1. CASE j \in DOMAIN q
    BY <1>4, <2>1 DEF Claim, BehindCorrupt, Before, Corrupt, Benign
  <2>2. CASE j \notin DOMAIN q
    BY <1>1, <1>4, <2>2 DEF Claim, Before, Benign, IsQueue, Row
  <2> QED BY <2>1, <2>2
<1> QED BY <1>1, <1>2, <1>3, <1>4 DEF Claim, BehindCorrupt

\* A rewrite that appends nothing leaves a clear file clear.
LEMMA BenignClear ==
  ASSUME NEW q, NEW q2, Benign(q, q2), DOMAIN q2 = DOMAIN q, Clear(q)
  PROVE  Clear(q2)
BY DEF Clear, Benign, Gates, Sending, Corrupt

\* The delivery lock has one holder.
LEMMA OneDeliverer ==
  ASSUME Inv, NEW a \in Actors, delivery = a
  PROVE  /\ \A w \in Replayers : pc[w] \in ClaimPoints => w = a
         /\ \A r \in Requests : pc[r] \in SoloPoints => r = a
BY DEF Inv, LocksOK, SoloPoints, ClaimPoints

\* The admission lock has one holder.
LEMMA OneAdmitted ==
  ASSUME Inv, NEW r \in Requests, pc[r] \in AdmittedPoints
  PROVE  \A s \in Requests : pc[s] \in AdmittedPoints => s = r
BY DEF Inv, LocksOK, SoloPoints

-----------------------------------------------------------------------------
(* Steps of senders *)

LEMMA RetainInv ==
  ASSUME Inv, NEW r \in Requests, Retain(r)
  PROVE  Inv'
<1> USE DEF Inv, Retain, Finish, Goto, Unlock, fileVars, serverVars
<1>1. TypeOK'
  BY DEF TypeOK, Actors, SenderPoints, Results, Writes
<1>2. PointsOK' /\ BanksOK' /\ LocksOK'
  BY CoordinatorConstants
  DEF PointsOK, BanksOK, LocksOK, SoloPoints, SenderPoints, AdmittedPoints, TypeOK, Actors
<1>3. RowsOK' /\ ClaimsOK' /\ SoloOK'
  BY CoordinatorConstants DEF RowsOK, ClaimsOK, SoloOK, SoloPoints, TypeOK, Actors
<1> QED BY <1>1, <1>2, <1>3

LEMMA AdmissionTimeoutInv ==
  ASSUME Inv, NEW r \in Requests, AdmissionTimeout(r)
  PROVE  Inv'
<1> USE DEF Inv, AdmissionTimeout, Finish, Goto, Unlock, Perform, fileVars, lockVars,
            senderVars, serverVars
<1>1. TypeOK'
  BY DEF TypeOK, Actors, SenderPoints, Results, Ids, Writes
<1>2. PointsOK' /\ BanksOK' /\ LocksOK'
  BY CoordinatorConstants
  DEF PointsOK, BanksOK, LocksOK, SoloPoints, SenderPoints, AdmittedPoints, TypeOK, Actors
<1>3. RowsOK' /\ ClaimsOK' /\ SoloOK'
  BY CoordinatorConstants DEF RowsOK, ClaimsOK, SoloOK, SoloPoints, TypeOK, Actors
<1> QED BY <1>1, <1>2, <1>3

LEMMA TryDeliveryInv ==
  ASSUME Inv, NEW r \in Requests, TryDelivery(r)
  PROVE  Inv'
<1> USE DEF Inv, TryDelivery, Finish, Goto, Unlock, Perform, fileVars, lockVars,
            senderVars, serverVars
<1>1. TypeOK'
  BY DEF TypeOK, Actors, SenderPoints, Results, Ids, Writes
<1>2. PointsOK' /\ BanksOK' /\ LocksOK'
  BY CoordinatorConstants
  DEF PointsOK, BanksOK, LocksOK, SoloPoints, SenderPoints, AdmittedPoints, TypeOK, Actors
<1>3. RowsOK' /\ ClaimsOK' /\ SoloOK'
  BY CoordinatorConstants DEF RowsOK, ClaimsOK, SoloOK, SoloPoints, TypeOK, Actors
<1> QED BY <1>1, <1>2, <1>3

LEMMA DirectDeliveredInv ==
  ASSUME Inv, NEW r \in Requests, DirectDelivered(r)
  PROVE  Inv'
<1> USE DEF Inv, DirectDelivered, Finish, Goto, Unlock, Perform, fileVars, lockVars,
            senderVars, serverVars
<1>1. TypeOK'
  BY DEF TypeOK, Actors, SenderPoints, Results, Ids, Writes
<1>2. PointsOK' /\ BanksOK' /\ LocksOK'
  BY CoordinatorConstants
  DEF PointsOK, BanksOK, LocksOK, SoloPoints, SenderPoints, AdmittedPoints, TypeOK, Actors
<1>3. RowsOK' /\ ClaimsOK' /\ SoloOK'
  BY CoordinatorConstants DEF RowsOK, ClaimsOK, SoloOK, SoloPoints, TypeOK, Actors
<1> QED BY <1>1, <1>2, <1>3

LEMMA DirectRefusedInv ==
  ASSUME Inv, NEW r \in Requests, DirectRefused(r)
  PROVE  Inv'
<1> USE DEF Inv, DirectRefused, Finish, Goto, Unlock, Perform, fileVars, lockVars,
            senderVars, serverVars
<1>1. TypeOK'
  BY DEF TypeOK, Actors, SenderPoints, Results, Ids, Writes
<1>2. PointsOK' /\ BanksOK' /\ LocksOK'
  BY CoordinatorConstants
  DEF PointsOK, BanksOK, LocksOK, SoloPoints, SenderPoints, AdmittedPoints, TypeOK, Actors
<1>3. RowsOK' /\ ClaimsOK' /\ SoloOK'
  BY CoordinatorConstants DEF RowsOK, ClaimsOK, SoloOK, SoloPoints, TypeOK, Actors
<1> QED BY <1>1, <1>2, <1>3

LEMMA DirectTransientInv ==
  ASSUME Inv, NEW r \in Requests, DirectTransient(r)
  PROVE  Inv'
<1> USE DEF Inv, DirectTransient, Finish, Goto, Unlock, Perform, fileVars, lockVars,
            senderVars, serverVars
<1>1. TypeOK'
  BY DEF TypeOK, Actors, SenderPoints, Results, Ids, Writes
<1>2. PointsOK' /\ BanksOK' /\ LocksOK'
  BY CoordinatorConstants
  DEF PointsOK, BanksOK, LocksOK, SoloPoints, SenderPoints, AdmittedPoints, TypeOK, Actors
<1>3. RowsOK' /\ ClaimsOK' /\ SoloOK'
  BY CoordinatorConstants DEF RowsOK, ClaimsOK, SoloOK, SoloPoints, TypeOK, Actors
<1> QED BY <1>1, <1>2, <1>3

\* The sender sees the prepared file: if it sends, the file is clear, and nobody
\* changes it while the sender holds both locks.
LEMMA InspectInv ==
  ASSUME Inv, NEW r \in Requests, Inspect(r)
  PROVE  Inv'
<1> USE DEF Inv
<1> DEFINE ready == PrepareQueue(queue, writeBank)
<1>1. IsQueue(queue) /\ pc \in [Actors -> SenderPoints \cup ReplayPoints]
  BY DEF TypeOK
<1>2. /\ IsQueue(ready)
      /\ DOMAIN ready = DOMAIN queue
      /\ Benign(queue, ready)
  BY <1>1, PrepareQueueType
<1>3. delivery = r /\ \A w \in Replayers : pc[w] \notin ClaimPoints
  BY CoordinatorConstants, OneDeliverer DEF Inspect, LocksOK, SoloPoints, AdmittedPoints, Actors
<1>4. CASE writeBank = NoBank
  <2> USE <1>4 DEF Inspect, Finish, Goto, Unlock, serverVars
  <2>1. TypeOK'
    BY DEF TypeOK, Actors, SenderPoints, Results
  <2>2. PointsOK' /\ BanksOK' /\ LocksOK'
    BY CoordinatorConstants
    DEF PointsOK, BanksOK, LocksOK, SoloPoints, SenderPoints, AdmittedPoints, TypeOK, Actors
  <2>3. RowsOK' /\ ClaimsOK' /\ SoloOK'
    BY CoordinatorConstants DEF RowsOK, ClaimsOK, SoloOK, SoloPoints, TypeOK, Actors
  <2> QED BY <2>1, <2>2, <2>3
<1>5. CASE writeBank # NoBank
  <2>1. /\ queue' = ready
        /\ \/ pc' = [pc EXCEPT ![r] = "queueing"]
           \/ /\ ~MustQueue(ready, r)
              /\ pc' = [pc EXCEPT ![r] = "recheck"]
        /\ UNCHANGED <<line, writeBank, lockVars, result, bankOf, work, tickets, turn,
                       applied, sent, shielded, budget>>
        /\ pc[r] = "exclusive"
    BY <1>5 DEF Inspect, Goto, serverVars
  <2> HIDE DEF ready
  <2> USE <2>1 DEF lockVars
  <2>2. TypeOK'
    BY <1>2 DEF TypeOK, Actors, SenderPoints, Results, Ids, Writes
  <2>3. PointsOK' /\ BanksOK' /\ LocksOK'
    BY CoordinatorConstants
    DEF PointsOK, BanksOK, LocksOK, SoloPoints, SenderPoints, AdmittedPoints, TypeOK, Actors
  <2>4. RowsOK'
    BY <1>1, <1>2 DEF RowsOK, Benign, Actors, AdmittedPoints
  <2>5. ClaimsOK'
    BY <1>1, <1>3, CoordinatorConstants DEF ClaimsOK, Actors
  <2>6. SoloOK'
    <3>1. \A s \in Requests : s # r => pc[s] \notin SoloPoints
      BY <1>3, OneDeliverer DEF Actors
    <3>2. ~MustQueue(ready, r) => Clear(ready)
      BY DEF MustQueue, Clear, Gates, Sending
    <3> QED BY <1>1, <3>1, <3>2 DEF SoloOK, SoloPoints, Actors
  <2> QED BY <2>2, <2>3, <2>4, <2>5, <2>6
<1> QED BY <1>4, <1>5

\* Nothing touches the file between the inspection and the request.
LEMMA RecheckBankInv ==
  ASSUME Inv, NEW r \in Requests, RecheckBank(r)
  PROVE  Inv'
<1> USE DEF Inv, RecheckBank, Finish, Goto, Unlock, Send, fileVars, lockVars
<1>1. TypeOK'
  BY DEF TypeOK, Actors, SenderPoints, Results, Ids, Writes, Operations
<1>2. PointsOK' /\ BanksOK' /\ LocksOK'
  BY CoordinatorConstants
  DEF PointsOK, BanksOK, LocksOK, SoloPoints, SenderPoints, AdmittedPoints, TypeOK, Actors
<1>3. RowsOK' /\ ClaimsOK' /\ SoloOK'
  BY CoordinatorConstants DEF RowsOK, ClaimsOK, SoloOK, SoloPoints, TypeOK, Actors
<1> QED BY <1>1, <1>2, <1>3

-----------------------------------------------------------------------------
(* The enqueue transaction *)

\* Appending a row to the prepared file keeps the rows' order and is benign.
LEMMA AppendRow ==
  ASSUME Inv, NEW i \in Ids \ DOMAIN queue, NEW row \in Row,
         row.state.gate = "none", ~row.state.sending, row.pos = line
  PROVE  LET q == Enqueue(PrepareQueue(queue, writeBank), i, row) IN
         /\ IsQueue(q)
         /\ DOMAIN q = DOMAIN queue \cup {i}
         /\ Benign(queue, q)
         /\ \A j \in DOMAIN q : q[j].pos < line + 1
<1> DEFINE ready == PrepareQueue(queue, writeBank)
           q == Enqueue(ready, i, row)
<1>1. /\ IsQueue(queue)
      /\ line \in Nat
      /\ \A j \in DOMAIN queue : queue[j].pos \in Nat /\ queue[j].pos < line
  BY DEF Inv, TypeOK, RowsOK, IsQueue, Row
<1>2. IsQueue(ready) /\ DOMAIN ready = DOMAIN queue /\ Benign(queue, ready)
  BY <1>1, PrepareQueueType
<1>3. \A j \in DOMAIN ready : ready[j].pos \in Nat /\ ready[j].pos < line
  BY <1>1, <1>2 DEF Benign
<1> HIDE DEF ready
<1>4. /\ IsQueue(q)
      /\ DOMAIN q = DOMAIN ready \cup {i}
      /\ q[i] = row
      /\ \A j \in DOMAIN ready \ {i} : q[j] = ready[j]
  <2>1. i \in Ids /\ row \in Row
    OBVIOUS
  <2>2. IsQueue(ready)
    BY <1>2
  <2>3. /\ IsQueue(Enqueue(ready, i, row))
        /\ DOMAIN Enqueue(ready, i, row) = DOMAIN ready \cup {i}
        /\ Enqueue(ready, i, row)[i] = row
        /\ \A j \in DOMAIN ready \ {i} : Enqueue(ready, i, row)[j] = ready[j]
    BY <2>1, <2>2, EnqueueType
  <2> QED BY <2>3
<1>5. Benign(ready, q)
  BY <1>2, <1>3, AppendBenign
<1>6. Benign(queue, q)
  BY <1>2, <1>5, BenignTransitive
<1>7. \A j \in DOMAIN q : q[j].pos < line + 1
  BY <1>1, <1>3, <1>4
<1> QED BY <1>2, <1>4, <1>6, <1>7 DEF ready

\* What the transaction may leave in the file, when it commits or is cut short.
LEMMA EnqueuedRows ==
  ASSUME Inv, NEW r \in Requests, pc[r] = "queueing"
  PROVE  LET row == FreshRow(bankOf[r], r, line)
             q == Enqueue(PrepareQueue(queue, writeBank), r, row) IN
         /\ IsQueue(q) /\ IsQueue(Enqueued(r))
         /\ DOMAIN q = DOMAIN queue \cup {r}
         /\ DOMAIN Enqueued(r) = DOMAIN queue \cup {r}
         /\ Benign(queue, q) /\ Benign(queue, Enqueued(r))
         /\ \A j \in DOMAIN q : q[j].pos < line + 1
         /\ \A j \in DOMAIN Enqueued(r) : Enqueued(r)[j].pos < line + 1
<1> DEFINE row == FreshRow(bankOf[r], r, line)
           q == Enqueue(PrepareQueue(queue, writeBank), r, row)
<1>1. r \in Ids \ DOMAIN queue
  BY DEF Inv, RowsOK, Ids, Writes
<1>2. line \in Nat /\ bankOf[r] \in Banks /\ r \in Operations \cup {NoOp}
  BY DEF Inv, TypeOK, BanksOK, AdmittedPoints, Operations
<1>3. /\ row \in Row
      /\ row.state.gate = "none"
      /\ ~row.state.sending
      /\ row.pos = line
  BY <1>2, NewRowType
<1> HIDE DEF row
<1>4. /\ IsQueue(q)
      /\ DOMAIN q = DOMAIN queue \cup {r}
      /\ Benign(queue, q)
      /\ \A j \in DOMAIN q : q[j].pos < line + 1
  BY <1>1, <1>3, AppendRow
<1>5. Enqueued(r) = PrepareQueue(q, writeBank)
  BY DEF Enqueued, row
<1> HIDE DEF q
<1>6. /\ IsQueue(Enqueued(r))
      /\ DOMAIN Enqueued(r) = DOMAIN q
      /\ Benign(q, Enqueued(r))
  BY <1>4, <1>5, PrepareQueueType
<1>7. Benign(queue, Enqueued(r))
  BY <1>4, <1>6, BenignTransitive
<1>8. \A j \in DOMAIN Enqueued(r) : Enqueued(r)[j].pos < line + 1
  BY <1>4, <1>6 DEF Benign
<1> QED BY <1>4, <1>6, <1>7, <1>8 DEF q, row

\* A sender that leaves "queueing" with a benign rewrite of the file, whether it
\* commits, finds the file full or is cut short.
LEMMA SenderWrites ==
  ASSUME Inv, NEW r \in Requests, pc[r] = "queueing",
         pc' = [pc EXCEPT ![r] = "done"], Unlock(r),
         UNCHANGED <<bankOf, work>>,
         line' \in {line, line + 1},
         IsQueue(queue'), Benign(queue, queue'),
         DOMAIN queue' \cap Requests \subseteq DOMAIN queue \cup {r},
         \A i \in DOMAIN queue' : queue'[i].pos < line'
  PROVE  /\ PointsOK' /\ BanksOK' /\ LocksOK' /\ RowsOK' /\ ClaimsOK' /\ SoloOK'
<1> USE DEF Inv
<1>1. PointsOK' /\ BanksOK' /\ LocksOK'
  BY CoordinatorConstants
  DEF PointsOK, BanksOK, LocksOK, SoloPoints, SenderPoints, AdmittedPoints, TypeOK, Actors, Unlock
<1>2. RowsOK'
  BY DEF RowsOK, TypeOK, Actors
<1>3. ClaimsOK'
  <2> SUFFICES ASSUME NEW w \in Replayers, pc[w] \in ClaimPoints
               PROVE  Claim(work[w], queue')
    BY CoordinatorConstants DEF ClaimsOK, TypeOK, Actors
  <2>1. Claim(work[w], queue) /\ IsQueue(queue)
    BY DEF ClaimsOK, TypeOK
  <2> QED BY <2>1, BenignClaim
<1>4. SoloOK'
  <2>1. \A s \in Requests : pc[s] \in SoloPoints => s = r
    BY OneAdmitted DEF AdmittedPoints, SoloPoints
  <2> QED BY <2>1 DEF SoloOK, SoloPoints, TypeOK, Actors
<1> QED BY <1>1, <1>2, <1>3, <1>4

LEMMA EnqueueRequestInv ==
  ASSUME Inv, NEW r \in Requests, EnqueueRequest(r)
  PROVE  Inv'
<1> DEFINE ready == PrepareQueue(queue, writeBank)
<1>1. /\ pc[r] = "queueing"
      /\ pc' = [pc EXCEPT ![r] = "done"]
      /\ Unlock(r)
      /\ UNCHANGED <<writeBank, bankOf, work, tickets, turn, serverVars, budget>>
      /\ \E outcome \in Results : result' = [result EXCEPT ![r] = outcome]
      /\ \/ UNCHANGED <<queue, line, shielded>>
         \/ queue' = ready /\ UNCHANGED <<line, shielded>>
         \/ /\ queue' = Enqueued(r)
            /\ line' = line + 1
            /\ shielded' \in {shielded, shielded \cup {r}}
  BY DEF EnqueueRequest, Finish, Goto, Results, fileVars
<1>2. IsQueue(queue) /\ line \in Nat
  BY DEF Inv, TypeOK
<1>3. /\ IsQueue(ready)
      /\ DOMAIN ready = DOMAIN queue
      /\ Benign(queue, ready)
  BY <1>2, PrepareQueueType
<1>4. /\ line' \in {line, line + 1}
      /\ IsQueue(queue') /\ Benign(queue, queue')
      /\ DOMAIN queue' \cap Requests \subseteq DOMAIN queue \cup {r}
      /\ \A i \in DOMAIN queue' : queue'[i].pos < line'
  <2>1. CASE UNCHANGED <<queue, line, shielded>>
    BY <1>2, <2>1 DEF Benign, Inv, RowsOK
  <2>2. CASE queue' = ready /\ UNCHANGED <<line, shielded>>
    BY <1>2, <1>3, <2>2 DEF Benign, Inv, RowsOK
  <2>3. CASE queue' = Enqueued(r) /\ line' = line + 1
    BY <1>1, <2>3, EnqueuedRows
  <2> QED BY <1>1, <2>1, <2>2, <2>3
<1> HIDE DEF ready
<1>5. TypeOK'
  BY <1>1, <1>2, <1>4
  DEF Inv, TypeOK, Actors, SenderPoints, serverVars, Unlock, Ids, Writes
<1> QED BY <1>1, <1>4, <1>5, SenderWrites DEF Inv

-----------------------------------------------------------------------------
(* Steps of flushes *)

LEMMA NoWorkType == IsWork(NoWork)
<1>1. DOMAIN <<>> = {} /\ \A S : <<>> \in [{} -> S]
  OBVIOUS
<1>2. IsQueue(<<>>)
  BY <1>1 DEF IsQueue
<1>3. NoState \in ReplayState
  BY NoStateType
<1> QED BY <1>1, <1>2, <1>3 DEF IsWork, NoWork

\* A flush that holds the delivery lock and leaves a claim, or makes none, may
\* rewrite and delete rows as it likes: nobody else has a claim.
LEMMA ReplayWrites ==
  ASSUME Inv, NEW w \in Replayers, pc[w] # "idle",
         NEW point \in ReplayPoints \ ClaimPoints,
         pc' = [pc EXCEPT ![w] = point],
         \/ point = "idle" /\ Unlock(w)
         \/ UNCHANGED lockVars,
         \A v \in Replayers \ {w} : work'[v] = work[v],
         UNCHANGED <<line, bankOf>>,
         DOMAIN queue' \subseteq DOMAIN queue,
         \A i \in DOMAIN queue' : queue'[i].pos = queue[i].pos
  PROVE  /\ PointsOK' /\ BanksOK' /\ LocksOK' /\ RowsOK' /\ ClaimsOK' /\ SoloOK'
<1> USE DEF Inv
<1>1. delivery = w
  BY DEF LocksOK, SoloPoints
<1>2. /\ \A v \in Replayers : pc[v] \in ClaimPoints => v = w
      /\ \A r \in Requests : pc[r] \notin SoloPoints
  BY <1>1, OneDeliverer, CoordinatorConstants DEF Actors
<1>3. PointsOK' /\ BanksOK' /\ LocksOK'
  BY <1>1, CoordinatorConstants
  DEF PointsOK, BanksOK, LocksOK, SoloPoints, TypeOK, Actors, Unlock, lockVars, AdmittedPoints,
      ReplayPoints
<1>4. RowsOK'
  BY CoordinatorConstants DEF RowsOK, TypeOK, Actors
<1>5. ClaimsOK'
  BY <1>2 DEF ClaimsOK, TypeOK, Actors
<1>6. SoloOK'
  BY <1>2, CoordinatorConstants DEF SoloOK, SoloPoints, TypeOK, Actors
<1> QED BY <1>3, <1>4, <1>5, <1>6

\* The types of such a step.
LEMMA ReplayTypes ==
  ASSUME TypeOK, NEW w \in Replayers, NEW point \in ReplayPoints,
         pc' = [pc EXCEPT ![w] = point],
         Unlock(w) \/ UNCHANGED lockVars,
         DOMAIN work' = Replayers,
         IsWork(work'[w]),
         \A v \in Replayers \ {w} : work'[v] = work[v],
         UNCHANGED <<line, writeBank, senderVars, budget>>,
         IsQueue(queue'), applied' \subseteq Ids, shielded' \subseteq Ids,
         sent' \in [Ids -> SUBSET Operations]
  PROVE  TypeOK'
BY DEF TypeOK, Actors, Unlock, lockVars, senderVars

\* Ending the replay is such a step.
LEMMA EndReplayInv ==
  ASSUME Inv, NEW w \in Replayers, pc[w] # "idle", EndReplay(w),
         UNCHANGED <<line, writeBank, senderVars, serverVars, budget>>,
         IsQueue(queue'), shielded' \subseteq Ids,
         DOMAIN queue' \subseteq DOMAIN queue,
         \A i \in DOMAIN queue' : queue'[i].pos = queue[i].pos
  PROVE  Inv'
<1>1. /\ pc' = [pc EXCEPT ![w] = "idle"]
      /\ Unlock(w)
      /\ DOMAIN work' = Replayers
      /\ work'[w] = NoWork
      /\ \A v \in Replayers \ {w} : work'[v] = work[v]
  BY DEF EndReplay, Goto, Inv, TypeOK
<1>2. "idle" \in ReplayPoints \ ClaimPoints
  BY DEF ReplayPoints, ClaimPoints
<1>3. PointsOK' /\ BanksOK' /\ LocksOK' /\ RowsOK' /\ ClaimsOK' /\ SoloOK'
  BY <1>1, <1>2, ReplayWrites DEF senderVars
<1>4. IsWork(work'[w])
  BY <1>1, NoWorkType
<1>5. applied' \subseteq Ids /\ sent' \in [Ids -> SUBSET Operations]
  BY DEF Inv, TypeOK, serverVars
<1>6. TypeOK'
  BY <1>1, <1>2, <1>4, <1>5, ReplayTypes DEF Inv
<1> QED BY <1>3, <1>6 DEF Inv

\* Nothing can be claimed by a flush that has not begun, and a flush begins only
\* when nobody else delivers.
LEMMA FlushInv ==
  ASSUME Inv, NEW w \in Replayers, Flush(w)
  PROVE  Inv'
<1> USE DEF Inv, Flush, Goto, fileVars, senderVars, serverVars
<1>1. TypeOK'
  BY DEF TypeOK, Actors, ReplayPoints
<1>2. PointsOK' /\ BanksOK' /\ LocksOK'
  BY CoordinatorConstants
  DEF PointsOK, BanksOK, LocksOK, SoloPoints, ReplayPoints, AdmittedPoints, TypeOK, Actors
<1>3. RowsOK' /\ ClaimsOK' /\ SoloOK'
  BY CoordinatorConstants DEF RowsOK, ClaimsOK, SoloOK, SoloPoints, TypeOK, Actors, ClaimPoints
<1> QED BY <1>1, <1>2, <1>3

LEMMA ReplayQueueInv ==
  ASSUME Inv, NEW w \in Replayers, ReplayQueue(w)
  PROVE  Inv'
<1> DEFINE prepared == PrepareQueue(queue, writeBank)
           ready == IF Expires THEN Cleanup(prepared) ELSE prepared
<1>1. IsQueue(queue)
  BY DEF Inv, TypeOK
<1>2. /\ IsQueue(prepared)
      /\ DOMAIN prepared = DOMAIN queue
      /\ Benign(queue, prepared)
  BY <1>1, PrepareQueueType
<1>3. /\ IsQueue(ready)
      /\ DOMAIN ready \subseteq DOMAIN queue
      /\ \A i \in DOMAIN ready : ready[i].pos = queue[i].pos
  <2> HIDE DEF prepared
  <2>1. CASE Expires
    BY <1>2, <2>1, CleanupType DEF Benign
  <2>2. CASE ~Expires
    BY <1>2, <2>2 DEF Benign
  <2> QED BY <2>1, <2>2
<1>4. /\ pc[w] = "begin"
      /\ UNCHANGED <<line, writeBank, senderVars, serverVars, shielded, budget>>
      /\ \/ EndReplay(w) /\ UNCHANGED queue
         \/ EndReplay(w) /\ queue' = ready
         \/ /\ queue' = ready
            /\ Goto(w, "ids")
            /\ work' = [work EXCEPT ![w] =
                 [NoWork EXCEPT !.items = ready, !.probing = Gates(ready) # {}]]
            /\ UNCHANGED lockVars
  BY DEF ReplayQueue
<1> HIDE DEF ready
<1>5. shielded' \subseteq Ids /\ applied' \subseteq Ids
      /\ sent' \in [Ids -> SUBSET Operations]
  BY <1>4 DEF Inv, TypeOK, serverVars
<1>6. CASE EndReplay(w) /\ UNCHANGED queue
  BY <1>1, <1>4, <1>5, <1>6, EndReplayInv
<1>7. CASE EndReplay(w) /\ queue' = ready
  BY <1>3, <1>4, <1>5, <1>7, EndReplayInv
<1>8. CASE /\ queue' = ready
           /\ Goto(w, "ids")
           /\ work' = [work EXCEPT ![w] =
                [NoWork EXCEPT !.items = ready, !.probing = Gates(ready) # {}]]
           /\ UNCHANGED lockVars
  <2>1. /\ "ids" \in ReplayPoints \ ClaimPoints
        /\ pc' = [pc EXCEPT ![w] = "ids"]
        /\ DOMAIN work' = Replayers
        /\ work'[w] = [NoWork EXCEPT !.items = ready, !.probing = Gates(ready) # {}]
        /\ \A v \in Replayers \ {w} : work'[v] = work[v]
    BY <1>8 DEF Goto, ReplayPoints, ClaimPoints, Inv, TypeOK
  <2>2. IsWork(work'[w])
    BY <1>3, <2>1, NoWorkType DEF IsWork, NoWork
  <2>3. TypeOK'
    BY <1>3, <1>4, <1>5, <1>8, <2>1, <2>2, ReplayTypes DEF Inv
  <2>4. PointsOK' /\ BanksOK' /\ LocksOK' /\ RowsOK' /\ ClaimsOK' /\ SoloOK'
    BY <1>3, <1>4, <1>8, <2>1, ReplayWrites DEF senderVars
  <2> QED BY <2>3, <2>4 DEF Inv
<1> QED BY <1>4, <1>6, <1>7, <1>8

LEMMA PrepareReplayOperationIdsInv ==
  ASSUME Inv, NEW w \in Replayers, PrepareReplayOperationIds(w)
  PROVE  Inv'
<1>1. PICK plan \in [MissingIds(w) -> UnusedOps] :
        /\ queue' = EnsureOperationIds(queue, plan) \/ UNCHANGED queue
        /\ work' = [work EXCEPT ![w].plan = plan]
  BY DEF PrepareReplayOperationIds
<1>2. PICK point \in {"probe", "batch"} : pc' = [pc EXCEPT ![w] = point]
  BY DEF PrepareReplayOperationIds, Goto
<1>3. /\ pc[w] = "ids"
      /\ UNCHANGED <<line, writeBank, lockVars, senderVars, serverVars, shielded,
                     budget>>
  BY DEF PrepareReplayOperationIds
<1>4. IsQueue(queue) /\ IsWork(work[w])
  BY DEF Inv, TypeOK
<1>5. /\ DOMAIN plan \subseteq Ids
      /\ plan \in [DOMAIN plan -> FreshOps]
      /\ \A i \in DOMAIN plan : plan[i] \in Operations
  <2>1. MissingIds(w) \subseteq DOMAIN work[w].items
    BY DEF MissingIds, Gates, Replayable
  <2>2. MissingIds(w) \subseteq Ids
    BY <1>4, <2>1 DEF IsWork, IsQueue
  <2>3. UnusedOps \subseteq FreshOps
    BY DEF UnusedOps
  <2> QED BY <2>2, <2>3 DEF Operations
<1>6. /\ IsQueue(queue')
      /\ DOMAIN queue' = DOMAIN queue
      /\ \A i \in DOMAIN queue : queue'[i].pos = queue[i].pos
  BY <1>1, <1>4, <1>5, EnsureOperationIdsType
<1>7. /\ point \in ReplayPoints \ ClaimPoints
      /\ DOMAIN work' = Replayers
      /\ work'[w] = [work[w] EXCEPT !.plan = plan]
      /\ \A v \in Replayers \ {w} : work'[v] = work[v]
  BY <1>1 DEF ReplayPoints, ClaimPoints, Inv, TypeOK
<1>8. IsWork(work'[w])
  BY <1>4, <1>5, <1>7 DEF IsWork
<1>9. shielded' \subseteq Ids /\ applied' \subseteq Ids
      /\ sent' \in [Ids -> SUBSET Operations]
  BY <1>3 DEF Inv, TypeOK, serverVars
<1>10. TypeOK'
  BY <1>2, <1>3, <1>6, <1>7, <1>8, <1>9, ReplayTypes DEF Inv
<1>11. PointsOK' /\ BanksOK' /\ LocksOK' /\ RowsOK' /\ ClaimsOK' /\ SoloOK'
  BY <1>2, <1>3, <1>6, <1>7, ReplayWrites DEF senderVars
<1> QED BY <1>10, <1>11 DEF Inv

LEMMA BatchDoneInv ==
  ASSUME Inv, NEW w \in Replayers, BatchDone(w)
  PROVE  Inv'
<1>1. IsQueue(queue') /\ shielded' \subseteq Ids
  BY DEF BatchDone, fileVars, Inv, TypeOK
<1> QED BY <1>1, EndReplayInv DEF BatchDone, fileVars

\* Passing over a row ends the replay or goes on with the batch.
LEMMA PassOverInv ==
  ASSUME Inv, NEW w \in Replayers, pc[w] # "idle",
         NEW i \in DOMAIN work[w].items, NEW n \in Nat, PassOver(w, i, n),
         UNCHANGED <<line, writeBank, senderVars, serverVars, shielded, budget>>,
         IsQueue(queue'),
         DOMAIN queue' \subseteq DOMAIN queue,
         \A j \in DOMAIN queue' : queue'[j].pos = queue[j].pos
  PROVE  Inv'
<1>1. shielded' \subseteq Ids /\ applied' \subseteq Ids
      /\ sent' \in [Ids -> SUBSET Operations]
  BY DEF Inv, TypeOK, serverVars
<1>2. CASE work[w].probing
  BY <1>1, <1>2, EndReplayInv DEF PassOver
<1>3. CASE ~work[w].probing
  <2>1. /\ "batch" \in ReplayPoints \ ClaimPoints
        /\ pc' = [pc EXCEPT ![w] = "batch"]
        /\ UNCHANGED lockVars
        /\ DOMAIN work' = Replayers
        /\ work'[w] = [work[w] EXCEPT !.blocked = @ \cup {i},
                                      !.cursor = work[w].items[i].pos,
                                      !.attempts = n,
                                      !.target = NoId,
                                      !.before = NoState,
                                      !.op = NoOp]
        /\ \A v \in Replayers \ {w} : work'[v] = work[v]
    BY <1>3, ZenonT(40) DEF PassOver, Goto, ReplayPoints, ClaimPoints, Inv, TypeOK
  <2>2. IsWork(work[w]) /\ i \in Ids /\ work[w].items[i].pos \in Nat
    BY DEF Inv, TypeOK, IsWork, IsQueue, Row
  <2>3. IsWork(work'[w])
    <3>1. /\ work'[w].items = work[w].items
          /\ work'[w].plan = work[w].plan
          /\ work'[w].blocked = work[w].blocked \cup {i}
      BY <2>1, <2>2 DEF IsWork
    <3> QED BY <2>1, <2>2, <3>1, NoStateType DEF IsWork
  <2>4. TypeOK'
    BY <1>1, <2>1, <2>3, ReplayTypes DEF Inv
  <2>5. PointsOK' /\ BanksOK' /\ LocksOK' /\ RowsOK' /\ ClaimsOK' /\ SoloOK'
    BY <2>1, ReplayWrites DEF senderVars
  <2> QED BY <2>4, <2>5 DEF Inv
<1> QED BY <1>2, <1>3

\* The claim of a row: the marker is the only one in the file and the row owns
\* the gate, if there is one, because MustStop has ruled out the rest.
LEMMA ClaimedRow ==
  ASSUME IsQueue(queue), NEW i \in DOMAIN queue, NEW op \in Operations
  PROVE  /\ IsQueue(Claimed(i, op))
         /\ DOMAIN Claimed(i, op) = DOMAIN queue
         /\ \A j \in DOMAIN queue :
              /\ Claimed(i, op)[j].pos = queue[j].pos
              /\ Claimed(i, op)[j].state.gate = queue[j].state.gate
              /\ Claimed(i, op)[j].state.quarantine = queue[j].state.quarantine
              /\ j # i => Claimed(i, op)[j].state = queue[j].state
<1> DEFINE plan == [j \in {i} |-> op]
           named == EnsureOperationIds(queue, plan)
           state == [queue[i].state EXCEPT !.present = TRUE, !.sending = TRUE]
<1>1. /\ IsQueue(named)
      /\ DOMAIN named = DOMAIN queue
      /\ \A j \in DOMAIN queue :
           named[j].pos = queue[j].pos /\ named[j].state = queue[j].state
  <2>1. \A j \in DOMAIN plan : plan[j] \in Operations
    OBVIOUS
  <2> QED BY <2>1, EnsureOperationIdsType
<1>2. /\ state \in ReplayState
      /\ state.gate = queue[i].state.gate
      /\ state.quarantine = queue[i].state.quarantine
  <2>1. queue[i].state \in ReplayState
    BY DEF IsQueue, Row
  <2> QED BY <2>1 DEF ReplayState
<1>3. Claimed(i, op) = SetReplayState(named, i, state)
  BY DEF Claimed
<1> HIDE DEF named, state
<1> QED BY <1>1, <1>2, <1>3, SetReplayStateType

LEMMA AttemptInv ==
  ASSUME Inv, NEW w \in Replayers, pc[w] \in {"probe", "batch"},
         NEW i \in DOMAIN work[w].items, Attempt(w, i),
         UNCHANGED <<line, writeBank, senderVars, serverVars, shielded, budget>>
  PROVE  Inv'
<1>1. /\ IsQueue(queue) /\ IsWork(work[w])
      /\ shielded' \subseteq Ids /\ applied' \subseteq Ids
      /\ sent' \in [Ids -> SUBSET Operations]
  BY DEF Inv, TypeOK, serverVars
<1>2. i \in Ids /\ work[w].attempts + 1 \in Nat
  BY <1>1 DEF IsWork, IsQueue
<1>3. CASE MustStop(i) /\ EndReplay(w) /\ UNCHANGED queue
  BY <1>1, <1>3, EndReplayInv
<1>4. CASE PassOver(w, i, work[w].attempts + 1) /\ UNCHANGED queue
  BY <1>1, <1>2, <1>4, PassOverInv
<1>5. CASE /\ ~MustStop(i)
           /\ \E op \in OperationFor(w, i) :
                /\ queue' = Claimed(i, op)
                /\ work' = [work EXCEPT ![w].target = i,
                                        ![w].before = queue[i].state,
                                        ![w].op = op,
                                        ![w].attempts = @ + 1]
           /\ Goto(w, "check")
           /\ UNCHANGED lockVars
  <2>1. PICK op \in OperationFor(w, i) :
          /\ queue' = Claimed(i, op)
          /\ work' = [work EXCEPT ![w].target = i,
                                  ![w].before = queue[i].state,
                                  ![w].op = op,
                                  ![w].attempts = @ + 1]
    BY <1>5
  <2>2. /\ i \in DOMAIN queue
        /\ Sending(queue) = {}
        /\ Gates(queue) # {} => IsFirst(queue, Gates(queue), i)
        /\ ~BehindCorrupt(queue, i)
    BY <1>5 DEF MustStop
  <2>3. op \in Operations
    <3>1. queue[i].op \in Operations \cup {NoOp}
      BY <1>1, <2>2 DEF IsQueue, Row
    <3>2. i \in DOMAIN work[w].plan => work[w].plan[i] \in FreshOps
      BY <1>1 DEF IsWork
    <3> QED BY <3>1, <3>2 DEF OperationFor, UnusedOps, Operations
  <2>4. /\ IsQueue(queue')
        /\ DOMAIN queue' = DOMAIN queue
        /\ \A j \in DOMAIN queue :
             /\ queue'[j].pos = queue[j].pos
             /\ queue'[j].state.gate = queue[j].state.gate
             /\ queue'[j].state.quarantine = queue[j].state.quarantine
             /\ j # i => queue'[j].state = queue[j].state
    BY <1>1, <2>1, <2>2, <2>3, ClaimedRow
  <2>5. /\ pc' = [pc EXCEPT ![w] = "check"]
        /\ "check" \in ReplayPoints
        /\ DOMAIN work' = Replayers
        /\ work'[w] = [work[w] EXCEPT !.target = i, !.before = queue[i].state,
                                      !.op = op, !.attempts = @ + 1]
        /\ \A v \in Replayers \ {w} : work'[v] = work[v]
    BY <1>5, <2>1 DEF Goto, ReplayPoints, Inv, TypeOK
  <2>6. /\ work'[w].items = work[w].items
        /\ work'[w].plan = work[w].plan
        /\ work'[w].target = i
        /\ work'[w].op = op
        /\ work'[w].attempts = work[w].attempts + 1
    BY <1>1, <2>5 DEF IsWork
  <2>7. IsWork(work'[w])
    <3>1. queue[i].state \in ReplayState
      BY <1>1, <2>2 DEF IsQueue, Row
    <3> QED BY <1>1, <1>2, <2>3, <2>5, <2>6, <3>1 DEF IsWork
  <2>8. TypeOK'
    BY <1>1, <1>5, <2>4, <2>5, <2>7, ReplayTypes DEF Inv
  <2>9. delivery = w
    BY DEF Inv, LocksOK, SoloPoints
  <2>10. PointsOK' /\ BanksOK' /\ LocksOK'
    BY <1>5, <2>5, <2>9, CoordinatorConstants
    DEF Inv, PointsOK, BanksOK, LocksOK, SoloPoints, TypeOK, Actors, lockVars, senderVars,
        AdmittedPoints
  <2>11. RowsOK'
    BY <2>4, <2>5, CoordinatorConstants DEF Inv, RowsOK, TypeOK, Actors
  <2>12. ClaimsOK'
    <3>1. \A v \in Replayers : pc[v] \in ClaimPoints => v = w
      BY <2>9, OneDeliverer DEF Actors
    <3>2. Gates(queue') = Gates(queue) /\ Sending(queue') \subseteq {i}
      BY <2>2, <2>4 DEF Gates, Sending
    <3>3. Gates(queue') # {} => IsFirst(queue', Gates(queue'), i)
      BY <2>2, <2>4, <3>2 DEF IsFirst, Gates
    <3>4. ~BehindCorrupt(queue', i)
      BY <2>2, <2>4 DEF BehindCorrupt, Before, Corrupt
    <3>5. work[w].attempts \in Nat
      BY <1>1 DEF IsWork
    <3>6. Claim(work'[w], queue')
      BY <2>2, <2>3, <2>4, <2>6, <3>2, <3>3, <3>4, <3>5 DEF Claim
    <3> QED BY <2>5, <3>1, <3>6 DEF ClaimsOK, Inv, TypeOK, Actors
  <2>13. SoloOK'
    <3>1. \A r \in Requests : pc[r] \notin SoloPoints
      BY <2>9, OneDeliverer, CoordinatorConstants DEF Actors
    <3> QED BY <2>5, <3>1, CoordinatorConstants DEF SoloOK, SoloPoints, Inv, TypeOK, Actors
  <2> QED BY <2>8, <2>10, <2>11, <2>12, <2>13 DEF Inv
<1> QED BY <1>3, <1>4, <1>5 DEF Attempt

LEMMA AttemptProbeInv ==
  ASSUME Inv, NEW w \in Replayers, AttemptProbe(w)
  PROVE  Inv'
<1>1. PICK i \in Gates(work[w].items) : Attempt(w, i)
  BY DEF AttemptProbe, NextUp
<1>2. i \in DOMAIN work[w].items
  BY DEF Gates
<1> QED BY <1>1, <1>2, AttemptInv DEF AttemptProbe

LEMMA AttemptNextInv ==
  ASSUME Inv, NEW w \in Replayers, AttemptNext(w)
  PROVE  Inv'
<1>1. PICK i \in Pending(w) : Attempt(w, i)
  BY DEF AttemptNext, NextUp
<1>2. i \in DOMAIN work[w].items
  BY DEF Pending, Replayable
<1> QED BY <1>1, <1>2, AttemptInv DEF AttemptNext

\* A flush that has claimed a row moves on without touching the file.
LEMMA ClaimMoves ==
  ASSUME Inv, NEW w \in Replayers, pc[w] \in ClaimPoints,
         NEW point \in ReplayPoints, pc' = [pc EXCEPT ![w] = point],
         UNCHANGED <<fileVars, writeBank, lockVars, senderVars, work, shielded, budget>>,
         applied' \subseteq Ids, sent' \in [Ids -> SUBSET Operations]
  PROVE  Inv'
<1> USE DEF Inv, fileVars, lockVars, senderVars
<1>1. TypeOK'
  BY DEF TypeOK, Actors
<1>2. PointsOK' /\ BanksOK' /\ LocksOK'
  BY CoordinatorConstants
  DEF PointsOK, BanksOK, LocksOK, SoloPoints, AdmittedPoints, TypeOK, Actors, ClaimPoints
<1>3. RowsOK' /\ SoloOK'
  BY CoordinatorConstants DEF RowsOK, SoloOK, SoloPoints, TypeOK, Actors
<1>4. ClaimsOK'
  BY DEF ClaimsOK, TypeOK, Actors
<1> QED BY <1>1, <1>2, <1>3, <1>4

LEMMA CheckBankInv ==
  ASSUME Inv, NEW w \in Replayers, CheckBank(w)
  PROVE  Inv'
<1>1. /\ pc[w] \in ClaimPoints
      /\ applied' \subseteq Ids
      /\ UNCHANGED <<fileVars, writeBank, lockVars, senderVars, work, shielded, budget>>
  BY DEF CheckBank, ClaimPoints, Inv, TypeOK
<1>2. work[w].target \in Ids /\ work[w].op \in Operations
  BY <1>1 DEF Inv, ClaimsOK, Claim, TypeOK, IsQueue
<1>3. PICK point \in {"unroute", "mismatch", "http"} : pc' = [pc EXCEPT ![w] = point]
  BY DEF CheckBank, Goto
<1>4. point \in ReplayPoints
  BY DEF ReplayPoints
<1>5. sent' \in [Ids -> SUBSET Operations]
  BY <1>2 DEF CheckBank, Send, Inv, TypeOK
<1> QED BY <1>1, <1>3, <1>4, <1>5, ClaimMoves

LEMMA DeliverInv ==
  ASSUME Inv, NEW w \in Replayers, Deliver(w)
  PROVE  Inv'
<1>1. /\ pc[w] \in ClaimPoints
      /\ sent' \in [Ids -> SUBSET Operations]
      /\ UNCHANGED <<fileVars, writeBank, lockVars, senderVars, work, shielded, budget>>
      /\ pc' = [pc EXCEPT ![w] = "delivered"]
      /\ "delivered" \in ReplayPoints
  BY DEF Deliver, Goto, ClaimPoints, ReplayPoints, Inv, TypeOK
<1>2. work[w].target \in Ids
  BY <1>1 DEF Inv, ClaimsOK, Claim, TypeOK, IsQueue
<1>3. applied' \subseteq Ids
  BY <1>2 DEF Deliver, Perform, Inv, TypeOK
<1> QED BY <1>1, <1>3, ClaimMoves

LEMMA RefuseInv ==
  ASSUME Inv, NEW w \in Replayers, Refuse(w)
  PROVE  Inv'
<1>1. /\ pc[w] \in ClaimPoints
      /\ sent' \in [Ids -> SUBSET Operations]
      /\ UNCHANGED <<fileVars, writeBank, lockVars, senderVars, work, shielded, budget>>
  BY DEF Refuse, ClaimPoints, Inv, TypeOK
<1>2. PICK point \in {"denied", "permanent", "transient"} : pc' = [pc EXCEPT ![w] = point]
  BY DEF Refuse, Goto
<1>3. point \in ReplayPoints
  BY DEF ReplayPoints
<1>4. work[w].target \in Ids
  BY <1>1 DEF Inv, ClaimsOK, Claim, TypeOK, IsQueue
<1>5. applied' \subseteq Ids
  BY <1>4 DEF Refuse, Perform, Inv, TypeOK
<1> QED BY <1>1, <1>2, <1>3, <1>5, ClaimMoves

\* The rewrites of the claimed row that settle it: unless the row is removed, the
\* file keeps its rows and their order.
LEMMA TargetFacts ==
  ASSUME Inv, NEW w \in Replayers, pc[w] \in ClaimPoints
  PROVE  /\ IsQueue(queue) /\ IsWork(work[w])
         /\ work[w].target \in DOMAIN queue
         /\ work[w].target \in DOMAIN work[w].items
         /\ work[w].attempts \in Nat \ {0}
         /\ work[w].before \in ReplayState
         /\ queue[work[w].target].state \in ReplayState
         /\ Completed(w) \in ReplayState
<1>1. IsQueue(queue) /\ IsWork(work[w]) /\ Claim(work[w], queue)
  BY DEF Inv, TypeOK, ClaimsOK
<1>2. /\ work[w].target \in DOMAIN queue
      /\ work[w].target \in DOMAIN work[w].items
      /\ work[w].attempts \in Nat \ {0}
      /\ work[w].before \in ReplayState
  BY <1>1 DEF IsWork, Claim
<1>3. queue[work[w].target].state \in ReplayState
  BY <1>1, <1>2 DEF IsQueue, Row
<1>4. Completed(w) \in ReplayState
  BY <1>2, <1>3, CompletedType DEF Completed
<1> QED BY <1>1, <1>2, <1>3, <1>4

LEMMA UnrouteInv ==
  ASSUME Inv, NEW w \in Replayers, Unroute(w)
  PROVE  Inv'
<1>1. pc[w] \in ClaimPoints /\ pc[w] # "idle" /\ shielded' \subseteq Ids
  BY DEF Unroute, ClaimPoints, Inv, TypeOK
<1>2. /\ IsQueue(queue')
      /\ DOMAIN queue' = DOMAIN queue
      /\ \A j \in DOMAIN queue : queue'[j].pos = queue[j].pos
  BY <1>1, TargetFacts, SetReplayStateType DEF Unroute
<1> QED BY <1>1, <1>2, EndReplayInv DEF Unroute

LEMMA MismatchInv ==
  ASSUME Inv, NEW w \in Replayers, Mismatch(w)
  PROVE  Inv'
<1>1. pc[w] \in ClaimPoints /\ pc[w] # "idle"
  BY DEF Mismatch, ClaimPoints
<1>2. Quarantine(work[w].before, "bank-mismatch") \in ReplayState
  BY <1>1, TargetFacts, QuarantineType
<1>3. /\ IsQueue(queue')
      /\ DOMAIN queue' = DOMAIN queue
      /\ \A j \in DOMAIN queue : queue'[j].pos = queue[j].pos
  <2> DEFINE state == Quarantine(work[w].before, "bank-mismatch")
             q == SetReplayState(queue, work[w].target, state)
  <2>1. queue' = q
    BY DEF Mismatch
  <2>2. IsQueue(queue) /\ work[w].target \in DOMAIN queue
    BY <1>1, TargetFacts
  <2> HIDE DEF state
  <2>3. /\ IsQueue(q)
        /\ DOMAIN q = DOMAIN queue
        /\ \A j \in DOMAIN queue : q[j].pos = queue[j].pos
    BY <1>2, <2>2, SetReplayStateType DEF state
  <2> QED BY <2>1, <2>3
<1>4. /\ work[w].target \in DOMAIN work[w].items
      /\ work[w].attempts - 1 \in Nat
  BY <1>1, TargetFacts
<1> QED BY <1>1, <1>3, <1>4, PassOverInv DEF Mismatch

LEMMA QuarantinePermanentInv ==
  ASSUME Inv, NEW w \in Replayers, QuarantinePermanent(w)
  PROVE  Inv'
<1>1. pc[w] \in ClaimPoints /\ pc[w] # "idle"
  BY DEF QuarantinePermanent, ClaimPoints
<1>2. Quarantine(Completed(w), "permanent") \in ReplayState
  BY <1>1, TargetFacts, QuarantineType
<1>3. /\ IsQueue(queue')
      /\ DOMAIN queue' = DOMAIN queue
      /\ \A j \in DOMAIN queue : queue'[j].pos = queue[j].pos
  BY <1>1, <1>2, TargetFacts, SetReplayStateType DEF QuarantinePermanent
<1>4. /\ work[w].target \in DOMAIN work[w].items
      /\ work[w].attempts \in Nat
  BY <1>1, TargetFacts
<1> QED BY <1>1, <1>3, <1>4, PassOverInv DEF QuarantinePermanent

LEMMA DenyInv ==
  ASSUME Inv, NEW w \in Replayers, Deny(w)
  PROVE  Inv'
<1>1. pc[w] # "idle" /\ IsQueue(queue)
  BY DEF Deny, Inv, TypeOK
<1>2. /\ IsQueue(queue')
      /\ DOMAIN queue' = DOMAIN queue
      /\ \A j \in DOMAIN queue : queue'[j].pos = queue[j].pos
  BY <1>1, DenyReplayType DEF Deny
<1>3. shielded' \subseteq Ids
  BY <1>1 DEF Deny, Inv, TypeOK, IsQueue
<1> QED BY <1>1, <1>2, <1>3, EndReplayInv DEF Deny

\* What a count of a failed attempt leaves in the file, and what settling does.
LEMMA CountedRow ==
  ASSUME Inv, NEW w \in Replayers, pc[w] \in ClaimPoints
  PROVE  LET i == work[w].target
             counted == IncrementReplayAttempts(queue, i)
             settled == SetReplayState(counted, i, Completed(w)) IN
         /\ IsQueue(counted) /\ IsQueue(settled)
         /\ DOMAIN counted = DOMAIN queue /\ DOMAIN settled = DOMAIN queue
         /\ \A j \in DOMAIN queue :
              counted[j].pos = queue[j].pos /\ settled[j].pos = queue[j].pos
<1> DEFINE i == work[w].target
           counted == IncrementReplayAttempts(queue, i)
           settled == SetReplayState(counted, i, Completed(w))
<1>1. /\ IsQueue(queue)
      /\ i \in DOMAIN queue
      /\ Completed(w) \in ReplayState
  BY TargetFacts
<1>2. /\ IsQueue(counted)
      /\ DOMAIN counted = DOMAIN queue
      /\ \A j \in DOMAIN queue : counted[j].pos = queue[j].pos
  BY <1>1, IncrementType
<1> HIDE DEF counted
<1>3. /\ IsQueue(settled)
      /\ DOMAIN settled = DOMAIN counted
      /\ \A j \in DOMAIN counted : settled[j].pos = counted[j].pos
  BY <1>1, <1>2, SetReplayStateType
<1> QED BY <1>2, <1>3 DEF counted

LEMMA RecordTransientFailureInv ==
  ASSUME Inv, NEW w \in Replayers, RecordTransientFailure(w)
  PROVE  Inv'
<1> DEFINE i == work[w].target
           settled == SetReplayState(IncrementReplayAttempts(queue, i), i, Completed(w))
<1>1. pc[w] \in ClaimPoints /\ pc[w] # "idle" /\ shielded' \subseteq Ids
  BY DEF RecordTransientFailure, ClaimPoints, Inv, TypeOK
<1>2. queue' = Remove(settled, i) \/ queue' = settled
  BY DEF RecordTransientFailure
<1>3. /\ IsQueue(settled)
      /\ DOMAIN settled = DOMAIN queue
      /\ \A j \in DOMAIN queue : settled[j].pos = queue[j].pos
  BY <1>1, CountedRow
<1> HIDE DEF settled
<1>4. /\ IsQueue(queue')
      /\ DOMAIN queue' \subseteq DOMAIN queue
      /\ \A j \in DOMAIN queue' : queue'[j].pos = queue[j].pos
  <2>1. /\ IsQueue(Remove(settled, i))
        /\ DOMAIN Remove(settled, i) \subseteq DOMAIN settled
        /\ \A j \in DOMAIN Remove(settled, i) : Remove(settled, i)[j] = settled[j]
    BY <1>3, RemoveType, ZenonT(40)
  <2> QED BY <1>2, <1>3, <2>1
<1> QED BY <1>1, <1>4, EndReplayInv DEF RecordTransientFailure

LEMMA AcknowledgeInv ==
  ASSUME Inv, NEW w \in Replayers, Acknowledge(w)
  PROVE  Inv'
<1>1. /\ pc[w] \in ClaimPoints /\ pc[w] # "idle"
      /\ queue' = Remove(queue, work[w].target)
      /\ UNCHANGED <<line, writeBank, senderVars, serverVars, shielded, budget>>
  BY DEF Acknowledge, ClaimPoints
<1>2. /\ shielded' \subseteq Ids /\ applied' \subseteq Ids
      /\ sent' \in [Ids -> SUBSET Operations]
  BY <1>1 DEF Inv, TypeOK, serverVars
<1>3. /\ IsQueue(queue')
      /\ DOMAIN queue' \subseteq DOMAIN queue
      /\ \A j \in DOMAIN queue' : queue'[j].pos = queue[j].pos
  <2> DEFINE q == Remove(queue, work[w].target)
  <2>1. IsQueue(queue)
    BY <1>1, TargetFacts
  <2>2. /\ IsQueue(q)
        /\ DOMAIN q = DOMAIN queue \ {work[w].target}
        /\ \A j \in DOMAIN queue \ {work[w].target} : q[j] = queue[j]
    BY <2>1, RemoveType
  <2> HIDE DEF q
  <2> QED BY <1>1, <2>2 DEF q
<1>4. CASE EndReplay(w)
  BY <1>1, <1>2, <1>3, <1>4, EndReplayInv
<1>5. CASE Goto(w, "reopen") /\ UNCHANGED <<lockVars, work>>
  <2>1. /\ "reopen" \in ReplayPoints \ ClaimPoints
        /\ pc' = [pc EXCEPT ![w] = "reopen"]
        /\ \A v \in Replayers : work'[v] = work[v]
        /\ DOMAIN work' = Replayers
        /\ IsWork(work'[w])
    BY <1>5 DEF Goto, ReplayPoints, ClaimPoints, Inv, TypeOK
  <2>2. TypeOK'
    BY <1>1, <1>2, <1>3, <1>5, <2>1, ReplayTypes DEF Inv
  <2>3. PointsOK' /\ BanksOK' /\ LocksOK' /\ RowsOK' /\ ClaimsOK' /\ SoloOK'
    BY <1>1, <1>3, <1>5, <2>1, ReplayWrites DEF senderVars
  <2> QED BY <2>2, <2>3 DEF Inv
<1>6. CASE /\ Goto(w, "batch")
           /\ work' = [work EXCEPT
                ![w].cursor = work[w].items[work[w].target].pos,
                ![w].target = NoId, ![w].before = NoState, ![w].op = NoOp]
           /\ UNCHANGED lockVars
  <2>1. /\ "batch" \in ReplayPoints \ ClaimPoints
        /\ pc' = [pc EXCEPT ![w] = "batch"]
        /\ DOMAIN work' = Replayers
        /\ work'[w] = [work[w] EXCEPT !.cursor = work[w].items[work[w].target].pos,
                                      !.target = NoId, !.before = NoState,
                                      !.op = NoOp]
        /\ \A v \in Replayers \ {w} : work'[v] = work[v]
    BY <1>6 DEF Goto, ReplayPoints, ClaimPoints, Inv, TypeOK
  <2>2. IsWork(work[w]) /\ work[w].items[work[w].target].pos \in Nat
    BY <1>1, TargetFacts DEF IsWork, IsQueue, Row
  <2>3. IsWork(work'[w])
    BY <2>1, <2>2, NoStateType DEF IsWork
  <2>4. TypeOK'
    BY <1>1, <1>2, <1>3, <1>6, <2>1, <2>3, ReplayTypes DEF Inv
  <2>5. PointsOK' /\ BanksOK' /\ LocksOK' /\ RowsOK' /\ ClaimsOK' /\ SoloOK'
    BY <1>1, <1>3, <1>6, <2>1, ReplayWrites, ZenonT(40) DEF senderVars
  <2> QED BY <2>4, <2>5 DEF Inv
<1> QED BY <1>4, <1>5, <1>6 DEF Acknowledge

LEMMA ReopenInv ==
  ASSUME Inv, NEW w \in Replayers, Reopen(w)
  PROVE  Inv'
<1>1. /\ pc[w] # "idle"
      /\ IsQueue(queue) /\ IsWork(work[w])
      /\ UNCHANGED <<queue, line, writeBank, senderVars, serverVars, shielded, budget>>
  BY DEF Reopen, fileVars, Inv, TypeOK
<1>2. /\ shielded' \subseteq Ids /\ applied' \subseteq Ids
      /\ sent' \in [Ids -> SUBSET Operations]
  BY <1>1 DEF Inv, TypeOK, serverVars
<1>3. CASE EndReplay(w)
  BY <1>1, <1>2, <1>3, EndReplayInv
<1>4. CASE /\ Goto(w, "batch")
           /\ work' = [work EXCEPT ![w] =
                [NoWork EXCEPT !.items = queue,
                               !.attempts = work[w].attempts,
                               !.plan = work[w].plan]]
           /\ UNCHANGED lockVars
  <2>1. /\ "batch" \in ReplayPoints \ ClaimPoints
        /\ pc' = [pc EXCEPT ![w] = "batch"]
        /\ DOMAIN work' = Replayers
        /\ work'[w] = [NoWork EXCEPT !.items = queue,
                                     !.attempts = work[w].attempts,
                                     !.plan = work[w].plan]
        /\ \A v \in Replayers \ {w} : work'[v] = work[v]
    BY <1>4 DEF Goto, ReplayPoints, ClaimPoints, Inv, TypeOK
  <2>2. IsWork(work'[w])
    BY <1>1, <2>1, NoWorkType DEF IsWork, NoWork
  <2>3. TypeOK'
    BY <1>1, <1>2, <1>4, <2>1, <2>2, ReplayTypes DEF Inv
  <2>4. PointsOK' /\ BanksOK' /\ LocksOK' /\ RowsOK' /\ ClaimsOK' /\ SoloOK'
    BY <1>1, <1>4, <2>1, ReplayWrites DEF senderVars
  <2> QED BY <2>3, <2>4 DEF Inv
<1> QED BY <1>3, <1>4 DEF Reopen

-----------------------------------------------------------------------------
(* Failures and the environment *)

\* A sender that dies leaves the file as it was, or as a cut-short enqueue.
LEMMA AbortSenderInv ==
  ASSUME Inv, NEW r \in Requests, Abort(r)
  PROVE  Inv'
<1>1. /\ pc[r] \notin {"idle", "done"}
      /\ pc' = [pc EXCEPT ![r] = "done"]
      /\ result' = [result EXCEPT ![r] = "failed"]
      /\ Unlock(r)
      /\ queue' \in {queue} \cup PartialWrites(r)
      /\ line' = IF pc[r] = "queueing" THEN line + 1 ELSE line
      /\ applied' \in {applied, applied \cup {r}}
      /\ UNCHANGED <<writeBank, bankOf, work, tickets, turn, sent, shielded>>
      /\ budget.aborts > 0
      /\ budget' = [budget EXCEPT !.aborts = @ - 1]
  BY DEF Abort, Finish, Goto, Perform, OnWire
<1>2. IsQueue(queue) /\ line \in Nat /\ pc[r] \in SenderPoints
  BY DEF Inv, TypeOK, PointsOK
<1>3. CASE pc[r] = "queueing"
  <2>1. /\ queue' \in {queue} \cup PartialWrites(r)
        /\ line' = line + 1
    BY <1>1, <1>3
  <2>2. \/ queue' = queue
        \/ queue' = PrepareQueue(queue, writeBank)
        \/ queue' = Enqueue(PrepareQueue(queue, writeBank), r,
                            FreshRow(bankOf[r], r, line))
        \/ queue' = Enqueued(r)
        \/ \E b \in Barriers \ DOMAIN queue :
             queue' = Enqueue(PrepareQueue(queue, writeBank), b, CorruptRow(line))
    BY <1>3, <2>1 DEF PartialWrites
  <2>3. /\ IsQueue(queue') /\ Benign(queue, queue')
        /\ DOMAIN queue' \cap Requests \subseteq DOMAIN queue \cup {r}
        /\ \A i \in DOMAIN queue' : queue'[i].pos < line'
    <3>1. CASE queue' = queue
      <4>1. \A i \in DOMAIN queue : queue[i].pos \in Nat /\ queue[i].pos < line
        BY <1>2 DEF Inv, RowsOK, IsQueue, Row
      <4> QED BY <1>2, <2>1, <3>1, <4>1 DEF Benign
    <3>2. CASE queue' = PrepareQueue(queue, writeBank)
      <4>1. \A i \in DOMAIN queue : queue[i].pos \in Nat /\ queue[i].pos < line
        BY <1>2 DEF Inv, RowsOK, IsQueue, Row
      <4>2. /\ IsQueue(queue') /\ Benign(queue, queue')
            /\ DOMAIN queue' = DOMAIN queue
        BY <1>2, <3>2, PrepareQueueType
      <4> QED BY <1>2, <2>1, <4>1, <4>2 DEF Benign
    <3>3. CASE queue' = Enqueue(PrepareQueue(queue, writeBank), r,
                                FreshRow(bankOf[r], r, line))
      BY <1>3, <2>1, <3>3, EnqueuedRows
    <3>4. CASE queue' = Enqueued(r)
      BY <1>3, <2>1, <3>4, EnqueuedRows
    <3>5. CASE \E b \in Barriers \ DOMAIN queue :
                 queue' = Enqueue(PrepareQueue(queue, writeBank), b, CorruptRow(line))
      <4>1. PICK b \in Barriers \ DOMAIN queue :
              queue' = Enqueue(PrepareQueue(queue, writeBank), b, CorruptRow(line))
        BY <3>5
      <4> DEFINE row == CorruptRow(line)
      <4>2. /\ row \in Row
            /\ row.state.gate = "none"
            /\ ~row.state.sending
            /\ row.pos = line
        BY <1>2, NewRowType
      <4>3. b \in Ids \ DOMAIN queue /\ b \notin Requests
        BY QueueConstants DEF Ids
      <4> HIDE DEF row
      <4>4. LET q == Enqueue(PrepareQueue(queue, writeBank), b, row) IN
            /\ IsQueue(q)
            /\ DOMAIN q = DOMAIN queue \cup {b}
            /\ Benign(queue, q)
            /\ \A j \in DOMAIN q : q[j].pos < line + 1
        BY <4>2, <4>3, AppendRow
      <4> QED BY <2>1, <4>1, <4>3, <4>4 DEF row
    <3> QED BY <2>2, <3>1, <3>2, <3>3, <3>4, <3>5
  <2>4. PointsOK' /\ BanksOK' /\ LocksOK' /\ RowsOK' /\ ClaimsOK' /\ SoloOK'
    BY <1>1, <1>3, <2>1, <2>3, SenderWrites
  <2>5. TypeOK'
    BY <1>1, <1>2, <2>1, <2>3
    DEF Inv, TypeOK, Actors, SenderPoints, Results, Unlock, Ids, Writes
  <2> QED BY <2>4, <2>5 DEF Inv
<1>4. CASE pc[r] # "queueing"
  <2>1. pc[r] \in {"admitted", "exclusive", "recheck", "http"}
    BY <1>1, <1>2, <1>4 DEF SenderPoints
  <2>2. PartialWrites(r) = {}
    BY <1>4, <2>1 DEF PartialWrites
  <2>3. queue' = queue /\ line' = line
    BY <1>1, <1>4, <2>2
  <2>4. TypeOK'
    BY <1>1, <2>3 DEF Inv, TypeOK, Actors, SenderPoints, Results, Unlock, Ids, Writes
  <2>5. PointsOK' /\ BanksOK' /\ LocksOK'
    BY <1>1, CoordinatorConstants
    DEF Inv, PointsOK, BanksOK, LocksOK, SoloPoints, SenderPoints, AdmittedPoints, TypeOK, Actors,
        Unlock
  <2>6. RowsOK' /\ ClaimsOK' /\ SoloOK'
    BY <1>1, <2>3, CoordinatorConstants
    DEF Inv, RowsOK, ClaimsOK, SoloOK, SoloPoints, TypeOK, Actors
  <2> QED BY <2>4, <2>5, <2>6 DEF Inv
<1> QED BY <1>3, <1>4

\* A flush that dies leaves the file as it was, or with a part of the rewrites
\* that settle its row.
LEMMA AbortReplayInv ==
  ASSUME Inv, NEW w \in Replayers, Abort(w)
  PROVE  Inv'
<1>1. /\ pc[w] # "idle" /\ pc[w] \in ReplayPoints /\ w \notin Requests
      /\ EndReplay(w)
      /\ queue' \in {queue} \cup PartialWrites(w)
      /\ \/ pc[w] = "http" /\ applied' = applied \cup {work[w].target}
         \/ UNCHANGED applied
      /\ UNCHANGED <<writeBank, bankOf, result, tickets, turn, sent, shielded>>
      /\ budget.aborts > 0
      /\ budget' = [budget EXCEPT !.aborts = @ - 1]
  BY CoordinatorConstants DEF Abort, Perform, OnWire, Inv, PointsOK
<1>2. line' = line
  BY <1>1 DEF Abort, ReplayPoints
<1>3. IsQueue(queue)
  BY DEF Inv, TypeOK
<1>4. /\ IsQueue(queue')
      /\ DOMAIN queue' = DOMAIN queue
      /\ \A j \in DOMAIN queue : queue'[j].pos = queue[j].pos
  <2>1. CASE queue' = queue
    BY <1>3, <2>1
  <2>2. CASE pc[w] = "begin" /\ queue' = PrepareQueue(queue, writeBank)
    BY <1>3, <2>2, PrepareQueueType DEF Benign
  <2>7. ASSUME NEW i \in DOMAIN queue, NEW op \in OperationFor(w, i),
               queue' = EnsureOperationIds(queue, [j \in {i} |-> op])
        PROVE  /\ IsQueue(queue')
               /\ DOMAIN queue' = DOMAIN queue
               /\ \A j \in DOMAIN queue : queue'[j].pos = queue[j].pos
    <3>1. op \in Operations
      BY <1>3 DEF OperationFor, UnusedOps, Operations, Inv, TypeOK, IsWork, IsQueue, Row
    <3> DEFINE plan == [j \in {i} |-> op]
    <3>2. \A j \in DOMAIN plan : plan[j] \in Operations
      BY <3>1
    <3> QED BY <1>3, <2>7, <3>2, EnsureOperationIdsType
  <2>3. CASE /\ pc[w] = "delivered"
             /\ queue' = SetReplayState(queue, work[w].target, Completed(w))
    <3>1. pc[w] \in ClaimPoints
      BY <2>3 DEF ClaimPoints
    <3> QED BY <2>3, <3>1, TargetFacts, SetReplayStateType
  <2>4. CASE /\ pc[w] = "transient"
             /\ queue' \in
                  {IncrementReplayAttempts(queue, work[w].target),
                   SetReplayState(IncrementReplayAttempts(queue, work[w].target),
                                  work[w].target, Completed(w))}
    <3>1. pc[w] \in ClaimPoints
      BY <2>4 DEF ClaimPoints
    <3> QED BY <2>4, <3>1, CountedRow
  <2>5. pc[w] # "queueing"
    BY <1>1 DEF ReplayPoints
  <2>6. CASE queue' \in PartialWrites(w)
    <3>1. \/ pc[w] = "begin" /\ queue' = PrepareQueue(queue, writeBank)
          \/ \E i \in DOMAIN queue : \E op \in OperationFor(w, i) :
               queue' = EnsureOperationIds(queue, [j \in {i} |-> op])
          \/ /\ pc[w] = "delivered"
             /\ queue' = SetReplayState(queue, work[w].target, Completed(w))
          \/ /\ pc[w] = "transient"
             /\ queue' \in
                  {IncrementReplayAttempts(queue, work[w].target),
                   SetReplayState(IncrementReplayAttempts(queue, work[w].target),
                                  work[w].target, Completed(w))}
      <4>1. CASE pc[w] \in {"probe", "batch"}
        <5>1. PartialWrites(w) =
                UNION {{EnsureOperationIds(queue, [j \in {i} |-> op]) :
                          op \in OperationFor(w, i)} :
                       i \in {k \in NextUp(w) : ~MustStop(k) /\ ~Blocked(k)}}
          BY <4>1 DEF PartialWrites
        <5>2. PICK i \in {k \in NextUp(w) : ~MustStop(k) /\ ~Blocked(k)} :
                queue' \in {EnsureOperationIds(queue, [j \in {i} |-> op]) :
                              op \in OperationFor(w, i)}
          BY <2>6, <5>1
        <5>3. i \in DOMAIN queue
          BY <5>2 DEF MustStop
        <5> QED BY <5>2, <5>3
      <4>2. CASE pc[w] \notin {"probe", "batch"}
        BY <2>5, <2>6, <4>2 DEF PartialWrites
      <4> QED BY <4>1, <4>2
    <3> QED BY <2>2, <2>3, <2>4, <2>7, <3>1
  <2> QED BY <1>1, <2>1, <2>6
<1>5. applied' \subseteq Ids
  <2>1. pc[w] = "http" => work[w].target \in DOMAIN queue
    BY TargetFacts DEF ClaimPoints
  <2> QED BY <1>1, <1>3, <2>1 DEF Inv, TypeOK, IsQueue
<1>6. /\ pc' = [pc EXCEPT ![w] = "idle"]
      /\ "idle" \in ReplayPoints \ ClaimPoints
      /\ Unlock(w)
      /\ DOMAIN work' = Replayers
      /\ work'[w] = NoWork
      /\ \A v \in Replayers \ {w} : work'[v] = work[v]
  BY <1>1 DEF EndReplay, Goto, Inv, TypeOK, ReplayPoints, ClaimPoints
<1>7. PointsOK' /\ BanksOK' /\ LocksOK' /\ RowsOK' /\ ClaimsOK' /\ SoloOK'
  BY <1>1, <1>2, <1>4, <1>6, ReplayWrites
<1>8. TypeOK'
  <2>1. IsWork(work'[w])
    BY <1>6, NoWorkType
  <2> QED BY <1>1, <1>2, <1>4, <1>5, <1>6, <2>1 DEF Inv, TypeOK, Actors, Unlock
<1> QED BY <1>7, <1>8 DEF Inv

LEMMA RerouteInv ==
  ASSUME Inv, NEW bank \in Banks \cup {NoBank}, Reroute(bank)
  PROVE  Inv'
<1> USE DEF Inv, Reroute, fileVars, lockVars, senderVars, serverVars
<1>1. TypeOK'
  BY DEF TypeOK
<1>2. PointsOK' /\ BanksOK' /\ LocksOK' /\ RowsOK' /\ ClaimsOK' /\ SoloOK'
  BY DEF PointsOK, BanksOK, LocksOK, SoloPoints, RowsOK, ClaimsOK, SoloOK
<1> QED BY <1>1, <1>2

LEMMA AgeInv ==
  ASSUME Inv, Age
  PROVE  Inv'
<1>1. PICK k : queue' = [i \in DOMAIN queue |->
                           [queue[i] EXCEPT !.old = @ \/ queue[i].pos <= k]]
  BY DEF Age
<1>2. IsQueue(queue)
  BY DEF Inv, TypeOK
<1>3. DOMAIN queue' = DOMAIN queue
  BY <1>1
<1>4. ASSUME NEW i \in DOMAIN queue
      PROVE  /\ queue'[i] \in Row
             /\ queue'[i].pos = queue[i].pos
             /\ queue'[i].state = queue[i].state
  <2>1. queue[i] \in Row
    BY <1>2 DEF IsQueue
  <2>2. queue'[i] = [queue[i] EXCEPT !.old = queue[i].old \/ queue[i].pos <= k]
    BY <1>1
  <2>3. (queue[i].old \/ queue[i].pos <= k) \in BOOLEAN
    OBVIOUS
  <2> QED BY <2>1, <2>2, <2>3 DEF Row
<1>5. IsQueue(queue')
  BY <1>1, <1>2, <1>3, <1>4 DEF IsQueue
<1>6. Benign(queue, queue')
  BY <1>3, <1>4 DEF Benign
<1> USE DEF Inv, Age, lockVars, senderVars, serverVars
<1>7. TypeOK'
  BY <1>5 DEF TypeOK
<1>8. PointsOK' /\ BanksOK' /\ LocksOK' /\ RowsOK'
  BY <1>3, <1>4 DEF PointsOK, BanksOK, LocksOK, SoloPoints, RowsOK
<1>9. ClaimsOK'
  <2> SUFFICES ASSUME NEW w \in Replayers, pc[w] \in ClaimPoints
               PROVE  Claim(work[w], queue')
    BY DEF ClaimsOK
  <2>1. Claim(work[w], queue)
    BY DEF ClaimsOK
  <2> QED BY <1>2, <1>5, <1>6, <2>1, BenignClaim
<1>10. SoloOK'
  <2> SUFFICES ASSUME NEW r \in Requests, pc[r] \in SoloPoints
               PROVE  Clear(queue')
    BY DEF SoloOK, SoloPoints
  <2>1. Clear(queue)
    BY DEF SoloOK, SoloPoints
  <2> QED BY <1>3, <1>6, <2>1, BenignClear
<1> QED BY <1>7, <1>8, <1>9, <1>10

LEMMA OperatorResumeInv ==
  ASSUME Inv, OperatorResume
  PROVE  Inv'
<1>1. PICK i \in Sending(queue) : queue' = DenyReplay(queue, i)
  BY DEF OperatorResume
<1>2. IsQueue(queue)
  BY DEF Inv, TypeOK
<1>3. /\ IsQueue(queue')
      /\ DOMAIN queue' = DOMAIN queue
      /\ \A j \in DOMAIN queue : queue'[j].pos = queue[j].pos
  BY <1>1, <1>2, DenyReplayType
<1> USE DEF Inv, OperatorResume, lockVars, senderVars, serverVars
<1>4. TypeOK'
  BY <1>3 DEF TypeOK, IsQueue
<1>5. PointsOK' /\ BanksOK' /\ LocksOK' /\ RowsOK'
  BY <1>3 DEF PointsOK, BanksOK, LocksOK, SoloPoints, RowsOK
<1>6. ClaimsOK' /\ SoloOK'
  BY DEF ClaimsOK, SoloOK, SoloPoints, AtRest, Actors, ClaimPoints
<1> QED BY <1>4, <1>5, <1>6

-----------------------------------------------------------------------------
(* The invariant *)

LEMMA InitInv == Init => Inv
<1> SUFFICES ASSUME Init PROVE Inv
  OBVIOUS
<1>1. /\ IsQueue(queue)
      /\ DOMAIN queue \cap Requests = {}
      /\ \A i \in DOMAIN queue : queue[i].pos \in 1 .. FirstLine - 1
  BY CoordinatorConstants DEF Init
<1>2. TypeOK
  <2>1. turn \in [Writes -> Nat]
    BY <1>1 DEF Init, IsQueue, Row
  <2>2. IsWork(NoWork)
    BY NoWorkType
  <2>3. budget \in [aborts : Nat, reroutes : Nat, resumes : Nat]
    BY CoordinatorConstants DEF Init
  <2>4. shielded \subseteq Ids
    BY <1>1 DEF Init, IsQueue
  <2> QED BY <1>1, <2>1, <2>2, <2>3, <2>4, CoordinatorConstants
          DEF Init, TypeOK, Actors, SenderPoints, ReplayPoints, Results
<1>3. PointsOK /\ BanksOK /\ LocksOK /\ ClaimsOK /\ SoloOK
  BY DEF Init, PointsOK, BanksOK, LocksOK, SoloPoints, ClaimsOK, SoloOK, Actors, SenderPoints,
         ReplayPoints, AdmittedPoints, ClaimPoints
<1>4. RowsOK
  BY <1>1, CoordinatorConstants DEF RowsOK, Init
<1> QED BY <1>2, <1>3, <1>4 DEF Inv

LEMMA StutterInv == Inv /\ UNCHANGED vars => Inv'
<1> SUFFICES ASSUME Inv, UNCHANGED vars PROVE Inv'
  OBVIOUS
<1> USE DEF Inv, vars
<1>1. TypeOK'
  BY DEF TypeOK
<1>2. PointsOK' /\ BanksOK' /\ LocksOK' /\ RowsOK' /\ ClaimsOK' /\ SoloOK'
  BY DEF PointsOK, BanksOK, LocksOK, SoloPoints, RowsOK, ClaimsOK, SoloOK
<1> QED BY <1>1, <1>2

LEMMA NextInv == Inv /\ [Next]_vars => Inv'
<1> SUFFICES ASSUME Inv, [Next]_vars PROVE Inv'
  OBVIOUS
<1>1. ASSUME NEW r \in Requests, SenderStep(r) PROVE Inv'
  BY <1>1, RetainInv, AdmissionTimeoutInv, TryDeliveryInv, InspectInv,
     RecheckBankInv, DirectDeliveredInv, DirectRefusedInv, DirectTransientInv, EnqueueRequestInv
  DEF SenderStep
<1>2. ASSUME NEW w \in Replayers, ReplayStep(w) PROVE Inv'
  BY <1>2, FlushInv, ReplayQueueInv, PrepareReplayOperationIdsInv, BatchDoneInv,
     AttemptProbeInv, AttemptNextInv, CheckBankInv, UnrouteInv, MismatchInv,
     DeliverInv, RefuseInv, AcknowledgeInv, ReopenInv, DenyInv,
     QuarantinePermanentInv, RecordTransientFailureInv
  DEF ReplayStep
<1>3. CASE Environment
  BY <1>3, AbortSenderInv, AbortReplayInv, RerouteInv, AgeInv, OperatorResumeInv
  DEF Environment, Actors
<1>4. CASE Settled
  BY <1>4, StutterInv DEF Settled
<1>5. CASE UNCHANGED vars
  BY <1>5, StutterInv
<1> QED BY <1>1, <1>2, <1>3, <1>4, <1>5 DEF Next

\* Inv holds in every reachable state.
THEOREM Invariance == Spec => []Inv
BY InitInv, NextInv, PTL DEF Spec

\* The variables of the retain path keep their types in every behaviour, with any
\* number of senders, flushes and rows.
THEOREM TypeCorrectness == Spec => []TypeOK
<1>1. Inv => TypeOK
  BY DEF Inv
<1> QED BY <1>1, Invariance, PTL

\* A row whose request is unresolved pauses the principal: nobody but the flush
\* that wrote its marker has a request on the wire (retainAdmitted, deliverQueued).
THEOREM UnresolvedSendPausesAlways == Spec => []UnresolvedSendPauses
<1>1. Inv => UnresolvedSendPauses
  <2> SUFFICES ASSUME Inv, NEW i \in Sending(queue), NEW a \in Actors, pc[a] = "http"
               PROVE  a \in Replayers /\ OnWire(a) = i
    BY DEF UnresolvedSendPauses
  <2>1. a \notin Requests
    BY DEF Inv, SoloOK, SoloPoints, Clear
  <2>2. Claim(work[a], queue)
    BY <2>1 DEF Inv, ClaimsOK, ClaimPoints, Actors
  <2> QED BY <2>1, <2>2 DEF Claim, OnWire, Actors
<1> QED BY <1>1, Invariance, PTL

\* While an authorization gate is closed only the probe of its owner is on the
\* wire (replayQueue, deliverQueued).
THEOREM GateHoldsBacklogAlways == Spec => []GateHoldsBacklog
<1>1. Inv => GateHoldsBacklog
  <2> SUFFICES ASSUME Inv, NEW a \in Actors, Gates(queue) # {}, pc[a] = "http"
               PROVE  a \in Replayers /\ IsFirst(queue, Gates(queue), OnWire(a))
    BY DEF GateHoldsBacklog
  <2>1. a \notin Requests
    BY DEF Inv, SoloOK, SoloPoints, Clear
  <2>2. Claim(work[a], queue)
    BY <2>1 DEF Inv, ClaimsOK, ClaimPoints, Actors
  <2> QED BY <2>1, <2>2 DEF Claim, OnWire, Actors
<1> QED BY <1>1, Invariance, PTL

\* Nothing behind a corrupt row is on the wire, and no new request at all while
\* the file has a corrupt row (retainAdmitted, deliverQueued).
THEOREM BarrierHoldsSuccessorsAlways == Spec => []BarrierHoldsSuccessors
<1>1. Inv => BarrierHoldsSuccessors
  <2> SUFFICES ASSUME Inv, NEW i \in DOMAIN queue, NEW a \in Actors,
                      Corrupt(queue, i), pc[a] = "http"
               PROVE  a \in Replayers /\ ~BehindCorrupt(queue, OnWire(a))
    BY DEF BarrierHoldsSuccessors
  <2>1. a \notin Requests
    BY DEF Inv, SoloOK, SoloPoints, Clear
  <2>2. Claim(work[a], queue)
    BY <2>1 DEF Inv, ClaimsOK, ClaimPoints, Actors
  <2> QED BY <2>1, <2>2 DEF Claim, OnWire, Actors
<1> QED BY <1>1, Invariance, PTL

-----------------------------------------------------------------------------
(* The past: for every number of senders, flushes, rows and documents, a row *)
(* that a closed gate has protected is not lost, a write is sent under one   *)
(* operation id, writes of one document are performed in the order of their  *)
(* senders, and every step is one of the abstract outbox or leaves it as it  *)
(* is.  Keeps is what every rewrite of the file does for the first two: a    *)
(* protected row stays and stays protected, an operation id once given       *)
(* stays, and a barrier stays one.  History is the inductive invariant, on   *)
(* top of Inv.                                                               *)

\* The state of a row that a gate has protected: kept by expiry, not abandoned.
Shielding(s) == s.present /\ s.protected

\* The rows the gate owes to the server.
Owed == shielded \ applied

ShieldOK == \A i \in Owed : i \in DOMAIN queue /\ Shielding(queue[i].state)

\* A row that may be sent carries the id it was sent under, if it ever was; that
\* of a request is the request's own.  A barrier is never sent.
OpsOK ==
  /\ \A i \in DOMAIN queue : ~Corrupt(queue, i) => sent[i] \subseteq {queue[i].op}
  /\ \A r \in Requests :
       /\ sent[r] \subseteq {r}
       /\ r \in DOMAIN queue => queue[r].op = r
  /\ StableOperationId

\* What a flush remembers of the row it has claimed is still so in the file.
Note(s) ==
  /\ queue[s.target].op = s.op
  /\ ~Corrupt(queue, s.target)
  /\ s.target \in Owed => s.before.protected

NotesOK ==
  \A w \in Replayers :
    /\ pc[w] \in ClaimPoints => Note(work[w])
    /\ pc[w] = "delivered" => work[w].target \in applied

History == ShieldOK /\ OpsOK /\ NotesOK

\* A rewrite of the file that forgets nothing.
Keeps(q, q2) ==
  /\ \A i \in DOMAIN q \cap Owed :
       Shielding(q[i].state) => i \in DOMAIN q2 /\ Shielding(q2[i].state)
  /\ \A i \in DOMAIN q \cap DOMAIN q2 :
       /\ q[i].op # NoOp => q2[i].op = q[i].op
       /\ Corrupt(q, i) <=> Corrupt(q2, i)
  /\ \A i \in DOMAIN q2 \ DOMAIN q :
       IF i \in Requests THEN q2[i].op = i ELSE Corrupt(q2, i)

-----------------------------------------------------------------------------
(* The rewrites of RetainQueue forget nothing *)

LEMMA KeepsSame == \A q : Keeps(q, q)
BY DEF Keeps

LEMMA KeepsTransitive ==
  ASSUME NEW q1, NEW q2, NEW q3, DOMAIN q1 \subseteq DOMAIN q2,
         DOMAIN q2 \subseteq DOMAIN q3, Keeps(q1, q2), Keeps(q2, q3)
  PROVE  Keeps(q1, q3)
<1>1. \A i \in Requests : i # NoOp
  BY QueueConstants DEF Operations
<1> QED BY <1>1 DEF Keeps

LEMMA KeepsPrepared ==
  ASSUME NEW q, IsQueue(q), NEW bank
  PROVE  Keeps(q, PrepareQueue(q, bank))
<1>1. ASSUME NEW i \in DOMAIN q
      PROVE  /\ Shielding(q[i].state) => Shielding(PreparedState(q, i, bank))
             /\ q[i].state.quarantine = "corrupt"
                  <=> PreparedState(q, i, bank).quarantine = "corrupt"
  <2>1. q[i].state \in ReplayState
    BY DEF IsQueue, Row
  <2> QED BY <2>1 DEF PreparedState, Protect, Quarantine, Shielding, ReplayState
<1>2. /\ DOMAIN PrepareQueue(q, bank) = DOMAIN q
      /\ \A i \in DOMAIN q :
           /\ PrepareQueue(q, bank)[i].state = PreparedState(q, i, bank)
           /\ PrepareQueue(q, bank)[i].op = q[i].op
  BY DEF PrepareQueue, IsQueue, Row
<1> QED BY <1>1, <1>2 DEF Keeps, Corrupt

LEMMA KeepsAppend ==
  ASSUME NEW q, IsQueue(q), NEW i \in Ids \ DOMAIN q, NEW row \in Row,
         IF i \in Requests THEN row.op = i ELSE row.state.quarantine = "corrupt"
  PROVE  Keeps(q, Enqueue(q, i, row))
<1>1. /\ DOMAIN Enqueue(q, i, row) = DOMAIN q \cup {i}
      /\ Enqueue(q, i, row)[i] = row
      /\ \A j \in DOMAIN q \ {i} : Enqueue(q, i, row)[j] = q[j]
  BY EnqueueType
<1> QED BY <1>1 DEF Keeps, Corrupt

LEMMA KeepsNamed ==
  ASSUME NEW q, IsQueue(q), NEW plan
  PROVE  /\ Keeps(q, EnsureOperationIds(q, plan))
         /\ DOMAIN EnsureOperationIds(q, plan) = DOMAIN q
         /\ \A i \in DOMAIN q : EnsureOperationIds(q, plan)[i].state = q[i].state
<1>1. /\ DOMAIN EnsureOperationIds(q, plan) = DOMAIN q
      /\ \A i \in DOMAIN q :
           /\ EnsureOperationIds(q, plan)[i].state = q[i].state
           /\ q[i].op # NoOp => EnsureOperationIds(q, plan)[i] = q[i]
  BY DEF EnsureOperationIds, IsQueue, Row
<1> QED BY <1>1 DEF Keeps, Corrupt

LEMMA KeepsState ==
  ASSUME NEW q, IsQueue(q), NEW i \in DOMAIN q, NEW s \in ReplayState,
         s.quarantine = "corrupt" <=> Corrupt(q, i),
         i \in Owed /\ Shielding(q[i].state) => Shielding(s)
  PROVE  Keeps(q, SetReplayState(q, i, s))
<1>1. /\ DOMAIN SetReplayState(q, i, s) = DOMAIN q
      /\ \A j \in DOMAIN q :
           /\ SetReplayState(q, i, s)[j].op = q[j].op
           /\ SetReplayState(q, i, s)[j].state = IF j = i THEN s ELSE q[j].state
  BY SetReplayStateType
<1> QED BY <1>1 DEF Keeps, Corrupt

LEMMA KeepsCounted ==
  ASSUME NEW q, IsQueue(q), NEW i \in DOMAIN q
  PROVE  Keeps(q, IncrementReplayAttempts(q, i))
<1>1. /\ DOMAIN IncrementReplayAttempts(q, i) = DOMAIN q
      /\ \A j \in DOMAIN q : /\ IncrementReplayAttempts(q, i)[j].state = q[j].state
                             /\ IncrementReplayAttempts(q, i)[j].op = q[j].op
  BY DEF IncrementReplayAttempts, IsQueue, Row
<1> QED BY <1>1 DEF Keeps, Corrupt

LEMMA KeepsCleanup ==
  ASSUME NEW q, IsQueue(q)
  PROVE  Keeps(q, Cleanup(q))
<1>1. /\ DOMAIN Cleanup(q) \subseteq DOMAIN q
      /\ \A i \in DOMAIN Cleanup(q) : Cleanup(q)[i] = q[i]
      /\ \A i \in DOMAIN q : Shielding(q[i].state) => i \in DOMAIN Cleanup(q)
  BY DEF Cleanup, KeptByCleanup, Shielding
<1> QED BY <1>1 DEF Keeps, Corrupt

\* A row the server has, or one no gate has protected, may go.
LEMMA KeepsRemoved ==
  ASSUME NEW q, IsQueue(q), NEW i,
         i \in Owed => ~Shielding(q[i].state)
  PROVE  Keeps(q, Remove(q, i))
<1>1. /\ DOMAIN Remove(q, i) = DOMAIN q \ {i}
      /\ \A j \in DOMAIN q \ {i} : Remove(q, i)[j] = q[j]
  BY RemoveType
<1> QED BY <1>1 DEF Keeps, Corrupt

\* A denial protects the whole file.
LEMMA KeepsDenied ==
  ASSUME NEW q, IsQueue(q), NEW i
  PROVE  /\ Keeps(q, DenyReplay(q, i))
         /\ DOMAIN DenyReplay(q, i) = DOMAIN q
         /\ \A j \in DOMAIN q : Shielding(DenyReplay(q, i)[j].state)
<1>1. ASSUME NEW j \in DOMAIN q
      PROVE  /\ Shielding(DeniedState(q[j].state, j = i))
             /\ DeniedState(q[j].state, j = i).quarantine = q[j].state.quarantine
  <2>1. q[j].state \in ReplayState
    BY DEF IsQueue, Row
  <2> QED BY <2>1 DEF DeniedState, Protect, Shielding, ReplayState
<1>2. /\ DOMAIN DenyReplay(q, i) = DOMAIN q
      /\ \A j \in DOMAIN q :
           /\ DenyReplay(q, i)[j].state = DeniedState(q[j].state, j = i)
           /\ DenyReplay(q, i)[j].op = q[j].op
  BY DEF DenyReplay, IsQueue, Row
<1> QED BY <1>1, <1>2 DEF Keeps, Corrupt

-----------------------------------------------------------------------------
(* What a step has to do for History *)

\* A step that forgets nothing of the file keeps the protected rows and the notes of
\* the flushes, if what it newly protects is in the file and no flush comes to a
\* claim by it.
LEMMA ShieldStep ==
  ASSUME Inv, Inv', History, Keeps(queue, queue'), applied \subseteq applied',
         \A i \in shielded' \ shielded : i \in DOMAIN queue' /\ Shielding(queue'[i].state),
         \A v \in Replayers : pc'[v] \in ClaimPoints =>
           /\ pc[v] \in ClaimPoints
           /\ work'[v] = work[v]
           /\ work[v].target \notin shielded' \ shielded
           /\ pc'[v] = "delivered" => pc[v] = "delivered" \/ work[v].target \in applied'
  PROVE  ShieldOK' /\ NotesOK'
<1>1. ShieldOK'
  BY DEF History, ShieldOK, Keeps, Owed
<1>2. ASSUME NEW v \in Replayers, pc'[v] \in ClaimPoints
      PROVE  Note(work[v])'
  <2>1. /\ pc[v] \in ClaimPoints
        /\ work'[v] = work[v]
        /\ work[v].target \notin shielded' \ shielded
        /\ Note(work[v])
    BY <1>2 DEF History, NotesOK
  <2>2. /\ work[v].target \in DOMAIN queue
        /\ work[v].target \in DOMAIN queue'
        /\ work[v].op \in Operations
    BY <1>2, <2>1 DEF Inv, ClaimsOK, Claim
  <2>3. work[v].op # NoOp
    BY <2>2, QueueConstants
  <2> QED BY <2>1, <2>2, <2>3 DEF Note, Keeps, Owed
<1>3. NotesOK'
  BY <1>2 DEF History, NotesOK, ClaimPoints
<1> QED BY <1>1, <1>3

\* It also keeps the operation ids, if it sends nothing.
LEMMA OpsStep ==
  ASSUME Inv, OpsOK, Keeps(queue, queue'), sent' = sent
  PROVE  OpsOK'
<1>1. NoOp \notin Operations /\ \A r \in Requests : r # NoOp
  BY QueueConstants DEF Operations
<1>2. ASSUME NEW i \in DOMAIN queue', ~Corrupt(queue', i)
      PROVE  sent[i] \subseteq {queue'[i].op}
  <2>1. CASE i \in DOMAIN queue
    <3>1. sent[i] \subseteq {queue[i].op} /\ (queue[i].op # NoOp => queue'[i].op = queue[i].op)
      BY <1>2, <2>1 DEF OpsOK, Keeps
    <3>2. i \in Ids
      BY <2>1 DEF Inv, TypeOK, IsQueue
    <3>3. sent[i] \subseteq Operations
      BY <3>2 DEF Inv, TypeOK
    <3> QED BY <1>1, <3>1, <3>3
  <2>2. CASE i \notin DOMAIN queue
    BY <1>2, <2>2 DEF OpsOK, Keeps
  <2> QED BY <2>1, <2>2
<1>3. ASSUME NEW r \in Requests, r \in DOMAIN queue'
      PROVE  queue'[r].op = r
  BY <1>1, <1>3 DEF OpsOK, Keeps
<1> QED BY <1>2, <1>3 DEF OpsOK, StableOperationId

\* A write is sent under the id its row carries.
LEMMA SendStep ==
  ASSUME Inv, OpsOK, queue' = queue, NEW i \in Ids, NEW op \in Operations, Send(i, op),
         i \in Requests => op = i,
         i \in DOMAIN queue => queue[i].op = op,
         i \in DOMAIN queue \/ i \in Requests,
         i \in DOMAIN queue => ~Corrupt(queue, i)
  PROVE  OpsOK'
<1>1. /\ sent' = [sent EXCEPT ![i] = @ \cup {op}]
      /\ sent \in [Ids -> SUBSET Operations]
      /\ sent[i] \subseteq {op}
  BY DEF Send, Inv, TypeOK, OpsOK
<1>2. /\ sent'[i] = {op}
      /\ \A j \in Ids \ {i} : sent'[j] = sent[j]
  BY <1>1
<1>3. DOMAIN queue \subseteq Ids /\ Requests \subseteq Ids
  BY DEF Inv, TypeOK, IsQueue, Ids, Writes
<1>4. \A j \in DOMAIN queue' : ~Corrupt(queue', j) => sent'[j] \subseteq {queue'[j].op}
  BY <1>2, <1>3 DEF OpsOK, Corrupt
<1>5. \A r \in Requests : sent'[r] \subseteq {r} /\ (r \in DOMAIN queue' => queue'[r].op = r)
  BY <1>2, <1>3 DEF OpsOK
<1>6. StableOperationId'
  BY <1>2, <1>3 DEF OpsOK, StableOperationId
<1> QED BY <1>4, <1>5, <1>6 DEF OpsOK

\* A step of a sender, or of the environment, that rewrites the file and moves no flush.
LEMMA OthersStep ==
  ASSUME Inv, Inv', History, Keeps(queue, queue'), applied \subseteq applied',
         shielded' = shielded, sent' = sent, work' = work,
         \A v \in Replayers : pc'[v] = pc[v]
  PROVE  History'
<1>1. ShieldOK' /\ NotesOK'
  BY ShieldStep DEF History, NotesOK
<1>2. OpsOK'
  BY OpsStep DEF History
<1> QED BY <1>1, <1>2 DEF History

\* A step of a flush that rewrites the file and ends its claim, or had none.
LEMMA SettlingStep ==
  ASSUME Inv, Inv', History, Keeps(queue, queue'), applied \subseteq applied', sent' = sent,
         NEW w \in Replayers, NEW point, point \notin ClaimPoints,
         pc' = [pc EXCEPT ![w] = point],
         \A v \in Replayers \ {w} : work'[v] = work[v],
         \/ shielded' = shielded
         \/ /\ shielded' = shielded \cup DOMAIN queue
            /\ \A v \in Replayers \ {w} : pc[v] \notin ClaimPoints
            /\ \A i \in DOMAIN queue : i \in DOMAIN queue' /\ Shielding(queue'[i].state)
  PROVE  History'
<1>1. pc'[w] = point /\ \A v \in Replayers \ {w} : pc'[v] = pc[v]
  BY DEF Inv, TypeOK, Actors
<1>2. ShieldOK' /\ NotesOK'
  BY <1>1, ShieldStep DEF History, NotesOK
<1>3. OpsOK'
  BY OpsStep DEF History
<1> QED BY <1>2, <1>3 DEF History

-----------------------------------------------------------------------------
(* Steps of senders *)

\* The steps of a sender that leave the file alone and send nothing.
LEMMA QuietSenderHistory ==
  ASSUME Inv, Inv', History, NEW r \in Requests,
         \/ Retain(r) \/ AdmissionTimeout(r) \/ TryDelivery(r)
         \/ DirectDelivered(r) \/ DirectRefused(r) \/ DirectTransient(r)
  PROVE  History'
<1>1. /\ queue' = queue /\ shielded' = shielded /\ sent' = sent /\ work' = work
      /\ applied \subseteq applied'
      /\ \E point \in SenderPoints : pc' = [pc EXCEPT ![r] = point]
  BY DEF Retain, AdmissionTimeout, TryDelivery, DirectDelivered, DirectRefused,
         DirectTransient, Finish, Goto, Perform, SenderPoints, fileVars, serverVars
<1>2. \A v \in Replayers : pc'[v] = pc[v]
  BY <1>1, CoordinatorConstants
<1> QED BY <1>1, <1>2, KeepsSame, OthersStep

LEMMA InspectHistory ==
  ASSUME Inv, Inv', History, NEW r \in Requests, Inspect(r)
  PROVE  History'
<1>1. /\ queue' \in {queue, PrepareQueue(queue, writeBank)}
      /\ shielded' = shielded /\ sent' = sent /\ applied' = applied /\ work' = work
      /\ \E point \in SenderPoints : pc' = [pc EXCEPT ![r] = point]
  BY DEF Inspect, Finish, Goto, SenderPoints, serverVars
<1>2. IsQueue(queue)
  BY DEF Inv, TypeOK
<1>3. Keeps(queue, queue')
  BY <1>1, <1>2, KeepsSame, KeepsPrepared
<1>4. \A v \in Replayers : pc'[v] = pc[v]
  BY <1>1, CoordinatorConstants
<1> QED BY <1>1, <1>3, <1>4, OthersStep

\* A request is sent under its own id, before it has a row.
LEMMA RecheckBankHistory ==
  ASSUME Inv, Inv', History, NEW r \in Requests, RecheckBank(r)
  PROVE  History'
<1>1. /\ queue' = queue /\ shielded' = shielded /\ applied' = applied /\ work' = work
      /\ \E point \in SenderPoints : pc' = [pc EXCEPT ![r] = point]
      /\ sent' = sent \/ Send(r, r)
  BY DEF RecheckBank, Finish, Goto, SenderPoints, fileVars
<1>2. \A v \in Replayers : pc'[v] = pc[v]
  BY <1>1, CoordinatorConstants
<1>3. ShieldOK' /\ NotesOK'
  BY <1>1, <1>2, KeepsSame, ShieldStep DEF History, NotesOK
<1>4. r \notin DOMAIN queue /\ r \in Ids /\ r \in Operations
  BY DEF Inv, RowsOK, RecheckBank, Ids, Writes, Operations
<1>5. OpsOK'
  BY <1>1, <1>4, KeepsSame, OpsStep, SendStep DEF History
<1> QED BY <1>3, <1>5 DEF History

\* What the enqueue transaction may leave in the file forgets nothing.
LEMMA EnqueuedKeeps ==
  ASSUME Inv, NEW r \in Requests, pc[r] = "queueing"
  PROVE  /\ Keeps(queue, Enqueued(r))
         /\ Keeps(queue, Enqueue(PrepareQueue(queue, writeBank), r,
                                 FreshRow(bankOf[r], r, line)))
         /\ r \in DOMAIN Enqueued(r)
         /\ Gates(Enqueued(r)) # {} => Shielding(Enqueued(r)[r].state)
<1> DEFINE ready == PrepareQueue(queue, writeBank)
           row == FreshRow(bankOf[r], r, line)
           q == Enqueue(ready, r, row)
<1>1. /\ IsQueue(queue) /\ IsQueue(ready)
      /\ DOMAIN ready = DOMAIN queue
      /\ Keeps(queue, ready)
  <2>1. IsQueue(queue)
    BY DEF Inv, TypeOK
  <2> QED BY <2>1, PrepareQueueType, KeepsPrepared
<1>2. /\ r \in Ids \ DOMAIN ready
      /\ row \in Row /\ row.op = r
  <2>1. r \in Ids \ DOMAIN queue /\ r \in Operations
    BY DEF Inv, RowsOK, Ids, Writes, Operations
  <2>2. line \in Nat /\ bankOf[r] \in Banks
    BY DEF Inv, TypeOK, BanksOK, AdmittedPoints
  <2> QED BY <1>1, <2>1, <2>2, NewRowType DEF FreshRow
<1>3. IsQueue(q) /\ DOMAIN q = DOMAIN queue \cup {r}
  BY EnqueuedRows
<1>4. Keeps(ready, q)
  <2> HIDE DEF row, ready
  <2> QED BY <1>1, <1>2, KeepsAppend
<1>5. Keeps(queue, q)
  <2> HIDE DEF q
  <2> QED BY <1>1, <1>3, <1>4, KeepsTransitive
<1>6. /\ Enqueued(r) = PrepareQueue(q, writeBank)
      /\ DOMAIN PrepareQueue(q, writeBank) = DOMAIN q
  BY DEF Enqueued, PrepareQueue
<1> HIDE DEF q
<1>7. Keeps(q, Enqueued(r))
  BY <1>3, <1>6, KeepsPrepared
<1>8. Keeps(queue, Enqueued(r))
  BY <1>3, <1>5, <1>6, <1>7, KeepsTransitive
<1>9. ASSUME Gates(Enqueued(r)) # {}
      PROVE  Shielding(Enqueued(r)[r].state)
  <2>1. Gates(q) # {}
    BY <1>3, <1>6, <1>9, PrepareQueueType DEF Gates, Benign
  <2>2. q[r] \in Row /\ q[r].state \in ReplayState
    BY <1>3 DEF IsQueue, Row
  <2>3. Enqueued(r)[r].state = PreparedState(q, r, writeBank)
    BY <1>3, <1>6, <2>2 DEF PrepareQueue, Row
  <2> QED BY <2>1, <2>2, <2>3 DEF PreparedState, Protect, Quarantine, Shielding, ReplayState
<1> QED BY <1>3, <1>5, <1>6, <1>8, <1>9 DEF q

\* A request queued behind a gate is protected by the same transaction.
LEMMA EnqueueRequestHistory ==
  ASSUME Inv, Inv', History, NEW r \in Requests, EnqueueRequest(r)
  PROVE  History'
<1>1. /\ pc[r] = "queueing" /\ pc' = [pc EXCEPT ![r] = "done"]
      /\ sent' = sent /\ applied' = applied /\ work' = work
      /\ \/ queue' \in {queue, PrepareQueue(queue, writeBank)} /\ shielded' = shielded
         \/ /\ queue' = Enqueued(r)
            /\ shielded' = IF Gates(queue') # {} THEN shielded \cup {r} ELSE shielded
  BY DEF EnqueueRequest, Finish, Goto, fileVars, serverVars
<1>2. IsQueue(queue)
  BY DEF Inv, TypeOK
<1>3. Keeps(queue, queue')
  BY <1>1, <1>2, KeepsSame, KeepsPrepared, EnqueuedKeeps
<1>4. /\ shielded' \ shielded \subseteq {r}
      /\ \A i \in shielded' \ shielded : i \in DOMAIN queue' /\ Shielding(queue'[i].state)
  BY <1>1, EnqueuedKeeps
<1>5. \A v \in Replayers : pc'[v] = pc[v]
  BY <1>1, CoordinatorConstants
<1>6. \A v \in Replayers : pc[v] \in ClaimPoints => work[v].target # r
  BY <1>1 DEF Inv, ClaimsOK, Claim, RowsOK
<1>7. ShieldOK' /\ NotesOK'
  BY <1>1, <1>3, <1>4, <1>5, <1>6, ShieldStep DEF History, NotesOK
<1>8. OpsOK'
  BY <1>1, <1>3, OpsStep DEF History
<1> QED BY <1>7, <1>8 DEF History

-----------------------------------------------------------------------------
(* Steps of flushes *)

\* The steps of a flush before it claims a row.
LEMMA PreparingHistory ==
  ASSUME Inv, Inv', History, NEW w \in Replayers,
         \/ Flush(w) \/ ReplayQueue(w) \/ PrepareReplayOperationIds(w)
         \/ BatchDone(w) \/ Reopen(w)
  PROVE  History'
<1>1. IsQueue(queue)
  BY DEF Inv, TypeOK
<1>2. /\ shielded' = shielded /\ sent' = sent /\ applied' = applied
      /\ \A v \in Replayers \ {w} : work'[v] = work[v]
      /\ \E point \in {"idle", "begin", "ids", "probe", "batch"} :
           pc' = [pc EXCEPT ![w] = point]
  BY DEF Flush, ReplayQueue, PrepareReplayOperationIds, BatchDone, Reopen, EndReplay, Goto,
         serverVars, Inv, TypeOK
<1>3. Keeps(queue, queue')
  <2>1. CASE queue' = queue
    BY <2>1, KeepsSame
  <2>2. CASE ReplayQueue(w)
    <3> DEFINE prepared == PrepareQueue(queue, writeBank)
    <3>1. queue' \in {queue, prepared, Cleanup(prepared)}
      BY <2>2 DEF ReplayQueue
    <3>2. /\ IsQueue(prepared) /\ DOMAIN prepared = DOMAIN queue
          /\ Keeps(queue, prepared)
      BY <1>1, PrepareQueueType, KeepsPrepared
    <3> HIDE DEF prepared
    <3>3. /\ Keeps(prepared, Cleanup(prepared))
          /\ DOMAIN Cleanup(prepared) \subseteq DOMAIN prepared
      BY <3>2, KeepsCleanup, CleanupType
    <3>4. Keeps(queue, Cleanup(prepared))
      BY <3>2, <3>3 DEF Keeps
    <3> QED BY <3>1, <3>2, <3>4, KeepsSame
  <2>3. CASE PrepareReplayOperationIds(w) /\ queue' # queue
    <3>1. PICK plan : queue' = EnsureOperationIds(queue, plan)
      BY <2>3 DEF PrepareReplayOperationIds
    <3> QED BY <1>1, <3>1, KeepsNamed
  <2> QED BY <2>1, <2>2, <2>3 DEF Flush, BatchDone, Reopen, fileVars
<1>4. ASSUME NEW point \in {"idle", "begin", "ids", "probe", "batch"}
      PROVE  point \notin ClaimPoints
  BY DEF ClaimPoints
<1> QED BY <1>2, <1>3, <1>4, SettlingStep

\* A row that is passed over leaves no claim.
LEMMA PassOverEnds ==
  ASSUME Inv, NEW w \in Replayers, NEW i, NEW n, PassOver(w, i, n) \/ EndReplay(w)
  PROVE  /\ \A v \in Replayers \ {w} : work'[v] = work[v]
         /\ \E point : point \notin ClaimPoints /\ pc' = [pc EXCEPT ![w] = point]
BY ZenonT(60) DEF PassOver, EndReplay, Goto, Inv, TypeOK, ClaimPoints

\* The claim writes the id and the marker; the flush notes both, and the state of the
\* row before.
LEMMA AttemptHistory ==
  ASSUME Inv, Inv', History, NEW w \in Replayers, pc[w] \in {"probe", "batch"},
         NEW i, Attempt(w, i), UNCHANGED <<serverVars, shielded>>
  PROVE  History'
<1>1. IsQueue(queue) /\ sent' = sent /\ applied' = applied /\ shielded' = shielded
  BY DEF Inv, TypeOK, serverVars
<1>2. CASE queue' = queue /\ (EndReplay(w) \/ PassOver(w, i, work[w].attempts + 1))
  BY <1>1, <1>2, PassOverEnds, KeepsSame, SettlingStep
<1>3. CASE /\ ~MustStop(i) /\ ~Blocked(i)
           /\ \E op \in OperationFor(w, i) :
                /\ queue' = Claimed(i, op)
                /\ work' = [work EXCEPT ![w].target = i,
                                        ![w].before = queue[i].state,
                                        ![w].op = op,
                                        ![w].attempts = @ + 1]
           /\ Goto(w, "check")
  <2>1. PICK op \in OperationFor(w, i) :
          /\ queue' = Claimed(i, op)
          /\ work' = [work EXCEPT ![w].target = i,
                                  ![w].before = queue[i].state,
                                  ![w].op = op,
                                  ![w].attempts = @ + 1]
    BY <1>3
  <2>2. i \in DOMAIN queue /\ ~Corrupt(queue, i)
    BY <1>3 DEF MustStop, Blocked, Quarantined, Corrupt
  <2> DEFINE plan == [j \in {i} |-> op]
             named == EnsureOperationIds(queue, plan)
             state == [queue[i].state EXCEPT !.present = TRUE, !.sending = TRUE]
  <2>3. queue[i] \in Row /\ queue[i].state \in ReplayState
    BY <1>1, <2>2 DEF IsQueue, Row
  <2>4. op \in Operations /\ (queue[i].op # NoOp => op = queue[i].op)
    <3>1. i \in DOMAIN work[w].plan => work[w].plan[i] \in FreshOps
      BY DEF Inv, TypeOK, IsWork
    <3>2. queue[i].op \in Operations \cup {NoOp}
      BY <2>3 DEF Row
    <3> QED BY <3>1, <3>2 DEF OperationFor, UnusedOps, Operations
  <2>5. /\ Keeps(queue, named)
        /\ DOMAIN named = DOMAIN queue
        /\ IsQueue(named)
        /\ named[i].state = queue[i].state
        /\ named[i].op = op
    <3>1. \A j \in DOMAIN plan : plan[j] \in Operations
      BY <2>4
    <3>2. named[i].op = op
      BY <2>2, <2>3, <2>4 DEF EnsureOperationIds, Row
    <3> QED BY <1>1, <2>2, <3>1, <3>2, KeepsNamed, EnsureOperationIdsType
  <2>6. /\ state \in ReplayState
        /\ Shielding(queue[i].state) => Shielding(state)
        /\ state.quarantine = queue[i].state.quarantine
    BY <2>3 DEF Shielding, ReplayState
  <2>7. queue' = SetReplayState(named, i, state)
    BY <2>1 DEF Claimed
  <2> HIDE DEF named, state
  <2>8. Keeps(named, queue') /\ DOMAIN queue' = DOMAIN named /\ queue'[i].op = op
    BY <2>2, <2>5, <2>6, <2>7, KeepsState, SetReplayStateType DEF Corrupt
  <2>9. Keeps(queue, queue')
    BY <2>5, <2>8, KeepsTransitive
  <2>10. /\ pc' = [pc EXCEPT ![w] = "check"]
         /\ work'[w].target = i /\ work'[w].before = queue[i].state /\ work'[w].op = op
         /\ \A v \in Replayers \ {w} : work'[v] = work[v]
    BY <1>3, <2>1 DEF Goto, Inv, TypeOK, IsWork
  <2>11. ShieldOK'
    BY <1>1, <2>9 DEF History, ShieldOK, Keeps, Owed
  <2>12. Note(work[w])'
    <3>1. ~Corrupt(queue', i)
      BY <2>2, <2>5, <2>8, <2>9 DEF Keeps
    <3>2. i \in Owed' => queue[i].state.protected
      BY <1>1 DEF History, ShieldOK, Owed, Shielding
    <3> QED BY <2>8, <2>10, <3>1, <3>2 DEF Note
  <2>13. \A v \in Replayers : pc[v] \in ClaimPoints => v = w
    BY OneDeliverer DEF Inv, LocksOK, Actors
  <2>14. \A v \in Replayers : v # w => pc'[v] \notin ClaimPoints
    BY <2>10, <2>13 DEF Inv, TypeOK, Actors
  <2>15. pc'[w] = "check"
    BY <2>10 DEF Inv, TypeOK, Actors
  <2>16. NotesOK'
    BY <2>12, <2>14, <2>15 DEF NotesOK, ClaimPoints
  <2>17. OpsOK'
    BY <1>1, <2>9, OpsStep DEF History
  <2> QED BY <2>11, <2>16, <2>17 DEF History
<1> QED BY <1>2, <1>3 DEF Attempt

\* A flush that has claimed a row and moves on leaves the file alone.
LEMMA MovingHistory ==
  ASSUME Inv, Inv', History, NEW w \in Replayers,
         CheckBank(w) \/ Deliver(w) \/ Refuse(w)
  PROVE  History'
<1>1. /\ queue' = queue /\ shielded' = shielded /\ work' = work
      /\ applied \subseteq applied'
      /\ pc[w] \in {"check", "http"}
      /\ \E point : /\ pc' = [pc EXCEPT ![w] = point]
                    /\ point = "delivered" => work[w].target \in applied'
  BY DEF CheckBank, Deliver, Refuse, Goto, Perform, fileVars
<1>2. \A v \in Replayers : pc'[v] \in ClaimPoints => 
        /\ pc[v] \in ClaimPoints
        /\ pc'[v] = "delivered" => pc[v] = "delivered" \/ work[v].target \in applied'
  BY <1>1 DEF ClaimPoints, Inv, TypeOK, Actors
<1>3. ShieldOK' /\ NotesOK'
  BY <1>1, <1>2, KeepsSame, ShieldStep
<1>4. OpsOK'
  <2>1. CASE sent' = sent
    BY <1>1, <2>1, KeepsSame, OpsStep DEF History
  <2>2. CASE pc[w] = "check" /\ Send(work[w].target, work[w].op)
    <3>1. /\ work[w].target \in DOMAIN queue
          /\ work[w].target \in Ids
          /\ work[w].op \in Operations
          /\ Note(work[w])
      BY <2>2 DEF Inv, ClaimsOK, Claim, ClaimPoints, History, NotesOK, TypeOK, IsQueue
    <3>2. work[w].target \in Requests => work[w].op = work[w].target
      BY <3>1 DEF Note, History, OpsOK
    <3> QED BY <1>1, <2>2, <3>1, <3>2, SendStep DEF Note, History
  <2> QED BY <2>1, <2>2 DEF CheckBank, Deliver, Refuse
<1> QED BY <1>3, <1>4 DEF History

\* What settling a row makes of its state.
LEMMA CompletedKeeps ==
  ASSUME Inv, History, NEW w \in Replayers, pc[w] \in ClaimPoints
  PROVE  /\ work[w].target \in DOMAIN queue
         /\ IsQueue(queue)
         /\ Completed(w) \in ReplayState
         /\ Completed(w).quarantine # "corrupt"
         /\ Shielding(queue[work[w].target].state) => Shielding(Completed(w))
         /\ ~Corrupt(queue, work[w].target)
<1>1. /\ work[w].target \in DOMAIN queue
      /\ IsQueue(queue)
      /\ Completed(w) \in ReplayState
      /\ queue[work[w].target].state \in ReplayState
      /\ work[w].before \in ReplayState
      /\ ~Corrupt(queue, work[w].target)
  BY TargetFacts DEF History, NotesOK, Note
<1>2. /\ Completed(w).quarantine = queue[work[w].target].state.quarantine
      /\ Completed(w).protected = queue[work[w].target].state.protected
      /\ queue[work[w].target].state.protected => Completed(w).present
  BY <1>1 DEF Completed, CompletedReplayState, ReplayState
<1> QED BY <1>1, <1>2 DEF Corrupt, Shielding

\* The outcomes that keep the row.
LEMMA KeptHistory ==
  ASSUME Inv, Inv', History, NEW w \in Replayers,
         Unroute(w) \/ Mismatch(w) \/ QuarantinePermanent(w)
  PROVE  History'
<1> DEFINE i == work[w].target
<1>1. /\ pc[w] \in ClaimPoints
      /\ sent' = sent /\ applied' = applied /\ shielded' = shielded
      /\ \/ EndReplay(w)
         \/ \E n : PassOver(w, i, n)
  BY DEF Unroute, Mismatch, QuarantinePermanent, ClaimPoints, serverVars
<1>2. /\ i \in DOMAIN queue /\ IsQueue(queue)
      /\ Completed(w) \in ReplayState
      /\ Completed(w).quarantine # "corrupt"
      /\ Shielding(queue[i].state) => Shielding(Completed(w))
      /\ ~Corrupt(queue, i)
  BY <1>1, CompletedKeeps
<1>3. work[w].before \in ReplayState /\ (i \in Owed => work[w].before.protected)
  BY <1>1, TargetFacts DEF History, NotesOK, Note
<1>4. PICK s \in ReplayState :
        /\ queue' = SetReplayState(queue, i, s)
        /\ s.quarantine # "corrupt"
        /\ i \in Owed /\ Shielding(queue[i].state) => Shielding(s)
  <2>1. CASE Unroute(w)
    BY <1>2, <2>1 DEF Unroute
  <2>2. CASE Mismatch(w)
    <3> DEFINE s == Quarantine(work[w].before, "bank-mismatch")
    <3>1. /\ s \in ReplayState
          /\ s.quarantine = "bank-mismatch"
          /\ work[w].before.protected => Shielding(s)
      BY <1>3 DEF Quarantine, ReplayState, Shielding
    <3>2. queue' = SetReplayState(queue, i, s)
      BY <2>2 DEF Mismatch
    <3> HIDE DEF s
    <3> QED BY <1>3, <3>1, <3>2
  <2>3. CASE QuarantinePermanent(w)
    <3> DEFINE s == Quarantine(Completed(w), "permanent")
    <3>1. /\ s \in ReplayState
          /\ s.quarantine = "permanent"
          /\ Shielding(Completed(w)) => Shielding(s)
      BY <1>2 DEF Quarantine, ReplayState, Shielding
    <3>2. queue' = SetReplayState(queue, i, s)
      BY <2>3 DEF QuarantinePermanent
    <3> HIDE DEF s
    <3> QED BY <1>2, <3>1, <3>2
  <2> QED BY <2>1, <2>2, <2>3
<1>5. Keeps(queue, queue')
  BY <1>2, <1>4, KeepsState
<1> HIDE DEF i
<1> QED BY <1>1, <1>5, PassOverEnds, SettlingStep

\* An abandoned row has no state left, so no gate has protected it.
LEMMA RecordTransientFailureHistory ==
  ASSUME Inv, Inv', History, NEW w \in Replayers, RecordTransientFailure(w)
  PROVE  History'
<1> DEFINE i == work[w].target
           counted == IncrementReplayAttempts(queue, i)
           settled == SetReplayState(counted, i, Completed(w))
<1>1. /\ pc[w] \in ClaimPoints
      /\ sent' = sent /\ applied' = applied /\ shielded' = shielded
      /\ EndReplay(w)
      /\ \/ queue' = settled
         \/ queue' = Remove(settled, i) /\ ~Completed(w).present
  BY DEF RecordTransientFailure, ClaimPoints, serverVars
<1>2. /\ i \in DOMAIN queue /\ IsQueue(queue)
      /\ Completed(w) \in ReplayState
      /\ Completed(w).quarantine # "corrupt"
      /\ Shielding(queue[i].state) => Shielding(Completed(w))
      /\ ~Corrupt(queue, i)
  BY <1>1, CompletedKeeps
<1>3. /\ IsQueue(counted) /\ DOMAIN counted = DOMAIN queue
      /\ counted[i].state = queue[i].state
      /\ Keeps(queue, counted)
  BY <1>2, IncrementType, KeepsCounted
<1> HIDE DEF counted, i
<1>4. /\ IsQueue(settled) /\ DOMAIN settled = DOMAIN counted
      /\ settled[i].state = Completed(w)
      /\ Keeps(counted, settled)
  BY <1>2, <1>3, SetReplayStateType, KeepsState DEF Corrupt
<1>5. Keeps(queue, settled)
  BY <1>3, <1>4, KeepsTransitive
<1> HIDE DEF settled
<1>6. CASE queue' = settled
  BY <1>1, <1>5, <1>6, PassOverEnds, SettlingStep
<1>7. CASE queue' = Remove(settled, i) /\ ~Completed(w).present
  <2>1. ~Shielding(queue[i].state)
    BY <1>2, <1>7 DEF Shielding
  <2>2. /\ DOMAIN queue' = DOMAIN settled \ {i}
        /\ \A j \in DOMAIN settled \ {i} : queue'[j] = settled[j]
    BY <1>4, <1>7, RemoveType
  <2>3. Keeps(queue, queue')
    BY <1>3, <1>4, <1>5, <2>1, <2>2 DEF Keeps, Corrupt
  <2> QED BY <1>1, <2>3, PassOverEnds, SettlingStep
<1> QED BY <1>1, <1>6, <1>7

\* A row is deleted when the server has it.
LEMMA AcknowledgeHistory ==
  ASSUME Inv, Inv', History, NEW w \in Replayers, Acknowledge(w)
  PROVE  History'
<1>1. /\ queue' = Remove(queue, work[w].target)
      /\ sent' = sent /\ applied' = applied /\ shielded' = shielded
      /\ work[w].target \in applied
      /\ \A v \in Replayers \ {w} : work'[v] = work[v]
      /\ \E point \in {"idle", "reopen", "batch"} : pc' = [pc EXCEPT ![w] = point]
  BY DEF Acknowledge, EndReplay, Goto, serverVars, History, NotesOK, Inv, TypeOK
<1>2. Keeps(queue, queue')
  <2>1. IsQueue(queue) /\ work[w].target \notin Owed
    BY <1>1 DEF Inv, TypeOK, Owed
  <2> QED BY <1>1, <2>1, KeepsRemoved
<1>3. ASSUME NEW point \in {"idle", "reopen", "batch"} PROVE point \notin ClaimPoints
  BY DEF ClaimPoints
<1> QED BY <1>1, <1>2, <1>3, SettlingStep

\* A denied probe protects every row of the file.
LEMMA DenyHistory ==
  ASSUME Inv, Inv', History, NEW w \in Replayers, Deny(w)
  PROVE  History'
<1>1. /\ queue' = DenyReplay(queue, work[w].target)
      /\ shielded' = shielded \cup DOMAIN queue
      /\ sent' = sent /\ applied' = applied
      /\ EndReplay(w)
      /\ pc[w] = "denied"
  BY DEF Deny, serverVars
<1>2. /\ Keeps(queue, queue')
      /\ \A j \in DOMAIN queue : j \in DOMAIN queue' /\ Shielding(queue'[j].state)
  <2>1. IsQueue(queue)
    BY DEF Inv, TypeOK
  <2> QED BY <1>1, <2>1, KeepsDenied
<1>3. \A v \in Replayers \ {w} : pc[v] \notin ClaimPoints
  BY <1>1, OneDeliverer DEF Inv, LocksOK, Actors
<1> QED BY <1>1, <1>2, <1>3, PassOverEnds, SettlingStep

-----------------------------------------------------------------------------
(* Crashes and the environment *)

LEMMA AbortSenderHistory ==
  ASSUME Inv, Inv', History, NEW r \in Requests, Abort(r)
  PROVE  History'
<1>1. /\ pc' = [pc EXCEPT ![r] = "done"]
      /\ queue' \in {queue} \cup PartialWrites(r)
      /\ applied \subseteq applied'
      /\ work' = work /\ sent' = sent /\ shielded' = shielded
  BY DEF Abort, Finish, Goto, Perform
<1>2. IsQueue(queue) /\ line \in Nat /\ pc[r] \in SenderPoints
  BY DEF Inv, TypeOK, PointsOK
<1>3. Keeps(queue, queue')
  <2>1. CASE pc[r] = "queueing" /\ queue' # queue
    <3>1. \/ queue' = PrepareQueue(queue, writeBank)
          \/ queue' = Enqueue(PrepareQueue(queue, writeBank), r,
                              FreshRow(bankOf[r], r, line))
          \/ queue' = Enqueued(r)
          \/ \E b \in Barriers \ DOMAIN queue :
               queue' = Enqueue(PrepareQueue(queue, writeBank), b, CorruptRow(line))
      BY <1>1, <2>1 DEF PartialWrites
    <3>2. ASSUME NEW b \in Barriers \ DOMAIN queue
          PROVE  Keeps(queue, Enqueue(PrepareQueue(queue, writeBank), b, CorruptRow(line)))
      <4> DEFINE ready == PrepareQueue(queue, writeBank)
                 row == CorruptRow(line)
      <4>1. IsQueue(ready) /\ DOMAIN ready = DOMAIN queue /\ Keeps(queue, ready)
        BY <1>2, PrepareQueueType, KeepsPrepared
      <4>2. /\ row \in Row /\ row.state.quarantine = "corrupt"
            /\ b \in Ids \ DOMAIN ready /\ b \notin Requests
        BY <1>2, <4>1, NewRowType, QueueConstants DEF CorruptRow, NoState, Ids
      <4> HIDE DEF ready, row
      <4>3. IF b \in Requests THEN row.op = b ELSE row.state.quarantine = "corrupt"
        BY <4>2
      <4>4. Keeps(ready, Enqueue(ready, b, row))
        BY <4>1, <4>2, <4>3, KeepsAppend
      <4>5. DOMAIN ready \subseteq DOMAIN Enqueue(ready, b, row)
        <5>1. DOMAIN Enqueue(ready, b, row) = DOMAIN ready \cup {b}
          BY <4>1, <4>2, EnqueueType
        <5> QED BY <5>1
      <4>6. Keeps(queue, Enqueue(ready, b, row))
        BY <4>1, <4>4, <4>5, KeepsTransitive
      <4> QED BY <4>6 DEF ready, row
    <3> QED BY <1>2, <2>1, <3>1, <3>2, KeepsPrepared, EnqueuedKeeps
  <2>2. CASE pc[r] # "queueing" /\ queue' # queue
    <3>1. PartialWrites(r) = {}
      BY <1>2, <2>2 DEF PartialWrites, SenderPoints, Abort
    <3> QED BY <1>1, <2>2, <3>1
  <2> QED BY <2>1, <2>2, KeepsSame
<1>4. \A v \in Replayers : pc'[v] = pc[v]
  BY <1>1, CoordinatorConstants
<1> QED BY <1>1, <1>3, <1>4, OthersStep

LEMMA AbortReplayHistory ==
  ASSUME Inv, Inv', History, NEW w \in Replayers, Abort(w)
  PROVE  History'
<1>1. /\ EndReplay(w)
      /\ queue' \in {queue} \cup PartialWrites(w)
      /\ applied \subseteq applied'
      /\ sent' = sent /\ shielded' = shielded
      /\ pc[w] \in ReplayPoints
  BY CoordinatorConstants DEF Abort, Perform, Inv, PointsOK
<1>2. IsQueue(queue)
  BY DEF Inv, TypeOK
<1> DEFINE i == work[w].target
           counted == IncrementReplayAttempts(queue, i)
<1>3. Keeps(queue, queue')
  <2>1. CASE pc[w] \in {"probe", "batch"} /\ queue' # queue
    <3>1. PartialWrites(w) =
            UNION {{EnsureOperationIds(queue, [j \in {k} |-> op]) :
                      op \in OperationFor(w, k)} :
                   k \in {k \in NextUp(w) : ~MustStop(k) /\ ~Blocked(k)}}
      BY <2>1 DEF PartialWrites
    <3>2. PICK k \in {k \in NextUp(w) : ~MustStop(k) /\ ~Blocked(k)} :
            queue' \in {EnsureOperationIds(queue, [j \in {k} |-> op]) :
                          op \in OperationFor(w, k)}
      BY <1>1, <2>1, <3>1
    <3>3. PICK op \in OperationFor(w, k) :
            queue' = EnsureOperationIds(queue, [j \in {k} |-> op])
      BY <3>2
    <3> QED BY <1>2, <3>3, KeepsNamed
  <2>2. CASE pc[w] \notin {"probe", "batch"} /\ queue' # queue
    <3>1. \/ queue' = PrepareQueue(queue, writeBank)
          \/ /\ pc[w] \in ClaimPoints
             /\ \/ queue' = SetReplayState(queue, i, Completed(w))
                \/ queue' = counted
                \/ queue' = SetReplayState(counted, i, Completed(w))
      BY <1>1, <2>2 DEF PartialWrites, ReplayPoints, ClaimPoints
    <3>2. CASE queue' = PrepareQueue(queue, writeBank)
      BY <1>2, <3>2, KeepsPrepared
    <3>3. CASE /\ pc[w] \in ClaimPoints
               /\ \/ queue' = SetReplayState(queue, i, Completed(w))
                  \/ queue' = counted
                  \/ queue' = SetReplayState(counted, i, Completed(w))
      <4>1. /\ i \in DOMAIN queue
            /\ Completed(w) \in ReplayState
            /\ Completed(w).quarantine # "corrupt"
            /\ Shielding(queue[i].state) => Shielding(Completed(w))
            /\ ~Corrupt(queue, i)
        BY <3>3, CompletedKeeps
      <4>2. /\ IsQueue(counted) /\ DOMAIN counted = DOMAIN queue
            /\ counted[i].state = queue[i].state
            /\ Keeps(queue, counted)
        BY <1>2, <4>1, IncrementType, KeepsCounted
      <4> HIDE DEF counted, i
      <4>3. Keeps(queue, SetReplayState(queue, i, Completed(w)))
        BY <1>2, <4>1, KeepsState
      <4>4. /\ Keeps(counted, SetReplayState(counted, i, Completed(w)))
            /\ DOMAIN SetReplayState(counted, i, Completed(w)) = DOMAIN counted
        BY <4>1, <4>2, KeepsState, SetReplayStateType DEF Corrupt
      <4>5. Keeps(queue, SetReplayState(counted, i, Completed(w)))
        BY <4>2, <4>4, KeepsTransitive
      <4> QED BY <3>3, <4>2, <4>3, <4>5
    <3> QED BY <3>1, <3>2, <3>3
  <2> QED BY <2>1, <2>2, KeepsSame
<1> QED BY <1>1, <1>3, PassOverEnds, SettlingStep

LEMMA AgeHistory ==
  ASSUME Inv, Inv', History, Age
  PROVE  History'
<1>1. PICK k : queue' = [i \in DOMAIN queue |->
                           [queue[i] EXCEPT !.old = @ \/ queue[i].pos <= k]]
  BY DEF Age
<1>2. /\ DOMAIN queue' = DOMAIN queue
      /\ \A i \in DOMAIN queue : /\ queue'[i].state = queue[i].state
                                 /\ queue'[i].op = queue[i].op
  BY <1>1 DEF Inv, TypeOK, IsQueue, Row
<1>3. Keeps(queue, queue')
  BY <1>2 DEF Keeps, Corrupt
<1> QED BY <1>3, OthersStep DEF Age, serverVars

\* The operator stops every process first, so no flush has a claim.
LEMMA OperatorResumeHistory ==
  ASSUME Inv, Inv', History, OperatorResume
  PROVE  History'
<1>1. PICK i \in Sending(queue) : queue' = DenyReplay(queue, i)
  BY DEF OperatorResume
<1>2. /\ shielded' = shielded \cup DOMAIN queue
      /\ sent' = sent /\ applied' = applied /\ pc' = pc
      /\ \A v \in Replayers : pc[v] \notin ClaimPoints
  BY DEF OperatorResume, AtRest, serverVars, ClaimPoints, Actors
<1>3. IsQueue(queue)
  BY DEF Inv, TypeOK
<1>4. /\ Keeps(queue, queue')
      /\ \A j \in DOMAIN queue : j \in DOMAIN queue' /\ Shielding(queue'[j].state)
  BY <1>1, <1>3, KeepsDenied
<1>5. ShieldOK' /\ NotesOK'
  BY <1>2, <1>4, ShieldStep
<1>6. OpsOK'
  BY <1>2, <1>4, OpsStep DEF History
<1> QED BY <1>5, <1>6 DEF History

-----------------------------------------------------------------------------
(* The theorems *)

LEMMA InitHistory == Init => History
<1> SUFFICES ASSUME Init PROVE History
  OBVIOUS
<1>1. /\ IsQueue(queue)
      /\ DOMAIN queue \cap Requests = {}
      /\ \A i \in DOMAIN queue : queue[i].state # NoState => queue[i].state.present
  BY CoordinatorConstants DEF Init
<1>2. ASSUME NEW i \in DOMAIN queue, queue[i].state.protected
      PROVE  Shielding(queue[i].state)
  BY <1>1, <1>2 DEF NoState, Shielding
<1>3. Requests \subseteq Ids /\ DOMAIN queue \subseteq Ids
  BY <1>1 DEF IsQueue, Ids, Writes
<1> QED BY <1>1, <1>2, <1>3
        DEF Init, History, ShieldOK, Owed, OpsOK, StableOperationId, NotesOK, ClaimPoints,
            Actors

LEMMA NextHistory == Inv /\ Inv' /\ History /\ [Next]_vars => History'
<1> SUFFICES ASSUME Inv, Inv', History, [Next]_vars PROVE History'
  OBVIOUS
<1>1. ASSUME NEW r \in Requests, SenderStep(r) PROVE History'
  BY <1>1, QuietSenderHistory, InspectHistory, RecheckBankHistory, EnqueueRequestHistory
  DEF SenderStep
<1>2. ASSUME NEW w \in Replayers, AttemptProbe(w) \/ AttemptNext(w) PROVE History'
  BY <1>2, AttemptHistory DEF AttemptProbe, AttemptNext
<1>3. ASSUME NEW w \in Replayers, ReplayStep(w) PROVE History'
  BY <1>2, <1>3, PreparingHistory, MovingHistory, KeptHistory, AcknowledgeHistory,
     DenyHistory, RecordTransientFailureHistory
  DEF ReplayStep
<1>4. CASE UNCHANGED vars
  BY <1>4, KeepsSame, OthersStep DEF vars
<1>5. ASSUME NEW bank, Reroute(bank) PROVE History'
  BY <1>5, KeepsSame, OthersStep DEF Reroute, fileVars, serverVars
<1>6. CASE Environment
  BY <1>5, <1>6, AbortSenderHistory, AbortReplayHistory, AgeHistory, OperatorResumeHistory
  DEF Environment, Actors
<1> QED BY <1>1, <1>3, <1>4, <1>6 DEF Next, Settled

\* History holds in every reachable state.
THEOREM HistoryInvariance == Spec => []History
BY Invariance, InitHistory, NextHistory, PTL DEF Spec

\* A row that a closed gate has protected stays in the file, through retries, expiry,
\* crashes and restarts, until the server has it (prepareQueue, cleanup,
\* recordTransientFailure).
THEOREM ShieldedNeverLost == Spec => []ShieldedNotLost
<1>1. History => ShieldedNotLost
  BY DEF History, ShieldOK, Owed, ShieldedNotLost
<1> QED BY <1>1, HistoryInvariance, PTL

\* Every request of a write carries one operation id, over retries, crashes and
\* restarts (ensureOperationId, deliverQueued).
THEOREM OperationIdsStable == Spec => []StableOperationId
<1>1. History => StableOperationId
  BY DEF History, OpsOK
<1> QED BY <1>1, HistoryInvariance, PTL

-----------------------------------------------------------------------------
(* Order.  Writes of one document reach the server in the order their       *)
(* senders were admitted.  The sender that is admitted has the last turn,   *)
(* and its row is appended behind all others, so the lines of the file are  *)
(* in the order of the turns.  Whoever sends has seen that no row of the    *)
(* document is in front: a flush when it claimed its row, a sender when it  *)
(* inspected the file.  Order is the inductive invariant, on top of Inv;    *)
(* the same invariants tell which rows may leave the file (Removable).      *)

TurnsOK ==
  /\ \A i \in Writes : turn[i] <= tickets
  /\ \A r \in Requests :
       /\ pc[r] \in AdmittedPoints => turn[r] = tickets
       /\ pc[r] = "idle" => turn[r] = 0 /\ r \notin applied

\* The lines of the file are in the order of the turns, and the row of a request
\* is for the bank the request was resolved to.
LinesOK ==
  /\ \A i, k \in DOMAIN queue \cap Writes : turn[i] < turn[k] => Before(queue, i, k)
  /\ \A r \in DOMAIN queue \cap Requests : queue[r].bank = bankOf[r]

\* No row of the file is for the document of the request r.
Alone(q, r) ==
  \A i \in DOMAIN q : ~(DocOf[i] # NoDoc /\ DocOf[i] = DocOf[r] /\ q[i].bank = bankOf[r])

DirectOK == \A r \in Requests : pc[r] \in SoloPoints => Alone(queue, r)

FirstOK ==
  \A w \in Replayers : pc[w] \in ClaimPoints => ~HasPredecessor(queue, work[w].target)

\* The row i waits for the server, and the request j for its document is later.
Precedes(i, j) ==
  /\ 0 < turn[i] /\ turn[i] < turn[j]
  /\ DocOf[i] # NoDoc /\ DocOf[i] = DocOf[j] /\ queue[i].bank = bankOf[j]

WaitingOK ==
  \A i \in DOMAIN queue \cap Writes, j \in Requests : Precedes(i, j) => j \notin applied

Order == TurnsOK /\ LinesOK /\ DirectOK /\ FirstOK /\ WaitingOK

-----------------------------------------------------------------------------
(* The rewrites of RetainQueue keep every row at its place *)

\* No row is new, and what is left has its line and its bank.
SameRows(q, q2) ==
  \A i \in DOMAIN q2 : i \in DOMAIN q /\ q2[i].pos = q[i].pos /\ q2[i].bank = q[i].bank

LEMMA RowsSame == \A q : SameRows(q, q)
BY DEF SameRows

LEMMA RowsTransitive ==
  ASSUME NEW q1, NEW q2, NEW q3, SameRows(q1, q2), SameRows(q2, q3)
  PROVE  SameRows(q1, q3)
BY DEF SameRows

LEMMA RowsPrepared ==
  ASSUME NEW q, IsQueue(q), NEW bank
  PROVE  SameRows(q, PrepareQueue(q, bank))
BY DEF SameRows, PrepareQueue, IsQueue, Row

LEMMA RowsNamed ==
  ASSUME NEW q, IsQueue(q), NEW plan
  PROVE  SameRows(q, EnsureOperationIds(q, plan))
BY DEF SameRows, EnsureOperationIds, IsQueue, Row

LEMMA RowsState ==
  ASSUME NEW q, IsQueue(q), NEW i \in DOMAIN q, NEW s
  PROVE  SameRows(q, SetReplayState(q, i, s))
BY DEF SameRows, SetReplayState, IsQueue, Row

LEMMA RowsCounted ==
  ASSUME NEW q, IsQueue(q), NEW i \in DOMAIN q
  PROVE  SameRows(q, IncrementReplayAttempts(q, i))
BY DEF SameRows, IncrementReplayAttempts, IsQueue, Row

LEMMA RowsRemoved ==
  ASSUME NEW q, IsQueue(q), NEW i
  PROVE  SameRows(q, Remove(q, i))
BY RemoveType DEF SameRows

LEMMA RowsCleanup ==
  ASSUME NEW q, IsQueue(q)
  PROVE  SameRows(q, Cleanup(q))
BY CleanupType DEF SameRows

LEMMA RowsDenied ==
  ASSUME NEW q, IsQueue(q), NEW i
  PROVE  SameRows(q, DenyReplay(q, i))
BY DEF SameRows, DenyReplay, IsQueue, Row

-----------------------------------------------------------------------------
(* What a step has to do for Order *)

\* A rewrite that keeps the rows at their places and may append the row of a
\* sender that is queueing, or a barrier.
Appends(q2) ==
  \A i \in DOMAIN q2 \ Barriers :
    IF i \in DOMAIN queue
    THEN q2[i].pos = queue[i].pos /\ q2[i].bank = queue[i].bank
    ELSE i \in Requests /\ pc[i] = "queueing" /\ q2[i].pos = line /\ q2[i].bank = bankOf[i]

\* A step that admits no sender and moves no row.
Ordered ==
  /\ Appends(queue')
  /\ turn' = turn /\ bankOf' = bankOf
  /\ \A r \in Requests : pc'[r] \in AdmittedPoints => pc[r] \in AdmittedPoints

LEMMA SameAppends ==
  ASSUME NEW q2, SameRows(queue, q2)
  PROVE  Appends(q2)
BY DEF SameRows, Appends

\* A barrier stands for no document.
LEMMA BarriersNowhere ==
  /\ \A b \in Barriers : DocOf[b] = NoDoc
  /\ Barriers \cap Writes = {}
  /\ Requests \subseteq Writes
BY QueueConstants DEF Writes

\* Who waits for a document of which a write is on the wire was admitted later.
LEMMA WireFirst ==
  ASSUME Inv, Order, NEW a \in Actors, pc[a] = "http", OnWire(a) \in Writes,
         NEW i \in Writes, Alive(i),
         DocOf[i] # NoDoc, DocOf[i] = DocOf[OnWire(a)], BankOf(i) = BankOf(OnWire(a))
  PROVE  turn[i] >= turn[OnWire(a)]
<1> DEFINE k == OnWire(a)
<1>1. turn[i] \in Nat /\ turn[k] \in Nat /\ tickets \in Nat /\ turn[k] <= tickets
  BY DEF Inv, TypeOK, Order, TurnsOK
<1>2. CASE i \notin DOMAIN queue
  <2>1. i \in Requests /\ pc[i] \in AdmittedPoints
    BY <1>2 DEF Alive, SenderPoints, AdmittedPoints
  <2>2. turn[i] = tickets
    BY <2>1 DEF Order, TurnsOK
  <2> QED BY <1>1, <2>2
<1>3. CASE i \in DOMAIN queue /\ a \in Requests
  <2>1. k = a /\ a \notin DOMAIN queue
    BY <1>3 DEF OnWire, Inv, RowsOK
  <2>2. Alone(queue, a)
    BY <1>3 DEF Order, DirectOK, SoloPoints
  <2> QED BY <1>3, <2>1, <2>2 DEF BankOf, Alone
<1>4. CASE i \in DOMAIN queue /\ a \notin Requests
  <2>1. a \in Replayers /\ pc[a] \in ClaimPoints /\ k = work[a].target
    BY <1>4 DEF Actors, ClaimPoints, OnWire
  <2>2. k \in DOMAIN queue /\ ~HasPredecessor(queue, k)
    BY <2>1 DEF Inv, ClaimsOK, Claim, Order, FirstOK
  <2>3. SameRetainDocument(queue, i, k)
    BY <1>4, <2>2 DEF BankOf, SameRetainDocument
  <2>4. ~Before(queue, i, k)
    BY <1>4, <2>2, <2>3 DEF HasPredecessor
  <2>5. ~(turn[i] < turn[k])
    BY <1>4, <2>2, <2>4 DEF Order, LinesOK
  <2> QED BY <1>1, <2>5
<1> QED BY <1>2, <1>3, <1>4

\* A step that admits nobody.  A flush comes to a claim, and a sender to the point
\* where it sends, only with a row, or a request, that is the first of its document.
LEMMA OrderStep ==
  ASSUME Inv, Inv', Order, Appends(queue'),
         turn' = turn, tickets' = tickets, bankOf' = bankOf,
         \A j \in applied' \ applied : \E a \in Actors : pc[a] = "http" /\ OnWire(a) = j,
         \A r \in Requests :
           /\ pc'[r] = "idle" => pc[r] = "idle"
           /\ pc'[r] \in AdmittedPoints => pc[r] \in AdmittedPoints
           /\ pc'[r] \in SoloPoints => pc[r] \in SoloPoints \/ Alone(queue', r),
         \A v \in Replayers : pc'[v] \in ClaimPoints =>
           \/ ~HasPredecessor(queue', work'[v].target)
           \/ pc[v] \in ClaimPoints /\ work'[v].target = work[v].target
  PROVE  Ordered /\ Order'
<1>1. /\ DOMAIN queue \subseteq Ids /\ DOMAIN queue' \subseteq Ids
      /\ line \in Nat /\ tickets \in Nat /\ turn \in [Writes -> Nat]
      /\ \A i \in DOMAIN queue : queue[i].pos \in Nat /\ queue[i].pos < line
      /\ \A i \in DOMAIN queue' : queue'[i].pos \in Nat
  BY DEF Inv, TypeOK, IsQueue, RowsOK, Row
<1>2. /\ Barriers \cap Writes = {} /\ Requests \subseteq Writes
      /\ \A b \in Barriers : DocOf[b] = NoDoc
  BY BarriersNowhere
<1>3. \A i \in DOMAIN queue' \ DOMAIN queue : i \notin Barriers =>
        /\ i \in Requests /\ pc[i] = "queueing" /\ turn[i] = tickets
        /\ queue'[i].pos = line /\ queue'[i].bank = bankOf[i]
  BY DEF Appends, Order, TurnsOK, AdmittedPoints
<1>4. TurnsOK'
  <2>1. ASSUME NEW r \in Requests, pc'[r] = "idle"
        PROVE  r \notin applied'
    <3>1. r \notin applied /\ pc[r] = "idle"
      BY <2>1 DEF Order, TurnsOK
    <3>2. ASSUME NEW a \in Actors, pc[a] = "http", OnWire(a) = r
          PROVE  FALSE
      <4>1. a \in Requests => a = r
        BY <3>2 DEF OnWire
      <4>2. a \notin Requests => a \in Replayers /\ r = work[a].target /\ pc[a] \in ClaimPoints
        BY <3>2 DEF OnWire, Actors, ClaimPoints
      <4>3. a \notin Requests => r \in DOMAIN queue
        BY <4>2 DEF Inv, ClaimsOK, Claim
      <4> QED BY <3>1, <3>2, <4>1, <4>3 DEF Inv, RowsOK
    <3> QED BY <3>1, <3>2
  <2> QED BY <2>1 DEF Order, TurnsOK
<1>5. LinesOK'
  <2>1. ASSUME NEW i \in DOMAIN queue' \cap Writes, NEW k \in DOMAIN queue' \cap Writes,
               turn[i] < turn[k]
        PROVE  Before(queue', i, k)
    <3>1. i \notin Barriers /\ k \notin Barriers
      BY <1>2
    <3>2. turn[k] <= tickets /\ turn[i] \in Nat /\ turn[k] \in Nat
      BY <1>1 DEF Order, TurnsOK
    <3>3. i \in DOMAIN queue
      BY <1>1, <1>3, <2>1, <3>1, <3>2
    <3>4. queue'[i].pos = queue[i].pos
      BY <3>1, <3>3 DEF Appends
    <3>5. CASE k \in DOMAIN queue
      BY <2>1, <3>1, <3>3, <3>4, <3>5 DEF Order, LinesOK, Before, Appends
    <3>6. CASE k \notin DOMAIN queue
      BY <1>1, <1>3, <3>1, <3>3, <3>4, <3>6 DEF Before
    <3> QED BY <3>5, <3>6
  <2>2. ASSUME NEW r \in DOMAIN queue' \cap Requests
        PROVE  queue'[r].bank = bankOf[r]
    BY <1>2, <1>3 DEF Order, LinesOK, Appends
  <2> QED BY <2>1, <2>2 DEF LinesOK
<1>6. DirectOK'
  <2>1. ASSUME NEW r \in Requests, pc[r] \in SoloPoints
        PROVE  Alone(queue', r)
    <3>1. \A i \in DOMAIN queue' \ Barriers : i \in DOMAIN queue
      <4>1. pc[r] \in AdmittedPoints /\ pc[r] # "queueing"
        BY <2>1 DEF SoloPoints, AdmittedPoints
      <4>2. \A s \in Requests : pc[s] = "queueing" => s = r
        BY <4>1, OneAdmitted DEF AdmittedPoints
      <4> QED BY <1>3, <4>1, <4>2
    <3>2. Alone(queue, r)
      BY <2>1 DEF Order, DirectOK
    <3> QED BY <1>2, <3>1, <3>2 DEF Alone, Appends
  <2>2. \A r \in Requests : Alone(queue', r) <=> Alone(queue, r)'
    BY DEF Alone
  <2> QED BY <2>1, <2>2 DEF DirectOK
<1>7. FirstOK'
  <2>1. ASSUME NEW v \in Replayers, pc'[v] \in ClaimPoints,
               pc[v] \in ClaimPoints, work'[v].target = work[v].target
        PROVE  ~HasPredecessor(queue', work[v].target)
    <3> DEFINE k == work[v].target
    <3>1. k \in DOMAIN queue /\ k \in DOMAIN queue' /\ ~HasPredecessor(queue, k)
      BY <2>1 DEF Inv, ClaimsOK, Claim, Order, FirstOK
    <3> HIDE DEF k
    <3>2. ASSUME NEW j \in DOMAIN queue', Before(queue', j, k),
                 SameRetainDocument(queue', j, k)
          PROVE  FALSE
      <4>1. j \notin Barriers /\ k \notin Barriers
        BY <1>2, <3>2 DEF SameRetainDocument
      <4>2. queue'[k].pos = queue[k].pos /\ queue'[k].bank = queue[k].bank
        BY <3>1, <4>1 DEF Appends
      <4>3. CASE j \in DOMAIN queue
        BY <3>1, <3>2, <4>1, <4>2, <4>3
        DEF Appends, HasPredecessor, Before, SameRetainDocument
      <4>4. CASE j \notin DOMAIN queue
        BY <1>1, <1>3, <3>1, <3>2, <4>1, <4>2, <4>4 DEF Before
      <4> QED BY <4>3, <4>4
    <3> QED BY <3>2 DEF HasPredecessor, k
  <2> QED BY <2>1 DEF FirstOK
<1>8. WaitingOK'
  <2>1. ASSUME NEW i \in DOMAIN queue' \cap Writes, NEW j \in Requests,
               0 < turn[i], turn[i] < turn[j], DocOf[i] # NoDoc, DocOf[i] = DocOf[j],
               queue'[i].bank = bankOf[j], j \in applied'
        PROVE  FALSE
    <3>1. turn[i] \in Nat /\ turn[j] \in Nat /\ turn[j] <= tickets
      BY <1>1, <1>2 DEF Order, TurnsOK
    <3>2. i \in DOMAIN queue /\ queue[i].bank = bankOf[j]
      BY <1>1, <1>2, <1>3, <2>1, <3>1 DEF Appends
    <3>3. j \notin applied
      BY <2>1, <3>2 DEF Order, WaitingOK, Precedes
    <3>4. PICK a \in Actors : pc[a] = "http" /\ OnWire(a) = j
      BY <2>1, <3>3
    <3>5. BankOf(i) = BankOf(j) /\ Alive(i)
      BY <3>2 DEF BankOf, Alive, Order, LinesOK
    <3>6. turn[i] >= turn[j]
      BY <1>2, <2>1, <3>4, <3>5, WireFirst
    <3> QED BY <2>1, <3>1, <3>6
  <2> QED BY <2>1 DEF WaitingOK, Precedes
<1> QED BY <1>4, <1>5, <1>6, <1>7, <1>8 DEF Order, Ordered

\* A step of one sender that is not its admission.
LEMMA SenderOrder ==
  ASSUME Inv, Inv', Order, NEW r \in Requests, Appends(queue'), work' = work,
         turn' = turn, tickets' = tickets, bankOf' = bankOf,
         applied' = applied \/ (pc[r] = "http" /\ applied' = applied \cup {r}),
         NEW point \in SenderPoints \ {"idle"}, pc' = [pc EXCEPT ![r] = point],
         point \in AdmittedPoints => pc[r] \in AdmittedPoints,
         point \in SoloPoints => pc[r] \in SoloPoints \/ Alone(queue', r)
  PROVE  Ordered /\ Order'
<1>1. r \in Actors /\ OnWire(r) = r
  BY DEF Actors, OnWire
<1>2. pc'[r] = point /\ \A a \in Actors \ {r} : pc'[a] = pc[a]
  BY <1>1 DEF Inv, TypeOK
<1>3. \A v \in Replayers : pc'[v] = pc[v]
  BY <1>2, CoordinatorConstants DEF Actors
<1>4. \A j \in applied' \ applied : \E a \in Actors : pc[a] = "http" /\ OnWire(a) = j
  BY <1>1
<1>5. \A s \in Requests :
        /\ pc'[s] = "idle" => pc[s] = "idle"
        /\ pc'[s] \in AdmittedPoints => pc[s] \in AdmittedPoints
        /\ pc'[s] \in SoloPoints => pc[s] \in SoloPoints \/ Alone(queue', s)
  BY <1>2 DEF Actors
<1> QED BY <1>3, <1>4, <1>5, OrderStep

\* A step of one flush.
LEMMA FlushOrder ==
  ASSUME Inv, Inv', Order, NEW w \in Replayers, SameRows(queue, queue'),
         turn' = turn, tickets' = tickets, bankOf' = bankOf,
         \/ applied' = applied
         \/ pc[w] = "http" /\ applied' = applied \cup {work[w].target},
         \A v \in Replayers \ {w} : work'[v] = work[v],
         NEW point, pc' = [pc EXCEPT ![w] = point],
         \/ point \notin ClaimPoints
         \/ pc[w] \in ClaimPoints /\ work'[w].target = work[w].target
         \/ ~HasPredecessor(queue', work'[w].target)
  PROVE  Ordered /\ Order'
<1>1. w \in Actors /\ OnWire(w) = work[w].target
  BY CoordinatorConstants DEF Actors, OnWire
<1>2. pc'[w] = point /\ \A a \in Actors \ {w} : pc'[a] = pc[a]
  BY <1>1 DEF Inv, TypeOK
<1>3. \A r \in Requests : pc'[r] = pc[r]
  BY <1>2, CoordinatorConstants DEF Actors
<1>4. \A j \in applied' \ applied : \E a \in Actors : pc[a] = "http" /\ OnWire(a) = j
  BY <1>1
<1>5. \A v \in Replayers : pc'[v] \in ClaimPoints =>
        \/ ~HasPredecessor(queue', work'[v].target)
        \/ pc[v] \in ClaimPoints /\ work'[v].target = work[v].target
  BY <1>2 DEF Actors
<1> QED BY <1>3, <1>4, <1>5, SameAppends, OrderStep

\* A step from outside that rewrites the file.
LEMMA OutsideOrder ==
  ASSUME Inv, Inv', Order, SameRows(queue, queue'), pc' = pc, work' = work,
         turn' = turn, tickets' = tickets, bankOf' = bankOf, applied' = applied
  PROVE  Ordered /\ Order'
BY SameAppends, OrderStep

-----------------------------------------------------------------------------
(* Steps of senders *)

\* The request gets the last turn; it was neither sent nor queued before.
LEMMA RetainOrder ==
  ASSUME Inv, Inv', Order, NEW r \in Requests, Retain(r)
  PROVE  Order' /\ (writeBank = NoBank => Ordered)
<1>1. CASE writeBank = NoBank
  <2>1. /\ queue' = queue /\ work' = work /\ turn' = turn /\ tickets' = tickets
        /\ bankOf' = bankOf /\ applied' = applied
        /\ pc' = [pc EXCEPT ![r] = "done"]
    BY <1>1 DEF Retain, Finish, Goto, fileVars, serverVars
  <2>2. "done" \in SenderPoints \ {"idle"} /\ "done" \notin AdmittedPoints \cup SoloPoints
    BY DEF SenderPoints, AdmittedPoints, SoloPoints
  <2> QED BY <2>1, <2>2, RowsSame, SameAppends, SenderOrder
<1>2. CASE writeBank # NoBank
  <2>1. /\ queue' = queue /\ work' = work /\ applied' = applied
        /\ tickets' = tickets + 1
        /\ turn' = [turn EXCEPT ![r] = tickets + 1]
        /\ bankOf' = [bankOf EXCEPT ![r] = writeBank]
        /\ pc' = [pc EXCEPT ![r] = "admitted"]
        /\ pc[r] = "idle" /\ admission = NoOne
    BY <1>2 DEF Retain, Finish, Goto, fileVars, serverVars
  <2>2. /\ r \notin DOMAIN queue /\ r \notin applied
        /\ tickets \in Nat /\ turn \in [Writes -> Nat] /\ bankOf \in [Requests -> Banks \cup {NoBank}]
        /\ r \in Writes /\ Requests \subseteq Writes
        /\ \A s \in Requests : pc[s] \notin AdmittedPoints
    BY <2>1, CoordinatorConstants
    DEF Inv, RowsOK, TypeOK, Order, TurnsOK, LocksOK, Writes, Actors
  <2>3. /\ pc'[r] = "admitted" /\ \A a \in Actors \ {r} : pc'[a] = pc[a]
        /\ turn'[r] = tickets + 1 /\ \A i \in Writes \ {r} : turn'[i] = turn[i]
        /\ \A s \in Requests \ {r} : bankOf'[s] = bankOf[s]
    BY <2>1, <2>2 DEF Inv, TypeOK, Actors
  <2>4. TurnsOK'
    BY <2>1, <2>2, <2>3 DEF Order, TurnsOK, AdmittedPoints, Actors
  <2>5. LinesOK'
    BY <2>1, <2>2, <2>3 DEF Order, LinesOK, Before
  <2>6. DirectOK'
    BY <2>2, <2>3 DEF DirectOK, SoloPoints, AdmittedPoints, Actors
  <2>7. FirstOK'
    <3>1. \A v \in Replayers : pc'[v] = pc[v]
      BY <2>3, CoordinatorConstants DEF Actors
    <3> QED BY <2>1, <3>1 DEF Order, FirstOK, HasPredecessor, Before, SameRetainDocument
  <2>8. WaitingOK'
    BY <2>1, <2>2, <2>3 DEF Order, WaitingOK, Precedes
  <2> QED BY <1>2, <2>4, <2>5, <2>6, <2>7, <2>8 DEF Order
<1> QED BY <1>1, <1>2

\* The steps of a sender that leave the file alone.
LEMMA QuietSenderOrder ==
  ASSUME Inv, Inv', Order, NEW r \in Requests,
         \/ AdmissionTimeout(r) \/ TryDelivery(r) \/ RecheckBank(r)
         \/ DirectDelivered(r) \/ DirectRefused(r) \/ DirectTransient(r)
  PROVE  Ordered /\ Order'
<1>1. /\ queue' = queue /\ work' = work /\ turn' = turn /\ tickets' = tickets
      /\ bankOf' = bankOf
      /\ applied' = applied \/ (pc[r] = "http" /\ applied' = applied \cup {r})
  BY DEF AdmissionTimeout, TryDelivery, RecheckBank, DirectDelivered, DirectRefused,
         DirectTransient, Finish, Perform, fileVars, serverVars, senderVars
<1>2. PICK point \in {"done", "exclusive", "queueing", "http"} :
        /\ pc' = [pc EXCEPT ![r] = point]
        /\ point # "done" => pc[r] \in AdmittedPoints
        /\ point = "http" => pc[r] = "recheck"
  BY DEF AdmissionTimeout, TryDelivery, RecheckBank, DirectDelivered, DirectRefused,
         DirectTransient, Finish, Goto, AdmittedPoints
<1>3. /\ point \in SenderPoints \ {"idle"}
      /\ point \in AdmittedPoints => pc[r] \in AdmittedPoints
      /\ point \in SoloPoints => pc[r] \in SoloPoints
  BY <1>2 DEF SenderPoints, AdmittedPoints, SoloPoints
<1> QED BY <1>1, <1>2, <1>3, RowsSame, SameAppends, SenderOrder

\* A sender that may send has seen no row of its document.
LEMMA InspectOrder ==
  ASSUME Inv, Inv', Order, NEW r \in Requests, Inspect(r)
  PROVE  Ordered /\ Order'
<1>1. IsQueue(queue)
  BY DEF Inv, TypeOK
<1>2. /\ queue' \in {queue, PrepareQueue(queue, writeBank)}
      /\ work' = work /\ turn' = turn /\ tickets' = tickets
      /\ bankOf' = bankOf /\ applied' = applied /\ pc[r] = "exclusive"
  BY DEF Inspect, Finish, serverVars
<1>3. PICK point \in {"done", "queueing", "recheck"} :
        /\ pc' = [pc EXCEPT ![r] = point]
        /\ point = "recheck" => ~MustQueue(queue', r)
  BY DEF Inspect, Finish, Goto
<1>4. Appends(queue')
  BY <1>1, <1>2, RowsSame, RowsPrepared, SameAppends
<1>5. point = "recheck" => Alone(queue', r)
  BY <1>3 DEF MustQueue, Alone
<1>6. /\ point \in SenderPoints \ {"idle"}
      /\ pc[r] \in AdmittedPoints
      /\ point \in SoloPoints => Alone(queue', r)
  BY <1>2, <1>3, <1>5 DEF SenderPoints, AdmittedPoints, SoloPoints
<1> QED BY <1>2, <1>3, <1>4, <1>6, SenderOrder

\* The row of a request is appended behind all others, with the request's bank.
LEMMA EnqueuedAppends ==
  ASSUME Inv, NEW r \in Requests, pc[r] = "queueing"
  PROVE  /\ Appends(Enqueue(PrepareQueue(queue, writeBank), r,
                            FreshRow(bankOf[r], r, line)))
         /\ Appends(Enqueued(r))
<1> DEFINE ready == PrepareQueue(queue, writeBank)
           row == FreshRow(bankOf[r], r, line)
           q == Enqueue(ready, r, row)
<1>1. IsQueue(queue) /\ IsQueue(ready) /\ SameRows(queue, ready)
  <2>1. IsQueue(queue)
    BY DEF Inv, TypeOK
  <2> QED BY <2>1, PrepareQueueType, RowsPrepared
<1>2. r \notin DOMAIN queue /\ row.pos = line /\ row.bank = bankOf[r]
  BY DEF Inv, RowsOK, FreshRow
<1>3. IsQueue(q) /\ IsQueue(Enqueued(r))
  BY EnqueuedRows
<1>4. /\ DOMAIN q = DOMAIN ready \cup {r}
      /\ q[r] = row
      /\ \A i \in DOMAIN ready \ {r} : q[i] = ready[i]
  BY DEF Enqueue
<1> HIDE DEF ready, row
<1>5. Appends(q)
  BY <1>1, <1>2, <1>4 DEF SameRows, Appends
<1>6. Enqueued(r) = PrepareQueue(q, writeBank)
  BY DEF Enqueued, ready, row
<1> HIDE DEF q
<1>7. SameRows(q, Enqueued(r))
  BY <1>3, <1>6, RowsPrepared
<1>8. Appends(Enqueued(r))
  BY <1>5, <1>7 DEF SameRows, Appends
<1> QED BY <1>5, <1>8 DEF q, ready, row

LEMMA EnqueueRequestOrder ==
  ASSUME Inv, Inv', Order, NEW r \in Requests, EnqueueRequest(r)
  PROVE  Ordered /\ Order'
<1>1. IsQueue(queue)
  BY DEF Inv, TypeOK
<1>2. /\ queue' \in {queue, PrepareQueue(queue, writeBank), Enqueued(r)}
      /\ pc[r] = "queueing" /\ pc' = [pc EXCEPT ![r] = "done"]
      /\ work' = work /\ turn' = turn /\ tickets' = tickets
      /\ bankOf' = bankOf /\ applied' = applied
  BY DEF EnqueueRequest, Finish, Goto, fileVars, serverVars
<1>3. Appends(queue')
  BY <1>1, <1>2, RowsSame, RowsPrepared, SameAppends, EnqueuedAppends
<1>4. "done" \in SenderPoints \ {"idle"} /\ "done" \notin AdmittedPoints \cup SoloPoints
  BY DEF SenderPoints, AdmittedPoints, SoloPoints
<1> QED BY <1>2, <1>3, <1>4, SenderOrder

\* So is a row that a crash leaves behind; a torn append leaves a barrier.
LEMMA AbortSenderOrder ==
  ASSUME Inv, Inv', Order, NEW r \in Requests, Abort(r)
  PROVE  Ordered /\ Order'
<1>1. /\ pc' = [pc EXCEPT ![r] = "done"]
      /\ queue' \in {queue} \cup PartialWrites(r)
      /\ applied' = applied \/ (pc[r] = "http" /\ applied' = applied \cup {r})
      /\ work' = work /\ turn' = turn /\ tickets' = tickets /\ bankOf' = bankOf
  BY DEF Abort, Finish, Goto, Perform, OnWire
<1>2. IsQueue(queue) /\ pc[r] \in SenderPoints
  BY DEF Inv, TypeOK, PointsOK
<1>3. Appends(queue')
  <2>1. CASE queue' = queue
    BY <2>1, RowsSame, SameAppends
  <2>2. CASE pc[r] = "queueing" /\ queue' # queue
    <3>1. \/ queue' = PrepareQueue(queue, writeBank)
          \/ queue' = Enqueue(PrepareQueue(queue, writeBank), r,
                              FreshRow(bankOf[r], r, line))
          \/ queue' = Enqueued(r)
          \/ \E b \in Barriers \ DOMAIN queue :
               queue' = Enqueue(PrepareQueue(queue, writeBank), b, CorruptRow(line))
      BY <1>1, <2>2 DEF PartialWrites
    <3>2. ASSUME NEW b \in Barriers
          PROVE  Appends(Enqueue(PrepareQueue(queue, writeBank), b, CorruptRow(line)))
      <4>1. SameRows(queue, PrepareQueue(queue, writeBank))
        BY <1>2, RowsPrepared
      <4> QED BY <4>1 DEF SameRows, Appends, Enqueue
    <3> QED BY <1>2, <2>2, <3>1, <3>2, RowsPrepared, SameAppends, EnqueuedAppends
  <2>3. CASE pc[r] # "queueing" /\ queue' # queue
    <3>1. PartialWrites(r) = {}
      BY <1>2, <2>3 DEF PartialWrites, SenderPoints, Abort
    <3> QED BY <1>1, <2>3, <3>1
  <2> QED BY <2>1, <2>2, <2>3
<1>4. "done" \in SenderPoints \ {"idle"} /\ "done" \notin AdmittedPoints \cup SoloPoints
  BY DEF SenderPoints, AdmittedPoints, SoloPoints
<1> QED BY <1>1, <1>3, <1>4, SenderOrder

-----------------------------------------------------------------------------
(* Steps of flushes *)

LEMMA PreparingOrder ==
  ASSUME Inv, Inv', Order, NEW w \in Replayers,
         \/ Flush(w) \/ ReplayQueue(w) \/ PrepareReplayOperationIds(w)
         \/ BatchDone(w) \/ Reopen(w)
  PROVE  Ordered /\ Order'
<1>1. IsQueue(queue)
  BY DEF Inv, TypeOK
<1>2. /\ turn' = turn /\ tickets' = tickets /\ bankOf' = bankOf /\ applied' = applied
      /\ \A v \in Replayers \ {w} : work'[v] = work[v]
      /\ \E point \in {"idle", "begin", "ids", "probe", "batch"} :
           pc' = [pc EXCEPT ![w] = point]
  BY DEF Flush, ReplayQueue, PrepareReplayOperationIds, BatchDone, Reopen, EndReplay, Goto,
         serverVars, senderVars, Inv, TypeOK
<1>3. SameRows(queue, queue')
  <2>1. CASE queue' = queue
    BY <2>1, RowsSame
  <2>2. CASE ReplayQueue(w)
    <3> DEFINE prepared == PrepareQueue(queue, writeBank)
    <3>1. queue' \in {queue, prepared, Cleanup(prepared)}
      BY <2>2 DEF ReplayQueue
    <3>2. IsQueue(prepared) /\ SameRows(queue, prepared)
      BY <1>1, PrepareQueueType, RowsPrepared
    <3> HIDE DEF prepared
    <3>3. SameRows(prepared, Cleanup(prepared))
      BY <3>2, RowsCleanup
    <3> QED BY <3>1, <3>2, <3>3, RowsSame, RowsTransitive
  <2>3. CASE PrepareReplayOperationIds(w) /\ queue' # queue
    <3>1. PICK plan : queue' = EnsureOperationIds(queue, plan)
      BY <2>3 DEF PrepareReplayOperationIds
    <3> QED BY <1>1, <3>1, RowsNamed
  <2> QED BY <2>1, <2>2, <2>3 DEF Flush, BatchDone, Reopen, fileVars
<1>4. ASSUME NEW point \in {"idle", "begin", "ids", "probe", "batch"}
      PROVE  point \notin ClaimPoints
  BY DEF ClaimPoints
<1> QED BY <1>2, <1>3, <1>4, FlushOrder

\* A row with a predecessor is not claimed.
LEMMA AttemptOrder ==
  ASSUME Inv, Inv', Order, NEW w \in Replayers, NEW i, Attempt(w, i),
         UNCHANGED <<senderVars, serverVars>>
  PROVE  Ordered /\ Order'
<1>1. /\ IsQueue(queue) /\ applied' = applied
      /\ turn' = turn /\ tickets' = tickets /\ bankOf' = bankOf
  BY DEF Inv, TypeOK, serverVars, senderVars
<1>2. CASE queue' = queue /\ (EndReplay(w) \/ PassOver(w, i, work[w].attempts + 1))
  BY <1>1, <1>2, PassOverEnds, RowsSame, FlushOrder
<1>3. CASE /\ ~MustStop(i) /\ ~Blocked(i)
           /\ \E op \in OperationFor(w, i) :
                /\ queue' = Claimed(i, op)
                /\ work' = [work EXCEPT ![w].target = i,
                                        ![w].before = queue[i].state,
                                        ![w].op = op,
                                        ![w].attempts = @ + 1]
           /\ Goto(w, "check")
  <2>1. PICK op \in OperationFor(w, i) :
          /\ queue' = Claimed(i, op)
          /\ work' = [work EXCEPT ![w].target = i,
                                  ![w].before = queue[i].state,
                                  ![w].op = op,
                                  ![w].attempts = @ + 1]
    BY <1>3
  <2>2. i \in DOMAIN queue /\ ~HasPredecessor(queue, i)
    BY <1>3 DEF MustStop, Blocked
  <2> DEFINE named == EnsureOperationIds(queue, [j \in {i} |-> op])
             state == [queue[i].state EXCEPT !.present = TRUE, !.sending = TRUE]
  <2>3. /\ DOMAIN queue' = DOMAIN queue
        /\ \A j \in DOMAIN queue : /\ queue'[j].pos = queue[j].pos
                                   /\ queue'[j].bank = queue[j].bank
    <3>1. IsQueue(named) /\ i \in DOMAIN named
      <4>1. op \in Operations
        BY <2>2 DEF OperationFor, UnusedOps, Operations, Inv, TypeOK, IsWork, IsQueue, Row
      <4> QED BY <1>1, <2>2, <4>1, EnsureOperationIdsType
    <3>2. DOMAIN named = DOMAIN queue /\ SameRows(queue, named)
      BY <1>1, RowsNamed DEF EnsureOperationIds
    <3>3. queue' = SetReplayState(named, i, state)
      BY <2>1 DEF Claimed
    <3> HIDE DEF named, state
    <3>4. DOMAIN queue' = DOMAIN named /\ SameRows(named, queue')
      BY <3>1, <3>3, RowsState DEF SetReplayState
    <3> QED BY <3>2, <3>4 DEF SameRows
  <2>4. ~HasPredecessor(queue', i)
    BY <2>2, <2>3 DEF HasPredecessor, Before, SameRetainDocument
  <2>5. work'[w].target = i /\ \A v \in Replayers \ {w} : work'[v] = work[v]
    BY <2>1 DEF Inv, TypeOK, IsWork
  <2>6. SameRows(queue, queue') /\ pc' = [pc EXCEPT ![w] = "check"]
    BY <1>3, <2>3 DEF SameRows, Goto
  <2> QED BY <1>1, <2>4, <2>5, <2>6, FlushOrder
<1> QED BY <1>2, <1>3 DEF Attempt

\* A flush that has claimed a row and moves on leaves the file alone.
LEMMA MovingOrder ==
  ASSUME Inv, Inv', Order, NEW w \in Replayers,
         CheckBank(w) \/ Deliver(w) \/ Refuse(w)
  PROVE  Ordered /\ Order'
<1>1. /\ queue' = queue /\ work' = work /\ turn' = turn /\ tickets' = tickets
      /\ bankOf' = bankOf
      /\ \/ applied' = applied
         \/ pc[w] = "http" /\ applied' = applied \cup {work[w].target}
      /\ pc[w] \in ClaimPoints
      /\ \E point : pc' = [pc EXCEPT ![w] = point]
  BY DEF CheckBank, Deliver, Refuse, Goto, Perform, fileVars, senderVars, ClaimPoints
<1> QED BY <1>1, RowsSame, FlushOrder

\* However the row is settled, the others stay where they are.
LEMMA SettlingOrder ==
  ASSUME Inv, Inv', Order, NEW w \in Replayers,
         \/ Unroute(w) \/ Mismatch(w) \/ QuarantinePermanent(w) \/ Acknowledge(w)
         \/ Deny(w) \/ RecordTransientFailure(w)
  PROVE  Ordered /\ Order'
<1> DEFINE i == work[w].target
           counted == IncrementReplayAttempts(queue, i)
           settled == SetReplayState(counted, i, Completed(w))
<1>1. /\ pc[w] \in ClaimPoints
      /\ turn' = turn /\ tickets' = tickets /\ bankOf' = bankOf /\ applied' = applied
  BY DEF Unroute, Mismatch, QuarantinePermanent, Acknowledge, Deny, RecordTransientFailure,
         ClaimPoints, serverVars, senderVars
<1>2. /\ \A v \in Replayers \ {w} : work'[v] = work[v]
      /\ \E point : point \notin ClaimPoints /\ pc' = [pc EXCEPT ![w] = point]
  <2>1. CASE Acknowledge(w)
    BY <2>1, PassOverEnds DEF Acknowledge, Goto, Inv, TypeOK, ClaimPoints
  <2>2. CASE ~Acknowledge(w)
    <3>1. EndReplay(w) \/ \E n : PassOver(w, i, n)
      BY <2>2 DEF Unroute, Mismatch, QuarantinePermanent, Deny, RecordTransientFailure
    <3> QED BY <3>1, PassOverEnds
  <2> QED BY <2>1, <2>2
<1>3. IsQueue(queue) /\ i \in DOMAIN queue
  BY <1>1, TargetFacts
<1>4. \/ \E s : queue' = SetReplayState(queue, i, s)
      \/ queue' = Remove(queue, i)
      \/ queue' = DenyReplay(queue, i)
      \/ queue' = settled
      \/ queue' = Remove(settled, i)
  BY DEF Unroute, Mismatch, QuarantinePermanent, Acknowledge, Deny, RecordTransientFailure
<1>5. /\ IsQueue(settled)
      /\ SameRows(queue, settled)
  <2>1. /\ IsQueue(counted) /\ DOMAIN counted = DOMAIN queue
        /\ SameRows(queue, counted)
    BY <1>3, IncrementType, RowsCounted
  <2>2. Completed(w) \in ReplayState
    BY <1>1, TargetFacts
  <2> HIDE DEF counted
  <2>3. IsQueue(settled) /\ SameRows(counted, settled)
    BY <1>3, <2>1, <2>2, SetReplayStateType, RowsState
  <2> QED BY <2>1, <2>3, RowsTransitive
<1> HIDE DEF settled
<1>6. SameRows(queue, queue')
  <2>1. SameRows(queue, Remove(settled, i))
    BY <1>5, RowsRemoved, RowsTransitive
  <2> QED BY <1>3, <1>4, <1>5, <2>1, RowsState, RowsRemoved, RowsDenied
<1> QED BY <1>1, <1>2, <1>6, FlushOrder

LEMMA AbortReplayOrder ==
  ASSUME Inv, Inv', Order, NEW w \in Replayers, Abort(w)
  PROVE  Ordered /\ Order'
<1>1. /\ EndReplay(w)
      /\ queue' \in {queue} \cup PartialWrites(w)
      /\ \/ applied' = applied
         \/ pc[w] = "http" /\ applied' = applied \cup {work[w].target}
      /\ turn' = turn /\ tickets' = tickets /\ bankOf' = bankOf
      /\ pc[w] \in ReplayPoints
  BY CoordinatorConstants DEF Abort, Perform, OnWire, Inv, PointsOK
<1>2. IsQueue(queue)
  BY DEF Inv, TypeOK
<1> DEFINE i == work[w].target
           counted == IncrementReplayAttempts(queue, i)
<1>3. SameRows(queue, queue')
  <2>1. CASE pc[w] \in {"probe", "batch"} /\ queue' # queue
    <3>1. PartialWrites(w) =
            UNION {{EnsureOperationIds(queue, [j \in {k} |-> op]) :
                      op \in OperationFor(w, k)} :
                   k \in {k \in NextUp(w) : ~MustStop(k) /\ ~Blocked(k)}}
      BY <2>1 DEF PartialWrites
    <3>2. PICK k \in {k \in NextUp(w) : ~MustStop(k) /\ ~Blocked(k)} :
            queue' \in {EnsureOperationIds(queue, [j \in {k} |-> op]) :
                          op \in OperationFor(w, k)}
      BY <1>1, <2>1, <3>1
    <3>3. PICK op \in OperationFor(w, k) :
            queue' = EnsureOperationIds(queue, [j \in {k} |-> op])
      BY <3>2
    <3> QED BY <1>2, <3>3, RowsNamed
  <2>2. CASE pc[w] \notin {"probe", "batch"} /\ queue' # queue
    <3>1. \/ queue' = PrepareQueue(queue, writeBank)
          \/ /\ pc[w] \in ClaimPoints
             /\ \/ queue' = SetReplayState(queue, i, Completed(w))
                \/ queue' = counted
                \/ queue' = SetReplayState(counted, i, Completed(w))
      BY <1>1, <2>2 DEF PartialWrites, ReplayPoints, ClaimPoints
    <3>2. ASSUME pc[w] \in ClaimPoints
          PROVE  /\ SameRows(queue, SetReplayState(queue, i, Completed(w)))
                 /\ SameRows(queue, counted)
                 /\ SameRows(queue, SetReplayState(counted, i, Completed(w)))
      <4>1. i \in DOMAIN queue
        BY <3>2, TargetFacts
      <4>2. IsQueue(counted) /\ i \in DOMAIN counted /\ SameRows(queue, counted)
        BY <1>2, <4>1, IncrementType, RowsCounted
      <4> HIDE DEF counted
      <4> QED BY <1>2, <4>1, <4>2, RowsState, RowsTransitive
    <3> QED BY <1>2, <3>1, <3>2, RowsPrepared
  <2> QED BY <1>1, <2>1, <2>2, RowsSame
<1> QED BY <1>1, <1>3, PassOverEnds, FlushOrder

-----------------------------------------------------------------------------
(* The environment *)

LEMMA AgeOrder ==
  ASSUME Inv, Inv', Order, Age
  PROVE  Ordered /\ Order'
<1>1. PICK k : queue' = [i \in DOMAIN queue |->
                           [queue[i] EXCEPT !.old = @ \/ queue[i].pos <= k]]
  BY DEF Age
<1>2. SameRows(queue, queue')
  BY <1>1 DEF Inv, TypeOK, IsQueue, Row, SameRows
<1> QED BY <1>2, OutsideOrder DEF Age, serverVars, senderVars

LEMMA OperatorResumeOrder ==
  ASSUME Inv, Inv', Order, OperatorResume
  PROVE  Ordered /\ Order'
<1>1. PICK i \in Sending(queue) : queue' = DenyReplay(queue, i)
  BY DEF OperatorResume
<1>2. SameRows(queue, queue')
  BY <1>1, RowsDenied DEF Inv, TypeOK
<1> QED BY <1>2, OutsideOrder DEF OperatorResume, serverVars, senderVars

-----------------------------------------------------------------------------
(* The theorems *)

LEMMA InitOrder == Init => Order
<1> SUFFICES ASSUME Init PROVE Order
  OBVIOUS
<1>1. /\ DOMAIN queue \cap Requests = {}
      /\ \A i \in DOMAIN queue : queue[i].pos \in 1 .. FirstLine - 1
      /\ FirstLine \in Nat /\ tickets = FirstLine /\ applied = {}
      /\ turn = [i \in Writes |-> IF i \in DOMAIN queue THEN queue[i].pos ELSE 0]
  BY CoordinatorConstants DEF Init
<1>2. /\ \A r \in Requests : pc[r] = "idle" /\ r \in Writes
      /\ \A w \in Replayers : pc[w] = "idle"
  BY DEF Init, Actors, Writes
<1>3. TurnsOK
  BY <1>1, <1>2 DEF TurnsOK, AdmittedPoints
<1>4. LinesOK
  BY <1>1 DEF LinesOK, Before
<1>5. DirectOK /\ FirstOK /\ WaitingOK
  BY <1>1, <1>2 DEF DirectOK, FirstOK, WaitingOK, SoloPoints, ClaimPoints
<1> QED BY <1>3, <1>4, <1>5 DEF Order

\* A step admits a sender, or moves no row.
LEMMA NextOrdered ==
  ASSUME Inv, Inv', Order, [Next]_vars
  PROVE  /\ Order'
         /\ Ordered \/ \E r \in Requests : Retain(r) /\ writeBank # NoBank
<1> DEFINE Goal == /\ Order'
                   /\ Ordered \/ \E r \in Requests : Retain(r) /\ writeBank # NoBank
<1>1. ASSUME NEW r \in Requests, SenderStep(r) PROVE Goal
  BY <1>1, RetainOrder, QuietSenderOrder, InspectOrder, EnqueueRequestOrder
  DEF SenderStep
<1>2. ASSUME NEW w \in Replayers, AttemptProbe(w) \/ AttemptNext(w) PROVE Goal
  BY <1>2, AttemptOrder DEF AttemptProbe, AttemptNext
<1>3. ASSUME NEW w \in Replayers, ReplayStep(w) PROVE Goal
  BY <1>2, <1>3, PreparingOrder, MovingOrder, SettlingOrder DEF ReplayStep
<1>4. CASE UNCHANGED vars
  BY <1>4, RowsSame, OutsideOrder DEF vars
<1>5. ASSUME NEW bank, Reroute(bank) PROVE Goal
  BY <1>5, RowsSame, OutsideOrder DEF Reroute, fileVars, serverVars, senderVars
<1>6. CASE Environment
  BY <1>5, <1>6, AbortSenderOrder, AbortReplayOrder, AgeOrder, OperatorResumeOrder
  DEF Environment, Actors
<1> QED BY <1>1, <1>3, <1>4, <1>6 DEF Next, Settled

LEMMA NextOrder == Inv /\ Inv' /\ Order /\ [Next]_vars => Order'
BY NextOrdered

\* Order holds in every reachable state.
THEOREM OrderInvariance == Spec => []Order
BY Invariance, InitOrder, NextOrder, PTL DEF Spec

\* Once a write of a document was performed or is on the wire, no write of that
\* document whose sender was admitted earlier can still reach the server (storage
\* admission, retainAdmitted, deliverQueued).
THEOREM WritesInOrder == Spec => []OvertakenIsSettled
<1>1. Inv /\ Order => OvertakenIsSettled
  <2> SUFFICES ASSUME Inv, Order,
                      NEW i \in Writes, NEW j \in Requests,
                      Alive(i), 0 < turn[i], turn[i] < turn[j],
                      DocOf[i] # NoDoc, DocOf[i] = DocOf[j], BankOf(i) = bankOf[j]
               PROVE  /\ j \notin applied
                      /\ \A a \in Actors : pc[a] = "http" => OnWire(a) # j
    BY DEF OvertakenIsSettled
  <2>1. /\ j \in Writes
        /\ turn[i] \in Nat /\ turn[j] \in Nat /\ tickets \in Nat /\ turn[j] <= tickets
        /\ BankOf(j) = bankOf[j]
    BY BarriersNowhere DEF Inv, TypeOK, Order, TurnsOK, LinesOK, BankOf
  <2>2. \A a \in Actors : pc[a] = "http" => OnWire(a) # j
    BY <2>1, WireFirst
  <2>3. i \in DOMAIN queue
    BY <2>1 DEF Alive, SenderPoints, AdmittedPoints, Order, TurnsOK
  <2>4. j \notin applied
    BY <2>3 DEF Order, WaitingOK, Precedes, BankOf
  <2> QED BY <2>2, <2>4
<1> QED BY <1>1, Invariance, OrderInvariance, PTL

-----------------------------------------------------------------------------
(***************************************************************************)
(* What leaves the file.  A row that cleanup or an abandonment removes has *)
(* no state left; for that to mean that no gate protects it and nothing    *)
(* quarantines it, every state that says something must be present.        *)
(***************************************************************************)
IsStated(q) == \A i \in DOMAIN q : q[i].state # NoState => q[i].state.present

LEMMA StatedPrepared ==
  ASSUME NEW q, IsQueue(q), IsStated(q), NEW bank
  PROVE  IsStated(PrepareQueue(q, bank))
<1>1. ASSUME NEW i \in DOMAIN q
      PROVE  PreparedState(q, i, bank) # NoState => PreparedState(q, i, bank).present
  <2>1. q[i].state \in ReplayState
    BY DEF IsQueue, Row
  <2> QED BY <2>1 DEF IsStated, PreparedState, Protect, Quarantine, ReplayState
<1>2. /\ DOMAIN PrepareQueue(q, bank) = DOMAIN q
      /\ \A i \in DOMAIN q : PrepareQueue(q, bank)[i].state = PreparedState(q, i, bank)
  BY DEF PrepareQueue, IsQueue, Row
<1> QED BY <1>1, <1>2 DEF IsStated

LEMMA StatedState ==
  ASSUME NEW q, IsQueue(q), IsStated(q), NEW i \in DOMAIN q, NEW s \in ReplayState,
         s # NoState => s.present
  PROVE  IsStated(SetReplayState(q, i, s))
<1>1. /\ DOMAIN SetReplayState(q, i, s) = DOMAIN q
      /\ \A j \in DOMAIN q :
           SetReplayState(q, i, s)[j].state = IF j = i THEN s ELSE q[j].state
  BY SetReplayStateType
<1> QED BY <1>1 DEF IsStated

LEMMA StatedDenied ==
  ASSUME NEW q, IsQueue(q), NEW i
  PROVE  IsStated(DenyReplay(q, i))
BY KeepsDenied DEF IsStated, Shielding

\* Ids and attempts say nothing of the state, and what is left of a file is unchanged.
LEMMA StatedOthers ==
  ASSUME NEW q, IsQueue(q), IsStated(q), NEW i \in DOMAIN q, NEW plan
  PROVE  /\ IsStated(EnsureOperationIds(q, plan))
         /\ IsStated(IncrementReplayAttempts(q, i))
         /\ IsStated(Remove(q, i))
         /\ IsStated(Cleanup(q))
<1>1. /\ DOMAIN EnsureOperationIds(q, plan) = DOMAIN q
      /\ \A j \in DOMAIN q : EnsureOperationIds(q, plan)[j].state = q[j].state
  BY KeepsNamed
<1>2. /\ DOMAIN IncrementReplayAttempts(q, i) = DOMAIN q
      /\ \A j \in DOMAIN q : IncrementReplayAttempts(q, i)[j].state = q[j].state
  BY IncrementType
<1>3. /\ DOMAIN Remove(q, i) = DOMAIN q \ {i}
      /\ \A j \in DOMAIN q \ {i} : Remove(q, i)[j] = q[j]
  BY RemoveType
<1>4. /\ DOMAIN Cleanup(q) \subseteq DOMAIN q
      /\ \A j \in DOMAIN Cleanup(q) : Cleanup(q)[j] = q[j]
  BY CleanupType
<1> QED BY <1>1, <1>2, <1>3, <1>4 DEF IsStated

LEMMA StatedAppend ==
  ASSUME NEW q, IsQueue(q), IsStated(q), NEW i \in Ids, NEW row \in Row,
         row.state = NoState \/ row.state.present
  PROVE  IsStated(Enqueue(q, i, row))
<1>1. /\ DOMAIN Enqueue(q, i, row) = DOMAIN q \cup {i}
      /\ Enqueue(q, i, row)[i] = row
      /\ \A j \in DOMAIN q \ {i} : Enqueue(q, i, row)[j] = q[j]
  BY EnqueueType
<1> QED BY <1>1 DEF IsStated

\* completedReplayState leaves nothing, or a state that is present.
LEMMA StatedCompleted ==
  ASSUME Inv, NEW w \in Replayers, pc[w] \in ClaimPoints
  PROVE  /\ Completed(w) # NoState => Completed(w).present
         /\ Completed(w) \in ReplayState
         /\ LET s == queue[work[w].target].state IN
            ~Completed(w).present => s.quarantine = "none" /\ s.gate = "none" /\ ~s.protected
<1>1. /\ queue[work[w].target].state \in ReplayState
      /\ work[w].before \in ReplayState
      /\ Completed(w) \in ReplayState
  BY TargetFacts
<1> DEFINE s == queue[work[w].target].state
           c == Completed(w)
<1>2. /\ c.quarantine = s.quarantine /\ c.gate = s.gate /\ c.protected = s.protected
      /\ ~c.sending
      /\ ~c.present => s.quarantine = "none" /\ s.gate = "none" /\ ~s.protected
  BY <1>1, ZenonT(60) DEF Completed, CompletedReplayState, ReplayState
<1> HIDE DEF s, c
<1>3. ~c.present => c = NoState
  BY <1>1, <1>2 DEF ReplayState, NoState, c
<1> QED BY <1>1, <1>2, <1>3 DEF s, c

LEMMA SenderStated ==
  ASSUME Inv, IsStated(queue), NEW r \in Requests, SenderStep(r) \/ Abort(r)
  PROVE  IsStated(queue')
<1> DEFINE ready == PrepareQueue(queue, writeBank)
<1>1. IsQueue(queue) /\ line \in Nat /\ r \in Ids /\ pc[r] \in SenderPoints
  BY DEF Inv, TypeOK, PointsOK, Ids, Writes
<1>2. IsQueue(ready) /\ IsStated(ready)
  BY <1>1, PrepareQueueType, StatedPrepared
<1>3. ASSUME pc[r] = "queueing"
      PROVE  /\ IsStated(Enqueue(ready, r, FreshRow(bankOf[r], r, line)))
             /\ IsStated(Enqueued(r))
  <2> DEFINE row == FreshRow(bankOf[r], r, line)
  <2>1. bankOf[r] \in Banks /\ r \in Operations
    BY <1>3 DEF Inv, BanksOK, AdmittedPoints, Operations
  <2>2. row \in Row /\ row.state = NoState
    BY <1>1, <2>1, NewRowType DEF FreshRow
  <2>3. IsQueue(Enqueue(ready, r, row))
    BY <1>3, EnqueuedRows
  <2> HIDE DEF row, ready
  <2>4. IsStated(Enqueue(ready, r, row))
    BY <1>1, <1>2, <2>2, StatedAppend
  <2>5. IsStated(PrepareQueue(Enqueue(ready, r, row), writeBank))
    BY <2>3, <2>4, StatedPrepared
  <2> QED BY <2>4, <2>5 DEF Enqueued, ready, row
<1>4. ASSUME NEW b \in Barriers
      PROVE  IsStated(Enqueue(ready, b, CorruptRow(line)))
  <2>1. /\ CorruptRow(line) \in Row /\ CorruptRow(line).state.present
        /\ b \in Ids
    BY <1>1, NewRowType DEF CorruptRow, NoState, Ids
  <2> HIDE DEF ready
  <2> QED BY <1>2, <2>1, StatedAppend
<1>5. CASE SenderStep(r)
  <2>1. queue' \in {queue, ready} \/ (pc[r] = "queueing" /\ queue' = Enqueued(r))
    BY <1>5 DEF SenderStep, Retain, AdmissionTimeout, TryDelivery, Inspect, RecheckBank,
                DirectDelivered, DirectRefused, DirectTransient, EnqueueRequest, fileVars
  <2> QED BY <1>2, <1>3, <2>1
<1>6. CASE Abort(r) /\ queue' # queue
  <2>1. queue' \in PartialWrites(r)
    BY <1>6 DEF Abort
  <2>2. pc[r] = "queueing"
    BY <1>1, <2>1 DEF PartialWrites, SenderPoints, Abort
  <2>3. \/ queue' = ready
        \/ queue' = Enqueue(ready, r, FreshRow(bankOf[r], r, line))
        \/ queue' = Enqueued(r)
        \/ \E b \in Barriers : queue' = Enqueue(ready, b, CorruptRow(line))
    BY <2>1, <2>2 DEF PartialWrites
  <2> QED BY <1>2, <1>3, <1>4, <2>2, <2>3
<1> QED BY <1>5, <1>6

\* The rewrites of a flush that has claimed a row.
LEMMA SettlingStated ==
  ASSUME Inv, IsStated(queue), NEW w \in Replayers, pc[w] \in ClaimPoints,
         LET i == work[w].target
             counted == IncrementReplayAttempts(queue, i)
             settled == SetReplayState(counted, i, Completed(w)) IN
         \/ \E s \in ReplayState : s.present /\ queue' = SetReplayState(queue, i, s)
         \/ queue' = SetReplayState(queue, i, Completed(w))
         \/ queue' = Remove(queue, i)
         \/ queue' = DenyReplay(queue, i)
         \/ queue' \in {queue, counted, settled, Remove(settled, i)}
  PROVE  IsStated(queue')
<1> DEFINE i == work[w].target
           counted == IncrementReplayAttempts(queue, i)
           settled == SetReplayState(counted, i, Completed(w))
<1>1. IsQueue(queue) /\ i \in DOMAIN queue
  BY TargetFacts
<1>2. IsQueue(counted) /\ i \in DOMAIN counted /\ IsStated(counted)
  BY <1>1, IncrementType, StatedOthers
<1>3. Completed(w) \in ReplayState /\ (Completed(w) # NoState => Completed(w).present)
  BY StatedCompleted
<1> HIDE DEF counted
<1>4. IsQueue(settled) /\ i \in DOMAIN settled /\ IsStated(settled)
  BY <1>2, <1>3, SetReplayStateType, StatedState
<1> HIDE DEF settled
<1>5. IsStated(Remove(settled, i)) /\ IsStated(Remove(queue, i))
  BY <1>1, <1>4, StatedOthers
<1>6. \A s \in ReplayState : s.present => IsStated(SetReplayState(queue, i, s))
  BY <1>1, StatedState
<1>7. IsStated(SetReplayState(queue, i, Completed(w)))
  BY <1>1, <1>3, StatedState
<1>8. IsStated(DenyReplay(queue, i))
  BY <1>1, StatedDenied
<1> QED BY <1>2, <1>4, <1>5, <1>6, <1>7, <1>8 DEF counted, settled

LEMMA FlushStated ==
  ASSUME Inv, IsStated(queue), NEW w \in Replayers, ReplayStep(w) \/ Abort(w)
  PROVE  IsStated(queue')
<1> DEFINE i == work[w].target
           ready == PrepareQueue(queue, writeBank)
<1>1. IsQueue(queue) /\ pc[w] \in ReplayPoints /\ w \notin Requests
  BY CoordinatorConstants DEF Inv, TypeOK, PointsOK
<1>2. IsStated(ready) /\ IsStated(Cleanup(ready))
  <2>1. IsQueue(ready) /\ IsStated(ready)
    BY <1>1, PrepareQueueType, StatedPrepared
  <2> HIDE DEF ready
  <2> QED BY <2>1, CleanupType DEF IsStated
<1>3. \A plan : IsStated(EnsureOperationIds(queue, plan))
  BY <1>1, KeepsNamed DEF IsStated
<1>4. CASE \/ Flush(w) \/ ReplayQueue(w) \/ PrepareReplayOperationIds(w) \/ BatchDone(w)
           \/ CheckBank(w) \/ Deliver(w) \/ Refuse(w) \/ Reopen(w)
  <2>1. \/ queue' \in {queue, ready, Cleanup(ready)}
        \/ \E plan : queue' = EnsureOperationIds(queue, plan)
    BY <1>4 DEF Flush, ReplayQueue, PrepareReplayOperationIds, BatchDone, CheckBank,
                Deliver, Refuse, Reopen, fileVars
  <2> QED BY <1>2, <1>3, <2>1
<1>5. CASE AttemptProbe(w) \/ AttemptNext(w)
  <2>1. PICK k \in NextUp(w) : Attempt(w, k)
    BY <1>5 DEF AttemptProbe, AttemptNext
  <2>2. CASE queue' = queue
    BY <2>2
  <2>3. CASE k \in DOMAIN queue /\ \E op \in OperationFor(w, k) : queue' = Claimed(k, op)
    <3>1. PICK op \in OperationFor(w, k) : queue' = Claimed(k, op)
      BY <2>3
    <3> DEFINE named == EnsureOperationIds(queue, [j \in {k} |-> op])
               state == [queue[k].state EXCEPT !.present = TRUE, !.sending = TRUE]
    <3>2. op \in Operations
      BY <1>1, <2>3 DEF OperationFor, UnusedOps, Operations, Inv, TypeOK, IsWork, IsQueue, Row
    <3>3. IsQueue(named) /\ k \in DOMAIN named /\ IsStated(named)
      BY <1>1, <1>3, <2>3, <3>2, EnsureOperationIdsType
    <3>4. state \in ReplayState /\ state.present
      <4>1. queue[k].state \in ReplayState
        BY <1>1, <2>3 DEF IsQueue, Row
      <4> QED BY <4>1 DEF ReplayState
    <3>5. queue' = SetReplayState(named, k, state)
      BY <3>1 DEF Claimed
    <3> HIDE DEF named, state
    <3> QED BY <3>3, <3>4, <3>5, StatedState
  <2> QED BY <2>1, <2>2, <2>3 DEF Attempt, MustStop
<1>6. CASE \/ Unroute(w) \/ Mismatch(w) \/ Acknowledge(w) \/ Deny(w)
           \/ QuarantinePermanent(w) \/ RecordTransientFailure(w)
  <2>1. pc[w] \in ClaimPoints
    BY <1>6 DEF Unroute, Mismatch, Acknowledge, Deny, QuarantinePermanent,
                RecordTransientFailure, ClaimPoints
  <2>2. work[w].before \in ReplayState /\ Completed(w) \in ReplayState
    BY <2>1, TargetFacts
  <2>3. \A s \in ReplayState, kind \in {"permanent", "bank-mismatch"} :
          Quarantine(s, kind) \in ReplayState /\ Quarantine(s, kind).present
    BY DEF Quarantine, ReplayState
  <2> QED BY <1>6, <2>1, <2>2, <2>3, SettlingStated
          DEF Unroute, Mismatch, Acknowledge, Deny, QuarantinePermanent,
              RecordTransientFailure
<1>7. CASE Abort(w) /\ queue' # queue
  <2>1. queue' \in PartialWrites(w) /\ pc[w] # "idle"
    BY <1>7 DEF Abort
  <2>2. CASE pc[w] \in {"probe", "batch"}
    <3>1. PartialWrites(w) =
            UNION {{EnsureOperationIds(queue, [j \in {k} |-> op]) :
                      op \in OperationFor(w, k)} :
                   k \in {k \in NextUp(w) : ~MustStop(k) /\ ~Blocked(k)}}
      BY <2>2 DEF PartialWrites
    <3> QED BY <1>3, <2>1, <3>1
  <2>3. CASE pc[w] \in ClaimPoints
    <3>1. queue' \in {SetReplayState(queue, i, Completed(w)),
                      IncrementReplayAttempts(queue, i),
                      SetReplayState(IncrementReplayAttempts(queue, i), i, Completed(w))}
      BY <2>1, <2>3 DEF PartialWrites, ClaimPoints
    <3> QED BY <2>3, <3>1, SettlingStated
  <2>4. CASE pc[w] \notin ClaimPoints \cup {"probe", "batch"}
    BY <1>1, <1>2, <2>1, <2>4 DEF PartialWrites, ReplayPoints, ClaimPoints
  <2> QED BY <2>2, <2>3, <2>4
<1> QED BY <1>4, <1>5, <1>6, <1>7 DEF ReplayStep

StatesOK == IsStated(queue)

LEMMA NextStated == Inv /\ StatesOK /\ [Next]_vars => StatesOK'
<1> SUFFICES ASSUME Inv, IsStated(queue), [Next]_vars PROVE IsStated(queue')
  BY DEF StatesOK, IsStated
<1>1. IsQueue(queue)
  BY DEF Inv, TypeOK
<1>2. ASSUME Age PROVE IsStated(queue')
  <2>1. PICK k : queue' = [i \in DOMAIN queue |->
                             [queue[i] EXCEPT !.old = @ \/ queue[i].pos <= k]]
    BY <1>2 DEF Age
  <2> QED BY <1>1, <2>1 DEF IsStated, IsQueue, Row
<1>3. ASSUME OperatorResume PROVE IsStated(queue')
  BY <1>1, <1>3, StatedDenied DEF OperatorResume
<1>4. CASE UNCHANGED vars
  BY <1>4 DEF vars
<1>5. CASE Environment
  BY <1>2, <1>3, <1>5, SenderStated, FlushStated DEF Environment, Reroute, fileVars, Actors
<1> QED BY <1>4, <1>5, SenderStated, FlushStated DEF Next, Settled

\* States that say something are present in every reachable file.
LEMMA StatesInvariance == Spec => []StatesOK
<1>1. Init => StatesOK
  BY CoordinatorConstants DEF Init, IsStated, StatesOK
<1> QED BY <1>1, NextStated, Invariance, PTL DEF Spec

\* The row i may leave the file.
Removable(i) ==
  \/ i \in applied
  \/ /\ Gates(queue) = {}
     /\ ~BehindCorrupt(queue, i) /\ ~Quarantined(queue, i)
     /\ ~HasPredecessor(queue, i) \/ Sending(queue) = {}
     /\ ~queue[i].state.protected
     /\ queue[i].old \/ queue[i].attempts + 1 >= MaxReplayAttempts

\* Expiry, in the flush that begins.
LEMMA CleanupRemoves ==
  ASSUME Inv, StatesOK, NEW i \in DOMAIN queue,
         i \notin DOMAIN Cleanup(PrepareQueue(queue, writeBank))
  PROVE  Removable(i)
<1> DEFINE q == PrepareQueue(queue, writeBank)
<1>1. /\ IsQueue(queue) /\ IsStated(queue)
      /\ DOMAIN q = DOMAIN queue /\ Benign(queue, q)
  BY PrepareQueueType DEF Inv, TypeOK, StatesOK
<1>2. /\ \A j \in DOMAIN queue : /\ q[j].state = PreparedState(queue, j, writeBank)
                                 /\ q[j].old = queue[j].old
  BY <1>1 DEF PrepareQueue, IsQueue, Row
<1>3. ~KeptByCleanup(q, i) /\ q[i].old
  BY <1>1 DEF Cleanup
<1>4. Gates(q) = {} /\ Sending(q) = {} /\ ~BehindCorrupt(q, i) /\ ~q[i].state.present
  BY <1>3 DEF KeptByCleanup
<1> HIDE DEF q
<1>5. Gates(queue) = {} /\ Sending(queue) = {}
  BY <1>1, <1>4 DEF Benign, Gates, Sending
<1>6. ~BehindCorrupt(queue, i)
  BY <1>1, <1>4 DEF Benign, BehindCorrupt, Before, Corrupt
<1>7. ~queue[i].state.present
  <2>1. queue[i].state \in ReplayState
    BY <1>1 DEF IsQueue, Row
  <2> QED BY <1>2, <1>4, <2>1 DEF PreparedState, Protect, Quarantine, ReplayState
<1>8. queue[i].state = NoState
  BY <1>1, <1>7 DEF IsStated
<1> QED BY <1>2, <1>3, <1>5, <1>6, <1>8 DEF Removable, Quarantined, NoState

\* Abandonment, by the flush that has the claim.
LEMMA AbandonRemoves ==
  ASSUME Inv, Order, NEW w \in Replayers, pc[w] \in ClaimPoints,
         ~Completed(w).present,
         IncrementReplayAttempts(queue, work[w].target)[work[w].target].attempts
           >= MaxReplayAttempts
  PROVE  Removable(work[w].target)
<1> DEFINE i == work[w].target
<1>1. /\ i \in DOMAIN queue /\ queue[i] \in Row
      /\ queue[i].state.quarantine = "none" /\ queue[i].state.gate = "none"
      /\ ~queue[i].state.protected
      /\ ~BehindCorrupt(queue, i)
      /\ Gates(queue) # {} => IsFirst(queue, Gates(queue), i)
  BY StatedCompleted, TargetFacts DEF Inv, ClaimsOK, Claim, IsQueue
<1>2. Gates(queue) = {}
  BY <1>1 DEF IsFirst, Gates
<1>3. ~HasPredecessor(queue, i)
  BY DEF Order, FirstOK
<1>4. queue[i].attempts + 1 >= MaxReplayAttempts
  <2>1. /\ queue[i].attempts \in Nat
        /\ AttemptCap \in Nat /\ MaxReplayAttempts \in Nat
    BY <1>1, QueueConstants DEF Row
  <2>2. IncrementReplayAttempts(queue, i)[i].attempts
          = IF queue[i].attempts < AttemptCap THEN queue[i].attempts + 1 ELSE AttemptCap
    BY <1>1 DEF IncrementReplayAttempts, Row
  <2> QED BY <2>1, <2>2
<1> QED BY <1>1, <1>2, <1>3, <1>4 DEF Removable, Quarantined

\* No other rewrite removes a row.
LEMMA SenderKeepsRows ==
  ASSUME Inv, NEW r \in Requests, SenderStep(r) \/ Abort(r)
  PROVE  DOMAIN queue \subseteq DOMAIN queue'
<1> DEFINE ready == PrepareQueue(queue, writeBank)
<1>1. pc[r] \in SenderPoints
  BY DEF Inv, PointsOK
<1>2. /\ DOMAIN ready = DOMAIN queue
      /\ \A j, row : DOMAIN queue \subseteq DOMAIN Enqueue(ready, j, row)
  BY DEF PrepareQueue, Enqueue
<1>3. pc[r] = "queueing" => DOMAIN queue \subseteq DOMAIN Enqueued(r)
  BY EnqueuedRows
<1>4. CASE SenderStep(r)
  <2>1. queue' \in {queue, ready} \/ (pc[r] = "queueing" /\ queue' = Enqueued(r))
    BY <1>4 DEF SenderStep, Retain, AdmissionTimeout, TryDelivery, Inspect, RecheckBank,
                DirectDelivered, DirectRefused, DirectTransient, EnqueueRequest, fileVars
  <2> QED BY <1>2, <1>3, <2>1
<1>5. CASE Abort(r) /\ queue' # queue
  <2>1. queue' \in PartialWrites(r)
    BY <1>5 DEF Abort
  <2>2. pc[r] = "queueing"
    BY <1>1, <2>1 DEF PartialWrites, SenderPoints, Abort
  <2>3. queue' \in {ready, Enqueued(r)} \/ \E j, row : queue' = Enqueue(ready, j, row)
    BY <2>1, <2>2 DEF PartialWrites
  <2> QED BY <1>2, <1>3, <2>2, <2>3
<1> QED BY <1>4, <1>5

LEMMA FlushRemoves ==
  ASSUME Inv, History, Order, StatesOK, NEW w \in Replayers, ReplayStep(w) \/ Abort(w),
         NEW i \in DOMAIN queue \ DOMAIN queue'
  PROVE  Removable(i)
<1> DEFINE k == work[w].target
           ready == PrepareQueue(queue, writeBank)
           counted == IncrementReplayAttempts(queue, k)
           settled == SetReplayState(counted, k, Completed(w))
<1>1. /\ DOMAIN ready = DOMAIN queue
      /\ DOMAIN counted = DOMAIN queue /\ DOMAIN settled = DOMAIN queue
      /\ \A x : /\ DOMAIN EnsureOperationIds(queue, x) = DOMAIN queue
                /\ DOMAIN SetReplayState(queue, k, x) = DOMAIN queue
      /\ DOMAIN DenyReplay(queue, k) = DOMAIN queue
  BY DEF PrepareQueue, SetReplayState, EnsureOperationIds,
         IncrementReplayAttempts, DenyReplay
<1>2. CASE \/ Flush(w) \/ PrepareReplayOperationIds(w) \/ BatchDone(w) \/ CheckBank(w)
           \/ Deliver(w) \/ Refuse(w) \/ Reopen(w) \/ Unroute(w) \/ Mismatch(w) \/ Deny(w)
           \/ QuarantinePermanent(w)
  BY <1>1, <1>2 DEF Flush, PrepareReplayOperationIds, BatchDone, CheckBank, Deliver, Refuse,
                    Reopen, Unroute, Mismatch, Deny, QuarantinePermanent, fileVars
<1>3. CASE ReplayQueue(w)
  BY <1>1, <1>3, CleanupRemoves DEF ReplayQueue
<1>4. CASE AttemptProbe(w) \/ AttemptNext(w)
  <2>1. queue' = queue \/ \E j, op : queue' = Claimed(j, op)
    BY <1>4 DEF AttemptProbe, AttemptNext, Attempt
  <2>2. \A j, op : DOMAIN Claimed(j, op) = DOMAIN queue
    BY DEF Claimed, SetReplayState, EnsureOperationIds
  <2> QED BY <2>1, <2>2
<1>5. CASE Acknowledge(w)
  <2>1. k \in applied /\ queue' = Remove(queue, k)
    BY <1>5 DEF Acknowledge, History, NotesOK
  <2> QED BY <2>1 DEF Remove, Removable
<1>6. CASE RecordTransientFailure(w)
  <2>1. pc[w] \in ClaimPoints /\ queue' \in {settled, Remove(settled, k)}
    BY <1>6 DEF RecordTransientFailure, ClaimPoints
  <2>2. queue' # settled
    BY <1>1
  <2>3. counted[k].attempts >= MaxReplayAttempts /\ ~Completed(w).present
    BY <1>6, <2>2 DEF RecordTransientFailure
  <2>4. i = k
    BY <1>1, <2>1, <2>2 DEF Remove
  <2> QED BY <2>1, <2>3, <2>4, AbandonRemoves
<1>7. CASE Abort(w)
  <2>1. queue' \in PartialWrites(w) /\ pc[w] \in ReplayPoints
    BY <1>7, CoordinatorConstants DEF Abort, Inv, PointsOK
  <2>2. CASE pc[w] \in {"probe", "batch"}
    <3>1. PartialWrites(w) =
            UNION {{EnsureOperationIds(queue, [j \in {m} |-> op]) :
                      op \in OperationFor(w, m)} :
                   m \in {m \in NextUp(w) : ~MustStop(m) /\ ~Blocked(m)}}
      BY <2>2 DEF PartialWrites
    <3> QED BY <1>1, <2>1, <3>1, ZenonT(60)
  <2>3. CASE pc[w] \notin {"probe", "batch"}
    <3>1. queue' \in {ready, SetReplayState(queue, k, Completed(w)), counted, settled}
      BY <2>1, <2>3 DEF PartialWrites, ReplayPoints
    <3> QED BY <1>1, <3>1
  <2> QED BY <2>2, <2>3
<1> QED BY <1>2, <1>3, <1>4, <1>5, <1>6, <1>7 DEF ReplayStep

LEMMA StepRemoves ==
  Inv /\ History /\ Order /\ StatesOK /\ [Next]_vars
    => [\A i \in DOMAIN queue \ DOMAIN queue' : Removable(i)]_vars
<1> SUFFICES ASSUME Inv, History, Order, StatesOK, [Next]_vars,
                    NEW i \in DOMAIN queue \ DOMAIN queue'
             PROVE  Removable(i)
  OBVIOUS
<1>1. CASE UNCHANGED vars
  BY <1>1 DEF vars
<1>2. CASE Environment
  <2>1. Age => DOMAIN queue' = DOMAIN queue
    BY DEF Age
  <2>2. OperatorResume => DOMAIN queue' = DOMAIN queue
    BY DEF OperatorResume, DenyReplay
  <2> QED BY <1>2, <2>1, <2>2, SenderKeepsRows, FlushRemoves
          DEF Environment, Reroute, fileVars, Actors
<1> QED BY <1>1, <1>2, SenderKeepsRows, FlushRemoves DEF Next, Settled

\* A row leaves the file because the server performed it, or because it was
\* unprotected and expired or was abandoned after the allowed number of retries
\* (cleanup, recordTransientFailure, deliverQueued).
THEOREM RemovalsJustified == Spec => RemovalIsJustified
<1>1. Spec => [][\A i \in DOMAIN queue \ DOMAIN queue' : Removable(i)]_vars
  BY StepRemoves, Invariance, HistoryInvariance, OrderInvariance, StatesInvariance, PTL
  DEF Spec
<1> QED BY <1>1 DEF RemovalIsJustified, Removable

-----------------------------------------------------------------------------
(* The retain path implements the outbox: under the mapping of               *)
(* RetainCoordinator!Outbox every step of a sender, of a flush or of the      *)
(* environment takes a write on, performs one in its turn, gives up writes,   *)
(* pins writes, or changes nothing.  A step that admits no sender opens no    *)
(* write (Ordered); which it closes, performs or pins is told by three kinds  *)
(* of effects.                                                                *)

\* The state of the outbox, as Outbox maps it.
Open == [i \in {j \in Writes : Alive(j)} |-> Destination(i)]
Done == applied \cap Writes
Pinned == shielded \ Barriers

\* The writes that a step closes.
Closing == {i \in Writes : Alive(i) /\ ~Alive(i)'}

LEMMA OutboxState ==
  ASSUME NEW i \in Writes
  PROVE  /\ i \in DOMAIN Open <=> Alive(i)
         /\ i \in DOMAIN Open' <=> Alive(i)'
         /\ Alive(i) => Open[i] = Destination(i)
         /\ Alive(i)' => Open'[i] = Destination(i)'
BY DEF Open

\* A destination is a document of a bank, or none.
LEMMA DestinationType ==
  ASSUME TypeOK, NEW i \in Writes, Alive(i),
         i \in DOMAIN queue \/ bankOf[i] \in Banks
  PROVE  Destination(i) \in (Banks \cup {UnknownBank}) \X Docs \cup {NoDoc}
<1>1. i \in Ids /\ DocOf[i] \in Docs \cup {NoDoc}
  BY QueueConstants DEF Ids
<1>2. BankOf(i) \in Banks \cup {UnknownBank}
  BY DEF BankOf, TypeOK, IsQueue, Row
<1> QED BY <1>1, <1>2 DEF Destination

-----------------------------------------------------------------------------
(* Steps that admit no sender *)

\* They open no write, and no write changes its destination.
LEMMA NoneOpened ==
  ASSUME Inv, Inv', Ordered, NEW i \in Writes, Alive(i)'
  PROVE  Alive(i) /\ Destination(i)' = Destination(i)
<1>1. i \notin Barriers
  BY BarriersNowhere
<1>2. CASE i \in DOMAIN queue'
  <2>1. CASE i \in DOMAIN queue
    BY <1>1, <1>2, <2>1 DEF Ordered, Appends, Alive, Destination, BankOf
  <2>2. CASE i \notin DOMAIN queue
    BY <1>1, <1>2, <2>2 DEF Ordered, Appends, Alive, Destination, BankOf, SenderPoints
  <2> QED BY <2>1, <2>2
<1>3. CASE i \notin DOMAIN queue'
  <2>1. i \in Requests /\ pc'[i] \in AdmittedPoints
    BY <1>3 DEF Alive, SenderPoints, AdmittedPoints
  <2>2. pc[i] \in AdmittedPoints
    BY <2>1 DEF Ordered
  <2>3. i \notin DOMAIN queue
    BY <2>1, <2>2 DEF Inv, RowsOK, AdmittedPoints
  <2> QED BY <1>3, <2>1, <2>2, <2>3
          DEF Ordered, Alive, Destination, BankOf, SenderPoints, AdmittedPoints
<1> QED BY <1>2, <1>3

LEMMA OnlyCloses ==
  ASSUME Inv, Inv', Ordered
  PROVE  /\ Open' = [i \in DOMAIN Open \ Closing |-> Open[i]]
         /\ Closing = {} => Open' = Open
<1>1. \A i \in Writes : Alive(i)' => Alive(i) /\ Destination(i)' = Destination(i)
  BY NoneOpened
<1>2. {i \in Writes : Alive(i)}' = {i \in Writes : Alive(i)} \ Closing
  BY <1>1 DEF Closing
<1>3. \A i \in {i \in Writes : Alive(i)}' : Destination(i)' = Destination(i)
  BY <1>1
<1> QED BY <1>2, <1>3 DEF Open

\* What a step does besides.
Quietly == applied' = applied /\ shielded' = shielded

Performs ==
  /\ shielded' = shielded /\ queue' = queue
  /\ \E a \in Actors :
       /\ pc[a] = "http" /\ applied' = applied \cup {OnWire(a)}
       /\ \A r \in Requests \ {a} : pc'[r] = pc[r]

Pins ==
  /\ applied' = applied /\ shielded \subseteq shielded'
  /\ \A i \in shielded' \ shielded : i \in Barriers \/ (i \in Writes /\ Alive(i))
  /\ Closing = {}

LEMMA SenderEffects ==
  ASSUME Inv, Inv', NEW r \in Requests, SenderStep(r)
  PROVE  Quietly \/ Performs \/ Pins
<1>1. CASE \/ Retain(r) \/ AdmissionTimeout(r) \/ TryDelivery(r) \/ Inspect(r)
           \/ RecheckBank(r) \/ DirectRefused(r)
  BY <1>1 DEF Retain, AdmissionTimeout, TryDelivery, Inspect, RecheckBank, DirectRefused,
              serverVars, Quietly
<1>2. CASE DirectDelivered(r) \/ DirectTransient(r)
  <2>1. /\ shielded' = shielded /\ queue' = queue /\ pc[r] = "http"
        /\ applied' = applied \/ applied' = applied \cup {OnWire(r)}
        /\ \E point : pc' = [pc EXCEPT ![r] = point]
    BY <1>2 DEF DirectDelivered, DirectTransient, Perform, Finish, Goto, fileVars, OnWire
  <2>2. r \in Actors /\ \A s \in Requests \ {r} : pc'[s] = pc[s]
    BY <2>1 DEF Inv, TypeOK, Actors
  <2> QED BY <2>1, <2>2 DEF Quietly, Performs
<1>3. CASE EnqueueRequest(r)
  <2>1. /\ applied' = applied /\ pc[r] = "queueing" /\ pc' = [pc EXCEPT ![r] = "done"]
        /\ \/ shielded' = shielded
           \/ queue' = Enqueued(r) /\ shielded' = shielded \cup {r}
    BY <1>3 DEF EnqueueRequest, Finish, Goto, serverVars
  <2>2. CASE queue' = Enqueued(r) /\ shielded' = shielded \cup {r}
    <3>1. DOMAIN queue' = DOMAIN queue \cup {r}
      BY <2>1, <2>2, EnqueuedRows
    <3>2. \A i \in Writes : Alive(i) => Alive(i)'
      BY <2>1, <3>1 DEF Alive, Inv, TypeOK, Actors
    <3>3. r \in Writes /\ Alive(r)
      BY <2>1 DEF Writes, Alive, SenderPoints
    <3> QED BY <2>1, <2>2, <3>2, <3>3 DEF Pins, Closing
  <2> QED BY <2>1, <2>2 DEF Quietly
<1> QED BY <1>1, <1>2, <1>3 DEF SenderStep

\* A flush that protects the file loses no row by it.
LEMMA DeniedPins ==
  ASSUME Inv, NEW i, queue' = DenyReplay(queue, i), shielded' = shielded \cup DOMAIN queue,
         applied' = applied, \A r \in Requests : pc'[r] = pc[r]
  PROVE  Pins
<1>1. DOMAIN queue' = DOMAIN queue /\ DOMAIN queue \subseteq Ids
  BY DEF DenyReplay, Inv, TypeOK, IsQueue
<1> QED BY <1>1 DEF Pins, Closing, Alive, Ids

LEMMA FlushEffects ==
  ASSUME Inv, Inv', NEW w \in Replayers, ReplayStep(w)
  PROVE  Quietly \/ Performs \/ Pins
<1>1. CASE \/ Flush(w) \/ ReplayQueue(w) \/ PrepareReplayOperationIds(w) \/ BatchDone(w)
           \/ AttemptProbe(w) \/ AttemptNext(w) \/ CheckBank(w) \/ Unroute(w)
           \/ Mismatch(w) \/ Acknowledge(w) \/ Reopen(w) \/ QuarantinePermanent(w)
           \/ RecordTransientFailure(w)
  BY <1>1 DEF Flush, ReplayQueue, PrepareReplayOperationIds, BatchDone, AttemptProbe,
              AttemptNext, CheckBank, Unroute, Mismatch, Acknowledge, Reopen,
              QuarantinePermanent, RecordTransientFailure, serverVars, Quietly
<1>2. CASE Deliver(w) \/ Refuse(w)
  <2>1. w \in Actors /\ OnWire(w) = work[w].target
    BY CoordinatorConstants DEF Actors, OnWire
  <2>2. /\ shielded' = shielded /\ queue' = queue /\ pc[w] = "http"
        /\ applied' = applied \/ applied' = applied \cup {OnWire(w)}
        /\ \E point : pc' = [pc EXCEPT ![w] = point]
    BY <1>2, <2>1 DEF Deliver, Refuse, Perform, Goto, fileVars
  <2>3. \A r \in Requests : pc'[r] = pc[r]
    BY <2>2, CoordinatorConstants DEF Inv, TypeOK, Actors
  <2> QED BY <2>1, <2>2, <2>3 DEF Quietly, Performs
<1>3. CASE Deny(w)
  <2>1. \A r \in Requests : pc'[r] = pc[r]
    BY <1>3, CoordinatorConstants DEF Deny, EndReplay, Goto
  <2> QED BY <1>3, <2>1, DeniedPins DEF Deny, serverVars
<1> QED BY <1>1, <1>2, <1>3 DEF ReplayStep

\* A request that is on the wire when its actor dies may be performed all the same.
LEMMA AbortEffects ==
  ASSUME Inv, Inv', NEW a \in Actors, Abort(a)
  PROVE  Quietly \/ Performs
<1>1. CASE applied' # applied
  <2>1. /\ pc[a] = "http" /\ applied' = applied \cup {OnWire(a)} /\ shielded' = shielded
        /\ \E point : pc' = [pc EXCEPT ![a] = point]
        /\ queue' = queue
    <3>1. pc[a] = "http"
      BY <1>1 DEF Abort
    <3>2. PartialWrites(a) = {}
      BY <3>1 DEF PartialWrites
    <3> QED BY <1>1, <3>1, <3>2 DEF Abort, Perform, Finish, EndReplay, Goto
  <2>2. \A r \in Requests \ {a} : pc'[r] = pc[r]
    BY <2>1 DEF Inv, TypeOK, Actors
  <2> QED BY <2>1, <2>2 DEF Performs
<1>2. CASE applied' = applied
  BY <1>2 DEF Abort, Quietly
<1> QED BY <1>1, <1>2

LEMMA StepEffects ==
  ASSUME Inv, Inv', [Next]_vars
  PROVE  Quietly \/ Performs \/ Pins
<1>1. CASE UNCHANGED vars
  BY <1>1 DEF vars, Quietly
<1>2. CASE Environment
  <2>1. ASSUME OperatorResume PROVE Pins
    BY <2>1, DeniedPins DEF OperatorResume, serverVars
  <2> QED BY <1>2, <2>1, AbortEffects DEF Environment, Reroute, Age, serverVars, Quietly
<1> QED BY <1>1, <1>2, SenderEffects, FlushEffects DEF Next, Settled

-----------------------------------------------------------------------------
(* Every step is a step of the outbox *)

\* The write that is on the wire is in its turn.
LEMMA WireInTurn ==
  ASSUME Inv, Order, NEW a \in Actors, pc[a] = "http", OnWire(a) \in Writes
  PROVE  OnWire(a) \in DOMAIN Open /\ Outbox!InTurn(OnWire(a))
<1> DEFINE k == OnWire(a)
<1>1. Alive(k)
  <2>1. CASE a \in Requests
    BY <2>1 DEF OnWire, Alive, SenderPoints
  <2>2. CASE a \notin Requests
    BY <2>2 DEF OnWire, Alive, Actors, ClaimPoints, Inv, ClaimsOK, Claim
  <2> QED BY <2>1, <2>2
<1>2. ASSUME NEW j \in Writes, Alive(j), Destination(j) = Destination(k),
             Destination(k) # NoDoc
      PROVE  turn[j] >= turn[k]
  <2>1. DocOf[j] # NoDoc /\ DocOf[k] # NoDoc
    BY <1>2 DEF Destination
  <2>2. <<BankOf(j), DocOf[j]>> = <<BankOf(k), DocOf[k]>>
    BY <1>2, <2>1 DEF Destination
  <2>3. BankOf(j) = BankOf(k) /\ DocOf[j] = DocOf[k]
    BY <2>2
  <2> QED BY <1>2, <2>1, <2>3, WireFirst
<1>3. k \in DOMAIN Open
  BY <1>1, OutboxState
<1>4. \A j \in DOMAIN Open : Open[j] = Open[k] /\ Open[k] # NoDoc => turn[j] >= turn[k]
  BY <1>1, <1>2, OutboxState DEF Open
<1> QED BY <1>3, <1>4 DEF Outbox!InTurn, Open

\* An admission is the outbox taking the write on.
LEMMA RetainTakesOn ==
  ASSUME Inv, Inv', Order, NEW r \in Requests, Retain(r), writeBank # NoBank
  PROVE  Outbox!OutboxNext
<1>1. /\ queue' = queue /\ applied' = applied /\ shielded' = shielded
      /\ turn' = [turn EXCEPT ![r] = tickets + 1]
      /\ bankOf' = [bankOf EXCEPT ![r] = writeBank]
      /\ pc' = [pc EXCEPT ![r] = "admitted"]
      /\ pc[r] = "idle"
  BY DEF Retain, Goto, fileVars, serverVars
<1>2. /\ r \notin DOMAIN queue /\ r \in Writes /\ turn[r] = 0
      /\ turn \in [Writes -> Nat] /\ tickets \in Nat
      /\ \A i \in Writes : turn[i] <= tickets
  BY <1>1 DEF Inv, RowsOK, TypeOK, Order, TurnsOK, Writes
<1>3. /\ pc'[r] = "admitted" /\ \A s \in Requests \ {r} : pc'[s] = pc[s]
      /\ \A s \in Requests \ {r} : bankOf'[s] = bankOf[s]
      /\ bankOf'[r] = writeBank /\ writeBank \in Banks
  BY <1>1 DEF Inv, TypeOK, Actors
<1>4. Alive(r)'
  BY <1>3 DEF Alive, SenderPoints
<1>5. \A i \in Writes \ {r} : /\ Alive(i)' <=> Alive(i)
                              /\ Alive(i) => Destination(i)' = Destination(i)
  BY <1>1, <1>3 DEF Alive, Destination, BankOf
<1>6. Destination(r)' \in (Banks \cup {UnknownBank}) \X Docs \cup {NoDoc}
  <2>1. r \in Ids
    BY <1>2 DEF Ids
  <2>2. DocOf[r] \in Docs \cup {NoDoc}
    BY <2>1, QueueConstants
  <2> QED BY <1>1, <1>2, <1>3, <2>2 DEF Destination, BankOf
<1>7. Open' = [j \in DOMAIN Open \cup {r} |->
                 IF j = r THEN Destination(r)' ELSE Open[j]]
  <2>1. {i \in Writes : Alive(i)}' = {i \in Writes : Alive(i)} \cup {r}
    BY <1>2, <1>4, <1>5
  <2> QED BY <1>5, <2>1 DEF Open
<1>8. /\ turn' \in [Writes -> Nat]
      /\ \A j \in Writes : turn[j] < turn'[r] /\ (j # r => turn'[j] = turn[j])
  BY <1>1, <1>2
<1>9. Done' = Done /\ Pinned' = Pinned
  BY <1>1 DEF Done, Pinned
<1>10. Outbox!TakeOn(r, Destination(r)')
  BY <1>2, <1>7, <1>8, <1>9 DEF Outbox!TakeOn, Open, Done, Pinned
<1> QED BY <1>2, <1>6, <1>10 DEF Outbox!OutboxNext

\* A write is given up only if it was performed or no gate has protected it.
LEMMA QuietCloses ==
  ASSUME Inv, Inv', History', Ordered, Quietly
  PROVE  [Outbox!OutboxNext]_(Outbox!outboxVars)
<1>1. /\ Open' = [i \in DOMAIN Open \ Closing |-> Open[i]]
      /\ Closing = {} => Open' = Open
  BY OnlyCloses
<1>2. turn' = turn /\ Done' = Done /\ Pinned' = Pinned
  BY DEF Ordered, Quietly, Done, Pinned
<1>3. CASE Closing = {}
  BY <1>1, <1>2, <1>3 DEF Outbox!outboxVars, Open, Done, Pinned
<1>4. CASE Closing # {}
  <2>1. Closing \in SUBSET DOMAIN Open
    BY DEF Closing, Open
  <2>2. Closing \cap Pinned \subseteq Done
    <3>1. shielded' \subseteq DOMAIN queue' \cup applied'
      BY DEF History, ShieldOK, Owed
    <3> QED BY <3>1 DEF Closing, Pinned, Done, Alive, Quietly
  <2>3. Outbox!Close(Closing)
    BY <1>1, <1>2, <1>4, <2>2 DEF Outbox!Close, Outbox!Without, Open, Done, Pinned
  <2> QED BY <2>1, <2>3 DEF Outbox!OutboxNext, Open
<1> QED BY <1>3, <1>4

\* The server performs the write on the wire; its sender may be done with it.
LEMMA WirePerforms ==
  ASSUME Inv, Inv', Order, Ordered, Performs
  PROVE  [Outbox!OutboxNext]_(Outbox!outboxVars)
<1>1. PICK a \in Actors :
        /\ pc[a] = "http" /\ applied' = applied \cup {OnWire(a)}
        /\ \A r \in Requests \ {a} : pc'[r] = pc[r]
  BY DEF Performs
<1> DEFINE k == OnWire(a)
<1>2. Closing \subseteq {k}
  <2>1. \A i \in Closing : i \in Requests /\ pc'[i] # pc[i]
    BY DEF Closing, Alive, Performs
  <2>2. \A i \in Closing : i = a
    BY <1>1, <2>1
  <2> QED BY <2>1, <2>2 DEF OnWire
<1>3. /\ Open' = [i \in DOMAIN Open \ Closing |-> Open[i]]
      /\ Closing = {} => Open' = Open
  BY OnlyCloses
<1>4. turn' = turn /\ Pinned' = Pinned
  BY DEF Ordered, Performs, Pinned
<1>5. CASE k \in Writes
  <2>1. k \in DOMAIN Open /\ Outbox!InTurn(k)
    BY <1>1, <1>5, WireInTurn
  <2>2. Done' = Done \cup {k}
    BY <1>1, <1>5 DEF Done
  <2>3. Open' \in {Open, [i \in DOMAIN Open \ {k} |-> Open[i]]}
    <3>1. Closing = {} \/ Closing = {k}
      BY <1>2
    <3> QED BY <1>3, <3>1
  <2>4. Outbox!Perform(k)
    BY <1>4, <2>1, <2>2, <2>3 DEF Outbox!Perform, Outbox!Without, Open, Done, Pinned
  <2> QED BY <1>5, <2>4 DEF Outbox!OutboxNext
<1>6. CASE k \notin Writes
  <2>1. Done' = Done /\ Open' = Open
    BY <1>1, <1>2, <1>3, <1>6 DEF Done, Closing
  <2> QED BY <1>4, <2>1 DEF Outbox!outboxVars, Open, Done, Pinned
<1> QED BY <1>5, <1>6

LEMMA GatePins ==
  ASSUME Inv, Inv', Ordered, Pins
  PROVE  [Outbox!OutboxNext]_(Outbox!outboxVars)
<1> DEFINE S == Pinned' \ Pinned
<1>1. Open' = Open /\ turn' = turn /\ Done' = Done
  BY OnlyCloses DEF Ordered, Pins, Done
<1>2. S \in SUBSET DOMAIN Open /\ Pinned' = Pinned \cup S
  BY OutboxState DEF Pins, Pinned
<1>3. Outbox!Pin(S)
  BY <1>1, <1>2 DEF Outbox!Pin, Open, Done, Pinned
<1> QED BY <1>2, <1>3 DEF Outbox!OutboxNext, Open

LEMMA StepOutbox ==
  Inv /\ Inv' /\ Order /\ History' /\ [Next]_vars
    => [Outbox!OutboxNext]_(Outbox!outboxVars)
<1> SUFFICES ASSUME Inv, Inv', Order, History', [Next]_vars
             PROVE  [Outbox!OutboxNext]_(Outbox!outboxVars)
  OBVIOUS
<1>1. CASE Ordered
  BY <1>1, StepEffects, QuietCloses, WirePerforms, GatePins
<1>2. CASE \E r \in Requests : Retain(r) /\ writeBank # NoBank
  BY <1>2, RetainTakesOn
<1> QED BY <1>1, <1>2, NextOrdered

LEMMA InitOutbox == Init => Outbox!OutboxInit
<1> SUFFICES ASSUME Init PROVE Outbox!OutboxInit
  OBVIOUS
<1>1. /\ TypeOK
      /\ DOMAIN queue \cap Requests = {} /\ DOMAIN queue \subseteq Ids
      /\ \A i \in DOMAIN queue : queue[i].pos \in 1 .. FirstLine - 1
      /\ turn = [i \in Writes |-> IF i \in DOMAIN queue THEN queue[i].pos ELSE 0]
      /\ applied = {} /\ shielded \subseteq DOMAIN queue
  BY InitInv, CoordinatorConstants DEF Init, Inv, TypeOK, IsQueue
<1>2. \A i \in Writes : Alive(i) <=> i \in DOMAIN queue
  BY DEF Init, Alive, Actors
<1>3. DOMAIN Open = Writes \cap DOMAIN queue
  BY <1>2 DEF Open
<1>4. Open \in [DOMAIN Open -> (Banks \cup {UnknownBank}) \X Docs \cup {NoDoc}]
  BY <1>1, <1>2, DestinationType DEF Open
<1>5. turn \in [Writes -> Nat] /\ \A i \in Writes : turn[i] > 0 <=> i \in DOMAIN Open
  BY <1>1, <1>3 DEF TypeOK
<1>6. Done = {} /\ Pinned \subseteq DOMAIN Open
  BY <1>1, <1>3 DEF Done, Pinned, Ids
<1> QED BY <1>3, <1>4, <1>5, <1>6 DEF Outbox!OutboxInit, Open, Done, Pinned

\* The senders, the flushes and the file implement the outbox: writes of one document
\* are performed in the order they were taken on, and a pinned write is not given up
\* before the server has it (RetainCoordinator.retain and flushQueues).
THEOREM OutboxImplemented == Spec => ImplementsOutbox
BY InitOutbox, StepOutbox, Invariance, OrderInvariance, HistoryInvariance, PTL
DEF Spec, ImplementsOutbox, Outbox!OutboxSpec

================================================================================
