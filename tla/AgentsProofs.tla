---------------------------- MODULE AgentsProofs ----------------------------
(***************************************************************************)
(* Proofs about the write-back, the prompt hooks and the installer, parts  *)
(* that MCAgents gathers, for any number of turns, banks, processes,       *)
(* scopes, commands and failures.                                          *)
(***************************************************************************)
EXTENDS MCAgents, RecursionLemmas, SequenceTheorems, FiniteSetTheorems, TLAPS

-----------------------------------------------------------------------------
(* The write-back of a session.  A turn keeps its number, so that what was   *)
(* sent of a session is told by sets of numbers.  The argument is one of     *)
(* what the server may know: every turn of the transcript in an operation    *)
(* accepted for a bank lies within the position of the cursor kept for that  *)
(* bank, so that the slice behind the position is new to the bank.           *)

\* One write-back of a session at a time, whose cursor is written.
OneAtATime == \A g, h \in Hooks : g = h
CursorIsWritten == CursorWritesFail = FALSE

Held(s) == {s[i] : i \in 1 .. Len(s)}
Said(op) == Held(op.content)
Accepted == DOMAIN status

\* Turns, each once.
TurnsOK(s) ==
  /\ s \in Seq(Nat)
  /\ \A i, j \in 1 .. Len(s) : s[i] = s[j] => i = j

OpOK(op) ==
  /\ op = [bank |-> op.bank, append |-> op.append, content |-> op.content]
  /\ op.append \in BOOLEAN /\ TurnsOK(op.content)

\* Operations for bank b that are still to be sent, or may have to be again: each
\* holds other turns than the others, and an append other turns than anything
\* accepted (A) for the bank.
QueueOK(q, b, turns, A) ==
  /\ q \in Seq(Range(q))
  /\ \A i \in 1 .. Len(q) : OpOK(q[i]) /\ q[i].bank = b /\ Said(q[i]) \subseteq Held(turns)
  /\ \A i, j \in 1 .. Len(q) : i # j => Said(q[i]) \cap Said(q[j]) = {}
  /\ \A i \in 1 .. Len(q), op \in A :
       q[i].append /\ q[i] \notin A /\ op.bank = b => Said(q[i]) \cap Said(op) = {}

AllAppend(q) == \A i \in 1 .. Len(q) : q[i].append

CursorOK(c, A) ==
  /\ DOMAIN c = {"upto", "bank", "append", "dirty", "pending", "ops"}
  /\ c.bank \in Banks /\ TurnsOK(c.upto)
  /\ QueueOK(c.pending, c.bank, c.upto, A) /\ AllAppend(c.pending)

\* Every one of the turns that was accepted for a bank is within a position.
Within(b, turns, upto, A) ==
  \A op \in A : op.bank = b => Said(op) \cap Held(turns) \subseteq Held(upto)

StoredOK(c, turns, A) ==
  c # NoCursor => CursorOK(c, A) /\ Within(c.bank, turns, c.upto, A)

Early == {"probe", "settle", "plan"}
Late == {"send", "confirm"}

\* The cursor that a write-back read.
ReadingOK(w, A) ==
  w.cursor # NoCursor =>
    CursorOK(w.cursor, A) /\ w.cursor.bank = w.bank /\ Within(w.bank, w.turns, w.cursor.upto, A)

\* A write-back that sends either one replacement or appends; c is the stored cursor.
SendingOK(w, c, A) ==
  /\ w.queue # <<>> /\ QueueOK(w.queue, w.bank, w.turns, A)
  /\ Len(w.queue) = 1 \/ AllAppend(w.queue)
  /\ c # NoCursor =>
       /\ c.upto = w.turns /\ c.bank = w.bank
       /\ c.pending = <<>> \/ c.pending = w.queue

WorkOK(w, point, c, turns, A) ==
  /\ DOMAIN w = {"turns", "bank", "cursor", "append", "ops", "queue", "attempts"}
  /\ point \in Early \cup Late \cup {"idle"}
  /\ point # "idle" =>
       /\ w.bank \in Banks /\ TurnsOK(w.turns)
       /\ \A op \in A : Said(op) \cap Held(turns) \subseteq Held(w.turns)
  /\ point \in Early => ReadingOK(w, A)
  /\ point = "settle" => w.cursor # NoCursor
  /\ point \in Late => SendingOK(w, c, A)

\* A document, with what is on its way to it.
BankOK(b, doc, box, A) ==
  /\ TurnsOK(doc)
  /\ \A n \in Held(doc) : \E op \in A : op.bank = b /\ n \in Said(op)
  /\ box \in Seq({op \in A : op.bank = b})
  /\ \A j \in 1 .. Len(box) : box[j].append =>
       /\ Said(box[j]) \cap Held(doc) = {}
       /\ \A i \in 1 .. (j - 1) : Said(box[j]) \cap Said(box[i]) = {}

AcceptedOK(A) ==
  /\ \A op \in A : op.bank \in Banks /\ OpOK(op)
  /\ \A p, q \in A :
       p.append /\ q.append /\ p.bank = q.bank /\ p # q => Said(p) \cap Said(q) = {}

\* No turn has a number above made.
NumbersOK ==
  /\ made \in Nat
  /\ Held(transcript) \subseteq 1 .. made
  /\ \A op \in Accepted : Said(op) \subseteq 1 .. made
  /\ \A h \in Hooks : pc[h] # "idle" => Held(work[h].turns) \subseteq 1 .. made

WriteBackInv ==
  /\ TurnsOK(transcript) /\ bank \in Banks /\ NumbersOK
  /\ StoredOK(stored, transcript, Accepted)
  /\ DOMAIN pc = Hooks /\ DOMAIN work = Hooks
  /\ \A h \in Hooks : WorkOK(work[h], pc[h], stored, transcript, Accepted)
  /\ DOMAIN document = Banks /\ DOMAIN inbox = Banks
  /\ \A b \in Banks : BankOK(b, document[b], inbox[b], Accepted)
  /\ AcceptedOK(Accepted)

-----------------------------------------------------------------------------
(* Sequences of turns *)

\* What follows a prefix shares no turn with it.
LEMMA Slice ==
  ASSUME NEW s, TurnsOK(s), NEW p, TurnsOK(p), WriteBack!IsPrefix(p, s)
  PROVE  LET new == SubSeq(s, Len(p) + 1, Len(s)) IN
         /\ TurnsOK(new) /\ Held(new) \subseteq Held(s)
         /\ Held(new) \cap Held(p) = {}
         /\ Held(p) \subseteq Held(s)
<1> DEFINE new == SubSeq(s, Len(p) + 1, Len(s))
<1>1. s \in Seq(Nat) /\ p \in Seq(Nat) /\ Len(p) \in Nat /\ Len(s) \in Nat
  BY LenProperties DEF TurnsOK
<1>2. \A i \in (Len(p) + 1) .. Len(s) : s[i] \in Nat
  BY <1>1, ElementOfSeq
<1>3. Len(p) <= Len(s) /\ \A i \in 1 .. Len(p) : p[i] = s[i]
  <2>1. Len(p) <= Len(s) /\ SubSeq(p, 1, Len(p)) = SubSeq(s, 1, Len(p))
    BY DEF WriteBack!IsPrefix
  <2>2. \A i \in 1 .. Len(p) : p[i] \in Nat /\ s[i] \in Nat
    BY <1>1, <2>1, ElementOfSeq
  <2>3. \A i \in 1 .. Len(p) : SubSeq(p, 1, Len(p))[i] = p[i] /\ SubSeq(s, 1, Len(p))[i] = s[i]
    BY <1>1, <2>2, SubSeqProperties
  <2> QED BY <2>1, <2>3
<1>4. new \in Seq(Nat) /\ Len(new) = Len(s) - Len(p)
      /\ \A i \in 1 .. Len(new) : new[i] = s[Len(p) + i]
  <2>1. new \in Seq(Nat)
        /\ Len(new) = (IF Len(p) + 1 <= Len(s) THEN Len(s) - (Len(p) + 1) + 1 ELSE 0)
        /\ \A i \in 1 .. Len(s) - (Len(p) + 1) + 1 : new[i] = s[(Len(p) + 1) + i - 1]
    BY <1>1, <1>2, SubSeqProperties
  <2> QED BY <1>1, <1>3, <2>1
<1> HIDE DEF new
<1>d. (\A i \in 1 .. Len(new) : Len(p) + i \in 1 .. Len(s))
      /\ \A i \in 1 .. Len(p) : i \in 1 .. Len(s)
  BY <1>1, <1>3, <1>4
<1>c. TurnsOK(new)
  <2>2. ASSUME NEW i \in 1 .. Len(new), NEW j \in 1 .. Len(new), new[i] = new[j] PROVE i = j
    <3>1. Len(p) + i = Len(p) + j
      BY <2>2, <1>4, <1>d DEF TurnsOK
    <3> QED BY <3>1, <1>1
  <2> QED BY <1>4, <2>2 DEF TurnsOK
<1>7. Held(new) \subseteq Held(s) /\ Held(p) \subseteq Held(s)
  BY <1>3, <1>4, <1>d DEF Held
<1>8. ASSUME NEW i \in 1 .. Len(new), NEW j \in 1 .. Len(p), new[i] = p[j] PROVE FALSE
  <2>1. s[Len(p) + i] = s[j] /\ Len(p) + i \in 1 .. Len(s) /\ j \in 1 .. Len(s)
    BY <1>8, <1>3, <1>4, <1>d
  <2>2. Len(p) + i = j
    BY <2>1 DEF TurnsOK
  <2> QED BY <2>2, <1>1
<1>9. Held(new) \cap Held(p) = {}
  BY <1>8 DEF Held
<1> QED BY <1>c, <1>7, <1>9 DEF new

\* A document grows by turns it did not hold.
LEMMA Joined ==
  ASSUME NEW s, TurnsOK(s), NEW t, TurnsOK(t), Held(s) \cap Held(t) = {}
  PROVE  TurnsOK(s \o t) /\ Held(s \o t) = Held(s) \cup Held(t)
<1>1. s \in Seq(Nat) /\ t \in Seq(Nat) /\ Len(s) \in Nat /\ Len(t) \in Nat
  BY LenProperties DEF TurnsOK
<1>2. s \o t \in Seq(Nat) /\ Len(s \o t) = Len(s) + Len(t)
      /\ \A i \in 1 .. Len(s) + Len(t) :
           (s \o t)[i] = IF i <= Len(s) THEN s[i] ELSE t[i - Len(s)]
  BY <1>1, ConcatProperties
<1> DEFINE j == s \o t
<1> HIDE DEF j
<1>3. j \in Seq(Nat) /\ Len(j) = Len(s) + Len(t)
      /\ (\A i \in 1 .. Len(s) : j[i] = s[i])
      /\ (\A i \in 1 .. Len(t) : j[Len(s) + i] = t[i])
      /\ \A i \in 1 .. Len(j) : i \in 1 .. Len(s) \/ \E k \in 1 .. Len(t) : i = Len(s) + k
  <2>1. \A i \in 1 .. Len(j) : i > Len(s) => i - Len(s) \in 1 .. Len(t) /\ i = Len(s) + (i - Len(s))
    BY <1>1, <1>2 DEF j
  <2> QED BY <1>1, <1>2, <2>1 DEF j
<1>a. (\A i \in 1 .. Len(s) : i \in 1 .. Len(j)) /\ \A i \in 1 .. Len(t) : Len(s) + i \in 1 .. Len(j)
  BY <1>1, <1>3
<1>4. Held(j) = Held(s) \cup Held(t)
  <2>1. ASSUME NEW x \in Held(j) PROVE x \in Held(s) \cup Held(t)
    <3>1. PICK i \in 1 .. Len(j) : j[i] = x
      BY DEF Held
    <3>2. CASE i \in 1 .. Len(s)
      BY <3>1, <3>2, <1>3 DEF Held
    <3>3. ASSUME NEW k \in 1 .. Len(t), i = Len(s) + k PROVE x \in Held(t)
      BY <3>1, <3>3, <1>3 DEF Held
    <3> QED BY <3>2, <3>3, <1>3
  <2>2. \A i \in 1 .. Len(s) : s[i] \in Held(j)
    BY <1>3, <1>a DEF Held
  <2>3. \A i \in 1 .. Len(t) : t[i] \in Held(j)
    BY <1>3, <1>a DEF Held
  <2> QED BY <2>1, <2>2, <2>3 DEF Held
<1>b. ASSUME NEW i \in 1 .. Len(s), NEW k \in 1 .. Len(t) PROVE s[i] # t[k]
  <2>1. s[i] \in Held(s) /\ t[k] \in Held(t)
    BY DEF Held
  <2> QED BY <2>1
<1>c. ASSUME NEW i \in 1 .. Len(j), NEW k \in 1 .. Len(j), j[i] = j[k] PROVE i = k
  <2>1. CASE i \in 1 .. Len(s) /\ k \in 1 .. Len(s)
    BY <2>1, <1>c, <1>3 DEF TurnsOK
  <2>2. ASSUME NEW m \in 1 .. Len(t), NEW n \in 1 .. Len(t), i = Len(s) + m, k = Len(s) + n
        PROVE  i = k
    BY <2>2, <1>c, <1>3 DEF TurnsOK
  <2>3. ASSUME NEW m \in 1 .. Len(s), NEW n \in 1 .. Len(t),
               (i = m /\ k = Len(s) + n) \/ (k = m /\ i = Len(s) + n)
        PROVE  FALSE
    BY <2>3, <1>c, <1>3, <1>b
  <2>4. i \in 1 .. Len(s) \/ \E m \in 1 .. Len(t) : i = Len(s) + m
    BY <1>3
  <2>5. k \in 1 .. Len(s) \/ \E m \in 1 .. Len(t) : k = Len(s) + m
    BY <1>3
  <2>6. CASE i \in 1 .. Len(s)
    <3>1. ASSUME NEW n \in 1 .. Len(t), k = Len(s) + n PROVE FALSE
      BY <2>3, <2>6, <3>1
    <3> QED BY <2>1, <2>5, <2>6, <3>1
  <2>7. ASSUME NEW m \in 1 .. Len(t), i = Len(s) + m PROVE i = k
    <3>1. CASE k \in 1 .. Len(s)
      BY <2>3, <2>7, <3>1
    <3>2. ASSUME NEW n \in 1 .. Len(t), k = Len(s) + n PROVE i = k
      BY <2>2, <2>7, <3>2
    <3> QED BY <2>5, <3>1, <3>2
  <2> QED BY <2>4, <2>6, <2>7
<1>7. TurnsOK(j)
  BY <1>3, <1>c DEF TurnsOK
<1> QED BY <1>4, <1>7 DEF j

LEMMA NothingHeld == Held(<<>>) = {} /\ TurnsOK(<<>>) /\ DOMAIN <<>> = {}
<1>1. <<>> \in Seq(Nat) /\ Len(<<>>) = 0
  BY EmptySeq
<1>2. DOMAIN <<>> = 1 .. Len(<<>>)
  BY <1>1, LenProperties
<1> QED BY <1>1, <1>2 DEF Held, TurnsOK

LEMMA TurnsAreNumbers == ASSUME NEW s, TurnsOK(s) PROVE \A n \in Held(s) : n \in Nat
<1>1. \A i \in 1 .. Len(s) : s[i] \in Nat
  BY ElementOfSeq DEF TurnsOK
<1> QED BY <1>1 DEF Held

LEMMA NothingQueued == ASSUME NEW b, NEW turns, NEW A PROVE QueueOK(<<>>, b, turns, A) /\ AllAppend(<<>>)
<1>1. <<>> \in Seq(Range(<<>>)) /\ Len(<<>>) = 0
  BY EmptySeq
<1> QED BY <1>1 DEF QueueOK, AllAppend

LEMMA WriteBackInitially == WriteBack!Init => WriteBackInv
<1> SUFFICES ASSUME WriteBack!Init PROVE WriteBackInv
  OBVIOUS
<1> USE DEF WriteBack!Init
<1>1. Accepted = {} /\ transcript = <<>> /\ made = 0 /\ stored = NoCursor
  BY NothingHeld DEF Accepted
<1>2. NumbersOK
  BY <1>1, NothingHeld DEF NumbersOK
<1>3. ASSUME NEW h \in Hooks PROVE WorkOK(work[h], pc[h], stored, transcript, Accepted)
  BY DEF WorkOK, Early, Late, WriteBack!Idle, WriteBack!Locals
<1>4. ASSUME NEW b \in Banks PROVE BankOK(b, document[b], inbox[b], Accepted)
  <2>1. \A S : <<>> \in Seq(S) /\ Len(<<>>) = 0
    BY EmptySeq
  <2> QED BY <2>1, NothingHeld DEF BankOK
<1> QED BY <1>1, <1>2, <1>3, <1>4, NothingHeld DEF WriteBackInv, StoredOK, AcceptedOK

-----------------------------------------------------------------------------
(* The session *)

\* A turn that is written, or written over, has a number that nobody knows.
LEMMA NewTurnKeeps ==
  ASSUME WriteBackInv, made' = made + 1, TurnsOK(transcript'),
         Held(transcript') \subseteq Held(transcript) \cup {made + 1},
         UNCHANGED <<bank, stored, pc, work, document, inbox, status>>
  PROVE  WriteBackInv'
<1>1. Accepted' = Accepted
  BY DEF Accepted
<1>2. \A op \in Accepted : Said(op) \cap Held(transcript') \subseteq Held(transcript)
  <2>1. \A op \in Accepted : made + 1 \notin Said(op)
    BY DEF WriteBackInv, NumbersOK
  <2> QED BY <2>1
<1>3. NumbersOK'
  <2>1. made' \in Nat /\ 1 .. made \subseteq 1 .. made' /\ made + 1 \in 1 .. made'
    BY DEF WriteBackInv, NumbersOK
  <2> QED BY <1>1, <2>1 DEF WriteBackInv, NumbersOK
<1>4. StoredOK(stored, transcript, Accepted)'
  BY <1>1, <1>2 DEF WriteBackInv, StoredOK, Within
<1>5. ASSUME NEW h \in Hooks PROVE WorkOK(work[h], pc[h], stored, transcript, Accepted)'
  BY <1>1, <1>2 DEF WriteBackInv, WorkOK
<1> QED BY <1>1, <1>3, <1>4, <1>5 DEF WriteBackInv

LEMMA WriteTurnKeeps == ASSUME WriteBackInv, WriteBack!WriteTurn PROVE WriteBackInv'
<1>1. TurnsOK(<<made + 1>>) /\ Held(<<made + 1>>) = {made + 1}
  BY DEF WriteBackInv, NumbersOK, TurnsOK, Held
<1>2. Held(transcript) \cap Held(<<made + 1>>) = {}
  BY <1>1 DEF WriteBackInv, NumbersOK
<1>3. transcript' = transcript \o <<made + 1>>
  BY AppendIsConcat DEF WriteBack!WriteTurn, WriteBackInv, NumbersOK, TurnsOK
<1>4. TurnsOK(transcript') /\ Held(transcript') = Held(transcript) \cup {made + 1}
  BY <1>1, <1>2, <1>3, Joined DEF WriteBackInv
<1> QED BY <1>4, NewTurnKeeps DEF WriteBack!WriteTurn, WriteBack!serverVars

LEMMA RewriteKeeps == ASSUME WriteBackInv, WriteBack!Rewrite PROVE WriteBackInv'
<1> DEFINE new == made + 1
<1>0. transcript \in Seq(Nat) /\ Len(transcript) \in Nat /\ new \in Nat
      /\ \A i \in 1 .. Len(transcript) : transcript[i] \in Nat /\ transcript[i] # new
  <2>1. transcript \in Seq(Nat) /\ made \in Nat
    BY DEF WriteBackInv, NumbersOK, TurnsOK
  <2>2. \A i \in 1 .. Len(transcript) : transcript[i] \in Held(transcript)
    BY DEF Held
  <2>3. \A i \in 1 .. Len(transcript) : transcript[i] <= made /\ transcript[i] \in Nat
    BY <2>1, <2>2, ElementOfSeq DEF WriteBackInv, NumbersOK
  <2> QED BY <2>1, <2>3, LenProperties
<1>1. PICK k \in 1 .. Len(transcript) :
        \/ transcript' = [transcript EXCEPT ![k] = new]
        \/ transcript' = Append(SubSeq(transcript, 1, k - 1), new)
  BY DEF WriteBack!Rewrite
<1>2. CASE transcript' = [transcript EXCEPT ![k] = new]
  <2>1. transcript' \in Seq(Nat) /\ Len(transcript') = Len(transcript)
        /\ \A i \in 1 .. Len(transcript) :
             transcript'[i] = IF i = k THEN new ELSE transcript[i]
    BY <1>0, <1>2, ExceptSeq
  <2>2. TurnsOK(transcript')
    BY <1>0, <2>1 DEF WriteBackInv, TurnsOK
  <2>3. Held(transcript') \subseteq Held(transcript) \cup {new}
    BY <2>1 DEF Held
  <2> QED BY <2>2, <2>3, NewTurnKeeps DEF WriteBack!Rewrite, WriteBack!serverVars
<1>3. CASE transcript' = Append(SubSeq(transcript, 1, k - 1), new)
  <2> DEFINE kept == SubSeq(transcript, 1, k - 1)
  <2>1. kept \in Seq(Nat) /\ Len(kept) = k - 1
        /\ \A i \in 1 .. k - 1 : kept[i] = transcript[i]
    <3>1. \A i \in 1 .. k - 1 : transcript[i] \in Nat
      BY <1>0
    <3>2. kept \in Seq(Nat) /\ Len(kept) = (IF 1 <= k - 1 THEN k - 1 - 1 + 1 ELSE 0)
          /\ \A i \in 1 .. k - 1 - 1 + 1 : kept[i] = transcript[1 + i - 1]
      BY <1>0, <3>1, SubSeqProperties
    <3> QED BY <1>0, <3>2
  <2> HIDE DEF kept
  <2>2. TurnsOK(kept) /\ Held(kept) \subseteq Held(transcript)
    <3>1. \A i \in 1 .. Len(kept) : i \in 1 .. Len(transcript) /\ kept[i] = transcript[i]
      BY <1>0, <2>1
    <3> QED BY <2>1, <3>1 DEF WriteBackInv, TurnsOK, Held
  <2>3. TurnsOK(<<new>>) /\ Held(<<new>>) = {new}
    BY <1>0 DEF TurnsOK, Held
  <2>4. Held(kept) \cap Held(<<new>>) = {}
    BY <1>0, <2>2, <2>3 DEF Held
  <2>5. transcript' = kept \o <<new>>
    BY <1>0, <1>3, <2>1, AppendIsConcat DEF kept
  <2>6. TurnsOK(transcript') /\ Held(transcript') \subseteq Held(transcript) \cup {new}
    BY <2>2, <2>3, <2>4, <2>5, Joined
  <2> QED BY <2>6, NewTurnKeeps DEF WriteBack!Rewrite, WriteBack!serverVars
<1> QED BY <1>1, <1>2, <1>3

LEMMA MoveKeeps == ASSUME WriteBackInv, WriteBack!Move PROVE WriteBackInv'
<1>1. Accepted' = Accepted /\ bank' \in Banks
  BY DEF WriteBack!Move, WriteBack!serverVars, Accepted
<1> QED BY <1>1 DEF WriteBackInv, NumbersOK, WriteBack!Move, WriteBack!serverVars

LEMMA LoseCursorKeeps == ASSUME WriteBackInv, WriteBack!LoseCursor PROVE WriteBackInv'
<1>1. Accepted' = Accepted /\ stored' = NoCursor
  BY DEF WriteBack!LoseCursor, WriteBack!serverVars, Accepted
<1>2. StoredOK(stored, transcript, Accepted)' /\ NumbersOK'
  BY <1>1 DEF WriteBackInv, NumbersOK, StoredOK, WriteBack!LoseCursor, WriteBack!serverVars,
              WriteBack!sessionVars
<1>3. ASSUME NEW h \in Hooks PROVE WorkOK(work[h], pc[h], stored, transcript, Accepted)'
  BY <1>1 DEF WriteBackInv, WorkOK, SendingOK, WriteBack!LoseCursor, WriteBack!serverVars,
              WriteBack!sessionVars
<1> QED BY <1>1, <1>2, <1>3 DEF WriteBackInv, WriteBack!LoseCursor, WriteBack!serverVars,
              WriteBack!sessionVars

-----------------------------------------------------------------------------
(* The server performs what it accepted *)

LEMMA TailOfBox ==
  ASSUME NEW S, NEW box \in Seq(S), box # <<>>
  PROVE  /\ Tail(box) \in Seq(S) /\ Head(box) = box[1] /\ 1 \in 1 .. Len(box)
         /\ Len(Tail(box)) = Len(box) - 1 /\ Len(box) \in Nat
         /\ \A j \in 1 .. Len(Tail(box)) : j + 1 \in 1 .. Len(box) /\ Tail(box)[j] = box[j + 1]
<1>1. Len(box) \in Nat /\ Len(box) # 0
  BY LenProperties, EmptySeq
<1>2. Tail(box) \in Seq(S) /\ Len(Tail(box)) = Len(box) - 1
      /\ \A j \in 1 .. Len(Tail(box)) : Tail(box)[j] = box[j + 1]
  BY HeadTailProperties
<1> QED BY <1>1, <1>2

\* The bank goes on with one operation less, whatever became of it.
LEMMA BankAfter ==
  ASSUME NEW b, NEW doc, NEW box, NEW A, BankOK(b, doc, box, A), AcceptedOK(A), box # <<>>,
         NEW new, new = doc \/ new = WriteBack!Perform(Head(box), doc)
  PROVE  BankOK(b, new, Tail(box), A)
<1> DEFINE op == Head(box)
<1>1. /\ Tail(box) \in Seq({o \in A : o.bank = b}) /\ op = box[1] /\ 1 \in 1 .. Len(box)
      /\ \A j \in 1 .. Len(Tail(box)) : j + 1 \in 1 .. Len(box) /\ Tail(box)[j] = box[j + 1]
      /\ Len(Tail(box)) \in Nat
  BY TailOfBox, LenProperties DEF BankOK
<1>2. op \in A /\ op.bank = b /\ TurnsOK(op.content)
  BY <1>1, ElementOfSeq DEF BankOK, AcceptedOK, OpOK
<1>3. op.append => Said(op) \cap Held(doc) = {}
  BY <1>1 DEF BankOK
<1>4. TurnsOK(new) /\ Held(new) \subseteq Held(doc) \cup Said(op)
  <2>1. CASE new = doc
    BY <2>1 DEF BankOK
  <2>2. CASE new = doc \o op.content /\ op.append
    BY <1>2, <1>3, <2>2, Joined DEF BankOK, Said
  <2>3. CASE new = op.content
    BY <1>2, <2>3 DEF Said
  <2> QED BY <2>1, <2>2, <2>3 DEF WriteBack!Perform
<1> HIDE DEF op
<1>5. \A n \in Held(new) : \E o \in A : o.bank = b /\ n \in Said(o)
  BY <1>2, <1>4 DEF BankOK
<1>6. ASSUME NEW j \in 1 .. Len(Tail(box)), Tail(box)[j].append
      PROVE  /\ Said(Tail(box)[j]) \cap Held(new) = {}
             /\ \A i \in 1 .. (j - 1) : Said(Tail(box)[j]) \cap Said(Tail(box)[i]) = {}
  <2>1. box[j + 1].append /\ Tail(box)[j] = box[j + 1] /\ j + 1 \in 1 .. Len(box)
    BY <1>1, <1>6
  <2>a. \A k \in 1 .. Len(box) : box[k].append =>
          /\ Said(box[k]) \cap Held(doc) = {}
          /\ \A i \in 1 .. (k - 1) : Said(box[k]) \cap Said(box[i]) = {}
    BY DEF BankOK
  <2>2. Said(box[j + 1]) \cap Held(doc) = {}
        /\ \A i \in 1 .. (j + 1 - 1) : Said(box[j + 1]) \cap Said(box[i]) = {}
    BY <2>1, <2>a
  <2>3. Said(box[j + 1]) \cap Said(op) = {}
    BY <1>1, <2>2
  <2>4. \A i \in 1 .. (j - 1) : i + 1 \in 1 .. (j + 1 - 1) /\ Tail(box)[i] = box[i + 1]
    BY <1>1
  <2> QED BY <1>4, <2>1, <2>2, <2>3, <2>4
<1> QED BY <1>1, <1>4, <1>5, <1>6 DEF BankOK

LEMMA ServerKeeps ==
  ASSUME WriteBackInv, NEW b \in Banks, WriteBack!Complete(b) \/ WriteBack!Fail(b)
  PROVE  WriteBackInv'
<1>1. Accepted' = Accepted
  BY DEF WriteBack!Complete, WriteBack!Fail, Accepted
<1>2. /\ UNCHANGED <<transcript, made, bank, stored, pc, work>> /\ inbox[b] # <<>>
      /\ inbox' = [inbox EXCEPT ![b] = Tail(@)]
      /\ \/ document' = [document EXCEPT ![b] = WriteBack!Perform(Head(inbox[b]), @)]
         \/ document' = document
  BY DEF WriteBack!Complete, WriteBack!Fail, WriteBack!sessionVars
<1>3. ASSUME NEW d \in Banks PROVE BankOK(d, document[d], inbox[d], Accepted)'
  <2>1. CASE d = b
    <3>1. BankOK(b, document[b], inbox[b], Accepted) /\ AcceptedOK(Accepted)
      BY DEF WriteBackInv
    <3>2. document'[b] = document[b]
          \/ document'[b] = WriteBack!Perform(Head(inbox[b]), document[b])
      BY <1>2 DEF WriteBackInv
    <3>3. inbox'[b] = Tail(inbox[b])
      BY <1>2 DEF WriteBackInv
    <3>4. BankOK(b, document'[b], Tail(inbox[b]), Accepted)
      BY <1>2, <3>1, <3>2, BankAfter
    <3> QED BY <1>1, <2>1, <3>3, <3>4
  <2>2. CASE d # b
    <3>1. document'[d] = document[d] /\ inbox'[d] = inbox[d]
      BY <1>2, <2>2 DEF WriteBackInv
    <3> QED BY <1>1, <3>1 DEF WriteBackInv
  <2> QED BY <2>1, <2>2
<1>4. DOMAIN document' = Banks /\ DOMAIN inbox' = Banks
  BY <1>2 DEF WriteBackInv
<1>5. NumbersOK'
  BY <1>1, <1>2 DEF WriteBackInv, NumbersOK
<1> QED BY <1>1, <1>2, <1>3, <1>4, <1>5 DEF WriteBackInv

-----------------------------------------------------------------------------
(* A write-back *)

\* What a step of the write-back owes when the server hears nothing new.
LEMMA HookStep ==
  ASSUME WriteBackInv, OneAtATime, NEW h \in Hooks,
         UNCHANGED <<transcript, made, bank, document, inbox>>, Accepted' = Accepted,
         DOMAIN pc' = Hooks, DOMAIN work' = Hooks,
         StoredOK(stored', transcript, Accepted),
         WorkOK(work'[h], pc'[h], stored', transcript, Accepted),
         pc'[h] # "idle" => Held(work'[h].turns) \subseteq 1 .. made
  PROVE  WriteBackInv'
<1>1. \A g \in Hooks : g = h
  BY DEF OneAtATime
<1>2. NumbersOK'
  BY <1>1 DEF WriteBackInv, NumbersOK
<1>3. ASSUME NEW g \in Hooks PROVE WorkOK(work[g], pc[g], stored, transcript, Accepted)'
  BY <1>1
<1> QED BY <1>2, <1>3 DEF WriteBackInv

LEMMA Quietly ==
  ASSUME UNCHANGED <<transcript, made, bank, moves>>, UNCHANGED <<document, inbox, status>>
  PROVE  UNCHANGED <<transcript, made, bank, document, inbox>> /\ Accepted' = Accepted
BY DEF Accepted

\* The records of a write-back.
LEMMA WorkFields ==
  ASSUME WriteBackInv, NEW h \in Hooks
  PROVE  /\ DOMAIN work[h] = {"turns", "bank", "cursor", "append", "ops", "queue", "attempts"}
         /\ WorkOK(work[h], pc[h], stored, transcript, Accepted)
BY DEF WriteBackInv, WorkOK

LEMMA EndsKeep ==
  ASSUME WriteBackInv, OneAtATime, NEW h \in Hooks, WriteBack!Skip(h) \/ WriteBack!GiveUp(h)
  PROVE  WriteBackInv'
<1>1. UNCHANGED <<transcript, made, bank, document, inbox>> /\ Accepted' = Accepted
      /\ stored' = stored
  BY Quietly DEF WriteBack!Skip, WriteBack!GiveUp, WriteBack!sessionVars, WriteBack!serverVars
<1>2. pc' = [pc EXCEPT ![h] = "idle"] /\ work' = [work EXCEPT ![h] = WriteBack!Idle]
  BY DEF WriteBack!Skip, WriteBack!GiveUp, WriteBack!Finish, WriteBack!Goto, WriteBack!Set
<1>3. WorkOK(work'[h], pc'[h], stored', transcript, Accepted) /\ pc'[h] = "idle"
  BY <1>2 DEF WriteBackInv, WorkOK, Early, Late, WriteBack!Idle, WriteBack!Locals
<1> QED BY <1>1, <1>2, <1>3, HookStep DEF WriteBackInv

\* The position of the cursor kept for a bank covers what the bank knows of the
\* transcript.
LEMMA StartKeeps ==
  ASSUME WriteBackInv, OneAtATime, NEW h \in Hooks, WriteBack!Start(h)
  PROVE  WriteBackInv'
<1> DEFINE c == WriteBack!UsableCursor(bank)
           w == WriteBack!Locals(transcript, bank, c)
<1>1. UNCHANGED <<transcript, made, bank, document, inbox>> /\ Accepted' = Accepted
      /\ stored' = stored
  BY Quietly DEF WriteBack!Start, WriteBack!sessionVars, WriteBack!serverVars
<1>2. work' = [work EXCEPT ![h] = w]
      /\ pc' = [pc EXCEPT ![h] = IF w.append THEN WriteBack!AfterProbe(w) ELSE "probe"]
  BY DEF WriteBack!Start, WriteBack!Goto, WriteBack!Set
<1>3. c # NoCursor => c = stored /\ stored.bank = bank
  BY DEF WriteBack!UsableCursor
<1> HIDE DEF c
<1> USE DEF WriteBack!Locals
<1>4. work'[h] = w /\ pc'[h] \in Early /\ (pc'[h] = "settle" => c # NoCursor)
  BY <1>2 DEF WriteBackInv, WriteBack!AfterProbe, Early
<1>5. ReadingOK(w, Accepted)
  BY <1>3 DEF WriteBackInv, StoredOK, ReadingOK
<1>6. WorkOK(w, pc'[h], stored', transcript, Accepted)
  BY <1>4, <1>5 DEF WorkOK, WriteBackInv, Early, Late
<1> QED BY <1>1, <1>2, <1>4, <1>6, HookStep DEF WriteBackInv, NumbersOK

LEMMA ProbeKeeps ==
  ASSUME WriteBackInv, OneAtATime, NEW h \in Hooks, WriteBack!Probe(h)
  PROVE  WriteBackInv'
<1>1. UNCHANGED <<transcript, made, bank, document, inbox>> /\ Accepted' = Accepted
      /\ stored' = stored
  BY Quietly DEF WriteBack!Probe, WriteBack!sessionVars, WriteBack!serverVars
<1>2. PICK answer \in BOOLEAN :
        /\ work' = [work EXCEPT ![h] = [work[h] EXCEPT !.append = answer]]
        /\ pc' = [pc EXCEPT ![h] = WriteBack!AfterProbe([work[h] EXCEPT !.append = answer])]
  BY DEF WriteBack!Probe, WriteBack!Goto, WriteBack!Set
<1> DEFINE w == work[h]
           v == work'[h]
<1>3. /\ DOMAIN v = DOMAIN w /\ v.turns = w.turns /\ v.bank = w.bank /\ v.cursor = w.cursor
      /\ pc'[h] = WriteBack!AfterProbe(v) /\ pc[h] = "probe"
  BY <1>2, WorkFields DEF WriteBackInv, WriteBack!Probe, WriteBack!At
<1>4. pc'[h] \in Early /\ (pc'[h] = "settle" => v.cursor # NoCursor)
  BY <1>3 DEF WriteBack!AfterProbe, Early
<1>5. WorkOK(w, pc[h], stored, transcript, Accepted) /\ pc[h] \in Early
  BY <1>3 DEF WriteBackInv, Early
<1> HIDE DEF w, v
<1>6. WorkOK(v, pc'[h], stored', transcript, Accepted)
  BY <1>3, <1>4, <1>5 DEF WorkOK, ReadingOK, Early, Late
<1>7. Held(v.turns) \subseteq 1 .. made
  BY <1>3 DEF WriteBackInv, NumbersOK, w
<1> QED BY <1>1, <1>2, <1>6, <1>7, HookStep DEF WriteBackInv, v

LEMMA SettleKeeps ==
  ASSUME WriteBackInv, OneAtATime, NEW h \in Hooks, WriteBack!SettleOps(h)
  PROVE  WriteBackInv'
<1>1. UNCHANGED <<transcript, made, bank, document, inbox>> /\ Accepted' = Accepted
      /\ stored' = stored /\ pc' = [pc EXCEPT ![h] = "plan"] /\ pc[h] = "settle"
  BY Quietly DEF WriteBack!SettleOps, WriteBack!sessionVars, WriteBack!serverVars,
                 WriteBack!Goto, WriteBack!At
<1> DEFINE w == work[h]
           v == work'[h]
<1>2. \E lost, ops : work' = [work EXCEPT ![h] =
                                [w EXCEPT !.cursor = [w.cursor EXCEPT !.dirty = lost], !.ops = ops]]
  BY DEF WriteBack!SettleOps, WriteBack!Set
<1>3. WorkOK(w, "settle", stored, transcript, Accepted)
  BY <1>1 DEF WriteBackInv
<1>4. /\ DOMAIN v = DOMAIN w /\ v.turns = w.turns /\ v.bank = w.bank
      /\ DOMAIN v.cursor = DOMAIN w.cursor
      /\ v.cursor.upto = w.cursor.upto /\ v.cursor.bank = w.cursor.bank
      /\ v.cursor.pending = w.cursor.pending
  BY <1>2, <1>3 DEF WriteBackInv, WorkOK, Early, ReadingOK, CursorOK
<1>5. DOMAIN work' = Hooks /\ pc'[h] = "plan" /\ DOMAIN pc' = Hooks
  BY <1>1, <1>2 DEF WriteBackInv
<1>6. Held(v.turns) \subseteq 1 .. made
  BY <1>1, <1>4 DEF WriteBackInv, NumbersOK
<1> HIDE DEF w, v
<1>7. WorkOK(v, "plan", stored, transcript, Accepted)
  BY <1>3, <1>4 DEF WorkOK, ReadingOK, CursorOK, Early, Late
<1> QED BY <1>1, <1>5, <1>6, <1>7, HookStep DEF WriteBackInv, v

\* What is claimed for a write-back is true of its bank.
LEMMA Claims ==
  ASSUME WriteBackInv, NEW h \in Hooks, pc[h] # "idle", NEW dirty, NEW pending, NEW ops,
         NEW w, w.turns = work[h].turns, w.bank = work[h].bank,
         QueueOK(pending, w.bank, w.turns, Accepted), AllAppend(pending)
  PROVE  StoredOK(WriteBack!Position(w, dirty, pending, ops), transcript, Accepted)
<1>1. /\ w.bank \in Banks /\ TurnsOK(w.turns)
      /\ \A op \in Accepted : Said(op) \cap Held(transcript) \subseteq Held(w.turns)
  BY DEF WriteBackInv, WorkOK
<1>2. /\ DOMAIN WriteBack!Position(w, dirty, pending, ops)
           = {"upto", "bank", "append", "dirty", "pending", "ops"}
      /\ WriteBack!Position(w, dirty, pending, ops).upto = w.turns
      /\ WriteBack!Position(w, dirty, pending, ops).bank = w.bank
      /\ WriteBack!Position(w, dirty, pending, ops).pending = pending
  BY DEF WriteBack!Position, WriteBack!Cursor
<1> QED BY <1>1, <1>2 DEF StoredOK, CursorOK, Within

\* A replacement, alone in its queue.
LEMMA OneReplacement ==
  ASSUME NEW b, NEW turns, TurnsOK(turns), NEW A
  PROVE  LET q == <<WriteBack!Operation(b, FALSE, turns)>> IN
         QueueOK(q, b, turns, A) /\ Len(q) = 1 /\ q # <<>>
<1> DEFINE op == WriteBack!Operation(b, FALSE, turns)
           q == <<op>>
<1>1. op.content = turns /\ op.bank = b /\ op.append = FALSE /\ OpOK(op)
  BY DEF WriteBack!Operation, OpOK
<1> HIDE DEF op
<1>2. q \in Seq({op}) /\ Len(q) = 1 /\ q # <<>> /\ \A i \in 1 .. Len(q) : i = 1 /\ q[i] = op
  OBVIOUS
<1>3. q \in Seq(Range(q))
  BY <1>2, SeqOfRange
<1> HIDE DEF q
<1>4. QueueOK(q, b, turns, A)
  BY <1>1, <1>2, <1>3 DEF QueueOK, Said
<1> QED BY <1>2, <1>4 DEF q, op

LEMMA ReplaceKeeps ==
  ASSUME WriteBackInv, OneAtATime, CursorIsWritten, NEW h \in Hooks, WriteBack!ReplaceDocument(h)
  PROVE  WriteBackInv'
<1> DEFINE w == work[h]
           q == <<WriteBack!Operation(w.bank, FALSE, w.turns)>>
           v == [w EXCEPT !.queue = q, !.cursor = NoCursor, !.ops = <<>>]
           c == WriteBack!Position(w, TRUE, <<>>, <<>>)
<1>1. UNCHANGED <<transcript, made, bank, document, inbox>> /\ Accepted' = Accepted
      /\ pc' = [pc EXCEPT ![h] = "send"] /\ pc[h] = "plan" /\ work' = [work EXCEPT ![h] = v]
      /\ stored' = c
  BY Quietly DEF WriteBack!ReplaceDocument, WriteBack!sessionVars, WriteBack!serverVars,
                 WriteBack!Goto, WriteBack!At, WriteBack!WriteCursor, CursorIsWritten, WriteBack!Set
<1>2. WorkOK(w, "plan", stored, transcript, Accepted)
  BY <1>1 DEF WriteBackInv
<1>3. QueueOK(q, w.bank, w.turns, Accepted) /\ Len(q) = 1 /\ q # <<>>
  BY <1>2, OneReplacement DEF WorkOK
<1>4. StoredOK(c, transcript, Accepted)
  BY <1>1, Claims, NothingQueued
<1>5. v.queue = q /\ v.turns = w.turns /\ v.bank = w.bank /\ DOMAIN v = DOMAIN w
  BY <1>2 DEF WorkOK
<1>6. c.upto = w.turns /\ c.bank = w.bank /\ c.pending = <<>>
  BY DEF WriteBack!Position, WriteBack!Cursor
<1>7. Held(w.turns) \subseteq 1 .. made /\ DOMAIN pc' = Hooks /\ pc'[h] = "send"
      /\ DOMAIN work' = Hooks /\ work'[h] = v
  BY <1>1 DEF WriteBackInv, NumbersOK
<1> HIDE DEF w, q, v, c
<1>8. WorkOK(v, "send", c, transcript, Accepted)
  BY <1>2, <1>3, <1>5, <1>6 DEF WorkOK, SendingOK, Early, Late
<1> QED BY <1>1, <1>4, <1>5, <1>7, <1>8, HookStep

\* What was buffered, and then the turns behind the position.
LEMMA AppendsOK ==
  ASSUME NEW w, NEW A, AcceptedOK(A), ReadingOK(w, A), TurnsOK(w.turns),
         \E expired \in BOOLEAN : WriteBack!Trusted(w, expired)
  PROVE  LET q == WriteBack!AppendQueue(w) IN
         QueueOK(q, w.bank, w.turns, A) /\ AllAppend(q)
<1> DEFINE p == w.cursor.pending
           b == w.bank
           upto == w.cursor.upto
           turns == w.turns
           new == SubSeq(turns, Len(upto) + 1, Len(turns))
           op == WriteBack!Operation(b, TRUE, new)
           q == WriteBack!AppendQueue(w)
<1> SUFFICES QueueOK(q, b, turns, A) /\ AllAppend(q)
  OBVIOUS
<1>1. /\ w.cursor.bank = b /\ WriteBack!IsPrefix(w.cursor.upto, w.turns)
      /\ TurnsOK(w.cursor.upto) /\ QueueOK(p, b, w.cursor.upto, A) /\ AllAppend(p)
      /\ Within(b, w.turns, w.cursor.upto, A)
  BY DEF WriteBack!Trusted, WriteBack!Continues, ReadingOK, CursorOK
<1>2. TurnsOK(new) /\ Held(new) \subseteq Held(turns) /\ Held(new) \cap Held(upto) = {}
      /\ Held(upto) \subseteq Held(turns)
  <2> HIDE DEF upto, turns
  <2>1. TurnsOK(turns) /\ TurnsOK(upto) /\ WriteBack!IsPrefix(upto, turns)
    BY <1>1 DEF upto, turns
  <2> QED BY <2>1, Slice
<1>3. OpOK(op) /\ op.bank = b /\ op.append /\ Said(op) = Held(new)
  BY <1>2 DEF OpOK, WriteBack!Operation, Said
<1>4. q = p \o <<>> \/ q = p \o <<op>>
  BY DEF WriteBack!AppendQueue
<1> HIDE DEF op, new, q
<1>5. p \in Seq(Range(p)) /\ Len(p) \in Nat
  BY <1>1, LenProperties DEF QueueOK
<1>6. QueueOK(p, b, turns, A)
  <2>1. ASSUME NEW i \in 1 .. Len(p) PROVE Said(p[i]) \subseteq Held(turns)
    <3>1. Said(p[i]) \subseteq Held(upto)
      BY <1>1 DEF QueueOK
    <3> QED BY <3>1, <1>2
  <2> QED BY <1>1, <2>1 DEF QueueOK
<1>7. CASE q = p \o <<>>
  BY <1>1, <1>5, <1>6, <1>7, ConcatEmptySeq
<1>8. CASE q = p \o <<op>>
  <2> DEFINE S == Range(p) \cup {op}
  <2>1. p \in Seq(S) /\ <<op>> \in Seq(S) /\ Len(<<op>>) = 1 /\ <<op>>[1] = op
    BY <1>5, SeqMonotonic
  <2>2. q \in Seq(S) /\ Len(q) = Len(p) + 1
        /\ \A i \in 1 .. Len(p) + 1 : q[i] = IF i <= Len(p) THEN p[i] ELSE <<op>>[i - Len(p)]
    BY <1>8, <2>1, ConcatProperties
  <2>3. q \in Seq(Range(q))
    BY <2>2, SeqOfRange
  <2>4. \A i \in 1 .. Len(q) : (i \in 1 .. Len(p) /\ q[i] = p[i]) \/ (i = Len(p) + 1 /\ q[i] = op)
    BY <1>5, <2>1, <2>2
  <2> HIDE DEF S
  <2>5. \A i \in 1 .. Len(q) : OpOK(q[i]) /\ q[i].bank = b /\ Said(q[i]) \subseteq Held(w.turns)
                               /\ q[i].append
    BY <1>1, <1>2, <1>3, <1>6, <2>4 DEF QueueOK, AllAppend
  <2>6. \A i \in 1 .. Len(p) : Said(p[i]) \cap Said(op) = {}
    BY <1>1, <1>2, <1>3 DEF QueueOK
  <2>7. \A i, j \in 1 .. Len(q) : i # j => Said(q[i]) \cap Said(q[j]) = {}
    BY <1>1, <2>4, <2>6 DEF QueueOK
  <2>8. \A o \in A : o.bank = b => Said(op) \cap Said(o) = {}
    BY <1>1, <1>2, <1>3 DEF Within
  <2>9. \A i \in 1 .. Len(q), o \in A :
          q[i].append /\ q[i] \notin A /\ o.bank = b => Said(q[i]) \cap Said(o) = {}
    BY <1>6, <2>4, <2>8 DEF QueueOK
  <2> QED BY <2>3, <2>5, <2>7, <2>9 DEF QueueOK, AllAppend
<1> QED BY <1>4, <1>7, <1>8

LEMMA AppendKeeps ==
  ASSUME WriteBackInv, OneAtATime, CursorIsWritten, NEW h \in Hooks, WriteBack!AppendTurns(h)
  PROVE  WriteBackInv'
<1> DEFINE w == work[h]
           q == WriteBack!AppendQueue(w)
           v == [w EXCEPT !.queue = q, !.cursor = NoCursor]
           c == WriteBack!Position(w, FALSE, q, w.ops)
<1>1. UNCHANGED <<transcript, made, bank, document, inbox>> /\ Accepted' = Accepted
      /\ pc' = [pc EXCEPT ![h] = "send"] /\ pc[h] = "plan" /\ work' = [work EXCEPT ![h] = v]
      /\ stored' = c /\ WriteBack!Trusted(w, FALSE) /\ q # <<>>
  BY Quietly DEF WriteBack!AppendTurns, WriteBack!sessionVars, WriteBack!serverVars,
                 WriteBack!Goto, WriteBack!At, WriteBack!WriteCursor, CursorIsWritten, WriteBack!Set
<1>2. WorkOK(w, "plan", stored, transcript, Accepted) /\ AcceptedOK(Accepted)
  BY <1>1 DEF WriteBackInv
<1>3. QueueOK(q, w.bank, w.turns, Accepted) /\ AllAppend(q)
  BY <1>1, <1>2, AppendsOK DEF WorkOK, Early
<1>4. StoredOK(c, transcript, Accepted)
  BY <1>1, <1>3, Claims
<1>5. v.queue = q /\ v.turns = w.turns /\ v.bank = w.bank /\ DOMAIN v = DOMAIN w
  BY <1>2 DEF WorkOK
<1>6. c.upto = w.turns /\ c.bank = w.bank /\ c.pending = q
  BY DEF WriteBack!Position, WriteBack!Cursor
<1>7. Held(w.turns) \subseteq 1 .. made /\ DOMAIN pc' = Hooks /\ pc'[h] = "send"
      /\ DOMAIN work' = Hooks /\ work'[h] = v
  BY <1>1 DEF WriteBackInv, NumbersOK
<1> HIDE DEF w, q, v, c
<1>8. WorkOK(v, "send", c, transcript, Accepted)
  BY <1>1, <1>2, <1>3, <1>5, <1>6 DEF WorkOK, SendingOK, Early, Late
<1> QED BY <1>1, <1>4, <1>5, <1>7, <1>8, HookStep

-----------------------------------------------------------------------------
(* What is sent *)

LEMMA FirstOf ==
  ASSUME NEW q, NEW b, NEW turns, NEW A, QueueOK(q, b, turns, A), q # <<>>
  PROVE  /\ Head(q) = q[1] /\ 1 \in 1 .. Len(q)
         /\ OpOK(Head(q)) /\ Head(q).bank = b /\ Said(Head(q)) \subseteq Held(turns)
<1>1. q \in Seq(Range(q))
  BY DEF QueueOK
<1>2. Head(q) = q[1] /\ 1 \in 1 .. Len(q)
  BY <1>1, TailOfBox
<1> QED BY <1>2 DEF QueueOK

LEMMA RestOf ==
  ASSUME NEW q, NEW b, NEW turns, NEW A, QueueOK(q, b, turns, A), q # <<>>
  PROVE  QueueOK(Tail(q), b, turns, A) /\ (AllAppend(q) => AllAppend(Tail(q)))
         /\ (Len(q) = 1 => Tail(q) = <<>>)
<1>1. q \in Seq(Range(q))
  BY DEF QueueOK
<1>2. /\ Tail(q) \in Seq(Range(q)) /\ Len(Tail(q)) = Len(q) - 1
      /\ \A j \in 1 .. Len(Tail(q)) : j + 1 \in 1 .. Len(q) /\ Tail(q)[j] = q[j + 1]
      /\ Len(Tail(q)) \in Nat
  BY <1>1, TailOfBox, LenProperties
<1>3. Tail(q) \in Seq(Range(Tail(q)))
  BY <1>2, SeqOfRange
<1>4. Len(Tail(q)) = 0 => Tail(q) = <<>>
  BY <1>2, EmptySeq
<1> DEFINE t == Tail(q)
<1> HIDE DEF t
<1>5. \A i \in 1 .. Len(t) : OpOK(t[i]) /\ t[i].bank = b /\ Said(t[i]) \subseteq Held(turns)
  BY <1>2 DEF QueueOK, t
<1>6. \A i, j \in 1 .. Len(t) : i # j => Said(t[i]) \cap Said(t[j]) = {}
  <2>1. \A i, j \in 1 .. Len(t) : i # j => i + 1 # j + 1
    OBVIOUS
  <2> QED BY <1>2, <2>1 DEF QueueOK, t
<1>7. \A i \in 1 .. Len(t), op \in A :
        t[i].append /\ t[i] \notin A /\ op.bank = b => Said(t[i]) \cap Said(op) = {}
  BY <1>2 DEF QueueOK, t
<1> QED BY <1>2, <1>3, <1>4, <1>5, <1>6, <1>7 DEF QueueOK, AllAppend, t

\* An operation of the queue is accepted: the others are still new.
LEMMA QueueAfter ==
  ASSUME NEW q, NEW b, NEW turns, NEW A, QueueOK(q, b, turns, A), NEW k \in 1 .. Len(q)
  PROVE  QueueOK(q, b, turns, A \cup {q[k]})
<1>1. ASSUME NEW i \in 1 .. Len(q), NEW op \in A \cup {q[k]},
             q[i].append, q[i] \notin A \cup {q[k]}, op.bank = b
      PROVE  Said(q[i]) \cap Said(op) = {}
  <2>1. CASE op \in A
    BY <1>1, <2>1 DEF QueueOK
  <2>2. CASE op = q[k]
    BY <1>1, <2>2 DEF QueueOK
  <2> QED BY <2>1, <2>2
<1> QED BY <1>1 DEF QueueOK

LEMMA AcceptedAfter ==
  ASSUME NEW A, AcceptedOK(A), NEW op, OpOK(op), op.bank \in Banks,
         op.append => \A p \in A : p.bank = op.bank => Said(op) \cap Said(p) = {}
  PROVE  AcceptedOK(A \cup {op})
<1>1. ASSUME NEW p \in A \cup {op}, NEW r \in A \cup {op},
             p.append, r.append, p.bank = r.bank, p # r
      PROVE  Said(p) \cap Said(r) = {}
  <2>1. CASE p \in A /\ r \in A
    BY <1>1, <2>1 DEF AcceptedOK
  <2>2. CASE p = op /\ r \in A
    BY <1>1, <2>2
  <2>3. CASE r = op /\ p \in A
    BY <1>1, <2>3
  <2> QED BY <1>1, <2>1, <2>2, <2>3
<1> QED BY <1>1 DEF AcceptedOK

\* A bank that accepts an operation, and one that does not.
LEMMA OtherBank ==
  ASSUME NEW b, NEW doc, NEW box, NEW A, BankOK(b, doc, box, A), NEW op
  PROVE  BankOK(b, doc, box, A \cup {op})
<1>1. {o \in A : o.bank = b} \subseteq {o \in A \cup {op} : o.bank = b}
  OBVIOUS
<1>2. box \in Seq({o \in A \cup {op} : o.bank = b})
  BY <1>1, SeqMonotonic DEF BankOK
<1>3. \A n \in Held(doc) : \E o \in A \cup {op} : o.bank = b /\ n \in Said(o)
  BY DEF BankOK
<1> QED BY <1>2, <1>3 DEF BankOK

LEMMA ThisBank ==
  ASSUME NEW b, NEW doc, NEW box, NEW A, BankOK(b, doc, box, A), NEW op, op.bank = b,
         op.append => \A p \in A : p.bank = b => Said(op) \cap Said(p) = {}
  PROVE  BankOK(b, doc, Append(box, op), A \cup {op})
<1> DEFINE S == {o \in A \cup {op} : o.bank = b}
           new == Append(box, op)
<1>1. box \in Seq(S) /\ op \in S /\ BankOK(b, doc, box, A \cup {op})
  <2>1. BankOK(b, doc, box, A \cup {op})
    BY OtherBank
  <2> QED BY <2>1 DEF BankOK
<1>2. new \in Seq(S) /\ Len(new) = Len(box) + 1 /\ Len(box) \in Nat
      /\ (\A i \in 1 .. Len(box) : new[i] = box[i]) /\ new[Len(box) + 1] = op
  BY <1>1, AppendProperties, LenProperties
<1>3. \A i \in 1 .. Len(box) : box[i] \in A /\ box[i].bank = b
  BY ElementOfSeq DEF BankOK
<1> HIDE DEF new
<1>4. ASSUME NEW j \in 1 .. Len(new), new[j].append
      PROVE  /\ Said(new[j]) \cap Held(doc) = {}
             /\ \A i \in 1 .. (j - 1) : Said(new[j]) \cap Said(new[i]) = {}
  <2>1. CASE j \in 1 .. Len(box)
    <3>1. \A i \in 1 .. (j - 1) : i \in 1 .. Len(box)
      BY <1>2, <2>1
    <3> QED BY <1>2, <1>4, <2>1, <3>1 DEF BankOK
  <2>2. CASE j = Len(box) + 1
    <3>1. \A i \in 1 .. (j - 1) : i \in 1 .. Len(box)
      BY <1>2, <2>2
    <3>2. \A p \in A : p.bank = b => Said(op) \cap Said(p) = {}
      BY <1>2, <1>4, <2>2
    <3>3. Said(op) \cap Held(doc) = {}
      BY <3>2 DEF BankOK
    <3> QED BY <1>2, <1>3, <2>2, <3>1, <3>2, <3>3
  <2> QED BY <1>2, <2>1, <2>2
<1> QED BY <1>1, <1>2, <1>4 DEF BankOK, new

\* The server hears of the first operation in the queue.
LEMMA DeliverKeeps ==
  ASSUME WriteBackInv, OneAtATime, NEW h \in Hooks, WriteBack!Deliver(h)
  PROVE  WriteBackInv'
<1> DEFINE w == work[h]
           b == w.bank
           op == Head(w.queue)
           v == work'[h]
<1>1. /\ UNCHANGED <<transcript, made, bank, document, stored>>
      /\ work' = [work EXCEPT ![h] = [w EXCEPT !.attempts = 0]]
      /\ pc' = [pc EXCEPT ![h] = "confirm"] /\ pc[h] = "send"
      /\ WriteBack!Accept(b, op)
  BY DEF WriteBack!Deliver, WriteBack!sessionVars, WriteBack!Goto, WriteBack!At, WriteBack!Set
<1>2. \A g \in Hooks : g = h
  BY DEF OneAtATime
<1>3. WorkOK(w, "send", stored, transcript, Accepted)
      /\ pc'[h] = "confirm" /\ DOMAIN pc' = Hooks /\ DOMAIN work' = Hooks
  BY <1>1 DEF WriteBackInv, WorkOK, Early, Late
<1>v. DOMAIN v = DOMAIN w /\ v.turns = w.turns /\ v.bank = w.bank /\ v.queue = w.queue
  BY <1>1, <1>3 DEF WriteBackInv, WorkOK
<1>n. Held(v.turns) \subseteq 1 .. made
  BY <1>1, <1>v DEF WriteBackInv, NumbersOK
<1>k. ASSUME NEW S, WorkOK(w, "send", stored, transcript, S)
      PROVE  WorkOK(v, "confirm", stored, transcript, S)
  <2> HIDE DEF v, w
  <2> QED BY <1>k, <1>v DEF WorkOK, SendingOK, Early, Late
<1>4. /\ w.queue # <<>> /\ QueueOK(w.queue, b, w.turns, Accepted) /\ b \in Banks
      /\ \A o \in Accepted : Said(o) \cap Held(transcript) \subseteq Held(w.turns)
      /\ stored # NoCursor =>
           /\ stored.upto = w.turns /\ stored.bank = b
           /\ stored.pending = <<>> \/ stored.pending = w.queue
  BY <1>3 DEF WorkOK, SendingOK, Late
<1>5. /\ op = w.queue[1] /\ 1 \in 1 .. Len(w.queue)
      /\ OpOK(op) /\ op.bank = b /\ Said(op) \subseteq Held(w.turns)
  BY <1>4, FirstOf
<1> DEFINE A == Accepted \cup {op}
<1>6. CASE op \in Accepted
  <2>1. UNCHANGED <<inbox, status>>
    BY <1>1, <1>6 DEF WriteBack!Accept, Accepted
  <2>2. Accepted' = Accepted
    BY <2>1 DEF Accepted
  <2>3. NumbersOK'
    <3> HIDE DEF v
    <3> QED BY <1>1, <1>2, <1>n, <2>2 DEF WriteBackInv, NumbersOK, v
  <2>4. \A g \in Hooks : WorkOK(work[g], pc[g], stored, transcript, Accepted)'
    BY <1>1, <1>2, <1>3, <1>k, <2>2
  <2> QED BY <1>1, <1>3, <2>1, <2>2, <2>3, <2>4 DEF WriteBackInv
<1>7. CASE op \notin Accepted
  <2>1. inbox' = [inbox EXCEPT ![b] = Append(@, op)] /\ Accepted' = A
    BY <1>1, <1>7 DEF WriteBack!Accept, Accepted
  <2>2. op.append => \A p \in Accepted : p.bank = op.bank => Said(op) \cap Said(p) = {}
    BY <1>4, <1>5, <1>7 DEF QueueOK
  <2>3. QueueOK(w.queue, b, w.turns, A)
    BY <1>4, <1>5, QueueAfter
  <2>4. NumbersOK'
    <3>1. Said(op) \subseteq 1 .. made
      BY <1>1, <1>5 DEF WriteBackInv, NumbersOK
    <3> HIDE DEF v
    <3> QED BY <1>1, <1>2, <1>n, <2>1, <3>1 DEF WriteBackInv, NumbersOK, v
  <2>5. StoredOK(stored, transcript, A)
    <3> SUFFICES ASSUME stored # NoCursor PROVE CursorOK(stored, A) /\ Within(b, transcript, w.turns, A)
      BY <1>4 DEF StoredOK
    <3>1. CursorOK(stored, Accepted) /\ Within(b, transcript, w.turns, Accepted)
      BY <1>4 DEF WriteBackInv, StoredOK
    <3>2. QueueOK(stored.pending, b, w.turns, A)
      BY <1>4, <2>3, NothingQueued
    <3>3. CursorOK(stored, A)
      BY <1>4, <3>1, <3>2 DEF CursorOK
    <3>4. Within(b, transcript, w.turns, A)
      BY <1>5, <3>1 DEF Within
    <3> QED BY <3>3, <3>4
  <2>6. WorkOK(w, "send", stored, transcript, A)
    <3>1. \A o \in A : Said(o) \cap Held(transcript) \subseteq Held(w.turns)
      BY <1>4, <1>5
    <3>2. SendingOK(w, stored, A)
      BY <1>3, <2>3 DEF WorkOK, SendingOK, Late
    <3> QED BY <1>3, <3>1, <3>2 DEF WorkOK, Early, Late
  <2>7. ASSUME NEW d \in Banks PROVE BankOK(d, document[d], inbox'[d], A)
    <3>1. BankOK(d, document[d], inbox[d], Accepted)
      BY DEF WriteBackInv
    <3>2. CASE d = b
      <4>1. inbox'[d] = Append(inbox[d], op)
        BY <2>1, <3>2 DEF WriteBackInv
      <4> QED BY <1>5, <2>2, <3>1, <3>2, <4>1, ThisBank
    <3>3. CASE d # b
      <4>1. inbox'[d] = inbox[d]
        BY <2>1, <3>3 DEF WriteBackInv
      <4> QED BY <3>1, <4>1, OtherBank
    <3> QED BY <3>2, <3>3
  <2>8. AcceptedOK(A)
    BY <1>4, <1>5, <2>2, AcceptedAfter DEF WriteBackInv
  <2>9. DOMAIN inbox' = Banks /\ DOMAIN pc' = Hooks /\ DOMAIN work' = Hooks
    BY <1>1, <1>3, <2>1 DEF WriteBackInv
  <2>10. \A g \in Hooks : WorkOK(work[g], pc[g], stored, transcript, Accepted)'
    BY <1>1, <1>2, <1>3, <1>k, <2>1, <2>6
  <2> HIDE DEF A, op, w, b
  <2>11. \A d \in Banks : BankOK(d, document[d], inbox[d], Accepted)'
    BY <1>1, <2>1, <2>7
  <2> QED BY <1>1, <2>1, <2>4, <2>5, <2>8, <2>9, <2>10, <2>11 DEF WriteBackInv
<1> QED BY <1>6, <1>7

LEMMA AnswersKeep ==
  ASSUME WriteBackInv, OneAtATime, NEW h \in Hooks,
         WriteBack!NotFound(h) \/ WriteBack!RateLimited(h)
  PROVE  WriteBackInv'
<1> DEFINE w == work[h]
           v == work'[h]
<1>1. UNCHANGED <<transcript, made, bank, document, inbox>> /\ Accepted' = Accepted
      /\ stored' = stored /\ pc[h] = "send"
  BY Quietly DEF WriteBack!NotFound, WriteBack!RateLimited, WriteBack!sessionVars,
                 WriteBack!serverVars, WriteBack!At
<1>2. \/ work' = [work EXCEPT ![h] = [w EXCEPT !.attempts = 0]] /\ pc' = [pc EXCEPT ![h] = "confirm"]
      \/ work' = [work EXCEPT ![h] = [w EXCEPT !.attempts = @ + 1]] /\ pc' = pc
  BY DEF WriteBack!NotFound, WriteBack!RateLimited, WriteBack!Goto, WriteBack!Set
<1>3. WorkOK(w, "send", stored, transcript, Accepted)
  BY <1>1 DEF WriteBackInv
<1>4. /\ DOMAIN v = DOMAIN w /\ v.turns = w.turns /\ v.bank = w.bank /\ v.queue = w.queue
      /\ pc'[h] \in Late
  BY <1>1, <1>2, <1>3 DEF WriteBackInv, WorkOK, Late
<1>5. DOMAIN work' = Hooks /\ DOMAIN pc' = Hooks
  BY <1>2 DEF WriteBackInv
<1>6. Held(v.turns) \subseteq 1 .. made
  BY <1>1, <1>4 DEF WriteBackInv, NumbersOK
<1> HIDE DEF w, v
<1>7. WorkOK(v, pc'[h], stored, transcript, Accepted)
  BY <1>3, <1>4 DEF WorkOK, SendingOK, Early, Late
<1> QED BY <1>1, <1>5, <1>6, <1>7, HookStep DEF WriteBackInv, v

LEMMA ConfirmsKeep ==
  ASSUME WriteBackInv, OneAtATime, CursorIsWritten, NEW h \in Hooks,
         WriteBack!ConfirmReplace(h) \/ WriteBack!ConfirmAppend(h)
  PROVE  WriteBackInv'
<1> DEFINE w == work[h]
           q == w.queue
           v == work'[h]
<1>1. UNCHANGED <<transcript, made, bank, document, inbox>> /\ Accepted' = Accepted
      /\ pc[h] = "confirm"
  BY Quietly DEF WriteBack!ConfirmReplace, WriteBack!ConfirmAppend, WriteBack!sessionVars,
                 WriteBack!serverVars, WriteBack!At
<1>2. WorkOK(w, "confirm", stored, transcript, Accepted)
  BY <1>1 DEF WriteBackInv
<1>3. q # <<>> /\ QueueOK(q, w.bank, w.turns, Accepted) /\ (Len(q) = 1 \/ AllAppend(q))
  BY <1>2 DEF WorkOK, SendingOK, Late
<1>4. QueueOK(Tail(q), w.bank, w.turns, Accepted) /\ AllAppend(Tail(q))
  <2>1. CASE AllAppend(q)
    BY <2>1, <1>3, RestOf
  <2>2. CASE Len(q) = 1
    BY <2>2, <1>3, RestOf, NothingQueued
  <2> QED BY <1>3, <2>1, <2>2
<1>5. \E pending, ops :
        /\ pending = <<>> \/ pending = Tail(q)
        /\ stored' = WriteBack!Position(w, FALSE, pending, ops)
        /\ \/ work' = [work EXCEPT ![h] = WriteBack!Idle] /\ pc' = [pc EXCEPT ![h] = "idle"]
           \/ /\ pending # <<>> /\ pc' = [pc EXCEPT ![h] = "send"]
              /\ work' = [work EXCEPT ![h] = [w EXCEPT !.queue = pending, !.ops = ops]]
  BY DEF WriteBack!ConfirmReplace, WriteBack!ConfirmAppend, WriteBack!WriteCursor,
         CursorIsWritten, WriteBack!Finish, WriteBack!Goto, WriteBack!Set
<1>6. PICK pending, ops :
        /\ pending = <<>> \/ pending = Tail(q)
        /\ stored' = WriteBack!Position(w, FALSE, pending, ops)
        /\ \/ work' = [work EXCEPT ![h] = WriteBack!Idle] /\ pc' = [pc EXCEPT ![h] = "idle"]
           \/ /\ pending # <<>> /\ pc' = [pc EXCEPT ![h] = "send"]
              /\ work' = [work EXCEPT ![h] = [w EXCEPT !.queue = pending, !.ops = ops]]
  BY <1>5
<1> DEFINE c == WriteBack!Position(w, FALSE, pending, ops)
<1>7. QueueOK(pending, w.bank, w.turns, Accepted) /\ AllAppend(pending)
  <2>1. CASE pending = <<>>
    BY <2>1, NothingQueued
  <2>2. CASE pending = Tail(q)
    BY <2>2, <1>4
  <2> QED BY <1>6, <2>1, <2>2
<1>8. StoredOK(c, transcript, Accepted)
  BY <1>1, <1>7, Claims
<1>9. c.upto = w.turns /\ c.bank = w.bank /\ c.pending = pending
  BY DEF WriteBack!Position, WriteBack!Cursor
<1>10. CASE work' = [work EXCEPT ![h] = WriteBack!Idle] /\ pc' = [pc EXCEPT ![h] = "idle"]
  <2>1. WorkOK(v, pc'[h], c, transcript, Accepted) /\ pc'[h] = "idle"
    BY <1>10 DEF WriteBackInv, WorkOK, Early, Late, WriteBack!Idle, WriteBack!Locals
  <2> QED BY <1>1, <1>6, <1>8, <1>10, <2>1, HookStep DEF WriteBackInv
<1>11. CASE /\ pending # <<>> /\ pc' = [pc EXCEPT ![h] = "send"]
            /\ work' = [work EXCEPT ![h] = [w EXCEPT !.queue = pending, !.ops = ops]]
  <2>1. /\ DOMAIN v = DOMAIN w /\ v.turns = w.turns /\ v.bank = w.bank /\ v.queue = pending
        /\ pc'[h] = "send" /\ DOMAIN work' = Hooks /\ DOMAIN pc' = Hooks
    BY <1>2, <1>11 DEF WriteBackInv, WorkOK
  <2>2. Held(v.turns) \subseteq 1 .. made
    BY <1>1, <2>1 DEF WriteBackInv, NumbersOK
  <2> HIDE DEF w, v, c
  <2>3. WorkOK(v, "send", c, transcript, Accepted)
    BY <1>2, <1>7, <1>9, <1>11, <2>1 DEF WorkOK, SendingOK, Early, Late
  <2> QED BY <1>1, <1>6, <1>8, <2>1, <2>2, <2>3, HookStep, ZenonT(40) DEF v, c
<1> QED BY <1>6, <1>10, <1>11

LEMMA WriteBackStep ==
  ASSUME WriteBackInv, OneAtATime, CursorIsWritten, [WriteBack!Next]_writeBackVars
  PROVE  WriteBackInv'
<1>1. ASSUME NEW h \in Hooks, WriteBack!WriteBack(h) PROVE WriteBackInv'
  BY <1>1, StartKeeps, ProbeKeeps, SettleKeeps, ReplaceKeeps, AppendKeeps, EndsKeep, DeliverKeeps,
     AnswersKeep, ConfirmsKeep DEF WriteBack!WriteBack
<1>2. CASE UNCHANGED writeBackVars
  <2>1. Accepted' = Accepted
    BY <1>2 DEF writeBackVars, Accepted
  <2> QED BY <1>2, <2>1 DEF writeBackVars, WriteBackInv, NumbersOK
<1> QED BY <1>1, <1>2, ServerKeeps, WriteTurnKeeps, RewriteKeeps, MoveKeeps, LoseCursorKeeps
        DEF WriteBack!Next

LEMMA WriteBackAlways ==
  OneAtATime /\ CursorIsWritten => (Spec => [](part = "writeBack" => WriteBackInv))
<1> DEFINE Inv == part = "writeBack" => WriteBackInv
<1> SUFFICES ASSUME OneAtATime, CursorIsWritten PROVE Spec => []Inv
  OBVIOUS
<1>1. Init => Inv
  BY WriteBackInitially DEF Init
<1>2. Inv /\ [Next]_all => Inv'
  <2> SUFFICES ASSUME Inv, [Next]_all PROVE Inv'
    OBVIOUS
  <2>1. CASE WriteBackNext
    BY <2>1, WriteBackStep DEF WriteBackNext
  <2>2. CASE UNCHANGED <<part, writeBackVars>>
    BY <2>2, WriteBackStep
  <2> QED BY <2>1, <2>2
          DEF Next, RuntimeNext, PromptNext, FilesNext, ReadersNext, SetupNext, all
<1> QED BY <1>1, <1>2, PTL DEF Spec

\* With one write-back at a time whose cursor is written, no turn is stored twice in a
\* document, whatever is lost, repeated, refused or given up, and no turn is in two of
\* the appends that a bank accepted.
THEOREM TurnsAreSentOnce == OneAtATime /\ CursorIsWritten => (Spec => []TurnsSentOnce)
<1>1. WriteBackInv => WriteBack!NoRepeatedTurns
  <2> SUFFICES ASSUME WriteBackInv, NEW b \in Banks PROVE WriteBack!IsInjective(document[b])
    BY DEF WriteBack!NoRepeatedTurns
  <2>1. document[b] \in Seq(Nat)
        /\ \A i, j \in 1 .. Len(document[b]) : document[b][i] = document[b][j] => i = j
    BY DEF WriteBackInv, BankOK, TurnsOK
  <2>2. DOMAIN document[b] = 1 .. Len(document[b])
    BY <2>1, LenProperties
  <2> QED BY <2>1, <2>2 DEF WriteBack!IsInjective
<1>2. WriteBackInv => WriteBack!SlicesSentOnce
  <2> SUFFICES ASSUME WriteBackInv, NEW p \in Accepted, NEW q \in Accepted,
                      p.append, q.append, p.bank = q.bank, p # q
               PROVE  WriteBack!ToSet(p.content) \cap WriteBack!ToSet(q.content) = {}
    BY DEF WriteBack!SlicesSentOnce, Accepted
  <2>1. Said(p) \cap Said(q) = {} /\ p.content \in Seq(Nat) /\ q.content \in Seq(Nat)
    BY DEF WriteBackInv, AcceptedOK, OpOK, TurnsOK
  <2>2. WriteBack!ToSet(p.content) = Said(p) /\ WriteBack!ToSet(q.content) = Said(q)
    BY <2>1, LenProperties DEF WriteBack!ToSet, Said, Held
  <2> QED BY <2>1, <2>2
<1>3. (part = "writeBack" => WriteBackInv) => TurnsSentOnce
  BY <1>1, <1>2 DEF TurnsSentOnce
<1> QED BY <1>3, WriteBackAlways, PTL

-----------------------------------------------------------------------------
(* What a document will hold *)

Legible(S) == \A op \in S : op.content \in Seq(Nat)

\* The documents on the way through a sequence of operations.
Runs(doc, s, done, f) ==
  /\ f \in [0 .. Len(s) -> Seq(Nat)] /\ f[0] = doc
  /\ \A n \in 1 .. Len(s) :
       f[n] = IF s[n] \in done THEN f[n - 1] ELSE WriteBack!Perform(s[n], f[n - 1])

LEMMA AfterRuns ==
  ASSUME NEW S, Legible(S), NEW s \in Seq(S), NEW doc \in Seq(Nat), NEW done
  PROVE  \E f : Runs(doc, s, done, f) /\ WriteBack!After(doc, s, done) = f[Len(s)]
<1> DEFINE T == Seq(Nat)
           Done(n, d) == IF s[n] \in done THEN d ELSE WriteBack!Perform(s[n], d)
           first[n \in 0 .. Len(s)] ==
             IF n = 0 THEN doc
             ELSE IF s[n] \in done THEN first[n - 1] ELSE WriteBack!Perform(s[n], first[n - 1])
           step == [n \in 1 .. Len(s) |-> [d \in T |-> Done(n, d)]]
<1>1. Len(s) \in Nat /\ doc \in T
  OBVIOUS
<1>2. step \in Steps(Len(s), T)
  <2>1. ASSUME NEW n \in 1 .. Len(s), NEW d \in T PROVE Done(n, d) \in T
    <3>1. s[n] \in S /\ s[n].content \in Seq(Nat)
      BY DEF Legible
    <3>2. d \o s[n].content \in Seq(Nat)
      BY <3>1, ConcatProperties
    <3> QED BY <3>1, <3>2 DEF WriteBack!Perform
  <2> HIDE DEF T, Done
  <2>2. \A n \in 1 .. Len(s) : [d \in T |-> Done(n, d)] \in [T -> T]
    BY <2>1
  <2> QED BY <2>2 DEF Steps
<1>3. PICK g : Follows(g, Len(s), T, doc, step)
  <2> HIDE DEF T, step
  <2> QED BY <1>1, <1>2, Recursion
<1>4. g = [n \in 0 .. Len(s) |-> IF n = 0 THEN doc ELSE Done(n, g[n - 1])]
  <2>1. \A n \in 1 .. Len(s) : step[n][g[n - 1]] = Done(n, g[n - 1])
    <3> HIDE DEF Done, T
    <3> QED BY <1>1, <1>3 DEF Follows
  <2> HIDE DEF step, first, Done, T
  <2>2. \A n \in 0 .. Len(s) : (IF n = 0 THEN doc ELSE step[n][g[n - 1]])
                             = (IF n = 0 THEN doc ELSE Done(n, g[n - 1]))
    BY <1>1, <2>1
  <2> QED BY <1>3, <2>2 DEF Follows
<1>5. first = [n \in 0 .. Len(s) |-> IF n = 0 THEN doc ELSE Done(n, first[n - 1])]
  BY <1>4
<1>6. first[0] = doc /\ \A n \in 1 .. Len(s) : first[n] = Done(n, first[n - 1])
  <2> HIDE DEF first, step, T
  <2>1. Len(s) \in Nat
    BY <1>1
  <2>2. \A n \in 0 .. Len(s) : first[n] = IF n = 0 THEN doc ELSE Done(n, first[n - 1])
    BY <1>5, ZenonT(20)
  <2> HIDE DEF Done
  <2>3. 0 \in 0 .. Len(s) /\ \A n \in 1 .. Len(s) : n \in 0 .. Len(s) /\ n # 0
    BY <2>1
  <2> QED BY <2>2, <2>3, Zenon
<1>7. \A n \in 0 .. Len(s) : first[n] \in T
  <2>1. \A n \in 1 .. Len(s) : first[n - 1] \in T => first[n] = step[n][first[n - 1]]
    <3> HIDE DEF first, T, Done
    <3> QED BY <1>6
  <2> HIDE DEF step, first, T
  <2> QED BY <1>1, <1>2, <1>6, <2>1, Values
<1>8. first \in [0 .. Len(s) -> T]
  <2> HIDE DEF first, step, Done, T
  <2> QED BY <1>5, <1>7
<1>9. WriteBack!After(doc, s, done) = first[Len(s)]
  BY DEF WriteBack!After
<1> HIDE DEF first, step
<1>10. Runs(doc, s, done, first)
  BY <1>6, <1>8 DEF Runs
<1> QED BY <1>9, <1>10

LEMMA AfterIs ==
  ASSUME NEW S, Legible(S), NEW s \in Seq(S), NEW doc \in Seq(Nat), NEW done,
         NEW f, Runs(doc, s, done, f)
  PROVE  WriteBack!After(doc, s, done) = f[Len(s)] /\ f[Len(s)] \in Seq(Nat)
<1>1. PICK g : Runs(doc, s, done, g) /\ WriteBack!After(doc, s, done) = g[Len(s)]
  BY AfterRuns
<1> DEFINE Same == {n \in 0 .. Len(s) : f[n] = g[n]}
<1>2. Len(s) \in Nat /\ 0 \in Same
  BY <1>1 DEF Runs
<1>3. ASSUME NEW n \in 0 .. (Len(s) - 1), n \in Same PROVE n + 1 \in Same
  <2>1. n + 1 \in 1 .. Len(s) /\ (n + 1) - 1 = n /\ f[n] = g[n] /\ n + 1 \in 0 .. Len(s)
    BY <1>2, <1>3
  <2>2. f[n + 1] = g[n + 1]
    BY <1>1, <2>1 DEF Runs
  <2> QED BY <2>1, <2>2
<1>4. \A n \in 0 .. Len(s) : n \in Same
  <2> HIDE DEF Same
  <2> QED BY <1>2, <1>3, Induction
<1>5. f[Len(s)] = g[Len(s)]
  BY <1>2, <1>4
<1> QED BY <1>1, <1>2, <1>5 DEF Runs

LEMMA AfterIsADocument ==
  ASSUME NEW S, Legible(S), NEW s \in Seq(S), NEW doc \in Seq(Nat), NEW done
  PROVE  WriteBack!After(doc, s, done) \in Seq(Nat)
BY AfterRuns, AfterIs

LEMMA AfterNothing ==
  ASSUME NEW doc \in Seq(Nat), NEW done
  PROVE  WriteBack!After(doc, <<>>, done) = doc
<1> DEFINE none == <<>>
<1>1. none \in Seq({}) /\ Len(none) = 0 /\ Legible({})
  BY EmptySeq DEF Legible
<1> HIDE DEF none
<1>2. PICK f : Runs(doc, none, done, f) /\ WriteBack!After(doc, none, done) = f[Len(none)]
  BY <1>1, AfterRuns
<1> QED BY <1>1, <1>2 DEF Runs, none

\* One operation more.
LEMMA AfterOneMore ==
  ASSUME NEW S, Legible(S), NEW s \in Seq(S), NEW doc \in Seq(Nat), NEW done, NEW op \in S
  PROVE  WriteBack!After(doc, Append(s, op), done)
           = IF op \in done THEN WriteBack!After(doc, s, done)
             ELSE WriteBack!Perform(op, WriteBack!After(doc, s, done))
<1> DEFINE t == Append(s, op)
           n == Len(s)
<1>1. /\ t \in Seq(S) /\ n \in Nat /\ Len(t) = n + 1 /\ t[n + 1] = op
      /\ \A i \in 1 .. n : t[i] = s[i]
  BY AppendProperties
<1> HIDE DEF t, n
<1>2. PICK f : Runs(doc, t, done, f) /\ WriteBack!After(doc, t, done) = f[Len(t)]
  BY <1>1, AfterRuns
<1> DEFINE g == [i \in 0 .. n |-> f[i]]
<1>3. Runs(doc, s, done, g)
  <2>1. \A i \in 0 .. n : i \in 0 .. Len(t) /\ g[i] = f[i]
    BY <1>1
  <2>2. g \in [0 .. n -> Seq(Nat)] /\ g[0] = doc
    BY <1>1, <1>2, <2>1 DEF Runs
  <2>3. ASSUME NEW i \in 1 .. n PROVE g[i] = IF s[i] \in done THEN g[i - 1] ELSE WriteBack!Perform(s[i], g[i - 1])
    <3>1. i \in 1 .. Len(t) /\ t[i] = s[i] /\ g[i] = f[i] /\ g[i - 1] = f[i - 1]
      BY <1>1
    <3> QED BY <1>2, <3>1 DEF Runs
  <2> HIDE DEF g
  <2> QED BY <2>2, <2>3 DEF Runs, n
<1>4. WriteBack!After(doc, s, done) = g[n] /\ g[n] = f[n]
  <2>1. g[n] = f[n]
    BY <1>1
  <2> HIDE DEF g
  <2> QED BY <1>3, <2>1, AfterIs DEF n
<1>5. f[n + 1] = IF op \in done THEN f[n] ELSE WriteBack!Perform(op, f[n])
  <2>1. n + 1 \in 1 .. Len(t) /\ (n + 1) - 1 = n
    BY <1>1
  <2> QED BY <1>1, <1>2, <2>1 DEF Runs
<1> QED BY <1>1, <1>2, <1>4, <1>5 DEF t

\* The first operation is performed.
LEMMA AfterTheFirst ==
  ASSUME NEW S, Legible(S), NEW s \in Seq(S), s # <<>>, NEW doc \in Seq(Nat), NEW done
  PROVE  LET new == IF Head(s) \in done THEN doc ELSE WriteBack!Perform(Head(s), doc)
         IN  new \in Seq(Nat) /\ WriteBack!After(doc, s, done) = WriteBack!After(new, Tail(s), done)
<1> DEFINE t == Tail(s)
           new == IF Head(s) \in done THEN doc ELSE WriteBack!Perform(Head(s), doc)
<1>1. /\ t \in Seq(S) /\ Len(s) \in Nat /\ Len(t) \in Nat /\ Len(s) = Len(t) + 1 /\ Head(s) = s[1]
      /\ \A i \in 1 .. Len(t) : i + 1 \in 1 .. Len(s) /\ t[i] = s[i + 1]
  BY TailOfBox
<1>2. new = IF s[1] \in done THEN doc ELSE WriteBack!Perform(s[1], doc)
  BY <1>1
<1> HIDE DEF t, new
<1>3. PICK f : Runs(doc, s, done, f) /\ WriteBack!After(doc, s, done) = f[Len(s)]
  BY AfterRuns
<1>4. f[1] = new
  <2>1. 1 \in 1 .. Len(s) /\ 1 - 1 = 0
    BY <1>1
  <2> QED BY <1>2, <1>3, <2>1 DEF Runs
<1> DEFINE g == [i \in 0 .. Len(t) |-> f[i + 1]]
<1>5. new \in Seq(Nat)
  <2>1. 1 \in 0 .. Len(s)
    BY <1>1
  <2> QED BY <1>3, <1>4, <2>1 DEF Runs
<1>6. Runs(new, t, done, g)
  <2>1. \A i \in 0 .. Len(t) : i + 1 \in 0 .. Len(s) /\ g[i] = f[i + 1]
    BY <1>1
  <2>2. g \in [0 .. Len(t) -> Seq(Nat)] /\ g[0] = new
    BY <1>1, <1>3, <1>4, <2>1 DEF Runs
  <2>3. ASSUME NEW i \in 1 .. Len(t) PROVE g[i] = IF t[i] \in done THEN g[i - 1] ELSE WriteBack!Perform(t[i], g[i - 1])
    <3>1. /\ i + 1 \in 1 .. Len(s) /\ t[i] = s[i + 1] /\ g[i] = f[i + 1]
          /\ (i + 1) - 1 = i /\ g[i - 1] = f[i]
      BY <1>1
    <3> QED BY <1>3, <3>1 DEF Runs
  <2> HIDE DEF g
  <2> QED BY <2>2, <2>3 DEF Runs
<1>7. WriteBack!After(new, t, done) = g[Len(t)] /\ g[Len(t)] = f[Len(s)]
  <2>1. g[Len(t)] = f[Len(s)]
    BY <1>1
  <2> HIDE DEF g
  <2> QED BY <1>1, <1>5, <1>6, <2>1, AfterIs
<1> QED BY <1>3, <1>5, <1>7 DEF t, new

\* What stands before a replacement does not matter.
LEMMA AfterReset ==
  ASSUME NEW S, Legible(S), NEW s \in Seq(S), NEW c \in Seq(Nat), NEW d \in Seq(Nat), NEW done,
         NEW j \in 1 .. Len(s), s[j] \notin done, ~s[j].append
  PROVE  WriteBack!After(c, s, done) = WriteBack!After(d, s, done)
<1>1. PICK f : Runs(c, s, done, f) /\ WriteBack!After(c, s, done) = f[Len(s)]
  BY AfterRuns
<1>2. PICK g : Runs(d, s, done, g) /\ WriteBack!After(d, s, done) = g[Len(s)]
  BY AfterRuns
<1> DEFINE Same == {n \in 0 .. Len(s) : n < j \/ f[n] = g[n]}
<1>3. Len(s) \in Nat /\ 0 \in Same
  OBVIOUS
<1>4. ASSUME NEW n \in 0 .. (Len(s) - 1), n \in Same PROVE n + 1 \in Same
  <2>1. n + 1 \in 1 .. Len(s) /\ (n + 1) - 1 = n /\ n + 1 \in 0 .. Len(s)
    BY <1>3
  <2>2. CASE n + 1 < j
    BY <2>1, <2>2
  <2>3. CASE n + 1 = j
    <3>1. f[j] = s[j].content /\ g[j] = s[j].content
      BY <1>1, <1>2 DEF Runs, WriteBack!Perform
    <3> QED BY <2>1, <2>3, <3>1
  <2>4. CASE n + 1 > j
    <3>1. f[n] = g[n]
      BY <1>4, <2>4
    <3>2. f[n + 1] = g[n + 1]
      BY <1>1, <1>2, <2>1, <3>1 DEF Runs
    <3> QED BY <2>1, <3>2
  <2> QED BY <2>1, <2>2, <2>3, <2>4
<1>5. \A n \in 0 .. Len(s) : n \in Same
  <2> HIDE DEF Same
  <2> QED BY <1>3, <1>4, Induction
<1>6. f[Len(s)] = g[Len(s)]
  BY <1>3, <1>5
<1> QED BY <1>1, <1>2, <1>6

\* What is done does not matter where it does not occur.
LEMMA AfterOthersDone ==
  ASSUME NEW S, Legible(S), NEW s \in Seq(S), NEW doc \in Seq(Nat), NEW done, NEW more,
         \A i \in 1 .. Len(s) : s[i] \in done <=> s[i] \in more
  PROVE  WriteBack!After(doc, s, done) = WriteBack!After(doc, s, more)
<1>1. PICK f : Runs(doc, s, done, f) /\ WriteBack!After(doc, s, done) = f[Len(s)]
  BY AfterRuns
<1>2. Runs(doc, s, more, f)
  BY <1>1 DEF Runs
<1> QED BY <1>1, <1>2, AfterIs

-----------------------------------------------------------------------------
(* What a cursor tells *)

\* An operation is among those given, or made good by a replacement behind it.
Followed(box, these) ==
  \A i \in 1 .. Len(box) : box[i] \in these \/ \E j \in (i + 1) .. Len(box) : ~box[j].append

\* The operations whose turns a cursor counts as sent; F: those no longer tracked.
Known(c, F) == F \cup Held(c.ops)

NoneLost(c, st, F) ==
  /\ \A op \in Known(c, F) : op \in DOMAIN st /\ st[op] # "failed"
  /\ \A op \in Held(c.pending) : op \in DOMAIN st => st[op] # "failed"

\* The cursor is right about the document, its box and what it buffers.
Whole(c, doc, box, st, F) ==
  NoneLost(c, st, F) =>
    /\ WriteBack!After(WriteBack!After(doc, box, {}), c.pending, DOMAIN st) = c.upto
    /\ Followed(box, Known(c, F) \cup Held(c.pending))

\* A turn that is in none of the replacements accepted for a bank, nor older than any.
Above(n, b, A) == \A op \in A : ~op.append /\ op.bank = b => \A m \in Said(op) : m < n

\* What is buffered is new: to what was sent before, and to the bank's replacements.
Buffered(c, A, F) ==
  /\ c.ops \in Seq(Range(c.ops))
  /\ \A op \in Known(c, F) : Said(op) \subseteq Held(c.upto)
  /\ Held(c.pending) \cap Known(c, F) = {}
  /\ \A i, j \in 1 .. Len(c.pending) : c.pending[i] = c.pending[j] => i = j
  /\ \A op \in Held(c.pending) \ A : \E n \in Said(op) : Above(n, c.bank, A)

Truthful(c, D, B, st, F) ==
  Whole(c, D[c.bank], B[c.bank], st, F) /\ Buffered(c, DOMAIN st, F)

\* A state of the transcript: the newest turn is in the present one only.
Version(v) == Held(v) \subseteq 1 .. made /\ (made \in Held(v) => v = transcript)

VersionsOK ==
  /\ transcript = <<>> \/ made \in Held(transcript)
  /\ \A op \in Accepted : ~op.append => Version(op.content)
  /\ stored # NoCursor => Version(stored.upto)
  /\ \A h \in Hooks : pc[h] # "idle" => Version(work[h].turns)

\* The newest of the turns that a write-back read tells its version from others.
Newest(w, A) ==
  \E n \in Held(w.turns) :
    /\ \A m \in Held(w.turns) : m <= n
    /\ \A op \in A : \A m \in Said(op) : m <= n
    /\ \A op \in A : ~op.append /\ n \in Said(op) => op.content = w.turns
    /\ w.cursor # NoCursor /\ n \in Held(w.cursor.upto) => w.cursor.upto = w.turns

\* The cursor that a write-back has stored while it sends appends.
Claim(w) == WriteBack!Position(w, FALSE, w.queue, w.ops)

StoredTold(c, D, B, st, F) == c # NoCursor /\ ~c.dirty => Truthful(c, D, B, st, F)

WorkTold(w, point, c, D, B, st, F) ==
  /\ point # "idle" => Newest(w, DOMAIN st)
  /\ point \in {"probe", "settle"} =>
       /\ w.ops = <<>>
       /\ w.cursor # NoCursor => c \in {NoCursor, w.cursor}
       /\ StoredTold(w.cursor, D, B, st, F)
  /\ point = "settle" => ~w.cursor.dirty
  /\ point = "plan" /\ w.append /\ w.cursor # NoCursor /\ ~w.cursor.dirty =>
       Truthful([w.cursor EXCEPT !.ops = w.ops], D, B, st, F)
  /\ point \in Late /\ Head(w.queue).append =>
       Truthful(Claim(w), D, B, st, F) /\ c \in {NoCursor, Claim(w)}
  /\ point \in Late /\ ~Head(w.queue).append =>
       /\ w.queue = <<WriteBack!Operation(w.bank, FALSE, w.turns)>>
       /\ F = {} /\ (c # NoCursor => c.dirty)

\* The operations in a box run, and each is there once.
BoxTold(box, st) ==
  /\ \A i \in 1 .. Len(box) : st[box[i]] = "running"
  /\ \A i, j \in 1 .. Len(box) : box[i] = box[j] => i = j

\* A replacement that was accepted is the document's content, or its box's last
\* operation, or a newer turn was accepted.
Current(op, doc, box) == IF box = <<>> THEN doc = op.content ELSE box[Len(box)] = op
Overtaken(op, A) ==
  \E p \in A : p.bank = op.bank /\ \E n \in Said(p) : \A m \in Said(op) : m < n
LatestOK(D, B, st) ==
  \A op \in DOMAIN st : ~op.append =>
    st[op] = "failed" \/ Current(op, D[op.bank], B[op.bank]) \/ Overtaken(op, DOMAIN st)

TruthInv ==
  /\ VersionsOK
  /\ StoredTold(stored, document, inbox, status, forgotten)
  /\ \A h \in Hooks : WorkTold(work[h], pc[h], stored, document, inbox, status, forgotten)
  /\ \A b \in Banks : BoxTold(inbox[b], status)
  /\ LatestOK(document, inbox, status)

LEMMA TruthInitially == WriteBack!Init => TruthInv
<1> SUFFICES ASSUME WriteBack!Init PROVE TruthInv
  OBVIOUS
<1> USE DEF WriteBack!Init
<1>1. DOMAIN status = {} /\ Len(<<>>) = 0
  BY NothingHeld, EmptySeq
<1>2. VersionsOK
  BY <1>1 DEF VersionsOK, Accepted
<1>3. \A h \in Hooks : WorkTold(work[h], pc[h], stored, document, inbox, status, forgotten)
  BY DEF WorkTold, Late
<1>4. \A b \in Banks : BoxTold(inbox[b], status)
  BY <1>1 DEF BoxTold
<1> QED BY <1>1, <1>2, <1>3, <1>4 DEF TruthInv, StoredTold, LatestOK

\* A cursor tells the same as another that differs in capability and dirt only.
LEMMA SameTold ==
  ASSUME NEW c, NEW d, c.upto = d.upto, c.bank = d.bank, c.pending = d.pending, c.ops = d.ops,
         NEW D, NEW B, NEW st, NEW F, Truthful(c, D, B, st, F)
  PROVE  Truthful(d, D, B, st, F)
BY DEF Truthful, Whole, NoneLost, Known, Buffered

-----------------------------------------------------------------------------
(* The server performs what it accepted *)

LEMMA BoxIsLegible ==
  ASSUME NEW b, NEW doc, NEW box, NEW A, BankOK(b, doc, box, A), AcceptedOK(A)
  PROVE  LET S == {op \in A : op.bank = b} IN Legible(S) /\ box \in Seq(S) /\ doc \in Seq(Nat)
BY DEF BankOK, AcceptedOK, OpOK, TurnsOK, Legible

LEMMA QueueIsLegible ==
  ASSUME NEW q, NEW b, NEW turns, NEW A, QueueOK(q, b, turns, A)
  PROVE  /\ Legible(Range(q)) /\ q \in Seq(Range(q)) /\ Len(q) \in Nat
         /\ Range(q) = Held(q) /\ \A i \in 1 .. Len(q) : q[i] \in Held(q)
<1>1. q \in Seq(Range(q)) /\ Len(q) \in Nat
  BY LenProperties DEF QueueOK
<1>2. Range(q) = Held(q)
  BY <1>1, RangeEquality DEF Held
<1>3. \A i \in 1 .. Len(q) : q[i].content \in Seq(Nat)
  BY DEF QueueOK, OpOK, TurnsOK
<1>4. Legible(Range(q))
  BY <1>2, <1>3 DEF Legible, Held
<1> QED BY <1>1, <1>2, <1>4 DEF Held

LEMMA BoxGoesOn ==
  ASSUME NEW box, NEW S, box \in Seq(S), box # <<>>, NEW st, BoxTold(box, st),
         \A i \in 1 .. Len(box) : box[i] \in DOMAIN st,
         NEW v, NEW these, Followed(box, these)
  PROVE  BoxTold(Tail(box), [st EXCEPT ![Head(box)] = v]) /\ Followed(Tail(box), these)
<1>1. /\ Tail(box) \in Seq(S) /\ Head(box) = box[1] /\ 1 \in 1 .. Len(box)
      /\ Len(Tail(box)) = Len(box) - 1 /\ Len(box) \in Nat
      /\ \A j \in 1 .. Len(Tail(box)) : j + 1 \in 1 .. Len(box) /\ Tail(box)[j] = box[j + 1]
  BY TailOfBox
<1> DEFINE t == Tail(box)
           op == Head(box)
<1> HIDE DEF t, op
<1>2. ASSUME NEW i \in 1 .. Len(t) PROVE [st EXCEPT ![op] = v][t[i]] = "running"
  <2>1. i + 1 \in 1 .. Len(box) /\ t[i] = box[i + 1] /\ i + 1 # 1
    BY <1>1 DEF t
  <2>2. t[i] # op
    BY <1>1, <2>1 DEF BoxTold, op
  <2> QED BY <2>1, <2>2 DEF BoxTold
<1>3. ASSUME NEW i \in 1 .. Len(t), NEW j \in 1 .. Len(t), t[i] = t[j] PROVE i = j
  <2>1. i + 1 \in 1 .. Len(box) /\ j + 1 \in 1 .. Len(box) /\ box[i + 1] = box[j + 1]
    BY <1>1, <1>3 DEF t
  <2>2. i + 1 = j + 1
    BY <2>1 DEF BoxTold
  <2> QED BY <2>2
<1>4. ASSUME NEW i \in 1 .. Len(t), t[i] \notin these
      PROVE  \E j \in (i + 1) .. Len(t) : ~t[j].append
  <2>1. i + 1 \in 1 .. Len(box) /\ box[i + 1] = t[i]
    BY <1>1 DEF t
  <2>2. PICK k \in ((i + 1) + 1) .. Len(box) : ~box[k].append
    BY <1>4, <2>1 DEF Followed
  <2>3. k - 1 \in (i + 1) .. Len(t) /\ k - 1 \in 1 .. Len(t) /\ (k - 1) + 1 = k
    BY <1>1 DEF t
  <2>4. t[k - 1] = box[k]
    BY <1>1, <2>3 DEF t
  <2> QED BY <2>2, <2>3, <2>4
<1> QED BY <1>2, <1>3, <1>4 DEF BoxTold, Followed, t, op

\* What the server does with the first operation of a box.
Settles(b, st, D, B) ==
  LET op == Head(inbox[b]) IN
  /\ inbox[b] # <<>> /\ B = [inbox EXCEPT ![b] = Tail(@)]
  /\ \/ /\ st = [status EXCEPT ![op] = "completed"]
        /\ D = [document EXCEPT ![b] = WriteBack!Perform(op, @)]
     \/ st = [status EXCEPT ![op] = "failed"] /\ D = document

LEMMA ServerTruthful ==
  ASSUME WriteBackInv, \A d \in Banks : BoxTold(inbox[d], status), NEW b \in Banks,
         NEW st, NEW D, NEW B, Settles(b, st, D, B),
         NEW c, CursorOK(c, Accepted), NEW F, Truthful(c, document, inbox, status, F)
  PROVE  Truthful(c, D, B, st, F)
<1> DEFINE box == inbox[b]
           doc == document[b]
           op == Head(box)
           S == {o \in Accepted : o.bank = b}
           P == Range(c.pending)
<1>1. BankOK(b, doc, box, Accepted) /\ AcceptedOK(Accepted)
      /\ DOMAIN document = Banks /\ DOMAIN inbox = Banks
  BY DEF WriteBackInv
<1>2. Legible(S) /\ box \in Seq(S) /\ doc \in Seq(Nat)
  BY <1>1, BoxIsLegible
<1>3. /\ Tail(box) \in Seq(S) /\ op = box[1] /\ 1 \in 1 .. Len(box) /\ Len(box) \in Nat
      /\ Len(Tail(box)) = Len(box) - 1
      /\ \A j \in 1 .. Len(Tail(box)) : j + 1 \in 1 .. Len(box) /\ Tail(box)[j] = box[j + 1]
  BY <1>2, TailOfBox DEF Settles
<1>4. op \in Accepted /\ status[op] = "running"
  <2>1. box[1] \in S
    BY <1>2, <1>3
  <2> QED BY <1>3, <2>1 DEF BoxTold
<1>5. /\ DOMAIN st = DOMAIN status
      /\ \A o \in DOMAIN status : o # op => st[o] = status[o]
      /\ (st[op] = "completed" /\ D = [document EXCEPT ![b] = WriteBack!Perform(op, @)])
         \/ (st[op] = "failed" /\ D = document)
  BY <1>4 DEF Settles, Accepted
<1>6. ASSUME NoneLost(c, st, F) PROVE NoneLost(c, status, F)
  BY <1>4, <1>5, <1>6 DEF NoneLost
<1>7. Buffered(c, DOMAIN st, F)
  BY <1>5 DEF Truthful
<1>8. /\ P = Held(c.pending) /\ Legible(P) /\ c.pending \in Seq(P)
      /\ c.bank \in Banks
  BY QueueIsLegible DEF CursorOK
<1>9. CASE c.bank # b
  <2>1. D[c.bank] = document[c.bank] /\ B[c.bank] = inbox[c.bank]
    BY <1>1, <1>5, <1>8, <1>9 DEF Settles
  <2> QED BY <1>5, <1>6, <1>7, <2>1 DEF Truthful, Whole
<1>10. CASE c.bank = b
  <2> SUFFICES ASSUME NoneLost(c, st, F)
               PROVE  /\ WriteBack!After(WriteBack!After(D[b], B[b], {}), c.pending, DOMAIN st)
                           = c.upto
                      /\ Followed(B[b], Known(c, F) \cup Held(c.pending))
    BY <1>7, <1>10 DEF Truthful, Whole
  <2>1. /\ WriteBack!After(WriteBack!After(doc, box, {}), c.pending, DOMAIN st) = c.upto
        /\ Followed(box, Known(c, F) \cup Held(c.pending))
    BY <1>5, <1>6, <1>10 DEF Truthful, Whole
  <2>2. B[b] = Tail(box) /\ box # <<>>
    BY <1>1 DEF Settles
  <2>3. Followed(B[b], Known(c, F) \cup Held(c.pending))
    <3>1. BoxTold(box, status) /\ \A i \in 1 .. Len(box) : box[i] \in DOMAIN status
      BY <1>2 DEF Accepted
    <3> HIDE DEF S, box
    <3> QED BY <1>2, <2>1, <2>2, <3>1, BoxGoesOn
  <2> DEFINE new == WriteBack!Perform(op, doc)
  <2>4. new \in Seq(Nat) /\ WriteBack!After(doc, box, {}) = WriteBack!After(new, Tail(box), {})
    <3> DEFINE none == {}
    <3>1. op \notin none
      OBVIOUS
    <3> HIDE DEF none
    <3>2. LET next == IF op \in none THEN doc ELSE WriteBack!Perform(op, doc)
          IN  next \in Seq(Nat)
              /\ WriteBack!After(doc, box, none) = WriteBack!After(next, Tail(box), none)
      <4> HIDE DEF S, box, doc
      <4> QED BY <1>2, <2>2, AfterTheFirst DEF op
    <3> QED BY <3>1, <3>2 DEF none
  <2>5. WriteBack!After(D[b], Tail(box), {}) = WriteBack!After(new, Tail(box), {})
    <3>1. CASE st[op] = "completed"
      BY <1>1, <1>5, <3>1
    <3>2. CASE st[op] = "failed" /\ D = document
      <4>1. op \notin Known(c, F) \cup Held(c.pending)
        BY <1>4, <1>5, <3>2 DEF NoneLost, Accepted
      <4>2. PICK k \in (1 + 1) .. Len(box) : ~box[k].append
        BY <1>3, <2>1, <4>1 DEF Followed
      <4>3. k - 1 \in 1 .. Len(Tail(box)) /\ (k - 1) + 1 = k
        BY <1>3
      <4>4. Tail(box)[k - 1] = box[k] /\ Tail(box)[k - 1] \notin {}
        BY <1>3, <4>3
      <4>5. WriteBack!After(doc, Tail(box), {}) = WriteBack!After(new, Tail(box), {})
        <5> DEFINE none == {}
                   t == Tail(box)
                   j == k - 1
        <5>1. j \in 1 .. Len(t) /\ t[j] \notin none /\ ~t[j].append
          BY <4>2, <4>3, <4>4
        <5>2. t \in Seq(S)
          BY <1>3
        <5> HIDE DEF none, t, j, S, doc, new
        <5>3. WriteBack!After(doc, t, none) = WriteBack!After(new, t, none)
          BY <1>2, <2>4, <5>1, <5>2, AfterReset
        <5> QED BY <5>3 DEF none, t
      <4> QED BY <3>2, <4>5
    <3> QED BY <1>5, <3>1, <3>2
  <2> QED BY <2>1, <2>2, <2>3, <2>4, <2>5
<1> QED BY <1>9, <1>10

LEMMA ServerLatest ==
  ASSUME WriteBackInv, \A d \in Banks : BoxTold(inbox[d], status), NEW b \in Banks,
         NEW st, NEW D, NEW B, Settles(b, st, D, B), LatestOK(document, inbox, status)
  PROVE  (\A d \in Banks : BoxTold(B[d], st)) /\ LatestOK(D, B, st)
<1> DEFINE box == inbox[b]
           op == Head(box)
           S == {o \in Accepted : o.bank = b}
<1>1. BankOK(b, document[b], box, Accepted) /\ AcceptedOK(Accepted)
      /\ DOMAIN document = Banks /\ DOMAIN inbox = Banks
  BY DEF WriteBackInv
<1>2. box \in Seq(S) /\ box # <<>> /\ B[b] = Tail(box)
  BY <1>1, BoxIsLegible DEF Settles
<1>3. /\ Tail(box) \in Seq(S) /\ op = box[1] /\ 1 \in 1 .. Len(box) /\ Len(box) \in Nat
      /\ Len(Tail(box)) = Len(box) - 1 /\ (Tail(box) = <<>> <=> Len(Tail(box)) = 0)
      /\ \A j \in 1 .. Len(Tail(box)) : j + 1 \in 1 .. Len(box) /\ Tail(box)[j] = box[j + 1]
  BY <1>2, TailOfBox, EmptySeq
<1>4. op \in Accepted /\ status[op] = "running" /\ op.bank = b
  <2>1. box[1] \in S
    BY <1>2, <1>3
  <2> QED BY <1>3, <2>1 DEF BoxTold
<1>5. /\ DOMAIN st = DOMAIN status
      /\ \A o \in DOMAIN status : o # op => st[o] = status[o]
      /\ (st[op] = "completed" /\ D = [document EXCEPT ![b] = WriteBack!Perform(op, @)])
         \/ (st[op] = "failed" /\ D = document)
      /\ \E v : st = [status EXCEPT ![op] = v]
      /\ \A d \in Banks \ {b} : B[d] = inbox[d] /\ D[d] = document[d]
  BY <1>1, <1>4 DEF Settles, Accepted
<1>6. ASSUME NEW d \in Banks PROVE BoxTold(B[d], st)
  <2>1. CASE d = b
    <3>1. BoxTold(box, status) /\ \A i \in 1 .. Len(box) : box[i] \in DOMAIN status
      BY <1>2 DEF Accepted
    <3> DEFINE all0 == Held(box)
    <3>2. Followed(box, all0)
      BY DEF Followed, Held
    <3>3. PICK v : st = [status EXCEPT ![op] = v]
      BY <1>5
    <3> HIDE DEF S, box, all0
    <3>4. BoxTold(Tail(box), [status EXCEPT ![Head(box)] = v])
      BY <1>2, <3>1, <3>2, BoxGoesOn
    <3> QED BY <1>2, <2>1, <3>3, <3>4 DEF op
  <2>2. CASE d # b
    <3>1. \A i \in 1 .. Len(inbox[d]) : inbox[d][i] \in DOMAIN status /\ inbox[d][i] # op
      <4>1. inbox[d] \in Seq({o \in Accepted : o.bank = d})
        BY DEF WriteBackInv, BankOK
      <4>2. \A i \in 1 .. Len(inbox[d]) : inbox[d][i] \in {o \in Accepted : o.bank = d}
        BY <4>1, ElementOfSeq
      <4> QED BY <1>4, <2>2, <4>2 DEF Accepted
    <3> QED BY <1>5, <2>2, <3>1 DEF BoxTold
  <2> QED BY <2>1, <2>2
<1>7. ASSUME NEW r \in DOMAIN st, ~r.append, st[r] # "failed", ~Overtaken(r, DOMAIN st)
      PROVE  Current(r, D[r.bank], B[r.bank])
  <2>1. r \in DOMAIN status /\ r.bank \in Banks
    BY <1>1, <1>5 DEF AcceptedOK, Accepted
  <2>2. status[r] # "failed"
    BY <1>4, <1>5, <1>7
  <2>3. Current(r, document[r.bank], inbox[r.bank])
    BY <1>5, <1>7, <2>1, <2>2 DEF LatestOK
  <2>4. CASE r.bank # b
    BY <1>5, <2>1, <2>3, <2>4
  <2>5. CASE r.bank = b
    <3>1. box[Len(box)] = r
      BY <1>2, <2>3, <2>5 DEF Current
    <3>2. CASE Len(box) = 1
      <4>1. r = op
        BY <1>3, <3>1, <3>2
      <4>2. D[b] = op.content
        BY <1>1, <1>5, <1>7, <4>1 DEF WriteBack!Perform
      <4>3. B[b] = <<>>
        BY <1>2, <1>3, <3>2
      <4> QED BY <2>5, <4>1, <4>2, <4>3 DEF Current
    <3>3. CASE Len(box) # 1
      <4>1. Len(Tail(box)) \in 1 .. Len(Tail(box)) /\ Len(Tail(box)) + 1 = Len(box) /\ Tail(box) # <<>>
        BY <1>3, <3>3
      <4>2. Tail(box)[Len(Tail(box))] = r
        BY <1>3, <3>1, <4>1
      <4> QED BY <1>2, <2>5, <4>1, <4>2 DEF Current
    <3> QED BY <3>2, <3>3
  <2> QED BY <2>4, <2>5
<1> QED BY <1>6, <1>7 DEF LatestOK

\* The claim of a write-back that sends appends.
LEMMA ClaimedCursor ==
  ASSUME NEW w, NEW point \in Late, NEW c, NEW turns, NEW A, WorkOK(w, point, c, turns, A),
         Head(w.queue).append
  PROVE  /\ CursorOK(Claim(w), A) /\ AllAppend(w.queue)
         /\ Claim(w).upto = w.turns /\ Claim(w).bank = w.bank /\ Claim(w).pending = w.queue
         /\ Claim(w).ops = w.ops
<1>1. /\ w.bank \in Banks /\ TurnsOK(w.turns) /\ w.queue # <<>>
      /\ QueueOK(w.queue, w.bank, w.turns, A) /\ (Len(w.queue) = 1 \/ AllAppend(w.queue))
  BY DEF WorkOK, SendingOK, Late
<1>2. AllAppend(w.queue)
  <2>1. CASE Len(w.queue) = 1
    <3>1. Head(w.queue) = w.queue[1]
      BY <1>1, FirstOf
    <3>2. \A i \in 1 .. Len(w.queue) : i = 1
      BY <2>1
    <3> QED BY <3>1, <3>2 DEF AllAppend
  <2> QED BY <1>1, <2>1
<1>3. /\ DOMAIN Claim(w) = {"upto", "bank", "append", "dirty", "pending", "ops"}
      /\ Claim(w).upto = w.turns /\ Claim(w).bank = w.bank /\ Claim(w).pending = w.queue
      /\ Claim(w).ops = w.ops
  BY DEF Claim, WriteBack!Position, WriteBack!Cursor
<1> QED BY <1>1, <1>2, <1>3 DEF CursorOK

LEMMA SettledOK ==
  ASSUME NEW c, NEW A, CursorOK(c, A), NEW ops
  PROVE  LET d == [c EXCEPT !.ops = ops]
         IN  /\ CursorOK(d, A) /\ d.ops = ops
             /\ d.upto = c.upto /\ d.bank = c.bank /\ d.pending = c.pending
BY DEF CursorOK

LEMMA ServerTells ==
  ASSUME WriteBackInv, TruthInv, NEW b \in Banks, WriteBack!Complete(b) \/ WriteBack!Fail(b)
  PROVE  TruthInv'
<1> DEFINE st == status'
           D == document'
           B == inbox'
<1>1. /\ UNCHANGED <<transcript, made, stored, pc, work, forgotten>>
      /\ DOMAIN st = Accepted /\ Settles(b, st, D, B)
  BY DEF WriteBack!Complete, WriteBack!Fail, WriteBack!sessionVars, Settles, Accepted
<1>2. \A d \in Banks : BoxTold(inbox[d], status)
  BY DEF TruthInv
<1> HIDE DEF st, D, B
<1>3. ASSUME NEW c, CursorOK(c, Accepted), Truthful(c, document, inbox, status, forgotten)
      PROVE  Truthful(c, D, B, st, forgotten)
  BY <1>1, <1>2, <1>3, ServerTruthful
<1>4. VersionsOK'
  BY <1>1 DEF TruthInv, VersionsOK, Version, Accepted, st
<1>5. StoredTold(stored, D, B, st, forgotten)
  BY <1>3 DEF TruthInv, WriteBackInv, StoredTold, StoredOK
<1>6. ASSUME NEW h \in Hooks PROVE WorkTold(work[h], pc[h], stored, D, B, st, forgotten)
  <2> DEFINE w == work[h]
             d == [w.cursor EXCEPT !.ops = w.ops]
  <2> SUFFICES WorkTold(w, pc[h], stored, D, B, st, forgotten)
    OBVIOUS
  <2>1. WorkOK(w, pc[h], stored, transcript, Accepted)
        /\ WorkTold(w, pc[h], stored, document, inbox, status, forgotten)
    BY DEF TruthInv, WriteBackInv
  <2>2. pc[h] \in Early /\ w.cursor # NoCursor => CursorOK(w.cursor, Accepted)
    BY <2>1 DEF WorkOK, ReadingOK
  <2>3. pc[h] \in {"probe", "settle"} => StoredTold(w.cursor, D, B, st, forgotten)
    BY <1>3, <2>1, <2>2 DEF WorkTold, StoredTold, Early
  <2>4. pc[h] = "plan" /\ w.append /\ w.cursor # NoCursor /\ ~w.cursor.dirty =>
          Truthful(d, D, B, st, forgotten)
    <3> SUFFICES ASSUME pc[h] = "plan", w.append, w.cursor # NoCursor, ~w.cursor.dirty
                 PROVE  Truthful(d, D, B, st, forgotten)
      OBVIOUS
    <3>1. CursorOK(d, Accepted)
      BY <2>2, SettledOK DEF Early
    <3>2. Truthful(d, document, inbox, status, forgotten)
      BY <2>1 DEF WorkTold
    <3> QED BY <1>3, <3>1, <3>2
  <2>5. pc[h] \in Late /\ Head(w.queue).append => Truthful(Claim(w), D, B, st, forgotten)
    BY <1>3, <2>1, ClaimedCursor DEF WorkTold
  <2>6. DOMAIN st = DOMAIN status
    BY <1>1 DEF Accepted
  <2>7. pc[h] # "idle" => Newest(w, DOMAIN st)
    BY <2>1, <2>6 DEF WorkTold
  <2>8. pc[h] \in {"probe", "settle"} =>
          /\ w.ops = <<>> /\ (w.cursor # NoCursor => stored \in {NoCursor, w.cursor})
          /\ pc[h] = "settle" => ~w.cursor.dirty
    BY <2>1 DEF WorkTold
  <2>9. /\ pc[h] \in Late /\ Head(w.queue).append => stored \in {NoCursor, Claim(w)}
        /\ pc[h] \in Late /\ ~Head(w.queue).append =>
             /\ w.queue = <<WriteBack!Operation(w.bank, FALSE, w.turns)>>
             /\ forgotten = {} /\ (stored # NoCursor => stored.dirty)
    BY <2>1 DEF WorkTold
  <2> HIDE DEF w
  <2> QED BY <2>3, <2>4, <2>5, <2>7, <2>8, <2>9 DEF WorkTold
<1>7. (\A d \in Banks : BoxTold(B[d], st)) /\ LatestOK(D, B, st)
  BY <1>1, <1>2, ServerLatest DEF TruthInv
<1> QED BY <1>1, <1>4, <1>5, <1>6, <1>7 DEF TruthInv, st, D, B

-----------------------------------------------------------------------------
(* The session *)

LEMMA NewTurnTells ==
  ASSUME WriteBackInv, TruthInv, made' = made + 1, made + 1 \in Held(transcript'),
         UNCHANGED <<stored, pc, work, document, inbox, status, forgotten>>
  PROVE  TruthInv'
<1>1. made \in Nat /\ \A op \in Accepted : Said(op) \subseteq 1 .. made
  BY DEF WriteBackInv, NumbersOK
<1>2. ASSUME NEW v, Version(v) PROVE Version(v)'
  BY <1>1, <1>2 DEF Version
<1>3. VersionsOK'
  BY <1>2 DEF TruthInv, VersionsOK, Accepted
<1> QED BY <1>3 DEF TruthInv

LEMMA SessionTells ==
  ASSUME WriteBackInv, TruthInv,
         WriteBack!WriteTurn \/ WriteBack!Rewrite \/ WriteBack!Move \/ WriteBack!LoseCursor
  PROVE  TruthInv'
<1>1. transcript \in Seq(Nat) /\ made \in Nat
  BY DEF WriteBackInv, NumbersOK, TurnsOK
<1> DEFINE n == made + 1
<1>2. \A s \in Seq(Nat) : n \in Held(Append(s, n))
  <2> TAKE s \in Seq(Nat)
  <2>1. Len(Append(s, n)) = Len(s) + 1 /\ Append(s, n)[Len(s) + 1] = n /\ Len(s) \in Nat
    BY <1>1, AppendProperties
  <2>2. Len(s) + 1 \in 1 .. Len(Append(s, n))
    BY <2>1
  <2> QED BY <2>1, <2>2 DEF Held
<1>3. CASE WriteBack!WriteTurn
  <2>1. made' = n /\ n \in Held(transcript')
        /\ UNCHANGED <<stored, pc, work, document, inbox, status, forgotten>>
    BY <1>1, <1>2, <1>3 DEF WriteBack!WriteTurn, WriteBack!serverVars
  <2> QED BY <2>1, NewTurnTells
<1>4. CASE WriteBack!Rewrite
  <2>1. made' = n /\ UNCHANGED <<stored, pc, work, document, inbox, status, forgotten>>
    BY <1>4 DEF WriteBack!Rewrite, WriteBack!serverVars
  <2>2. PICK k \in 1 .. Len(transcript) :
          \/ transcript' = [transcript EXCEPT ![k] = n]
          \/ transcript' = Append(SubSeq(transcript, 1, k - 1), n)
    BY <1>4 DEF WriteBack!Rewrite
  <2>3. CASE transcript' = [transcript EXCEPT ![k] = n]
    <3>1. transcript' \in Seq(Nat) /\ Len(transcript') = Len(transcript) /\ transcript'[k] = n
      BY <1>1, <2>3, ExceptSeq
    <3> QED BY <2>1, <3>1, NewTurnTells DEF Held
  <2>4. CASE transcript' = Append(SubSeq(transcript, 1, k - 1), n)
    <3>1. SubSeq(transcript, 1, k - 1) \in Seq(Nat)
      BY <1>1, SubSeqProperties, ElementOfSeq, LenProperties
    <3> QED BY <1>2, <2>1, <2>4, <3>1, NewTurnTells
  <2> QED BY <2>2, <2>3, <2>4
<1>5. CASE WriteBack!Move
  BY <1>5 DEF WriteBack!Move, WriteBack!serverVars, TruthInv, VersionsOK, Version, Accepted
<1>6. CASE WriteBack!LoseCursor
  <2>1. UNCHANGED <<transcript, made, pc, work, document, inbox, status, forgotten>>
        /\ stored' = NoCursor
    BY <1>6 DEF WriteBack!LoseCursor, WriteBack!sessionVars, WriteBack!serverVars
  <2>2. VersionsOK'
    BY <2>1 DEF TruthInv, VersionsOK, Version, Accepted
  <2>3. \A h \in Hooks : WorkTold(work[h], pc[h], NoCursor, document, inbox, status, forgotten)
    BY DEF TruthInv, WorkTold
  <2> QED BY <2>1, <2>2, <2>3 DEF TruthInv, StoredTold
<1> QED BY <1>3, <1>4, <1>5, <1>6

-----------------------------------------------------------------------------
(* What a write-back leaves *)

LEMMA HookTells ==
  ASSUME TruthInv, OneAtATime, NEW h \in Hooks,
         UNCHANGED <<transcript, made, document, inbox, status>>,
         StoredTold(stored', document, inbox, status, forgotten'),
         stored' # NoCursor => Version(stored'.upto),
         WorkTold(work'[h], pc'[h], stored', document, inbox, status, forgotten'),
         pc'[h] # "idle" => Version(work'[h].turns)
  PROVE  TruthInv'
<1>1. \A g \in Hooks : g = h
  BY DEF OneAtATime
<1>2. VersionsOK'
  BY <1>1 DEF TruthInv, VersionsOK, Version, Accepted
<1>3. ASSUME NEW g \in Hooks
      PROVE  WorkTold(work'[g], pc'[g], stored', document, inbox, status, forgotten')
  BY <1>1
<1> QED BY <1>2, <1>3 DEF TruthInv

LEMMA Unchanged ==
  ASSUME UNCHANGED <<transcript, made, bank, moves>>, UNCHANGED <<document, inbox, status>>
  PROVE  UNCHANGED <<transcript, made, document, inbox, status>>
OBVIOUS

LEMMA EndsTell ==
  ASSUME WriteBackInv, TruthInv, OneAtATime, NEW h \in Hooks,
         WriteBack!Skip(h) \/ WriteBack!GiveUp(h)
  PROVE  TruthInv'
<1>1. UNCHANGED <<transcript, made, document, inbox, status>>
      /\ stored' = stored /\ forgotten' = forgotten
  BY Unchanged DEF WriteBack!Skip, WriteBack!GiveUp, WriteBack!sessionVars, WriteBack!serverVars
<1>2. pc' = [pc EXCEPT ![h] = "idle"]
  BY DEF WriteBack!Skip, WriteBack!GiveUp, WriteBack!Finish, WriteBack!Goto, WriteBack!Set
<1>3. pc'[h] = "idle"
  BY <1>2 DEF WriteBackInv
<1>4. WorkTold(work'[h], pc'[h], stored', document, inbox, status, forgotten')
  BY <1>3 DEF WorkTold, Late
<1> QED BY <1>1, <1>3, <1>4, HookTells DEF TruthInv, VersionsOK

\* A write-back that has read the session knows its newest turn.
LEMMA NewestRead ==
  ASSUME WriteBackInv, TruthInv, transcript # <<>>, NEW w, w.turns = transcript,
         w.cursor # NoCursor => w.cursor = stored
  PROVE  Newest(w, Accepted)
<1>1. made \in Held(transcript) /\ made \in Nat
  BY DEF TruthInv, VersionsOK, WriteBackInv, NumbersOK
<1>2. /\ \A m \in Held(transcript) : m <= made
      /\ \A op \in Accepted : \A m \in Said(op) : m <= made
  BY DEF WriteBackInv, NumbersOK
<1>3. /\ \A op \in Accepted : ~op.append /\ made \in Said(op) => op.content = transcript
      /\ w.cursor # NoCursor /\ made \in Held(w.cursor.upto) => w.cursor.upto = transcript
  BY DEF TruthInv, VersionsOK, Version, Said
<1> QED BY <1>1, <1>2, <1>3 DEF Newest

LEMMA StartTells ==
  ASSUME WriteBackInv, TruthInv, OneAtATime, NEW h \in Hooks, WriteBack!Start(h)
  PROVE  TruthInv'
<1> DEFINE c == WriteBack!UsableCursor(bank)
           w == WriteBack!Locals(transcript, bank, c)
           point == IF w.append THEN WriteBack!AfterProbe(w) ELSE "probe"
<1>1. UNCHANGED <<transcript, made, document, inbox, status>>
      /\ stored' = stored /\ forgotten' = forgotten /\ transcript # <<>>
  BY Unchanged DEF WriteBack!Start, WriteBack!sessionVars, WriteBack!serverVars
<1>2. work' = [work EXCEPT ![h] = w] /\ pc' = [pc EXCEPT ![h] = point]
  BY DEF WriteBack!Start, WriteBack!Goto, WriteBack!Set
<1>3. c = NoCursor \/ c = stored
  BY DEF WriteBack!UsableCursor
<1>4. work'[h] = w /\ pc'[h] = point
  BY <1>2 DEF WriteBackInv
<1> HIDE DEF c
<1>5. /\ w.turns = transcript /\ w.cursor = c /\ w.ops = <<>>
  BY DEF WriteBack!Locals
<1>6. /\ point \in {"probe", "settle", "plan"}
      /\ point = "plan" => c = NoCursor \/ c.dirty \/ c.ops = <<>>
      /\ point = "settle" => ~c.dirty
  BY <1>5 DEF WriteBack!AfterProbe
<1> HIDE DEF w, point
<1>7. Newest(w, DOMAIN status)
  BY <1>1, <1>3, <1>5, NewestRead DEF Accepted
<1>8. StoredTold(c, document, inbox, status, forgotten)
  BY <1>3 DEF TruthInv, StoredTold
<1>9. point = "plan" /\ c # NoCursor /\ ~c.dirty =>
        Truthful([c EXCEPT !.ops = w.ops], document, inbox, status, forgotten)
  <2> SUFFICES ASSUME point = "plan", c # NoCursor, ~c.dirty
               PROVE  Truthful([c EXCEPT !.ops = <<>>], document, inbox, status, forgotten)
    BY <1>5
  <2>1. c.ops = <<>> /\ Truthful(c, document, inbox, status, forgotten)
    BY <1>6, <1>8 DEF StoredTold
  <2>2. CursorOK(c, Accepted)
    BY <1>3 DEF WriteBackInv, StoredOK
  <2> QED BY <2>1, <2>2, SettledOK, SameTold, ZenonT(60)
<1>10. WorkTold(w, point, stored, document, inbox, status, forgotten)
  BY <1>3, <1>5, <1>6, <1>7, <1>8, <1>9 DEF WorkTold, Late
<1>11. Version(w.turns)
  BY <1>5 DEF WriteBackInv, NumbersOK, Version
<1> QED BY <1>1, <1>4, <1>10, <1>11, HookTells DEF TruthInv, VersionsOK

LEMMA ProbeTells ==
  ASSUME WriteBackInv, TruthInv, OneAtATime, NEW h \in Hooks, WriteBack!Probe(h)
  PROVE  TruthInv'
<1> DEFINE w == work[h]
           v == work'[h]
           point == pc'[h]
<1>1. UNCHANGED <<transcript, made, document, inbox, status>>
      /\ stored' = stored /\ forgotten' = forgotten /\ pc[h] = "probe"
  BY Unchanged DEF WriteBack!Probe, WriteBack!sessionVars, WriteBack!serverVars, WriteBack!At
<1>2. PICK answer \in BOOLEAN :
        /\ work' = [work EXCEPT ![h] = [work[h] EXCEPT !.append = answer]]
        /\ pc' = [pc EXCEPT ![h] = WriteBack!AfterProbe([work[h] EXCEPT !.append = answer])]
  BY DEF WriteBack!Probe, WriteBack!Goto, WriteBack!Set
<1>3. /\ v.turns = w.turns /\ v.cursor = w.cursor /\ v.ops = w.ops
      /\ point = WriteBack!AfterProbe(v)
  BY <1>2, WorkFields DEF WriteBackInv
<1>4. WorkTold(w, "probe", stored, document, inbox, status, forgotten)
      /\ ReadingOK(w, Accepted) /\ Version(w.turns)
  BY <1>1 DEF TruthInv, WriteBackInv, WorkOK, Early, VersionsOK
<1> DEFINE c == w.cursor
<1>5. /\ point \in {"settle", "plan"}
      /\ point = "plan" /\ v.append => c = NoCursor \/ c.dirty \/ c.ops = <<>>
      /\ point = "settle" => ~c.dirty
  BY <1>3 DEF WriteBack!AfterProbe
<1> HIDE DEF v, w, point
<1>6. Newest(v, DOMAIN status)
  BY <1>3, <1>4 DEF WorkTold, Newest
<1>7. /\ w.ops = <<>> /\ StoredTold(c, document, inbox, status, forgotten)
      /\ c # NoCursor => stored \in {NoCursor, c}
  BY <1>4 DEF WorkTold
<1>8. point = "plan" /\ v.append /\ c # NoCursor /\ ~c.dirty =>
        Truthful([c EXCEPT !.ops = w.ops], document, inbox, status, forgotten)
  <2> SUFFICES ASSUME point = "plan", v.append, c # NoCursor, ~c.dirty
               PROVE  Truthful([c EXCEPT !.ops = <<>>], document, inbox, status, forgotten)
    BY <1>7
  <2>1. c.ops = <<>> /\ Truthful(c, document, inbox, status, forgotten)
    BY <1>5, <1>7 DEF StoredTold
  <2>2. CursorOK(c, Accepted)
    BY <1>4 DEF ReadingOK
  <2> HIDE DEF c
  <2> QED BY <2>1, <2>2, SettledOK, SameTold
<1>9. WorkTold(v, point, stored, document, inbox, status, forgotten)
  BY <1>3, <1>5, <1>6, <1>7, <1>8 DEF WorkTold, Late
<1>10. Version(v.turns)
  BY <1>3, <1>4
<1>11. StoredTold(stored, document, inbox, status, forgotten)
       /\ (stored # NoCursor => Version(stored.upto))
  BY DEF TruthInv, VersionsOK
<1> QED BY <1>1, <1>9, <1>10, <1>11, HookTells DEF v, point

LEMMA AnswersTell ==
  ASSUME WriteBackInv, TruthInv, OneAtATime, NEW h \in Hooks,
         WriteBack!NotFound(h) \/ WriteBack!RateLimited(h)
  PROVE  TruthInv'
<1> DEFINE w == work[h]
           v == work'[h]
           point == pc'[h]
<1>1. UNCHANGED <<transcript, made, document, inbox, status>>
      /\ stored' = stored /\ forgotten' = forgotten /\ pc[h] = "send"
  BY Unchanged DEF WriteBack!NotFound, WriteBack!RateLimited, WriteBack!sessionVars,
                   WriteBack!serverVars, WriteBack!At
<1>2. \/ work' = [work EXCEPT ![h] = [w EXCEPT !.attempts = 0]] /\ pc' = [pc EXCEPT ![h] = "confirm"]
      \/ work' = [work EXCEPT ![h] = [w EXCEPT !.attempts = @ + 1]] /\ pc' = pc
  BY DEF WriteBack!NotFound, WriteBack!RateLimited, WriteBack!Goto, WriteBack!Set
<1>3. /\ v.turns = w.turns /\ v.bank = w.bank /\ v.queue = w.queue /\ v.ops = w.ops
      /\ v.append = w.append /\ v.cursor = w.cursor /\ point \in Late
  BY <1>1, <1>2, WorkFields DEF WriteBackInv, Late
<1>4. WorkTold(w, "send", stored, document, inbox, status, forgotten) /\ Version(w.turns)
  BY <1>1 DEF TruthInv, VersionsOK
<1> HIDE DEF v, w, point
<1>5. Newest(v, DOMAIN status)
  BY <1>3, <1>4 DEF WorkTold, Newest
<1>6. Claim(v) = Claim(w)
  BY <1>3 DEF Claim, WriteBack!Position
<1>7. WorkTold(v, point, stored, document, inbox, status, forgotten)
  BY <1>3, <1>4, <1>5, <1>6 DEF WorkTold, Late
<1> QED BY <1>1, <1>3, <1>4, <1>7, HookTells DEF TruthInv, VersionsOK, v, point

LEMMA AmongIs ==
  ASSUME NEW S, NEW ops \in Seq(S), NEW these
  PROVE  /\ WriteBack!Among(ops, these) \in Seq(S)
         /\ Held(WriteBack!Among(ops, these)) = Held(ops) \cap these
         /\ Len(WriteBack!Among(ops, these)) <= Len(ops)
<1> DEFINE T == Seq(S)
           Picked(n, t) == IF ops[n] \in these THEN Append(t, ops[n]) ELSE t
           none == <<>>
           first[n \in 0 .. Len(ops)] ==
             IF n = 0 THEN <<>>
             ELSE IF ops[n] \in these THEN Append(first[n - 1], ops[n]) ELSE first[n - 1]
           step == [n \in 1 .. Len(ops) |-> [t \in T |-> Picked(n, t)]]
<1>1. Len(ops) \in Nat /\ none \in T /\ Held(none) = {} /\ Len(none) = 0
  BY EmptySeq, NothingHeld
<1>2. step \in Steps(Len(ops), T)
  <2>1. ASSUME NEW n \in 1 .. Len(ops), NEW t \in T PROVE Picked(n, t) \in T
    <3>1. ops[n] \in S
      OBVIOUS
    <3> QED BY <3>1, AppendProperties
  <2> HIDE DEF T, Picked
  <2>2. \A n \in 1 .. Len(ops) : [t \in T |-> Picked(n, t)] \in [T -> T]
    BY <2>1
  <2> QED BY <2>2 DEF Steps
<1>3. PICK g : Follows(g, Len(ops), T, none, step)
  <2> HIDE DEF T, step, none
  <2> QED BY <1>1, <1>2, Recursion
<1>4. g = [n \in 0 .. Len(ops) |-> IF n = 0 THEN none ELSE Picked(n, g[n - 1])]
  <2>1. \A n \in 1 .. Len(ops) : step[n][g[n - 1]] = Picked(n, g[n - 1])
    <3> HIDE DEF Picked, T
    <3> QED BY <1>1, <1>3 DEF Follows
  <2> HIDE DEF step, first, Picked, T, none
  <2>2. \A n \in 0 .. Len(ops) : (IF n = 0 THEN none ELSE step[n][g[n - 1]])
                               = (IF n = 0 THEN none ELSE Picked(n, g[n - 1]))
    BY <1>1, <2>1
  <2> QED BY <1>3, <2>2 DEF Follows
<1>5. first = [n \in 0 .. Len(ops) |-> IF n = 0 THEN none ELSE Picked(n, first[n - 1])]
  BY <1>4
<1>6. first[0] = none /\ \A n \in 1 .. Len(ops) : first[n] = Picked(n, first[n - 1])
  <2> HIDE DEF first, step, T, none
  <2>1. Len(ops) \in Nat
    BY <1>1
  <2>2. \A n \in 0 .. Len(ops) : first[n] = IF n = 0 THEN none ELSE Picked(n, first[n - 1])
    BY <1>5, ZenonT(20)
  <2> HIDE DEF Picked
  <2>3. 0 \in 0 .. Len(ops) /\ \A n \in 1 .. Len(ops) : n \in 0 .. Len(ops) /\ n # 0
    BY <2>1
  <2> QED BY <2>2, <2>3, Zenon
<1>7. \A n \in 0 .. Len(ops) : first[n] \in T
  <2>1. \A n \in 1 .. Len(ops) : first[n - 1] \in T => first[n] = step[n][first[n - 1]]
    <3> HIDE DEF first, T, Picked
    <3> QED BY <1>6
  <2> HIDE DEF step, first, T, none
  <2> QED BY <1>1, <1>2, <1>6, <2>1, Values
<1>8. WriteBack!Among(ops, these) = first[Len(ops)]
  BY DEF WriteBack!Among
<1> HIDE DEF first, step
<1> DEFINE Right == {n \in 0 .. Len(ops) :
                       /\ Held(first[n]) = {ops[i] : i \in 1 .. n} \cap these
                       /\ Len(first[n]) <= n}
<1>9. 0 \in Right
  BY <1>1, <1>6
<1>10. ASSUME NEW n \in 0 .. (Len(ops) - 1), n \in Right PROVE n + 1 \in Right
  <2>1. /\ n + 1 \in 1 .. Len(ops) /\ (n + 1) - 1 = n /\ n + 1 \in 0 .. Len(ops)
        /\ n \in 0 .. Len(ops)
    BY <1>1
  <2> DEFINE x == ops[n + 1]
  <2>2. {ops[i] : i \in 1 .. (n + 1)} = {ops[i] : i \in 1 .. n} \cup {x}
    BY <2>1
  <2>3. first[n + 1] = (IF x \in these THEN Append(first[n], x) ELSE first[n])
        /\ first[n] \in Seq(S) /\ x \in S
    BY <1>6, <1>7, <2>1
  <2> HIDE DEF x
  <2>4. Held(Append(first[n], x)) = Held(first[n]) \cup {x}
    <3> DEFINE t == first[n]
    <3> HIDE DEF t
    <3>1. /\ Len(Append(t, x)) = Len(t) + 1 /\ Append(t, x)[Len(t) + 1] = x /\ Len(t) \in Nat
          /\ \A i \in 1 .. Len(t) : Append(t, x)[i] = t[i]
      BY <2>3, AppendProperties DEF t
    <3>2. \A i \in 1 .. (Len(t) + 1) : i \in 1 .. Len(t) \/ i = Len(t) + 1
      BY <3>1
    <3>3. Len(t) + 1 \in 1 .. (Len(t) + 1) /\ \A i \in 1 .. Len(t) : i \in 1 .. (Len(t) + 1)
      BY <3>1
    <3>4. Held(Append(t, x)) = Held(t) \cup {x}
      BY <3>1, <3>2, <3>3 DEF Held
    <3> QED BY <3>4 DEF t
  <2>5. Held(first[n + 1]) = {ops[i] : i \in 1 .. (n + 1)} \cap these
    BY <1>10, <2>1, <2>2, <2>3, <2>4
  <2>6. Len(first[n + 1]) <= n + 1
    <3> DEFINE t == first[n]
    <3>1. Len(t) <= n /\ t \in Seq(S)
      BY <1>10, <2>3
    <3>2. first[n + 1] = Append(t, x) \/ first[n + 1] = t
      BY <2>3
    <3> HIDE DEF t
    <3>3. Len(t) \in Nat /\ Len(Append(t, x)) = Len(t) + 1
      BY <2>3, <3>1, AppendProperties
    <3> QED BY <2>1, <3>1, <3>2, <3>3
  <2> QED BY <2>1, <2>5, <2>6
<1>11. \A n \in 0 .. Len(ops) : n \in Right
  <2> HIDE DEF Right
  <2> QED BY <1>1, <1>9, <1>10, Induction
<1>12. Held(first[Len(ops)]) = Held(ops) \cap these /\ Len(first[Len(ops)]) <= Len(ops)
  <2>1. Len(ops) \in Right
    <3> HIDE DEF Right
    <3> QED BY <1>1, <1>11
  <2>2. {ops[i] : i \in 1 .. Len(ops)} = Held(ops)
    BY DEF Held
  <2> QED BY <2>1, <2>2
<1> QED BY <1>1, <1>7, <1>8, <1>12

\* What a cursor tells rests on the operations counted, tracked or not.
LEMMA KnownTold ==
  ASSUME NEW c, NEW D, NEW B, NEW st, NEW F, NEW G, Known(c, F) = Known(c, G),
         Truthful(c, D, B, st, F)
  PROVE  Truthful(c, D, B, st, G)
BY DEF Truthful, Whole, NoneLost, Buffered

\* Operations that were completed need not be counted any more.
LEMMA SettledTold ==
  ASSUME NEW c, NEW d, c.upto = d.upto, c.bank = d.bank, c.pending = d.pending,
         NEW D, NEW B, NEW st, NEW F, NEW G, Truthful(c, D, B, st, F), d.ops \in Seq(Range(d.ops)),
         Known(d, G) \subseteq Known(c, F),
         \A op \in Known(c, F) \ Known(d, G) :
           op \in DOMAIN st /\ st[op] \notin {"failed", "running"},
         BoxTold(B[c.bank], st)
  PROVE  Truthful(d, D, B, st, G)
<1>1. NoneLost(d, st, G) => NoneLost(c, st, F)
  BY DEF NoneLost
<1>2. Followed(B[c.bank], Known(c, F) \cup Held(c.pending)) =>
        Followed(B[c.bank], Known(d, G) \cup Held(d.pending))
  BY DEF Followed, BoxTold
<1>3. Whole(d, D[d.bank], B[d.bank], st, G)
  BY <1>1, <1>2 DEF Truthful, Whole
<1>4. Buffered(d, DOMAIN st, G)
  BY DEF Truthful, Buffered
<1> QED BY <1>3, <1>4 DEF Truthful

LEMMA SettleTells ==
  ASSUME WriteBackInv, TruthInv, OneAtATime, NEW h \in Hooks, WriteBack!SettleOps(h)
  PROVE  TruthInv'
<1> DEFINE w == work[h]
           v == work'[h]
           c == w.cursor
           G == forgotten'
<1>1. UNCHANGED <<transcript, made, document, inbox, status>>
      /\ stored' = stored /\ pc' = [pc EXCEPT ![h] = "plan"] /\ pc[h] = "settle"
  BY Unchanged DEF WriteBack!SettleOps, WriteBack!sessionVars, WriteBack!serverVars,
                   WriteBack!Goto, WriteBack!At
<1>2. /\ c # NoCursor /\ CursorOK(c, Accepted) /\ DOMAIN w = {"turns", "bank", "cursor", "append", "ops", "queue", "attempts"}
      /\ WorkTold(w, "settle", stored, document, inbox, status, forgotten)
      /\ Version(w.turns)
  BY <1>1 DEF TruthInv, VersionsOK, WriteBackInv, WorkOK, ReadingOK, Early
<1>3. /\ stored \in {NoCursor, c} /\ ~c.dirty
      /\ Truthful(c, document, inbox, status, forgotten) /\ Newest(w, DOMAIN status)
  BY <1>2 DEF WorkTold, StoredTold
<1>4. c.ops \in Seq(Range(c.ops)) /\ WriteBack!ToSet(c.ops) = Held(c.ops)
  <2>1. c.ops \in Seq(Range(c.ops))
    BY <1>3 DEF Truthful, Buffered
  <2>2. DOMAIN c.ops = 1 .. Len(c.ops)
    BY <2>1, LenProperties
  <2> QED BY <2>1, <2>2 DEF WriteBack!ToSet, Held
<1> DEFINE Lost(unread) == \E op \in Held(c.ops) \ unread : WriteBack!StatusOf(op) = "failed"
           Unsettled(unread) == unread \cup {op \in Held(c.ops) : WriteBack!StatusOf(op) = "running"}
           Unknown(unread) == {op \in Held(c.ops) : op \notin unread
                                                    /\ WriteBack!StatusOf(op) = "not_found"}
<1>5. PICK unread \in SUBSET Held(c.ops) :
        /\ work' = [work EXCEPT ![h] =
             [w EXCEPT !.cursor = [c EXCEPT !.dirty = Lost(unread)],
                       !.ops = IF Lost(unread) THEN <<>>
                               ELSE WriteBack!Among(c.ops, Unsettled(unread))]]
        /\ G = forgotten \cup IF Lost(unread) THEN {} ELSE Unknown(unread)
  BY <1>4 DEF WriteBack!SettleOps, WriteBack!Set
<1> DEFINE lost == Lost(unread)
           unsettled == Unsettled(unread)
<1>6. /\ v.turns = w.turns /\ v.cursor = [c EXCEPT !.dirty = lost]
      /\ ~lost => v.ops = WriteBack!Among(c.ops, unsettled)
      /\ G \subseteq forgotten \cup Held(c.ops) /\ forgotten \subseteq G
      /\ pc'[h] = "plan" /\ ~lost => G = forgotten \cup Unknown(unread)
  BY <1>1, <1>2, <1>5 DEF WriteBackInv
<1> DEFINE e == v.cursor
<1>7. e.upto = c.upto /\ e.bank = c.bank /\ e.pending = c.pending /\ e.dirty = lost
      /\ DOMAIN e = DOMAIN c /\ pc'[h] = "plan" /\ e.ops = c.ops
  BY <1>1, <1>2, <1>6 DEF CursorOK, WriteBackInv
<1>8. StoredTold(stored, document, inbox, status, G)
  <2> SUFFICES ASSUME stored = c PROVE Truthful(c, document, inbox, status, G)
    BY <1>3 DEF StoredTold
  <2>1. Known(c, G) = Known(c, forgotten)
    BY <1>6 DEF Known
  <2> QED BY <1>3, <2>1, KnownTold
<1>9. ASSUME ~lost
      PROVE  Truthful([e EXCEPT !.ops = v.ops], document, inbox, status, G)
  <2> DEFINE d == [e EXCEPT !.ops = v.ops]
  <2>1. CursorOK(e, Accepted)
    BY <1>2, <1>7 DEF CursorOK
  <2>2. d.upto = c.upto /\ d.bank = c.bank /\ d.pending = c.pending /\ d.ops = v.ops
    BY <1>7, <2>1, SettledOK
  <2>3. v.ops \in Seq(Range(c.ops)) /\ Held(v.ops) = Held(c.ops) \cap unsettled
    <3> DEFINE s == c.ops
               t == unsettled
    <3> HIDE DEF s, t
    <3>1. WriteBack!Among(s, t) \in Seq(Range(s)) /\ Held(WriteBack!Among(s, t)) = Held(s) \cap t
      BY <1>4, AmongIs DEF s
    <3> QED BY <1>6, <1>9, <3>1 DEF s, t
  <2>4. v.ops \in Seq(Range(v.ops))
    BY <2>3, SeqOfRange
  <2>5. G = forgotten \cup Unknown(unread)
    BY <1>6, <1>7, <1>9
  <2>6. Known(d, G) \subseteq Known(c, forgotten)
    BY <2>2, <2>3, <2>5 DEF Known
  <2>7. ASSUME NEW op \in Known(c, forgotten), op \notin Known(d, G)
        PROVE  op \in DOMAIN status /\ status[op] \notin {"failed", "running"}
    <3>1. op \in Held(c.ops) /\ op \notin unsettled /\ op \notin Unknown(unread)
      BY <2>2, <2>3, <2>5, <2>7 DEF Known
    <3>2. op \notin unread /\ WriteBack!StatusOf(op) \notin {"running", "not_found", "failed"}
      BY <1>9, <3>1
    <3> QED BY <3>2 DEF WriteBack!StatusOf
  <2>8. BoxTold(inbox[c.bank], status)
    BY <1>2 DEF TruthInv, CursorOK
  <2> HIDE DEF d, e, c, v, G
  <2>9. Truthful(d, document, inbox, status, G)
    BY <1>3, <2>2, <2>4, <2>6, <2>7, <2>8, SettledTold
  <2> QED BY <2>9 DEF d
<1>10. Newest(v, DOMAIN status)
  BY <1>2, <1>3, <1>6, <1>7 DEF Newest
<1>11. WorkTold(v, "plan", stored, document, inbox, status, G)
  <2> HIDE DEF v, G, lost
  <2> QED BY <1>7, <1>9, <1>10 DEF WorkTold, Late
<1>12. Version(v.turns)
  BY <1>2, <1>6
<1>13. stored # NoCursor => Version(stored.upto)
  BY DEF TruthInv, VersionsOK
<1> HIDE DEF lost, unsettled, e
<1> QED BY <1>1, <1>7, <1>8, <1>11, <1>12, <1>13, HookTells

LEMMA ReplaceTells ==
  ASSUME WriteBackInv, TruthInv, OneAtATime, CursorIsWritten, NEW h \in Hooks,
         WriteBack!ReplaceDocument(h)
  PROVE  TruthInv'
<1> DEFINE w == work[h]
           op == WriteBack!Operation(w.bank, FALSE, w.turns)
           v == [w EXCEPT !.queue = <<op>>, !.cursor = NoCursor, !.ops = <<>>]
           c == WriteBack!Position(w, TRUE, <<>>, <<>>)
<1>1. /\ UNCHANGED <<transcript, made, document, inbox, status>> /\ forgotten' = {}
      /\ pc' = [pc EXCEPT ![h] = "send"] /\ pc[h] = "plan" /\ work' = [work EXCEPT ![h] = v]
      /\ stored' = c
  BY Unchanged DEF WriteBack!ReplaceDocument, WriteBack!sessionVars, WriteBack!serverVars,
                 WriteBack!Goto, WriteBack!At, WriteBack!WriteCursor, CursorIsWritten, WriteBack!Set
<1>2. /\ DOMAIN w = {"turns", "bank", "cursor", "append", "ops", "queue", "attempts"}
      /\ WorkTold(w, "plan", stored, document, inbox, status, forgotten) /\ Version(w.turns)
  BY <1>1, WorkFields DEF TruthInv, VersionsOK
<1>3. /\ v.queue = <<op>> /\ v.turns = w.turns /\ v.bank = w.bank /\ v.cursor = NoCursor
      /\ pc'[h] = "send" /\ work'[h] = v
  BY <1>1, <1>2 DEF WriteBackInv
<1>4. c.upto = w.turns /\ c.dirty = TRUE
  BY DEF WriteBack!Position, WriteBack!Cursor
<1>5. Head(v.queue) = op /\ op.append = FALSE /\ op = WriteBack!Operation(v.bank, FALSE, v.turns)
  BY <1>3 DEF WriteBack!Operation
<1> HIDE DEF w, v, op, c
<1>6. Newest(v, DOMAIN status)
  BY <1>2, <1>3 DEF WorkTold, Newest
<1>7. WorkTold(v, "send", c, document, inbox, status, {})
  BY <1>3, <1>4, <1>5, <1>6 DEF WorkTold, Late
<1> QED BY <1>1, <1>2, <1>3, <1>4, <1>7, HookTells DEF StoredTold

\* The slice behind a prefix completes it.
LEMMA PrefixJoined ==
  ASSUME NEW s \in Seq(Nat), NEW p \in Seq(Nat), WriteBack!IsPrefix(p, s)
  PROVE  /\ p \o SubSeq(s, Len(p) + 1, Len(s)) = s
         /\ SubSeq(s, Len(p) + 1, Len(s)) \in Seq(Nat)
         /\ Len(s) = Len(p) => p = s
         /\ \A n \in Held(s) : n \in Held(p) \/ n \in Held(SubSeq(s, Len(p) + 1, Len(s)))
<1> DEFINE t == SubSeq(s, Len(p) + 1, Len(s))
           j == p \o t
<1>1. Len(p) \in Nat /\ Len(s) \in Nat /\ \A i \in 1 .. Len(s) : s[i] \in Nat
  BY LenProperties, ElementOfSeq
<1>2. Len(p) <= Len(s) /\ \A i \in 1 .. Len(p) : p[i] = s[i]
  <2>1. Len(p) <= Len(s) /\ SubSeq(p, 1, Len(p)) = SubSeq(s, 1, Len(p))
    BY DEF WriteBack!IsPrefix
  <2>2. \A i \in 1 .. Len(p) : p[i] \in Nat /\ s[i] \in Nat
    BY <1>1, <2>1, ElementOfSeq
  <2>3. \A i \in 1 .. Len(p) : SubSeq(p, 1, Len(p))[i] = p[i] /\ SubSeq(s, 1, Len(p))[i] = s[i]
    BY <1>1, <2>2, SubSeqProperties
  <2> QED BY <2>1, <2>3
<1>3. t \in Seq(Nat) /\ Len(t) = Len(s) - Len(p) /\ \A i \in 1 .. Len(t) : t[i] = s[Len(p) + i]
  <2>1. \A i \in (Len(p) + 1) .. Len(s) : s[i] \in Nat
    BY <1>1
  <2>2. t \in Seq(Nat)
        /\ Len(t) = (IF Len(p) + 1 <= Len(s) THEN Len(s) - (Len(p) + 1) + 1 ELSE 0)
        /\ \A i \in 1 .. Len(s) - (Len(p) + 1) + 1 : t[i] = s[(Len(p) + 1) + i - 1]
    BY <1>1, <2>1, SubSeqProperties
  <2> QED BY <1>1, <1>2, <2>2
<1> HIDE DEF t
<1>4. /\ j \in Seq(Nat) /\ Len(j) = Len(p) + Len(t)
      /\ \A i \in 1 .. Len(p) + Len(t) : j[i] = IF i <= Len(p) THEN p[i] ELSE t[i - Len(p)]
  BY <1>3, ConcatProperties
<1> HIDE DEF j
<1>5. \A i \in 1 .. Len(s) : i <= Len(p) \/ i - Len(p) \in 1 .. Len(t)
  BY <1>1, <1>3
<1>6. \A i \in 1 .. Len(s) : j[i] = s[i]
  <2> TAKE i \in 1 .. Len(s)
  <2>1. i \in 1 .. Len(p) + Len(t)
    BY <1>1, <1>3
  <2>2. CASE i <= Len(p)
    <3>1. i \in 1 .. Len(p)
      BY <1>1, <2>2
    <3> QED BY <1>2, <1>4, <2>1, <2>2, <3>1
  <2>3. CASE ~(i <= Len(p))
    <3>1. i - Len(p) \in 1 .. Len(t) /\ Len(p) + (i - Len(p)) = i
      BY <1>1, <1>5, <2>3
    <3> QED BY <1>3, <1>4, <2>1, <2>3, <3>1
  <2> QED BY <2>2, <2>3
<1>7. j = s
  <2>1. Len(j) = Len(s)
    BY <1>1, <1>3, <1>4
  <2> QED BY <1>4, <1>6, <2>1, SeqEqual
<1>8. ASSUME Len(s) = Len(p) PROVE p = s
  <2>1. \A i \in 1 .. Len(p) : p[i] = s[i]
    BY <1>2
  <2> QED BY <1>8, <2>1, SeqEqual
<1>9. ASSUME NEW n \in Held(s) PROVE n \in Held(p) \/ n \in Held(t)
  <2>1. PICK i \in 1 .. Len(s) : s[i] = n
    BY DEF Held
  <2>2. CASE i <= Len(p)
    <3>1. i \in 1 .. Len(p) /\ p[i] = n
      BY <1>1, <1>2, <2>1, <2>2
    <3> QED BY <3>1 DEF Held
  <2>3. CASE ~(i <= Len(p))
    <3>1. i - Len(p) \in 1 .. Len(t) /\ Len(p) + (i - Len(p)) = i
      BY <1>1, <1>5, <2>3
    <3>2. t[i - Len(p)] = n
      BY <1>3, <2>1, <3>1
    <3> QED BY <3>1, <3>2 DEF Held
  <2> QED BY <2>2, <2>3
<1> QED BY <1>3, <1>7, <1>8, <1>9 DEF t, j

\* A sequence of operations and one more.
Extended(q, x, t) ==
  /\ t \in Seq(Range(q) \cup {x}) /\ t = q \o <<x>>
  /\ Len(t) = Len(q) + 1 /\ t[Len(q) + 1] = x /\ Len(q) \in Nat
  /\ \A i \in 1 .. Len(q) : t[i] = q[i] /\ i \in 1 .. Len(t)
  /\ Len(q) + 1 \in 1 .. Len(t)
  /\ \A i \in 1 .. Len(t) : i \in 1 .. Len(q) \/ i = Len(q) + 1
  /\ Held(t) = Held(q) \cup {x}

LEMMA OneMore ==
  ASSUME NEW q, NEW S, q \in Seq(S), NEW x
  PROVE  Extended(q, x, Append(q, x))
<1> DEFINE t == Append(q, x)
           R == Range(q) \cup {x}
<1>1. q \in Seq(R)
  BY SeqOfRange, SeqMonotonic
<1>2. /\ t \in Seq(R) /\ Len(t) = Len(q) + 1 /\ t[Len(q) + 1] = x /\ Len(q) \in Nat
      /\ \A i \in 1 .. Len(q) : t[i] = q[i]
  BY <1>1, AppendProperties
<1>3. t = q \o <<x>>
  BY <1>1, AppendIsConcat
<1> HIDE DEF t
<1>4. /\ Len(q) + 1 \in 1 .. Len(t) /\ \A i \in 1 .. Len(q) : i \in 1 .. Len(t)
      /\ \A i \in 1 .. Len(t) : i \in 1 .. Len(q) \/ i = Len(q) + 1
  BY <1>2
<1>5. Held(t) = Held(q) \cup {x}
  BY <1>2, <1>4 DEF Held
<1>6. Extended(q, x, t)
  BY <1>2, <1>3, <1>4, <1>5 DEF Extended
<1> QED BY <1>6 DEF t

\* A cursor that tells the truth still does with the turns behind it, buffered.
LEMMA SliceTold ==
  ASSUME NEW d, NEW st, CursorOK(d, DOMAIN st), AcceptedOK(DOMAIN st),
         NEW D, NEW B, NEW F, Truthful(d, D, B, st, F),
         BankOK(d.bank, D[d.bank], B[d.bank], DOMAIN st),
         NEW turns, TurnsOK(turns), WriteBack!IsPrefix(d.upto, turns),
         Within(d.bank, turns, d.upto, DOMAIN st),
         NEW n \in Held(turns), n \notin Held(d.upto),
         \A op \in DOMAIN st : \A m \in Said(op) : m <= n,
         NEW op, op.append = TRUE, op.bank = d.bank,
         op.content = SubSeq(turns, Len(d.upto) + 1, Len(turns)),
         NEW e, e.upto = turns, e.bank = d.bank, e.ops = d.ops, e.pending = Append(d.pending, op)
  PROVE  Truthful(e, D, B, st, F)
<1> DEFINE A == DOMAIN st
           q == d.pending
           t == Append(q, op)
           slice == SubSeq(turns, Len(d.upto) + 1, Len(turns))
           S == Range(q) \cup {op}
           doc == D[d.bank]
           box == B[d.bank]
           E == WriteBack!After(doc, box, {})
<1>1. TurnsOK(d.upto) /\ QueueOK(q, d.bank, d.upto, A)
  BY DEF CursorOK
<1>2. /\ d.upto \o slice = turns /\ slice \in Seq(Nat) /\ n \in Held(slice)
      /\ Held(d.upto) \subseteq Held(turns)
  <2>1. turns \in Seq(Nat) /\ d.upto \in Seq(Nat)
    BY <1>1 DEF TurnsOK
  <2>2. Held(d.upto) \subseteq Held(turns)
    BY <1>1, Slice
  <2> QED BY <2>1, <2>2, PrefixJoined
<1>3. op.append = TRUE /\ op.bank = d.bank /\ op.content = slice /\ n \in Said(op)
  BY <1>2 DEF Said
<1> HIDE DEF slice
<1>4. \A o \in A : o.bank = d.bank => n \notin Said(o)
  BY DEF Within
<1>5. op \notin A
  BY <1>3, <1>4
<1>6. Above(n, d.bank, A)
  <2>1. ASSUME NEW o \in A, o.bank = d.bank, NEW m \in Said(o) PROVE m < n
    <3>1. m <= n /\ m # n
      BY <1>4, <2>1
    <3>2. m \in Nat /\ n \in Nat
      <4>1. \A s : TurnsOK(s) => Held(s) \subseteq Nat
        BY ElementOfSeq DEF TurnsOK, Held
      <4>2. TurnsOK(o.content)
        BY <2>1 DEF AcceptedOK, OpOK
      <4> QED BY <2>1, <4>1, <4>2 DEF Said
    <3> QED BY <3>1, <3>2
  <2> QED BY <2>1 DEF Above
<1>7. Buffered(d, A, F) /\ Whole(d, doc, box, st, F)
  BY DEF Truthful
<1>8. op \notin Known(d, F) /\ op \notin Held(q)
  <2>1. \A o \in Known(d, F) : n \notin Said(o)
    BY <1>7 DEF Buffered
  <2>2. \A i \in 1 .. Len(q) : n \notin Said(q[i])
    BY <1>1 DEF QueueOK
  <2> QED BY <1>3, <2>1, <2>2 DEF Held
<1>9. /\ Legible(Range(q)) /\ q \in Seq(Range(q)) /\ Range(q) = Held(q)
      /\ \A i \in 1 .. Len(q) : q[i] \in Held(q)
  BY <1>1, QueueIsLegible
<1>10. /\ t \in Seq(S) /\ Len(t) = Len(q) + 1 /\ t[Len(q) + 1] = op /\ Len(q) \in Nat
       /\ \A i \in 1 .. Len(q) : t[i] = q[i]
       /\ \A i \in 1 .. Len(t) : i \in 1 .. Len(q) \/ i = Len(q) + 1
       /\ Held(t) = Held(q) \cup {op}
  <2> HIDE DEF q
  <2>1. Extended(q, op, t)
    BY <1>9, OneMore
  <2> HIDE DEF t
  <2> QED BY <2>1 DEF Extended
<1>11. e.pending = t /\ Known(e, F) = Known(d, F)
  BY DEF Known
<1> HIDE DEF t, A
<1>12. Buffered(e, A, F)
  <2>1. \A o \in Known(e, F) : Said(o) \subseteq Held(turns)
    BY <1>2, <1>7, <1>11 DEF Buffered
  <2>2. Held(t) \cap Known(e, F) = {}
    BY <1>7, <1>8, <1>10, <1>11 DEF Buffered
  <2>3. ASSUME NEW i \in 1 .. Len(t), NEW j \in 1 .. Len(t), t[i] = t[j] PROVE i = j
    <3>1. CASE i \in 1 .. Len(q) /\ j \in 1 .. Len(q)
      BY <1>7, <1>10, <2>3, <3>1 DEF Buffered
    <3>2. CASE i \in 1 .. Len(q) /\ j = Len(q) + 1
      BY <1>8, <1>9, <1>10, <2>3, <3>2
    <3>3. CASE j \in 1 .. Len(q) /\ i = Len(q) + 1
      BY <1>8, <1>9, <1>10, <2>3, <3>3
    <3> QED BY <1>10, <3>1, <3>2, <3>3
  <2>4. \A o \in Held(t) \ A : \E m \in Said(o) : Above(m, e.bank, A)
    BY <1>3, <1>6, <1>7, <1>10 DEF Buffered
  <2> QED BY <1>7, <1>11, <2>1, <2>2, <2>3, <2>4 DEF Buffered
<1>13. ASSUME NoneLost(e, st, F)
       PROVE  WriteBack!After(E, t, A) = turns
              /\ Followed(box, Known(e, F) \cup Held(t))
  <2>1. NoneLost(d, st, F)
    BY <1>10, <1>11, <1>13 DEF NoneLost
  <2>2. WriteBack!After(E, q, A) = d.upto /\ Followed(box, Known(d, F) \cup Held(q))
    BY <1>7, <2>1 DEF Whole, A
  <2>3. E \in Seq(Nat)
    <3> DEFINE R == {o \in A : o.bank = d.bank}
               none == {}
    <3>1. Legible(R) /\ box \in Seq(R) /\ doc \in Seq(Nat)
      BY BoxIsLegible DEF A
    <3> HIDE DEF R, none, box, doc
    <3>2. WriteBack!After(doc, box, none) \in Seq(Nat)
      BY <3>1, AfterIsADocument
    <3> QED BY <3>2 DEF none
  <2>4. WriteBack!After(E, t, A) = WriteBack!Perform(op, WriteBack!After(E, q, A))
    <3>1. Legible(S) /\ q \in Seq(S) /\ op \in S
      <4>1. q \in Seq(S)
        BY <1>9, SeqMonotonic
      <4>2. op.content \in Seq(Nat)
        BY <1>2, <1>3
      <4>3. \A o \in Range(q) : o.content \in Seq(Nat)
        BY <1>9 DEF Legible
      <4> HIDE DEF q
      <4>4. Legible(S)
        BY <4>2, <4>3, Zenon DEF Legible
      <4> QED BY <4>1, <4>4
    <3> HIDE DEF S, E
    <3> QED BY <1>5, <2>3, <3>1, AfterOneMore DEF t
  <2>5. WriteBack!Perform(op, d.upto) = turns
    BY <1>2, <1>3 DEF WriteBack!Perform
  <2>6. Followed(box, Known(e, F) \cup Held(t))
    BY <1>10, <1>11, <2>2 DEF Followed
  <2> QED BY <2>2, <2>4, <2>5, <2>6
<1> QED BY <1>11, <1>12, <1>13 DEF Truthful, Whole, A

LEMMA AppendTells ==
  ASSUME WriteBackInv, TruthInv, OneAtATime, CursorIsWritten, NEW h \in Hooks,
         WriteBack!AppendTurns(h)
  PROVE  TruthInv'
<1> DEFINE w == work[h]
           q == WriteBack!AppendQueue(w)
           v == [w EXCEPT !.queue = q, !.cursor = NoCursor]
           k == WriteBack!Position(w, FALSE, q, w.ops)
           c == w.cursor
           d == [c EXCEPT !.ops = w.ops]
           op == WriteBack!Operation(w.bank, TRUE, SubSeq(w.turns, Len(c.upto) + 1, Len(w.turns)))
<1>1. /\ UNCHANGED <<transcript, made, document, inbox, status>> /\ forgotten' = forgotten
      /\ pc' = [pc EXCEPT ![h] = "send"] /\ pc[h] = "plan" /\ work' = [work EXCEPT ![h] = v]
      /\ stored' = k /\ WriteBack!Trusted(w, FALSE) /\ q # <<>>
  BY Unchanged DEF WriteBack!AppendTurns, WriteBack!sessionVars, WriteBack!serverVars,
                 WriteBack!Goto, WriteBack!At, WriteBack!WriteCursor, CursorIsWritten, WriteBack!Set
<1>2. /\ DOMAIN w = {"turns", "bank", "cursor", "append", "ops", "queue", "attempts"}
      /\ WorkOK(w, "plan", stored, transcript, Accepted) /\ AcceptedOK(Accepted)
      /\ WorkTold(w, "plan", stored, document, inbox, status, forgotten) /\ Version(w.turns)
  BY <1>1, WorkFields DEF TruthInv, VersionsOK, WriteBackInv
<1>3. /\ w.append /\ c # NoCursor /\ ~c.dirty /\ c.bank = w.bank
      /\ WriteBack!IsPrefix(c.upto, w.turns)
  BY <1>1 DEF WriteBack!Trusted, WriteBack!Continues
<1>4. /\ TurnsOK(w.turns) /\ w.bank \in Banks /\ CursorOK(c, Accepted)
      /\ Within(w.bank, w.turns, c.upto, Accepted)
  BY <1>2, <1>3 DEF WorkOK, ReadingOK, Early
<1>5. CursorOK(d, Accepted) /\ d.ops = w.ops /\ d.upto = c.upto /\ d.bank = w.bank
      /\ d.pending = c.pending
  BY <1>3, <1>4, SettledOK
<1>6. Truthful(d, document, inbox, status, forgotten) /\ Newest(w, DOMAIN status)
  BY <1>2, <1>3 DEF WorkTold
<1>7. /\ v.queue = q /\ v.turns = w.turns /\ v.bank = w.bank /\ v.cursor = NoCursor
      /\ v.ops = w.ops /\ v.append = w.append /\ pc'[h] = "send" /\ work'[h] = v
  BY <1>1, <1>2 DEF WriteBackInv
<1>8. /\ k.upto = w.turns /\ k.bank = w.bank /\ k.pending = q /\ k.ops = w.ops /\ k = Claim(v)
  BY <1>7 DEF WriteBack!Position, WriteBack!Cursor, Claim
<1>9. q = IF Len(w.turns) = Len(c.upto) THEN c.pending \o <<>> ELSE c.pending \o <<op>>
  BY DEF WriteBack!AppendQueue
<1>10. c.pending \in Seq(Range(c.pending))
  BY <1>4 DEF CursorOK, QueueOK
<1>11. AllAppend(q)
  BY <1>1, <1>2, AppendsOK DEF WorkOK, Early
<1> HIDE DEF w, q, v, k, d, op, c
<1>12. Truthful(k, document, inbox, status, forgotten)
  <2>1. CASE Len(w.turns) = Len(c.upto)
    <3>1. q = c.pending
      BY <1>9, <1>10, <2>1, ConcatEmptySeq
    <3>2. c.upto = w.turns
      BY <1>3, <1>4, <2>1, PrefixJoined DEF TurnsOK, CursorOK
    <3> QED BY <1>5, <1>6, <1>8, <3>1, <3>2, SameTold
  <2>2. CASE Len(w.turns) # Len(c.upto)
    <3>1. q = Append(c.pending, op)
      BY <1>9, <1>10, <2>2, AppendIsConcat
    <3>2. PICK n \in Held(w.turns) :
            /\ \A o \in DOMAIN status : \A m \in Said(o) : m <= n
            /\ n \in Held(c.upto) => c.upto = w.turns
      BY <1>3, <1>6 DEF Newest, c
    <3>3. n \notin Held(c.upto)
      BY <2>2, <3>2
    <3>4. BankOK(d.bank, document[d.bank], inbox[d.bank], DOMAIN status)
      BY <1>4, <1>5 DEF WriteBackInv, Accepted
    <3>5. /\ op.append = TRUE /\ op.bank = d.bank
          /\ op.content = SubSeq(w.turns, Len(d.upto) + 1, Len(w.turns))
      BY <1>5 DEF op, WriteBack!Operation
    <3>6. /\ CursorOK(d, DOMAIN status) /\ AcceptedOK(DOMAIN status)
          /\ Within(d.bank, w.turns, d.upto, DOMAIN status)
          /\ WriteBack!IsPrefix(d.upto, w.turns)
      BY <1>2, <1>3, <1>4, <1>5 DEF Accepted
    <3>7. k.upto = w.turns /\ k.bank = d.bank /\ k.ops = d.ops /\ k.pending = Append(d.pending, op)
      BY <1>5, <1>8, <3>1
    <3> QED BY <1>4, <1>5, <1>6, <3>2, <3>3, <3>4, <3>5, <3>6, <3>7, SliceTold
  <2> QED BY <2>1, <2>2
<1>13. Newest(v, DOMAIN status)
  BY <1>6, <1>7 DEF Newest
<1>14. Head(v.queue).append
  <2>1. QueueOK(q, w.bank, w.turns, Accepted)
    BY <1>1, <1>2, AppendsOK DEF WorkOK, Early, q
  <2> QED BY <1>1, <1>7, <1>11, <2>1, FirstOf DEF AllAppend
<1>15. WorkTold(v, "send", k, document, inbox, status, forgotten)
  BY <1>8, <1>12, <1>13, <1>14 DEF WorkTold, Late
<1> QED BY <1>1, <1>2, <1>7, <1>8, <1>12, <1>15, HookTells DEF StoredTold

\* The server accepts the first of the buffered appends.
LEMMA DeliverTruth ==
  ASSUME NEW k, NEW st, CursorOK(k, DOMAIN st), AcceptedOK(DOMAIN st),
         NEW D, NEW B, NEW F, BankOK(k.bank, D[k.bank], B[k.bank], DOMAIN st),
         Truthful(k, D, B, st, F), k.pending # <<>>,
         NEW op, op = Head(k.pending), op \notin DOMAIN st,
         NEW C, C[k.bank] = Append(B[k.bank], op),
         NEW s, DOMAIN s = DOMAIN st \cup {op}, \A o \in DOMAIN st : s[o] = st[o]
  PROVE  Truthful(k, D, C, s, F)
<1> DEFINE A == DOMAIN st
           N == A \cup {op}
           b == k.bank
           q == k.pending
           doc == D[b]
           box == B[b]
           new == Append(box, op)
           S == {o \in N : o.bank = b}
           none == {}
           P == Range(q)
<1>1. /\ Legible(P) /\ q \in Seq(P) /\ P = Held(q) /\ \A i \in 1 .. Len(q) : q[i] \in Held(q)
  BY QueueIsLegible DEF CursorOK
<1>2. /\ Tail(q) \in Seq(P) /\ op = q[1] /\ 1 \in 1 .. Len(q)
      /\ \A j \in 1 .. Len(Tail(q)) : j + 1 \in 1 .. Len(q) /\ Tail(q)[j] = q[j + 1]
  BY <1>1, TailOfBox
<1>3. op \in Held(q) /\ OpOK(op) /\ op.append = TRUE /\ op.bank = b /\ op.content \in Seq(Nat)
  BY <1>1, <1>2 DEF CursorOK, QueueOK, AllAppend, OpOK, TurnsOK
<1>4. Buffered(k, A, F) /\ Whole(k, doc, box, st, F)
  BY DEF Truthful
<1>5. op \notin Known(k, F) /\ \A j \in 1 .. Len(Tail(q)) : Tail(q)[j] # op
  <2>1. op \notin Known(k, F)
    BY <1>3, <1>4 DEF Buffered
  <2>2. ASSUME NEW j \in 1 .. Len(Tail(q)), Tail(q)[j] = op PROVE FALSE
    <3>1. j + 1 \in 1 .. Len(q) /\ q[j + 1] = q[1]
      BY <1>2, <2>2
    <3>2. j + 1 = 1
      BY <1>2, <1>4, <3>1 DEF Buffered
    <3> QED BY <3>2
  <2> QED BY <2>1, <2>2
<1>6. Buffered(k, N, F)
  <2>1. ASSUME NEW o \in Held(q) \ N PROVE \E n \in Said(o) : Above(n, b, N)
    <3>1. PICK n \in Said(o) : Above(n, b, A)
      BY <1>4, <2>1 DEF Buffered
    <3>2. Above(n, b, N)
      BY <1>3, <3>1 DEF Above
    <3> QED BY <3>2
  <2> QED BY <1>4, <2>1 DEF Buffered
<1>7. ASSUME NoneLost(k, s, F) PROVE NoneLost(k, st, F)
  BY <1>5, <1>7 DEF NoneLost
<1>8. Legible(S) /\ box \in Seq(S) /\ op \in S /\ doc \in Seq(Nat)
  <2> DEFINE R == {o \in A : o.bank = b}
  <2>1. Legible(R) /\ box \in Seq(R) /\ doc \in Seq(Nat)
    BY BoxIsLegible
  <2>2. R \subseteq S /\ op \in S /\ \A o \in S : o \in R \/ o = op
    BY <1>3
  <2> HIDE DEF R, S
  <2>3. box \in Seq(S)
    BY <2>1, <2>2, SeqMonotonic
  <2>4. Legible(S)
    BY <1>3, <2>1, <2>2 DEF Legible
  <2> QED BY <2>1, <2>2, <2>3, <2>4
<1>9. Extended(box, op, new)
  BY <1>8, OneMore
<1> DEFINE E == WriteBack!After(doc, box, none)
           G == WriteBack!After(doc, new, none)
<1> HIDE DEF S, P, new
<1>10. op \notin none
  OBVIOUS
<1> HIDE DEF none
<1>11. G = WriteBack!Perform(op, E) /\ E \in Seq(Nat)
  <2>1. E \in Seq(Nat)
    BY <1>8, AfterIsADocument
  <2>2. G = IF op \in none THEN E ELSE WriteBack!Perform(op, E)
    BY <1>8, AfterOneMore DEF new
  <2> QED BY <1>10, <2>1, <2>2
<1> HIDE DEF E, G
<1>12. WriteBack!After(E, q, A) = WriteBack!After(G, Tail(q), A) /\ G \in Seq(Nat)
  <2> HIDE DEF q, A
  <2>1. LET next == IF Head(q) \in A THEN E ELSE WriteBack!Perform(Head(q), E)
        IN  next \in Seq(Nat) /\ WriteBack!After(E, q, A) = WriteBack!After(next, Tail(q), A)
    BY <1>1, <1>11, AfterTheFirst DEF q
  <2> QED BY <1>11, <2>1 DEF q, A
<1>13. WriteBack!After(G, q, N) = WriteBack!After(G, Tail(q), N)
  <2>1. op \in N /\ op = Head(q) /\ q # <<>>
    OBVIOUS
  <2> HIDE DEF q, N
  <2>2. LET next == IF Head(q) \in N THEN G ELSE WriteBack!Perform(Head(q), G)
        IN  next \in Seq(Nat) /\ WriteBack!After(G, q, N) = WriteBack!After(next, Tail(q), N)
    BY <1>1, <1>12, <2>1, AfterTheFirst
  <2> QED BY <2>1, <2>2
<1>14. WriteBack!After(G, Tail(q), N) = WriteBack!After(G, Tail(q), A)
  <2> DEFINE t == Tail(q)
  <2>1. t \in Seq(P) /\ \A i \in 1 .. Len(t) : t[i] \in N <=> t[i] \in A
    BY <1>2, <1>5
  <2> HIDE DEF t, N, A
  <2>2. WriteBack!After(G, t, N) = WriteBack!After(G, t, A)
    BY <1>1, <1>12, <2>1, AfterOthersDone
  <2> QED BY <2>2 DEF t
<1>15. ASSUME NoneLost(k, s, F)
       PROVE  WriteBack!After(G, q, N) = k.upto /\ Followed(new, Known(k, F) \cup Held(q))
  <2>1. WriteBack!After(E, q, A) = k.upto /\ Followed(box, Known(k, F) \cup Held(q))
    BY <1>4, <1>7, <1>15 DEF Whole, E, none
  <2>2. Followed(new, Known(k, F) \cup Held(q))
    <3> DEFINE these == Known(k, F) \cup Held(q)
    <3>1. op \in these /\ Followed(box, these)
      BY <1>3, <2>1
    <3> HIDE DEF these, box, q
    <3>2. ASSUME NEW i \in 1 .. Len(new), new[i] \notin these
          PROVE  \E j \in (i + 1) .. Len(new) : ~new[j].append
      <4>1. i \in 1 .. Len(box) /\ new[i] = box[i]
        BY <1>9, <3>1, <3>2 DEF Extended
      <4>2. PICK j \in (i + 1) .. Len(box) : ~box[j].append
        BY <3>1, <3>2, <4>1 DEF Followed
      <4>3. j \in 1 .. Len(box) /\ j \in (i + 1) .. Len(new)
        BY <1>9, <4>1, <4>2 DEF Extended
      <4>4. new[j] = box[j]
        BY <1>9, <4>3 DEF Extended
      <4> QED BY <4>2, <4>3, <4>4
    <3> QED BY <3>2 DEF Followed, these, q
  <2> QED BY <1>12, <1>13, <1>14, <2>1, <2>2
<1>16. Whole(k, doc, new, s, F)
  BY <1>15 DEF Whole, G, none, N
<1> QED BY <1>6, <1>16 DEF Truthful, new

LEMMA DeliverTells ==
  ASSUME WriteBackInv, TruthInv, OneAtATime, NEW h \in Hooks, WriteBack!Deliver(h)
  PROVE  TruthInv'
<1> DEFINE w == work[h]
           b == w.bank
           op == Head(w.queue)
           A == DOMAIN status
           N == A \cup {op}
           C == inbox'
           s == status'
           k == Claim(w)
           v == work'[h]
<1>1. /\ UNCHANGED <<transcript, made, document, stored, forgotten>>
      /\ work' = [work EXCEPT ![h] = [w EXCEPT !.attempts = 0]]
      /\ pc' = [pc EXCEPT ![h] = "confirm"] /\ pc[h] = "send"
      /\ WriteBack!Accept(b, op)
  BY DEF WriteBack!Deliver, WriteBack!sessionVars, WriteBack!Goto, WriteBack!At, WriteBack!Set
<1>2. \A g \in Hooks : g = h
  BY DEF OneAtATime
<1>3. /\ WorkOK(w, "send", stored, transcript, A)
      /\ WorkTold(w, "send", stored, document, inbox, status, forgotten)
      /\ pc'[h] = "confirm" /\ Version(w.turns)
  BY <1>1 DEF TruthInv, VersionsOK, WriteBackInv, Accepted
<1>v. /\ v.turns = w.turns /\ v.bank = w.bank /\ v.queue = w.queue /\ v.ops = w.ops
      /\ v.append = w.append /\ v.cursor = w.cursor
  BY <1>1, <1>3 DEF WriteBackInv, WorkOK
<1>k. ASSUME NEW D, NEW B, NEW st, NEW F, WorkTold(w, "confirm", stored, D, B, st, F)
      PROVE  WorkTold(v, "confirm", stored, D, B, st, F)
  <2> HIDE DEF v, w
  <2>1. Newest(v, DOMAIN st)
    BY <1>k, <1>v DEF WorkTold, Newest
  <2>2. Claim(v) = Claim(w)
    BY <1>v DEF Claim, WriteBack!Position
  <2> QED BY <1>k, <1>v, <2>1, <2>2 DEF WorkTold, Late
<1>4. w.queue # <<>> /\ QueueOK(w.queue, b, w.turns, A) /\ b \in Banks
  BY <1>3 DEF WorkOK, SendingOK, Late
<1>5. /\ op = w.queue[1] /\ 1 \in 1 .. Len(w.queue)
      /\ OpOK(op) /\ op.bank = b /\ Said(op) \subseteq Held(w.turns)
  BY <1>4, FirstOf
<1>6. Newest(w, A)
  BY <1>3 DEF WorkTold
<1>7. op.append => Truthful(k, document, inbox, status, forgotten) /\ stored \in {NoCursor, k}
  BY <1>3 DEF WorkTold, Late
<1>8. ~op.append => /\ w.queue = <<WriteBack!Operation(b, FALSE, w.turns)>>
                    /\ forgotten = {} /\ (stored # NoCursor => stored.dirty)
  BY <1>3 DEF WorkTold, Late
<1>9. ~op.append => op.content = w.turns
  BY <1>5, <1>8 DEF WriteBack!Operation
<1>10. CASE op \in A
  <2>1. UNCHANGED <<inbox, status>>
    BY <1>1, <1>10 DEF WriteBack!Accept
  <2>2. WorkTold(w, "confirm", stored, document, inbox, status, forgotten)
    BY <1>6, <1>7, <1>8 DEF WorkTold, Late
  <2>3. StoredTold(stored, document, inbox, status, forgotten)
        /\ (stored # NoCursor => Version(stored.upto))
    BY DEF TruthInv, VersionsOK
  <2>4. WorkTold(v, "confirm", stored, document, inbox, status, forgotten)
    BY <1>k, <2>2
  <2>5. Version(v.turns)
    BY <1>3, <1>v
  <2> HIDE DEF w
  <2> QED BY <1>1, <1>3, <2>1, <2>3, <2>4, <2>5, HookTells DEF v
<1>11. CASE op \notin A
  <2>1. inbox' = [inbox EXCEPT ![b] = Append(@, op)] /\ DOMAIN s = N
        /\ s[op] = "running" /\ \A o \in A : s[o] = status[o]
    BY <1>1, <1>11 DEF WriteBack!Accept
  <2>2. /\ DOMAIN inbox = Banks /\ AcceptedOK(A)
        /\ \A d \in Banks : BankOK(d, document[d], inbox[d], A) /\ BoxTold(inbox[d], status)
    BY DEF WriteBackInv, TruthInv, Accepted
  <2>3. C[b] = Append(inbox[b], op) /\ \A d \in Banks \ {b} : C[d] = inbox[d]
    BY <1>4, <2>1, <2>2
  <2> HIDE DEF C, s
  <2>4. \A d \in Banks : \A i \in 1 .. Len(inbox[d]) : inbox[d][i] \in A
    <3> TAKE d \in Banks
    <3>1. inbox[d] \in Seq({o \in A : o.bank = d})
      BY <2>2 DEF BankOK
    <3> QED BY <3>1, ElementOfSeq
  <2> DEFINE box == inbox[b]
             new == C[b]
  <2>5. Extended(box, op, new)
    <3> DEFINE R == {o \in A : o.bank = b}
    <3>1. box \in Seq(R)
      BY <1>4, <2>2 DEF BankOK
    <3> HIDE DEF R, box, op
    <3>2. Extended(box, op, Append(box, op))
      BY <3>1, OneMore
    <3> QED BY <2>3, <3>2 DEF box
  <2>6. ASSUME NEW d \in Banks PROVE BoxTold(C[d], s)
    <3>1. BoxTold(inbox[d], status) /\ \A i \in 1 .. Len(inbox[d]) : inbox[d][i] \in A
      BY <2>2, <2>4
    <3>2. CASE d # b
      BY <2>1, <2>3, <3>1, <3>2 DEF BoxTold
    <3>3. CASE d = b
      <4> HIDE DEF b, op, A, N
      <4>1. \A i \in 1 .. Len(new) : s[new[i]] = "running"
        <5> TAKE i \in 1 .. Len(new)
        <5>1. CASE i \in 1 .. Len(box)
          BY <2>1, <2>5, <3>1, <3>3, <5>1 DEF BoxTold, Extended
        <5>2. CASE i = Len(box) + 1
          BY <2>1, <2>5, <5>2 DEF Extended
        <5> QED BY <2>5, <5>1, <5>2 DEF Extended
      <4>2. ASSUME NEW i \in 1 .. Len(new), NEW j \in 1 .. Len(new), new[i] = new[j]
            PROVE  i = j
        <5>1. CASE i \in 1 .. Len(box) /\ j \in 1 .. Len(box)
          BY <2>5, <3>1, <3>3, <4>2, <5>1 DEF BoxTold, Extended
        <5>2. CASE i \in 1 .. Len(box) /\ j = Len(box) + 1
          BY <1>11, <2>5, <3>1, <3>3, <4>2, <5>2 DEF Extended
        <5>3. CASE j \in 1 .. Len(box) /\ i = Len(box) + 1
          BY <1>11, <2>5, <3>1, <3>3, <4>2, <5>3 DEF Extended
        <5> QED BY <2>5, <5>1, <5>2, <5>3 DEF Extended
      <4> QED BY <3>3, <4>1, <4>2 DEF BoxTold
    <3> QED BY <3>2, <3>3
  <2>7. ASSUME NEW r \in A, ~r.append, r.bank = b PROVE Overtaken(r, N)
    <3>1. CASE op.append
      <4>1. k.pending = w.queue /\ k.bank = b
        BY <1>3, <3>1, ClaimedCursor DEF Late
      <4>2. Buffered(k, A, forgotten) /\ op \in Held(k.pending) \ A
        BY <1>5, <1>7, <1>11, <3>1, <4>1 DEF Truthful, Held
      <4>3. PICK n \in Said(op) : Above(n, b, A)
        BY <4>1, <4>2 DEF Buffered
      <4> QED BY <1>5, <2>7, <4>3 DEF Above, Overtaken
    <3>2. CASE ~op.append
      <4>1. PICK n \in Held(w.turns) : /\ \A m \in Said(r) : m <= n
                                       /\ n \in Said(r) => r.content = w.turns
        BY <1>6, <2>7 DEF Newest
      <4>2. n \notin Said(r)
        <5> SUFFICES ASSUME n \in Said(r) PROVE FALSE
          OBVIOUS
        <5>1. r.content = op.content /\ OpOK(r) /\ OpOK(op)
          BY <1>5, <1>9, <2>2, <2>7, <3>2, <4>1 DEF AcceptedOK
        <5>2. r.append = FALSE /\ op.append = FALSE /\ r.bank = op.bank
          BY <1>5, <2>7, <3>2, <5>1 DEF OpOK
        <5>3. r = op
          BY <5>1, <5>2 DEF OpOK
        <5> QED BY <1>11, <2>7, <5>3
      <4>3. TurnsOK(r.content) /\ TurnsOK(w.turns)
        BY <1>3, <2>2, <2>7 DEF AcceptedOK, OpOK, WorkOK, Late
      <4>4. \A m \in Said(r) : m \in Nat /\ n \in Nat
        BY <4>3, TurnsAreNumbers DEF Said
      <4>5. \A m \in Said(r) : m < n
        BY <4>1, <4>2, <4>4
      <4>6. n \in Said(op) /\ op \in N
        BY <1>9, <3>2 DEF Said
      <4> QED BY <1>5, <2>7, <4>5, <4>6 DEF Overtaken
    <3> QED BY <3>1, <3>2
  <2>8. LatestOK(document, C, s)
    <3> SUFFICES ASSUME NEW r \in DOMAIN s, ~r.append, s[r] # "failed", ~Overtaken(r, N)
                 PROVE  Current(r, document[r.bank], C[r.bank])
      BY <2>1 DEF LatestOK
    <3>1. CASE r = op
      <4>1. new # <<>> /\ new[Len(new)] = op
        <5>1. Len(new) = Len(box) + 1 /\ Len(box) \in Nat /\ new[Len(box) + 1] = op
          BY <2>5 DEF Extended
        <5> QED BY <5>1, EmptySeq
      <4> QED BY <1>5, <3>1, <4>1 DEF Current
    <3>2. CASE r # op
      <4>1. r \in A /\ r.bank \in Banks
        BY <2>1, <2>2, <3>2 DEF AcceptedOK
      <4>2. r.bank # b
        BY <2>7, <4>1
      <4>3. ~Overtaken(r, A)
        BY DEF Overtaken
      <4>4. Current(r, document[r.bank], inbox[r.bank])
        BY <2>1, <4>1, <4>3 DEF TruthInv, LatestOK
      <4> QED BY <2>3, <4>1, <4>2, <4>4
    <3> QED BY <3>1, <3>2
  <2>9. op.append => Truthful(k, document, C, s, forgotten)
    <3> SUFFICES ASSUME op.append PROVE Truthful(k, document, C, s, forgotten)
      OBVIOUS
    <3>1. CursorOK(k, A) /\ k.pending = w.queue /\ k.bank = b
      BY <1>3, ClaimedCursor DEF Late
    <3>2. C[k.bank] = Append(inbox[k.bank], op)
          /\ BankOK(k.bank, document[k.bank], inbox[k.bank], A)
      BY <1>4, <2>2, <2>3, <3>1
    <3>3. k.pending # <<>> /\ op = Head(k.pending) /\ DOMAIN s = DOMAIN status \cup {op}
      BY <1>4, <2>1, <3>1
    <3> HIDE DEF k, op
    <3> QED BY <1>7, <1>11, <2>1, <2>2, <3>1, <3>2, <3>3, DeliverTruth, ZenonT(60)
  <2>10. Newest(w, N)
    <3>1. PICK n \in Held(w.turns) :
            /\ \A m \in Held(w.turns) : m <= n
            /\ \A o \in A : \A m \in Said(o) : m <= n
            /\ \A o \in A : ~o.append /\ n \in Said(o) => o.content = w.turns
            /\ w.cursor # NoCursor /\ n \in Held(w.cursor.upto) => w.cursor.upto = w.turns
      BY <1>6 DEF Newest
    <3> QED BY <1>5, <1>9, <3>1 DEF Newest
  <2>11. WorkTold(w, "confirm", stored, document, C, s, forgotten)
    BY <1>7, <1>8, <2>1, <2>9, <2>10 DEF WorkTold, Late
  <2>12. StoredTold(stored, document, C, s, forgotten)
    BY <1>7, <1>8, <2>9 DEF StoredTold
  <2>13. VersionsOK'
    <3>1. Accepted' = N
      BY <2>1 DEF Accepted, s
    <3> HIDE DEF N
    <3>2. \A o \in N : ~o.append => Version(o.content)
      BY <1>3, <1>9 DEF TruthInv, VersionsOK, Accepted, N
    <3>3. Version(v.turns)
      BY <1>3, <1>v
    <3> HIDE DEF v, w
    <3> QED BY <1>1, <1>2, <1>3, <3>1, <3>2, <3>3 DEF TruthInv, VersionsOK, Version, v
  <2> HIDE DEF w
  <2>14. \A g \in Hooks : WorkTold(work[g], pc[g], stored, document, inbox, status, forgotten)'
    BY <1>1, <1>2, <1>3, <1>k, <2>11 DEF v, C, s
  <2> QED BY <1>1, <2>6, <2>8, <2>12, <2>13, <2>14 DEF TruthInv, C, s
<1> QED BY <1>10, <1>11

\* A replacement that is the last to be performed.
LEMMA AfterReplaced ==
  ASSUME NEW S, Legible(S), NEW s \in Seq(S), s # <<>>, NEW doc \in Seq(Nat),
         ~s[Len(s)].append
  PROVE  WriteBack!After(doc, s, {}) = s[Len(s)].content
<1> DEFINE none == {}
<1>1. Len(s) \in Nat /\ Len(s) # 0 /\ s[Len(s)] \notin none
  BY EmptySeq
<1> HIDE DEF none
<1>2. PICK f : Runs(doc, s, none, f) /\ WriteBack!After(doc, s, none) = f[Len(s)]
  BY AfterRuns
<1>3. f[Len(s)] = WriteBack!Perform(s[Len(s)], f[Len(s) - 1])
  <2>1. Len(s) \in 1 .. Len(s)
    BY <1>1
  <2> QED BY <1>1, <1>2, <2>1 DEF Runs
<1> QED BY <1>2, <1>3 DEF WriteBack!Perform, none

LEMMA OnlyOne ==
  ASSUME NEW x
  PROVE  /\ <<x>> \in Seq(Range(<<x>>)) /\ Held(<<x>>) = {x} /\ Head(<<x>>) = x
<1> DEFINE q == <<x>>
<1>1. q \in Seq({x}) /\ Len(q) = 1 /\ q[1] = x /\ Head(q) = x
  OBVIOUS
<1> HIDE DEF q
<1>2. q \in Seq(Range(q))
  BY <1>1, SeqOfRange
<1>3. Held(q) = {x}
  BY <1>1 DEF Held
<1> QED BY <1>1, <1>2, <1>3 DEF q

LEMMA ReplacedTold ==
  ASSUME NEW c, NEW op, NEW A, OpOK(op), ~op.append, c.upto = op.content, c.bank = op.bank,
         c.ops = <<op>>, c.pending = <<>>,
         NEW st, A = DOMAIN st, AcceptedOK(A), NEW D, NEW B,
         BankOK(c.bank, D[c.bank], B[c.bank], A), LatestOK(D, B, st),
         NEW n \in Said(op), \A p \in A : \A m \in Said(p) : m <= n
  PROVE  Truthful(c, D, B, st, {})
<1> DEFINE box == B[c.bank]
           doc == D[c.bank]
           S == {o \in A : o.bank = c.bank}
           F == {}
           ops == <<op>>
<1>1. Legible(S) /\ box \in Seq(S) /\ doc \in Seq(Nat)
  BY BoxIsLegible
<1>2. ops \in Seq(Range(ops)) /\ Held(ops) = {op}
  BY OnlyOne
<1>3. c.ops = ops
  OBVIOUS
<1> HIDE DEF ops
<1>4. Known(c, F) = {op} /\ Held(c.pending) = {} /\ Len(c.pending) = 0
  BY <1>2, <1>3, NothingHeld, EmptySeq DEF Known
<1>5. Buffered(c, A, F)
  BY <1>2, <1>3, <1>4 DEF Buffered, Said
<1>6. ASSUME NoneLost(c, st, F)
      PROVE  /\ WriteBack!After(WriteBack!After(doc, box, {}), c.pending, DOMAIN st) = c.upto
             /\ Followed(box, Known(c, F) \cup Held(c.pending))
  <2>1. op \in A /\ st[op] # "failed"
    BY <1>4, <1>6 DEF NoneLost
  <2>2. ~Overtaken(op, A)
    <3>1. ASSUME NEW p \in A, NEW m \in Said(p), \A i \in Said(op) : i < m PROVE FALSE
      <4>1. m <= n /\ n < m
        BY <3>1
      <4>2. TurnsOK(p.content) /\ TurnsOK(op.content)
        BY DEF AcceptedOK, OpOK
      <4>3. m \in Nat /\ n \in Nat
        BY <4>2, TurnsAreNumbers DEF Said
      <4> QED BY <4>1, <4>3
    <3> QED BY <3>1 DEF Overtaken
  <2>3. Current(op, doc, box)
    BY <2>1, <2>2 DEF LatestOK
  <2>4. CASE box = <<>>
    <3>1. WriteBack!After(doc, <<>>, {}) = doc /\ WriteBack!After(doc, <<>>, DOMAIN st) = doc
      <4> DEFINE none == {}
                 known == DOMAIN st
      <4> HIDE DEF none, known
      <4>1. WriteBack!After(doc, <<>>, none) = doc /\ WriteBack!After(doc, <<>>, known) = doc
        BY <1>1, AfterNothing
      <4> QED BY <4>1 DEF none, known
    <3>2. doc = c.upto
      BY <2>3, <2>4 DEF Current
    <3>3. Followed(<<>>, Known(c, F) \cup Held(c.pending))
      BY DEF Followed
    <3> QED BY <2>4, <3>1, <3>2, <3>3
  <2>5. CASE box # <<>>
    <3>1. Len(box) \in 1 .. Len(box) /\ box[Len(box)] = op
      BY <1>1, <2>3, <2>5, EmptySeq DEF Current
    <3> DEFINE E == WriteBack!After(doc, box, {})
    <3>2. E = c.upto
      <4> HIDE DEF box, doc, S
      <4> QED BY <1>1, <2>5, <3>1, AfterReplaced
    <3>3. E \in Seq(Nat)
      BY <3>2 DEF OpOK, TurnsOK
    <3>4. WriteBack!After(E, <<>>, DOMAIN st) = E
      <4> DEFINE known == DOMAIN st
      <4> HIDE DEF known, E
      <4>1. WriteBack!After(E, <<>>, known) = E
        BY <3>3, AfterNothing
      <4> QED BY <4>1 DEF known
    <3>5. Followed(box, Known(c, F) \cup Held(c.pending))
      <4> SUFFICES ASSUME NEW i \in 1 .. Len(box), box[i] # op
                   PROVE  \E j \in (i + 1) .. Len(box) : ~box[j].append
        BY <1>4 DEF Followed
      <4>1. Len(box) \in (i + 1) .. Len(box)
        BY <3>1
      <4> QED BY <3>1, <4>1
    <3> QED BY <3>2, <3>4, <3>5
  <2> QED BY <2>4, <2>5
<1>7. Whole(c, doc, box, st, F)
  BY <1>6 DEF Whole
<1> QED BY <1>5, <1>7 DEF Truthful

LEMMA ConfirmReplaceTells ==
  ASSUME WriteBackInv, TruthInv, OneAtATime, CursorIsWritten, NEW h \in Hooks,
         WriteBack!ConfirmReplace(h)
  PROVE  TruthInv'
<1> DEFINE w == work[h]
           c == WriteBack!Position(w, FALSE, <<>>, w.queue)
           op == Head(w.queue)
           A == DOMAIN status
<1>1. UNCHANGED <<transcript, made, document, inbox, status>> /\ forgotten' = forgotten
      /\ pc[h] = "confirm" /\ ~op.append /\ stored' = c
  BY Unchanged DEF WriteBack!ConfirmReplace, WriteBack!sessionVars, WriteBack!serverVars,
                   WriteBack!At, WriteBack!WriteCursor, CursorIsWritten
<1>2. pc'[h] = "idle"
  BY DEF WriteBack!ConfirmReplace, WriteBack!Finish, WriteBack!Goto, WriteBackInv
<1>3. /\ WorkOK(w, "confirm", stored, transcript, A)
      /\ WorkTold(w, "confirm", stored, document, inbox, status, forgotten)
      /\ Version(w.turns)
  BY <1>1 DEF TruthInv, VersionsOK, WriteBackInv, Accepted
<1>4. w.queue # <<>> /\ QueueOK(w.queue, w.bank, w.turns, A) /\ w.bank \in Banks
  BY <1>3 DEF WorkOK, SendingOK, Late
<1>5. OpOK(op) /\ op.bank = w.bank
  BY <1>4, FirstOf
<1>6. w.queue = <<WriteBack!Operation(w.bank, FALSE, w.turns)>> /\ forgotten = {} /\ Newest(w, A)
  BY <1>1, <1>3 DEF WorkTold, Late
<1>7. w.queue = <<op>> /\ op.content = w.turns
  <2> DEFINE x == WriteBack!Operation(w.bank, FALSE, w.turns)
  <2>1. x.content = w.turns
    BY DEF WriteBack!Operation
  <2> HIDE DEF x, w
  <2>2. Head(<<x>>) = x
    OBVIOUS
  <2> QED BY <1>6, <2>1, <2>2 DEF x
<1>8. /\ c.upto = w.turns /\ c.bank = w.bank /\ c.ops = w.queue /\ c.pending = <<>>
      /\ c.dirty = FALSE
  BY DEF WriteBack!Position, WriteBack!Cursor
<1> HIDE DEF c, w, op
<1>9. Truthful(c, document, inbox, status, {})
  <2>1. PICK n \in Said(op) : \A p \in A : \A m \in Said(p) : m <= n
    BY <1>6, <1>7 DEF Newest, Said
  <2>2. /\ AcceptedOK(A) /\ BankOK(c.bank, document[c.bank], inbox[c.bank], A)
        /\ LatestOK(document, inbox, status)
    BY <1>4, <1>8 DEF WriteBackInv, TruthInv, Accepted
  <2> QED BY <1>1, <1>5, <1>7, <1>8, <2>1, <2>2, ReplacedTold
<1>10. StoredTold(c, document, inbox, status, forgotten)
  BY <1>6, <1>9 DEF StoredTold
<1>11. WorkTold(work'[h], pc'[h], stored', document, inbox, status, forgotten')
  BY <1>2 DEF WorkTold, Late
<1> QED BY <1>1, <1>2, <1>3, <1>8, <1>10, <1>11, HookTells

LEMMA TrackedIs ==
  ASSUME NEW S, NEW ops \in Seq(S)
  PROVE  /\ WriteBack!Tracked(ops) \in Seq(Range(WriteBack!Tracked(ops)))
         /\ Held(WriteBack!Tracked(ops)) \subseteq Held(ops)
         /\ WriteBack!Tracked(ops) \in Seq(S) /\ Len(WriteBack!Tracked(ops)) <= MaxCursorOps
<1> DEFINE n == Len(ops)
           M == {n, MaxCursorOps}
           m == WriteBack!Min(M)
           t == SubSeq(ops, n - m + 1, n)
<1>1. n \in Nat /\ MaxCursorOps \in Nat
  BY AgentsConstants DEF WriteBack!WriteBackConstants
<1>2. m \in M /\ \A x \in M : m <= x
  <2>1. \E x \in M : \A y \in M : x <= y
    BY <1>1
  <2> QED BY <2>1 DEF WriteBack!Min
<1> DEFINE i == n - m + 1
<1>3. m \in Nat /\ m <= n /\ m <= MaxCursorOps
  BY <1>1, <1>2
<1> HIDE DEF m, M, n
<1>l. i <= n => n - i + 1 = m
  BY <1>1, <1>3
<1>4. i \in 1 .. (n + 1)
  BY <1>1, <1>3
<1>5. \A j \in i .. n : j \in 1 .. n /\ ops[j] \in S
  <2>1. \A j \in i .. n : j \in 1 .. n
    BY <1>1, <1>4
  <2> QED BY <2>1, ElementOfSeq DEF n
<1> HIDE DEF i
<1>6. /\ SubSeq(ops, i, n) \in Seq(S)
      /\ Len(SubSeq(ops, i, n)) = IF i <= n THEN n - i + 1 ELSE 0
      /\ \A j \in 1 .. n - i + 1 : SubSeq(ops, i, n)[j] = ops[i + j - 1]
  <2>1. i \in Int /\ n \in Int /\ \A j \in i .. n : ops[j] \in S
    BY <1>1, <1>4, <1>5
  <2> QED BY <2>1, SubSeqProperties
<1> DEFINE u == SubSeq(ops, i, n)
<1>7. ASSUME NEW j \in 1 .. Len(u) PROVE u[j] \in Held(ops)
  <2>1. j \in 1 .. n - i + 1 /\ i + j - 1 \in 1 .. n
    BY <1>1, <1>4, <1>6
  <2> QED BY <1>6, <2>1 DEF Held, n
<1>8. u \in Seq(Range(u)) /\ Held(u) \subseteq Held(ops)
  <2>1. u \in Seq(S)
    BY <1>6
  <2> HIDE DEF u
  <2> QED BY <1>7, <2>1, SeqOfRange DEF Held
<1>9. WriteBack!Tracked(ops) = u
  BY DEF WriteBack!Tracked, u, i, n, m, M
<1>10. u \in Seq(S) /\ Len(u) <= MaxCursorOps
  <2> HIDE DEF i
  <2> QED BY <1>1, <1>3, <1>l, <1>6
<1> QED BY <1>8, <1>9, <1>10

\* The first of the buffered appends is confirmed.
LEMMA ConfirmTruth ==
  ASSUME NEW k, NEW st, CursorOK(k, DOMAIN st), AcceptedOK(DOMAIN st),
         NEW D, NEW B, NEW F, BankOK(k.bank, D[k.bank], B[k.bank], DOMAIN st),
         Truthful(k, D, B, st, F), k.pending # <<>>,
         NEW e, e.upto = k.upto, e.bank = k.bank, e.pending = Tail(k.pending),
         e.ops \in Seq(Range(e.ops)),
         NEW G, Known(e, G) = Known(k, F) \cup {Head(k.pending)}
  PROVE  Truthful(e, D, B, st, G)
<1> DEFINE A == DOMAIN st
           q == k.pending
           t == Tail(q)
           op == Head(q)
           P == Range(q)
           doc == D[k.bank]
           box == B[k.bank]
           E == WriteBack!After(doc, box, {})
<1>1. /\ Legible(P) /\ q \in Seq(P) /\ \A i \in 1 .. Len(q) : q[i] \in Held(q)
  BY QueueIsLegible DEF CursorOK
<1>2. /\ t \in Seq(P) /\ op = q[1] /\ 1 \in 1 .. Len(q) /\ Len(t) = Len(q) - 1 /\ Len(q) \in Nat
      /\ \A j \in 1 .. Len(t) : j + 1 \in 1 .. Len(q) /\ t[j] = q[j + 1]
  BY <1>1, TailOfBox
<1>3. Buffered(k, A, F) /\ Whole(k, doc, box, st, F)
  BY DEF Truthful
<1>4. Said(op) \subseteq Held(k.upto) /\ op \in Held(q)
  BY <1>1, <1>2 DEF CursorOK, QueueOK
<1> HIDE DEF t, op
<1>5. Held(q) = Held(t) \cup {op} /\ op \notin Held(t)
  <2>1. \A i \in 1 .. Len(q) : i = 1 \/ (i - 1 \in 1 .. Len(t) /\ (i - 1) + 1 = i)
    BY <1>2
  <2>2. ASSUME NEW i \in 1 .. Len(q) PROVE q[i] = op \/ q[i] \in Held(t)
    <3>1. CASE i = 1
      BY <1>2, <3>1
    <3>2. CASE i - 1 \in 1 .. Len(t) /\ (i - 1) + 1 = i
      <4>1. t[i - 1] = q[i]
        BY <1>2, <3>2
      <4> QED BY <3>2, <4>1 DEF Held
    <3> QED BY <2>1, <3>1, <3>2
  <2>3. ASSUME NEW j \in 1 .. Len(t), t[j] = op PROVE FALSE
    <3>1. j + 1 \in 1 .. Len(q) /\ q[j + 1] = q[1]
      BY <1>2, <2>3
    <3>2. j + 1 = 1
      BY <1>2, <1>3, <3>1 DEF Buffered
    <3> QED BY <3>2
  <2>4. Held(t) \subseteq Held(q)
    BY <1>2 DEF Held
  <2> QED BY <1>4, <2>2, <2>3, <2>4 DEF Held
<1>6. e.pending = t /\ Known(e, G) = Known(k, F) \cup {op}
  BY DEF t, op
<1>7. Buffered(e, A, G)
  <2>1. \A o \in Known(e, G) : Said(o) \subseteq Held(e.upto)
    BY <1>3, <1>4, <1>6 DEF Buffered
  <2>2. Held(t) \cap Known(e, G) = {}
    BY <1>3, <1>5, <1>6 DEF Buffered
  <2>3. \A i, j \in 1 .. Len(t) : t[i] = t[j] => i = j
    <3> TAKE i, j \in 1 .. Len(t)
    <3> HAVE t[i] = t[j]
    <3>1. i + 1 \in 1 .. Len(q) /\ j + 1 \in 1 .. Len(q) /\ q[i + 1] = q[j + 1]
      BY <1>2
    <3>2. i + 1 = j + 1
      BY <1>3, <3>1 DEF Buffered
    <3> QED BY <3>2
  <2>4. \A o \in Held(t) \ A : \E n \in Said(o) : Above(n, e.bank, A)
    BY <1>3, <1>5 DEF Buffered
  <2> QED BY <1>6, <2>1, <2>2, <2>3, <2>4 DEF Buffered
<1>8. ASSUME NoneLost(e, st, G)
      PROVE  WriteBack!After(E, t, A) = k.upto /\ Followed(box, Known(e, G) \cup Held(t))
  <2>1. op \in A /\ st[op] # "failed"
    BY <1>6, <1>8 DEF NoneLost
  <2>2. NoneLost(k, st, F)
    BY <1>5, <1>6, <1>8, <2>1 DEF NoneLost
  <2>3. WriteBack!After(E, q, A) = k.upto /\ Followed(box, Known(k, F) \cup Held(q))
    BY <1>3, <2>2 DEF Whole
  <2>4. Known(e, G) \cup Held(t) = Known(k, F) \cup Held(q)
    BY <1>5, <1>6
  <2>5. E \in Seq(Nat)
    <3> DEFINE S == {o \in A : o.bank = k.bank}
               none == {}
    <3>1. Legible(S) /\ box \in Seq(S) /\ doc \in Seq(Nat)
      BY BoxIsLegible
    <3> HIDE DEF S, none, box, doc
    <3>2. WriteBack!After(doc, box, none) \in Seq(Nat)
      BY <3>1, AfterIsADocument
    <3> QED BY <3>2 DEF none
  <2> HIDE DEF E, A, q
  <2>6. LET next == IF Head(q) \in A THEN E ELSE WriteBack!Perform(Head(q), E)
        IN  next \in Seq(Nat) /\ WriteBack!After(E, q, A) = WriteBack!After(next, Tail(q), A)
    BY <1>1, <2>5, AfterTheFirst DEF q
  <2> QED BY <2>1, <2>3, <2>4, <2>6 DEF op, t
<1>9. Whole(e, doc, box, st, G)
  BY <1>6, <1>8 DEF Whole
<1> QED BY <1>7, <1>9 DEF Truthful

LEMMA ConfirmAppendTells ==
  ASSUME WriteBackInv, TruthInv, OneAtATime, CursorIsWritten, NEW h \in Hooks,
         WriteBack!ConfirmAppend(h)
  PROVE  TruthInv'
<1> DEFINE w == work[h]
           op == Head(w.queue)
           all0 == Append(w.ops, op)
           ops == WriteBack!Tracked(all0)
           rest == Tail(w.queue)
           c == WriteBack!Position(w, FALSE, rest, ops)
           k == Claim(w)
           v == [w EXCEPT !.queue = rest, !.ops = ops]
           A == DOMAIN status
           G == forgotten \cup (Held(all0) \ Held(ops))
<1>1. /\ UNCHANGED <<transcript, made, document, inbox, status>>
      /\ forgotten' = forgotten \cup (WriteBack!ToSet(all0) \ WriteBack!ToSet(ops))
      /\ pc[h] = "confirm" /\ op.append /\ stored' = c
      /\ \/ pc' = [pc EXCEPT ![h] = "idle"]
         \/ /\ rest # <<>> /\ pc' = [pc EXCEPT ![h] = "send"]
            /\ work' = [work EXCEPT ![h] = v]
  BY Unchanged DEF WriteBack!ConfirmAppend, WriteBack!sessionVars, WriteBack!serverVars,
                   WriteBack!At, WriteBack!WriteCursor, CursorIsWritten, WriteBack!Finish,
                   WriteBack!Goto, WriteBack!Set
<1>2. /\ WorkOK(w, "confirm", stored, transcript, A)
      /\ WorkTold(w, "confirm", stored, document, inbox, status, forgotten)
      /\ Version(w.turns) /\ AcceptedOK(A)
      /\ DOMAIN w = {"turns", "bank", "cursor", "append", "ops", "queue", "attempts"}
  BY <1>1, WorkFields DEF TruthInv, VersionsOK, WriteBackInv, Accepted
<1>3. /\ w.queue # <<>> /\ QueueOK(w.queue, w.bank, w.turns, A) /\ w.bank \in Banks
  BY <1>2 DEF WorkOK, SendingOK, Late
<1>4. /\ CursorOK(k, A) /\ AllAppend(w.queue)
      /\ k.upto = w.turns /\ k.bank = w.bank /\ k.pending = w.queue /\ k.ops = w.ops
  BY <1>1, <1>2, ClaimedCursor DEF Late
<1>5. Newest(w, A) /\ Truthful(k, document, inbox, status, forgotten)
  BY <1>1, <1>2 DEF WorkTold, Late
<1>6. w.ops \in Seq(Range(w.ops))
  BY <1>4, <1>5 DEF Truthful, Buffered
<1>7. /\ c.upto = w.turns /\ c.bank = w.bank /\ c.ops = ops /\ c.pending = rest
      /\ c.dirty = FALSE
  BY DEF WriteBack!Position, WriteBack!Cursor
<1>8. v.turns = w.turns /\ v.cursor = w.cursor /\ v.queue = rest /\ v.bank = w.bank
      /\ v.ops = ops /\ v.append = w.append
  BY <1>2
<1>9. Claim(v) = c
  BY <1>8 DEF Claim, WriteBack!Position
<1> HIDE DEF w, c, k, v, op
<1>10. Extended(w.ops, op, all0)
  BY <1>6, OneMore
<1> HIDE DEF all0
<1>11. all0 \in Seq(Range(w.ops) \cup {op}) /\ Held(all0) = Held(w.ops) \cup {op}
  BY <1>10 DEF Extended
<1>12. ops \in Seq(Range(ops)) /\ Held(ops) \subseteq Held(all0)
  BY <1>11, TrackedIs
<1> HIDE DEF ops
<1>13. forgotten' = G
  <2>1. DOMAIN all0 = 1 .. Len(all0) /\ DOMAIN ops = 1 .. Len(ops)
    BY <1>11, <1>12, LenProperties
  <2>2. WriteBack!ToSet(all0) = Held(all0) /\ WriteBack!ToSet(ops) = Held(ops)
    BY <2>1 DEF WriteBack!ToSet, Held
  <2> QED BY <1>1, <2>2
<1>14. Known(c, G) = Known(k, forgotten) \cup {op}
  BY <1>4, <1>7, <1>11, <1>12 DEF Known
<1> HIDE DEF G
<1>15. Truthful(c, document, inbox, status, G)
  <2>1. BankOK(k.bank, document[k.bank], inbox[k.bank], A)
    BY <1>3, <1>4 DEF WriteBackInv, Accepted
  <2>2. /\ c.upto = k.upto /\ c.bank = k.bank /\ c.pending = Tail(k.pending)
        /\ c.ops \in Seq(Range(c.ops)) /\ k.pending # <<>> /\ op = Head(k.pending)
    BY <1>3, <1>4, <1>7, <1>12 DEF op
  <2> HIDE DEF rest
  <2> QED BY <1>2, <1>4, <1>5, <1>14, <2>1, <2>2, ConfirmTruth
<1>16. StoredTold(c, document, inbox, status, G)
  BY <1>15 DEF StoredTold
<1>17. CASE pc' = [pc EXCEPT ![h] = "idle"]
  <2>1. pc'[h] = "idle"
    BY <1>17 DEF WriteBackInv
  <2>2. WorkTold(work'[h], pc'[h], c, document, inbox, status, G)
    BY <2>1 DEF WorkTold, Late
  <2> QED BY <1>1, <1>2, <1>7, <1>13, <1>16, <2>1, <2>2, HookTells
<1>18. CASE rest # <<>> /\ pc' = [pc EXCEPT ![h] = "send"] /\ work' = [work EXCEPT ![h] = v]
  <2>1. pc'[h] = "send" /\ work'[h] = v
    BY <1>18 DEF WriteBackInv
  <2>2. Head(v.queue).append
    <3>1. QueueOK(rest, w.bank, w.turns, A) /\ AllAppend(rest)
      BY <1>3, <1>4, RestOf
    <3> QED BY <1>8, <1>18, <3>1, FirstOf DEF AllAppend
  <2>3. Newest(v, A)
    BY <1>5, <1>8 DEF Newest
  <2>4. WorkTold(v, "send", c, document, inbox, status, G)
    BY <1>9, <1>15, <2>2, <2>3 DEF WorkTold, Late
  <2>5. Version(v.turns)
    BY <1>2, <1>8
  <2> QED BY <1>1, <1>2, <1>7, <1>13, <1>16, <2>1, <2>4, <2>5, HookTells
<1> QED BY <1>1, <1>17, <1>18

LEMMA TruthStep ==
  ASSUME WriteBackInv, TruthInv, OneAtATime, CursorIsWritten, [WriteBack!Next]_writeBackVars
  PROVE  TruthInv'
<1>1. ASSUME NEW h \in Hooks, WriteBack!WriteBack(h) PROVE TruthInv'
  BY <1>1, StartTells, ProbeTells, SettleTells, ReplaceTells, AppendTells, EndsTell, DeliverTells,
     AnswersTell, ConfirmReplaceTells, ConfirmAppendTells DEF WriteBack!WriteBack
<1>2. CASE UNCHANGED writeBackVars
  BY <1>2 DEF writeBackVars, TruthInv, VersionsOK, Version, Accepted
<1> QED BY <1>1, <1>2, ServerTells, SessionTells DEF WriteBack!Next

LEMMA TruthAlways ==
  OneAtATime /\ CursorIsWritten =>
    (Spec => [](part = "writeBack" => WriteBackInv /\ TruthInv))
<1> DEFINE Inv == part = "writeBack" => WriteBackInv /\ TruthInv
<1> SUFFICES ASSUME OneAtATime, CursorIsWritten PROVE Spec => []Inv
  OBVIOUS
<1>1. Init => Inv
  BY WriteBackInitially, TruthInitially DEF Init
<1>2. Inv /\ [Next]_all => Inv'
  <2> SUFFICES ASSUME Inv, [Next]_all PROVE Inv'
    OBVIOUS
  <2>1. CASE WriteBackNext
    BY <2>1, WriteBackStep, TruthStep DEF WriteBackNext
  <2>2. CASE UNCHANGED <<part, writeBackVars>>
    BY <2>2, WriteBackStep, TruthStep
  <2> QED BY <2>1, <2>2
          DEF Next, RuntimeNext, PromptNext, FilesNext, ReadersNext, SetupNext, all
<1> QED BY <1>1, <1>2, PTL DEF Spec

\* With one write-back at a time whose cursor is written, a cursor that is not dirty
\* tells what its bank's document will hold, once what was accepted and what is
\* buffered is performed: unless one of the operations it counts failed or was mislaid.
THEOREM CursorAlwaysTellsTruth ==
  OneAtATime /\ CursorIsWritten => (Spec => []CursorTellsTruth)
<1>1. WriteBackInv /\ TruthInv => WriteBack!CursorTellsTruth
  <2> SUFFICES ASSUME WriteBackInv, TruthInv, stored # NoCursor, ~stored.dirty,
                      WriteBack!Missing = {}
               PROVE  WriteBack!After(WriteBack!Expected(stored.bank), stored.pending,
                                      DOMAIN status) = stored.upto
    BY DEF WriteBack!CursorTellsTruth
  <2>1. Truthful(stored, document, inbox, status, forgotten)
    BY DEF TruthInv, StoredTold
  <2>2. stored.ops \in Seq(Range(stored.ops)) /\ stored.pending \in Seq(Range(stored.pending))
    BY <2>1 DEF Truthful, Buffered, WriteBackInv, StoredOK, CursorOK, QueueOK
  <2>3. /\ WriteBack!ToSet(stored.ops) = Held(stored.ops)
        /\ WriteBack!ToSet(stored.pending) = Held(stored.pending)
    <3>1. /\ DOMAIN stored.ops = 1 .. Len(stored.ops)
          /\ DOMAIN stored.pending = 1 .. Len(stored.pending)
      BY <2>2, LenProperties
    <3> QED BY <3>1 DEF WriteBack!ToSet, Held
  <2>4. NoneLost(stored, status, forgotten)
    <3>1. \A op \in Known(stored, forgotten) :
            WriteBack!StatusOf(op) \notin {"failed", "not_found"}
      BY <2>3 DEF WriteBack!Missing, Known
    <3>2. \A op \in Held(stored.pending) : WriteBack!StatusOf(op) # "failed"
      BY <2>3 DEF WriteBack!Missing
    <3> QED BY <3>1, <3>2 DEF NoneLost, WriteBack!StatusOf
  <2> QED BY <2>1, <2>4 DEF Truthful, Whole, WriteBack!Expected
<1>2. (part = "writeBack" => WriteBackInv /\ TruthInv) => CursorTellsTruth
  BY <1>1 DEF CursorTellsTruth
<1> QED BY <1>2, TruthAlways, PTL

-----------------------------------------------------------------------------
(* The prompt hooks of a session.  What a process writes over the cache rests *)
(* on what it read, so that the counts may exceed the limits by the writes    *)
(* it had not seen: those already counted as lost for the file itself, and in *)
(* addition those since it read for a process still at work.                  *)

CacheTypes == [exists : BOOLEAN, turns : Nat, attempts : Nat, answered : BOOLEAN, defer : BOOLEAN]
TallyTypes == [asks : Nat, failures : Nat, injected : Nat, marks : Nat, deferred : Nat,
               writes : Nat, lost : Nat]

\* The counts t fit what cache c records, but for a number of writes.
Fits(c, t, slack) ==
  /\ c.attempts <= c.turns
  /\ c.answered => c.attempts >= 1
  /\ t.injected <= Prompt!One(c.answered) + slack
  /\ t.failures <= c.attempts + slack
  /\ t.failures + Prompt!One(~c.answered) <= InjectAttempts + slack
  /\ t.asks <= c.attempts + slack
  /\ t.asks + Prompt!One(~c.answered) <= EmptyAttempts + slack
  /\ t.deferred + Prompt!One(c.defer) <= t.marks + slack

PromptOK(p, t) ==
  p.kind = "prompt" =>
    /\ p.cached \in CacheTypes /\ p.seen \in 0 .. t.writes
    /\ Fits(p.cached, t, t.lost + t.writes - p.seen)

BudgetInv ==
  /\ DOMAIN hook = Slots
  /\ tally \in TallyTypes /\ cache \in CacheTypes
  /\ Fits(cache, tally, tally.lost)
  /\ \A s \in Slots : PromptOK(hook[s], tally)

\* Later counts, each at most n more, with at least n more writes to allow for.
LEMMA FitsLater ==
  ASSUME NEW c \in CacheTypes, NEW t \in TallyTypes, NEW u \in TallyTypes, NEW n \in Nat,
         NEW k \in Int, NEW l \in Int, Fits(c, t, k), l >= k + n,
         u.injected <= t.injected + n, u.failures <= t.failures + n, u.asks <= t.asks + n,
         u.deferred <= t.deferred + n, u.marks >= t.marks
  PROVE  Fits(c, u, l)
BY AgentsConstants DEF Prompt!PromptConstants, Fits, Prompt!One, CacheTypes, TallyTypes

\* A process at work when another one, which had seen the writes before "seen", writes.
LEMMA OthersFit ==
  ASSUME NEW p, NEW t \in TallyTypes, NEW u \in TallyTypes, PromptOK(p, t),
         u.writes = t.writes + 1, u.lost >= t.lost,
         u.injected <= t.injected + 1, u.failures <= t.failures + 1, u.asks <= t.asks + 1,
         u.deferred <= t.deferred + 1, u.marks >= t.marks
  PROVE  PromptOK(p, u)
<1> SUFFICES ASSUME p.kind = "prompt" PROVE PromptOK(p, u)
  BY DEF PromptOK
<1> DEFINE k == t.lost + t.writes - p.seen
           l == u.lost + u.writes - p.seen
<1>1. /\ p.cached \in CacheTypes /\ p.seen \in 0 .. t.writes /\ Fits(p.cached, t, k)
      /\ t.lost \in Nat /\ u.lost \in Nat /\ t.writes \in Nat /\ u.writes \in Nat
  BY DEF PromptOK, TallyTypes
<1>2. k \in Int /\ l \in Int /\ l >= k + 1 /\ p.seen \in 0 .. u.writes
  BY <1>1
<1>3. Fits(p.cached, u, l)
  <2> HIDE DEF k, l
  <2> QED BY <1>1, <1>2, FitsLater
<1> QED BY <1>1, <1>2, <1>3 DEF PromptOK

LEMMA BudgetInitially == Prompt!Init => BudgetInv
<1> SUFFICES ASSUME Prompt!Init PROVE BudgetInv
  OBVIOUS
<1>1. cache \in CacheTypes /\ tally \in TallyTypes
  BY DEF Prompt!Init, Prompt!NoCache, Prompt!Zero, CacheTypes, TallyTypes
<1>2. Fits(cache, tally, tally.lost)
  BY AgentsConstants
     DEF Prompt!PromptConstants, Fits, Prompt!One, Prompt!Init, Prompt!NoCache, Prompt!Zero
<1>3. DOMAIN hook = Slots /\ \A s \in Slots : hook[s].kind = "none"
  BY DEF Prompt!Init, Prompt!Gone
<1> QED BY <1>1, <1>2, <1>3 DEF BudgetInv, PromptOK

\* A step that changes neither the counts nor the file, and after which every process
\* that is a prompt was one or has just read the file.
LEMMA BudgetStays ==
  ASSUME BudgetInv, UNCHANGED <<cache, tally>>, DOMAIN hook' = Slots,
         \A s \in Slots : \/ hook'[s] = hook[s] \/ hook'[s].kind # "prompt"
                          \/ hook'[s].cached = cache /\ hook'[s].seen = tally.writes
  PROVE  BudgetInv'
<1>1. tally.writes \in Nat /\ tally.lost \in Nat
  BY DEF BudgetInv, TallyTypes
<1>2. tally.lost + tally.writes - tally.writes = tally.lost /\ tally.writes \in 0 .. tally.writes
  BY <1>1
<1>3. ASSUME NEW s \in Slots PROVE PromptOK(hook'[s], tally)
  BY <1>2 DEF BudgetInv, PromptOK
<1> QED BY <1>3 DEF BudgetInv

LEMMA StartHookFits ==
  ASSUME BudgetInv, NEW s \in Slots, NEW empty \in BOOLEAN, Prompt!EndStart(s, empty)
  PROVE  BudgetInv'
<1>1. hook' = [hook EXCEPT ![s] = Prompt!Gone] /\ Prompt!Gone.kind = "none"
  BY DEF Prompt!EndStart, Prompt!Leave, Prompt!Gone
<1>2. CASE ~empty
  <2>1. UNCHANGED <<cache, tally>>
    BY <1>2 DEF Prompt!EndStart
  <2> QED BY <1>1, <2>1, BudgetStays DEF BudgetInv
<1>3. CASE empty
  <2> DEFINE c == [exists |-> TRUE, turns |-> 0, attempts |-> 0, answered |-> FALSE,
                   defer |-> TRUE]
             t == [asks |-> tally.asks, failures |-> tally.failures, injected |-> tally.injected,
                   marks |-> tally.marks + 1, deferred |-> tally.deferred,
                   writes |-> tally.writes + 1, lost |-> tally.lost + cache.turns]
  <2>1. cache' = c /\ tally' = t
    BY <1>3 DEF Prompt!EndStart, Prompt!NoCache, BudgetInv, TallyTypes
  <2>2. tally \in TallyTypes /\ t \in TallyTypes /\ c \in CacheTypes /\ cache.turns \in Nat
    BY DEF BudgetInv, TallyTypes, CacheTypes
  <2>3. Fits(c, t, t.lost)
    BY <2>2, AgentsConstants
       DEF BudgetInv, CacheTypes, TallyTypes, Prompt!PromptConstants, Fits, Prompt!One
  <2>4. ASSUME NEW p \in Slots PROVE PromptOK(hook'[p], t)
    <3>1. CASE p = s
      BY <1>1, <3>1 DEF BudgetInv, PromptOK
    <3>2. CASE p # s
      <4>1. /\ t.writes = tally.writes + 1 /\ t.lost >= tally.lost
            /\ t.injected <= tally.injected + 1 /\ t.failures <= tally.failures + 1
            /\ t.asks <= tally.asks + 1 /\ t.deferred <= tally.deferred + 1
            /\ t.marks >= tally.marks
        BY <2>2 DEF TallyTypes
      <4>2. PromptOK(hook[p], tally)
        BY DEF BudgetInv
      <4> HIDE DEF t
      <4>3. PromptOK(hook[p], t)
        BY <2>2, <4>1, <4>2, OthersFit
      <4> QED BY <1>1, <3>2, <4>3 DEF BudgetInv
    <3> QED BY <3>1, <3>2
  <2>5. DOMAIN hook' = Slots
    BY <1>1 DEF BudgetInv
  <2> HIDE DEF c, t
  <2> QED BY <2>1, <2>2, <2>3, <2>4, <2>5 DEF BudgetInv
<1> QED BY <1>2, <1>3

\* What a prompt writes fits what it has counted, whatever was written meanwhile.
LEMMA PromptFits ==
  ASSUME BudgetInv, NEW s \in Slots, NEW got, Prompt!EndPrompt(s, got)
  PROVE  BudgetInv'
<1> DEFINE old == hook[s].cached
           seen == hook[s].seen
           ran == got # "unasked"
           attempts == IF ran THEN old.attempts + 1 ELSE old.attempts
           c == [exists |-> TRUE, turns |-> old.turns + 1, attempts |-> attempts, defer |-> FALSE,
                 answered |-> old.answered \/ (ran /\ Prompt!Resolved(got, attempts))]
           t == [asks |-> tally.asks + Prompt!One(ran),
                 failures |-> tally.failures + Prompt!One(got \in {"failed", "permanent"}),
                 injected |-> tally.injected + Prompt!One(got = "body"),
                 marks |-> tally.marks,
                 deferred |-> tally.deferred + Prompt!One(old.defer),
                 writes |-> tally.writes + 1,
                 lost |-> tally.lost + tally.writes - seen]
<1>1. /\ hook' = [hook EXCEPT ![s] = Prompt!Gone] /\ Prompt!Gone.kind = "none"
      /\ hook[s].kind = "prompt" /\ got \in Prompt!Givings(old)
  BY DEF Prompt!EndPrompt, Prompt!Leave, Prompt!Gone
<1>2. /\ old \in CacheTypes /\ seen \in 0 .. tally.writes /\ tally \in TallyTypes
      /\ Fits(old, tally, tally.lost + tally.writes - seen)
  BY <1>1 DEF BudgetInv, PromptOK
<1>3. cache' = c
  BY DEF Prompt!EndPrompt
<1>4. tally' = t
  BY <1>2 DEF Prompt!EndPrompt, TallyTypes, Prompt!One
<1>5. c \in CacheTypes /\ t \in TallyTypes
  BY <1>2 DEF CacheTypes, TallyTypes, Prompt!One
<1>6. Fits(c, t, t.lost)
  <2>1. CASE got = "unasked"
    BY <1>2, <2>1 DEF Fits, Prompt!One, CacheTypes, TallyTypes
  <2>2. CASE got # "unasked"
    <3>1. ~old.defer /\ ~old.answered /\ got \in {"body", "empty", "failed", "permanent"}
      BY <1>1, <2>2 DEF Prompt!Givings, Prompt!Asks
    <3>2. c.answered <=> Prompt!Resolved(got, old.attempts + 1)
      BY <2>2, <3>1
    <3>3. \/ got \in {"body", "permanent"} /\ c.answered
          \/ got = "empty" /\ (c.answered \/ old.attempts + 1 < EmptyAttempts)
          \/ got = "failed" /\ (c.answered \/ old.attempts + 1 < InjectAttempts)
      BY <1>2, <3>1, <3>2, AgentsConstants DEF Prompt!Resolved, CacheTypes, Prompt!PromptConstants
    <3> QED BY <1>2, <2>2, <3>1, <3>3, AgentsConstants
            DEF Fits, Prompt!One, CacheTypes, TallyTypes, Prompt!PromptConstants
  <2> QED BY <2>1, <2>2
<1>7. ASSUME NEW p \in Slots PROVE PromptOK(hook'[p], t)
  <2>1. CASE p = s
    BY <1>1, <2>1 DEF BudgetInv, PromptOK
  <2>2. CASE p # s
    <3>1. /\ t.writes = tally.writes + 1 /\ t.lost >= tally.lost
          /\ t.injected <= tally.injected + 1 /\ t.failures <= tally.failures + 1
          /\ t.asks <= tally.asks + 1 /\ t.deferred <= tally.deferred + 1
          /\ t.marks >= tally.marks
      BY <1>2 DEF TallyTypes, Prompt!One
    <3>2. PromptOK(hook[p], tally)
      BY DEF BudgetInv
    <3> HIDE DEF t
    <3>3. PromptOK(hook[p], t)
      BY <1>2, <1>5, <3>1, <3>2, OthersFit
    <3> QED BY <1>1, <2>2, <3>3 DEF BudgetInv
  <2> QED BY <2>1, <2>2
<1>8. DOMAIN hook' = Slots
  BY <1>1 DEF BudgetInv
<1> HIDE DEF c, t
<1> QED BY <1>3, <1>4, <1>5, <1>6, <1>7, <1>8 DEF BudgetInv

\* A process that enters, leaves or goes on with a tool hook.
LEMMA BudgetStep ==
  ASSUME BudgetInv, [Prompt!Next]_promptVars
  PROVE  BudgetInv'
<1>1. ASSUME NEW s \in Slots, Prompt!Step(s) PROVE BudgetInv'
  <2>1. CASE Prompt!BeginStart(s) \/ Prompt!BeginPrompt(s) \/ Prompt!BeginTool(s)
    <3>1. UNCHANGED <<cache, tally>>
      BY <2>1 DEF Prompt!BeginStart, Prompt!BeginPrompt, Prompt!BeginTool
    <3>2. \/ hook' = [hook EXCEPT ![s] = [kind |-> "start", scope |-> scope]]
          \/ hook' = [hook EXCEPT ![s] = [kind |-> "tool", scope |-> scope]]
          \/ hook' = [hook EXCEPT ![s] = [kind |-> "prompt", scope |-> scope, cached |-> cache,
                                          seen |-> tally.writes]]
      BY <2>1 DEF Prompt!BeginStart, Prompt!BeginPrompt, Prompt!BeginTool, Prompt!Enter
    <3> QED BY <3>1, <3>2, BudgetStays DEF BudgetInv
  <2>2. CASE Prompt!Kill(s) \/ Prompt!Deliver(s)
    BY <2>2, BudgetStays
       DEF Prompt!Kill, Prompt!Deliver, Prompt!Leave, Prompt!Gone, BudgetInv
  <2>3. CASE Prompt!Claim(s)
    <3>1. /\ UNCHANGED <<cache, tally>> /\ DOMAIN hook' = Slots
          /\ \A p \in Slots : p # s => hook'[p] = hook[p]
      BY <2>3 DEF Prompt!Claim, Prompt!Claiming, BudgetInv
    <3>2. hook[s].kind = "claim" /\ hook'[s].kind = "claim"
      BY <2>3 DEF Prompt!Claim, Prompt!Claiming, BudgetInv
    <3> QED BY <3>1, <3>2, BudgetStays
  <2>4. ASSUME NEW answer, Prompt!EndProbe(s, answer) PROVE BudgetInv'
    <3>1. PICK p : hook' = [hook EXCEPT ![s] = p] /\ p.kind # "prompt"
      <4>1. CASE answer = "ok" /\ scope = hook[s].scope
        <5>1. hook' = [hook EXCEPT ![s] = Prompt!Claiming(hook[s].scope,
                                            Prompt!FirstPending(hook[s].scope), {})]
          BY <2>4, <4>1 DEF Prompt!EndProbe
        <5>2. Prompt!Claiming(hook[s].scope, Prompt!FirstPending(hook[s].scope), {}).kind = "claim"
          BY DEF Prompt!Claiming
        <5> QED BY <5>1, <5>2
      <4>2. CASE ~(answer = "ok" /\ scope = hook[s].scope)
        <5>1. hook' = [hook EXCEPT ![s] = Prompt!Gone]
          BY <2>4, <4>2 DEF Prompt!EndProbe
        <5>2. Prompt!Gone.kind = "none"
          BY DEF Prompt!Gone
        <5> QED BY <5>1, <5>2
      <4> QED BY <4>1, <4>2
    <3>2. UNCHANGED <<cache, tally>>
      BY <2>4 DEF Prompt!EndProbe
    <3> QED BY <3>1, <3>2, BudgetStays DEF BudgetInv
  <2> QED BY <1>1, <2>1, <2>2, <2>3, <2>4, StartHookFits, PromptFits
          DEF Prompt!Step, Prompt!EndPromptBackedUp
<1>2. CASE Prompt!ChangeScope \/ Prompt!Regrant \/ UNCHANGED promptVars
  BY <1>2, BudgetStays
     DEF Prompt!ChangeScope, Prompt!Regrant, Prompt!Change, promptVars, BudgetInv
<1> QED BY <1>1, <1>2 DEF Prompt!Next

-----------------------------------------------------------------------------
(* The blocks of the prompt hooks.  A block is with its file, with one        *)
(* claiming process, or delivered; a refusal takes it from its file.          *)

BlockTypes == [key : Scopes, what : SUBSET {"preamble", "answer", "roster"}, there : BOOLEAN,
               times : Nat, condemned : BOOLEAN]

BlockOK(b) ==
  /\ b.there => b.times = 0 /\ ~b.condemned
  /\ b.condemned => b.times = 0
  /\ b.times <= 1

\* A claiming process and the blocks z.
ClaimOK(p, z) ==
  p.kind = "claim" =>
    /\ p = [kind |-> "claim", scope |-> p.scope, files |-> p.files, got |-> p.got]
    /\ p.files \subseteq DOMAIN z /\ p.got \subseteq DOMAIN z
    /\ \A n \in p.files \cup p.got : z[n].key = p.scope
    /\ \A n \in p.got : ~z[n].there /\ z[n].times = 0 /\ ~z[n].condemned

Apart(p, q) == p.kind = "claim" /\ q.kind = "claim" => p.got \cap q.got = {}

BlocksInv ==
  /\ DOMAIN hook = Slots /\ scope \in Scopes
  /\ blocks \in Seq(BlockTypes)
  /\ \A n \in DOMAIN blocks : BlockOK(blocks[n])
  /\ \A s \in Slots : ClaimOK(hook[s], blocks)
  /\ \A s, r \in Slots : s # r => Apart(hook[s], hook[r])

LEMMA BlocksInitially == Prompt!Init => BlocksInv
<1> SUFFICES ASSUME Prompt!Init PROVE BlocksInv
  OBVIOUS
<1>1. blocks \in Seq(BlockTypes) /\ DOMAIN blocks = {}
  BY DEF Prompt!Init
<1>2. DOMAIN hook = Slots /\ \A s \in Slots : hook[s].kind = "none"
  BY DEF Prompt!Init, Prompt!Gone
<1> QED BY <1>1, <1>2 DEF BlocksInv, ClaimOK, Apart, Prompt!Init

\* A step that leaves every process as it is but for one that claims nothing, and takes
\* nothing from a block that a process has claimed.
LEMMA BlocksChange ==
  ASSUME BlocksInv, scope' \in Scopes, NEW s \in Slots, NEW p, p.kind # "claim",
         hook' = hook \/ hook' = [hook EXCEPT ![s] = p],
         blocks' \in Seq(BlockTypes), DOMAIN blocks \subseteq DOMAIN blocks',
         \A n \in DOMAIN blocks' : BlockOK(blocks'[n]),
         \A n \in DOMAIN blocks : blocks'[n].key = blocks[n].key,
         \A n \in DOMAIN blocks :
           \/ blocks'[n] = blocks[n] \/ blocks[n].there
           \/ hook' = [hook EXCEPT ![s] = p] /\ hook[s].kind = "claim" /\ n \in hook[s].got
  PROVE  BlocksInv'
<1>1. DOMAIN hook' = Slots /\ \A r \in Slots : hook'[r] = hook[r] \/ hook'[r].kind # "claim"
  BY DEF BlocksInv
<1>2. \A r, q \in Slots : r # q => Apart(hook'[r], hook'[q])
  BY <1>1 DEF BlocksInv, Apart
<1>3. ASSUME NEW r \in Slots PROVE ClaimOK(hook'[r], blocks')
  <2> SUFFICES ASSUME hook'[r].kind = "claim" PROVE ClaimOK(hook'[r], blocks')
    BY DEF ClaimOK
  <2>1. hook'[r] = hook[r] /\ ClaimOK(hook[r], blocks)
    BY <1>1 DEF BlocksInv
  <2>2. hook' = [hook EXCEPT ![s] = p] => r # s
    BY DEF BlocksInv
  <2>3. ASSUME NEW n \in hook[r].got PROVE blocks'[n] = blocks[n]
    <3>1. n \in DOMAIN blocks /\ ~blocks[n].there
      BY <2>1 DEF ClaimOK
    <3>2. r # s /\ hook[s].kind = "claim" => n \notin hook[s].got
      BY <2>1 DEF BlocksInv, Apart
    <3> QED BY <2>2, <3>1, <3>2
  <2> QED BY <2>1, <2>3 DEF ClaimOK
<1> QED BY <1>1, <1>2, <1>3 DEF BlocksInv

LEMMA StashKeeps ==
  ASSUME BlocksInv, scope' = scope, NEW s \in Slots, NEW p, p.kind # "claim",
         hook' = [hook EXCEPT ![s] = p],
         NEW what \in SUBSET {"preamble", "answer", "roster"},
         Prompt!Stash(scope, what) \/ UNCHANGED blocks
  PROVE  BlocksInv'
<1>1. CASE UNCHANGED blocks
  BY <1>1, BlocksChange DEF BlocksInv
<1>2. CASE blocks' # blocks
  <2> DEFINE b == [key |-> scope, what |-> what, there |-> TRUE, times |-> 0,
                   condemned |-> FALSE]
  <2>1. blocks' = Append(blocks, b) /\ b \in BlockTypes /\ BlockOK(b)
    BY <1>2 DEF Prompt!Stash, BlocksInv, BlockTypes, BlockOK
  <2>2. blocks \in Seq(BlockTypes) /\ scope' \in Scopes
    BY DEF BlocksInv
  <2> HIDE DEF b
  <2>3. /\ blocks' \in Seq(BlockTypes) /\ Len(blocks) \in Nat
        /\ DOMAIN blocks = 1 .. Len(blocks) /\ DOMAIN blocks' = 1 .. Len(blocks) + 1
        /\ \A n \in DOMAIN blocks : blocks'[n] = blocks[n]
        /\ blocks'[Len(blocks) + 1] = b
    BY <2>1, <2>2, AppendProperties, LenProperties
  <2>4. DOMAIN blocks \subseteq DOMAIN blocks'
    BY <2>3
  <2>5. \A n \in DOMAIN blocks' : BlockOK(blocks'[n])
    <3> TAKE n \in DOMAIN blocks'
    <3>1. n \in DOMAIN blocks \/ n = Len(blocks) + 1
      BY <2>3
    <3> QED BY <2>1, <2>3, <3>1 DEF BlocksInv
  <2> QED BY <2>2, <2>3, <2>4, <2>5, BlocksChange
<1> QED BY <1>1, <1>2

\* A block that is condemned, one that is claimed and one that is delivered.
LEMMA CondemnedBlock ==
  ASSUME NEW b \in BlockTypes, NEW z, z = [b EXCEPT !.there = FALSE, !.condemned = TRUE]
  PROVE  z \in BlockTypes /\ z.key = b.key /\ z.there = FALSE /\ z.times = b.times
BY DEF BlockTypes

LEMMA ClaimedBlock ==
  ASSUME NEW b \in BlockTypes, NEW z, z = [b EXCEPT !.there = FALSE]
  PROVE  /\ z \in BlockTypes /\ z.key = b.key /\ z.there = FALSE /\ z.times = b.times
         /\ z.condemned = b.condemned
BY DEF BlockTypes

LEMMA DeliveredBlock ==
  ASSUME NEW b \in BlockTypes, NEW z, z = [b EXCEPT !.times = @ + 1]
  PROVE  /\ z \in BlockTypes /\ z.key = b.key /\ z.there = b.there /\ z.times = b.times + 1
         /\ z.condemned = b.condemned
BY DEF BlockTypes

\* A block is discarded only from its file.
LEMMA DiscardKeeps ==
  ASSUME BlocksInv, scope' = scope, NEW s \in Slots, NEW p, p.kind # "claim",
         hook' = [hook EXCEPT ![s] = p], NEW key, Prompt!Discard(key)
  PROVE  BlocksInv'
<1> DEFINE taken(n) == blocks[n].there /\ blocks[n].key = key
           z(n) == [blocks[n] EXCEPT !.there = FALSE, !.condemned = TRUE]
<1>1. blocks \in Seq(BlockTypes) /\ DOMAIN blocks = 1 .. Len(blocks) /\ Len(blocks) \in Nat
  BY LenProperties DEF BlocksInv
<1>2. DOMAIN blocks' = DOMAIN blocks
      /\ \A n \in DOMAIN blocks : blocks'[n] = IF taken(n) THEN z(n) ELSE blocks[n]
  BY DEF Prompt!Discard
<1>3. ASSUME NEW n \in DOMAIN blocks
      PROVE  blocks[n] \in BlockTypes /\ z(n) \in BlockTypes /\ z(n).key = blocks[n].key
             /\ (taken(n) => BlockOK(z(n)))
  <2>1. blocks[n] \in BlockTypes /\ BlockOK(blocks[n])
    BY <1>1, ElementOfSeq DEF BlocksInv
  <2>2. /\ z(n) \in BlockTypes /\ z(n).key = blocks[n].key /\ ~z(n).there
        /\ z(n).times = blocks[n].times
    BY <2>1, CondemnedBlock
  <2> HIDE DEF z
  <2> QED BY <2>1, <2>2 DEF BlockOK
<1>4. blocks' = [n \in 1 .. Len(blocks) |-> IF taken(n) THEN z(n) ELSE blocks[n]]
  BY <1>1 DEF Prompt!Discard
<1>5. blocks' \in Seq(BlockTypes)
  <2> HIDE DEF taken, z
  <2>1. \A n \in 1 .. Len(blocks) : (IF taken(n) THEN z(n) ELSE blocks[n]) \in BlockTypes
    BY <1>1, <1>3
  <2> QED BY <1>1, <1>4, <2>1, IsASeq
<1>6. scope' \in Scopes
  BY DEF BlocksInv
<1>7. \A n \in DOMAIN blocks' : BlockOK(blocks'[n])
  <2> HIDE DEF z
  <2> QED BY <1>2, <1>3 DEF BlocksInv
<1>8. \A n \in DOMAIN blocks :
        blocks'[n].key = blocks[n].key /\ (blocks'[n] = blocks[n] \/ blocks[n].there)
  <2> HIDE DEF z
  <2> QED BY <1>2, <1>3
<1> HIDE DEF taken, z
<1> QED BY <1>2, <1>5, <1>6, <1>7, <1>8, BlocksChange

\* A block that is with a process reaches the model once, with it.
LEMMA DeliverHookKeeps ==
  ASSUME BlocksInv, NEW s \in Slots, Prompt!Deliver(s)
  PROVE  BlocksInv'
<1> DEFINE got == hook[s].got
           z(n) == [blocks[n] EXCEPT !.times = @ + 1]
<1>1. blocks \in Seq(BlockTypes) /\ DOMAIN blocks = 1 .. Len(blocks) /\ Len(blocks) \in Nat
  BY LenProperties DEF BlocksInv
<1>2. DOMAIN blocks' = DOMAIN blocks
      /\ \A n \in DOMAIN blocks : blocks'[n] = IF n \in got THEN z(n) ELSE blocks[n]
  BY DEF Prompt!Deliver
<1>3. ASSUME NEW n \in DOMAIN blocks
      PROVE  blocks[n] \in BlockTypes /\ z(n) \in BlockTypes /\ z(n).key = blocks[n].key
             /\ (n \in got => BlockOK(z(n)))
  <2>1. blocks[n] \in BlockTypes
    BY <1>1, ElementOfSeq
  <2>2. /\ z(n) \in BlockTypes /\ z(n).key = blocks[n].key /\ z(n).there = blocks[n].there
        /\ z(n).times = blocks[n].times + 1 /\ z(n).condemned = blocks[n].condemned
    BY <2>1, DeliveredBlock
  <2>3. n \in got => ~blocks[n].there /\ blocks[n].times = 0 /\ ~blocks[n].condemned
    BY DEF Prompt!Deliver, BlocksInv, ClaimOK
  <2> HIDE DEF z, got
  <2> QED BY <2>1, <2>2, <2>3 DEF BlockOK
<1>4. blocks' = [n \in 1 .. Len(blocks) |-> IF n \in got THEN z(n) ELSE blocks[n]]
  BY <1>1 DEF Prompt!Deliver
<1>5. blocks' \in Seq(BlockTypes)
  <2> HIDE DEF got, z
  <2>1. \A n \in 1 .. Len(blocks) : (IF n \in got THEN z(n) ELSE blocks[n]) \in BlockTypes
    BY <1>1, <1>3
  <2> QED BY <1>1, <1>4, <2>1, IsASeq
<1>6. /\ scope' \in Scopes /\ hook[s].kind = "claim" /\ Prompt!Gone.kind # "claim"
      /\ hook' = [hook EXCEPT ![s] = Prompt!Gone]
  BY DEF BlocksInv, Prompt!Deliver, Prompt!Leave, Prompt!access, Prompt!Gone
<1>7. \A n \in DOMAIN blocks' : BlockOK(blocks'[n])
  <2> HIDE DEF z, got
  <2> QED BY <1>2, <1>3 DEF BlocksInv
<1>8. \A n \in DOMAIN blocks :
        blocks'[n].key = blocks[n].key /\ (blocks'[n] = blocks[n] \/ n \in got)
  <2> HIDE DEF z, got
  <2> QED BY <1>2, <1>3
<1> HIDE DEF z
<1> QED BY <1>2, <1>5, <1>6, <1>7, <1>8, BlocksChange

\* Of processes that claim a block, the one that finds it there has it.
LEMMA ClaimKeeps ==
  ASSUME BlocksInv, NEW s \in Slots, Prompt!Claim(s)
  PROVE  BlocksInv'
<1>1. PICK n \in hook[s].files :
        /\ hook' = [hook EXCEPT ![s] =
             Prompt!Claiming(@.scope, @.files \ {n},
                             @.got \cup {m \in {n} : Prompt!Claimed(m)})]
        /\ blocks' = [blocks EXCEPT ![n].there = FALSE]
  BY DEF Prompt!Claim
<1> DEFINE p == hook[s]
           more == {m \in {n} : blocks[m].there}
           q == [kind |-> "claim", scope |-> p.scope, files |-> p.files \ {n},
                 got |-> p.got \cup more]
           z == [blocks[n] EXCEPT !.there = FALSE]
<1>2. /\ p.kind = "claim" /\ ClaimOK(p, blocks) /\ n \in DOMAIN blocks
      /\ scope' \in Scopes
  BY DEF BlocksInv, ClaimOK, Prompt!Claim, Prompt!access
<1>3. {m \in {n} : Prompt!Claimed(m)} = more
  BY DEF Prompt!Claimed
<1>4. hook' = [hook EXCEPT ![s] = q]
  BY <1>1, <1>3 DEF Prompt!Claiming
<1>5. blocks \in Seq(BlockTypes) /\ DOMAIN blocks = 1 .. Len(blocks)
  BY LenProperties DEF BlocksInv
<1>6. blocks[n] \in BlockTypes /\ BlockOK(blocks[n])
  BY <1>2, <1>5, ElementOfSeq DEF BlocksInv
<1>7. /\ z \in BlockTypes /\ z.key = blocks[n].key /\ z.there = FALSE
      /\ z.times = blocks[n].times /\ z.condemned = blocks[n].condemned
  BY <1>6, ClaimedBlock
<1>8. blocks' = [blocks EXCEPT ![n] = z]
  BY <1>1
<1> HIDE DEF z, q
<1>9. /\ blocks' \in Seq(BlockTypes) /\ DOMAIN blocks' = DOMAIN blocks
      /\ blocks'[n] = z /\ \A m \in DOMAIN blocks : m # n => blocks'[m] = blocks[m]
  BY <1>2, <1>5, <1>7, <1>8, ExceptSeq
<1>10. DOMAIN hook' = Slots /\ hook'[s] = q /\ \A r \in Slots : r # s => hook'[r] = hook[r]
  BY <1>4 DEF BlocksInv
<1>11. \A m \in DOMAIN blocks' : BlockOK(blocks'[m])
  BY <1>6, <1>7, <1>9 DEF BlockOK, BlocksInv
<1>12. ClaimOK(q, blocks')
  <2>1. \A m \in more : m = n /\ blocks[m].there
    OBVIOUS
  <2>2. /\ q = [kind |-> "claim", scope |-> q.scope, files |-> q.files, got |-> q.got]
        /\ q.scope = p.scope /\ q.files \subseteq p.files /\ q.got = p.got \cup more
    BY DEF q
  <2> HIDE DEF more
  <2>3. q.files \subseteq DOMAIN blocks' /\ q.got \subseteq DOMAIN blocks'
    BY <1>2, <1>9, <2>1, <2>2 DEF ClaimOK
  <2>4. \A m \in q.files \cup q.got : blocks'[m].key = q.scope
    BY <1>2, <1>7, <1>9, <2>1, <2>2 DEF ClaimOK
  <2>5. \A m \in q.got : ~blocks'[m].there /\ blocks'[m].times = 0 /\ ~blocks'[m].condemned
    <3>1. ASSUME NEW m \in p.got
          PROVE  ~blocks'[m].there /\ blocks'[m].times = 0 /\ ~blocks'[m].condemned
      BY <1>2, <1>7, <1>9 DEF ClaimOK
    <3>2. ASSUME NEW m \in more
          PROVE  ~blocks'[m].there /\ blocks'[m].times = 0 /\ ~blocks'[m].condemned
      BY <1>2, <1>6, <1>7, <1>9, <2>1 DEF BlockOK
    <3> QED BY <3>1, <3>2, <2>2
  <2> QED BY <2>2, <2>3, <2>4, <2>5 DEF ClaimOK
<1>13. ASSUME NEW r \in Slots PROVE ClaimOK(hook'[r], blocks')
  <2>1. CASE r = s
    BY <1>10, <1>12, <2>1
  <2>2. CASE r # s
    <3>1. hook'[r] = hook[r] /\ ClaimOK(hook[r], blocks)
      BY <1>10, <2>2 DEF BlocksInv
    <3> QED BY <1>2, <1>7, <1>9, <3>1, SMTT(30) DEF ClaimOK
  <2> QED BY <2>1, <2>2
<1>14. ASSUME NEW r \in Slots, r # s PROVE Apart(hook[r], q)
  <2>1. Apart(hook[r], p) /\ ClaimOK(hook[r], blocks)
    BY <1>14 DEF BlocksInv
  <2>2. q.got = p.got \cup more /\ \A m \in more : blocks[m].there
    BY DEF q
  <2> HIDE DEF more
  <2> QED BY <1>2, <2>1, <2>2 DEF Apart, ClaimOK
<1>15. \A r, t \in Slots : r # t => Apart(hook'[r], hook'[t])
  BY <1>10, <1>14 DEF BlocksInv, Apart
<1> QED BY <1>2, <1>9, <1>10, <1>11, <1>13, <1>15 DEF BlocksInv

\* A process that goes on to claim has claimed nothing yet.
LEMMA ProbeHookKeeps ==
  ASSUME BlocksInv, NEW s \in Slots, NEW answer, Prompt!EndProbe(s, answer)
  PROVE  BlocksInv'
<1> DEFINE key == hook[s].scope
           q == [kind |-> "claim", scope |-> key, files |-> Prompt!FirstPending(key),
                 got |-> {}]
<1>1. scope' = scope /\ Prompt!Gone.kind # "claim" /\ scope' \in Scopes
  BY DEF Prompt!EndProbe, Prompt!access, Prompt!Gone, BlocksInv
<1>2. CASE answer = "denied" \/ scope # key
  BY <1>1, <1>2, DiscardKeeps DEF Prompt!EndProbe
<1>3. CASE answer = "ok" /\ scope = key
  <2>1. hook' = [hook EXCEPT ![s] = q] /\ blocks' = blocks
    BY <1>3 DEF Prompt!EndProbe, Prompt!Claiming
  <2>2. /\ q.kind = "claim" /\ q.got = {} /\ q.scope = key
        /\ q = [kind |-> "claim", scope |-> q.scope, files |-> q.files, got |-> q.got]
        /\ q.files \subseteq DOMAIN blocks /\ \A n \in q.files : blocks[n].key = key
    BY DEF Prompt!FirstPending, Prompt!Pending
  <2> HIDE DEF q
  <2>3. DOMAIN hook' = Slots /\ \A r \in Slots : hook'[r] = IF r = s THEN q ELSE hook[r]
    BY <2>1 DEF BlocksInv
  <2>4. \A r \in Slots : ClaimOK(hook'[r], blocks)
    BY <2>2, <2>3 DEF BlocksInv, ClaimOK
  <2>5. \A r, t \in Slots : r # t => Apart(hook'[r], hook'[t])
    BY <2>2, <2>3 DEF BlocksInv, Apart
  <2> QED BY <1>1, <2>1, <2>3, <2>4, <2>5 DEF BlocksInv
<1>4. CASE answer \notin {"ok", "denied"} /\ scope = key
  <2>1. hook' = [hook EXCEPT ![s] = Prompt!Gone] /\ blocks' = blocks
    BY <1>4 DEF Prompt!EndProbe
  <2> QED BY <1>1, <2>1, BlocksChange DEF BlocksInv
<1> QED BY <1>2, <1>3, <1>4

LEMMA BlocksStep ==
  ASSUME BlocksInv, [Prompt!Next]_promptVars
  PROVE  BlocksInv'
<1> USE DEF Prompt!access
<1>1. ASSUME NEW s \in Slots, Prompt!Step(s) PROVE BlocksInv'
  <2>1. CASE Prompt!BeginStart(s) \/ Prompt!BeginPrompt(s) \/ Prompt!BeginTool(s)
    <3>1. UNCHANGED <<blocks, scope>>
      BY <2>1 DEF Prompt!BeginStart, Prompt!BeginPrompt, Prompt!BeginTool
    <3>2. \/ hook' = [hook EXCEPT ![s] = [kind |-> "start", scope |-> scope]]
          \/ hook' = [hook EXCEPT ![s] = [kind |-> "tool", scope |-> scope]]
          \/ hook' = [hook EXCEPT ![s] = [kind |-> "prompt", scope |-> scope, cached |-> cache,
                                          seen |-> tally.writes]]
      BY <2>1 DEF Prompt!BeginStart, Prompt!BeginPrompt, Prompt!BeginTool, Prompt!Enter
    <3> QED BY <3>1, <3>2, BlocksChange DEF BlocksInv
  <2>2. CASE Prompt!Kill(s)
    <3>1. /\ UNCHANGED <<blocks, scope>> /\ hook' = [hook EXCEPT ![s] = Prompt!Gone]
          /\ Prompt!Gone.kind # "claim"
      BY <2>2 DEF Prompt!Kill, Prompt!Leave, Prompt!Gone
    <3> QED BY <3>1, BlocksChange DEF BlocksInv
  <2>3. ASSUME NEW empty, Prompt!EndStart(s, empty) PROVE BlocksInv'
    <3>1. /\ scope' = scope /\ hook' = [hook EXCEPT ![s] = Prompt!Gone]
          /\ Prompt!Gone.kind # "claim"
          /\ Prompt!Stash(scope, {"preamble"}) \/ UNCHANGED blocks
      BY <2>3 DEF Prompt!EndStart, Prompt!HandOver, Prompt!Leave, Prompt!Gone
    <3> QED BY <3>1, StashKeeps
  <2>4. ASSUME NEW got, Prompt!EndPrompt(s, got) PROVE BlocksInv'
    <3>1. /\ scope' = scope /\ hook' = [hook EXCEPT ![s] = Prompt!Gone]
          /\ Prompt!Gone.kind # "claim"
          /\ \E what \in SUBSET {"preamble", "answer", "roster"} :
               Prompt!Stash(scope, what) \/ UNCHANGED blocks
      BY <2>4 DEF Prompt!EndPrompt, Prompt!HandOver, Prompt!Leave, Prompt!Gone
    <3> QED BY <3>1, StashKeeps
  <2> QED BY <1>1, <2>1, <2>2, <2>3, <2>4, DeliverHookKeeps, ClaimKeeps, ProbeHookKeeps
          DEF Prompt!Step, Prompt!EndPromptBackedUp
<1>2. CASE Prompt!ChangeScope \/ Prompt!Regrant \/ UNCHANGED promptVars
  <2>1. UNCHANGED <<blocks, hook>> /\ scope' \in Scopes
    BY <1>2 DEF Prompt!ChangeScope, Prompt!Regrant, Prompt!Change, promptVars, BlocksInv
  <2> QED BY <2>1 DEF BlocksInv
<1> QED BY <1>1, <1>2 DEF Prompt!Next

LEMMA PromptAlways == Spec => [](part = "prompt" => BudgetInv /\ BlocksInv)
<1> DEFINE Inv == part = "prompt" => BudgetInv /\ BlocksInv
<1>1. Init => Inv
  BY BudgetInitially, BlocksInitially DEF Init
<1>2. Inv /\ [Next]_all => Inv'
  <2> SUFFICES ASSUME Inv, [Next]_all PROVE Inv'
    OBVIOUS
  <2>1. CASE PromptNext
    BY <2>1, BudgetStep, BlocksStep DEF PromptNext
  <2>2. CASE UNCHANGED <<part, promptVars>>
    BY <2>2, BudgetStep, BlocksStep
  <2> QED BY <2>1, <2>2
          DEF Next, RuntimeNext, FilesNext, WriteBackNext, ReadersNext, SetupNext, all
<1> QED BY <1>1, <1>2, PTL DEF Spec

\* Whatever processes of a session's hooks overlap or are killed: the model gets a block
\* at most once, and none that a refusal found waiting; a process claims blocks of its own
\* scope only; and but for writes that undid others, the session asks, fails, injects and
\* skips no more often than its limits say.
THEOREM BlocksAreHandedOverOnce == Spec => []HandoffOnce
<1>1. BlocksInv => Prompt!HandoffOnce /\ Prompt!ClaimsItsScope
  BY DEF BlocksInv, BlockOK, ClaimOK, Prompt!HandoffOnce, Prompt!ClaimsItsScope
<1>2. BudgetInv => Prompt!InjectionBudget
  BY AgentsConstants
     DEF BudgetInv, Fits, Prompt!One, TallyTypes, CacheTypes, Prompt!PromptConstants,
         Prompt!InjectionBudget
<1>3. (part = "prompt" => BudgetInv /\ BlocksInv) => HandoffOnce
  BY <1>1, <1>2 DEF HandoffOnce
<1> QED BY <1>3, PromptAlways, PTL

-----------------------------------------------------------------------------
(* The installer.  A command that reports a complete roll-back has restored   *)
(* every file, and the user's content is never lost but for what Forfeit and  *)
(* passedOver name.  What the adapters of HostAdapters write is a finite      *)
(* table, of which the proofs use what EveryAdapter says; what one write      *)
(* makes of a file is EffectOK.  RestoreInv and ContentInv are the inductive  *)
(* invariants.                                                                *)
(*                                                                            *)
(* The user's content of a file that has to stay is on the disk, or else a    *)
(* copy is kept: that is all the transaction needs.                           *)

\* What the user must not lose of file f.
Must(f) == origin[f] \ Setup!Forfeit(f)

\* TraeCode's hook file does not begin with a single key of the user's, as it would be
\* removed with it (the run TraeHooks).
NoLoneKey ==
  \A start \in Starts :
    LET own == (start \cap Setup!Keys("trae.hooks")) \ {"lookalike"}
    IN  own = {} \/ \E k, l \in own : k # l

EffectKinds ==
  {"hooks", "unhook", "tidyhook", "adopt", "versioned", "traeunhook", "ownfile", "delete", "both",
   "unboth", "mcp", "unmcp", "plugin", "unplugin", "extension", "unextension", "tables", "untables",
   "block", "append", "unblock", "status", "unstatus", "skill", "unskill", "cli", "uncli", "cliplugin",
   "trycliplugin", "verdict", "uncliplugin", "mustuncli", "grant", "ungrant", "forget"}
Kinds == EffectKinds \cup {"unuser", "repo", "unrepo", "ignore", "record"}
TextKinds == {"tables", "untables", "block", "append", "unblock", "ignore"}
OurFile == "copilot.hooks"

\* A file that does not parse has content of the user's only if it is text.
FileOK(f, c) ==
  /\ c = Setup!File(c.shape, c.user, c.ours)
  /\ c.shape \in {"absent", "plain", "broken"}
  /\ c.shape = "absent" => c.user = {}
  /\ c.shape = "broken" /\ f \notin Setup!TextFiles => c.user = {}

\* A write of kind do is for a file f of its kind.
Placed(do, f) ==
  /\ do \in Kinds
  /\ do \in {"ownfile", "delete"} => f = OurFile
  /\ do = "traeunhook" => f = "trae.hooks"
  /\ do = "unboth" => f = "zcode.config"
  /\ do \notin TextKinds => f \notin Setup!TextFiles

WriteOK(s) ==
  /\ s = Setup!Step(s.of, s.do, s.file)
  /\ Placed(s.do, s.file) \/ (s.do \in {"stage", "sweep"} /\ s.file \notin Setup!TextFiles)

OpsOK(ops) ==
  /\ ops \in Seq(Range(ops))
  /\ \A k \in 1 .. Len(ops) : Placed(ops[k].do, ops[k].file)

AdapterOK(a) == OpsOK(a.install) /\ OpsOK(a.uninstall)

LEMMA EveryAdapter == \A h \in Setup!Harnesses : AdapterOK(Setup!Adapters[h])
<1> USE DEF AdapterOK, OpsOK, Placed, Range, Kinds, EffectKinds, TextKinds, OurFile, Setup!TextFiles,
            Setup!Adapter, Setup!Op, Setup!Skill, Setup!Unskill, Setup!SkillDir, Setup!Runtime
<1>1. AdapterOK(Setup!OpencodeAdapter)
  BY DEF Setup!OpencodeAdapter
<1>2. AdapterOK(Setup!KiloAdapter)
  BY DEF Setup!KiloAdapter
<1>3. AdapterOK(Setup!ClaudeAdapter)
  BY DEF Setup!ClaudeAdapter
<1>4. AdapterOK(Setup!CodexAdapter)
  BY DEF Setup!CodexAdapter
<1>5. AdapterOK(Setup!AntigravityAdapter)
  BY DEF Setup!AntigravityAdapter
<1>6. AdapterOK(Setup!DevinAdapter)
  BY DEF Setup!DevinAdapter
<1>7. AdapterOK(Setup!CursorAdapter)
  BY DEF Setup!CursorAdapter
<1>8. AdapterOK(Setup!CopilotAdapter)
  BY DEF Setup!CopilotAdapter
<1>9. AdapterOK(Setup!GrokAdapter)
  BY DEF Setup!GrokAdapter
<1>10. AdapterOK(Setup!KimiAdapter)
  BY DEF Setup!KimiAdapter
<1>11. AdapterOK(Setup!ClineAdapter)
  BY DEF Setup!ClineAdapter
<1>12. AdapterOK(Setup!DcodeAdapter)
  BY DEF Setup!DcodeAdapter
<1>13. AdapterOK(Setup!DshAdapter)
  BY DEF Setup!DshAdapter
<1>14. AdapterOK(Setup!QwenAdapter)
  BY DEF Setup!QwenAdapter
<1>15. AdapterOK(Setup!DroidAdapter)
  BY DEF Setup!DroidAdapter
<1>16. AdapterOK(Setup!ZcodeAdapter)
  BY DEF Setup!ZcodeAdapter
<1>17. AdapterOK(Setup!TraecodeAdapter)
  BY DEF Setup!TraecodeAdapter
<1>18. AdapterOK(Setup!PiFamily("pi", "pi.settings")) /\ AdapterOK(Setup!PiFamily("prime", "prime.settings"))
  BY DEF Setup!PiFamily
<1>19. AdapterOK(Setup!GenieFamily("workbuddy", "workbuddy.settings", "workbuddy.mcp"))
       /\ AdapterOK(Setup!GenieFamily("codebuddy", "codebuddy.settings", "codebuddy.mcp"))
  BY DEF Setup!GenieFamily
<1> HIDE DEF AdapterOK
<1> QED
  BY <1>1, <1>2, <1>3, <1>4, <1>5, <1>6, <1>7, <1>8, <1>9, <1>10, <1>11, <1>12, <1>13, <1>14, <1>15, <1>16, <1>17, <1>18, <1>19
     DEF Setup!Harnesses, Setup!Adapters

\* File f as c has what must stay of it.
Intact(f, m, c) == FileOK(f, c) /\ m \subseteq c.user

LEMMA EditsKeepContent ==
  ASSUME NEW f, NEW m, "lookalike" \notin m, NEW c, Intact(f, m, c), NEW h, NEW kind
  PROVE  /\ Intact(f, m, Setup!MergeHooks(h, c)) /\ Intact(f, m, Setup!StripHooks(h, c))
         /\ Intact(f, m, Setup!Put(h, kind, c)) /\ Intact(f, m, Setup!Drop(h, kind, c))
         /\ Intact(f, m, Setup!PutServer(h, c)) /\ Intact(f, m, Setup!Seed(h, kind, c))
         /\ Intact(f, m, Setup!WithoutMarked(c))
         /\ Intact(f, m, Setup!ParseJsonc(c)) /\ Intact(f, m, Setup!RemoveIfEmpty(c))
         /\ f \notin Setup!TextFiles => Intact(f, m, Setup!ReadJson(c))
<1>1. \A ours : Intact(f, m, [c EXCEPT !.ours = ours])
  BY DEF Intact, FileOK, Setup!File
<1>2. Intact(f, m, Setup!ParseJsonc(c)) /\ (f \notin Setup!TextFiles => Intact(f, m, Setup!ReadJson(c)))
  BY DEF Intact, FileOK, Setup!File, Setup!ReadJson, Setup!ParseJsonc
<1>3. Intact(f, m, Setup!RemoveIfEmpty(c))
  BY DEF Intact, FileOK, Setup!File, Setup!RemoveIfEmpty, Setup!Absent
<1>4. Intact(f, m, Setup!WithoutMarked(c))
  BY DEF Intact, FileOK, Setup!File, Setup!WithoutMarked
<1>5. \A d, ours : Intact(f, m, d) => Intact(f, m, [d EXCEPT !.ours = ours])
  BY DEF Intact, FileOK, Setup!File
<1>6. Intact(f, m, Setup!StripHooks(h, c))
  BY <1>4, <1>5 DEF Setup!StripHooks
<1>7. Intact(f, m, Setup!MergeHooks(h, c))
  BY <1>5, <1>6 DEF Setup!MergeHooks
<1>8. Intact(f, m, Setup!Put(h, kind, c)) /\ Intact(f, m, Setup!Drop(h, kind, c))
      /\ Intact(f, m, Setup!PutServer(h, c))
  BY <1>1 DEF Setup!Put, Setup!Drop, Setup!PutServer
<1>9. Intact(f, m, Setup!Seed(h, kind, c))
  BY <1>8 DEF Setup!Seed
<1> QED BY <1>2, <1>3, <1>4, <1>6, <1>7, <1>8, <1>9

\* What a write of kind do spares.
Spares(do, m) ==
  /\ "lookalike" \notin m
  /\ do \in {"ownfile", "delete"} => m = {}
  /\ do = "traeunhook" => m = {} \/ \E k, l \in m : k # l
  /\ do = "unboth" => "limit" \notin m \/ "events" \in m

LEMMA WritesKeepContent ==
  ASSUME NEW f, NEW m, NEW do \in EffectKinds, Placed(do, f), Spares(do, m), NEW h, NEW c, Intact(f, m, c),
         NEW works, NEW gr
  PROVE  Intact(f, m, Setup!Effect(do, h, c, works, gr).to)
<1> DEFINE e == Setup!Effect(do, h, c, works, gr)
<1>1. \A d, kind, g : Intact(f, m, d) =>
        /\ Intact(f, m, Setup!MergeHooks(g, d)) /\ Intact(f, m, Setup!StripHooks(g, d))
        /\ Intact(f, m, Setup!Put(g, kind, d)) /\ Intact(f, m, Setup!Drop(g, kind, d))
        /\ Intact(f, m, Setup!PutServer(g, d)) /\ Intact(f, m, Setup!Seed(g, kind, d))
        /\ Intact(f, m, Setup!WithoutMarked(d))
        /\ Intact(f, m, Setup!ParseJsonc(d)) /\ Intact(f, m, Setup!RemoveIfEmpty(d))
  BY EditsKeepContent DEF Spares
<1>2. do \notin TextKinds => \A d : Intact(f, m, d) => Intact(f, m, Setup!ReadJson(d))
  BY EditsKeepContent DEF Spares, Placed
<1>3. m = {} => Intact(f, m, Setup!Absent) /\ Intact(f, m, Setup!File("plain", {}, {}))
  BY DEF Intact, FileOK, Setup!Absent, Setup!File
<1>4. Setup!Done(c).to = c /\ Setup!Same(c).to = c /\ \A d : Setup!Done(d).to = d
  BY DEF Setup!Done, Setup!Same
<1> DEFINE r == Setup!ReadJson(c)
<1>5. do \notin TextKinds => Intact(f, m, r)
  BY <1>2
<1> HIDE DEF r
<1>10. CASE do \in {"hooks", "unhook", "tidyhook", "mcp", "unmcp", "extension", "unextension"}
  <2> USE DEF TextKinds
  <2>1. CASE do = "hooks"
    BY <1>1, <1>4, <1>5, <2>1 DEF Setup!Effect, r
  <2>2. CASE do = "unhook"
    <3>1. e.to = IF c.shape = "absent" THEN c ELSE Setup!StripHooks(h, r)
      BY <1>4, <2>2 DEF Setup!Effect, r
    <3> QED BY <1>1, <1>5, <2>2, <3>1
  <2>3. CASE do = "tidyhook"
    BY <1>1, <1>4, <1>5, <2>3 DEF Setup!Effect, r
  <2>4. CASE do = "mcp"
    BY <1>1, <1>4, <1>5, <2>4 DEF Setup!Effect, r
  <2>5. CASE do = "unmcp"
    BY <1>1, <1>4, <1>5, <2>5 DEF Setup!Effect, r
  <2>6. CASE do = "extension"
    BY <1>1, <1>4, <1>5, <2>6 DEF Setup!Effect, r
  <2>7. CASE do = "unextension"
    <3>1. e.to = IF c.shape = "absent" THEN c
                 ELSE Setup!Drop(h, "extension", Setup!WithoutMarked(r))
      BY <1>4, <2>7 DEF Setup!Effect, r
    <3> QED BY <1>1, <1>5, <2>7, <3>1
  <2> QED BY <1>10, <2>1, <2>2, <2>3, <2>4, <2>5, <2>6, <2>7
<1>11. CASE do = "adopt"
  <2> DEFINE s == IF c.shape = "absent" THEN Setup!File("plain", {"copied"}, {}) ELSE r
  <2>1. Intact(f, m, s)
    <3>1. c.shape = "absent" => m = {}
      BY DEF Intact, FileOK
    <3>2. m = {} => Intact(f, m, Setup!File("plain", {"copied"}, {}))
      BY DEF Intact, FileOK, Setup!File
    <3> QED BY <1>5, <1>11, <3>1, <3>2 DEF TextKinds
  <2>2. e.to = Setup!MergeHooks(h, s)
    BY <1>4, <1>11 DEF Setup!Effect, Setup!AdoptHooks, r
  <2> QED BY <1>1, <2>1, <2>2
<1>12. CASE do = "versioned"
  <2>1. e.to = Setup!MergeHooks(h, Setup!Seed(h, "version", r))
    BY <1>4, <1>12 DEF Setup!Effect, Setup!MergeVersioned, r
  <2> QED BY <1>1, <1>5, <1>12, <2>1 DEF TextKinds
<1>13. CASE do = "traeunhook"
  <2> DEFINE s == Setup!StripHooks("traecode", r)
  <2>1. Intact(f, m, s)
    BY <1>1, <1>5, <1>13 DEF TextKinds
  <2>2. e.to = Setup!TraeUninstall(c)
    BY <1>4, <1>13 DEF Setup!Effect
  <2>3. CASE c.shape = "absent" \/ \E k, l \in Setup!TraeKeys(s) : k # l
    BY <2>1, <2>2, <2>3 DEF Setup!TraeUninstall, r
  <2>4. CASE ~ (c.shape = "absent" \/ \E k, l \in Setup!TraeKeys(s) : k # l)
    <3>1. m = {}
      BY <1>13, <2>1, <2>4 DEF Setup!TraeKeys, Intact, Spares
    <3> QED BY <1>3, <2>2, <2>4, <3>1 DEF Setup!TraeUninstall, r
  <2> QED BY <2>3, <2>4
<1>14. CASE do = "ownfile"
  <2>1. e.to = Setup!MergeHooks(h, Setup!File("plain", {}, {}))
    BY <1>4, <1>14 DEF Setup!Effect
  <2> QED BY <1>1, <1>3, <1>14, <2>1 DEF Spares
<1>15. CASE do = "delete"
  <2>1. e.to = Setup!Absent
    BY <1>4, <1>15 DEF Setup!Effect
  <2> QED BY <1>3, <1>15, <2>1 DEF Spares
<1>16. CASE do = "both"
  <2>1. e.to = Setup!PutServer("zcode", Setup!MergeHooks("zcode",
                 Setup!Seed("zcode", "limit", Setup!Put("zcode", "enabled", r))))
    BY <1>4, <1>16 DEF Setup!Effect, Setup!ZcodeInstall, r
  <2> QED BY <1>1, <1>5, <1>16, <2>1 DEF TextKinds
<1>17. CASE do = "unboth"
  <2> DEFINE q == Setup!Drop("zcode", "mcp", r)
             s == Setup!StripHooks("zcode", q)
             t == [s EXCEPT !.user = @ \ {"limit"}]
  <2>1. Intact(f, m, q) /\ Intact(f, m, s)
    BY <1>1, <1>5, <1>17 DEF TextKinds
  <2>2. e.to = IF c.shape = "absent" THEN c
               ELSE IF "events" \in s.user \/ s = q THEN s
               ELSE Setup!Drop("zcode", "enabled", Setup!Drop("zcode", "limit", t))
    BY <1>4, <1>17 DEF Setup!Effect, Setup!ZcodeUninstall, r
  <2>3. "events" \notin s.user => Intact(f, m, t)
    <3> HIDE DEF s
    <3>1. "events" \notin s.user => "limit" \notin m
      BY <1>17, <2>1 DEF Intact, Spares
    <3> QED BY <2>1, <3>1 DEF Intact, FileOK, Setup!File
  <2> HIDE DEF s, t, q
  <2> QED BY <1>1, <2>1, <2>2, <2>3
<1>18. CASE do = "plugin"
  BY <1>1, <1>4, <1>18 DEF Setup!Effect, Setup!RegisterPlugin
<1>19. CASE do = "unplugin"
  BY <1>1, <1>4, <1>19 DEF Setup!Effect, Setup!UnregisterPlugin
<1>20. CASE do = "tables"
  BY <1>1, <1>4, <1>20 DEF Setup!Effect, Setup!WriteTables
<1>21. CASE do = "untables"
  BY <1>1, <1>4, <1>21 DEF Setup!Effect, Setup!StripTables
<1>22. CASE do = "block"
  BY <1>1, <1>4, <1>22 DEF Setup!Effect, Setup!WriteBlock
<1>23. CASE do \in {"append", "unblock"}
  <2>1. Intact(f, m, Setup!StripBlock(h, c))
    BY <1>1 DEF Setup!StripBlock
  <2>2. CASE do = "append"
    BY <1>1, <1>4, <2>1, <2>2 DEF Setup!Effect, Setup!AppendBlock
  <2>3. CASE do = "unblock"
    BY <1>4, <2>1, <2>3 DEF Setup!Effect
  <2> QED BY <1>23, <2>2, <2>3
<1>24. CASE do = "status"
  BY <1>1, <1>4, <1>5, <1>24 DEF Setup!Effect, Setup!EnableStatusLine, r, TextKinds
<1>25. CASE do = "grant"
  BY <1>1, <1>4, <1>5, <1>25 DEF Setup!Effect, Setup!GrantSandbox, r, TextKinds
<1>26. CASE do = "skill"
  <2>1. \E ours : e.to = Setup!File("plain", c.user, ours)
    BY <1>4, <1>26 DEF Setup!Effect
  <2> QED BY <2>1 DEF Intact, FileOK, Setup!File
<1>27. CASE do = "unskill"
  BY <1>1, <1>4, <1>27 DEF Setup!Effect
<1>28. CASE do \in {"cli", "uncli", "cliplugin", "trycliplugin"}
  <2>1. CASE do = "cli"
    BY <1>1, <1>4, <2>1 DEF Setup!Effect
  <2>2. CASE do = "uncli"
    BY <1>1, <1>4, <2>2 DEF Setup!Effect
  <2>3. CASE do = "cliplugin"
    BY <1>1, <1>4, <2>3 DEF Setup!Effect
  <2>4. CASE do = "trycliplugin"
    BY <1>1, <1>4, <2>4 DEF Setup!Effect
  <2> QED BY <1>28, <2>1, <2>2, <2>3, <2>4
<1>29. CASE do \in {"verdict", "uncliplugin", "mustuncli"}
  <2>1. CASE do = "verdict"
    BY <1>4, <2>1 DEF Setup!Effect
  <2>2. CASE do = "uncliplugin"
    BY <1>1, <1>4, <2>2 DEF Setup!Effect
  <2>3. CASE do = "mustuncli"
    BY <1>1, <1>4, <2>3 DEF Setup!Effect
  <2> QED BY <1>29, <2>1, <2>2, <2>3
<1>30. CASE do \in {"unstatus", "ungrant", "forget"}
  <2>1. CASE do = "unstatus"
    BY <1>1, <1>4, <2>1 DEF Setup!Effect
  <2>2. CASE do = "ungrant"
    BY <1>1, <1>4, <2>2 DEF Setup!Effect
  <2>3. CASE do = "forget"
    BY <1>1, <1>4, <2>3 DEF Setup!Effect
  <2> QED BY <1>30, <2>1, <2>2, <2>3
<1> QED
  BY <1>10, <1>11, <1>12, <1>13, <1>14, <1>15, <1>16, <1>17, <1>18, <1>19, <1>20, <1>21, <1>22, <1>23, <1>24, <1>25, <1>26, <1>27, <1>28, <1>29, <1>30
     DEF EffectKinds

\* A command's files: those of its writes, finitely many.
LEMMA OpsAreOfFiles ==
  ASSUME NEW h \in Setup!Harnesses
  PROVE  /\ \A k \in 1 .. Len(Setup!Adapters[h].install) :
              Setup!Adapters[h].install[k].file \in Setup!FilesOf(h) \cup {Setup!Runtime}
         /\ \A k \in 1 .. Len(Setup!Adapters[h].uninstall) :
              Setup!Adapters[h].uninstall[k].file \in Setup!FilesOf(h) \cup {Setup!Runtime}
         /\ IsFiniteSet(Setup!FilesOf(h))
<1> DEFINE a == Setup!Adapters[h].install  b == Setup!Adapters[h].uninstall
           ops == Setup!OpsOf(h)  n == Len(a) + Len(b)
           files == {ops[k].file : k \in 1 .. n}
<1>1. OpsOK(a) /\ OpsOK(b)
  BY EveryAdapter DEF AdapterOK
<1>2. ops = a \o b
  BY DEF Setup!OpsOf
<1> HIDE DEF a, b, ops
<1>3. a \in Seq(Range(a)) /\ b \in Seq(Range(b)) /\ Len(a) \in Nat /\ Len(b) \in Nat
  BY <1>1, LenProperties DEF OpsOK
<1>0. a \in Seq(Range(a) \cup Range(b)) /\ b \in Seq(Range(a) \cup Range(b))
  BY <1>3
<1>4. Len(ops) = n /\ \A k \in 1 .. n : ops[k] = IF k <= Len(a) THEN a[k] ELSE b[k - Len(a)]
  BY <1>0, <1>2, <1>3, ConcatProperties
<1>5. Setup!FilesOf(h) = files \ {Setup!Runtime}
  BY <1>4 DEF Setup!FilesOf, ops
<1>6. \A k \in 1 .. Len(a) : k \in 1 .. n /\ ops[k] = a[k]
  BY <1>3, <1>4
<1>7. \A k \in 1 .. Len(b) : Len(a) + k \in 1 .. n /\ ops[Len(a) + k] = b[k]
  <2> TAKE k \in 1 .. Len(b)
  <2>1. Len(a) + k \in 1 .. n /\ ~ (Len(a) + k <= Len(a)) /\ (Len(a) + k) - Len(a) = k
    BY <1>3
  <2> QED BY <1>4, <2>1
<1>8. IsFiniteSet(files)
  <2> DEFINE f == [k \in 1 .. n |-> ops[k].file]
  <2>1. f \in Surjection(1 .. n, files)
    BY DEF Surjection
  <2>2. IsFiniteSet(1 .. n)
    BY <1>3, FS_Interval
  <2> HIDE DEF f, files
  <2> QED BY <2>1, <2>2, FS_Surjection
<1>9. IsFiniteSet(Setup!FilesOf(h))
  BY <1>5, <1>8, FS_Subset
<1>10. \A k \in 1 .. Len(a) : a[k].file \in Setup!FilesOf(h) \cup {Setup!Runtime}
  BY <1>5, <1>6
<1>11. \A k \in 1 .. Len(b) : b[k].file \in Setup!FilesOf(h) \cup {Setup!Runtime}
  BY <1>5, <1>7
<1> QED BY <1>9, <1>10, <1>11 DEF a, b

LEMMA MachinesAreOfHarnesses ==
  \A S \in Scenes : \E g, h \in Setup!Harnesses : S = {g, h}
BY AgentsConstants DEF Setup!InstallConstants

LEMMA SetsAsSequences ==
  ASSUME NEW S, IsFiniteSet(S)
  PROVE  Setup!SetToSeq(S) \in Seq(S)
<1>1. Cardinality(S) \in Nat /\ ExistsBijection(1 .. Cardinality(S), S)
  BY FS_CardinalityType
<1>2. \E f \in [1 .. Cardinality(S) -> S] : Setup!IsInjective(f)
  BY <1>1 DEF ExistsBijection, Bijection, Injection, IsInjective, Setup!IsInjective
<1>0. Setup!Cardinality(S) = Cardinality(S)
  BY DEF Setup!Cardinality, Cardinality
<1>3. Setup!SetToSeq(S) \in [1 .. Cardinality(S) -> S]
  BY <1>0, <1>2 DEF Setup!SetToSeq
<1> QED BY <1>1, <1>3 DEF Seq

\* What is still to be written, in files F.
TodoOK(s, F) == s \in Seq(Range(s)) /\ \A k \in 1 .. Len(s) : WriteOK(s[k]) /\ s[k].file \in F

LEMMA AsRange == ASSUME NEW W, NEW s \in Seq(W)
                 PROVE s \in Seq(Range(s)) /\ \A k \in 1 .. Len(s) : s[k] \in W
BY DEF Range

LEMMA RuntimeIsNoText == Setup!Runtime \notin Setup!TextFiles
BY DEF Setup!Runtime, Setup!TextFiles

LEMMA PlanIsOK ==
  ASSUME NEW M \in Scenes, NEW S, S \subseteq M, NEW verb
  PROVE  /\ TodoOK(Setup!Plan(verb, S), Setup!MutationPaths(S))
         /\ Setup!MutationPaths(S) \subseteq Setup!Files(M)
         /\ \A h \in S : TodoOK(Setup!WritesOf(verb, h), Setup!MutationPaths(S))
<1> DEFINE F == Setup!MutationPaths(S)
<1>1. PICK g \in Setup!Harnesses, k \in Setup!Harnesses : M = {g, k}
  BY MachinesAreOfHarnesses
<1>2. F = {Setup!Runtime} \cup UNION {Setup!FilesOf(h) : h \in S}
  BY DEF Setup!MutationPaths, Setup!Files
<1>3. F \subseteq Setup!Files(M)
  BY <1>2 DEF Setup!Files
<1>4. \A h \in S : Setup!FilesOf(h) \subseteq F /\ Setup!Runtime \in F
  BY <1>2
<1>5. IsFiniteSet(F)
  <2>1. IsFiniteSet(Setup!FilesOf(g) \cup Setup!FilesOf(k) \cup {Setup!Runtime})
    BY OpsAreOfFiles, FS_Union, FS_Singleton
  <2>2. F \in SUBSET (Setup!FilesOf(g) \cup Setup!FilesOf(k) \cup {Setup!Runtime})
    BY <1>1, <1>2
  <2> QED BY <2>1, <2>2, FS_Subset
<1>6. TodoOK(Setup!Plan(verb, S), F)
  <2> DEFINE files == Setup!SetToSeq(Setup!JsonFiles(S))
             stage == Setup!Step("runtime", "stage", Setup!Runtime)
             sweeps == [i \in 1 .. Len(files) |-> Setup!Step("sweep", "sweep", files[i])]
             first == IF verb = "uninstall" THEN <<>> ELSE <<stage>>
  <2>1. Setup!JsonFiles(S) \in SUBSET F
    BY DEF Setup!JsonFiles
  <2>2. files \in Seq(F)
    BY <1>5, <2>1, FS_Subset, SetsAsSequences
  <2>3. WriteOK(stage) /\ stage.file \in F
    BY <1>2, RuntimeIsNoText DEF WriteOK, Setup!Step
  <2>4. \A i \in 1 .. Len(files) : WriteOK(Setup!Step("sweep", "sweep", files[i]))
                                   /\ Setup!Step("sweep", "sweep", files[i]).file \in F
    <3>1. Setup!JsonFiles(S) \cap Setup!TextFiles = {}
      BY DEF Setup!JsonFiles, Setup!NotJson
    <3>2. \A i \in 1 .. Len(files) : files[i] \in Setup!JsonFiles(S)
      BY <1>5, <2>1, FS_Subset, SetsAsSequences
    <3> HIDE DEF files
    <3> QED BY <2>1, <3>1, <3>2 DEF WriteOK, Setup!Step
  <2> DEFINE W == {w \in {stage} \cup Range(sweeps) : WriteOK(w) /\ w.file \in F}
  <2> HIDE DEF files, stage
  <2>5. Len(files) \in Nat
    BY <2>2
  <2>6. sweeps \in Seq(W)
    BY <2>4, <2>5 DEF Range
  <2>7. first \in Seq(W)
    <3>1. stage \in W
      BY <2>3
    <3> HIDE DEF W
    <3> QED BY <3>1
  <2>8. Setup!Plan(verb, S) = first \o sweeps
    BY DEF Setup!Plan, files, stage
  <2> HIDE DEF first, sweeps, W
  <2>9. Setup!Plan(verb, S) \in Seq(W)
    BY <2>6, <2>7, <2>8, ConcatProperties
  <2>10. \A w \in W : WriteOK(w) /\ w.file \in F
    BY DEF W
  <2> QED BY <2>9, <2>10, AsRange DEF TodoOK
<1>7. ASSUME NEW h \in S PROVE TodoOK(Setup!WritesOf(verb, h), F)
  <2> DEFINE ops == IF verb = "install" THEN Setup!Adapters[h].install ELSE Setup!Adapters[h].uninstall
             todos == [i \in 1 .. Len(ops) |-> Setup!Step(h, ops[i].do, ops[i].file)]
  <2>1. h \in Setup!Harnesses
    BY <1>1
  <2>2. OpsOK(ops)
    BY <2>1, EveryAdapter DEF AdapterOK
  <2>3. \A i \in 1 .. Len(ops) : ops[i].file \in F
    BY <1>4, <2>1, OpsAreOfFiles
  <2>4. Setup!WritesOf(verb, h) = todos
    BY DEF Setup!WritesOf
  <2> HIDE DEF ops
  <2>5. Len(ops) \in Nat
    BY <2>2 DEF OpsOK
  <2>6. todos \in Seq(Range(todos)) /\ Len(todos) = Len(ops)
    BY <2>5 DEF Range
  <2>7. \A i \in 1 .. Len(ops) : WriteOK(todos[i]) /\ todos[i].file \in F
    BY <2>2, <2>3 DEF OpsOK, WriteOK, Setup!Step
  <2> HIDE DEF todos
  <2> QED BY <2>4, <2>6, <2>7 DEF TodoOK
<1> QED BY <1>3, <1>6, <1>7

\* A command keeps what it may write among its snapshots: any other file is as it was.
RestoreInv ==
  /\ scene \in Scenes
  /\ disk = [f \in Setup!Files(scene) |-> disk[f]]
  /\ before = [f \in Setup!Files(scene) |-> before[f]]
  /\ snapshots \subseteq Setup!Files(scene)
  /\ TodoOK(todo, snapshots)
  /\ \A h \in remaining : \A verb : TodoOK(Setup!WritesOf(verb, h), snapshots)
  /\ result \in {"running", "failing"} =>
       \A f \in Setup!Files(scene) \ snapshots : disk[f] = before[f]
  /\ command = Setup!Idle => result = "none"
  /\ result = "restored" => disk = before

LEMMA NoTodo == ASSUME NEW F PROVE TodoOK(<<>>, F)
BY DEF TodoOK

LEMMA RestoreInitially == Setup!Init => RestoreInv
<1> SUFFICES ASSUME Setup!Init PROVE RestoreInv
  OBVIOUS
<1> QED BY NoTodo DEF Setup!Init, RestoreInv

LEMMA NextTodo ==
  ASSUME NEW s, NEW F, TodoOK(s, F), s # <<>>
  PROVE  WriteOK(Head(s)) /\ Head(s).file \in F /\ TodoOK(Tail(s), F)
<1>1. s \in Seq(Range(s)) /\ Len(s) \in Nat /\ Len(s) # 0 /\ Head(s) = s[1]
  BY DEF TodoOK
<1>2. Tail(s) \in Seq(Range(s)) /\ Len(Tail(s)) = Len(s) - 1
      /\ \A k \in 1 .. Len(s) - 1 : Tail(s)[k] = s[k + 1]
  BY <1>1, HeadTailProperties
<1>3. \A k \in 1 .. Len(s) - 1 : k + 1 \in 1 .. Len(s)
  BY <1>1
<1>4. Tail(s) \in Seq(Range(Tail(s)))
  BY <1>2, AsRange
<1> QED BY <1>1, <1>2, <1>3, <1>4 DEF TodoOK

LEMMA RestoreStep ==
  ASSUME RestoreInv, [Setup!Next]_machineVars
  PROVE  RestoreInv'
<1> USE DEF RestoreInv
<1>1. ASSUME NEW verb \in {"install", "uninstall"}, NEW S \in SUBSET scene, Setup!Begin(verb, S)
      PROVE  RestoreInv'
  <2>1. /\ TodoOK(Setup!Plan(verb, S), Setup!MutationPaths(S))
        /\ Setup!MutationPaths(S) \subseteq Setup!Files(scene)
        /\ \A h \in S : \A v : TodoOK(Setup!WritesOf(v, h), Setup!MutationPaths(S))
    BY PlanIsOK
  <2>2. command' # Setup!Idle
    BY <1>1 DEF Setup!Begin, Setup!Idle
  <2> QED BY <1>1, <2>1, <2>2 DEF Setup!Begin
<1>2. CASE Setup!BeginUpdate
  <2>1. command' # Setup!Idle
    BY <1>2 DEF Setup!BeginUpdate, Setup!Idle
  <2>2. Setup!Runtime \in Setup!Files(scene)
    BY DEF Setup!Files
  <2>3. TodoOK(<<Setup!Step("runtime", "stage", Setup!Runtime)>>, {Setup!Runtime})
    <3> DEFINE w == Setup!Step("runtime", "stage", Setup!Runtime)
    <3>1. WriteOK(w) /\ w.file = Setup!Runtime
      BY RuntimeIsNoText DEF WriteOK, Setup!Step
    <3> HIDE DEF w
    <3>2. <<w>> \in Seq(Range(<<w>>)) /\ Len(<<w>>) = 1 /\ <<w>>[1] = w
      BY DEF Range
    <3>3. TodoOK(<<w>>, {Setup!Runtime})
      BY <3>1, <3>2 DEF TodoOK
    <3> QED BY <3>3 DEF w
  <2> QED BY <1>2, <2>1, <2>2, <2>3 DEF Setup!BeginUpdate
<1>3. ASSUME NEW h \in remaining, Setup!RunAdapter(h) PROVE RestoreInv'
  BY <1>3 DEF Setup!RunAdapter
<1>4. CASE Setup!Write
  <2>1. Head(todo).file \in snapshots /\ TodoOK(Tail(todo), snapshots)
    BY <1>4, NextTodo DEF Setup!Write
  <2> QED BY <1>4, <2>1 DEF Setup!Write
<1>5. CASE Setup!Commit
  BY <1>5, NoTodo DEF Setup!Commit
<1>6. CASE Setup!Fail
  <2>1. Head(todo).file \in snapshots
    BY <1>6, NextTodo DEF Setup!Fail
  <2>2. disk' = disk \/ \E c : disk' = [disk EXCEPT ![Head(todo).file] = c]
    BY <1>6 DEF Setup!Fail
  <2> QED BY <1>6, <2>1, <2>2 DEF Setup!Fail
<1>7. ASSUME NEW stuck \in SUBSET snapshots, Setup!Rollback(stuck) PROVE RestoreInv'
  <2>1. command # Setup!Idle
    BY <1>7 DEF Setup!Rollback
  <2>2. stuck = {} => disk' = before
    BY <1>7 DEF Setup!Rollback
  <2> QED BY <1>7, <2>1, <2>2, NoTodo DEF Setup!Rollback
<1>8. CASE Setup!Killed
  <2>1. Head(todo).file \in snapshots
    BY <1>8, NextTodo DEF Setup!Killed
  <2>2. \E c : disk' = [disk EXCEPT ![Head(todo).file] = c]
    BY <1>8 DEF Setup!Killed
  <2> QED BY <1>8, <2>1, <2>2, NoTodo DEF Setup!Killed
<1>9. CASE Setup!Return
  BY <1>9 DEF Setup!Return
<1>10. CASE UNCHANGED machineVars
  BY <1>10 DEF machineVars
<1>11. CASE Setup!PassOver
  <2>1. Head(todo).file \in snapshots /\ TodoOK(Tail(todo), snapshots)
    BY <1>11, NextTodo DEF Setup!PassOver
  <2>2. \E c : disk' = [disk EXCEPT ![Head(todo).file] = c]
    BY <1>11 DEF Setup!PassOver
  <2> QED BY <1>11, <2>1, <2>2 DEF Setup!PassOver
<1> QED BY <1>1, <1>2, <1>3, <1>4, <1>5, <1>6, <1>7, <1>8, <1>9, <1>10, <1>11 DEF Setup!Next

\* What is on file f of the disk d, or kept of it.
Kept(f, d) ==
  /\ FileOK(f, d[f])
  /\ NoLoneKey /\ f \notin passedOver =>
       Must(f) \subseteq d[f].user \/ Must(f) \subseteq left[f]
KeptIn(d) == \A f \in Setup!Files(scene) : Kept(f, d)

ContentInv ==
  /\ left = [f \in Setup!Files(scene) |-> left[f]]
  /\ OurFile \in Setup!Files(scene) => Must(OurFile) = {}
  /\ NoLoneKey /\ "trae.hooks" \in Setup!Files(scene) =>
       Must("trae.hooks") = {} \/ \E k, l \in Must("trae.hooks") : k # l
  /\ KeptIn(before)
  /\ result # "failing" => KeptIn(disk)
  /\ result = "failing" => \A f \in Setup!Files(scene) : FileOK(f, disk[f])

LEMMA ForfeitIsExcused ==
  ASSUME NEW f
  PROVE  /\ "lookalike" \notin Must(f)
         /\ f = "zcode.config" => "limit" \notin Must(f) \/ "events" \in Must(f)
BY DEF Must, Setup!Forfeit

LEMMA ContentInitially == Setup!Init => ContentInv
<1> SUFFICES ASSUME Setup!Init PROVE ContentInv
  OBVIOUS
<1> DEFINE F == Setup!Files(scene)
<1>1. PICK start \in Starts, how \in [F \ Setup!Fresh -> {"absent", "empty", "full"}] :
        disk = [f \in F |-> Setup!Begins(IF f \in Setup!Fresh THEN "absent" ELSE how[f], f, start)]
  BY DEF Setup!Init
<1>2. /\ origin = [f \in F |-> disk[f].user] /\ left = [f \in F |-> {}]
      /\ before = disk /\ result = "none"
  BY DEF Setup!Init
<1>3. ASSUME NEW f \in F
      PROVE  FileOK(f, disk[f]) /\ origin[f] = disk[f].user
             /\ origin[f] \in {{}, start \cap Setup!Keys(f)}
             /\ (f = OurFile => origin[f] = {})
  <2>1. \E h : disk[f] = Setup!Begins(h, f, start) /\ (f = OurFile => h = "absent")
    BY <1>1 DEF Setup!Fresh, OurFile
  <2>2. FileOK(f, disk[f]) /\ disk[f].user \in {{}, start \cap Setup!Keys(f)}
        /\ (f = OurFile => disk[f].user = {})
    BY <2>1 DEF Setup!Begins, FileOK, Setup!Absent, Setup!File
  <2> QED BY <1>2, <2>2
<1>4. OurFile \in F => Must(OurFile) = {}
  BY <1>3 DEF Must
<1>5. ASSUME NoLoneKey, "trae.hooks" \in F
      PROVE  Must("trae.hooks") = {} \/ \E k, l \in Must("trae.hooks") : k # l
  <2>1. Must("trae.hooks") = origin["trae.hooks"] \ {"lookalike"}
    BY DEF Must, Setup!Forfeit
  <2>2. origin["trae.hooks"] \in {{}, start \cap Setup!Keys("trae.hooks")}
    BY <1>3, <1>5
  <2> HIDE DEF F
  <2> QED BY <1>5, <2>1, <2>2 DEF NoLoneKey
<1>6. KeptIn(disk)
  BY <1>3 DEF KeptIn, Kept, Must
<1> QED BY <1>2, <1>4, <1>5, <1>6 DEF ContentInv, KeptIn

\* What one write makes of its file.
LEMMA OutcomesKeepContent ==
  ASSUME NEW s, WriteOK(s), NEW m, Intact(s.file, m, disk[s.file]), Spares(s.do, m)
  PROVE  Intact(s.file, m, Setup!Outcome(s).to)
<1> DEFINE f == s.file  c == disk[f]
<1>0. \A d : Setup!Done(d).to = d
  BY DEF Setup!Done
<1>a. \A d, kind, g : Intact(f, m, d) =>
        /\ Intact(f, m, Setup!Put(g, kind, d)) /\ Intact(f, m, Setup!Drop(g, kind, d))
        /\ Intact(f, m, Setup!PutServer(g, d))
        /\ Intact(f, m, Setup!ParseJsonc(d)) /\ Intact(f, m, Setup!RemoveIfEmpty(d))
        /\ (f \notin Setup!TextFiles => Intact(f, m, Setup!ReadJson(d)))
  BY EditsKeepContent DEF Spares
<1>1. CASE s.do = "stage"
  <2>1. \E ours : Setup!Outcome(s).to = Setup!File("plain", c.user, ours)
    BY <1>0, <1>1 DEF Setup!Outcome, Setup!StageRuntime
  <2> QED BY <2>1 DEF Intact, FileOK, Setup!File
<1>2. CASE s.do = "sweep"
  <2>1. Setup!Outcome(s).to = c \/ \E ours : Setup!Outcome(s).to = Setup!File("plain", c.user, ours)
    BY <1>0, <1>2 DEF Setup!Outcome, Setup!Sweep
  <2>2. \A ours : Intact(f, m, Setup!File("plain", c.user, ours))
    BY DEF Intact, FileOK, Setup!File
  <2> QED BY <2>1, <2>2
<1>3. CASE s.do = "unuser"
  <2>1. f \notin Setup!TextFiles
    BY <1>3 DEF WriteOK, Placed, TextKinds
  <2>2. \/ Setup!Outcome(s).to = c
        \/ Setup!Outcome(s).to = Setup!RemoveIfEmpty(Setup!Drop("traecode", "mcp", Setup!ReadJson(c)))
    BY <1>0, <1>3 DEF Setup!Outcome
  <2> QED BY <1>a, <2>1, <2>2
<1>4. CASE s.do = "repo"
  <2>1. Setup!Outcome(s).to = c \/ Setup!Outcome(s).to = Setup!PutServer("traecode", Setup!ParseJsonc(c))
    BY <1>0, <1>4 DEF Setup!Outcome
  <2> QED BY <1>a, <2>1
<1>5. CASE s.do = "unrepo"
  <2>1. \/ Setup!Outcome(s).to = c
        \/ Setup!Outcome(s).to = Setup!RemoveIfEmpty(Setup!Drop("traecode", "mcp", c))
    BY <1>0, <1>5 DEF Setup!Outcome
  <2> QED BY <1>a, <2>1
<1>6. CASE s.do \in {"ignore", "record"}
  <2>1. Setup!Outcome(s).to = c \/ \E kind : Setup!Outcome(s).to = Setup!Put("traecode", kind, c)
    <3>1. CASE s.do = "ignore"
      BY <1>0, <3>1 DEF Setup!Outcome
    <3>2. CASE s.do = "record"
      BY <1>0, <3>2 DEF Setup!Outcome
    <3> QED BY <1>6, <3>1, <3>2
  <2> QED BY <1>a, <2>1
<1>7. CASE s.do \notin {"stage", "sweep", "unuser", "repo", "unrepo", "ignore", "record"}
  <2>1. s.do \in EffectKinds /\ Placed(s.do, f)
    BY <1>7 DEF WriteOK, Placed, Kinds
  <2>2. Setup!Outcome(s) = Setup!Effect(s.do, Setup!Owner(s.of), c, cli, Setup!Granted)
    BY <1>7 DEF Setup!Outcome
  <2> QED BY <2>1, <2>2, WritesKeepContent
<1> QED BY <1>1, <1>2, <1>3, <1>4, <1>5, <1>6, <1>7

\* A half-written file is still one, whatever it has lost.
LEMMA HalvesAreFiles ==
  ASSUME NEW f, NEW c, FileOK(f, c), NEW to, FileOK(f, to), NEW d \in Setup!HalfWritten(f, c, to)
  PROVE  FileOK(f, d)
<1>1. FileOK(f, Setup!Torn) /\ FileOK(f, Setup!File("plain", {}, {}))
  BY DEF FileOK, Setup!Torn, Setup!File
<1>2. CASE f \in Setup!TextFiles
  BY <1>1, <1>2 DEF Setup!HalfWritten, FileOK, Setup!File
<1>3. CASE f \notin Setup!TextFiles
  <2>1. d \in {c, Setup!Torn} \/ \E ours : d = Setup!File("plain", c.user, ours)
    BY <1>3 DEF Setup!HalfWritten
  <2> QED BY <1>1, <2>1 DEF FileOK, Setup!File
<1> QED BY <1>2, <1>3

LEMMA NextIsAFile ==
  ASSUME RestoreInv, ContentInv, todo # <<>>, result = "running"
  PROVE  LET f == Head(todo).file
         IN  /\ f \in snapshots /\ f \in Setup!Files(scene) /\ WriteOK(Head(todo))
             /\ FileOK(f, disk[f]) /\ FileOK(f, Setup!Outcome(Head(todo)).to)
             /\ \A d \in Setup!HalfWritten(f, disk[f], Setup!Outcome(Head(todo)).to) : FileOK(f, d)
<1> DEFINE f == Head(todo).file
<1>1. WriteOK(Head(todo)) /\ f \in snapshots /\ f \in Setup!Files(scene)
  BY NextTodo DEF RestoreInv
<1>2. FileOK(f, disk[f])
  BY <1>1 DEF ContentInv, KeptIn, Kept
<1>3. Intact(f, {}, disk[f]) /\ Spares(Head(todo).do, {})
  BY <1>2 DEF Intact, Spares
<1>4. FileOK(f, Setup!Outcome(Head(todo)).to)
  BY <1>1, <1>3, OutcomesKeepContent DEF Intact
<1> QED BY <1>1, <1>2, <1>4, HalvesAreFiles

LEMMA NothingThere == \A f : FileOK(f, Setup!Absent) /\ Setup!Absent.user = {}
BY DEF FileOK, Setup!Absent, Setup!File

LEMMA WriteKeepsContent ==
  ASSUME RestoreInv, ContentInv, Setup!Write
  PROVE  ContentInv'
<1> DEFINE F == Setup!Files(scene)  f == Head(todo).file  to == Setup!Outcome(Head(todo)).to
<1>1. /\ UNCHANGED <<scene, origin, left, before, passedOver, result>>
      /\ todo # <<>> /\ result = "running" /\ disk' = [disk EXCEPT ![f] = to]
  BY DEF Setup!Write
<1>2. f \in F /\ WriteOK(Head(todo)) /\ FileOK(f, disk[f]) /\ FileOK(f, to)
  BY <1>1, NextIsAFile
<1>3. NoLoneKey /\ Must(f) \subseteq disk[f].user => Must(f) \subseteq to.user
  <2> SUFFICES ASSUME NoLoneKey, Must(f) \subseteq disk[f].user PROVE Must(f) \subseteq to.user
    OBVIOUS
  <2>1. Spares(Head(todo).do, Must(f))
    BY <1>2, ForfeitIsExcused DEF WriteOK, Placed, Spares, ContentInv
  <2>2. Intact(f, Must(f), disk[f])
    BY <1>2 DEF Intact
  <2> QED BY <1>2, <2>1, <2>2, OutcomesKeepContent DEF Intact
<1> HIDE DEF f, to
<1>4. ASSUME NEW g \in F PROVE Kept(g, disk)'
  <2>1. Kept(g, disk) /\ Must(g)' = Must(g)
    BY <1>1 DEF ContentInv, KeptIn, Must, Setup!Forfeit
  <2>2. disk'[g] = IF g = f THEN to ELSE disk[g]
    BY <1>1 DEF RestoreInv
  <2> QED BY <1>1, <1>2, <1>3, <2>1, <2>2 DEF Kept
<1>5. KeptIn(disk)'
  BY <1>1, <1>4 DEF KeptIn
<1>6. KeptIn(before)'
  BY <1>1 DEF ContentInv, KeptIn, Kept, Must, Setup!Forfeit
<1> QED BY <1>1, <1>5, <1>6 DEF ContentInv, Must, Setup!Forfeit

LEMMA FailKeepsContent ==
  ASSUME RestoreInv, ContentInv, Setup!Fail
  PROVE  ContentInv'
<1> DEFINE F == Setup!Files(scene)  f == Head(todo).file  to == Setup!Outcome(Head(todo)).to
<1>1. /\ UNCHANGED <<scene, origin, left, before, passedOver>>
      /\ todo # <<>> /\ result = "running" /\ result' = "failing"
      /\ disk' = disk \/ \E c \in Setup!HalfWritten(f, disk[f], to) : disk' = [disk EXCEPT ![f] = c]
  BY DEF Setup!Fail
<1>2. f \in F /\ \A c \in Setup!HalfWritten(f, disk[f], to) : FileOK(f, c)
  BY <1>1, NextIsAFile
<1>3. \A g \in F : FileOK(g, disk[g])
  BY <1>1 DEF ContentInv, KeptIn, Kept
<1> HIDE DEF f, to
<1>4. \A g \in F : FileOK(g, disk'[g])
  BY <1>1, <1>2, <1>3 DEF RestoreInv
<1>5. KeptIn(before)'
  BY <1>1 DEF ContentInv, KeptIn, Kept, Must, Setup!Forfeit
<1> QED BY <1>1, <1>4, <1>5 DEF ContentInv, Must, Setup!Forfeit

LEMMA PassOverKeepsContent ==
  ASSUME RestoreInv, ContentInv, Setup!PassOver
  PROVE  ContentInv'
<1> DEFINE F == Setup!Files(scene)  f == Head(todo).file  to == Setup!Outcome(Head(todo)).to
<1>1. /\ UNCHANGED <<scene, origin, left, before, result>> /\ passedOver' = passedOver \cup {f}
      /\ todo # <<>> /\ result = "running"
      /\ \E c \in Setup!HalfWritten(f, disk[f], to) : disk' = [disk EXCEPT ![f] = c]
  BY DEF Setup!PassOver
<1>2. f \in F /\ \A c \in Setup!HalfWritten(f, disk[f], to) : FileOK(f, c)
  BY <1>1, NextIsAFile
<1> HIDE DEF f, to
<1>3. ASSUME NEW g \in F PROVE Kept(g, disk)' /\ Kept(g, before)'
  <2>1. Kept(g, disk) /\ Kept(g, before) /\ Must(g)' = Must(g)
    BY <1>1 DEF ContentInv, KeptIn, Must, Setup!Forfeit
  <2>2. FileOK(g, disk'[g]) /\ (g # f => disk'[g] = disk[g])
    BY <1>1, <1>2, <2>1 DEF RestoreInv, Kept
  <2> QED BY <1>1, <2>1, <2>2 DEF Kept
<1>4. KeptIn(disk)' /\ KeptIn(before)'
  BY <1>1, <1>3 DEF KeptIn
<1> QED BY <1>1, <1>4 DEF ContentInv, Must, Setup!Forfeit

LEMMA RollbackKeepsContent ==
  ASSUME RestoreInv, ContentInv, NEW stuck \in SUBSET snapshots, Setup!Rollback(stuck)
  PROVE  ContentInv'
<1> DEFINE F == Setup!Files(scene)
<1>1. UNCHANGED <<scene, origin, before, passedOver>> /\ result = "failing" /\ result' # "failing"
  BY DEF Setup!Rollback
<1>2. left' = [g \in F |-> IF stuck # {} /\ g \in snapshots THEN left[g] \cup before[g].user
                           ELSE left[g]]
  BY DEF Setup!Rollback, ContentInv
<1>3. disk' = [g \in F |-> IF g \in stuck THEN Setup!Absent
                           ELSE IF g \in snapshots THEN before[g] ELSE disk[g]]
  BY DEF Setup!Rollback, RestoreInv
<1>4. ASSUME NEW g \in F PROVE Kept(g, disk)' /\ Kept(g, before)'
  <2>1. Kept(g, before) /\ left[g] \subseteq left'[g] /\ Must(g)' = Must(g)
    BY <1>1, <1>2 DEF ContentInv, KeptIn, Must, Setup!Forfeit
  <2>2. Kept(g, before)'
    BY <1>1, <2>1 DEF Kept
  <2>3. CASE g \in stuck
    <3>1. left'[g] = left[g] \cup before[g].user /\ disk'[g] = Setup!Absent
      BY <1>2, <1>3, <2>3
    <3> QED BY <1>1, <2>1, <2>2, <3>1, NothingThere DEF Kept
  <2>4. CASE g \notin stuck
    <3>1. disk'[g] = before'[g]
      BY <1>1, <1>3, <2>4 DEF RestoreInv
    <3> QED BY <2>2, <3>1 DEF Kept
  <2> QED BY <2>3, <2>4
<1>5. KeptIn(disk)' /\ KeptIn(before)'
  BY <1>1, <1>4 DEF KeptIn
<1> QED BY <1>1, <1>2, <1>5 DEF ContentInv, Must, Setup!Forfeit

LEMMA KilledKeepsContent ==
  ASSUME RestoreInv, ContentInv, Setup!Killed
  PROVE  ContentInv'
<1> DEFINE F == Setup!Files(scene)  f == Head(todo).file  to == Setup!Outcome(Head(todo)).to
<1>1. /\ UNCHANGED <<scene, origin, before, passedOver>>
      /\ todo # <<>> /\ result = "running" /\ result' = "killed"
      /\ \E c \in Setup!HalfWritten(f, disk[f], to) : disk' = [disk EXCEPT ![f] = c]
  BY DEF Setup!Killed
<1>2. f \in F /\ f \in snapshots /\ \A c \in Setup!HalfWritten(f, disk[f], to) : FileOK(f, c)
  BY <1>1, NextIsAFile
<1>3. left' = [g \in F |-> IF g \in snapshots THEN left[g] \cup before[g].user ELSE left[g]]
  BY DEF Setup!Killed, ContentInv
<1> HIDE DEF f, to
<1>4. ASSUME NEW g \in F PROVE Kept(g, disk)' /\ Kept(g, before)'
  <2>1. Kept(g, disk) /\ Kept(g, before) /\ left[g] \subseteq left'[g] /\ Must(g)' = Must(g)
    BY <1>1, <1>3 DEF ContentInv, KeptIn, Must, Setup!Forfeit
  <2>2. Kept(g, before)'
    BY <1>1, <2>1 DEF Kept
  <2>3. FileOK(g, disk'[g]) /\ (g # f => disk'[g] = disk[g])
    BY <1>1, <1>2, <2>1 DEF RestoreInv, Kept
  <2>4. g = f => left'[g] = left[g] \cup before[g].user
    BY <1>2, <1>3
  <2> QED BY <1>1, <2>1, <2>2, <2>3, <2>4 DEF Kept
<1>5. KeptIn(disk)' /\ KeptIn(before)'
  BY <1>1, <1>4 DEF KeptIn
<1> QED BY <1>1, <1>3, <1>5 DEF ContentInv, Must, Setup!Forfeit

LEMMA ReturnKeepsContent ==
  ASSUME RestoreInv, ContentInv, Setup!Return
  PROVE  ContentInv'
<1> DEFINE F == Setup!Files(scene)
<1>1. UNCHANGED <<scene, origin, before, left, passedOver>> /\ result # "failing" /\ result' = "none"
  BY DEF Setup!Return
<1>2. ASSUME NEW g \in F PROVE Kept(g, disk)' /\ Kept(g, before)'
  <2>1. Kept(g, disk) /\ Kept(g, before) /\ Must(g)' = Must(g)
    BY <1>1 DEF ContentInv, KeptIn, Must, Setup!Forfeit
  <2>2. disk'[g] = disk[g] \/ \E ours : disk'[g] = [disk[g] EXCEPT !.ours = ours]
    <3>1. \/ disk' = disk
          \/ disk' = [f \in F |-> [disk[f] EXCEPT !.ours = {[i EXCEPT !.rev = "old"] : i \in @}]]
      BY DEF Setup!Return, RestoreInv
    <3> QED BY <3>1
  <2>3. FileOK(g, disk'[g]) /\ disk'[g].user = disk[g].user
    BY <2>1, <2>2 DEF Kept, FileOK, Setup!File
  <2> QED BY <1>1, <2>1, <2>3 DEF Kept
<1>3. KeptIn(disk)' /\ KeptIn(before)'
  BY <1>1, <1>2 DEF KeptIn
<1> QED BY <1>1, <1>3 DEF ContentInv, Must, Setup!Forfeit

LEMMA ContentStep ==
  ASSUME RestoreInv, ContentInv, [Setup!Next]_machineVars
  PROVE  ContentInv'
<1>1. ASSUME \/ \E verb \in {"install", "uninstall"}, S \in SUBSET scene : Setup!Begin(verb, S)
             \/ Setup!BeginUpdate \/ Setup!Commit
             \/ \E h \in remaining : Setup!RunAdapter(h)
      PROVE  ContentInv'
  <2>1. UNCHANGED <<scene, disk, origin, left, passedOver>> /\ before' \in {before, disk}
    BY <1>1 DEF Setup!Begin, Setup!BeginUpdate, Setup!Commit, Setup!RunAdapter
  <2>2. result # "failing" /\ result' # "failing"
    BY <1>1 DEF Setup!Begin, Setup!BeginUpdate, Setup!Commit, Setup!RunAdapter, RestoreInv
  <2>3. KeptIn(disk)' /\ KeptIn(before)'
    BY <2>1, <2>2 DEF ContentInv, KeptIn, Kept, Must, Setup!Forfeit
  <2> QED BY <2>1, <2>2, <2>3 DEF ContentInv, Must, Setup!Forfeit
<1>2. CASE UNCHANGED machineVars
  BY <1>2 DEF machineVars, ContentInv, KeptIn, Kept, Must, Setup!Forfeit
<1> QED
  BY <1>1, <1>2, WriteKeepsContent, FailKeepsContent, PassOverKeepsContent, RollbackKeepsContent,
     KilledKeepsContent, ReturnKeepsContent DEF Setup!Next

LEMMA SetupAlways == Spec => [](part = "setup" => RestoreInv /\ ContentInv)
<1> DEFINE Inv == part = "setup" => RestoreInv /\ ContentInv
<1>1. Init => Inv
  BY RestoreInitially, ContentInitially DEF Init
<1>2. Inv /\ [Next]_all => Inv'
  <2> SUFFICES ASSUME Inv, [Next]_all PROVE Inv'
    OBVIOUS
  <2>1. CASE SetupNext
    BY <2>1, RestoreStep, ContentStep DEF SetupNext
  <2>2. CASE UNCHANGED <<part, machineVars>>
    BY <2>2, RestoreStep, ContentStep
  <2> QED BY <2>1, <2>2
          DEF Next, RuntimeNext, PromptNext, FilesNext, WriteBackNext, ReadersNext, all
<1> QED BY <1>1, <1>2, PTL DEF Spec

\* Whatever harnesses, files and failures: a command that reports a complete roll-back has
\* left every file as it found it.
THEOREM RollbackAlwaysRestores == Spec => [](part = "setup" => Setup!FailureRestores)
<1>1. RestoreInv => Setup!FailureRestores
  BY DEF RestoreInv, Setup!FailureRestores
<1> QED BY <1>1, SetupAlways, PTL

\* In addition, unless TraeCode's hook file begins with a single key of the user's, what
\* the user had in a file is on the disk or in a snapshot that was left behind, however
\* commands fail, are killed or cannot be rolled back; but for the hooks and plugins that
\* mention 'coding-agents', the limit in a ZCode hooks block without events of the user's,
\* and the files in which a failed write went unnoticed.
THEOREM FailuresAlwaysRestore == NoLoneKey => (Spec => []FailureRestores)
<1> SUFFICES ASSUME NoLoneKey PROVE Spec => []FailureRestores
  OBVIOUS
<1>1. RestoreInv /\ ContentInv => Setup!UserContentKept
  <2> SUFFICES ASSUME RestoreInv, ContentInv, NEW f \in Setup!Files(scene) \ passedOver
               PROVE  Must(f) \subseteq disk[f].user \cup left[f]
                                  \cup (IF f \in snapshots THEN before[f].user ELSE {})
    BY DEF Setup!UserContentKept, RestoreInv, Must
  <2>1. result # "failing" => Kept(f, disk)
    BY DEF ContentInv, KeptIn
  <2>2. Kept(f, before)
    BY DEF ContentInv, KeptIn
  <2>3. result = "failing" /\ f \notin snapshots => disk[f] = before[f]
    BY DEF RestoreInv
  <2> QED BY <2>1, <2>2, <2>3 DEF Kept
<1>2. RestoreInv => Setup!FailureRestores
  BY DEF RestoreInv, Setup!FailureRestores
<1>3. (part = "setup" => RestoreInv /\ ContentInv) => FailureRestores
  BY <1>1, <1>2 DEF FailureRestores
<1> QED BY <1>3, SetupAlways, PTL

=============================================================================
