--------------------------- MODULE QueueFileProofs ---------------------------
(***************************************************************************)
(* Proofs about the queue file, for any rows, banks, limits of generations *)
(* and crashes: nothing that was acknowledged is lost, damaged bytes stay  *)
(* in the file or in a snapshot, and the answer to a row that is sent can  *)
(* be recorded.  The last rests on an account of the room in the file      *)
(* (RoomLeft): either every line may grow to its limit, or the closed gate *)
(* has protected the rows and what the row that is sent may come to was    *)
(* set aside when it was marked.                                           *)
(***************************************************************************)
EXTENDS MCRouter, RecursionLemmas, SequenceTheorems, FiniteSetTheorems, TLAPS

-----------------------------------------------------------------------------
(* The queue file.  Its properties hold together: what a rewrite is about to *)
(* put in place (PendingInv) is kept apart from what is in the file, since   *)
(* the process may die before it gets there.                                 *)

\* Ids of rows and of bytes no reader has seen, and those of barriers.
RowNames == {<<n>> : n \in NewRows} \cup UNION {File!IdsOf(f) : f \in LeftFiles}
TornIds == {<<"torn", <<n>>>> : n \in NewRows}
BarrierIds(g) == {"corrupt"} \X (1..g) \X Nat
FileIds == RowNames \cup TornIds \cup BarrierIds(MaxGenerations)

RowStates ==
  [present : BOOLEAN, quarantine : {"none", "bank-mismatch", "permanent", "corrupt"},
   gate : {"none", "probe", "operator"}, sending : BOOLEAN, protected : BOOLEAN]
RowBanks == Banks \cup {"A", "B", "none", "unknown"}
FileRows ==
  [id : FileIds, junk : BOOLEAN, bytes : Nat, named : BOOLEAN, bank : RowBanks, attempts : Nat,
   state : RowStates, range : [source : Nat, offset : Nat, length : Nat], ended : BOOLEAN]
StageNames ==
  {"snapshot", "prepare", "append", "flush", "name", "mark", "deliver", "deny", "refuse",
   "release", "count"}
FileStages == StageNames \X (FileIds \cup FileRows \cup {<<>>})

FileTypes ==
  /\ lines \in Seq(FileRows) /\ generation \in 1..MaxGenerations
  /\ recovery \in [1..MaxGenerations -> Seq(FileIds)]
  /\ op \in [point : {"idle", "next", "preserve", "replace"}, todo : Seq(FileStages),
             items : Seq(FileRows), reserved : Int]
  /\ bank \in Banks /\ flushing \in BOOLEAN /\ limit \in Nat
  /\ acked \subseteq FileIds /\ junked \subseteq FileIds /\ answered \subseteq FileIds

\* The ids of the rows and of the junk of a file.
RowIds(file) == {file[n].id : n \in {m \in DOMAIN file : ~file[m].junk}}
JunkIds(file) == {file[n].id : n \in {m \in DOMAIN file : file[m].junk}}
Recovered == UNION {File!ToSet(recovery[g]) : g \in DOMAIN recovery}

\* The rows of a file of this generation, or of one that is about to be.
Distinct(file) == \A m, n \in DOMAIN file : file[m].id = file[n].id => m = n
OfGeneration(file, g) ==
  \A n \in DOMAIN file : file[n].id \in RowNames \cup (IF file[n].junk THEN TornIds ELSE BarrierIds(g))
NoJunk(file) == \A n \in DOMAIN file : ~file[n].junk
AllEnded(file) == \A n \in DOMAIN file : file[n].ended
JunkIsBare(file) ==
  \A n \in DOMAIN file :
    file[n].junk => file[n].state = File!NoState /\ file[n].range = File!NoRange

\* Barriers name bytes of older snapshots, each its own; "room" is the junk in each.
Ranged(file, g, room) ==
  \A n \in DOMAIN file :
    LET range == file[n].range IN
      range # File!NoRange =>
        /\ range.source \in 1..g /\ range.offset + range.length <= room[range.source]
        /\ \A m \in 1..(n - 1) : file[m].range.source = range.source
             => file[m].range.offset + file[m].range.length <= range.offset
Rooms == [g \in 1..MaxGenerations |-> Len(recovery[g])]

\* One row is being sent at most; its answer is not in yet.
Sending(file) == {n \in DOMAIN file : file[n].state.sending}
Unanswered(file) == {n \in Sending(file) : file[n].id \notin answered}
OneSent(file) ==
  /\ \A m, n \in Sending(file) : m = n
  /\ \A n \in Sending(file) : file[n].state.present /\ file[n].state.quarantine # "corrupt"

\* What a line may come to: a row with all its metadata, a barrier for junk.
MetadataLimit == 114
Growth == 53 + MetadataLimit
LineLimit(r) == IF ~r.junk THEN r.bytes + Growth
                ELSE IF r.bytes > 260 + Growth THEN r.bytes ELSE 260 + Growth
Roomy(file) == File!Total([n \in DOMAIN file |-> LineLimit(file[n])]) <= limit

\* A closed gate has protected all rows, and a row is only marked while the rows
\* that are not quarantined are of one bank.
Gated(file) == \E n \in DOMAIN file : file[n].state.gate # "none"
GateProtects(file) ==
  Gated(file) => NoJunk(file) /\ \A n \in DOMAIN file : file[n].state.present /\ file[n].state.protected
Open(file) == {n \in DOMAIN file : ~file[n].junk /\ file[n].state.quarantine = "none"}
OneBank(file) == \E b \in Banks : \A n \in Open(file) : file[n].bank = b
SentIsOpen(file) == \A n \in Sending(file) : n \in Open(file) \/ Open(file) = {}
HasHeadroom(file, room) == SentIsOpen(file) /\ File!ReplayOutcomeHeadroom(file) <= room
Tight(file) ==
  NoJunk(file) /\ AllEnded(file) /\ HasHeadroom(file, limit - File!FileBytes(file))

RoomLeft ==
  \/ Roomy(lines)
  \/ /\ GateProtects(lines) /\ (flushing => OneBank(lines))
     /\ Unanswered(lines) # {} => flushing /\ Tight(lines)

\* The lines of the file.
LinesInv ==
  /\ \A n \in DOMAIN lines : lines[n].ended \/ n = Len(lines)
  /\ Distinct(lines) /\ OfGeneration(lines, generation - 1) /\ JunkIsBare(lines)
  /\ Ranged(lines, generation - 1, Rooms) /\ OneSent(lines)
  /\ acked \subseteq RowIds(lines) /\ JunkIds(lines) \subseteq junked
  /\ junked \subseteq JunkIds(lines) \cup Recovered
  /\ \A g \in (generation + 1)..MaxGenerations : recovery[g] = <<>>
  /\ File!IsPrefix(recovery[generation], File!JunkOf(lines))

\* The stages of an operation, before a file they are to change.
OneOf(todo, names) == \A k \in DOMAIN todo : todo[k][1] \in names
After(todo, do, prior) ==
  \A k \in DOMAIN todo : todo[k][1] = do /\ k > 1 => todo[k - 1][1] = prior
EnqueueStages(todo, file) ==
  /\ OneOf(todo, {"snapshot", "prepare", "append"})
  /\ After(todo, "prepare", "snapshot") /\ After(todo, "append", "prepare")
  /\ \A j, k \in DOMAIN todo : todo[j][1] = "append" /\ todo[k][1] = "append" => j = k
  /\ \A k \in DOMAIN todo : todo[k][1] = "append" =>
       \E n \in NewRows, b \in Banks :
         /\ todo[k][2] = File!Row(<<n>>, RowBytes, b)
         /\ <<n>> \notin File!IdsOf(file) /\ <<"torn", <<n>>>> \notin File!IdsOf(file)
FlushStages(todo) ==
  /\ OneOf(todo, {"snapshot", "prepare", "flush"})
  /\ After(todo, "prepare", "snapshot") /\ After(todo, "flush", "prepare")
  /\ \A k \in DOMAIN todo : todo[k][1] = "flush" => k = Len(todo) /\ ~flushing
MarkStages(todo, file) ==
  /\ OneOf(todo, {"snapshot", "name", "mark"})
  /\ \A k \in DOMAIN todo : todo[k][1] # "snapshot" => todo[k][2] \in RowIds(file)
  /\ \A k \in DOMAIN todo : todo[k][1] = "mark" =>
       /\ k = Len(todo) /\ flushing /\ Sending(file) = {}
       /\ \A n \in DOMAIN file : file[n].id = todo[k][2] => n \in Open(file)
AnswerStages(todo, file) ==
  /\ OneOf(todo, {"deliver", "deny", "refuse", "release", "count"})
  /\ Unanswered(file) = {}
  /\ \A k \in DOMAIN todo : todo[k][1] = "deliver" => k = Len(todo)
  /\ \A k \in DOMAIN todo : todo[k][2] \in RowIds(file) /\ (todo[k][1] = "deliver" => todo[k][2] \notin acked)
StagesOk(todo, file) ==
  \/ EnqueueStages(todo, file)
  \/ FlushStages(todo)
  \/ MarkStages(todo, file)
  \/ AnswerStages(todo, file)

NextInv ==
  op.point = "next" =>
    /\ op.todo # <<>> /\ StagesOk(op.todo, lines)
    /\ op.todo[1][1] \in {"prepare", "append"} => NoJunk(lines)
    /\ op.todo[1][1] = "flush" => OneBank(lines) \/ Roomy(lines)

\* What a rewrite is about to put in place of the file.
JunkRooms == [Rooms EXCEPT ![generation] = Len(File!JunkOf(lines))]
ItemsInv(items) ==
  /\ Distinct(items) /\ OfGeneration(items, generation) /\ NoJunk(items) /\ AllEnded(items)
  /\ Ranged(items, generation, JunkRooms) /\ OneSent(items) /\ acked \subseteq RowIds(items)
  /\ Roomy(lines) => Roomy(items)
PendingRoom(items, reserved) ==
  \/ Roomy(items)
  \/ /\ GateProtects(items) /\ (flushing => OneBank(items))
     /\ Unanswered(items) # {} => flushing /\ HasHeadroom(items, reserved)
PendingInv ==
  op.point \in {"preserve", "replace"} =>
    /\ ItemsInv(op.items) /\ StagesOk(op.todo, op.items) /\ PendingRoom(op.items, op.reserved)
    /\ op.todo # <<>> /\ op.todo[1][1] = "flush" => OneBank(op.items) \/ Roomy(op.items)
    /\ op.point = "preserve" => File!JunkOf(lines) # <<>>
    /\ op.point = "replace" =>
         /\ JunkIds(lines) \subseteq File!ToSet(recovery[generation])
         /\ Len(File!JunkOf(lines)) <= Len(recovery[generation])

FileInv == FileTypes /\ LinesInv /\ RoomLeft /\ NextInv /\ PendingInv

-----------------------------------------------------------------------------
(* Sums *)

\* The running sum of a sequence of integers.
Sums(f, g) ==
  /\ g \in [0..Len(f) -> Int] /\ g[0] = 0
  /\ \A n \in 1..Len(f) : g[n] = g[n - 1] + f[n]

LEMMA TotalUnfolds ==
  ASSUME NEW f \in Seq(Int)
  PROVE  \E g : Sums(f, g) /\ File!Total(f) = g[Len(f)]
<1> DEFINE sum[n \in 0..Len(f)] == IF n = 0 THEN 0 ELSE sum[n - 1] + f[n]
           step == [n \in 1..Len(f) |-> [total \in Int |-> total + f[n]]]
           first == 0
<1>1. Len(f) \in Nat /\ \A n \in 1..Len(f) : f[n] \in Int
  OBVIOUS
<1>2. step \in Steps(Len(f), Int) /\ first \in Int
  BY <1>1 DEF Steps
<1>3. PICK g : Follows(g, Len(f), Int, first, step)
  <2> HIDE DEF step, first, sum
  <2> QED BY <1>1, <1>2, Recursion
<1>4. \A n \in 1..Len(f) : step[n][g[n - 1]] = g[n - 1] + f[n]
  BY <1>3, <1>1 DEF Follows
<1>5. g = [n \in 0..Len(f) |-> IF n = 0 THEN 0 ELSE g[n - 1] + f[n]]
  <2> HIDE DEF sum, step
  <2>1. \A n \in 0..Len(f) : (IF n = 0 THEN 0 ELSE step[n][g[n - 1]])
                            = (IF n = 0 THEN 0 ELSE g[n - 1] + f[n])
    BY <1>1, <1>4
  <2> QED BY <1>3, <2>1 DEF Follows
<1>6. sum = [n \in 0..Len(f) |-> IF n = 0 THEN 0 ELSE sum[n - 1] + f[n]]
  BY <1>5
<1>7. File!Total(f) = sum[Len(f)]
  BY DEF File!Total
<1>8. sum[0] = 0 /\ \A n \in 1..Len(f) : sum[n] = sum[n - 1] + f[n]
  <2> HIDE DEF step, sum
  <2> QED BY <1>1, <1>6, SMTT(30)
<1>9. \A n \in 0..Len(f) : sum[n] \in Int
  <2>1. \A n \in 1..Len(f) : sum[n - 1] \in Int => sum[n] = step[n][sum[n - 1]]
    <3> HIDE DEF sum
    <3> QED BY <1>1, <1>8
  <2>2. sum[0] = first
    <3> HIDE DEF step, sum
    <3> QED BY <1>8
  <2> HIDE DEF step, sum, first
  <2> QED BY <1>1, <1>2, <2>1, <2>2, Values
<1>10. Sums(f, sum)
  <2> HIDE DEF step, first
  <2>1. sum \in [0..Len(f) -> Int]
    <3> HIDE DEF sum
    <3> QED BY <1>6, <1>9
  <2> HIDE DEF sum
  <2> QED BY <1>8, <2>1 DEF Sums
<1> HIDE DEF sum
<1> QED BY <1>7, <1>10

\* Two ways to reach a sum agree.
LEMMA SumsAgree ==
  ASSUME NEW f \in Seq(Int), NEW g, Sums(f, g)
  PROVE  File!Total(f) = g[Len(f)] /\ File!Total(f) \in Int
<1>1. PICK h : Sums(f, h) /\ File!Total(f) = h[Len(f)]
  BY TotalUnfolds
<1> DEFINE S == {n \in 0..Len(f) : g[n] = h[n]}
<1>2. 0 \in S
  BY <1>1 DEF Sums
<1>3. ASSUME NEW n \in 0..(Len(f) - 1), n \in S PROVE n + 1 \in S
  <2>1. n + 1 \in 1..Len(f) /\ (n + 1) - 1 = n /\ n + 1 \in 0..Len(f)
    OBVIOUS
  <2>2. g[n + 1] = g[n] + f[n + 1] /\ h[n + 1] = h[n] + f[n + 1]
    BY <1>1, <2>1 DEF Sums
  <2> QED BY <1>3, <2>1, <2>2
<1>4. \A n \in 0..Len(f) : n \in S
  <2> HIDE DEF S
  <2>1. Len(f) \in Nat
    OBVIOUS
  <2> QED BY <1>2, <1>3, <2>1, Induction
<1>5. Len(f) \in 0..Len(f)
  OBVIOUS
<1> QED BY <1>1, <1>4, <1>5 DEF Sums

LEMMA TotalEmpty == File!Total(<<>>) = 0
<1>1. << >> \in Seq(Int) /\ Len(<< >>) = 0
  OBVIOUS
<1>2. PICK g : Sums(<< >>, g) /\ File!Total(<< >>) = g[Len(<< >>)]
  BY <1>1, TotalUnfolds
<1> QED BY <1>1, <1>2 DEF Sums

LEMMA TotalAppend ==
  ASSUME NEW f \in Seq(Int), NEW e \in Int
  PROVE  File!Total(Append(f, e)) = File!Total(f) + e
<1> DEFINE t == Append(f, e)
<1>1. t \in Seq(Int) /\ Len(t) = Len(f) + 1 /\ Len(f) \in Nat /\ t[Len(f) + 1] = e
      /\ \A n \in 1..Len(f) : t[n] = f[n]
  BY AppendProperties
<1> HIDE DEF t
<1>2. PICK g : Sums(t, g) /\ File!Total(t) = g[Len(t)]
  BY <1>1, TotalUnfolds
<1> DEFINE h == [n \in 0..Len(f) |-> g[n]]
<1>3. Sums(f, h)
  <2>1. h \in [0..Len(f) -> Int] /\ h[0] = 0
    BY <1>1, <1>2 DEF Sums
  <2>2. ASSUME NEW n \in 1..Len(f) PROVE h[n] = h[n - 1] + f[n]
    <3>1. n \in 1..Len(t) /\ n \in 0..Len(f) /\ n - 1 \in 0..Len(f)
      BY <1>1
    <3>2. g[n] = g[n - 1] + t[n]
      BY <1>2, <3>1 DEF Sums
    <3> QED BY <1>1, <3>1, <3>2
  <2> HIDE DEF h
  <2> QED BY <2>1, <2>2 DEF Sums
<1>4. File!Total(f) = h[Len(f)]
  <2> HIDE DEF h
  <2> QED BY <1>3, SumsAgree
<1>5. Len(f) \in 0..Len(f) /\ Len(t) \in 1..Len(t) /\ Len(t) - 1 = Len(f)
  BY <1>1
<1>6. g[Len(t)] = g[Len(f)] + e
  BY <1>1, <1>2, <1>5 DEF Sums
<1> QED BY <1>2, <1>4, <1>5, <1>6 DEF t

LEMMA TotalInt ==
  ASSUME NEW f \in Seq(Int)
  PROVE  File!Total(f) \in Int
<1>1. PICK g : Sums(f, g) /\ File!Total(f) = g[Len(f)]
  BY TotalUnfolds
<1> QED BY <1>1, SumsAgree

LEMMA TotalLess ==
  ASSUME NEW f \in Seq(Int), NEW g \in Seq(Int), Len(f) = Len(g),
         \A n \in 1..Len(f) : f[n] <= g[n]
  PROVE  File!Total(f) <= File!Total(g)
<1>1. PICK F : Sums(f, F) /\ File!Total(f) = F[Len(f)]
  BY TotalUnfolds
<1>2. PICK G : Sums(g, G) /\ File!Total(g) = G[Len(g)]
  BY TotalUnfolds
<1> DEFINE S == {n \in 0..Len(f) : F[n] <= G[n]}
<1>3. 0 \in S
  BY <1>1, <1>2 DEF Sums
<1>4. ASSUME NEW n \in 0..(Len(f) - 1), n \in S PROVE n + 1 \in S
  <2>1. n + 1 \in 1..Len(f) /\ (n + 1) - 1 = n /\ n + 1 \in 0..Len(f) /\ n + 1 \in 1..Len(g)
        /\ n \in 0..Len(f) /\ n \in 0..Len(g)
    OBVIOUS
  <2>2. F[n + 1] = F[n] + f[n + 1] /\ G[n + 1] = G[n] + g[n + 1] /\ F[n] \in Int /\ G[n] \in Int
    BY <1>1, <1>2, <2>1 DEF Sums
  <2>3. f[n + 1] <= g[n + 1] /\ f[n + 1] \in Int /\ g[n + 1] \in Int
    BY <2>1
  <2> QED BY <1>4, <2>1, <2>2, <2>3
<1>5. \A n \in 0..Len(f) : n \in S
  <2> HIDE DEF S
  <2>1. Len(f) \in Nat
    OBVIOUS
  <2> QED BY <1>3, <1>4, <2>1, Induction
<1>6. Len(f) \in 0..Len(f)
  OBVIOUS
<1> QED BY <1>1, <1>2, <1>5, <1>6

LEMMA TotalSum ==
  ASSUME NEW f \in Seq(Int), NEW g \in Seq(Int), NEW h \in Seq(Int),
         Len(f) = Len(g), Len(h) = Len(g), \A n \in 1..Len(f) : h[n] = f[n] + g[n]
  PROVE  File!Total(h) = File!Total(f) + File!Total(g)
<1>1. PICK F : Sums(f, F) /\ File!Total(f) = F[Len(f)]
  BY TotalUnfolds
<1>2. PICK G : Sums(g, G) /\ File!Total(g) = G[Len(g)]
  BY TotalUnfolds
<1>3. PICK H : Sums(h, H) /\ File!Total(h) = H[Len(h)]
  BY TotalUnfolds
<1> DEFINE S == {n \in 0..Len(f) : H[n] = F[n] + G[n]}
<1>4. 0 \in S
  BY <1>1, <1>2, <1>3 DEF Sums
<1>5. ASSUME NEW n \in 0..(Len(f) - 1), n \in S PROVE n + 1 \in S
  <2>1. n + 1 \in 1..Len(f) /\ (n + 1) - 1 = n /\ n + 1 \in 0..Len(f) /\ n + 1 \in 1..Len(g)
        /\ n + 1 \in 1..Len(h) /\ n \in 0..Len(f) /\ n \in 0..Len(g)
    OBVIOUS
  <2>2. /\ F[n + 1] = F[n] + f[n + 1] /\ G[n + 1] = G[n] + g[n + 1] /\ H[n + 1] = H[n] + h[n + 1]
        /\ F[n] \in Int /\ G[n] \in Int
    BY <1>1, <1>2, <1>3, <2>1 DEF Sums
  <2>3. h[n + 1] = f[n + 1] + g[n + 1] /\ f[n + 1] \in Int /\ g[n + 1] \in Int
    BY <2>1
  <2>4. H[n] = F[n] + G[n]
    BY <1>5
  <2>5. H[n + 1] = F[n + 1] + G[n + 1]
    <3> DEFINE a == F[n]
               b == G[n]
               x == f[n + 1]
               y == g[n + 1]
    <3>1. a \in Int /\ b \in Int /\ x \in Int /\ y \in Int
      BY <2>2, <2>3
    <3>2. F[n + 1] = a + x /\ G[n + 1] = b + y /\ H[n + 1] = (a + b) + (x + y)
      BY <2>2, <2>3, <2>4
    <3> HIDE DEF a, b, x, y
    <3>3. (a + b) + (x + y) = (a + x) + (b + y)
      BY <3>1, SMTT(30)
    <3> QED BY <3>2, <3>3
  <2> QED BY <2>1, <2>5
<1>6. \A n \in 0..Len(f) : n \in S
  <2> HIDE DEF S
  <2>1. Len(f) \in Nat
    OBVIOUS
  <2> QED BY <1>4, <1>5, <2>1, Induction
<1>7. Len(f) \in 0..Len(f)
  OBVIOUS
<1> QED BY <1>1, <1>2, <1>3, <1>6, <1>7

\* Sums in another order.
LEMMA Regrouped ==
  ASSUME NEW a \in Int, NEW b \in Int, NEW c \in Int
  PROVE  /\ a + (b + c) = (a + b) + c /\ (a + b) + c = (a + c) + b
         /\ (a + b + c) - b = a + c /\ (a + b) - c = (a - c) + b
         /\ a + (b + 1) = (a + b) + 1
OBVIOUS

\* One term changes.
LEMMA TotalChange ==
  ASSUME NEW f \in Seq(Int), NEW g \in Seq(Int), Len(f) = Len(g), NEW k \in 1..Len(f),
         \A n \in 1..Len(f) : n # k => f[n] = g[n]
  PROVE  File!Total(g) = File!Total(f) + g[k] - f[k]
<1> DEFINE d == g[k] - f[k]
<1>0. Len(f) \in Nat /\ \A n \in 1..Len(f) : f[n] \in Int /\ g[n] \in Int
  OBVIOUS
<1>1. d \in Int
  BY <1>0
<1> HIDE DEF d
<1>2. PICK F : Sums(f, F) /\ File!Total(f) = F[Len(f)]
  BY TotalUnfolds
<1> DEFINE G == [n \in 0..Len(f) |-> IF n < k THEN F[n] ELSE F[n] + d]
<1>3. Sums(g, G)
  <2>1. G \in [0..Len(g) -> Int] /\ G[0] = 0
    BY <1>1, <1>2 DEF Sums
  <2>2. ASSUME NEW n \in 1..Len(g) PROVE G[n] = G[n - 1] + g[n]
    <3>1. n \in 1..Len(f) /\ n \in 0..Len(f) /\ n - 1 \in 0..Len(f)
      OBVIOUS
    <3>2. F[n] = F[n - 1] + f[n] /\ F[n - 1] \in Int /\ f[n] \in Int /\ g[n] \in Int
      BY <1>0, <1>2, <3>1 DEF Sums
    <3>3. /\ G[n] = IF n < k THEN F[n] ELSE F[n] + d
          /\ G[n - 1] = IF n - 1 < k THEN F[n - 1] ELSE F[n - 1] + d
      BY <3>1
    <3> HIDE DEF G
    <3>4. CASE n = k
      <4>1. G[n] = F[n] + d /\ G[n - 1] = F[n - 1]
        BY <3>3, <3>4
      <4>2. g[n] = f[n] + d
        BY <3>2, <3>4 DEF d
      <4>3. (F[n - 1] + f[n]) + d = F[n - 1] + (f[n] + d)
        BY <1>1, <3>2, SMTT(30)
      <4>4. G[n] = (F[n - 1] + f[n]) + d
        BY <3>2, <4>1
      <4> QED BY <4>1, <4>2, <4>3, <4>4
    <3>5. CASE n < k
      <4>1. G[n] = F[n] /\ G[n - 1] = F[n - 1]
        BY <3>3, <3>5
      <4>2. g[n] = f[n]
        BY <3>1, <3>5
      <4> QED BY <3>2, <4>1, <4>2
    <3>6. CASE ~(n < k) /\ n # k
      <4>1. G[n] = F[n] + d /\ G[n - 1] = F[n - 1] + d
        BY <3>3, <3>6
      <4>2. g[n] = f[n]
        BY <3>1, <3>6
      <4>3. (F[n - 1] + f[n]) + d = (F[n - 1] + d) + f[n]
        BY <1>1, <3>2, Regrouped, SMTT(30)
      <4> QED BY <3>2, <4>1, <4>2, <4>3
    <3> QED BY <3>4, <3>5, <3>6
  <2> HIDE DEF G
  <2> QED BY <2>1, <2>2 DEF Sums
<1>4. File!Total(g) = G[Len(g)]
  <2> HIDE DEF G
  <2> QED BY <1>3, SumsAgree
<1>5. F[Len(f)] \in Int /\ Len(f) \in 0..Len(f) /\ ~(Len(f) < k)
  BY <1>2 DEF Sums
<1> QED BY <1>1, <1>2, <1>4, <1>5 DEF d

\* The places next to one of the first a of a + 1.
LEMMA Neighbours ==
  ASSUME NEW a \in Nat, NEW b \in Nat, a + 1 = b, NEW n \in 1..a
  PROVE  /\ n \in 1..b /\ n + 1 \in 1..b /\ n \in 0..a /\ n - 1 \in 0..a
         /\ (n + 1) - 1 = n /\ (n - 1) + 1 = n /\ n \in 0..b /\ n - 1 \in 0..b
OBVIOUS

\* One term is dropped.
LEMMA TotalDrop ==
  ASSUME NEW f \in Seq(Int), NEW g \in Seq(Int), NEW k \in 1..Len(f), Len(g) = Len(f) - 1,
         \A n \in 1..Len(g) : g[n] = f[IF n < k THEN n ELSE n + 1]
  PROVE  File!Total(g) = File!Total(f) - f[k]
<1>0. /\ Len(f) \in Nat /\ Len(g) \in Nat /\ Len(g) + 1 = Len(f) /\ k \in Nat /\ 0 < k
      /\ \A n \in 1..Len(f) : f[n] \in Int
  OBVIOUS
<1>1. PICK F : Sums(f, F) /\ File!Total(f) = F[Len(f)]
  BY TotalUnfolds
<1> DEFINE G == [n \in 0..Len(g) |-> IF n < k THEN F[n] ELSE F[n + 1] - f[k]]
<1>2. Sums(g, G)
  <2>1. G \in [0..Len(g) -> Int] /\ G[0] = 0
    <3>1. \A n \in 0..Len(f) : F[n] \in Int
      BY <1>1 DEF Sums
    <3>2. f[k] \in Int /\ \A n \in 0..Len(g) : n \in 0..Len(f) /\ n + 1 \in 0..Len(f)
      BY <1>0
    <3>3. F[0] = 0 /\ 0 < k /\ 0 \in 0..Len(g)
      BY <1>0, <1>1 DEF Sums
    <3>4. \A n \in 0..Len(g) : (IF n < k THEN F[n] ELSE F[n + 1] - f[k]) \in Int
      BY <3>1, <3>2, SMTT(30)
    <3>5. G[0] = 0
      BY <3>3
    <3> QED BY <3>4, <3>5
  <2>2. ASSUME NEW n \in 1..Len(g) PROVE G[n] = G[n - 1] + g[n]
    <3>1. n \in 1..Len(f) /\ n + 1 \in 1..Len(f) /\ n \in 0..Len(g) /\ n - 1 \in 0..Len(g)
          /\ (n + 1) - 1 = n /\ (n - 1) + 1 = n /\ n \in 0..Len(f) /\ n - 1 \in 0..Len(f)
      BY <1>0, Neighbours
    <3>2. F[n] = F[n - 1] + f[n] /\ F[n + 1] = F[n] + f[n + 1]
      BY <1>1, <3>1 DEF Sums
    <3>3. F[n - 1] \in Int /\ F[n] \in Int /\ f[n] \in Int /\ f[n + 1] \in Int /\ f[k] \in Int
      BY <1>0, <1>1, <3>1 DEF Sums
    <3>0. g[n] = f[IF n < k THEN n ELSE n + 1]
      OBVIOUS
    <3>9. /\ G[n] = IF n < k THEN F[n] ELSE F[n + 1] - f[k]
          /\ G[n - 1] = IF n - 1 < k THEN F[n - 1] ELSE F[n] - f[k]
      BY <3>1
    <3> HIDE DEF G
    <3>4. CASE n < k
      <4>1. g[n] = f[n] /\ n - 1 < k
        BY <3>0, <3>1, <3>4
      <4>2. G[n] = F[n] /\ G[n - 1] = F[n - 1]
        BY <3>4, <3>9, <4>1
      <4> QED BY <3>2, <4>1, <4>2
    <3>5. CASE ~(n < k) /\ n - 1 < k
      <4>1. n = k
        BY <1>0, <3>5
      <4>2. g[n] = f[n + 1]
        BY <3>0, <3>5
      <4>3. G[n] = F[n + 1] - f[k] /\ G[n - 1] = F[n - 1]
        BY <3>5, <3>9
      <4>4. f[k] = f[n]
        BY <4>1
      <4>5. F[n + 1] = F[n - 1] + f[k] + f[n + 1]
        BY <3>2, <4>4
      <4>6. G[n] = F[n - 1] + f[n + 1]
        <5>1. (F[n - 1] + f[k] + f[n + 1]) - f[k] = F[n - 1] + f[n + 1]
          <6> DEFINE x == F[n - 1]
                     y == f[k]
                     z == f[n + 1]
          <6>1. x \in Int /\ y \in Int /\ z \in Int
            BY <3>3
          <6> HIDE DEF x, y, z
          <6>2. (x + y + z) - y = x + z
            BY <6>1, SMTT(30)
          <6> QED BY <6>2 DEF x, y, z
        <5> QED BY <4>3, <4>5, <5>1
      <4> QED BY <4>2, <4>3, <4>6
    <3>6. CASE ~(n - 1 < k)
      <4>1. g[n] = f[n + 1] /\ ~(n < k)
        BY <3>0, <3>1, <3>6
      <4>2. G[n] = F[n + 1] - f[k] /\ G[n - 1] = F[n] - f[k]
        BY <3>6, <3>9, <4>1
      <4>3. (F[n] + f[n + 1]) - f[k] = (F[n] - f[k]) + f[n + 1]
        BY <3>3, Regrouped, SMTT(30)
      <4> QED BY <3>2, <4>1, <4>2, <4>3
    <3> QED BY <3>4, <3>5, <3>6
  <2> HIDE DEF G
  <2> QED BY <2>1, <2>2 DEF Sums
<1>3. File!Total(g) = G[Len(g)]
  <2> HIDE DEF G
  <2> QED BY <1>2, SumsAgree
<1>4. Len(g) + 1 = Len(f) /\ Len(g) \in 0..Len(g) /\ Len(f) \in 1..Len(f) /\ Len(f) - 1 = Len(g)
      /\ Len(g) \in 0..Len(f)
  BY <1>0
<1>5. F[Len(f)] = F[Len(g)] + f[Len(f)] /\ F[Len(g)] \in Int /\ f[Len(f)] \in Int /\ f[k] \in Int
  BY <1>0, <1>1, <1>4 DEF Sums
<1> QED BY <1>1, <1>3, <1>4, <1>5

-----------------------------------------------------------------------------
(* Lengths *)

\* The length of a row's metadata, from its state and its attempts.
Meta(state, attempts) == File!MetadataBytes([state |-> state, attempts |-> attempts])

LEMMA MetaOfRow ==
  ASSUME NEW r \in FileRows
  PROVE  File!MetadataBytes(r) = Meta(r.state, r.attempts)
BY DEF Meta, File!MetadataBytes

LEMMA MemberLimit ==
  ASSUME NEW s \in RowStates
  PROVE  File!MemberBytes(s) \in 0..79
<1> DEFINE q == File!Present(s.quarantine = "bank-mismatch", 29) + File!Present(s.quarantine = "permanent", 25)
           g == File!Present(s.gate = "probe", 15) + File!Present(s.gate = "operator", 18)
           m == File!Present(s.sending, 15) + File!Present(s.protected, 17)
<1>1. q \in 0..29
  BY DEF File!Present
<1>2. g \in 0..18
  BY DEF File!Present
<1>3. m \in 0..32
  BY DEF File!Present
<1>4. File!MemberBytes(s) = q + g + m
  <2>1. /\ File!Present(s.quarantine = "bank-mismatch", 29) \in Int
        /\ File!Present(s.quarantine = "permanent", 25) \in Int
        /\ File!Present(s.gate = "probe", 15) \in Int /\ File!Present(s.gate = "operator", 18) \in Int
        /\ File!Present(s.sending, 15) \in Int /\ File!Present(s.protected, 17) \in Int
    BY DEF File!Present
  <2> QED BY <2>1 DEF File!MemberBytes
<1> HIDE DEF q, g, m
<1> QED BY <1>1, <1>2, <1>3, <1>4

LEMMA MetaLimit ==
  ASSUME NEW s \in RowStates, NEW a \in Nat
  PROVE  Meta(s, a) \in 0..MetadataLimit /\ Meta(s, a) \in Int
<1>1. File!MemberBytes(s) \in 0..79
  BY MemberLimit
<1> QED BY <1>1 DEF Meta, File!MetadataBytes, File!Present, MetadataLimit

LEMMA LineWithinLimit ==
  ASSUME NEW r \in FileRows
  PROVE  /\ File!LineBytes(r) \in Nat /\ LineLimit(r) \in Nat
         /\ File!LineBytes(r) <= LineLimit(r)
         /\ ~r.junk => LineLimit(r) <= File!LineBytes(r) + Growth
<1>1. File!MetadataBytes(r) \in 0..MetadataLimit
  <2>1. r.state \in RowStates /\ r.attempts \in Nat
    BY DEF FileRows
  <2> QED BY <2>1, MetaLimit, MetaOfRow
<1>2. r.bytes \in Nat /\ r.junk \in BOOLEAN /\ r.named \in BOOLEAN
  BY DEF FileRows
<1>3. File!Present(r.named, File!OperationIdBytes) \in 0..53
  BY <1>2 DEF File!Present, File!OperationIdBytes
<1>4. CASE r.junk
  BY <1>2, <1>4 DEF File!LineBytes, LineLimit, Growth, MetadataLimit
<1>5. CASE ~r.junk
  <2>1. File!LineBytes(r) = r.bytes + File!Present(r.named, File!OperationIdBytes) + File!MetadataBytes(r)
        /\ LineLimit(r) = r.bytes + 167
    BY <1>5 DEF File!LineBytes, LineLimit, Growth, MetadataLimit
  <2>2. File!MetadataBytes(r) \in 0..114
    BY <1>1 DEF MetadataLimit
  <2>3. Growth = 167
    BY DEF Growth, MetadataLimit
  <2> DEFINE b == r.bytes
             p == File!Present(r.named, File!OperationIdBytes)
             m == File!MetadataBytes(r)
  <2>4. b \in Nat /\ p \in 0..53 /\ m \in 0..114
    BY <1>2, <1>3, <2>2
  <2>5. File!LineBytes(r) = b + p + m /\ LineLimit(r) = b + 167
    BY <2>1
  <2> HIDE DEF b, p, m
  <2> QED BY <2>3, <2>4, <2>5
<1> QED BY <1>2, <1>4, <1>5

LEMMA FunctionIsSequence ==
  ASSUME NEW S, NEW n \in Nat, NEW f \in [1..n -> S]
  PROVE  f \in Seq(S) /\ Len(f) = n
<1>1. f \in Seq(S)
  OBVIOUS
<1>2. Len(f) = n
  BY <1>1, LenProperties
<1> QED BY <1>1, <1>2

\* The lengths of the lines of a file, and what they may come to.
Bytes(file) == [n \in DOMAIN file |-> File!LineBytes(file[n])]
LineLimits(file) == [n \in DOMAIN file |-> LineLimit(file[n])]

LEMMA BytesAreIntegers ==
  ASSUME NEW file \in Seq(FileRows)
  PROVE  /\ Bytes(file) \in Seq(Int) /\ LineLimits(file) \in Seq(Int)
         /\ Len(Bytes(file)) = Len(file) /\ Len(LineLimits(file)) = Len(file)
         /\ DOMAIN file = 1..Len(file) /\ Len(file) \in Nat
         /\ \A n \in 1..Len(file) : file[n] \in FileRows
         /\ \A n \in 1..Len(file) : Bytes(file)[n] = File!LineBytes(file[n])
         /\ \A n \in 1..Len(file) : LineLimits(file)[n] = LineLimit(file[n])
<1>1. DOMAIN file = 1..Len(file) /\ Len(file) \in Nat
      /\ \A n \in 1..Len(file) : file[n] \in FileRows
  OBVIOUS
<1>2. \A n \in 1..Len(file) : File!LineBytes(file[n]) \in Int /\ LineLimit(file[n]) \in Int
  BY <1>1, LineWithinLimit
<1>3. Bytes(file) \in [1..Len(file) -> Int] /\ LineLimits(file) \in [1..Len(file) -> Int]
  BY <1>1, <1>2 DEF Bytes, LineLimits
<1>4. Bytes(file) \in Seq(Int) /\ LineLimits(file) \in Seq(Int)
  BY <1>1, <1>3, FunctionIsSequence
<1>5. Len(Bytes(file)) = Len(file) /\ Len(LineLimits(file)) = Len(file)
  BY <1>1, <1>3, FunctionIsSequence
<1> QED BY <1>1, <1>4, <1>5 DEF Bytes, LineLimits

LEMMA FileBytesIs ==
  ASSUME NEW file \in Seq(FileRows)
  PROVE  File!FileBytes(file) = File!Total(Bytes(file)) /\ File!FileBytes(file) \in Int
<1>1. File!FileBytes(file) = File!Total(Bytes(file))
  BY DEF File!FileBytes, Bytes
<1> QED BY <1>1, BytesAreIntegers, TotalInt

LEMMA RoomyIs ==
  ASSUME NEW file
  PROVE  Roomy(file) <=> File!Total(LineLimits(file)) <= limit
BY DEF Roomy, LineLimits

\* What may come to no more than the limit fits now.
LEMMA RoomyFits ==
  ASSUME NEW file \in Seq(FileRows), limit \in Nat, Roomy(file)
  PROVE  File!FileBytes(file) <= limit
<1>1. \A n \in 1..Len(file) : Bytes(file)[n] <= LineLimits(file)[n]
  BY BytesAreIntegers, LineWithinLimit
<1>2. File!Total(Bytes(file)) <= File!Total(LineLimits(file))
  BY <1>1, BytesAreIntegers, TotalLess
<1>3. File!Total(Bytes(file)) \in Int /\ File!Total(LineLimits(file)) \in Int
  BY BytesAreIntegers, TotalInt
<1> QED BY <1>2, <1>3, FileBytesIs, RoomyIs

\* A file of rows of the same lengths has as much room.
SameLengths(f, g) ==
  Len(f) = Len(g) /\ \A n \in 1..Len(f) : f[n].bytes = g[n].bytes /\ f[n].junk = g[n].junk

LEMMA RoomyKept ==
  ASSUME NEW f \in Seq(FileRows), NEW g \in Seq(FileRows), SameLengths(f, g), Roomy(f)
  PROVE  Roomy(g)
<1>1. \A n \in 1..Len(f) : LineLimit(f[n]) = LineLimit(g[n])
  BY DEF SameLengths, LineLimit
<1>2. DOMAIN f = 1..Len(f) /\ DOMAIN g = 1..Len(f)
  BY DEF SameLengths
<1>3. LineLimits(f) = LineLimits(g)
  BY <1>1, <1>2 DEF LineLimits
<1> QED BY <1>3, RoomyIs

LEMMA LargestExists ==
  ASSUME NEW S \in SUBSET Int, S # {}, NEW B \in Int, \A x \in S : x <= B
  PROVE  File!Max(S) \in S /\ \A x \in S : x <= File!Max(S)
<1> DEFINE D == {B - x : x \in S}
<1>1. D \in SUBSET Nat /\ D # {}
  <2>1. \A x \in S : B - x \in Nat
    <3> TAKE x \in S
    <3>1. x \in Int /\ x <= B
      OBVIOUS
    <3> QED BY <3>1
  <2> QED BY <2>1
<1>2. PICK d \in D : \A e \in D : d <= e
  <2> HIDE DEF D
  <2> QED BY <1>1, Least
<1>3. PICK x \in S : d = B - x
  OBVIOUS
<1>4. \A y \in S : x >= y
  <2> TAKE y \in S
  <2>1. d <= B - y
    BY <1>2
  <2>2. x \in Int /\ y \in Int
    OBVIOUS
  <2> QED BY <1>3, <2>1, <2>2
<1>5. File!Max(S) \in S /\ \A y \in S : File!Max(S) >= y
  BY <1>3, <1>4 DEF File!Max
<1>6. File!Max(S) \in Int /\ \A y \in S : y \in Int
  BY <1>5
<1> QED BY <1>5, <1>6

-----------------------------------------------------------------------------
(* The room an outcome needs *)

LEMMA StatesMade ==
  ASSUME NEW s \in RowStates
  PROVE  /\ File!Completed(s) \in RowStates /\ File!Protected(s) \in RowStates
         /\ File!Mismatched(s) \in RowStates /\ File!Emptied(s) \in RowStates
         /\ [s EXCEPT !.present = TRUE, !.sending = TRUE] \in RowStates
         /\ [s EXCEPT !.gate = "probe"] \in RowStates
         /\ [s EXCEPT !.quarantine = "permanent"] \in RowStates
<1>1. File!Completed(s) \in RowStates
  BY DEF RowStates, File!Completed
<1>2. File!Protected(s) \in RowStates
  BY DEF RowStates, File!Protected
<1>3. File!Mismatched(s) \in RowStates
  BY DEF RowStates, File!Mismatched
<1>4. File!Emptied(s) \in RowStates
  BY DEF RowStates, File!Emptied
<1>5. [s EXCEPT !.present = TRUE, !.sending = TRUE] \in RowStates
  BY DEF RowStates
<1>6. [s EXCEPT !.gate = "probe"] \in RowStates /\ [s EXCEPT !.quarantine = "permanent"] \in RowStates
  BY DEF RowStates
<1> QED BY <1>1, <1>2, <1>3, <1>4, <1>5, <1>6

LEMMA GrownIs ==
  ASSUME NEW r \in FileRows, NEW s \in RowStates, NEW a \in Nat
  PROVE  /\ File!Grown(r, s, a) = Meta(s, a) - Meta(r.state, r.attempts)
         /\ File!Grown(r, s, a) \in Int /\ File!Grown(r, s, a) <= MetadataLimit
<1> DEFINE q == [r EXCEPT !.state = s, !.attempts = a]
<1>1. q \in FileRows /\ q.state = s /\ q.attempts = a
  BY DEF FileRows
<1>2. r.state \in RowStates /\ r.attempts \in Nat
  BY DEF FileRows
<1>3. File!Grown(r, s, a) = File!MetadataBytes(q) - File!MetadataBytes(r)
  BY DEF File!Grown
<1> HIDE DEF q
<1>4. File!MetadataBytes(q) = Meta(s, a) /\ File!MetadataBytes(r) = Meta(r.state, r.attempts)
  BY <1>1, MetaOfRow
<1>5. Meta(s, a) \in 0..MetadataLimit /\ Meta(r.state, r.attempts) \in 0..MetadataLimit
  BY <1>2, MetaLimit
<1> QED BY <1>3, <1>4, <1>5 DEF MetadataLimit

\* A row that differs in its state and its attempts alone.
LEMMA LineGrows ==
  ASSUME NEW r \in FileRows, NEW q \in FileRows, ~r.junk, ~q.junk, q.bytes = r.bytes,
         q.named = r.named
  PROVE  File!LineBytes(q) = File!LineBytes(r) + Meta(q.state, q.attempts) - Meta(r.state, r.attempts)
<1>1. /\ r.state \in RowStates /\ r.attempts \in Nat /\ r.bytes \in Nat /\ r.named \in BOOLEAN
      /\ q.state \in RowStates /\ q.attempts \in Nat
  BY DEF FileRows
<1> DEFINE m == Meta(r.state, r.attempts)
           k == Meta(q.state, q.attempts)
           p == File!Present(r.named, File!OperationIdBytes)
           b == r.bytes
<1>2. m \in Int /\ k \in Int
  BY <1>1, MetaLimit DEF MetadataLimit
<1>3. p \in Int /\ b \in Int
  BY <1>1 DEF File!Present, File!OperationIdBytes
<1>4. File!LineBytes(r) = b + p + m /\ File!LineBytes(q) = b + p + k
  BY MetaOfRow DEF File!LineBytes
<1> HIDE DEF m, k, p, b
<1>5. File!LineBytes(q) = File!LineBytes(r) + k - m
  BY <1>2, <1>3, <1>4
<1> QED BY <1>5 DEF k, m

\* The state a denial leaves, with and without the gate it closes.
Denial(s) == File!Protected(File!Completed(s))
Gating(r) == Meta([Denial(r.state) EXCEPT !.gate = "probe"], r.attempts)
               - Meta(Denial(r.state), r.attempts)
Marking(r) == Meta([r.state EXCEPT !.present = TRUE, !.sending = TRUE], r.attempts + 1)
                - Meta(r.state, r.attempts)
Moving(r) == Meta(File!Mismatched(File!Completed(r.state)), r.attempts) - Meta(r.state, r.attempts)
Protecting(r) == Meta(Denial(r.state), r.attempts) - Meta(r.state, r.attempts)

LEMMA DenialIs ==
  ASSUME NEW s \in RowStates
  PROVE  /\ Denial(s) \in RowStates /\ [Denial(s) EXCEPT !.gate = "probe"] \in RowStates
         /\ File!Mismatched(File!Completed(s)) \in RowStates
<1>1. File!Completed(s) \in RowStates
  BY StatesMade
<1> DEFINE c == File!Completed(s)
<1>2. c \in RowStates
  BY <1>1
<1> HIDE DEF c
<1>3. File!Protected(c) \in RowStates /\ File!Mismatched(c) \in RowStates
  BY <1>2, StatesMade
<1> DEFINE d == File!Protected(c)
<1>4. d \in RowStates
  BY <1>3
<1> HIDE DEF d
<1>5. [d EXCEPT !.gate = "probe"] \in RowStates
  BY <1>4, StatesMade
<1> QED BY <1>3, <1>5 DEF Denial, c, d

LEMMA ChangesOfLength ==
  ASSUME NEW r \in FileRows
  PROVE  /\ Gating(r) \in Int /\ Marking(r) \in Int /\ Moving(r) \in Int /\ Protecting(r) \in Int
         /\ Gating(r) <= 114 /\ Marking(r) <= 114 /\ Moving(r) <= 114
         /\ File!Grown([r EXCEPT !.state = Denial(r.state)],
                       [Denial(r.state) EXCEPT !.gate = "probe"], r.attempts) = Gating(r)
         /\ File!Grown(r, [r.state EXCEPT !.present = TRUE, !.sending = TRUE], r.attempts + 1)
              = Marking(r)
         /\ File!Grown(r, File!Mismatched(File!Completed(r.state)), r.attempts) = Moving(r)
         /\ File!Grown(r, Denial(r.state), r.attempts) = Protecting(r)
<1>1. r.state \in RowStates /\ r.attempts \in Nat /\ r.attempts + 1 \in Nat
  BY DEF FileRows
<1>2. /\ Denial(r.state) \in RowStates /\ [Denial(r.state) EXCEPT !.gate = "probe"] \in RowStates
      /\ File!Mismatched(File!Completed(r.state)) \in RowStates
      /\ [r.state EXCEPT !.present = TRUE, !.sending = TRUE] \in RowStates
  BY <1>1, DenialIs, StatesMade
<1> DEFINE q == [r EXCEPT !.state = Denial(r.state)]
           gated == [Denial(r.state) EXCEPT !.gate = "probe"]
           marked == [r.state EXCEPT !.present = TRUE, !.sending = TRUE]
           moved == File!Mismatched(File!Completed(r.state))
<1>3. q \in FileRows /\ q.state = Denial(r.state) /\ q.attempts = r.attempts
  BY <1>2 DEF FileRows
<1>4. gated \in RowStates /\ marked \in RowStates /\ moved \in RowStates
  BY <1>2
<1> HIDE DEF q, gated, marked, moved
<1>5. File!Grown(q, gated, r.attempts) = Gating(r) /\ Gating(r) \in Int /\ Gating(r) <= 114
  BY <1>1, <1>3, <1>4, GrownIs DEF Gating, gated, MetadataLimit
<1>6. File!Grown(r, marked, r.attempts + 1) = Marking(r) /\ Marking(r) \in Int /\ Marking(r) <= 114
  BY <1>1, <1>4, GrownIs DEF Marking, marked, MetadataLimit
<1>7. File!Grown(r, moved, r.attempts) = Moving(r) /\ Moving(r) \in Int /\ Moving(r) <= 114
  BY <1>1, <1>4, GrownIs DEF Moving, moved, MetadataLimit
<1>8. File!Grown(r, Denial(r.state), r.attempts) = Protecting(r) /\ Protecting(r) \in Int
  BY <1>1, <1>2, GrownIs DEF Protecting
<1> QED BY <1>5, <1>6, <1>7, <1>8 DEF q, gated, marked, moved

Protections(file) == [n \in DOMAIN file |-> Protecting(file[n])]

LEMMA HeadroomIs ==
  ASSUME NEW file \in Seq(FileRows)
  PROVE  \E gate \in Nat, head \in Int :
           /\ File!ReplayOutcomeHeadroom(file) = head
           /\ File!Total(Protections(file)) + gate <= head /\ 0 <= head
           /\ \A n \in 1..Len(file) :
                Gating(file[n]) <= gate /\ Marking(file[n]) <= head /\ Moving(file[n]) <= head
<1>1. DOMAIN file = 1..Len(file) /\ \A n \in 1..Len(file) : file[n] \in FileRows
  OBVIOUS
<1> DEFINE G == {0} \cup {Gating(file[n]) : n \in DOMAIN file}
           O == {0} \cup UNION {{Marking(file[n]), Moving(file[n])} : n \in DOMAIN file}
<1>2. G \in SUBSET Int /\ O \in SUBSET Int /\ G # {} /\ O # {}
      /\ (\A x \in G : x <= 114) /\ (\A x \in O : x <= 114)
  <2>1. \A n \in DOMAIN file :
          /\ Gating(file[n]) \in Int /\ Marking(file[n]) \in Int /\ Moving(file[n]) \in Int
          /\ Gating(file[n]) <= 114 /\ Marking(file[n]) <= 114 /\ Moving(file[n]) <= 114
    BY <1>1, ChangesOfLength
  <2>2. G \in SUBSET Int /\ G # {} /\ \A x \in G : x <= 114
    BY <2>1
  <2>3. \A x \in O : x = 0 \/ \E n \in DOMAIN file : x = Marking(file[n]) \/ x = Moving(file[n])
    OBVIOUS
  <2>4. O \in SUBSET Int /\ \A x \in O : x <= 114
    <3> HIDE DEF O
    <3> QED BY <2>1, <2>3
  <2>5. O # {}
    OBVIOUS
  <2> QED BY <2>2, <2>4, <2>5
<1>3. 0 \in G /\ 0 \in O /\ \A n \in 1..Len(file) : Gating(file[n]) \in G /\ Marking(file[n]) \in O
                                                  /\ Moving(file[n]) \in O
  BY <1>1
<1>4. File!GateBytes(file) = File!Max(G)
  <2>1. \A n \in DOMAIN file :
          File!Grown([file[n] EXCEPT !.state = Denial(file[n].state)],
                     [Denial(file[n].state) EXCEPT !.gate = "probe"], file[n].attempts)
            = Gating(file[n])
    BY <1>1, ChangesOfLength
  <2>2. {LET s == File!Protected(File!Completed(file[n].state)) IN
           File!Grown([file[n] EXCEPT !.state = s], [s EXCEPT !.gate = "probe"], file[n].attempts)
         : n \in DOMAIN file} = {Gating(file[n]) : n \in DOMAIN file}
    BY <2>1 DEF Denial
  <2> QED BY <2>2 DEF File!GateBytes
<1>5. File!OutcomeBytes(file) = File!Max(O)
  <2>1. \A n \in DOMAIN file :
          /\ File!Grown(file[n], [file[n].state EXCEPT !.present = TRUE, !.sending = TRUE],
                        file[n].attempts + 1) = Marking(file[n])
          /\ File!Grown(file[n], File!Mismatched(File!Completed(file[n].state)), file[n].attempts)
               = Moving(file[n])
    BY <1>1, ChangesOfLength
  <2>2. UNION {{File!Grown(file[n], [file[n].state EXCEPT !.present = TRUE, !.sending = TRUE],
                           file[n].attempts + 1),
                File!Grown(file[n], File!Mismatched(File!Completed(file[n].state)), file[n].attempts)}
               : n \in DOMAIN file}
          = UNION {{Marking(file[n]), Moving(file[n])} : n \in DOMAIN file}
    BY <2>1
  <2> QED BY <2>2 DEF File!OutcomeBytes
<1>6. File!ProtectionBytes(file) = File!Total(Protections(file))
  <2>1. \A n \in DOMAIN file :
          File!Grown(file[n], File!Protected(File!Completed(file[n].state)), file[n].attempts)
            = Protecting(file[n])
    BY <1>1, ChangesOfLength DEF Denial
  <2> QED BY <2>1 DEF File!ProtectionBytes, Protections
<1>7. Protections(file) \in Seq(Int)
  <2>1. Protections(file) \in [1..Len(file) -> Int] /\ Len(file) \in Nat
    <3>1. \A n \in 1..Len(file) : Protecting(file[n]) \in Int
      BY <1>1, ChangesOfLength
    <3> QED BY <1>1, <3>1 DEF Protections
  <2> QED BY <2>1, FunctionIsSequence
<1>8. File!Total(Protections(file)) \in Int
  BY <1>7, TotalInt
<1> DEFINE gate == File!Max(G)
           largest == File!Max(O)
           total == File!Total(Protections(file))
           H == {total + gate, largest}
           head == File!Max(H)
<1> HIDE DEF G, O, total
<1>9. gate \in G /\ largest \in O /\ (\A x \in G : x <= gate) /\ \A x \in O : x <= largest
  <2>1. 114 \in Int
    OBVIOUS
  <2>2. gate \in G /\ \A x \in G : x <= gate
    BY <1>2, <2>1, LargestExists
  <2>3. largest \in O /\ \A x \in O : x <= largest
    BY <1>2, <2>1, LargestExists
  <2> QED BY <2>2, <2>3
<1>10. gate \in Nat /\ largest \in Nat
  <2>1. gate \in Int /\ largest \in Int
    BY <1>2, <1>9
  <2>2. 0 <= gate /\ 0 <= largest
    BY <1>3, <1>9
  <2> QED BY <2>1, <2>2
<1>11. total \in Int
  BY <1>8 DEF total
<1> HIDE DEF gate, largest
<1>12. H \in SUBSET Int /\ H # {} /\ \E B \in Int : \A x \in H : x <= B
  <2>1. total + gate \in Int /\ largest \in Int
    BY <1>10, <1>11
  <2> DEFINE B == IF total + gate <= largest THEN largest ELSE total + gate
  <2>2. B \in Int /\ total + gate <= B /\ largest <= B
    BY <2>1
  <2> QED BY <2>1, <2>2
<1>13. head \in H /\ \A x \in H : x <= head
  <2> HIDE DEF H
  <2> QED BY <1>12, LargestExists
<1>14. File!ReplayOutcomeHeadroom(file) = head
  BY <1>4, <1>5, <1>6 DEF File!ReplayOutcomeHeadroom, total, gate, largest
<1>15. head \in Int /\ total + gate <= head /\ largest <= head
  BY <1>12, <1>13
<1> HIDE DEF H, head
<1>16. 0 <= head
  BY <1>10, <1>15
<1>17. \A n \in 1..Len(file) :
         Gating(file[n]) <= gate /\ Marking(file[n]) <= head /\ Moving(file[n]) <= head
  <2> TAKE n \in 1..Len(file)
  <2>1. Gating(file[n]) <= gate /\ Marking(file[n]) <= largest /\ Moving(file[n]) <= largest
    BY <1>3, <1>9
  <2>2. Marking(file[n]) \in Int /\ Moving(file[n]) \in Int
    BY <1>1, ChangesOfLength
  <2> QED BY <1>10, <1>15, <2>1, <2>2
<1> QED BY <1>10, <1>14, <1>15, <1>16, <1>17 DEF total

LEMMA MetaIs ==
  ASSUME NEW s \in RowStates, s.quarantine # "corrupt", NEW a \in Nat
  PROVE  \E m \in 0..79, t \in {0, 19} :
           /\ m = File!MemberBytes(s) /\ t = File!Present(a > 0, 19)
           /\ Meta(s, a) = (IF s.present THEN 17 ELSE 0) + m - (IF m > 0 THEN 1 ELSE 0) + t
<1>1. File!MemberBytes(s) \in 0..79
  BY MemberLimit
<1>2. File!Present(a > 0, 19) \in {0, 19}
  BY DEF File!Present
<1>3. Meta(s, a) = (IF s.present THEN 17 ELSE 0) + File!MemberBytes(s)
                     - (IF File!MemberBytes(s) > 0 THEN 1 ELSE 0) + File!Present(a > 0, 19)
  BY <1>1, <1>2 DEF Meta, File!MetadataBytes, File!Present
<1> QED BY <1>1, <1>2, <1>3

LEMMA MembersAre ==
  ASSUME NEW s \in RowStates
  PROVE  File!MemberBytes(s) =
           (IF s.quarantine = "bank-mismatch" THEN 29 ELSE IF s.quarantine = "permanent" THEN 25 ELSE 0)
           + (IF s.gate = "probe" THEN 15 ELSE IF s.gate = "operator" THEN 18 ELSE 0)
           + (IF s.sending THEN 15 ELSE 0) + (IF s.protected THEN 17 ELSE 0)
BY DEF File!MemberBytes, File!Present, RowStates

\* The marker's release takes as much as it added, or more.
LEMMA ReleaseShrinks ==
  ASSUME NEW s \in RowStates, s.quarantine # "corrupt", s.present, s.sending, NEW a \in Nat
  PROVE  Meta(File!Emptied(File!Completed(s)), a) <= Meta(s, a)
<1> DEFINE c == File!Completed(s)
           e == File!Emptied(c)
<1>1. c \in RowStates /\ c.quarantine = s.quarantine /\ c.present /\ ~c.sending
  BY DEF RowStates, File!Completed
<1>2. File!MemberBytes(s) = File!MemberBytes(c) + 15
  <2>1. /\ c.quarantine = s.quarantine /\ c.gate = s.gate /\ c.protected = s.protected
    BY DEF RowStates, File!Completed
  <2> HIDE DEF c
  <2>2. s.sending = TRUE /\ c.sending = FALSE
    BY <1>1 DEF RowStates
  <2> QED BY <1>1, <2>1, <2>2, MembersAre
<1> HIDE DEF c
<1>3. /\ e \in RowStates /\ e.quarantine = c.quarantine /\ e.gate = c.gate
      /\ e.sending = c.sending /\ e.protected = c.protected
  BY <1>1 DEF RowStates, File!Emptied
<1>4. File!MemberBytes(e) = File!MemberBytes(c)
  BY <1>3 DEF File!MemberBytes
<1> HIDE DEF e
<1>5. e.quarantine # "corrupt"
  BY <1>1, <1>3
<1>6. PICK m \in 0..79, t \in {0, 19} :
        /\ m = File!MemberBytes(s) /\ t = File!Present(a > 0, 19)
        /\ Meta(s, a) = (IF s.present THEN 17 ELSE 0) + m - (IF m > 0 THEN 1 ELSE 0) + t
  BY MetaIs
<1>7. PICK k \in 0..79, u \in {0, 19} :
        /\ k = File!MemberBytes(e) /\ u = File!Present(a > 0, 19)
        /\ Meta(e, a) = (IF e.present THEN 17 ELSE 0) + k - (IF k > 0 THEN 1 ELSE 0) + u
  BY <1>3, <1>5, MetaIs
<1>8. m = k + 15 /\ t = u
  BY <1>2, <1>4, <1>6, <1>7
<1>9. Meta(e, a) <= Meta(s, a)
  BY <1>6, <1>7, <1>8
<1> QED BY <1>9 DEF e, c

\* A refusal takes no more than a move to another bank.
LEMMA RefusalShorter ==
  ASSUME NEW s \in RowStates, s.quarantine # "corrupt", NEW a \in Nat
  PROVE  Meta([File!Mismatched(s) EXCEPT !.quarantine = "permanent"], a)
           <= Meta(File!Mismatched(s), a)
<1> DEFINE c == File!Mismatched(s)
           e == [c EXCEPT !.quarantine = "permanent"]
<1>1. c \in RowStates /\ c.quarantine = "bank-mismatch" /\ c.present
  BY DEF RowStates, File!Mismatched
<1> HIDE DEF c
<1>2. /\ e \in RowStates /\ e.quarantine = "permanent" /\ e.present /\ e.gate = c.gate
      /\ e.sending = c.sending /\ e.protected = c.protected
  BY <1>1 DEF RowStates
<1> HIDE DEF e
<1>3. File!MemberBytes(c) = File!MemberBytes(e) + 4 /\ File!MemberBytes(e) > 0
  <2>1. c.gate = e.gate /\ c.sending = e.sending /\ c.protected = e.protected
    BY <1>2
  <2> QED BY <1>1, <1>2, <2>1, MembersAre
<1>4. PICK m \in 0..79, t \in {0, 19} :
        /\ m = File!MemberBytes(c) /\ t = File!Present(a > 0, 19)
        /\ Meta(c, a) = (IF c.present THEN 17 ELSE 0) + m - (IF m > 0 THEN 1 ELSE 0) + t
  BY <1>1, MetaIs
<1>5. PICK k \in 0..79, u \in {0, 19} :
        /\ k = File!MemberBytes(e) /\ u = File!Present(a > 0, 19)
        /\ Meta(e, a) = (IF e.present THEN 17 ELSE 0) + k - (IF k > 0 THEN 1 ELSE 0) + u
  BY <1>2, MetaIs
<1>6. m = k + 4 /\ t = u /\ k > 0
  BY <1>3, <1>4, <1>5
<1>7. Meta(e, a) <= Meta(c, a)
  BY <1>1, <1>2, <1>4, <1>5, <1>6
<1> QED BY <1>7 DEF e, c

-----------------------------------------------------------------------------
(* The rows an operation reads, and what it makes of them *)

LEMMA AtIs ==
  ASSUME NEW id \in File!IdsOf(File!Items)
  PROVE  File!At(id) \in DOMAIN File!Items /\ File!Items[File!At(id)].id = id
BY DEF File!At, File!IdsOf

\* One row has another state.
LEMMA SetStateIs ==
  ASSUME File!Items \in Seq(FileRows), NEW id \in File!IdsOf(File!Items), NEW s \in RowStates
  PROVE  LET t == File!SetState(id, s)
             k == File!At(id) IN
           /\ t \in Seq(FileRows) /\ Len(t) = Len(File!Items)
           /\ \A n \in 1..Len(File!Items) : n # k => t[n] = File!Items[n]
           /\ t[k] = [File!Items[k] EXCEPT !.state = s] /\ k \in 1..Len(File!Items)
<1> DEFINE items == File!Items
           k == File!At(id)
           t == File!SetState(id, s)
<1>1. items \in Seq(FileRows) /\ k \in 1..Len(items)
  BY AtIs
<1>2. t = [items EXCEPT ![k].state = s]
  BY DEF File!SetState
<1> HIDE DEF items, k, t
<1>3. items[k] \in FileRows /\ [items[k] EXCEPT !.state = s] \in FileRows
  <2>1. items[k] \in FileRows
    BY <1>1
  <2> QED BY <2>1 DEF FileRows
<1> DEFINE r == [items[k] EXCEPT !.state = s]
<1>4. t = [items EXCEPT ![k] = r]
  BY <1>2
<1>5. r \in FileRows
  BY <1>3
<1> HIDE DEF r
<1>6. t \in Seq(FileRows) /\ Len(t) = Len(items)
      /\ (\A n \in 1..Len(items) : n # k => t[n] = items[n]) /\ t[k] = r
  BY <1>1, <1>4, <1>5
<1> QED BY <1>1, <1>6 DEF items, k, t, r

\* Rows that differ in what an operation may change.
Alike(t, s) ==
  /\ t \in Seq(FileRows) /\ Len(t) = Len(s)
  /\ \A n \in 1..Len(s) :
       /\ t[n].id = s[n].id /\ t[n].junk = s[n].junk /\ t[n].bytes = s[n].bytes
       /\ t[n].bank = s[n].bank /\ t[n].range = s[n].range /\ t[n].ended = s[n].ended

LEMMA StateOfRow ==
  ASSUME NEW r \in FileRows, NEW s \in RowStates
  PROVE  LET q == [r EXCEPT !.state = s] IN
           /\ q \in FileRows /\ q.state = s /\ q.id = r.id /\ q.junk = r.junk /\ q.bytes = r.bytes
           /\ q.bank = r.bank /\ q.range = r.range /\ q.ended = r.ended /\ q.named = r.named
           /\ q.attempts = r.attempts
BY DEF FileRows

LEMMA SetStateAlike ==
  ASSUME File!Items \in Seq(FileRows), NEW id \in File!IdsOf(File!Items), NEW s \in RowStates
  PROVE  Alike(File!SetState(id, s), File!Items)
<1> DEFINE items == File!Items
           k == File!At(id)
           t == File!SetState(id, s)
<1>1. /\ t \in Seq(FileRows) /\ Len(t) = Len(items)
      /\ \A n \in 1..Len(items) : n # k => t[n] = items[n]
      /\ t[k] = [items[k] EXCEPT !.state = s] /\ k \in 1..Len(items)
  BY SetStateIs
<1>2. items[k] \in FileRows
  BY <1>1
<1> HIDE DEF items, k, t
<1>3. /\ t[k].id = items[k].id /\ t[k].junk = items[k].junk /\ t[k].bytes = items[k].bytes
      /\ t[k].bank = items[k].bank /\ t[k].range = items[k].range /\ t[k].ended = items[k].ended
  BY <1>1, <1>2, StateOfRow
<1>4. Alike(t, items)
  BY <1>1, <1>3 DEF Alike
<1> QED BY <1>4 DEF items, t

\* Every row has another state.
StatesSet(t, s, new) ==
  t = [n \in DOMAIN s |-> [s[n] EXCEPT !.state = new[n]]] /\ new \in [DOMAIN s -> RowStates]

StatesAre(t, s, new) ==
  \A n \in 1..Len(s) : t[n].state = new[n] /\ t[n].attempts = s[n].attempts /\ t[n].named = s[n].named

LEMMA StatesSetIs ==
  ASSUME NEW s \in Seq(FileRows), NEW t, NEW new, StatesSet(t, s, new)
  PROVE  Alike(t, s) /\ StatesAre(t, s, new)
<1>1. DOMAIN s = 1..Len(s) /\ Len(s) \in Nat /\ \A n \in 1..Len(s) : s[n] \in FileRows
  OBVIOUS
<1>2. t = [n \in 1..Len(s) |-> [s[n] EXCEPT !.state = new[n]]] /\ \A n \in 1..Len(s) : new[n] \in RowStates
  BY <1>1 DEF StatesSet
<1>3. \A n \in 1..Len(s) : t[n] = [s[n] EXCEPT !.state = new[n]]
  BY <1>2
<1>4. ASSUME NEW n \in 1..Len(s)
      PROVE  /\ t[n] \in FileRows /\ t[n].state = new[n] /\ t[n].id = s[n].id /\ t[n].junk = s[n].junk
             /\ t[n].bytes = s[n].bytes /\ t[n].bank = s[n].bank /\ t[n].range = s[n].range
             /\ t[n].ended = s[n].ended /\ t[n].named = s[n].named /\ t[n].attempts = s[n].attempts
  <2>1. s[n] \in FileRows /\ new[n] \in RowStates /\ t[n] = [s[n] EXCEPT !.state = new[n]]
    BY <1>1, <1>2, <1>3
  <2> DEFINE r == s[n]
             x == new[n]
             q == t[n]
  <2>2. r \in FileRows /\ x \in RowStates /\ q = [r EXCEPT !.state = x]
    BY <2>1
  <2> HIDE DEF r, x, q
  <2>3. /\ q \in FileRows /\ q.state = x /\ q.id = r.id /\ q.junk = r.junk /\ q.bytes = r.bytes
        /\ q.bank = r.bank /\ q.range = r.range /\ q.ended = r.ended /\ q.named = r.named
        /\ q.attempts = r.attempts
    BY <2>2, StateOfRow
  <2> QED BY <2>3 DEF r, x, q
<1>5. t \in [1..Len(s) -> FileRows]
  <2>1. t = [n \in 1..Len(s) |-> t[n]]
    BY <1>2
  <2> QED BY <1>4, <2>1
<1>6. t \in Seq(FileRows) /\ Len(t) = Len(s)
  BY <1>1, <1>5, FunctionIsSequence
<1> QED BY <1>4, <1>6 DEF Alike, StatesAre

LEMMA RemoveAtIs ==
  ASSUME NEW S, NEW s \in Seq(S), NEW k \in 1..Len(s)
  PROVE  /\ File!RemoveAt(s, k) \in Seq(S) /\ Len(File!RemoveAt(s, k)) = Len(s) - 1
         /\ \A n \in 1..(Len(s) - 1) : File!RemoveAt(s, k)[n] = s[IF n < k THEN n ELSE n + 1]
<1> DEFINE a == SubSeq(s, 1, k - 1)
           b == SubSeq(s, k + 1, Len(s))
<1>1. a \in Seq(S) /\ Len(a) = k - 1 /\ \A n \in 1..(k - 1) : a[n] = s[n]
  OBVIOUS
<1>2. b \in Seq(S) /\ Len(b) = Len(s) - k /\ \A n \in 1..(Len(s) - k) : b[n] = s[k + n]
  OBVIOUS
<1>3. Len(s) \in Nat /\ k \in Nat /\ 1 <= k /\ k <= Len(s)
  OBVIOUS
<1>4. File!RemoveAt(s, k) = a \o b
  BY DEF File!RemoveAt
<1> HIDE DEF a, b
<1> DEFINE c == a \o b
<1>5. c \in Seq(S) /\ Len(c) = Len(s) - 1
  <2>1. c \in Seq(S) /\ Len(c) = Len(a) + Len(b)
    BY <1>1, <1>2, ConcatProperties
  <2> QED BY <1>1, <1>2, <1>3, <2>1
<1>6. ASSUME NEW n \in 1..(Len(s) - 1) PROVE c[n] = s[IF n < k THEN n ELSE n + 1]
  <2>1. CASE n < k
    <3>1. n \in 1..Len(a) /\ n \in 1..(k - 1)
      BY <1>1, <1>3, <2>1
    <3>2. c[n] = a[n]
      BY <1>1, <1>2, <3>1
    <3> QED BY <1>1, <2>1, <3>1, <3>2
  <2>2. CASE ~(n < k)
    <3>1. n - (k - 1) \in 1..(Len(s) - k) /\ k + (n - (k - 1)) = n + 1 /\ n > Len(a)
      BY <1>1, <1>3, <2>2
    <3>2. c[n] = b[n - Len(a)]
      BY <1>1, <1>2, <1>3, <3>1
    <3>3. c[n] = s[k + (n - (k - 1))]
      BY <1>1, <1>2, <3>1, <3>2
    <3> QED BY <2>2, <3>1, <3>3
  <2> QED BY <2>1, <2>2
<1> QED BY <1>4, <1>5, <1>6

\* A row whose metadata change, and the file with it.
LEMMA OneRowGrows ==
  ASSUME NEW s \in Seq(FileRows), NEW t \in Seq(FileRows), Len(t) = Len(s), NEW k \in 1..Len(s),
         \A n \in 1..Len(s) : n # k => t[n] = s[n],
         ~s[k].junk, ~t[k].junk, t[k].bytes = s[k].bytes, t[k].named = s[k].named
  PROVE  /\ File!FileBytes(t) = File!FileBytes(s) + Meta(t[k].state, t[k].attempts)
                                  - Meta(s[k].state, s[k].attempts)
         /\ Meta(t[k].state, t[k].attempts) \in Int /\ Meta(s[k].state, s[k].attempts) \in Int
<1>1. /\ Bytes(s) \in Seq(Int) /\ Bytes(t) \in Seq(Int) /\ Len(Bytes(s)) = Len(s)
      /\ Len(Bytes(t)) = Len(s)
      /\ \A n \in 1..Len(s) : Bytes(s)[n] = File!LineBytes(s[n]) /\ Bytes(t)[n] = File!LineBytes(t[n])
  BY BytesAreIntegers
<1>2. s[k] \in FileRows /\ t[k] \in FileRows
  OBVIOUS
<1>3. File!LineBytes(t[k]) = File!LineBytes(s[k]) + Meta(t[k].state, t[k].attempts)
                               - Meta(s[k].state, s[k].attempts)
  BY <1>2, LineGrows
<1>4. File!Total(Bytes(t)) = File!Total(Bytes(s)) + Bytes(t)[k] - Bytes(s)[k]
  <2>1. \A n \in 1..Len(Bytes(s)) : n # k => Bytes(s)[n] = Bytes(t)[n]
    BY <1>1
  <2>2. k \in 1..Len(Bytes(s)) /\ Len(Bytes(s)) = Len(Bytes(t))
    BY <1>1
  <2> QED BY <1>1, <2>1, <2>2, TotalChange
<1>5. Bytes(t)[k] = File!LineBytes(t[k]) /\ Bytes(s)[k] = File!LineBytes(s[k])
  BY <1>1
<1>6. /\ s[k].state \in RowStates /\ t[k].state \in RowStates /\ s[k].attempts \in Nat
      /\ t[k].attempts \in Nat
  BY <1>2 DEF FileRows
<1>7. Meta(t[k].state, t[k].attempts) \in Int /\ Meta(s[k].state, s[k].attempts) \in Int
  BY <1>6, MetaLimit
<1>8. File!FileBytes(t) = File!Total(Bytes(t)) /\ File!FileBytes(s) = File!Total(Bytes(s))
      /\ File!FileBytes(s) \in Int
  BY FileBytesIs
<1>9. File!LineBytes(s[k]) \in Int
  BY <1>2, LineWithinLimit
<1> DEFINE x == Meta(t[k].state, t[k].attempts)
           y == Meta(s[k].state, s[k].attempts)
           z == File!LineBytes(s[k])
<1> HIDE DEF x, y, z
<1>10. File!FileBytes(t) = File!FileBytes(s) + (z + x - y) - z
  BY <1>3, <1>4, <1>5, <1>8 DEF x, y, z
<1>11. x \in Int /\ y \in Int /\ z \in Int
  BY <1>7, <1>9 DEF x, y, z
<1>12. File!FileBytes(t) = File!FileBytes(s) + x - y
  BY <1>8, <1>10, <1>11
<1> QED BY <1>7, <1>12 DEF x, y

\* A row is removed.
LEMMA OneRowLeaves ==
  ASSUME NEW s \in Seq(FileRows), NEW k \in 1..Len(s)
  PROVE  LET t == File!RemoveAt(s, k) IN
           /\ t \in Seq(FileRows) /\ File!FileBytes(t) <= File!FileBytes(s)
           /\ Roomy(s) /\ limit \in Nat => Roomy(t)
<1> DEFINE t == File!RemoveAt(s, k)
<1>1. t \in Seq(FileRows) /\ Len(t) = Len(s) - 1
      /\ \A n \in 1..Len(t) : t[n] = s[IF n < k THEN n ELSE n + 1]
  BY RemoveAtIs
<1> HIDE DEF t
<1>2. /\ Bytes(s) \in Seq(Int) /\ Bytes(t) \in Seq(Int) /\ Len(Bytes(s)) = Len(s)
      /\ Len(Bytes(t)) = Len(t) /\ LineLimits(s) \in Seq(Int) /\ LineLimits(t) \in Seq(Int)
      /\ Len(LineLimits(s)) = Len(s) /\ Len(LineLimits(t)) = Len(t)
  BY <1>1, BytesAreIntegers
<1>3. \A n \in 1..Len(s) : Bytes(s)[n] = File!LineBytes(s[n]) /\ LineLimits(s)[n] = LineLimit(s[n])
  BY BytesAreIntegers
<1>4. \A n \in 1..Len(t) : Bytes(t)[n] = File!LineBytes(t[n]) /\ LineLimits(t)[n] = LineLimit(t[n])
  BY <1>1, BytesAreIntegers
<1>5. \A n \in 1..Len(t) : (IF n < k THEN n ELSE n + 1) \in 1..Len(s)
  BY <1>1
<1>6. \A n \in 1..Len(t) : Bytes(t)[n] = Bytes(s)[IF n < k THEN n ELSE n + 1]
  BY <1>1, <1>3, <1>4, <1>5
<1>7. \A n \in 1..Len(t) : LineLimits(t)[n] = LineLimits(s)[IF n < k THEN n ELSE n + 1]
  BY <1>1, <1>3, <1>4, <1>5
<1>8. File!Total(Bytes(t)) = File!Total(Bytes(s)) - Bytes(s)[k]
  <2> DEFINE f == Bytes(s)
             g == Bytes(t)
  <2>1. f \in Seq(Int) /\ g \in Seq(Int) /\ k \in 1..Len(f) /\ Len(g) = Len(f) - 1
        /\ \A n \in 1..Len(g) : g[n] = f[IF n < k THEN n ELSE n + 1]
    BY <1>1, <1>2, <1>6
  <2> HIDE DEF f, g
  <2>2. File!Total(g) = File!Total(f) - f[k]
    BY <2>1, TotalDrop
  <2> QED BY <2>2 DEF f, g
<1>9. File!Total(LineLimits(t)) = File!Total(LineLimits(s)) - LineLimits(s)[k]
  <2> DEFINE f == LineLimits(s)
             g == LineLimits(t)
  <2>1. f \in Seq(Int) /\ g \in Seq(Int) /\ k \in 1..Len(f) /\ Len(g) = Len(f) - 1
        /\ \A n \in 1..Len(g) : g[n] = f[IF n < k THEN n ELSE n + 1]
    BY <1>1, <1>2, <1>7
  <2> HIDE DEF f, g
  <2>2. File!Total(g) = File!Total(f) - f[k]
    BY <2>1, TotalDrop
  <2> QED BY <2>2 DEF f, g
<1>10. Bytes(s)[k] \in Nat /\ LineLimits(s)[k] \in Nat
  <2>1. s[k] \in FileRows
    OBVIOUS
  <2> QED BY <1>3, <2>1, LineWithinLimit
<1>11. File!Total(Bytes(s)) \in Int /\ File!Total(LineLimits(s)) \in Int
  BY <1>2, TotalInt
<1>12. File!FileBytes(t) <= File!FileBytes(s)
  <2>1. File!FileBytes(t) = File!Total(Bytes(t)) /\ File!FileBytes(s) = File!Total(Bytes(s))
    BY <1>1, FileBytesIs
  <2> QED BY <1>8, <1>10, <1>11, <2>1
<1>13. Roomy(s) /\ limit \in Nat => Roomy(t)
  BY <1>9, <1>10, <1>11, RoomyIs
<1> QED BY <1>1, <1>12, <1>13 DEF t

\* What a denial makes of the rows: all are protected, one gets the gate.
LEMMA DenialGrows ==
  ASSUME NEW s \in Seq(FileRows), NEW t \in Seq(FileRows), Len(t) = Len(s), NoJunk(s), NoJunk(t),
         NEW k \in 1..Len(s),
         \A n \in 1..Len(s) :
           /\ t[n].bytes = s[n].bytes /\ t[n].named = s[n].named /\ t[n].attempts = s[n].attempts
           /\ t[n].state = IF n = k THEN [Denial(s[n].state) EXCEPT !.gate = "probe"]
                           ELSE Denial(s[n].state)
  PROVE  /\ File!FileBytes(t) = File!FileBytes(s) + File!Total(Protections(s)) + Gating(s[k])
         /\ File!FileBytes(s) \in Int /\ File!Total(Protections(s)) \in Int /\ Gating(s[k]) \in Int
<1>1. /\ Bytes(s) \in Seq(Int) /\ Bytes(t) \in Seq(Int) /\ Len(Bytes(s)) = Len(s)
      /\ Len(Bytes(t)) = Len(s) /\ Len(s) \in Nat
      /\ \A n \in 1..Len(s) : s[n] \in FileRows /\ t[n] \in FileRows
      /\ \A n \in 1..Len(s) : Bytes(s)[n] = File!LineBytes(s[n]) /\ Bytes(t)[n] = File!LineBytes(t[n])
  BY BytesAreIntegers
<1>2. DOMAIN s = 1..Len(s) /\ DOMAIN t = 1..Len(s)
  OBVIOUS
<1>3. \A n \in 1..Len(s) : ~s[n].junk /\ ~t[n].junk
  BY <1>2 DEF NoJunk
<1>4. \A n \in 1..Len(s) : Protecting(s[n]) \in Int /\ Gating(s[n]) \in Int
  BY <1>1, ChangesOfLength
<1>5. Protections(s) \in Seq(Int) /\ Len(Protections(s)) = Len(s)
      /\ \A n \in 1..Len(s) : Protections(s)[n] = Protecting(s[n])
  <2>1. Protections(s) \in [1..Len(s) -> Int]
    BY <1>2, <1>4 DEF Protections
  <2>2. \A n \in 1..Len(s) : Protections(s)[n] = Protecting(s[n])
    BY <1>2 DEF Protections
  <2> QED BY <1>1, <2>1, <2>2, FunctionIsSequence
<1> DEFINE m == [n \in 1..Len(s) |-> Bytes(s)[n] + Protections(s)[n]]
<1>6. m \in Seq(Int) /\ Len(m) = Len(s)
  <2>1. m \in [1..Len(s) -> Int]
    BY <1>1, <1>5
  <2> HIDE DEF m
  <2> QED BY <1>1, <2>1, FunctionIsSequence
<1>7. \A n \in 1..Len(s) : m[n] = Bytes(s)[n] + Protections(s)[n]
  OBVIOUS
<1> HIDE DEF m
<1>8. File!Total(m) = File!Total(Bytes(s)) + File!Total(Protections(s))
  BY <1>1, <1>5, <1>6, <1>7, TotalSum
<1>9. ASSUME NEW n \in 1..Len(s)
      PROVE  File!LineBytes(t[n]) = m[n] + (IF n = k THEN Gating(s[n]) ELSE 0)
  <2>1. File!LineBytes(t[n]) = File!LineBytes(s[n]) + Meta(t[n].state, t[n].attempts)
                                 - Meta(s[n].state, s[n].attempts)
    BY <1>1, <1>3, LineGrows
  <2>2. m[n] = File!LineBytes(s[n]) + Protecting(s[n])
    BY <1>1, <1>5, <1>7
  <2>3. Protecting(s[n]) = Meta(Denial(s[n].state), s[n].attempts) - Meta(s[n].state, s[n].attempts)
    BY DEF Protecting
  <2>4. Gating(s[n]) = Meta([Denial(s[n].state) EXCEPT !.gate = "probe"], s[n].attempts)
                         - Meta(Denial(s[n].state), s[n].attempts)
    BY DEF Gating
  <2> DEFINE a == Meta(s[n].state, s[n].attempts)
             b == Meta(Denial(s[n].state), s[n].attempts)
             c == Meta([Denial(s[n].state) EXCEPT !.gate = "probe"], s[n].attempts)
             z == File!LineBytes(s[n])
  <2>5. a \in Int /\ b \in Int /\ c \in Int /\ z \in Int
    <3>1. s[n] \in FileRows
      BY <1>1
    <3>2. s[n].state \in RowStates /\ s[n].attempts \in Nat
      BY <3>1 DEF FileRows
    <3>3. Denial(s[n].state) \in RowStates /\ [Denial(s[n].state) EXCEPT !.gate = "probe"] \in RowStates
      BY <3>2, DenialIs
    <3>4. a \in Int
      BY <3>2, MetaLimit
    <3>5. b \in Int
      BY <3>2, <3>3, MetaLimit
    <3>6. c \in Int
      BY <3>2, <3>3, MetaLimit
    <3>7. z \in Int
      BY <3>1, LineWithinLimit
    <3> QED BY <3>4, <3>5, <3>6, <3>7
  <2>6. t[n].attempts = s[n].attempts
    OBVIOUS
  <2>7. Meta(t[n].state, t[n].attempts) = IF n = k THEN c ELSE b
    <3>1. CASE n = k
      BY <2>6, <3>1
    <3>2. CASE n # k
      BY <2>6, <3>2
    <3> QED BY <3>1, <3>2
  <2> HIDE DEF a, b, c, z
  <2>8. File!LineBytes(t[n]) = z + (IF n = k THEN c ELSE b) - a
    BY <2>1, <2>7 DEF a, z
  <2>9. m[n] = z + (b - a) /\ Gating(s[n]) = c - b
    BY <2>2, <2>3, <2>4 DEF a, b, c, z
  <2> QED BY <2>5, <2>8, <2>9
<1>10. File!Total(Bytes(t)) = File!Total(m) + Bytes(t)[k] - m[k]
  <2>1. \A n \in 1..Len(m) : n # k => m[n] = Bytes(t)[n]
    <3> TAKE n \in 1..Len(m)
    <3> HAVE n # k
    <3>1. n \in 1..Len(s)
      BY <1>6
    <3>2. m[n] \in Int
      BY <1>6
    <3> QED BY <1>1, <1>9, <3>1, <3>2
  <2>2. k \in 1..Len(m) /\ Len(m) = Len(Bytes(t))
    BY <1>1, <1>6
  <2> QED BY <1>1, <1>6, <2>1, <2>2, TotalChange
<1>11. Bytes(t)[k] = m[k] + Gating(s[k]) /\ m[k] \in Int /\ Gating(s[k]) \in Int
  <2>1. m[k] \in Int
    BY <1>6
  <2> QED BY <1>1, <1>4, <1>9, <2>1
<1>12. File!Total(Bytes(s)) \in Int /\ File!Total(Protections(s)) \in Int
  BY <1>1, <1>5, TotalInt
<1>13. File!FileBytes(t) = File!Total(Bytes(t)) /\ File!FileBytes(s) = File!Total(Bytes(s))
  BY FileBytesIs
<1> QED BY <1>8, <1>10, <1>11, <1>12, <1>13

\* The state a denial leaves a row with.
DeniedState(r, id) == [Denial(r.state) EXCEPT !.gate = IF r.id = id THEN "probe" ELSE @]

LEMMA DeniedStateIs ==
  ASSUME NEW r \in FileRows, NEW id
  PROVE  /\ DeniedState(r, id) \in RowStates
         /\ r.id = id => DeniedState(r, id) = [Denial(r.state) EXCEPT !.gate = "probe"]
         /\ r.id # id => DeniedState(r, id) = Denial(r.state)
<1>1. Denial(r.state) \in RowStates
  <2>1. r.state \in RowStates
    BY DEF FileRows
  <2> QED BY <2>1, DenialIs
<1> DEFINE d == Denial(r.state)
<1>2. d \in RowStates
  BY <1>1
<1> HIDE DEF d
<1>3. CASE r.id = id
  <2>1. [d EXCEPT !.gate = "probe"] \in RowStates
    BY <1>2, StatesMade
  <2> QED BY <1>3, <2>1 DEF DeniedState, d
<1>4. CASE r.id # id
  <2>1. [d EXCEPT !.gate = d.gate] = d
    BY <1>2 DEF RowStates
  <2> QED BY <1>2, <1>4, <2>1 DEF DeniedState, d
<1> QED BY <1>3, <1>4

LEMMA DeniedIs ==
  ASSUME File!Items \in Seq(FileRows), NEW id
  PROVE  StatesSet(File!Denied(id), File!Items,
                   [n \in DOMAIN File!Items |-> DeniedState(File!Items[n], id)])
<1>1. \A n \in DOMAIN File!Items : DeniedState(File!Items[n], id) \in RowStates
  BY DeniedStateIs
<1>2. File!Denied(id) = [n \in DOMAIN File!Items |->
                           [File!Items[n] EXCEPT !.state = DeniedState(File!Items[n], id)]]
  BY DEF File!Denied, File!SetStates, DeniedState, Denial
<1> DEFINE new == [n \in DOMAIN File!Items |-> DeniedState(File!Items[n], id)]
<1>3. \A n \in DOMAIN File!Items : new[n] = DeniedState(File!Items[n], id)
  OBVIOUS
<1>4. new \in [DOMAIN File!Items -> RowStates]
  BY <1>1
<1> HIDE DEF new
<1>5. File!Denied(id) = [n \in DOMAIN File!Items |-> [File!Items[n] EXCEPT !.state = new[n]]]
  BY <1>2, <1>3
<1>6. StatesSet(File!Denied(id), File!Items, new)
  BY <1>4, <1>5 DEF StatesSet
<1> QED BY <1>6 DEF new

LEMMA PreparedStateIs ==
  ASSUME NEW r \in FileRows
  PROVE  File!PreparedState(r) \in RowStates
<1>1. r.state \in RowStates
  BY DEF FileRows
<1>2. File!Protected(r.state) \in RowStates
  BY <1>1, StatesMade
<1> DEFINE gated == \E n \in DOMAIN File!Items : File!Items[n].state.gate # "none"
           s == IF gated THEN File!Protected(r.state) ELSE r.state
<1>3. s \in RowStates
  BY <1>1, <1>2
<1>4. File!PreparedState(r) = IF s.quarantine = "none" /\ r.bank # bank THEN File!Mismatched(s) ELSE s
  BY DEF File!PreparedState
<1> HIDE DEF s
<1> QED BY <1>3, <1>4, StatesMade

PreparedItems == File!SetStates(File!PreparedState)

LEMMA PreparedIs ==
  ASSUME File!Items \in Seq(FileRows)
  PROVE  StatesSet(PreparedItems, File!Items,
                   [n \in DOMAIN File!Items |-> File!PreparedState(File!Items[n])])
<1>1. \A n \in DOMAIN File!Items : File!PreparedState(File!Items[n]) \in RowStates
  BY PreparedStateIs
<1>2. PreparedItems = [n \in DOMAIN File!Items |->
                    [File!Items[n] EXCEPT !.state = File!PreparedState(File!Items[n])]]
  BY DEF PreparedItems, File!SetStates
<1> DEFINE new == [n \in DOMAIN File!Items |-> File!PreparedState(File!Items[n])]
<1>3. \A n \in DOMAIN File!Items : new[n] = File!PreparedState(File!Items[n])
  OBVIOUS
<1>4. new \in [DOMAIN File!Items -> RowStates]
  BY <1>1
<1> HIDE DEF new
<1>5. PreparedItems = [n \in DOMAIN File!Items |-> [File!Items[n] EXCEPT !.state = new[n]]]
  BY <1>2, <1>3
<1>6. StatesSet(PreparedItems, File!Items, new)
  BY <1>4, <1>5 DEF StatesSet
<1> QED BY <1>6 DEF new

\* A row that is named or counted keeps its state.
SameStates(t, s) == \A n \in 1..Len(s) : t[n].state = s[n].state

LEMMA NamedIs ==
  ASSUME File!Items \in Seq(FileRows), NEW id \in File!IdsOf(File!Items)
  PROVE  LET t == [File!Items EXCEPT ![File!At(id)].named = TRUE] IN
           Alike(t, File!Items) /\ SameStates(t, File!Items)
<1> DEFINE items == File!Items
           k == File!At(id)
           r == [items[k] EXCEPT !.named = TRUE]
           t == [items EXCEPT ![k] = r]
<1>1. items \in Seq(FileRows) /\ k \in 1..Len(items)
  BY AtIs
<1>2. [File!Items EXCEPT ![File!At(id)].named = TRUE] = t
  OBVIOUS
<1>3. items[k] \in FileRows
  BY <1>1
<1>4. /\ r \in FileRows /\ r.state = items[k].state /\ r.id = items[k].id /\ r.junk = items[k].junk
      /\ r.bytes = items[k].bytes /\ r.bank = items[k].bank /\ r.range = items[k].range
      /\ r.ended = items[k].ended
  BY <1>3 DEF FileRows
<1> HIDE DEF items, k, r
<1>5. t \in Seq(FileRows) /\ Len(t) = Len(items) /\ t[k] = r
      /\ \A n \in 1..Len(items) : n # k => t[n] = items[n]
  BY <1>1, <1>4
<1> HIDE DEF t
<1>6. Alike(t, items) /\ SameStates(t, items)
  BY <1>4, <1>5 DEF Alike, SameStates
<1> QED BY <1>2, <1>6 DEF items

LEMMA CountedIs ==
  ASSUME File!Items \in Seq(FileRows), NEW id \in File!IdsOf(File!Items)
  PROVE  LET t == File!Counted(id)
             k == File!At(id) IN
           /\ Alike(t, File!Items) /\ SameStates(t, File!Items) /\ k \in 1..Len(File!Items)
           /\ t[k].attempts = File!Items[k].attempts + 1 /\ t[k].named = File!Items[k].named
           /\ \A n \in 1..Len(File!Items) : n # k => t[n] = File!Items[n]
<1> DEFINE items == File!Items
           k == File!At(id)
           a == items[k].attempts + 1
           r == [items[k] EXCEPT !.attempts = a]
           t == [items EXCEPT ![k] = r]
<1>1. items \in Seq(FileRows) /\ k \in 1..Len(items)
  BY AtIs
<1>2. File!Counted(id) = t
  BY DEF File!Counted
<1>3. items[k] \in FileRows
  BY <1>1
<1>4. a \in Nat
  BY <1>3, SMTT(30) DEF FileRows
<1> HIDE DEF a
<1>5. /\ r \in FileRows /\ r.state = items[k].state /\ r.id = items[k].id /\ r.junk = items[k].junk
      /\ r.bytes = items[k].bytes /\ r.bank = items[k].bank /\ r.range = items[k].range
      /\ r.ended = items[k].ended /\ r.named = items[k].named /\ r.attempts = a
  BY <1>3, <1>4 DEF FileRows
<1> HIDE DEF items, k, r
<1>6. t \in Seq(FileRows) /\ Len(t) = Len(items) /\ t[k] = r
      /\ \A n \in 1..Len(items) : n # k => t[n] = items[n]
  BY <1>1, <1>5
<1> HIDE DEF t
<1>7. Alike(t, items) /\ SameStates(t, items)
  BY <1>5, <1>6 DEF Alike, SameStates
<1> QED BY <1>1, <1>2, <1>5, <1>6, <1>7 DEF items, k, a

\* What the row that is sent makes of the file with any answer.
SendingRow(s, k) ==
  /\ k \in 1..Len(s) /\ NoJunk(s) /\ Distinct(s)
  /\ s[k].state.sending /\ s[k].state.present /\ s[k].state.quarantine # "corrupt"

LEMMA RefusalFits ==
  ASSUME File!Items \in Seq(FileRows), NEW id \in File!IdsOf(File!Items),
         SendingRow(File!Items, File!At(id)),
         NEW s \in RowStates, limit \in Nat,
         File!FileBytes(File!Items) + File!ReplayOutcomeHeadroom(File!Items) <= limit,
         LET r == File!Items[File!At(id)] IN
           \/ Meta(s, r.attempts) <= Meta(r.state, r.attempts)
           \/ Meta(s, r.attempts) <= Meta(File!Mismatched(File!Completed(r.state)), r.attempts)
  PROVE  File!FileBytes(File!SetState(id, s)) <= limit
<1> DEFINE items == File!Items
           k == File!At(id)
           t == File!SetState(id, s)
           r == items[k]
<1>1. /\ t \in Seq(FileRows) /\ Len(t) = Len(items)
      /\ \A n \in 1..Len(items) : n # k => t[n] = items[n]
      /\ t[k] = [items[k] EXCEPT !.state = s] /\ k \in 1..Len(items)
  BY SetStateIs
<1>2. r \in FileRows
  BY <1>1
<1>3. items \in Seq(FileRows) /\ ~items[k].junk
  BY <1>1 DEF SendingRow, NoJunk
<1>4. PICK gate \in Nat, head \in Int :
        /\ File!ReplayOutcomeHeadroom(items) = head
        /\ File!Total(Protections(items)) + gate <= head /\ 0 <= head
        /\ \A n \in 1..Len(items) :
             Gating(items[n]) <= gate /\ Marking(items[n]) <= head /\ Moving(items[n]) <= head
  BY <1>3, HeadroomIs
<1> DEFINE new == Meta(s, r.attempts)
           old == Meta(r.state, r.attempts)
           moved == Meta(File!Mismatched(File!Completed(r.state)), r.attempts)
<1>5. new <= old \/ new <= moved
  OBVIOUS
<1>6. File!FileBytes(items) + File!ReplayOutcomeHeadroom(items) <= limit
  OBVIOUS
<1> HIDE DEF items, k, t, new, old, moved
<1>7. /\ t[k].junk = items[k].junk /\ t[k].bytes = items[k].bytes /\ t[k].named = items[k].named
      /\ t[k].state = s /\ t[k].attempts = r.attempts
  BY <1>1, <1>2, StateOfRow
<1>8. File!FileBytes(t) = File!FileBytes(items) + new - old /\ new \in Int /\ old \in Int
  <2>1. /\ File!FileBytes(t) = File!FileBytes(items) + Meta(t[k].state, t[k].attempts)
                                - Meta(items[k].state, items[k].attempts)
        /\ Meta(t[k].state, t[k].attempts) \in Int /\ Meta(items[k].state, items[k].attempts) \in Int
    BY <1>1, <1>3, <1>7, OneRowGrows
  <2> QED BY <1>7, <2>1 DEF new, old
<1>9. Moving(items[k]) = moved - old /\ Moving(items[k]) <= head
  BY <1>1, <1>4 DEF Moving, moved, old
<1>10. moved \in Int
  <2>1. r.state \in RowStates /\ r.attempts \in Nat
    BY <1>2 DEF FileRows
  <2>2. File!Mismatched(File!Completed(r.state)) \in RowStates
    BY <2>1, DenialIs
  <2> QED BY <2>1, <2>2, MetaLimit DEF moved
<1>11. File!FileBytes(items) \in Int
  BY <1>3, FileBytesIs
<1>12. File!FileBytes(t) <= limit
  BY <1>4, <1>5, <1>6, <1>8, <1>9, <1>10, <1>11
<1> QED BY <1>12 DEF t

LEMMA CountFits ==
  ASSUME File!Items \in Seq(FileRows), NEW id \in File!IdsOf(File!Items),
         SendingRow(File!Items, File!At(id)), limit \in Nat,
         File!FileBytes(File!Items) + File!ReplayOutcomeHeadroom(File!Items) <= limit
  PROVE  File!FileBytes(File!Counted(id)) <= limit
<1> DEFINE items == File!Items
           k == File!At(id)
           t == File!Counted(id)
           r == items[k]
<1>1. /\ Alike(t, items) /\ SameStates(t, items) /\ k \in 1..Len(items)
      /\ t[k].attempts = r.attempts + 1 /\ t[k].named = items[k].named
      /\ \A n \in 1..Len(items) : n # k => t[n] = items[n]
  BY CountedIs
<1>2. r \in FileRows
  BY <1>1
<1>3. items \in Seq(FileRows) /\ ~items[k].junk /\ r.state.sending /\ r.state.present
  BY <1>1 DEF SendingRow, NoJunk
<1>4. PICK gate \in Nat, head \in Int :
        /\ File!ReplayOutcomeHeadroom(items) = head
        /\ File!Total(Protections(items)) + gate <= head /\ 0 <= head
        /\ \A n \in 1..Len(items) :
             Gating(items[n]) <= gate /\ Marking(items[n]) <= head /\ Moving(items[n]) <= head
  BY <1>3, HeadroomIs
<1>5. File!FileBytes(items) + File!ReplayOutcomeHeadroom(items) <= limit
  OBVIOUS
<1> DEFINE new == Meta(r.state, r.attempts + 1)
           old == Meta(r.state, r.attempts)
<1> HIDE DEF items, k, t, new, old
<1>6. /\ t[k].junk = items[k].junk /\ t[k].bytes = items[k].bytes /\ t[k].state = items[k].state
      /\ t \in Seq(FileRows) /\ Len(t) = Len(items)
  BY <1>1 DEF Alike, SameStates
<1>7. File!FileBytes(t) = File!FileBytes(items) + new - old /\ new \in Int /\ old \in Int
  <2>1. /\ File!FileBytes(t) = File!FileBytes(items) + Meta(t[k].state, t[k].attempts)
                                - Meta(items[k].state, items[k].attempts)
        /\ Meta(t[k].state, t[k].attempts) \in Int /\ Meta(items[k].state, items[k].attempts) \in Int
    BY <1>1, <1>3, <1>6, OneRowGrows, ZenonT(60)
  <2> QED BY <1>1, <1>6, <2>1 DEF new, old
<1>8. Marking(items[k]) = new - old /\ Marking(items[k]) <= head
  <2>1. r.state \in RowStates
    BY <1>2 DEF FileRows
  <2> DEFINE x == r.state
  <2>2. x \in RowStates /\ x.sending /\ x.present
    BY <1>3, <2>1
  <2>3. [x EXCEPT !.present = TRUE, !.sending = TRUE] = x
    <3> HIDE DEF x
    <3>1. x.sending = TRUE /\ x.present = TRUE
      BY <2>2 DEF RowStates
    <3> QED BY <2>2, <3>1 DEF RowStates
  <2> QED BY <1>1, <1>4, <2>3 DEF Marking, new, old
<1>9. File!FileBytes(items) \in Int
  BY <1>3, FileBytesIs
<1>10. File!FileBytes(t) <= limit
  BY <1>4, <1>5, <1>7, <1>8, <1>9
<1> QED BY <1>10 DEF t

LEMMA DenialFits ==
  ASSUME File!Items \in Seq(FileRows), NEW id \in File!IdsOf(File!Items),
         SendingRow(File!Items, File!At(id)), limit \in Nat,
         File!FileBytes(File!Items) + File!ReplayOutcomeHeadroom(File!Items) <= limit
  PROVE  File!FileBytes(File!Denied(id)) <= limit
<1> DEFINE items == File!Items
           k == File!At(id)
           t == File!Denied(id)
           new == [n \in DOMAIN items |-> DeniedState(items[n], id)]
<1>1. /\ Alike(t, items)
      /\ \A n \in 1..Len(items) : t[n].state = new[n] /\ t[n].attempts = items[n].attempts
                                  /\ t[n].named = items[n].named
  <2>1. StatesSet(t, items, new)
    BY DeniedIs
  <2>2. items \in Seq(FileRows)
    OBVIOUS
  <2> HIDE DEF t, items, new
  <2>3. Alike(t, items) /\ StatesAre(t, items, new)
    BY <2>1, <2>2, StatesSetIs
  <2> QED BY <2>3 DEF StatesAre
<1>2. items \in Seq(FileRows) /\ k \in 1..Len(items) /\ items[k].id = id /\ NoJunk(items)
      /\ Distinct(items)
  BY AtIs DEF SendingRow
<1>3. DOMAIN items = 1..Len(items) /\ \A n \in 1..Len(items) : items[n] \in FileRows
  BY <1>2
<1>4. \A n \in 1..Len(items) : new[n] = DeniedState(items[n], id)
  BY <1>3
<1>5. File!FileBytes(items) + File!ReplayOutcomeHeadroom(items) <= limit
  OBVIOUS
<1> HIDE DEF items, k, t, new
<1>6. \A n \in 1..Len(items) :
        t[n].state = IF n = k THEN [Denial(items[n].state) EXCEPT !.gate = "probe"]
                     ELSE Denial(items[n].state)
  <2> TAKE n \in 1..Len(items)
  <2>1. t[n].state = DeniedState(items[n], id) /\ items[n] \in FileRows
    BY <1>1, <1>3, <1>4
  <2>2. CASE n = k
    BY <1>2, <2>1, <2>2, DeniedStateIs
  <2>3. CASE n # k
    <3>1. items[n].id # id
      BY <1>2, <1>3, <2>3 DEF Distinct
    <3> QED BY <2>1, <2>3, <3>1, DeniedStateIs
  <2> QED BY <2>2, <2>3
<1>7. t \in Seq(FileRows) /\ Len(t) = Len(items) /\ NoJunk(t)
      /\ \A n \in 1..Len(items) : t[n].bytes = items[n].bytes
  <2>1. t \in Seq(FileRows) /\ Len(t) = Len(items)
        /\ \A n \in 1..Len(items) : t[n].bytes = items[n].bytes /\ t[n].junk = items[n].junk
    BY <1>1 DEF Alike
  <2>2. DOMAIN t = 1..Len(items)
    BY <2>1
  <2> QED BY <1>2, <1>3, <2>1, <2>2 DEF NoJunk
<1>8. /\ File!FileBytes(t) = File!FileBytes(items) + File!Total(Protections(items)) + Gating(items[k])
      /\ File!FileBytes(items) \in Int /\ File!Total(Protections(items)) \in Int
      /\ Gating(items[k]) \in Int
  BY <1>1, <1>2, <1>6, <1>7, DenialGrows
<1>9. PICK gate \in Nat, head \in Int :
        /\ File!ReplayOutcomeHeadroom(items) = head
        /\ File!Total(Protections(items)) + gate <= head /\ 0 <= head
        /\ \A n \in 1..Len(items) :
             Gating(items[n]) <= gate /\ Marking(items[n]) <= head /\ Moving(items[n]) <= head
  BY <1>2, HeadroomIs
<1>10. Gating(items[k]) <= gate
  BY <1>2, <1>9
<1>11. File!FileBytes(t) <= limit
  BY <1>5, <1>8, <1>9, <1>10
<1> QED BY <1>11 DEF t

\* The states an answer leaves its row with.
RefusedState(s) == [File!Mismatched(File!Completed(s)) EXCEPT !.quarantine = "permanent"]
ReleasedState(s) == File!Emptied(File!Completed(s))

LEMMA AnswerStates ==
  ASSUME NEW s \in RowStates
  PROVE  RefusedState(s) \in RowStates /\ ReleasedState(s) \in RowStates
<1>1. File!Mismatched(File!Completed(s)) \in RowStates
  BY DenialIs
<1> DEFINE m == File!Mismatched(File!Completed(s))
           c == File!Completed(s)
<1>2. m \in RowStates /\ c \in RowStates
  BY <1>1, StatesMade
<1> HIDE DEF m, c
<1>3. [m EXCEPT !.quarantine = "permanent"] \in RowStates
  BY <1>2, StatesMade
<1>4. File!Emptied(c) \in RowStates
  BY <1>2, StatesMade
<1> QED BY <1>3, <1>4 DEF RefusedState, ReleasedState, m, c

LEMMA AnswersShrink ==
  ASSUME NEW s \in RowStates, s.quarantine # "corrupt", s.present, s.sending, NEW a \in Nat
  PROVE  /\ Meta(ReleasedState(s), a) <= Meta(s, a)
         /\ Meta(RefusedState(s), a) <= Meta(File!Mismatched(File!Completed(s)), a)
<1> DEFINE c == File!Completed(s)
<1>1. c \in RowStates /\ c.quarantine # "corrupt"
  BY DEF RowStates, File!Completed
<1> HIDE DEF c
<1>2. Meta([File!Mismatched(c) EXCEPT !.quarantine = "permanent"], a) <= Meta(File!Mismatched(c), a)
  BY <1>1, RefusalShorter
<1>3. Meta(ReleasedState(s), a) <= Meta(s, a)
  BY ReleaseShrinks DEF ReleasedState
<1> QED BY <1>2, <1>3 DEF RefusedState, c

LEMMA AlikeLengths ==
  ASSUME NEW t, NEW s, Alike(t, s)
  PROVE  SameLengths(s, t)
BY DEF Alike, SameLengths

LEMMA AlikeFits ==
  ASSUME NEW s \in Seq(FileRows), NEW t, Alike(t, s), Roomy(s), limit \in Nat
  PROVE  Roomy(t) /\ File!FileBytes(t) <= limit
<1>1. t \in Seq(FileRows)
  BY DEF Alike
<1>2. Roomy(t)
  BY <1>1, AlikeLengths, RoomyKept
<1> QED BY <1>1, <1>2, RoomyFits

\* The row that is being sent has its answer recorded, whichever it is.
LEMMA OutcomeKinds ==
  ASSUME NEW id, NEW items \in File!Outcomes(id)
  PROVE  \/ items = File!Delivered(id) \/ items = File!Denied(id) \/ items = File!Counted(id)
         \/ items = File!SetState(id, RefusedState(File!Items[File!At(id)].state))
         \/ items = File!SetState(id, ReleasedState(File!Items[File!At(id)].state))
BY DEF File!Outcomes, File!Refused, File!Released, RefusedState, ReleasedState

LEMMA RoomyOutcomes ==
  ASSUME File!Items \in Seq(FileRows), limit \in Nat, NEW id \in File!IdsOf(File!Items),
         Roomy(File!Items), NEW items \in File!Outcomes(id)
  PROVE  File!FileBytes(items) <= limit
<1> DEFINE s == File!Items
           k == File!At(id)
           st == s[k].state
<1>1. s \in Seq(FileRows) /\ k \in 1..Len(s) /\ s[k].id = id
  BY AtIs
<1>2. st \in RowStates
  <2>1. s[k] \in FileRows
    BY <1>1
  <2> QED BY <2>1 DEF FileRows
<1>3. RefusedState(st) \in RowStates /\ ReleasedState(st) \in RowStates
  <2> HIDE DEF st
  <2> QED BY <1>2, AnswerStates
<1> DEFINE refused == RefusedState(st)
           released == ReleasedState(st)
<1>4. Alike(File!SetState(id, refused), s)
  <2>1. refused \in RowStates
    BY <1>3
  <2> HIDE DEF refused
  <2> QED BY <2>1, SetStateAlike
<1>5. Alike(File!SetState(id, released), s)
  <2>1. released \in RowStates
    BY <1>3
  <2> HIDE DEF released
  <2> QED BY <2>1, SetStateAlike
<1>6. Alike(File!Counted(id), s)
  BY CountedIs
<1>7. Alike(File!Denied(id), s)
  <2> DEFINE new == [n \in DOMAIN s |-> DeniedState(s[n], id)]
             t == File!Denied(id)
  <2>1. StatesSet(t, s, new)
    BY DeniedIs
  <2>2. s \in Seq(FileRows)
    OBVIOUS
  <2> HIDE DEF t, s, new
  <2>3. Alike(t, s) /\ StatesAre(t, s, new)
    BY <2>1, <2>2, StatesSetIs
  <2> QED BY <2>3 DEF t
<1>8. File!FileBytes(File!Delivered(id)) <= limit
  <2>1. File!Delivered(id) = File!RemoveAt(s, k)
    BY DEF File!Delivered
  <2> HIDE DEF s, k
  <2>2. File!RemoveAt(s, k) \in Seq(FileRows) /\ Roomy(File!RemoveAt(s, k))
    <3>1. Roomy(s)
      BY DEF s
    <3> QED BY <1>1, <3>1, OneRowLeaves
  <2>3. File!FileBytes(File!RemoveAt(s, k)) <= limit
    BY <2>2, RoomyFits
  <2> QED BY <2>1, <2>3
<1>9. ASSUME NEW t, Alike(t, s) PROVE File!FileBytes(t) <= limit
  <2>1. Roomy(s)
    OBVIOUS
  <2> HIDE DEF s
  <2> QED BY <1>1, <1>9, <2>1, AlikeFits
<1> QED BY <1>4, <1>5, <1>6, <1>7, <1>8, <1>9, OutcomeKinds

LEMMA TightOutcomes ==
  ASSUME File!Items \in Seq(FileRows), limit \in Nat, NEW id \in File!IdsOf(File!Items),
         SendingRow(File!Items, File!At(id)),
         File!FileBytes(File!Items) + File!ReplayOutcomeHeadroom(File!Items) <= limit,
         NEW items \in File!Outcomes(id)
  PROVE  File!FileBytes(items) <= limit
<1> DEFINE s == File!Items
           k == File!At(id)
           st == s[k].state
           a == s[k].attempts
<1>1. s \in Seq(FileRows) /\ k \in 1..Len(s) /\ s[k].id = id
  BY AtIs
<1>2. st \in RowStates /\ a \in Nat
  <2>1. s[k] \in FileRows
    BY <1>1
  <2> QED BY <2>1 DEF FileRows
<1>3. st.quarantine # "corrupt" /\ st.present /\ st.sending
  BY DEF SendingRow
<1> DEFINE refused == RefusedState(st)
           released == ReleasedState(st)
<1>4. refused \in RowStates /\ released \in RowStates
      /\ Meta(released, a) <= Meta(st, a) /\ Meta(refused, a) <= Meta(File!Mismatched(File!Completed(st)), a)
  <2> HIDE DEF st, a
  <2> QED BY <1>2, <1>3, AnswerStates, AnswersShrink
<1> HIDE DEF refused, released
<1>5. File!FileBytes(File!SetState(id, refused)) <= limit
  BY <1>4, RefusalFits
<1>6. File!FileBytes(File!SetState(id, released)) <= limit
  BY <1>4, RefusalFits
<1>7. File!FileBytes(File!Counted(id)) <= limit
  BY CountFits
<1>8. File!FileBytes(File!Denied(id)) <= limit
  BY DenialFits
<1>9. File!FileBytes(File!Delivered(id)) <= limit
  <2>1. File!Delivered(id) = File!RemoveAt(s, k)
    BY DEF File!Delivered
  <2> DEFINE t == File!RemoveAt(s, k)
             head == File!ReplayOutcomeHeadroom(s)
  <2>2. File!FileBytes(s) + head <= limit
    OBVIOUS
  <2> HIDE DEF s, k
  <2>3. t \in Seq(FileRows) /\ File!FileBytes(t) <= File!FileBytes(s)
    BY <1>1, OneRowLeaves
  <2>4. head \in Int /\ 0 <= head
    BY <1>1, HeadroomIs
  <2>5. File!FileBytes(s) \in Int /\ File!FileBytes(t) \in Int
    <3> HIDE DEF t
    <3> QED BY <1>1, <2>3, FileBytesIs
  <2> HIDE DEF t, head
  <2>6. File!FileBytes(t) <= limit
    BY <2>2, <2>3, <2>4, <2>5
  <2> QED BY <2>1, <2>6 DEF t
<1> QED BY <1>5, <1>6, <1>7, <1>8, <1>9, OutcomeKinds DEF refused, released

-----------------------------------------------------------------------------
(* Reading: the junk of a file *)

\* The junk of the first lines, for every number of them.
Gathers(file, g) ==
  /\ g \in [0..Len(file) -> Seq(FileIds)] /\ g[0] = <<>>
  /\ \A n \in 1..Len(file) :
       g[n] = IF file[n].junk THEN Append(g[n - 1], file[n].id) ELSE g[n - 1]

LEMMA JunkGathers ==
  ASSUME NEW f \in Seq(FileRows)
  PROVE  Gathers(f, File!JunkBefore(f)) /\ File!JunkOf(f) = File!JunkBefore(f)[Len(f)]
<1> DEFINE T == Seq(FileIds)
           ids[n \in 0..Len(f)] ==
             IF n = 0 THEN <<>> ELSE IF f[n].junk THEN Append(ids[n - 1], f[n].id) ELSE ids[n - 1]
           step == [n \in 1..Len(f) |-> [s \in T |-> IF f[n].junk THEN Append(s, f[n].id) ELSE s]]
           first == <<>>
<1>1. Len(f) \in Nat /\ \A n \in 1..Len(f) : f[n].id \in FileIds
  <2>1. Len(f) \in Nat /\ \A n \in 1..Len(f) : f[n] \in FileRows
    OBVIOUS
  <2> QED BY <2>1 DEF FileRows
<1>2. step \in Steps(Len(f), T) /\ first \in T
  <2>1. \A n \in 1..Len(f) : \A s \in T : (IF f[n].junk THEN Append(s, f[n].id) ELSE s) \in T
    BY <1>1
  <2>2. first \in T
    OBVIOUS
  <2> HIDE DEF T
  <2> QED BY <2>1, <2>2 DEF Steps
<1>3. PICK g : Follows(g, Len(f), T, first, step)
  <2> HIDE DEF step, first, ids, T
  <2> QED BY <1>1, <1>2, Recursion
<1>4. \A n \in 1..Len(f) : step[n][g[n - 1]] = IF f[n].junk THEN Append(g[n - 1], f[n].id) ELSE g[n - 1]
  <2>1. \A n \in 1..Len(f) : g[n - 1] \in T
    BY <1>3 DEF Follows
  <2> HIDE DEF T
  <2> QED BY <1>1, <2>1
<1>5. g = [n \in 0..Len(f) |->
             IF n = 0 THEN <<>> ELSE IF f[n].junk THEN Append(g[n - 1], f[n].id) ELSE g[n - 1]]
  <2> HIDE DEF ids, step, T
  <2>1. \A n \in 0..Len(f) :
          (IF n = 0 THEN <<>> ELSE step[n][g[n - 1]])
            = (IF n = 0 THEN <<>> ELSE IF f[n].junk THEN Append(g[n - 1], f[n].id) ELSE g[n - 1])
    BY <1>1, <1>4
  <2> QED BY <1>3, <2>1 DEF Follows
<1>6. ids = [n \in 0..Len(f) |->
               IF n = 0 THEN <<>> ELSE IF f[n].junk THEN Append(ids[n - 1], f[n].id) ELSE ids[n - 1]]
  BY <1>5
<1>7. File!JunkBefore(f) = ids /\ File!JunkOf(f) = File!JunkBefore(f)[Len(f)]
  BY DEF File!JunkBefore, File!JunkOf
<1>8. ids[0] = <<>>
      /\ \A n \in 1..Len(f) : ids[n] = IF f[n].junk THEN Append(ids[n - 1], f[n].id) ELSE ids[n - 1]
  <2> DEFINE body(n) == IF n = 0 THEN <<>> ELSE IF f[n].junk THEN Append(ids[n - 1], f[n].id)
                                             ELSE ids[n - 1]
  <2> HIDE DEF step, ids
  <2>1. ids = [n \in 0..Len(f) |-> body(n)]
    BY <1>6
  <2> HIDE DEF body
  <2>2. \A n \in 0..Len(f) : ids[n] = body(n)
    BY <2>1
  <2>3. 0 \in 0..Len(f) /\ \A n \in 1..Len(f) : n \in 0..Len(f) /\ n # 0
    BY <1>1
  <2>4. ids[0] = body(0) /\ \A n \in 1..Len(f) : ids[n] = body(n) /\ n # 0
    BY <2>2, <2>3
  <2> QED BY <2>4 DEF body
<1>9. \A n \in 0..Len(f) : ids[n] \in T
  <2>1. \A n \in 1..Len(f) : ids[n - 1] \in T => ids[n] = step[n][ids[n - 1]]
    <3> HIDE DEF ids, T
    <3> QED BY <1>1, <1>8
  <2>2. ids[0] = first
    <3> HIDE DEF step, ids
    <3> QED BY <1>8
  <2> HIDE DEF step, ids, first, T
  <2> QED BY <1>1, <1>2, <2>1, <2>2, Values
<1>10. ids \in [0..Len(f) -> T]
  <2> HIDE DEF ids, T
  <2> QED BY <1>6, <1>9
<1> HIDE DEF ids, T
<1>11. Gathers(f, ids)
  BY <1>8, <1>10 DEF Gathers, T
<1> QED BY <1>7, <1>11

\* Two ways to gather the junk agree.
LEMMA GatheredOnce ==
  ASSUME NEW f \in Seq(FileRows), NEW g, NEW h, Gathers(f, g), Gathers(f, h)
  PROVE  \A n \in 0..Len(f) : g[n] = h[n]
<1> DEFINE S == {n \in 0..Len(f) : g[n] = h[n]}
<1>1. 0 \in S
  BY DEF Gathers
<1>2. ASSUME NEW n \in 0..(Len(f) - 1), n \in S PROVE n + 1 \in S
  <2>1. n + 1 \in 1..Len(f) /\ (n + 1) - 1 = n /\ n + 1 \in 0..Len(f)
    OBVIOUS
  <2>2. /\ g[n + 1] = IF f[n + 1].junk THEN Append(g[n], f[n + 1].id) ELSE g[n]
        /\ h[n + 1] = IF f[n + 1].junk THEN Append(h[n], f[n + 1].id) ELSE h[n]
    BY <2>1 DEF Gathers
  <2>3. g[n] = h[n]
    BY <1>2
  <2> QED BY <2>1, <2>2, <2>3
<1>3. Len(f) \in Nat
  OBVIOUS
<1> HIDE DEF S
<1>4. \A n \in 0..Len(f) : n \in S
  BY <1>1, <1>2, <1>3, Induction
<1> QED BY <1>4 DEF S

\* What the junk of the first n lines is.
JunkUpTo(file, n) == {file[m].id : m \in {l \in 1..n : file[l].junk}}

LEMMA JunkCounts ==
  ASSUME NEW f \in Seq(FileRows), NEW g, Gathers(f, g)
  PROVE  /\ \A n \in 0..Len(f) : g[n] \in Seq(FileIds) /\ Len(g[n]) \in Nat
         /\ \A n \in 1..Len(f) :
              /\ n - 1 \in 0..Len(f) /\ n \in 0..Len(f)
              /\ Len(g[n]) = IF f[n].junk THEN Len(g[n - 1]) + 1 ELSE Len(g[n - 1])
<1>1. \A n \in 0..Len(f) : g[n] \in Seq(FileIds) /\ Len(g[n]) \in Nat
  BY DEF Gathers
<1>2. ASSUME NEW n \in 1..Len(f)
      PROVE  /\ n - 1 \in 0..Len(f) /\ n \in 0..Len(f)
             /\ Len(g[n]) = IF f[n].junk THEN Len(g[n - 1]) + 1 ELSE Len(g[n - 1])
  <2>1. n - 1 \in 0..Len(f) /\ n \in 0..Len(f)
    OBVIOUS
  <2>2. g[n] = IF f[n].junk THEN Append(g[n - 1], f[n].id) ELSE g[n - 1]
    BY DEF Gathers
  <2>3. f[n].id \in FileIds
    <3>1. f[n] \in FileRows
      OBVIOUS
    <3> QED BY <3>1 DEF FileRows
  <2>4. Len(Append(g[n - 1], f[n].id)) = Len(g[n - 1]) + 1
    BY <1>1, <2>1, <2>3, AppendProperties
  <2> QED BY <2>1, <2>2, <2>4
<1> QED BY <1>1, <1>2

LEMMA JunkGathered ==
  ASSUME NEW f \in Seq(FileRows), NEW g, Gathers(f, g)
  PROVE  \A n \in 0..Len(f) : File!ToSet(g[n]) = JunkUpTo(f, n)
<1> DEFINE S == {n \in 0..Len(f) : File!ToSet(g[n]) = JunkUpTo(f, n)}
<1>1. 0 \in S
  BY DEF Gathers, JunkUpTo, File!ToSet
<1>2. ASSUME NEW n \in 0..(Len(f) - 1), n \in S PROVE n + 1 \in S
  <2>1. n + 1 \in 1..Len(f) /\ (n + 1) - 1 = n /\ n + 1 \in 0..Len(f) /\ n \in 0..Len(f)
        /\ 1..(n + 1) = (1..n) \cup {n + 1}
    OBVIOUS
  <2>2. g[n + 1] = IF f[n + 1].junk THEN Append(g[n], f[n + 1].id) ELSE g[n]
    BY <2>1 DEF Gathers
  <2>3. File!ToSet(g[n]) = JunkUpTo(f, n) /\ g[n] \in Seq(FileIds)
    BY <1>2, <2>1 DEF Gathers
  <2>4. JunkUpTo(f, n + 1) = IF f[n + 1].junk THEN JunkUpTo(f, n) \cup {f[n + 1].id} ELSE JunkUpTo(f, n)
    BY <2>1 DEF JunkUpTo
  <2>5. CASE f[n + 1].junk
    <3>1. f[n + 1].id \in FileIds
      <4>1. f[n + 1] \in FileRows
        BY <2>1
      <4> QED BY <4>1 DEF FileRows
    <3> DEFINE s == g[n]
               e == f[n + 1].id
    <3>2. s \in Seq(FileIds) /\ e \in FileIds
      BY <2>3, <3>1
    <3> HIDE DEF s, e
    <3>3. File!ToSet(Append(s, e)) = File!ToSet(s) \cup {e}
      <4>1. Len(Append(s, e)) = Len(s) + 1 /\ Append(s, e)[Len(s) + 1] = e
            /\ \A i \in 1..Len(s) : Append(s, e)[i] = s[i]
        BY <3>2, AppendProperties
      <4>2. DOMAIN s = 1..Len(s) /\ DOMAIN Append(s, e) = (1..Len(s)) \cup {Len(s) + 1}
        BY <3>2, <4>1
      <4> DEFINE t == Append(s, e)
      <4> HIDE DEF t
      <4> QED BY <4>1, <4>2 DEF File!ToSet, t
    <3> QED BY <2>1, <2>2, <2>3, <2>4, <2>5, <3>3 DEF s, e
  <2>6. CASE ~f[n + 1].junk
    BY <2>1, <2>2, <2>3, <2>4, <2>6
  <2> QED BY <2>5, <2>6
<1>3. Len(f) \in Nat
  OBVIOUS
<1> HIDE DEF S
<1>4. \A n \in 0..Len(f) : n \in S
  BY <1>1, <1>2, <1>3, Induction
<1> QED BY <1>4 DEF S

LEMMA JunkIs ==
  ASSUME NEW f \in Seq(FileRows)
  PROVE  /\ File!JunkOf(f) \in Seq(FileIds) /\ File!ToSet(File!JunkOf(f)) = JunkIds(f)
         /\ NoJunk(f) <=> File!JunkOf(f) = <<>>
<1> DEFINE g == File!JunkBefore(f)
           s == File!JunkOf(f)
<1>1. Gathers(f, g) /\ s = g[Len(f)]
  BY JunkGathers
<1>2. Len(f) \in 0..Len(f) /\ DOMAIN f = 1..Len(f)
  OBVIOUS
<1> HIDE DEF g, s
<1>3. s \in Seq(FileIds) /\ File!ToSet(s) = JunkUpTo(f, Len(f))
  BY <1>1, <1>2, JunkCounts, JunkGathered
<1>4. JunkUpTo(f, Len(f)) = JunkIds(f)
  BY <1>2 DEF JunkUpTo, JunkIds
<1>5. NoJunk(f) <=> JunkIds(f) = {}
  BY DEF NoJunk, JunkIds
<1>6. File!ToSet(s) = {} <=> s = <<>>
  <2>1. s = <<>> => File!ToSet(s) = {}
    BY DEF File!ToSet
  <2>2. s # <<>> => 1 \in DOMAIN s
    BY <1>3
  <2> QED BY <2>1, <2>2 DEF File!ToSet
<1> QED BY <1>3, <1>4, <1>5, <1>6 DEF s

\* The junk of a file with a line behind it.
LEMMA JunkOfAppend ==
  ASSUME NEW f \in Seq(FileRows), NEW r \in FileRows
  PROVE  File!JunkOf(Append(f, r)) = IF r.junk THEN Append(File!JunkOf(f), r.id) ELSE File!JunkOf(f)
<1> DEFINE t == Append(f, r)
           g == File!JunkBefore(t)
           h == [n \in 0..Len(f) |-> g[n]]
           j == File!JunkBefore(f)
<1>1. t \in Seq(FileRows) /\ Len(t) = Len(f) + 1 /\ Len(f) \in Nat /\ t[Len(f) + 1] = r
      /\ \A n \in 1..Len(f) : t[n] = f[n]
  BY AppendProperties
<1> HIDE DEF t
<1>2. Gathers(t, g) /\ File!JunkOf(t) = g[Len(t)]
  BY <1>1, JunkGathers
<1>3. Gathers(f, j) /\ File!JunkOf(f) = j[Len(f)]
  BY JunkGathers
<1> HIDE DEF g, j
<1>4. Gathers(f, h)
  <2>1. 0..Len(f) \subseteq 0..Len(t) /\ 0 \in 0..Len(f)
    BY <1>1
  <2>2. h \in [0..Len(f) -> Seq(FileIds)] /\ h[0] = <<>>
    BY <1>2, <2>1 DEF Gathers
  <2>3. ASSUME NEW n \in 1..Len(f)
        PROVE  h[n] = IF f[n].junk THEN Append(h[n - 1], f[n].id) ELSE h[n - 1]
    <3>1. n \in 1..Len(t) /\ n \in 0..Len(f) /\ n - 1 \in 0..Len(f)
      BY <1>1
    <3>2. g[n] = IF t[n].junk THEN Append(g[n - 1], t[n].id) ELSE g[n - 1]
      BY <1>2, <3>1 DEF Gathers
    <3>3. t[n] = f[n] /\ h[n] = g[n] /\ h[n - 1] = g[n - 1]
      BY <1>1, <3>1
    <3> HIDE DEF h
    <3> QED BY <3>2, <3>3
  <2> HIDE DEF h
  <2> QED BY <2>2, <2>3 DEF Gathers
<1>5. j[Len(f)] = h[Len(f)] /\ h[Len(f)] = g[Len(f)]
  <2>1. Len(f) \in 0..Len(f) /\ h[Len(f)] = g[Len(f)]
    BY <1>1
  <2> HIDE DEF h
  <2> QED BY <1>3, <1>4, <2>1, GatheredOnce
<1>6. g[Len(t)] = IF r.junk THEN Append(g[Len(f)], r.id) ELSE g[Len(f)]
  <2>1. Len(t) \in 1..Len(t) /\ Len(t) - 1 = Len(f) /\ t[Len(t)] = r
    BY <1>1
  <2> QED BY <1>2, <2>1 DEF Gathers
<1> QED BY <1>2, <1>3, <1>5, <1>6 DEF t

-----------------------------------------------------------------------------
(* Reading: the rows of a file *)

\* A row with its newline, a row of one more piece of junk, and the row a run
\* of junk begins.
Whole(r) == [r EXCEPT !.ended = TRUE]
Lengthened(r) == [r EXCEPT !.range.length = @ + 1]
CorruptState == [File!NoState EXCEPT !.present = TRUE, !.quarantine = "corrupt"]
Names(e, g, m) == e.id = <<"corrupt", g, m>>

LEMMA WholeIs ==
  ASSUME NEW r \in FileRows
  PROVE  /\ Whole(r) \in FileRows /\ Whole(r).ended /\ Whole(r).id = r.id /\ Whole(r).junk = r.junk
         /\ Whole(r).bytes = r.bytes /\ Whole(r).bank = r.bank /\ Whole(r).state = r.state
         /\ Whole(r).range = r.range /\ Whole(r).named = r.named /\ Whole(r).attempts = r.attempts
         /\ r.ended => Whole(r) = r
<1>1. /\ Whole(r) \in FileRows /\ Whole(r).ended /\ Whole(r).id = r.id /\ Whole(r).junk = r.junk
      /\ Whole(r).bytes = r.bytes /\ Whole(r).bank = r.bank /\ Whole(r).state = r.state
      /\ Whole(r).range = r.range /\ Whole(r).named = r.named /\ Whole(r).attempts = r.attempts
  BY DEF FileRows, Whole
<1>2. r.ended => Whole(r) = r
  <2>1. r.ended \in BOOLEAN
    BY DEF FileRows
  <2>2. r.ended => r.ended = TRUE
    BY <2>1
  <2>3. [r EXCEPT !.ended = r.ended] = r
    BY DEF FileRows
  <2> QED BY <2>2, <2>3 DEF Whole
<1> QED BY <1>1, <1>2

LEMMA LengthenedIs ==
  ASSUME NEW r \in FileRows
  PROVE  LET q == Lengthened(r) IN
           /\ q \in FileRows /\ q.id = r.id /\ q.junk = r.junk /\ q.bytes = r.bytes
           /\ q.bank = r.bank /\ q.state = r.state /\ q.ended = r.ended /\ q.named = r.named
           /\ q.range.source = r.range.source /\ q.range.offset = r.range.offset
           /\ q.range.length = r.range.length + 1
<1> DEFINE R == [source : Nat, offset : Nat, length : Nat]
           x == [r.range EXCEPT !.length = @ + 1]
<1>1. r.range \in R
  BY DEF FileRows
<1>2. x \in R /\ x.source = r.range.source /\ x.offset = r.range.offset /\ x.length = r.range.length + 1
  BY <1>1
<1>3. Lengthened(r) = [r EXCEPT !.range = x]
  BY DEF Lengthened
<1> HIDE DEF x
<1> QED BY <1>2, <1>3 DEF FileRows

LEMMA BarrierIs ==
  ASSUME NEW g \in 1..MaxGenerations, NEW m \in Nat, NEW o \in Nat
  PROVE  LET e == File!Barrier(g, m, o) IN
           /\ e \in FileRows /\ Names(e, g, m) /\ ~e.junk /\ e.bytes = 260 /\ e.bank = "unknown"
           /\ e.state = CorruptState /\ e.ended /\ e.named
           /\ e.range.source = g /\ e.range.offset = o /\ e.range.length = 1
<1> DEFINE R == [source : Nat, offset : Nat, length : Nat]
           x == [source |-> g, offset |-> o, length |-> 1]
           id == <<"corrupt", g, m>>
           s == CorruptState
<1>1. MaxGenerations \in Nat
  BY RouterConstants DEF File!QueueFileConstants
<1>2. x \in R /\ x.source = g /\ x.offset = o /\ x.length = 1
  BY <1>1
<1>3. id \in FileIds
  BY <1>1 DEF FileIds, BarrierIds
<1>4. s \in RowStates
  BY DEF CorruptState, RowStates, File!NoState
<1> DEFINE r == [id |-> id, junk |-> FALSE, bytes |-> 260, named |-> TRUE, bank |-> "unknown",
                 attempts |-> 0, state |-> File!NoState, range |-> File!NoRange, ended |-> TRUE]
<1>5. File!Barrier(g, m, o) = [r EXCEPT !.state = s, !.range = x]
  BY DEF File!Barrier, File!Row, File!BarrierBytes, File!OperationIdBytes, CorruptState
<1>6. "unknown" \in RowBanks /\ File!NoState \in RowStates /\ File!NoRange \in R
  BY DEF RowBanks, RowStates, File!NoState, File!NoRange
<1> HIDE DEF x, id, s
<1>7. r \in FileRows /\ r.id = id /\ ~r.junk /\ r.bytes = 260 /\ r.bank = "unknown" /\ r.ended /\ r.named
  BY <1>3, <1>6 DEF FileRows
<1> HIDE DEF r
<1> DEFINE e == [r EXCEPT !.state = s, !.range = x]
<1>8. /\ e \in FileRows /\ e.id = id /\ ~e.junk /\ e.bytes = 260 /\ e.bank = "unknown" /\ e.ended /\ e.named
      /\ e.state = s /\ e.range = x
  BY <1>2, <1>4, <1>7 DEF FileRows
<1> HIDE DEF e
<1>9. File!Barrier(g, m, o) = e
  BY <1>5 DEF e
<1> QED BY <1>2, <1>8, <1>9 DEF Names, id, s

\* One line more is read.
ReadMore(t, s, n) ==
  /\ ~lines[n].junk => t = Append(s, Whole(lines[n]))
  /\ lines[n].junk /\ n > 1 /\ lines[n - 1].junk =>
       /\ t \in Seq(FileRows) /\ Len(t) = Len(s)
       /\ \A k \in 1..Len(s) : k # Len(s) => t[k] = s[k]
       /\ Len(s) > 0 => t[Len(s)] = Lengthened(s[Len(s)])
  /\ lines[n].junk /\ ~(n > 1 /\ lines[n - 1].junk) =>
       t = Append(s, File!Barrier(generation, n, Len(File!JunkBefore(lines)[n - 1])))

LEMMA ExtendedIs ==
  ASSUME NEW s \in Seq(FileRows)
  PROVE  LET t == [s EXCEPT ![Len(s)].range.length = @ + 1] IN
           /\ t \in Seq(FileRows) /\ Len(t) = Len(s)
           /\ \A k \in 1..Len(s) : k # Len(s) => t[k] = s[k]
           /\ Len(s) > 0 => t[Len(s)] = Lengthened(s[Len(s)])
<1> DEFINE k == Len(s)
           r == Lengthened(s[k])
           t == [s EXCEPT ![k] = r]
           u == [s EXCEPT ![Len(s)].range.length = @ + 1]
<1>1. u = t
  BY DEF Lengthened
<1>2. k \in Nat /\ DOMAIN s = 1..k
  OBVIOUS
<1> HIDE DEF u
<1>3. CASE k = 0
  <2>1. t = s
    BY <1>2, <1>3
  <2>2. u = s
    BY <1>1, <2>1
  <2>3. u \in Seq(FileRows) /\ Len(u) = Len(s) /\ ~(Len(s) > 0)
    BY <1>3, <2>2
  <2> QED BY <2>2, <2>3 DEF u
<1>4. CASE k > 0
  <2>1. k \in 1..Len(s) /\ s[k] \in FileRows
    BY <1>4
  <2>2. r \in FileRows
    BY <2>1, LengthenedIs
  <2> HIDE DEF r
  <2>3. t \in Seq(FileRows) /\ Len(t) = Len(s) /\ t[k] = r
        /\ \A i \in 1..Len(s) : i # k => t[i] = s[i]
    BY <2>1, <2>2
  <2> QED BY <1>1, <2>3 DEF r, u
<1> QED BY <1>2, <1>3, <1>4

LEMMA ReadLineIs ==
  ASSUME lines \in Seq(FileRows), generation \in 1..MaxGenerations,
         NEW s \in Seq(FileRows), NEW n \in 1..Len(lines)
  PROVE  File!ReadLine(s, n) \in Seq(FileRows) /\ ReadMore(File!ReadLine(s, n), s, n)
<1> DEFINE o == Len(File!JunkBefore(lines)[n - 1])
           b == File!Barrier(generation, n, o)
           w == Whole(lines[n])
           t == [s EXCEPT ![Len(s)].range.length = @ + 1]
<1>1. o \in Nat
  <2>1. Gathers(lines, File!JunkBefore(lines)) /\ n - 1 \in 0..Len(lines)
    BY JunkGathers
  <2> QED BY <2>1, JunkCounts
<1>2. File!ReadLine(s, n) =
        IF ~lines[n].junk THEN Append(s, w)
        ELSE IF n > 1 /\ lines[n - 1].junk THEN t ELSE Append(s, b)
  BY DEF File!ReadLine, Whole
<1> HIDE DEF o
<1>3. b \in FileRows
  <2>1. n \in Nat
    OBVIOUS
  <2> QED BY <1>1, <2>1, BarrierIs
<1>4. w \in FileRows
  <2>1. lines[n] \in FileRows
    OBVIOUS
  <2> QED BY <2>1, WholeIs
<1>5. /\ t \in Seq(FileRows) /\ Len(t) = Len(s)
      /\ \A k \in 1..Len(s) : k # Len(s) => t[k] = s[k]
      /\ Len(s) > 0 => t[Len(s)] = Lengthened(s[Len(s)])
  BY ExtendedIs
<1> DEFINE u == File!ReadLine(s, n)
           shorter == n > 1 /\ lines[n - 1].junk
<1>6. u = IF ~lines[n].junk THEN Append(s, w) ELSE IF shorter THEN t ELSE Append(s, b)
  BY <1>2
<1> HIDE DEF b, w, t, u
<1>7. Append(s, w) \in Seq(FileRows) /\ Append(s, b) \in Seq(FileRows)
  BY <1>3, <1>4, AppendProperties
<1>8. CASE ~lines[n].junk
  BY <1>6, <1>7, <1>8 DEF ReadMore, w, u
<1>9. CASE lines[n].junk /\ shorter
  BY <1>5, <1>6, <1>9 DEF ReadMore, u
<1>10. CASE lines[n].junk /\ ~shorter
  BY <1>6, <1>7, <1>10 DEF ReadMore, b, o, u
<1> QED BY <1>8, <1>9, <1>10

\* The rows read from the first lines, for every number of them.
Reads(g) ==
  /\ g \in [0..Len(lines) -> Seq(FileRows)] /\ g[0] = <<>>
  /\ \A n \in 1..Len(lines) : ReadMore(g[n], g[n - 1], n)

LEMMA ItemsAreRead ==
  ASSUME lines \in Seq(FileRows), generation \in 1..MaxGenerations
  PROVE  \E g : Reads(g) /\ File!Items = g[Len(lines)]
<1> DEFINE T == Seq(FileRows)
           items[n \in 0..Len(lines)] == IF n = 0 THEN <<>> ELSE File!ReadLine(items[n - 1], n)
           step == [n \in 1..Len(lines) |-> [s \in T |-> File!ReadLine(s, n)]]
           first == <<>>
<1>1. Len(lines) \in Nat
  OBVIOUS
<1>2. step \in Steps(Len(lines), T) /\ first \in T
  <2>1. \A n \in 1..Len(lines) : \A s \in T : File!ReadLine(s, n) \in T
    BY ReadLineIs
  <2>2. first \in T
    OBVIOUS
  <2> HIDE DEF T
  <2> QED BY <2>1, <2>2 DEF Steps
<1>3. PICK g : Follows(g, Len(lines), T, first, step)
  <2> HIDE DEF step, first, items, T
  <2> QED BY <1>1, <1>2, Recursion
<1>4. \A n \in 1..Len(lines) : step[n][g[n - 1]] = File!ReadLine(g[n - 1], n)
  <2>1. \A n \in 1..Len(lines) : g[n - 1] \in T
    BY <1>3 DEF Follows
  <2> HIDE DEF T
  <2> QED BY <1>1, <2>1
<1>5. g = [n \in 0..Len(lines) |-> IF n = 0 THEN <<>> ELSE File!ReadLine(g[n - 1], n)]
  <2> HIDE DEF items, step, T
  <2>1. \A n \in 0..Len(lines) :
          (IF n = 0 THEN <<>> ELSE step[n][g[n - 1]])
            = (IF n = 0 THEN <<>> ELSE File!ReadLine(g[n - 1], n))
    BY <1>1, <1>4
  <2> QED BY <1>3, <2>1 DEF Follows
<1>6. items = [n \in 0..Len(lines) |-> IF n = 0 THEN <<>> ELSE File!ReadLine(items[n - 1], n)]
  BY <1>5
<1>7. File!Items = items[Len(lines)]
  BY DEF File!Items
<1>8. items[0] = <<>> /\ \A n \in 1..Len(lines) : items[n] = File!ReadLine(items[n - 1], n)
  <2> DEFINE body(n) == IF n = 0 THEN <<>> ELSE File!ReadLine(items[n - 1], n)
  <2> HIDE DEF step, items
  <2>1. items = [n \in 0..Len(lines) |-> body(n)]
    BY <1>6
  <2> HIDE DEF body
  <2>2. \A n \in 0..Len(lines) : items[n] = body(n)
    BY <2>1
  <2>3. 0 \in 0..Len(lines) /\ \A n \in 1..Len(lines) : n \in 0..Len(lines) /\ n # 0
    BY <1>1
  <2>4. items[0] = body(0) /\ \A n \in 1..Len(lines) : items[n] = body(n) /\ n # 0
    BY <2>2, <2>3
  <2> QED BY <2>4 DEF body
<1>9. \A n \in 0..Len(lines) : items[n] \in T
  <2>1. \A n \in 1..Len(lines) : items[n - 1] \in T => items[n] = step[n][items[n - 1]]
    <3> HIDE DEF items, T
    <3> QED BY <1>1, <1>8
  <2>2. items[0] = first
    <3> HIDE DEF step, items
    <3> QED BY <1>8
  <2> HIDE DEF items, step, first, T
  <2> QED BY <1>1, <1>2, <2>1, <2>2, Values
<1>10. items \in [0..Len(lines) -> T]
  <2> HIDE DEF items, T
  <2> QED BY <1>6, <1>9
<1>11. ASSUME NEW n \in 1..Len(lines) PROVE ReadMore(items[n], items[n - 1], n)
  <2>1. n - 1 \in 0..Len(lines)
    BY <1>1
  <2>2. items[n - 1] \in Seq(FileRows) /\ items[n] = File!ReadLine(items[n - 1], n)
    <3> HIDE DEF items
    <3> QED BY <1>8, <1>9, <2>1
  <2> HIDE DEF items
  <2> QED BY <2>2, ReadLineIs
<1> HIDE DEF items, T
<1>12. Reads(items)
  BY <1>8, <1>10, <1>11 DEF Reads, T
<1> QED BY <1>7, <1>12

JunkCount(n) == Len(File!JunkBefore(lines)[n])

LEMMA JunkCountIs ==
  ASSUME lines \in Seq(FileRows)
  PROVE  /\ \A n \in 0..Len(lines) : JunkCount(n) \in Nat
         /\ \A n \in 1..Len(lines) :
              /\ n - 1 \in 0..Len(lines) /\ n \in 0..Len(lines) /\ JunkCount(n - 1) <= JunkCount(n)
              /\ lines[n].junk => JunkCount(n) = JunkCount(n - 1) + 1
         /\ JunkCount(Len(lines)) = Len(File!JunkOf(lines))
<1> DEFINE g == File!JunkBefore(lines)
<1>1. Gathers(lines, g) /\ File!JunkOf(lines) = g[Len(lines)]
  BY JunkGathers
<1>2. \A n \in 0..Len(lines) : JunkCount(n) = Len(g[n])
  BY DEF JunkCount
<1> HIDE DEF g
<1>3. /\ \A n \in 0..Len(lines) : Len(g[n]) \in Nat
      /\ \A n \in 1..Len(lines) :
           /\ n - 1 \in 0..Len(lines) /\ n \in 0..Len(lines)
           /\ Len(g[n]) = IF lines[n].junk THEN Len(g[n - 1]) + 1 ELSE Len(g[n - 1])
  BY <1>1, JunkCounts
<1>4. \A n \in 0..Len(lines) : JunkCount(n) \in Nat
  BY <1>2, <1>3
<1>5. ASSUME NEW n \in 1..Len(lines)
      PROVE  /\ n - 1 \in 0..Len(lines) /\ n \in 0..Len(lines) /\ JunkCount(n - 1) <= JunkCount(n)
             /\ lines[n].junk => JunkCount(n) = JunkCount(n - 1) + 1
  <2>1. n - 1 \in 0..Len(lines) /\ n \in 0..Len(lines)
    BY <1>3
  <2>2. JunkCount(n) = Len(g[n]) /\ JunkCount(n - 1) = Len(g[n - 1]) /\ JunkCount(n - 1) \in Nat
    BY <1>2, <1>4, <2>1
  <2>3. Len(g[n]) = IF lines[n].junk THEN Len(g[n - 1]) + 1 ELSE Len(g[n - 1])
    BY <1>3
  <2> QED BY <2>1, <2>2, <2>3
<1>6. Len(lines) \in 0..Len(lines)
  OBVIOUS
<1> QED BY <1>1, <1>2, <1>4, <1>5, <1>6

\* What line m is read as, once the first n lines are.
TornAs(e, m, n) ==
  /\ Names(e, generation, m) /\ ~e.junk /\ e.bytes = 260 /\ e.bank = "unknown"
  /\ e.state = CorruptState /\ e.ended /\ e.named /\ e.range.source = generation
  /\ e.range.offset = JunkCount(m - 1) /\ e.range.offset + e.range.length <= JunkCount(n)
ReadAs(e, m, n) == IF lines[m].junk THEN TornAs(e, m, n) ELSE e = Whole(lines[m])

\* Rows read from the first n lines: row k from line h[k], or from a run of junk
\* that begins there.
InOrder(t, h, n) ==
  /\ t \in Seq(FileRows) /\ h \in [1..Len(t) -> 1..n]
  /\ \A j, k \in 1..Len(t) : j < k => h[j] < h[k]
Apart(t, h) ==
  \A j, k \in 1..Len(t) :
    j < k /\ lines[h[j]].junk /\ lines[h[k]].junk
      => t[j].range.offset + t[j].range.length <= t[k].range.offset
RunGoesOn(t, h, n) ==
  n > 0 /\ lines[n].junk =>
    /\ Len(t) > 0 /\ lines[h[Len(t)]].junk
    /\ t[Len(t)].range.offset + t[Len(t)].range.length = JunkCount(n)
Covers(t, h, n) ==
  /\ \A m \in 1..n : ~lines[m].junk => \E k \in 1..Len(t) : h[k] = m
  /\ NoJunk(lines) => Len(t) = n /\ \A k \in 1..n : h[k] = k
ReadTo(t, h, n) ==
  /\ InOrder(t, h, n) /\ Apart(t, h) /\ RunGoesOn(t, h, n) /\ Covers(t, h, n)
  /\ \A k \in 1..Len(t) : ReadAs(t[k], h[k], n)

LEMMA ReadAsLater ==
  ASSUME lines \in Seq(FileRows), NEW n \in 1..Len(lines), NEW m, NEW e \in FileRows,
         ReadAs(e, m, n - 1)
  PROVE  ReadAs(e, m, n)
<1>1. JunkCount(n - 1) <= JunkCount(n) /\ JunkCount(n - 1) \in Nat /\ JunkCount(n) \in Nat
  BY JunkCountIs
<1>2. e.range.offset \in Nat /\ e.range.length \in Nat
  BY DEF FileRows
<1>3. TornAs(e, m, n - 1) => TornAs(e, m, n)
  <2>1. e.range.offset + e.range.length <= JunkCount(n - 1)
          => e.range.offset + e.range.length <= JunkCount(n)
    BY <1>1, <1>2
  <2> QED BY <2>1 DEF TornAs
<1> QED BY <1>3 DEF ReadAs

LEMMA ReadAppend ==
  ASSUME lines \in Seq(FileRows), NEW n \in 1..Len(lines), NEW s, NEW h, ReadTo(s, h, n - 1),
         NEW e \in FileRows, ReadAs(e, n, n),
         lines[n].junk => e.range.offset + e.range.length = JunkCount(n)
  PROVE  \E i : ReadTo(Append(s, e), i, n)
<1> DEFINE t == Append(s, e)
           i == [k \in 1..Len(t) |-> IF k <= Len(s) THEN h[k] ELSE n]
<1>1. /\ s \in Seq(FileRows) /\ h \in [1..Len(s) -> 1..(n - 1)] /\ Len(s) \in Nat
      /\ \A j, k \in 1..Len(s) : j < k => h[j] < h[k]
  BY DEF ReadTo, InOrder
<1>2. t \in Seq(FileRows) /\ Len(t) = Len(s) + 1 /\ t[Len(s) + 1] = e
      /\ \A k \in 1..Len(s) : t[k] = s[k]
  BY <1>1, AppendProperties
<1>3. /\ n \in Nat /\ 1 <= n /\ 1..(n - 1) \subseteq 1..n /\ n \notin 1..(n - 1) /\ n \in 1..n
      /\ \A m \in 1..(n - 1) : m < n
      /\ \A m \in 1..n : m = n \/ m \in 1..(n - 1)
      /\ \A k \in 1..(Len(s) + 1) : k = Len(s) + 1 \/ k \in 1..Len(s)
      /\ \A k \in 1..Len(s) : k \in 1..(Len(s) + 1) /\ k <= Len(s) /\ k # Len(s) + 1
      /\ Len(s) + 1 \in 1..(Len(s) + 1) /\ ~(Len(s) + 1 <= Len(s))
  BY <1>1
<1> HIDE DEF t
<1>4. (\A k \in 1..Len(s) : i[k] = h[k]) /\ i[Len(t)] = n
  BY <1>2, <1>3
<1>5. \A k \in 1..Len(t) : i[k] \in 1..n
  BY <1>1, <1>2, <1>3, <1>4
<1>6. i \in [1..Len(t) -> 1..n]
  BY <1>5
<1> HIDE DEF i
<1>7. InOrder(t, i, n)
  <2>1. ASSUME NEW j \in 1..Len(t), NEW k \in 1..Len(t), j < k PROVE i[j] < i[k]
    <3>1. j \in 1..Len(s)
      BY <1>1, <1>2, <1>3, <2>1
    <3>2. CASE k \in 1..Len(s)
      BY <1>1, <1>4, <2>1, <3>1, <3>2
    <3>3. CASE k = Len(s) + 1
      <4>1. i[k] = n /\ i[j] \in 1..(n - 1)
        BY <1>1, <1>2, <1>4, <3>1, <3>3
      <4> QED BY <1>3, <4>1
    <3> QED BY <1>2, <1>3, <3>2, <3>3
  <2> QED BY <1>2, <1>6, <2>1 DEF InOrder
<1>8. \A k \in 1..Len(t) : ReadAs(t[k], i[k], n)
  <2>1. ASSUME NEW k \in 1..Len(s) PROVE ReadAs(t[k], i[k], n)
    <3>1. ReadAs(s[k], h[k], n - 1) /\ s[k] \in FileRows
      BY <1>1 DEF ReadTo
    <3>2. ReadAs(s[k], h[k], n)
      BY <3>1, ReadAsLater
    <3> QED BY <1>2, <1>4, <3>2
  <2>2. ReadAs(t[Len(t)], i[Len(t)], n)
    BY <1>2, <1>4
  <2> QED BY <1>2, <1>3, <2>1, <2>2
<1>9. Apart(t, i)
  <2>1. ASSUME NEW j \in 1..Len(t), NEW k \in 1..Len(t), j < k, lines[i[j]].junk, lines[i[k]].junk
        PROVE  t[j].range.offset + t[j].range.length <= t[k].range.offset
    <3>1. j \in 1..Len(s)
      BY <1>1, <1>2, <1>3, <2>1
    <3>2. CASE k \in 1..Len(s)
      BY <1>2, <1>4, <2>1, <3>1, <3>2 DEF ReadTo, Apart
    <3>3. CASE k = Len(s) + 1
      <4>1. k = Len(t) /\ t[k] = e /\ i[k] = n /\ lines[n].junk
        BY <1>2, <1>4, <2>1, <3>3
      <4>2. e.range.offset = JunkCount(n - 1)
        BY <4>1 DEF ReadAs, TornAs
      <4>3. lines[h[j]].junk /\ ReadAs(s[j], h[j], n - 1) /\ t[j] = s[j]
        BY <1>2, <1>4, <2>1, <3>1 DEF ReadTo
      <4>4. s[j].range.offset + s[j].range.length <= JunkCount(n - 1)
        BY <4>3 DEF ReadAs, TornAs
      <4> QED BY <4>1, <4>2, <4>3, <4>4
    <3> QED BY <1>2, <1>3, <3>2, <3>3
  <2> QED BY <2>1 DEF Apart
<1>10. RunGoesOn(t, i, n)
  <2>1. Len(t) > 0
    BY <1>1, <1>2
  <2> QED BY <1>2, <1>4, <2>1 DEF RunGoesOn
<1>11. Covers(t, i, n)
  <2>1. ASSUME NEW m \in 1..n, ~lines[m].junk PROVE \E k \in 1..Len(t) : i[k] = m
    <3>1. CASE m = n
      BY <1>2, <1>3, <1>4, <3>1
    <3>2. CASE m \in 1..(n - 1)
      <4>1. PICK k \in 1..Len(s) : h[k] = m
        BY <2>1, <3>2 DEF ReadTo, Covers
      <4> QED BY <1>2, <1>3, <1>4, <4>1
    <3> QED BY <1>3, <3>1, <3>2
  <2>2. ASSUME NoJunk(lines) PROVE Len(t) = n /\ \A k \in 1..n : i[k] = k
    <3>1. Len(s) = n - 1 /\ \A k \in 1..(n - 1) : h[k] = k
      BY <2>2 DEF ReadTo, Covers
    <3>2. Len(t) = n
      BY <1>2, <1>3, <3>1
    <3> QED BY <1>3, <1>4, <3>1, <3>2
  <2> QED BY <2>1, <2>2 DEF Covers
<1>12. ReadTo(t, i, n)
  BY <1>7, <1>8, <1>9, <1>10, <1>11 DEF ReadTo
<1> QED BY <1>12 DEF t

LEMMA ReadExtend ==
  ASSUME lines \in Seq(FileRows), NEW n \in 1..Len(lines), NEW s, NEW h, ReadTo(s, h, n - 1),
         lines[n].junk, n > 1, lines[n - 1].junk,
         NEW t \in Seq(FileRows), Len(t) = Len(s),
         \A k \in 1..Len(s) : k # Len(s) => t[k] = s[k],
         Len(s) > 0 => t[Len(s)] = Lengthened(s[Len(s)])
  PROVE  ReadTo(t, h, n)
<1>1. /\ s \in Seq(FileRows) /\ h \in [1..Len(s) -> 1..(n - 1)] /\ Len(s) \in Nat
      /\ \A j, k \in 1..Len(s) : j < k => h[j] < h[k]
  BY DEF ReadTo, InOrder
<1>2. /\ Len(s) > 0 /\ lines[h[Len(s)]].junk
      /\ s[Len(s)].range.offset + s[Len(s)].range.length = JunkCount(n - 1)
  <2>1. n - 1 > 0
    OBVIOUS
  <2> QED BY <2>1 DEF ReadTo, RunGoesOn
<1> DEFINE l == Len(s)
           r == s[l]
           q == Lengthened(r)
<1>3. l \in 1..Len(s) /\ r \in FileRows /\ t[l] = q /\ l \in Nat
  BY <1>1, <1>2
<1>4. \A k \in 1..Len(s) : k = l \/ (k # l /\ t[k] = s[k])
  OBVIOUS
<1>5. r.range.offset + r.range.length = JunkCount(n - 1) /\ lines[h[l]].junk
  BY <1>2
<1>6. Len(t) = l /\ Len(s) = l
  OBVIOUS
<1> HIDE DEF l, r
<1>7. /\ q \in FileRows /\ q.id = r.id /\ q.junk = r.junk /\ q.bytes = r.bytes
      /\ q.bank = r.bank /\ q.state = r.state /\ q.ended = r.ended /\ q.named = r.named
      /\ q.range.source = r.range.source /\ q.range.offset = r.range.offset
      /\ q.range.length = r.range.length + 1
  BY <1>3, LengthenedIs
<1> HIDE DEF q
<1>8. JunkCount(n) = JunkCount(n - 1) + 1 /\ JunkCount(n - 1) \in Nat
  BY JunkCountIs
<1>9. r.range.offset \in Nat /\ r.range.length \in Nat
  BY <1>3 DEF FileRows
<1>10. q.range.offset + q.range.length = JunkCount(n)
  <2>1. q.range.offset + q.range.length = r.range.offset + (r.range.length + 1)
    BY <1>7
  <2>2. r.range.offset + (r.range.length + 1) = (r.range.offset + r.range.length) + 1
    <3> DEFINE x == r.range.offset
               y == r.range.length
    <3>1. x \in Nat /\ y \in Nat
      BY <1>9
    <3> HIDE DEF x, y
    <3>2. x + (y + 1) = (x + y) + 1
      BY <3>1, SMTT(30)
    <3> QED BY <3>2 DEF x, y
  <2>3. (r.range.offset + r.range.length) + 1 = JunkCount(n - 1) + 1
    BY <1>5
  <2> QED BY <1>8, <2>1, <2>2, <2>3
<1>11. 1..(n - 1) \subseteq 1..n /\ h \in [1..Len(s) -> 1..n]
  BY <1>1
<1>12. InOrder(t, h, n)
  BY <1>1, <1>6, <1>11 DEF InOrder
<1>13. Apart(t, h)
  <2>1. ASSUME NEW j \in 1..Len(t), NEW k \in 1..Len(t), j < k, lines[h[j]].junk, lines[h[k]].junk
        PROVE  t[j].range.offset + t[j].range.length <= t[k].range.offset
    <3>1. j \in 1..Len(s) /\ k \in 1..Len(s) /\ j # l
      BY <1>3, <1>6, <2>1
    <3>2. s[j].range.offset + s[j].range.length <= s[k].range.offset
      BY <2>1, <3>1 DEF ReadTo, Apart
    <3>3. t[j] = s[j]
      BY <1>4, <3>1
    <3>4. t[k].range.offset = s[k].range.offset
      BY <1>3, <1>4, <1>7, <3>1 DEF r
    <3> QED BY <3>2, <3>3, <3>4
  <2> QED BY <2>1 DEF Apart
<1>14. RunGoesOn(t, h, n)
  BY <1>2, <1>3, <1>5, <1>6, <1>10 DEF RunGoesOn
<1>15. Covers(t, h, n)
  <2>1. ASSUME NEW m \in 1..n, ~lines[m].junk PROVE \E k \in 1..Len(t) : h[k] = m
    <3>1. m \in 1..(n - 1)
      BY <2>1
    <3> QED BY <1>6, <2>1, <3>1 DEF ReadTo, Covers
  <2>2. ~NoJunk(lines)
    BY DEF NoJunk
  <2> QED BY <2>1, <2>2 DEF Covers
<1>16. ASSUME NEW k \in 1..Len(t) PROVE ReadAs(t[k], h[k], n)
  <2>1. k \in 1..Len(s) /\ ReadAs(s[k], h[k], n - 1) /\ s[k] \in FileRows
    BY <1>1, <1>6 DEF ReadTo
  <2>2. CASE k = l
    <3>1. TornAs(r, h[l], n - 1)
      BY <1>5, <2>1, <2>2 DEF ReadAs, r
    <3>2. TornAs(q, h[l], n)
      <4>1. q.range.offset + q.range.length <= JunkCount(n)
        BY <1>8, <1>10
      <4> QED BY <1>7, <3>1, <4>1 DEF TornAs, Names
    <3> QED BY <1>3, <1>5, <2>2, <3>2 DEF ReadAs
  <2>3. CASE k # l
    <3>1. t[k] = s[k]
      BY <1>4, <2>1, <2>3
    <3> QED BY <2>1, <3>1, ReadAsLater
  <2> QED BY <2>2, <2>3
<1> QED BY <1>12, <1>13, <1>14, <1>15, <1>16 DEF ReadTo

LEMMA ReadShorter ==
  ASSUME lines \in Seq(FileRows), generation \in 1..MaxGenerations, NEW n \in 1..Len(lines),
         NEW e \in FileRows, ReadAs(e, n, n)
  PROVE  LineLimit(e) <= LineLimit(lines[n]) /\ LineLimit(e) \in Int /\ LineLimit(lines[n]) \in Int
<1>1. lines[n] \in FileRows
  OBVIOUS
<1>2. LineLimit(e) \in Int /\ LineLimit(lines[n]) \in Int
  BY <1>1, LineWithinLimit
<1>3. CASE ~lines[n].junk
  <2>1. e.bytes = lines[n].bytes /\ e.junk = lines[n].junk
    BY <1>1, <1>3, WholeIs DEF ReadAs
  <2>2. LineLimit(e) = LineLimit(lines[n])
    BY <2>1 DEF LineLimit
  <2> QED BY <1>2, <2>2
<1>4. CASE lines[n].junk
  <2>1. LineLimit(e) = 427
    BY <1>4 DEF ReadAs, TornAs, LineLimit, Growth, MetadataLimit
  <2>2. lines[n].bytes \in Nat
    BY <1>1 DEF FileRows
  <2>3. LineLimit(lines[n]) >= 427
    BY <1>4, <2>2 DEF LineLimit, Growth, MetadataLimit
  <2> QED BY <1>2, <2>1, <2>3
<1> QED BY <1>3, <1>4

\* The limits of the rows read, against those of the lines.
ReadWithin(t, n) ==
  \A G : Sums(LineLimits(lines), G) => File!Total(LineLimits(t)) <= G[n]

LEMMA WithinAppend ==
  ASSUME lines \in Seq(FileRows), generation \in 1..MaxGenerations, NEW n \in 1..Len(lines),
         NEW s \in Seq(FileRows), ReadWithin(s, n - 1), NEW e \in FileRows, ReadAs(e, n, n)
  PROVE  ReadWithin(Append(s, e), n)
<1> SUFFICES ASSUME NEW G, Sums(LineLimits(lines), G)
             PROVE  File!Total(LineLimits(Append(s, e))) <= G[n]
  BY DEF ReadWithin
<1> DEFINE t == Append(s, e)
<1>1. t \in Seq(FileRows) /\ Len(t) = Len(s) + 1 /\ t[Len(s) + 1] = e /\ Len(s) \in Nat
      /\ \A k \in 1..Len(s) : t[k] = s[k]
  BY AppendProperties
<1> HIDE DEF t
<1>2. /\ LineLimits(s) \in Seq(Int) /\ Len(LineLimits(s)) = Len(s)
      /\ \A k \in 1..Len(s) : LineLimits(s)[k] = LineLimit(s[k])
  BY BytesAreIntegers
<1>3. /\ LineLimits(t) \in Seq(Int) /\ Len(LineLimits(t)) = Len(t)
      /\ \A k \in 1..Len(t) : LineLimits(t)[k] = LineLimit(t[k])
  BY <1>1, BytesAreIntegers
<1>4. LineLimit(e) <= LineLimit(lines[n]) /\ LineLimit(e) \in Int /\ LineLimit(lines[n]) \in Int
  BY ReadShorter
<1>5. LineLimits(t) = Append(LineLimits(s), LineLimit(e))
  <2> DEFINE a == LineLimits(s)
             b == LineLimits(t)
             x == LineLimit(e)
             c == Append(a, x)
  <2>1. a \in Seq(Int) /\ b \in Seq(Int) /\ x \in Int /\ Len(b) = Len(a) + 1
        /\ b[Len(a) + 1] = x /\ \A k \in 1..Len(a) : b[k] = a[k]
    <3>1. \A k \in 1..Len(s) : k \in 1..Len(t)
      BY <1>1
    <3>2. Len(s) + 1 \in 1..Len(t)
      BY <1>1
    <3> QED BY <1>1, <1>2, <1>3, <1>4, <3>1, <3>2
  <2> HIDE DEF a, b, x
  <2>2. c \in Seq(Int) /\ Len(c) = Len(a) + 1 /\ c[Len(a) + 1] = x /\ \A k \in 1..Len(a) : c[k] = a[k]
    BY <2>1, AppendProperties
  <2> HIDE DEF c
  <2>3. \A k \in 1..Len(b) : b[k] = c[k]
    <3>1. \A k \in 1..Len(b) : k = Len(a) + 1 \/ k \in 1..Len(a)
      BY <2>1
    <3> QED BY <2>1, <2>2, <3>1
  <2>4. b = c
    BY <2>1, <2>2, <2>3
  <2> QED BY <2>4 DEF a, b, c, x
<1>6. File!Total(LineLimits(t)) = File!Total(LineLimits(s)) + LineLimit(e)
  BY <1>2, <1>4, <1>5, TotalAppend
<1>7. /\ LineLimits(lines) \in Seq(Int) /\ Len(LineLimits(lines)) = Len(lines)
      /\ LineLimits(lines)[n] = LineLimit(lines[n])
  BY BytesAreIntegers
<1>8. G[n] = G[n - 1] + LineLimit(lines[n]) /\ G[n - 1] \in Int
  <2>1. n \in 1..Len(LineLimits(lines)) /\ n - 1 \in 0..Len(LineLimits(lines))
    BY <1>7
  <2> QED BY <1>7, <2>1 DEF Sums
<1>9. File!Total(LineLimits(s)) <= G[n - 1] /\ File!Total(LineLimits(s)) \in Int
  BY <1>2, TotalInt DEF ReadWithin
<1>10. File!Total(LineLimits(t)) <= G[n]
  BY <1>4, <1>6, <1>8, <1>9
<1> QED BY <1>10 DEF t

LEMMA WithinExtend ==
  ASSUME lines \in Seq(FileRows), generation \in 1..MaxGenerations, NEW n \in 1..Len(lines),
         NEW s \in Seq(FileRows), ReadWithin(s, n - 1), NEW t \in Seq(FileRows), SameLengths(s, t)
  PROVE  ReadWithin(t, n)
<1> SUFFICES ASSUME NEW G, Sums(LineLimits(lines), G)
             PROVE  File!Total(LineLimits(t)) <= G[n]
  BY DEF ReadWithin
<1>1. LineLimits(s) = LineLimits(t)
  <2>1. \A k \in 1..Len(s) : LineLimit(s[k]) = LineLimit(t[k])
    BY DEF SameLengths, LineLimit
  <2>2. DOMAIN s = 1..Len(s) /\ DOMAIN t = 1..Len(s)
    BY DEF SameLengths
  <2> QED BY <2>1, <2>2 DEF LineLimits
<1>2. File!Total(LineLimits(s)) <= G[n - 1] /\ File!Total(LineLimits(s)) \in Int
  BY BytesAreIntegers, TotalInt DEF ReadWithin
<1>3. /\ LineLimits(lines) \in Seq(Int) /\ Len(LineLimits(lines)) = Len(lines)
      /\ LineLimits(lines)[n] = LineLimit(lines[n])
  BY BytesAreIntegers
<1>4. G[n] = G[n - 1] + LineLimit(lines[n]) /\ G[n - 1] \in Int
  <2>1. n \in 1..Len(LineLimits(lines)) /\ n - 1 \in 0..Len(LineLimits(lines))
    BY <1>3
  <2> QED BY <1>3, <2>1 DEF Sums
<1>5. LineLimit(lines[n]) \in Nat
  <2>1. lines[n] \in FileRows
    OBVIOUS
  <2> QED BY <2>1, LineWithinLimit
<1> QED BY <1>1, <1>2, <1>4, <1>5

\* What is read is read from the lines, one by one.
LEMMA ReadOn ==
  ASSUME lines \in Seq(FileRows), generation \in 1..MaxGenerations, NEW n \in 1..Len(lines),
         NEW s, NEW h, ReadTo(s, h, n - 1), ReadWithin(s, n - 1), NEW t, ReadMore(t, s, n)
  PROVE  (\E i : ReadTo(t, i, n)) /\ ReadWithin(t, n)
<1>1. s \in Seq(FileRows) /\ lines[n] \in FileRows
  BY DEF ReadTo, InOrder
<1>2. CASE ~lines[n].junk
  <2> DEFINE e == Whole(lines[n])
  <2>1. e \in FileRows /\ ReadAs(e, n, n) /\ t = Append(s, e)
    BY <1>1, <1>2, WholeIs DEF ReadAs, ReadMore
  <2> HIDE DEF e
  <2>2. \E i : ReadTo(Append(s, e), i, n)
    BY <1>2, <2>1, ReadAppend
  <2>3. ReadWithin(Append(s, e), n)
    BY <1>1, <2>1, WithinAppend
  <2> QED BY <2>1, <2>2, <2>3
<1>3. CASE lines[n].junk /\ n > 1 /\ lines[n - 1].junk
  <2>1. /\ t \in Seq(FileRows) /\ Len(t) = Len(s)
        /\ \A k \in 1..Len(s) : k # Len(s) => t[k] = s[k]
        /\ Len(s) > 0 => t[Len(s)] = Lengthened(s[Len(s)])
    BY <1>3 DEF ReadMore
  <2>2. ReadTo(t, h, n)
    BY <1>3, <2>1, ReadExtend
  <2>3. SameLengths(s, t)
    <3>1. ASSUME NEW k \in 1..Len(s) PROVE s[k].bytes = t[k].bytes /\ s[k].junk = t[k].junk
      <4>1. CASE k # Len(s)
        BY <2>1, <4>1
      <4>2. CASE k = Len(s)
        <5>1. s[k] \in FileRows /\ Len(s) > 0
          BY <1>1, <4>2
        <5>2. t[k] = Lengthened(s[k])
          BY <2>1, <4>2, <5>1
        <5> QED BY <5>1, <5>2, LengthenedIs
      <4> QED BY <4>1, <4>2
    <3> QED BY <2>1, <3>1 DEF SameLengths
  <2>4. ReadWithin(t, n)
    BY <1>1, <2>1, <2>3, WithinExtend
  <2> QED BY <2>2, <2>4
<1>4. CASE lines[n].junk /\ ~(n > 1 /\ lines[n - 1].junk)
  <2> DEFINE o == JunkCount(n - 1)
             e == File!Barrier(generation, n, o)
  <2>1. t = Append(s, e)
    BY <1>4 DEF ReadMore, JunkCount
  <2>2. o \in Nat /\ n \in Nat /\ JunkCount(n) = o + 1
    BY <1>4, JunkCountIs
  <2>3. o = JunkCount(n - 1)
    OBVIOUS
  <2> HIDE DEF o
  <2>4. /\ e \in FileRows /\ Names(e, generation, n) /\ ~e.junk /\ e.bytes = 260 /\ e.bank = "unknown"
        /\ e.state = CorruptState /\ e.ended /\ e.named
        /\ e.range.source = generation /\ e.range.offset = o /\ e.range.length = 1
    BY <2>2, BarrierIs
  <2> HIDE DEF e
  <2>5. e.range.offset + e.range.length = JunkCount(n)
    BY <2>2, <2>4
  <2>6. ReadAs(e, n, n)
    <3>1. JunkCount(n) <= JunkCount(n)
      BY <2>2
    <3> QED BY <1>4, <2>3, <2>4, <2>5, <3>1 DEF ReadAs, TornAs
  <2>7. \E i : ReadTo(Append(s, e), i, n)
    BY <2>4, <2>5, <2>6, ReadAppend
  <2>8. ReadWithin(Append(s, e), n)
    BY <1>1, <2>4, <2>6, WithinAppend
  <2> QED BY <2>1, <2>7, <2>8
<1> QED BY <1>2, <1>3, <1>4

LEMMA ReadItems ==
  ASSUME lines \in Seq(FileRows), generation \in 1..MaxGenerations
  PROVE  \E h : ReadTo(File!Items, h, Len(lines)) /\ ReadWithin(File!Items, Len(lines))
<1>1. PICK g : Reads(g) /\ File!Items = g[Len(lines)]
  BY ItemsAreRead
<1> DEFINE S == {n \in 0..Len(lines) : (\E h : ReadTo(g[n], h, n)) /\ ReadWithin(g[n], n)}
<1>2. 0 \in S
  <2>1. g[0] = <<>> /\ Len(<<>>) = 0 /\ <<>> \in Seq(FileRows)
    BY <1>1 DEF Reads
  <2>2. ReadTo(<<>>, <<>>, 0)
    <3>1. <<>> \in [1..Len(<<>>) -> 1..0]
      BY <2>1
    <3>2. InOrder(<<>>, <<>>, 0)
      BY <2>1, <3>1 DEF InOrder
    <3>3. Apart(<<>>, <<>>) /\ RunGoesOn(<<>>, <<>>, 0) /\ Covers(<<>>, <<>>, 0)
      BY <2>1 DEF Apart, RunGoesOn, Covers
    <3> QED BY <2>1, <3>2, <3>3 DEF ReadTo
  <2>3. ReadWithin(<<>>, 0)
    <3>1. LineLimits(<<>>) = <<>>
      BY DEF LineLimits
    <3>2. \A G : Sums(LineLimits(lines), G) => G[0] = 0
      BY DEF Sums
    <3> QED BY <3>1, <3>2, TotalEmpty DEF ReadWithin
  <2>4. 0 \in 0..Len(lines)
    OBVIOUS
  <2> QED BY <2>1, <2>2, <2>3, <2>4
<1>3. ASSUME NEW n \in 0..(Len(lines) - 1), n \in S PROVE n + 1 \in S
  <2>1. n + 1 \in 1..Len(lines) /\ (n + 1) - 1 = n /\ n + 1 \in 0..Len(lines)
    OBVIOUS
  <2>2. PICK h : ReadTo(g[n], h, n) /\ ReadWithin(g[n], n)
    BY <1>3
  <2>3. ReadMore(g[n + 1], g[n], n + 1)
    BY <1>1, <2>1 DEF Reads
  <2> DEFINE m == n + 1
  <2>4. m \in 1..Len(lines) /\ ReadTo(g[n], h, m - 1) /\ ReadWithin(g[n], m - 1)
        /\ ReadMore(g[m], g[n], m)
    BY <2>1, <2>2, <2>3
  <2> HIDE DEF m
  <2>5. (\E i : ReadTo(g[m], i, m)) /\ ReadWithin(g[m], m)
    BY <2>4, ReadOn
  <2> QED BY <2>1, <2>5 DEF m
<1>4. Len(lines) \in Nat /\ Len(lines) \in 0..Len(lines)
  OBVIOUS
<1> HIDE DEF S
<1>5. \A n \in 0..Len(lines) : n \in S
  BY <1>2, <1>3, <1>4, Induction
<1> QED BY <1>1, <1>4, <1>5 DEF S

\* Rows and pieces of junk are named in one way, torn rows in another, barriers
\* in a third.
LEMMA NamesAreShort ==
  ASSUME NEW f \in LeftFiles, NEW n \in DOMAIN f
  PROVE  \E x : f[n].id = <<x>>
<1>1. \A id, in, named : Left(id, in, named).id = <<id>>
  BY DEF Left, Lines!Row
<1>2. \A id, bytes, ended : Lines!Junk(id, bytes, ended).id = id
  BY DEF Lines!Junk, Lines!Row
<1>3. [Left("o3", "A", TRUE) EXCEPT !.ended = FALSE].id = <<"o3">>
  BY DEF Left, Lines!Row
<1> DEFINE a == Left("o1", "A", FALSE)
           b == Left("o2", "A", TRUE)
           c == Lines!Junk(<<"j1">>, 10, TRUE)
           d == Lines!Junk(<<"j2">>, 1, TRUE)
           e == Left("o1", "A", TRUE)
           g == Lines!Junk(<<"j3">>, 20, FALSE)
           h == Left("o2", "B", FALSE)
           i == [Left("o3", "A", TRUE) EXCEPT !.ended = FALSE]
<1>4. /\ a.id = <<"o1">> /\ b.id = <<"o2">> /\ c.id = <<"j1">> /\ d.id = <<"j2">> /\ e.id = <<"o1">>
      /\ g.id = <<"j3">> /\ h.id = <<"o2">> /\ i.id = <<"o3">>
  BY <1>1, <1>2, <1>3
<1>5. LeftFiles = {<<a, b>>, <<c, d, e, g>>, <<e, h, i>>}
  BY DEF LeftFiles
<1> HIDE DEF a, b, c, d, e, g, h, i
<1>6. CASE f = <<a, b>>
  BY <1>4, <1>6
<1>7. CASE f = <<c, d, e, g>>
  BY <1>4, <1>7
<1>8. CASE f = <<e, h, i>>
  BY <1>4, <1>8
<1> QED BY <1>5, <1>6, <1>7, <1>8

LEMMA RowNamesAreShort ==
  ASSUME NEW id \in RowNames
  PROVE  \E x : id = <<x>>
<1>1. CASE \E n \in NewRows : id = <<n>>
  BY <1>1
<1>2. CASE \E f \in LeftFiles : id \in File!IdsOf(f)
  <2>1. PICK f \in LeftFiles : id \in File!IdsOf(f)
    BY <1>2
  <2>2. PICK n \in DOMAIN f : id = f[n].id
    BY <2>1 DEF File!IdsOf
  <2> QED BY <2>2, NamesAreShort
<1> QED BY <1>1, <1>2 DEF RowNames

LEMMA NamesDiffer ==
  ASSUME NEW id \in RowNames
  PROVE  (\A g, m : id # <<"corrupt", g, m>>) /\ (\A x : id # <<"torn", x>>)
<1>1. PICK x : id = <<x>>
  BY RowNamesAreShort
<1>2. Len(<<x>>) = 1 /\ \A g, m : Len(<<"corrupt", g, m>>) = 3
  OBVIOUS
<1>3. \A y : Len(<<"torn", y>>) = 2
  OBVIOUS
<1> QED BY <1>1, <1>2, <1>3

LEMMA BarrierNames ==
  ASSUME NEW g, NEW m, NEW n \in Nat, <<"corrupt", g, m>> \in BarrierIds(n)
  PROVE  g \in 1..n
BY DEF BarrierIds

\* A row read is a row of the file, or a barrier of its junk.
Reading(h) ==
  /\ File!Items \in Seq(FileRows) /\ Len(File!Items) \in Nat
  /\ h \in [1..Len(File!Items) -> 1..Len(lines)]
  /\ \A j, k \in 1..Len(File!Items) : j < k => h[j] < h[k]
  /\ \A k \in 1..Len(File!Items) :
       IF lines[h[k]].junk
       THEN TornAs(File!Items[k], h[k], Len(lines))
       ELSE File!Items[k] = Whole(lines[h[k]])
  /\ \A j, k \in 1..Len(File!Items) :
       j < k /\ lines[h[j]].junk /\ lines[h[k]].junk
         => File!Items[j].range.offset + File!Items[j].range.length <= File!Items[k].range.offset
  /\ \A m \in 1..Len(lines) : ~lines[m].junk => \E k \in 1..Len(File!Items) : h[k] = m
  /\ NoJunk(lines) => Len(File!Items) = Len(lines) /\ \A k \in 1..Len(lines) : h[k] = k

LEMMA ItemsReading ==
  ASSUME lines \in Seq(FileRows), generation \in 1..MaxGenerations
  PROVE  (\E h : Reading(h)) /\ (Roomy(lines) /\ limit \in Nat => Roomy(File!Items))
<1>1. PICK h : ReadTo(File!Items, h, Len(lines)) /\ ReadWithin(File!Items, Len(lines))
  BY ReadItems
<1>2. Reading(h)
  <2> DEFINE t == File!Items
             N == Len(lines)
  <2>1. ReadTo(t, h, N)
    BY <1>1
  <2> HIDE DEF t, N
  <2>2. /\ t \in Seq(FileRows) /\ Len(t) \in Nat /\ h \in [1..Len(t) -> 1..N]
        /\ \A j, k \in 1..Len(t) : j < k => h[j] < h[k]
    BY <2>1 DEF ReadTo, InOrder
  <2>3. \A k \in 1..Len(t) : IF lines[h[k]].junk THEN TornAs(t[k], h[k], N) ELSE t[k] = Whole(lines[h[k]])
    BY <2>1 DEF ReadTo, ReadAs
  <2>4. \A j, k \in 1..Len(t) :
          j < k /\ lines[h[j]].junk /\ lines[h[k]].junk
            => t[j].range.offset + t[j].range.length <= t[k].range.offset
    BY <2>1 DEF ReadTo, Apart
  <2>5. /\ \A m \in 1..N : ~lines[m].junk => \E k \in 1..Len(t) : h[k] = m
        /\ NoJunk(lines) => Len(t) = N /\ \A k \in 1..N : h[k] = k
    BY <2>1 DEF ReadTo, Covers
  <2> QED BY <2>2, <2>3, <2>4, <2>5 DEF Reading, t, N
<1>3. ASSUME Roomy(lines), limit \in Nat PROVE Roomy(File!Items)
  <2>1. LineLimits(lines) \in Seq(Int) /\ Len(LineLimits(lines)) = Len(lines)
    BY BytesAreIntegers
  <2>2. PICK G : Sums(LineLimits(lines), G) /\ File!Total(LineLimits(lines)) = G[Len(LineLimits(lines))]
    BY <2>1, TotalUnfolds
  <2>3. File!Total(LineLimits(File!Items)) <= File!Total(LineLimits(lines))
    BY <1>1, <2>1, <2>2 DEF ReadWithin
  <2>4. LineLimits(File!Items) \in Seq(Int)
    BY <1>2, BytesAreIntegers DEF Reading
  <2>5. File!Total(LineLimits(File!Items)) \in Int /\ File!Total(LineLimits(lines)) \in Int
    BY <2>1, <2>4, TotalInt
  <2>6. File!Total(LineLimits(lines)) <= limit
    BY <1>3, RoomyIs
  <2> QED BY <1>3, <2>3, <2>5, <2>6, RoomyIs
<1> QED BY <1>2, <1>3

LEMMA BarriersApart ==
  ASSUME NEW g, NEW a, NEW b, <<"corrupt", g, a>> = <<"corrupt", g, b>>
  PROVE  a = b
<1>1. <<"corrupt", g, a>>[3] = a /\ <<"corrupt", g, b>>[3] = b
  OBVIOUS
<1> QED BY <1>1

\* Of the rows read, those of lines that are rows, and barriers.
FromLine(e, r) ==
  /\ e = Whole(r) /\ ~r.junk /\ e.id = r.id /\ ~e.junk /\ e.bytes = r.bytes /\ e.bank = r.bank
  /\ e.state = r.state /\ e.range = r.range /\ e.ended /\ (r.ended => e = r)
IsBarrier(e, m) == TornAs(e, m, Len(lines))

LEMMA RowRead ==
  ASSUME lines \in Seq(FileRows), NEW h, Reading(h), NEW k \in 1..Len(File!Items)
  PROVE  /\ h[k] \in 1..Len(lines) /\ lines[h[k]] \in FileRows /\ File!Items[k] \in FileRows
         /\ ~lines[h[k]].junk => FromLine(File!Items[k], lines[h[k]])
         /\ lines[h[k]].junk => IsBarrier(File!Items[k], h[k])
<1>1. h[k] \in 1..Len(lines) /\ File!Items[k] \in FileRows
  BY DEF Reading
<1>2. lines[h[k]] \in FileRows
  BY <1>1
<1>3. ASSUME ~lines[h[k]].junk PROVE FromLine(File!Items[k], lines[h[k]])
  <2>1. File!Items[k] = Whole(lines[h[k]])
    BY <1>3 DEF Reading
  <2> DEFINE r == lines[h[k]]
  <2>2. r \in FileRows /\ ~r.junk
    BY <1>2, <1>3
  <2> HIDE DEF r
  <2>3. FromLine(Whole(r), r)
    BY <2>2, WholeIs DEF FromLine
  <2> QED BY <2>1, <2>3 DEF r
<1>4. lines[h[k]].junk => IsBarrier(File!Items[k], h[k])
  BY DEF Reading, IsBarrier
<1> QED BY <1>1, <1>2, <1>3, <1>4

LEMMA BarrierOfGeneration ==
  ASSUME FileTypes, LinesInv, NEW e, NEW m \in 1..Len(lines), IsBarrier(e, m)
  PROVE  /\ e.id = <<"corrupt", generation, m>> /\ e.id \in BarrierIds(generation)
         /\ \A n \in 1..Len(lines) : ~lines[n].junk => lines[n].id # e.id
<1>1. e.id = <<"corrupt", generation, m>>
  BY DEF IsBarrier, TornAs, Names
<1>2. generation \in Nat /\ generation \in 1..generation /\ generation - 1 \in Nat
  <2>1. MaxGenerations \in Nat
    BY RouterConstants DEF File!QueueFileConstants
  <2> QED BY <2>1 DEF FileTypes
<1>3. e.id \in BarrierIds(generation)
  <2>1. m \in Nat
    BY DEF FileTypes
  <2> QED BY <1>1, <1>2, <2>1 DEF BarrierIds
<1>4. ASSUME NEW n \in 1..Len(lines), ~lines[n].junk PROVE lines[n].id # e.id
  <2>1. n \in DOMAIN lines
    BY DEF FileTypes
  <2>2. lines[n].id \in RowNames \cup BarrierIds(generation - 1)
    BY <1>4, <2>1 DEF LinesInv, OfGeneration
  <2>3. CASE lines[n].id \in RowNames
    BY <1>1, <2>3, NamesDiffer
  <2>4. CASE lines[n].id \in BarrierIds(generation - 1)
    <3>1. e.id \notin BarrierIds(generation - 1)
      <4>1. SUFFICES ASSUME <<"corrupt", generation, m>> \in BarrierIds(generation - 1) PROVE FALSE
        BY <1>1
      <4>2. generation \in 1..(generation - 1)
        BY <1>2, <4>1, BarrierNames
      <4> QED BY <1>2, <4>2
    <3> QED BY <2>4, <3>1
  <2> QED BY <2>2, <2>3, <2>4
<1> QED BY <1>1, <1>3, <1>4

LEMMA ItemsDistinct ==
  ASSUME FileTypes, LinesInv
  PROVE  /\ Distinct(File!Items) /\ OfGeneration(File!Items, generation)
         /\ NoJunk(File!Items) /\ AllEnded(File!Items)
<1>1. PICK h : Reading(h)
  BY ItemsReading DEF FileTypes
<1>2. lines \in Seq(FileRows) /\ DOMAIN lines = 1..Len(lines)
  BY DEF FileTypes
<1> DEFINE t == File!Items
<1>3. t \in Seq(FileRows) /\ DOMAIN t = 1..Len(t) /\ Len(t) \in Nat
      /\ \A j, k \in 1..Len(t) : j < k => h[j] < h[k]
  BY <1>1 DEF Reading
<1>4. \A k \in 1..Len(t) :
        /\ h[k] \in 1..Len(lines) /\ lines[h[k]] \in FileRows /\ t[k] \in FileRows
        /\ ~lines[h[k]].junk => FromLine(t[k], lines[h[k]])
        /\ lines[h[k]].junk => IsBarrier(t[k], h[k])
  BY <1>1, <1>2, RowRead
<1> HIDE DEF t
<1>5. NoJunk(t) /\ AllEnded(t)
  BY <1>3, <1>4 DEF NoJunk, AllEnded, FromLine, IsBarrier, TornAs
<1>6. \A j, k \in 1..Len(t) : h[j] = h[k] => j = k
  <2> TAKE j, k \in 1..Len(t)
  <2>1. h[j] \in Nat /\ h[k] \in Nat /\ j \in Nat /\ k \in Nat
    BY <1>3, <1>4
  <2> QED BY <1>3, <2>1
<1>7. Distinct(t)
  <2>1. ASSUME NEW j \in 1..Len(t), NEW k \in 1..Len(t), t[j].id = t[k].id PROVE j = k
    <3>1. CASE ~lines[h[j]].junk /\ ~lines[h[k]].junk
      <4>1. lines[h[j]].id = lines[h[k]].id
        BY <1>4, <2>1, <3>1 DEF FromLine
      <4> QED BY <1>2, <1>4, <1>6, <4>1 DEF LinesInv, Distinct
    <3>2. CASE lines[h[j]].junk /\ lines[h[k]].junk
      <4>1. t[j].id = <<"corrupt", generation, h[j]>> /\ t[k].id = <<"corrupt", generation, h[k]>>
        BY <1>4, <3>2, BarrierOfGeneration
      <4>2. h[j] = h[k]
        BY <2>1, <4>1, BarriersApart
      <4> QED BY <1>6, <4>2
    <3>3. CASE ~lines[h[j]].junk /\ lines[h[k]].junk
      <4>1. t[j].id = lines[h[j]].id
        BY <1>4, <3>3 DEF FromLine
      <4>2. lines[h[j]].id # t[k].id
        BY <1>4, <3>3, BarrierOfGeneration
      <4> QED BY <2>1, <4>1, <4>2
    <3>4. CASE lines[h[j]].junk /\ ~lines[h[k]].junk
      <4>1. t[k].id = lines[h[k]].id
        BY <1>4, <3>4 DEF FromLine
      <4>2. lines[h[k]].id # t[j].id
        BY <1>4, <3>4, BarrierOfGeneration
      <4> QED BY <2>1, <4>1, <4>2
    <3> QED BY <3>1, <3>2, <3>3, <3>4
  <2> QED BY <1>3, <2>1 DEF Distinct
<1>8. OfGeneration(t, generation)
  <2>1. ASSUME NEW k \in 1..Len(t) PROVE t[k].id \in RowNames \cup BarrierIds(generation)
    <3>1. CASE ~lines[h[k]].junk
      <4>1. lines[h[k]].id \in RowNames \cup BarrierIds(generation - 1)
        BY <1>2, <1>4, <3>1 DEF LinesInv, OfGeneration
      <4>2. BarrierIds(generation - 1) \subseteq BarrierIds(generation)
        <5>1. MaxGenerations \in Nat
          BY RouterConstants DEF File!QueueFileConstants
        <5>2. generation \in Nat /\ 1..(generation - 1) \subseteq 1..generation
          BY <5>1 DEF FileTypes
        <5> QED BY <5>2 DEF BarrierIds
      <4> QED BY <1>4, <3>1, <4>1, <4>2 DEF FromLine
    <3>2. CASE lines[h[k]].junk
      BY <1>4, <3>2, BarrierOfGeneration
    <3> QED BY <3>1, <3>2
  <2> QED BY <1>3, <1>5, <2>1 DEF OfGeneration, NoJunk
<1> QED BY <1>5, <1>7, <1>8 DEF t

LEMMA ItemsRanged ==
  ASSUME FileTypes, LinesInv
  PROVE  Ranged(File!Items, generation, JunkRooms)
<1>1. PICK h : Reading(h)
  BY ItemsReading DEF FileTypes
<1>2. lines \in Seq(FileRows) /\ DOMAIN lines = 1..Len(lines)
  BY DEF FileTypes
<1> DEFINE t == File!Items
<1>3. /\ t \in Seq(FileRows) /\ DOMAIN t = 1..Len(t) /\ Len(t) \in Nat
      /\ \A j, k \in 1..Len(t) : j < k => h[j] < h[k]
      /\ \A j, k \in 1..Len(t) :
           j < k /\ lines[h[j]].junk /\ lines[h[k]].junk
             => t[j].range.offset + t[j].range.length <= t[k].range.offset
  BY <1>1 DEF Reading
<1>4. \A k \in 1..Len(t) :
        /\ h[k] \in 1..Len(lines) /\ lines[h[k]] \in FileRows /\ t[k] \in FileRows
        /\ ~lines[h[k]].junk => FromLine(t[k], lines[h[k]])
        /\ lines[h[k]].junk => IsBarrier(t[k], h[k])
  BY <1>1, <1>2, RowRead
<1> HIDE DEF t
<1>5. /\ generation \in 1..MaxGenerations /\ MaxGenerations \in Nat /\ generation \in Nat
      /\ 0 # generation /\ generation \notin 1..(generation - 1)
      /\ 1..(generation - 1) \subseteq 1..generation /\ generation \in 1..generation
      /\ \A g \in 1..(generation - 1) : g \in 1..MaxGenerations /\ g # generation /\ g # 0
  <2>1. MaxGenerations \in Nat
    BY RouterConstants DEF File!QueueFileConstants
  <2> QED BY <2>1 DEF FileTypes
<1>6. /\ JunkRooms[generation] = JunkCount(Len(lines))
      /\ \A g \in 1..(generation - 1) : JunkRooms[g] = Rooms[g]
  <2>1. Rooms \in [1..MaxGenerations -> Nat]
    BY DEF Rooms, FileTypes
  <2> HIDE DEF Rooms
  <2>2. /\ JunkRooms[generation] = Len(File!JunkOf(lines))
        /\ \A g \in 1..(generation - 1) : JunkRooms[g] = Rooms[g]
    BY <1>5, <2>1 DEF JunkRooms
  <2> QED BY <1>2, <2>2, JunkCountIs
<1>7. File!NoRange.source = 0
  BY DEF File!NoRange
\* A row of the file keeps its range; it names an older snapshot.
<1>8. \A k \in 1..Len(t) : ~lines[h[k]].junk => t[k].range = lines[h[k]].range
  BY <1>4 DEF FromLine
<1>9. \A n \in 1..Len(lines) :
        lines[n].range # File!NoRange =>
          /\ lines[n].range.source \in 1..(generation - 1)
          /\ lines[n].range.offset + lines[n].range.length <= Rooms[lines[n].range.source]
          /\ \A m \in 1..(n - 1) : lines[m].range.source = lines[n].range.source
               => lines[m].range.offset + lines[m].range.length <= lines[n].range.offset
  BY <1>2 DEF LinesInv, Ranged
<1>10. ASSUME NEW n \in 1..Len(t), t[n].range # File!NoRange, ~lines[h[n]].junk
       PROVE  /\ t[n].range.source \in 1..generation
              /\ t[n].range.offset + t[n].range.length <= JunkRooms[t[n].range.source]
              /\ \A m \in 1..(n - 1) : t[m].range.source = t[n].range.source
                   => t[m].range.offset + t[m].range.length <= t[n].range.offset
  <2>1. t[n].range = lines[h[n]].range /\ h[n] \in 1..Len(lines)
    BY <1>4, <1>8, <1>10
  <2>2. t[n].range.source \in 1..(generation - 1)
        /\ t[n].range.offset + t[n].range.length <= Rooms[t[n].range.source]
    BY <1>9, <1>10, <2>1
  <2>3. ASSUME NEW m \in 1..(n - 1), t[m].range.source = t[n].range.source
        PROVE  t[m].range.offset + t[m].range.length <= t[n].range.offset
    <3>1. m \in 1..Len(t) /\ m < n
      BY <1>3
    <3>2. CASE lines[h[m]].junk
      <4>1. t[m].range.source = generation
        BY <1>4, <3>1, <3>2 DEF IsBarrier, TornAs
      <4> QED BY <1>5, <2>2, <2>3, <4>1
    <3>3. CASE ~lines[h[m]].junk
      <4>1. h[m] < h[n] /\ h[m] \in 1..Len(lines) /\ t[m].range = lines[h[m]].range
        BY <1>3, <1>4, <1>8, <3>1, <3>3
      <4>2. h[m] \in 1..(h[n] - 1)
        BY <2>1, <4>1
      <4> QED BY <1>9, <1>10, <2>1, <2>3, <4>1, <4>2
    <3> QED BY <3>2, <3>3
  <2>4. JunkRooms[t[n].range.source] = Rooms[t[n].range.source] /\ t[n].range.source \in 1..generation
    BY <1>5, <1>6, <2>2
  <2> QED BY <2>2, <2>3, <2>4
<1>11. ASSUME NEW n \in 1..Len(t), lines[h[n]].junk
       PROVE  /\ t[n].range.source \in 1..generation
              /\ t[n].range.offset + t[n].range.length <= JunkRooms[t[n].range.source]
              /\ \A m \in 1..(n - 1) : t[m].range.source = t[n].range.source
                   => t[m].range.offset + t[m].range.length <= t[n].range.offset
  <2>1. t[n].range.source = generation /\ t[n].range.offset + t[n].range.length <= JunkCount(Len(lines))
    BY <1>4, <1>11 DEF IsBarrier, TornAs
  <2>2. ASSUME NEW m \in 1..(n - 1), t[m].range.source = t[n].range.source
        PROVE  t[m].range.offset + t[m].range.length <= t[n].range.offset
    <3>1. m \in 1..Len(t) /\ m < n
      BY <1>3
    <3>2. CASE lines[h[m]].junk
      BY <1>3, <1>11, <3>1, <3>2
    <3>3. CASE ~lines[h[m]].junk
      <4>1. t[m].range = lines[h[m]].range /\ h[m] \in 1..Len(lines)
        BY <1>4, <1>8, <3>1, <3>3
      <4>2. t[m].range.source \in 1..(generation - 1) \/ t[m].range.source = 0
        BY <1>7, <1>9, <4>1
      <4> QED BY <1>5, <2>1, <2>2, <4>2
    <3> QED BY <3>2, <3>3
  <2> QED BY <1>5, <1>6, <2>1, <2>2
<1>12. Ranged(t, generation, JunkRooms)
  BY <1>3, <1>10, <1>11 DEF Ranged
<1> QED BY <1>12 DEF t

\* Every row read is a row of the file or a barrier; every row of the file is read.
LEMMA RowsAreRead ==
  ASSUME FileTypes, LinesInv
  PROVE  /\ File!Items \in Seq(FileRows) /\ DOMAIN File!Items = 1..Len(File!Items)
         /\ \A k \in DOMAIN File!Items :
              \/ \E m \in DOMAIN lines : FromLine(File!Items[k], lines[m])
              \/ \E m \in DOMAIN lines : lines[m].junk /\ IsBarrier(File!Items[k], m)
         /\ \A m \in DOMAIN lines :
              ~lines[m].junk => \E k \in DOMAIN File!Items : FromLine(File!Items[k], lines[m])
<1>1. PICK h : Reading(h)
  BY ItemsReading DEF FileTypes
<1>2. lines \in Seq(FileRows) /\ DOMAIN lines = 1..Len(lines)
  BY DEF FileTypes
<1>3. /\ File!Items \in Seq(FileRows) /\ DOMAIN File!Items = 1..Len(File!Items)
      /\ \A m \in 1..Len(lines) : ~lines[m].junk => \E k \in 1..Len(File!Items) : h[k] = m
  BY <1>1 DEF Reading
<1>4. \A k \in 1..Len(File!Items) :
        /\ h[k] \in 1..Len(lines)
        /\ ~lines[h[k]].junk => FromLine(File!Items[k], lines[h[k]])
        /\ lines[h[k]].junk => IsBarrier(File!Items[k], h[k])
  BY <1>1, <1>2, RowRead
<1> QED BY <1>2, <1>3, <1>4

LEMMA ItemsAreLines ==
  ASSUME FileTypes, LinesInv, NoJunk(lines), AllEnded(lines)
  PROVE  File!Items = lines
<1>1. PICK h : Reading(h)
  BY ItemsReading DEF FileTypes
<1>2. lines \in Seq(FileRows) /\ DOMAIN lines = 1..Len(lines)
  BY DEF FileTypes
<1>3. File!Items \in Seq(FileRows) /\ Len(File!Items) = Len(lines) /\ \A k \in 1..Len(lines) : h[k] = k
  BY <1>1 DEF Reading
<1>4. ASSUME NEW k \in 1..Len(lines) PROVE File!Items[k] = lines[k]
  <2>1. k \in 1..Len(File!Items) /\ h[k] = k /\ ~lines[k].junk /\ lines[k].ended
    BY <1>2, <1>3 DEF NoJunk, AllEnded
  <2>2. FromLine(File!Items[k], lines[k])
    BY <1>1, <1>2, <2>1, RowRead
  <2> QED BY <2>1, <2>2 DEF FromLine
<1> DEFINE t == File!Items
           s == lines
<1>5. t \in Seq(FileRows) /\ s \in Seq(FileRows) /\ Len(t) = Len(s) /\ \A k \in 1..Len(s) : t[k] = s[k]
  BY <1>2, <1>3, <1>4
<1> HIDE DEF t, s
<1>6. t = s
  BY <1>5
<1> QED BY <1>6 DEF t, s

LEMMA BarrierIsCorrupt ==
  ASSUME NEW e, NEW m, IsBarrier(e, m)
  PROVE  /\ e.state.quarantine = "corrupt" /\ ~e.state.sending /\ e.state.gate = "none"
         /\ e.state.quarantine # "none"
BY DEF IsBarrier, TornAs, CorruptState, File!NoState

\* What the rows read say of the file.
LEMMA ItemsIds ==
  ASSUME FileTypes, LinesInv
  PROVE  /\ RowIds(lines) \subseteq RowIds(File!Items)
         /\ File!IdsOf(File!Items) \subseteq RowIds(lines) \cup BarrierIds(generation)
         /\ RowIds(File!Items) = File!IdsOf(File!Items)
<1> DEFINE t == File!Items
<1>1. /\ \A k \in DOMAIN t :
           \/ \E m \in DOMAIN lines : FromLine(t[k], lines[m])
           \/ \E m \in DOMAIN lines : lines[m].junk /\ IsBarrier(t[k], m)
      /\ \A m \in DOMAIN lines : ~lines[m].junk => \E k \in DOMAIN t : FromLine(t[k], lines[m])
  BY RowsAreRead
<1>2. DOMAIN lines = 1..Len(lines)
  BY DEF FileTypes
<1>3. NoJunk(t)
  BY ItemsDistinct
<1> HIDE DEF t
<1>4. RowIds(lines) \subseteq RowIds(t)
  BY <1>1, <1>3 DEF RowIds, NoJunk, FromLine
<1>5. File!IdsOf(t) \subseteq RowIds(lines) \cup BarrierIds(generation)
  <2>1. ASSUME NEW k \in DOMAIN t PROVE t[k].id \in RowIds(lines) \cup BarrierIds(generation)
    <3>1. CASE \E m \in DOMAIN lines : FromLine(t[k], lines[m])
      BY <3>1 DEF FromLine, RowIds
    <3>2. CASE \E m \in DOMAIN lines : lines[m].junk /\ IsBarrier(t[k], m)
      BY <1>2, <3>2, BarrierOfGeneration
    <3> QED BY <1>1, <3>1, <3>2
  <2> QED BY <2>1 DEF File!IdsOf
<1>6. RowIds(t) = File!IdsOf(t)
  BY <1>3 DEF RowIds, File!IdsOf, NoJunk
<1> QED BY <1>4, <1>5, <1>6 DEF t

LEMMA ItemsStates ==
  ASSUME FileTypes, LinesInv
  PROVE  /\ OneSent(File!Items)
         /\ Unanswered(lines) = {} => Unanswered(File!Items) = {}
         /\ Sending(lines) = {} <=> Sending(File!Items) = {}
         /\ File!SendingIds = {lines[n].id : n \in Sending(lines)}
         /\ Gated(File!Items) => Gated(lines)
         /\ GateProtects(lines) => GateProtects(File!Items)
         /\ OneBank(lines) <=> OneBank(File!Items)
         /\ \A k \in DOMAIN File!Items : \A n \in DOMAIN lines :
              /\ File!Items[k].id = lines[n].id /\ ~lines[n].junk => FromLine(File!Items[k], lines[n])
              /\ n \in Open(lines) /\ File!Items[k].id = lines[n].id => k \in Open(File!Items)
<1> DEFINE t == File!Items
<1>1. /\ \A k \in DOMAIN t :
           \/ \E m \in DOMAIN lines : FromLine(t[k], lines[m])
           \/ \E m \in DOMAIN lines : lines[m].junk /\ IsBarrier(t[k], m)
      /\ \A m \in DOMAIN lines : ~lines[m].junk => \E k \in DOMAIN t : FromLine(t[k], lines[m])
  BY RowsAreRead
<1>2. DOMAIN lines = 1..Len(lines) /\ Distinct(lines) /\ Distinct(t) /\ NoJunk(t) /\ OneSent(lines)
      /\ JunkIsBare(lines)
  <2>1. DOMAIN lines = 1..Len(lines)
    BY DEF FileTypes
  <2>2. Distinct(lines) /\ OneSent(lines) /\ JunkIsBare(lines)
    BY DEF LinesInv
  <2>3. Distinct(t) /\ NoJunk(t)
    BY ItemsDistinct
  <2> QED BY <2>1, <2>2, <2>3
<1>3. File!SendingIds = {t[n].id : n \in {m \in DOMAIN t : t[m].state.sending}}
  BY DEF File!SendingIds
<1>4. \A k \in DOMAIN t : \A n \in DOMAIN lines :
        t[k].id = lines[n].id /\ ~lines[n].junk => FromLine(t[k], lines[n])
  <2> TAKE k \in DOMAIN t
  <2> TAKE n \in DOMAIN lines
  <2> HAVE t[k].id = lines[n].id /\ ~lines[n].junk
  <2>1. CASE \E m \in DOMAIN lines : FromLine(t[k], lines[m])
    <3>1. PICK m \in DOMAIN lines : FromLine(t[k], lines[m])
      BY <2>1
    <3>2. m = n
      BY <1>2, <3>1 DEF FromLine, Distinct
    <3> QED BY <3>1, <3>2
  <2>2. CASE \E m \in DOMAIN lines : lines[m].junk /\ IsBarrier(t[k], m)
    BY <1>2, <2>2, BarrierOfGeneration
  <2> QED BY <1>1, <2>1, <2>2
<1> HIDE DEF t
<1>5. \A m \in Sending(lines) : ~lines[m].junk
  BY <1>2 DEF Sending, JunkIsBare, File!NoState
<1>6. \A k \in Sending(t) : \E m \in Sending(lines) : FromLine(t[k], lines[m])
  BY <1>1, BarrierIsCorrupt DEF Sending, FromLine
<1>7. \A m \in Sending(lines) : \E k \in Sending(t) : FromLine(t[k], lines[m])
  BY <1>1, <1>5 DEF Sending, FromLine
<1>8. OneSent(t)
  <2>1. \A m, n \in Sending(t) : m = n
    <3> TAKE j, k \in Sending(t)
    <3>1. PICK m \in Sending(lines) : FromLine(t[j], lines[m])
      BY <1>6
    <3>2. PICK n \in Sending(lines) : FromLine(t[k], lines[n])
      BY <1>6
    <3>3. m = n
      BY <1>2 DEF OneSent
    <3>4. t[j].id = t[k].id
      BY <3>1, <3>2, <3>3 DEF FromLine
    <3> QED BY <1>2, <3>4 DEF Distinct, Sending
  <2>2. \A n \in Sending(t) : t[n].state.present /\ t[n].state.quarantine # "corrupt"
    BY <1>2, <1>6 DEF FromLine, OneSent
  <2> QED BY <2>1, <2>2 DEF OneSent
<1>9. Unanswered(lines) = {} => Unanswered(t) = {}
  BY <1>6 DEF Unanswered, FromLine
<1>10. Sending(lines) = {} <=> Sending(t) = {}
  BY <1>6, <1>7
<1>11. File!SendingIds = {lines[n].id : n \in Sending(lines)}
  <2>1. File!SendingIds = {t[k].id : k \in Sending(t)}
    BY <1>3 DEF Sending
  <2>2. \A k \in Sending(t) : \E m \in Sending(lines) : t[k].id = lines[m].id
    BY <1>6 DEF FromLine
  <2>3. \A m \in Sending(lines) : \E k \in Sending(t) : t[k].id = lines[m].id
    BY <1>7 DEF FromLine
  <2> QED BY <2>1, <2>2, <2>3
<1>12. Gated(t) => Gated(lines)
  BY <1>1, BarrierIsCorrupt DEF Gated, FromLine
<1>13. GateProtects(lines) => GateProtects(t)
  <2>1. ASSUME GateProtects(lines), Gated(t), NEW k \in DOMAIN t
        PROVE  t[k].state.present /\ t[k].state.protected
    <3>1. NoJunk(lines) /\ \A n \in DOMAIN lines : lines[n].state.present /\ lines[n].state.protected
      BY <1>12, <2>1 DEF GateProtects
    <3>2. PICK m \in DOMAIN lines : FromLine(t[k], lines[m])
      BY <1>1, <3>1 DEF NoJunk
    <3> QED BY <3>1, <3>2 DEF FromLine
  <2> QED BY <1>2, <2>1 DEF GateProtects
<1>14. \A k \in Open(t) : \E m \in Open(lines) : t[k].bank = lines[m].bank
  BY <1>1, BarrierIsCorrupt DEF Open, FromLine
<1>15. \A m \in Open(lines) : \E k \in Open(t) : t[k].bank = lines[m].bank
  BY <1>1 DEF Open, FromLine
<1>16. OneBank(lines) <=> OneBank(t)
  BY <1>14, <1>15 DEF OneBank
<1>17. \A k \in DOMAIN t : \A n \in DOMAIN lines :
         n \in Open(lines) /\ t[k].id = lines[n].id => k \in Open(t)
  BY <1>2, <1>4 DEF Open, FromLine, NoJunk
<1> QED BY <1>4, <1>8, <1>9, <1>10, <1>11, <1>12, <1>13, <1>16, <1>17 DEF t

LEMMA ItemsKeepAll ==
  ASSUME FileTypes, LinesInv
  PROVE  ItemsInv(File!Items)
<1>1. acked \subseteq RowIds(File!Items)
  BY ItemsIds DEF LinesInv
<1>2. Roomy(lines) => Roomy(File!Items)
  BY ItemsReading DEF FileTypes
<1> QED BY <1>1, <1>2, ItemsDistinct, ItemsRanged, ItemsStates DEF ItemsInv

-----------------------------------------------------------------------------
(* What a stage makes of the rows *)

\* A state that sends, gates and opens no more than the one before.
Tamer(x, y) ==
  /\ x.sending => /\ y.sending /\ (y.present => x.present)
                  /\ (y.quarantine # "corrupt" => x.quarantine # "corrupt")
  /\ x.gate # "none" => y.gate # "none"
  /\ y.present /\ y.protected => x.present /\ x.protected
  /\ x.quarantine = "none" => y.quarantine = "none"

LEMMA TamerStates ==
  ASSUME NEW y \in RowStates
  PROVE  /\ Tamer(y, y) /\ Tamer(RefusedState(y), y) /\ Tamer(ReleasedState(y), y)
         /\ Tamer(File!Mismatched(y), y)
         /\ File!Mismatched(y).sending = y.sending /\ File!Mismatched(y).quarantine # "none"
<1>1. Tamer(y, y)
  BY DEF Tamer
<1>2. Tamer(RefusedState(y), y)
  <2> DEFINE c == File!Completed(y)
             m == File!Mismatched(c)
             x == [m EXCEPT !.quarantine = "permanent"]
  <2>1. c \in RowStates /\ ~c.sending /\ c.gate = y.gate /\ c.protected = y.protected
    BY DEF RowStates, File!Completed
  <2> HIDE DEF c
  <2>2. m \in RowStates /\ ~m.sending /\ (m.gate # "none" => c.gate # "none")
        /\ m.protected = c.protected /\ m.present
    BY <2>1 DEF RowStates, File!Mismatched
  <2> HIDE DEF m
  <2>3. ~x.sending /\ x.gate = m.gate /\ x.protected = m.protected /\ x.present /\ x.quarantine # "none"
    BY <2>2 DEF RowStates
  <2> HIDE DEF x
  <2>4. Tamer(x, y)
    BY <2>1, <2>2, <2>3 DEF Tamer
  <2> QED BY <2>4 DEF RefusedState, x, m, c
<1>3. Tamer(ReleasedState(y), y)
  <2> DEFINE c == File!Completed(y)
             empty == [File!NoState EXCEPT !.present = TRUE]
             x == [c EXCEPT !.present = c # empty]
  <2>1. c \in RowStates /\ ~c.sending /\ c.gate = y.gate /\ c.protected = y.protected
        /\ c.quarantine = y.quarantine
    BY DEF RowStates, File!Completed
  <2>2. empty.protected = FALSE
    BY DEF File!NoState
  <2> HIDE DEF c, empty
  <2>3. c.protected => c # empty
    BY <2>2
  <2>4. ~x.sending /\ x.gate = c.gate /\ x.protected = c.protected /\ x.quarantine = c.quarantine
        /\ (c.protected => x.present)
    BY <2>1, <2>3 DEF RowStates
  <2> HIDE DEF x
  <2>5. Tamer(x, y)
    BY <2>1, <2>4 DEF Tamer
  <2> QED BY <2>5 DEF ReleasedState, File!Emptied, x, c, empty
<1>4. /\ Tamer(File!Mismatched(y), y)
      /\ File!Mismatched(y).sending = y.sending /\ File!Mismatched(y).quarantine # "none"
  <2> DEFINE x == File!Mismatched(y)
  <2>1. /\ x.sending = y.sending /\ x.present /\ x.protected = y.protected /\ x.quarantine # "none"
        /\ (y.quarantine # "corrupt" => x.quarantine # "corrupt") /\ (x.gate # "none" => y.gate # "none")
    BY DEF RowStates, File!Mismatched
  <2> HIDE DEF x
  <2>2. Tamer(x, y)
    BY <2>1 DEF Tamer
  <2> QED BY <2>1, <2>2 DEF x
<1> QED BY <1>1, <1>2, <1>3, <1>4

LEMMA PreparedTamer ==
  ASSUME NEW r \in FileRows
  PROVE  /\ Tamer(File!PreparedState(r), r.state)
         /\ File!PreparedState(r).sending = r.state.sending
         /\ File!PreparedState(r).quarantine = "none" => r.bank = bank
<1> DEFINE y == r.state
           gated == \E n \in DOMAIN File!Items : File!Items[n].state.gate # "none"
           s == IF gated THEN File!Protected(y) ELSE y
           x == File!PreparedState(r)
<1>1. y \in RowStates
  BY DEF FileRows
<1>2. x = IF s.quarantine = "none" /\ r.bank # bank THEN File!Mismatched(s) ELSE s
  BY DEF File!PreparedState
<1> HIDE DEF y, x
<1>3. s \in RowStates /\ s.sending = y.sending /\ s.gate = y.gate /\ s.quarantine = y.quarantine
      /\ (y.present => s.present) /\ (y.protected => s.protected)
  BY <1>1 DEF RowStates, File!Protected
<1> HIDE DEF s
<1>4. CASE s.quarantine = "none" /\ r.bank # bank
  <2>1. x = File!Mismatched(s)
    BY <1>2, <1>4
  <2>2. Tamer(x, s) /\ x.sending = s.sending /\ x.quarantine # "none"
    BY <1>3, <2>1, TamerStates
  <2>3. Tamer(x, y)
    BY <1>3, <2>2 DEF Tamer
  <2> QED BY <1>3, <2>2, <2>3 DEF x, y
<1>5. CASE ~(s.quarantine = "none" /\ r.bank # bank)
  <2>1. x = s
    BY <1>2, <1>5
  <2>2. Tamer(x, y)
    BY <1>3, <2>1 DEF Tamer
  <2> QED BY <1>3, <1>5, <2>1, <2>2 DEF x, y
<1> QED BY <1>4, <1>5

\* The rows are the same but for states that are tamer.
Tamed(t, s) == Alike(t, s) /\ \A n \in 1..Len(s) : Tamer(t[n].state, s[n].state)

LEMMA TamedKeeps ==
  ASSUME NEW s \in Seq(FileRows), NEW t, Tamed(t, s)
  PROVE  /\ OneSent(s) => OneSent(t)
         /\ Unanswered(s) = {} => Unanswered(t) = {}
         /\ Sending(s) = {} => Sending(t) = {}
         /\ GateProtects(s) => GateProtects(t)
         /\ OneBank(s) => OneBank(t)
<1>1. /\ DOMAIN s = 1..Len(s) /\ DOMAIN t = 1..Len(s)
      /\ \A n \in 1..Len(s) : t[n].id = s[n].id /\ t[n].junk = s[n].junk /\ t[n].bank = s[n].bank
                              /\ Tamer(t[n].state, s[n].state)
  BY DEF Tamed, Alike
<1>2. Sending(t) \subseteq Sending(s)
  BY <1>1 DEF Sending, Tamer
<1>3. OneSent(s) => OneSent(t)
  BY <1>1, <1>2 DEF OneSent, Tamer, Sending
<1>4. Unanswered(s) = {} => Unanswered(t) = {}
  BY <1>1, <1>2 DEF Unanswered, Sending
<1>5. Gated(t) => Gated(s)
  BY <1>1 DEF Gated, Tamer
<1>6. GateProtects(s) => GateProtects(t)
  BY <1>1, <1>5 DEF GateProtects, NoJunk, Tamer
<1>7. Open(t) \subseteq Open(s)
  BY <1>1 DEF Open, Tamer
<1>8. OneBank(s) => OneBank(t)
  BY <1>1, <1>7 DEF OneBank, Open
<1> QED BY <1>2, <1>3, <1>4, <1>6, <1>8

LEMMA AlikeKeeps ==
  ASSUME FileTypes, LinesInv, NEW t, Alike(t, File!Items), OneSent(t)
  PROVE  /\ ItemsInv(t) /\ File!IdsOf(t) = File!IdsOf(File!Items) /\ RowIds(t) = RowIds(File!Items)
<1> DEFINE s == File!Items
<1>1. s \in Seq(FileRows) /\ ItemsInv(s) /\ Alike(t, s) /\ limit \in Nat
  BY ItemsKeepAll, RowsAreRead DEF FileTypes
<1> HIDE DEF s
<1>2. /\ DOMAIN s = 1..Len(s) /\ DOMAIN t = 1..Len(s) /\ t \in Seq(FileRows)
      /\ \A n \in 1..Len(s) :
           /\ t[n].id = s[n].id /\ t[n].junk = s[n].junk /\ t[n].bytes = s[n].bytes
           /\ t[n].range = s[n].range /\ t[n].ended = s[n].ended
  BY <1>1 DEF Alike
<1>3. Distinct(t) /\ NoJunk(t) /\ AllEnded(t)
  BY <1>1, <1>2 DEF ItemsInv, Distinct, NoJunk, AllEnded
<1>4. OfGeneration(t, generation)
  BY <1>1, <1>2 DEF ItemsInv, OfGeneration
<1>5. Ranged(t, generation, JunkRooms)
  <2>1. Ranged(s, generation, JunkRooms)
    BY <1>1 DEF ItemsInv
  <2>2. \A n \in 1..Len(s) : \A m \in 1..(n - 1) : m \in 1..Len(s)
    BY <1>1
  <2> QED BY <1>2, <2>1, <2>2 DEF Ranged
<1>6. RowIds(t) = RowIds(s) /\ File!IdsOf(t) = File!IdsOf(s)
  BY <1>2 DEF RowIds, File!IdsOf
<1>7. Roomy(lines) => Roomy(t)
  BY <1>1, <1>2, AlikeLengths, RoomyKept DEF ItemsInv
<1>8. ItemsInv(t)
  BY <1>1, <1>3, <1>4, <1>5, <1>6, <1>7 DEF ItemsInv
<1> QED BY <1>6, <1>8 DEF s

LEMMA SetStateTamed ==
  ASSUME File!Items \in Seq(FileRows), NEW id \in File!IdsOf(File!Items), NEW x \in RowStates,
         Tamer(x, File!Items[File!At(id)].state)
  PROVE  Tamed(File!SetState(id, x), File!Items)
<1> DEFINE s == File!Items
           k == File!At(id)
           t == File!SetState(id, x)
<1>1. Alike(t, s) /\ s \in Seq(FileRows)
  BY SetStateAlike
<1>2. /\ \A n \in 1..Len(s) : n # k => t[n] = s[n]
      /\ t[k] = [s[k] EXCEPT !.state = x] /\ k \in 1..Len(s)
  BY SetStateIs
<1>3. Tamer(x, s[k].state)
  OBVIOUS
<1> HIDE DEF s, k, t
<1>4. \A n \in 1..Len(s) : s[n] \in FileRows /\ s[n].state \in RowStates
  <2>1. \A n \in 1..Len(s) : s[n] \in FileRows
    BY <1>1
  <2> QED BY <2>1 DEF FileRows
<1>5. t[k].state = x
  BY <1>2, <1>4, StateOfRow
<1>6. \A n \in 1..Len(s) : Tamer(t[n].state, s[n].state)
  BY <1>2, <1>3, <1>4, <1>5, TamerStates
<1> QED BY <1>1, <1>6 DEF Tamed, s, t

LEMMA SameTamed ==
  ASSUME NEW s \in Seq(FileRows), NEW t, Alike(t, s), SameStates(t, s)
  PROVE  Tamed(t, s)
<1>1. \A n \in 1..Len(s) : s[n].state \in RowStates
  <2>1. \A n \in 1..Len(s) : s[n] \in FileRows
    OBVIOUS
  <2> QED BY <2>1 DEF FileRows
<1> QED BY <1>1, TamerStates DEF Tamed, SameStates

TamingStages == {"snapshot", "prepare", "name", "refuse", "release", "count"}

LEMMA StagesMake ==
  ASSUME NEW id
  PROVE  /\ File!Made("snapshot", id) = File!Items
         /\ File!Made("prepare", id) = PreparedItems
         /\ File!Made("name", id) = [File!Items EXCEPT ![File!At(id)].named = TRUE]
         /\ File!Made("mark", id) = File!Sent(id)
         /\ File!Made("deliver", id) = File!Delivered(id)
         /\ File!Made("deny", id) = File!Denied(id)
         /\ File!Made("refuse", id) = File!SetState(id, RefusedState(File!Items[File!At(id)].state))
         /\ File!Made("release", id) = File!SetState(id, ReleasedState(File!Items[File!At(id)].state))
         /\ File!Made("count", id) = File!Counted(id)
<1>1. /\ File!Made("snapshot", id) = File!Items
      /\ File!Made("prepare", id) = File!SetStates(File!PreparedState)
      /\ File!Made("name", id) = [File!Items EXCEPT ![File!At(id)].named = TRUE]
  BY DEF File!Made
<1>2. /\ File!Made("mark", id) = File!Sent(id)
      /\ File!Made("deliver", id) = File!Delivered(id)
      /\ File!Made("deny", id) = File!Denied(id)
  BY DEF File!Made
<1>3. /\ File!Made("refuse", id) = File!Refused(id)
      /\ File!Made("release", id) = File!Released(id)
      /\ File!Made("count", id) = File!Counted(id)
  BY DEF File!Made
<1>4. File!Refused(id) = File!SetState(id, RefusedState(File!Items[File!At(id)].state))
  BY DEF File!Refused, RefusedState
<1>5. File!Released(id) = File!SetState(id, ReleasedState(File!Items[File!At(id)].state))
  BY DEF File!Released, ReleasedState
<1> QED BY <1>1, <1>2, <1>3, <1>4, <1>5 DEF PreparedItems

LEMMA PreparedTamed ==
  ASSUME File!Items \in Seq(FileRows)
  PROVE  /\ Tamed(PreparedItems, File!Items)
         /\ \A n \in 1..Len(File!Items) :
              /\ PreparedItems[n].state = File!PreparedState(File!Items[n])
              /\ PreparedItems[n].state.sending = File!Items[n].state.sending
              /\ PreparedItems[n].state.quarantine = "none" => File!Items[n].bank = bank
<1> DEFINE s == File!Items
           t == PreparedItems
           new == [n \in DOMAIN s |-> File!PreparedState(s[n])]
<1>1. StatesSet(t, s, new) /\ s \in Seq(FileRows)
  BY PreparedIs
<1>2. /\ \A n \in 1..Len(s) : s[n] \in FileRows
      /\ \A n \in 1..Len(s) : new[n] = File!PreparedState(s[n])
  <2>1. DOMAIN s = 1..Len(s) /\ \A n \in 1..Len(s) : s[n] \in FileRows
    BY <1>1
  <2> HIDE DEF s
  <2> QED BY <2>1
<1> HIDE DEF s, t, new
<1>3. Alike(t, s) /\ StatesAre(t, s, new)
  BY <1>1, StatesSetIs
<1>4. ASSUME NEW n \in 1..Len(s)
      PROVE  /\ t[n].state = File!PreparedState(s[n]) /\ Tamer(t[n].state, s[n].state)
             /\ t[n].state.sending = s[n].state.sending
             /\ t[n].state.quarantine = "none" => s[n].bank = bank
  <2>1. t[n].state = File!PreparedState(s[n]) /\ s[n] \in FileRows
    BY <1>2, <1>3 DEF StatesAre
  <2> QED BY <2>1, PreparedTamer
<1> QED BY <1>3, <1>4 DEF Tamed, s, t

LEMMA MadeTamed ==
  ASSUME File!Items \in Seq(FileRows), NEW do \in TamingStages, NEW id,
         do \notin {"snapshot", "prepare"} => id \in File!IdsOf(File!Items)
  PROVE  Tamed(File!Made(do, id), File!Items)
<1> DEFINE s == File!Items
           st == s[File!At(id)].state
<1>1. CASE do = "snapshot"
  <2>1. Alike(s, s) /\ SameStates(s, s)
    BY DEF Alike, SameStates
  <2>2. Tamed(s, s)
    <3>1. s \in Seq(FileRows)
      OBVIOUS
    <3> HIDE DEF s
    <3> QED BY <2>1, <3>1, SameTamed
  <2> QED BY <1>1, <2>2, StagesMake
<1>2. CASE do = "prepare"
  BY <1>2, PreparedTamed, StagesMake
<1>3. CASE do = "name"
  <2> DEFINE t == [File!Items EXCEPT ![File!At(id)].named = TRUE]
  <2>1. Alike(t, s) /\ SameStates(t, s) /\ s \in Seq(FileRows)
    BY <1>3, NamedIs
  <2>2. File!Made(do, id) = t
    BY <1>3, StagesMake
  <2> HIDE DEF s, t
  <2>3. Tamed(t, s)
    BY <2>1, SameTamed
  <2> QED BY <2>2, <2>3 DEF s
<1>4. CASE do = "count"
  <2>1. Alike(File!Counted(id), s) /\ SameStates(File!Counted(id), s) /\ s \in Seq(FileRows)
    BY <1>4, CountedIs
  <2> HIDE DEF s
  <2>2. Tamed(File!Counted(id), s)
    BY <2>1, SameTamed
  <2> QED BY <1>4, <2>2, StagesMake DEF s
<1>5. ASSUME id \in File!IdsOf(s) PROVE st \in RowStates
  <2>1. File!At(id) \in DOMAIN s
    BY <1>5, AtIs
  <2>2. s[File!At(id)] \in FileRows
    BY <2>1
  <2> QED BY <2>2 DEF FileRows
<1> DEFINE refused == RefusedState(st)
           released == ReleasedState(st)
<1>6. id \in File!IdsOf(s) =>
        /\ refused \in RowStates /\ Tamer(refused, st) /\ released \in RowStates /\ Tamer(released, st)
  <2> HIDE DEF st
  <2> QED BY <1>5, AnswerStates, TamerStates
<1>7. CASE do = "refuse"
  <2>1. refused \in RowStates /\ Tamer(refused, st)
    BY <1>6, <1>7
  <2>2. File!Made(do, id) = File!SetState(id, refused)
    BY <1>7, StagesMake
  <2> HIDE DEF refused
  <2> QED BY <1>7, <2>1, <2>2, SetStateTamed
<1>8. CASE do = "release"
  <2>1. released \in RowStates /\ Tamer(released, st)
    BY <1>6, <1>8
  <2>2. File!Made(do, id) = File!SetState(id, released)
    BY <1>8, StagesMake
  <2> HIDE DEF released
  <2> QED BY <1>8, <2>1, <2>2, SetStateTamed
<1> QED BY <1>1, <1>2, <1>3, <1>4, <1>7, <1>8 DEF TamingStages

\* A row is marked while no other is.
LEMMA SentKeeps ==
  ASSUME FileTypes, LinesInv, NEW id \in File!IdsOf(File!Items), Sending(File!Items) = {},
         \A n \in DOMAIN File!Items : File!Items[n].id = id => n \in Open(File!Items)
  PROVE  LET t == File!Sent(id) IN
           /\ Alike(t, File!Items) /\ OneSent(t) /\ SentIsOpen(t)
           /\ GateProtects(File!Items) => GateProtects(t)
           /\ OneBank(File!Items) => OneBank(t)
<1> DEFINE s == File!Items
           k == File!At(id)
           y == s[k].state
           x == [y EXCEPT !.present = TRUE, !.sending = TRUE]
           t == File!SetState(id, x)
<1>1. s \in Seq(FileRows) /\ k \in 1..Len(s) /\ s[k].id = id /\ DOMAIN s = 1..Len(s)
  BY AtIs, RowsAreRead
<1>2. k \in Open(s) /\ Sending(s) = {}
  BY <1>1
<1>3. y \in RowStates
  <2>1. s[k] \in FileRows
    BY <1>1
  <2> QED BY <2>1 DEF FileRows
<1>4. y.quarantine = "none"
  BY <1>2 DEF Open
<1>5. File!Sent(id) = t
  BY DEF File!Sent
<1>6. /\ x \in RowStates /\ x.present /\ x.sending /\ x.gate = y.gate /\ x.protected = y.protected
      /\ x.quarantine = y.quarantine
  <2> HIDE DEF y
  <2> QED BY <1>3 DEF RowStates
<1> HIDE DEF x
<1>7. Alike(t, s)
  BY <1>1, <1>6, SetStateAlike
<1>8. (\A n \in 1..Len(s) : n # k => t[n] = s[n]) /\ t[k] = [s[k] EXCEPT !.state = x]
  BY <1>1, <1>6, SetStateIs
<1> HIDE DEF t
<1>9. /\ DOMAIN t = 1..Len(s) /\ Len(t) = Len(s)
      /\ \A n \in 1..Len(s) : t[n].id = s[n].id /\ t[n].junk = s[n].junk /\ t[n].bank = s[n].bank
  BY <1>1, <1>7 DEF Alike
<1>10. t[k].state = x /\ \A n \in 1..Len(s) : n # k => t[n].state = s[n].state
  <2>1. s[k] \in FileRows
    BY <1>1
  <2> HIDE DEF s, k
  <2>2. t[k].state = x
    BY <1>6, <1>8, <2>1, StateOfRow
  <2> QED BY <1>8, <2>2
<1> HIDE DEF s, k
<1>11. Sending(t) = {k}
  BY <1>1, <1>2, <1>6, <1>9, <1>10 DEF Sending
<1>12. OneSent(t)
  BY <1>4, <1>6, <1>10, <1>11 DEF OneSent
<1>13. Open(t) = Open(s)
  <2>1. \A n \in 1..Len(s) : t[n].state.quarantine = s[n].state.quarantine
    BY <1>6, <1>10 DEF y
  <2> QED BY <1>1, <1>9, <2>1 DEF Open
<1>14. SentIsOpen(t)
  BY <1>2, <1>11, <1>13 DEF SentIsOpen
<1>15. GateProtects(s) => GateProtects(t)
  <2>1. \A n \in 1..Len(s) : /\ t[n].state.gate = s[n].state.gate
                             /\ s[n].state.present => t[n].state.present
                             /\ s[n].state.protected => t[n].state.protected
    BY <1>6, <1>10 DEF y
  <2> QED BY <1>1, <1>9, <2>1 DEF GateProtects, Gated, NoJunk
<1>16. OneBank(s) => OneBank(t)
  BY <1>1, <1>9, <1>13 DEF OneBank, Open
<1>17. Alike(t, s) /\ OneSent(t) /\ SentIsOpen(t) /\ (GateProtects(s) => GateProtects(t))
       /\ (OneBank(s) => OneBank(t))
  BY <1>7, <1>12, <1>14, <1>15, <1>16
<1> QED BY <1>5, <1>17 DEF s

\* A denial takes the marker away, and protects every row.
LEMMA DeniedKeeps ==
  ASSUME File!Items \in Seq(FileRows), NoJunk(File!Items), NEW id
  PROVE  LET t == File!Denied(id) IN
           /\ Alike(t, File!Items) /\ Sending(t) = {} /\ GateProtects(t)
           /\ OneBank(File!Items) => OneBank(t)
<1> DEFINE s == File!Items
           t == File!Denied(id)
           new == [n \in DOMAIN s |-> DeniedState(s[n], id)]
<1>1. StatesSet(t, s, new) /\ s \in Seq(FileRows) /\ NoJunk(s)
  BY DeniedIs
<1>2. /\ DOMAIN s = 1..Len(s) /\ \A n \in 1..Len(s) : s[n] \in FileRows
      /\ \A n \in 1..Len(s) : new[n] = DeniedState(s[n], id)
  <2>1. DOMAIN s = 1..Len(s) /\ \A n \in 1..Len(s) : s[n] \in FileRows
    BY <1>1
  <2> HIDE DEF s
  <2> QED BY <2>1
<1> HIDE DEF s, t, new
<1>3. Alike(t, s) /\ StatesAre(t, s, new)
  BY <1>1, StatesSetIs
<1>4. /\ DOMAIN t = 1..Len(s)
      /\ \A n \in 1..Len(s) : t[n].junk = s[n].junk /\ t[n].bank = s[n].bank
  BY <1>3 DEF Alike
<1>5. ASSUME NEW n \in 1..Len(s)
      PROVE  /\ ~t[n].state.sending /\ t[n].state.present /\ t[n].state.protected
             /\ t[n].state.quarantine = s[n].state.quarantine
  <2> DEFINE y == s[n].state
             c == File!Completed(y)
             d == File!Protected(c)
             e == [d EXCEPT !.gate = IF s[n].id = id THEN "probe" ELSE @]
  <2>1. y \in RowStates
    BY <1>2 DEF FileRows
  <2>2. t[n].state = e
    BY <1>2, <1>3 DEF StatesAre, DeniedState, Denial
  <2> HIDE DEF y
  <2>3. c \in RowStates /\ ~c.sending /\ c.quarantine = y.quarantine
    BY <2>1 DEF RowStates, File!Completed
  <2> HIDE DEF c
  <2>4. d \in RowStates /\ ~d.sending /\ d.quarantine = c.quarantine /\ d.present /\ d.protected
    BY <2>3 DEF RowStates, File!Protected
  <2> HIDE DEF d
  <2>5. ~e.sending /\ e.quarantine = d.quarantine /\ e.present /\ e.protected
    BY <2>4 DEF RowStates
  <2> HIDE DEF e
  <2> QED BY <2>2, <2>3, <2>4, <2>5 DEF y
<1>6. Sending(t) = {}
  BY <1>4, <1>5 DEF Sending
<1>7. GateProtects(t)
  BY <1>1, <1>2, <1>4, <1>5 DEF GateProtects, NoJunk
<1>8. Open(t) = Open(s)
  BY <1>2, <1>4, <1>5 DEF Open
<1>9. OneBank(s) => OneBank(t)
  BY <1>2, <1>4, <1>8 DEF OneBank, Open
<1> QED BY <1>3, <1>6, <1>7, <1>9 DEF s, t

\* A delivered row leaves the others as they are.
LEMMA DeliveredKeeps ==
  ASSUME FileTypes, LinesInv, NEW id \in File!IdsOf(File!Items)
  PROVE  LET t == File!Delivered(id) IN
           /\ t \in Seq(FileRows) /\ (id \notin acked => ItemsInv(t))
           /\ GateProtects(File!Items) => GateProtects(t)
           /\ OneBank(File!Items) => OneBank(t)
           /\ Unanswered(File!Items) = {} => Unanswered(t) = {}
<1> DEFINE s == File!Items
           k == File!At(id)
           t == File!RemoveAt(s, k)
           at(n) == IF n < k THEN n ELSE n + 1
<1>1. s \in Seq(FileRows) /\ ItemsInv(s) /\ limit \in Nat
  BY ItemsKeepAll, RowsAreRead DEF FileTypes
<1>2. k \in DOMAIN s /\ s[k].id = id
  BY AtIs
<1>3. File!Delivered(id) = t
  BY DEF File!Delivered
<1> HIDE DEF s, k
<1>4. DOMAIN s = 1..Len(s) /\ k \in 1..Len(s) /\ Len(s) \in Nat
  BY <1>1, <1>2
<1>5. /\ t \in Seq(FileRows) /\ Len(t) = Len(s) - 1
      /\ \A n \in 1..(Len(s) - 1) : t[n] = s[at(n)]
  BY <1>1, <1>4, RemoveAtIs
<1>6. Roomy(s) => Roomy(t)
  BY <1>1, <1>4, OneRowLeaves
<1> HIDE DEF t
<1>7. /\ DOMAIN t = 1..(Len(s) - 1)
      /\ \A n \in DOMAIN t : at(n) \in DOMAIN s /\ t[n] = s[at(n)]
      /\ \A m, n \in DOMAIN t : m < n => at(m) < at(n)
      /\ \A j \in DOMAIN s : j # k => \E n \in DOMAIN t : at(n) = j
  <2>1. DOMAIN t = 1..(Len(s) - 1)
    BY <1>5
  <2>2. \A n \in 1..(Len(s) - 1) : at(n) \in 1..Len(s)
    BY <1>4
  <2>3. \A m, n \in 1..(Len(s) - 1) : m < n => at(m) < at(n)
    BY <1>4
  <2>4. ASSUME NEW j \in 1..Len(s), j # k PROVE \E n \in 1..(Len(s) - 1) : at(n) = j
    <3>1. CASE j < k
      BY <1>4, <2>4, <3>1
    <3>2. CASE j > k
      <4>1. j - 1 \in 1..(Len(s) - 1) /\ at(j - 1) = j
        BY <1>4, <2>4, <3>2
      <4> QED BY <4>1
    <3> QED BY <1>4, <2>4, <3>1, <3>2
  <2> QED BY <1>4, <1>5, <2>1, <2>2, <2>3, <2>4
<1>8. \A m, n \in DOMAIN t : m = n \/ m < n \/ n < m
  BY <1>4, <1>7
<1>9. \A m, n \in DOMAIN t : at(m) = at(n) => m = n
  <2>1. \A n \in DOMAIN t : at(n) \in Int
    BY <1>4, <1>7
  <2> QED BY <1>4, <1>7
<1> HIDE DEF at
<1>10. Distinct(t) /\ NoJunk(t) /\ AllEnded(t) /\ OfGeneration(t, generation)
  <2>1. Distinct(t)
    BY <1>1, <1>7, <1>9 DEF ItemsInv, Distinct
  <2> QED BY <1>1, <1>7, <2>1 DEF ItemsInv, NoJunk, AllEnded, OfGeneration
<1>11. Ranged(t, generation, JunkRooms)
  <2>1. Ranged(s, generation, JunkRooms)
    BY <1>1 DEF ItemsInv
  <2>2. ASSUME NEW n \in DOMAIN t, NEW m \in 1..(n - 1)
        PROVE  m \in DOMAIN t /\ m < n
    BY <1>4, <1>7
  <2>3. ASSUME NEW n \in DOMAIN s, NEW m \in DOMAIN s, m < n PROVE m \in 1..(n - 1)
    BY <1>4, <2>3
  <2>4. \A n \in DOMAIN t : \A m \in 1..(n - 1) : at(m) \in 1..(at(n) - 1) /\ t[m] = s[at(m)]
    BY <1>7, <2>2, <2>3
  <2> HIDE DEF JunkRooms
  <2>5. ASSUME NEW n \in DOMAIN t, t[n].range # File!NoRange
        PROVE  LET range == t[n].range IN
                 /\ range.source \in 1..generation
                 /\ range.offset + range.length <= JunkRooms[range.source]
                 /\ \A m \in 1..(n - 1) : t[m].range.source = range.source
                      => t[m].range.offset + t[m].range.length <= range.offset
    <3>1. at(n) \in DOMAIN s /\ t[n] = s[at(n)]
      BY <1>7
    <3>2. LET range == s[at(n)].range IN
            /\ range.source \in 1..generation
            /\ range.offset + range.length <= JunkRooms[range.source]
            /\ \A m \in 1..(at(n) - 1) : s[m].range.source = range.source
                 => s[m].range.offset + s[m].range.length <= range.offset
      BY <2>1, <2>5, <3>1 DEF Ranged
    <3>3. \A m \in 1..(n - 1) : at(m) \in 1..(at(n) - 1) /\ t[m] = s[at(m)]
      BY <2>4
    <3> QED BY <3>1, <3>2, <3>3
  <2> QED BY <2>5 DEF Ranged
<1>12. OneSent(s) /\ acked \subseteq RowIds(s)
  BY <1>1 DEF ItemsInv
<1>13. \A n \in DOMAIN t : n \in Sending(t) => at(n) \in Sending(s)
  BY <1>7 DEF Sending
<1>14. OneSent(t)
  BY <1>7, <1>9, <1>12, <1>13 DEF OneSent, Sending
<1>15. id \notin acked => acked \subseteq RowIds(t)
  <2>1. SUFFICES ASSUME id \notin acked, NEW x \in acked PROVE x \in RowIds(t)
    OBVIOUS
  <2>2. PICK j \in DOMAIN s : s[j].id = x /\ ~s[j].junk
    BY <1>12, <2>1 DEF RowIds
  <2>3. PICK n \in DOMAIN t : at(n) = j
    BY <1>2, <1>7, <2>1, <2>2
  <2> QED BY <1>7, <2>2, <2>3 DEF RowIds
<1>16. id \notin acked => ItemsInv(t)
  BY <1>1, <1>6, <1>10, <1>11, <1>14, <1>15 DEF ItemsInv
<1>17. GateProtects(s) => GateProtects(t)
  BY <1>7 DEF GateProtects, Gated, NoJunk
<1>18. OneBank(s) => OneBank(t)
  BY <1>7 DEF OneBank, Open
<1>19. Unanswered(s) = {} => Unanswered(t) = {}
  BY <1>7, <1>13 DEF Unanswered, Sending
<1> QED BY <1>3, <1>5, <1>16, <1>17, <1>18, <1>19 DEF s

-----------------------------------------------------------------------------
(* The stages that are left *)

LEMMA TailIs ==
  ASSUME NEW S, NEW s \in Seq(S), s # <<>>
  PROVE  /\ Tail(s) \in Seq(S) /\ Len(Tail(s)) = Len(s) - 1 /\ Len(s) \in Nat \ {0}
         /\ DOMAIN Tail(s) = 1..(Len(s) - 1) /\ DOMAIN s = 1..Len(s)
         /\ \A k \in DOMAIN Tail(s) : Tail(s)[k] = s[k + 1] /\ k + 1 \in DOMAIN s
         /\ \A k \in DOMAIN Tail(s) : k > 1 => k - 1 \in DOMAIN Tail(s) /\ Tail(s)[k - 1] = s[k]
         /\ \A k \in DOMAIN Tail(s) : k + 1 = Len(s) => k = Len(Tail(s))
         /\ Len(s) = 1 => Tail(s) = <<>>
         /\ 1 \in DOMAIN s /\ (Tail(s) # <<>> => 1 \in DOMAIN Tail(s) /\ Tail(s)[1] = s[2])
<1>1. /\ Tail(s) \in Seq(S) /\ Len(Tail(s)) = Len(s) - 1 /\ Len(s) \in Nat \ {0}
      /\ DOMAIN Tail(s) = 1..(Len(s) - 1) /\ DOMAIN s = 1..Len(s)
      /\ \A k \in DOMAIN Tail(s) : Tail(s)[k] = s[k + 1]
  OBVIOUS
<1>2. \A k \in DOMAIN Tail(s) : k + 1 \in DOMAIN s
  BY <1>1
<1>3. ASSUME NEW k \in DOMAIN Tail(s), k > 1
      PROVE  k - 1 \in DOMAIN Tail(s) /\ Tail(s)[k - 1] = s[k]
  <2>1. k - 1 \in DOMAIN Tail(s) /\ (k - 1) + 1 = k
    BY <1>1, <1>3
  <2> QED BY <1>1, <2>1
<1>4. Tail(s) # <<>> => 1 \in DOMAIN Tail(s)
  BY <1>1
<1>5. ASSUME NEW k \in DOMAIN Tail(s), k + 1 = Len(s) PROVE k = Len(Tail(s))
  <2> DEFINE t == Tail(s)
  <2>1. Len(t) = Len(s) - 1 /\ DOMAIN t = 1..(Len(s) - 1) /\ Len(s) \in Nat
    BY <1>1
  <2>2. k \in DOMAIN t
    OBVIOUS
  <2> HIDE DEF t
  <2>3. k = Len(t)
    BY <1>5, <2>1, <2>2
  <2> QED BY <2>3 DEF t
<1>6. Len(s) = 1 => Tail(s) = <<>>
  <2> DEFINE t == Tail(s)
  <2>1. t \in Seq(S) /\ Len(t) = Len(s) - 1
    BY <1>1
  <2> HIDE DEF t
  <2>2. Len(s) = 1 => t = <<>>
    BY <2>1
  <2> QED BY <2>2 DEF t
<1> QED BY <1>1, <1>2, <1>3, <1>4, <1>5, <1>6

LEMMA AfterShifts ==
  ASSUME NEW todo \in Seq(FileStages), todo # <<>>, NEW do, NEW prior, After(todo, do, prior)
  PROVE  After(Tail(todo), do, prior)
<1> SUFFICES ASSUME NEW k \in DOMAIN Tail(todo), Tail(todo)[k][1] = do, k > 1
             PROVE  Tail(todo)[k - 1][1] = prior
  BY DEF After
<1>1. /\ Tail(todo)[k] = todo[k + 1] /\ k + 1 \in DOMAIN todo /\ Tail(todo)[k - 1] = todo[k]
      /\ k \in Int
  BY TailIs
<1>2. k + 1 > 1 /\ (k + 1) - 1 = k
  BY <1>1
<1> QED BY <1>1, <1>2 DEF After

LEMMA OneOfShifts ==
  ASSUME NEW todo \in Seq(FileStages), todo # <<>>, NEW names, OneOf(todo, names)
  PROVE  OneOf(Tail(todo), names) /\ todo[1][1] \in names
BY TailIs DEF OneOf

LEMMA EnqueueShifts ==
  ASSUME NEW todo \in Seq(FileStages), todo # <<>>, NEW f, EnqueueStages(todo, f)
  PROVE  EnqueueStages(Tail(todo), f)
<1>1. OneOf(Tail(todo), {"snapshot", "prepare", "append"})
  BY OneOfShifts DEF EnqueueStages
<1>2. After(Tail(todo), "prepare", "snapshot") /\ After(Tail(todo), "append", "prepare")
  BY AfterShifts DEF EnqueueStages
<1>3. ASSUME NEW j \in DOMAIN Tail(todo), NEW k \in DOMAIN Tail(todo),
             Tail(todo)[j][1] = "append", Tail(todo)[k][1] = "append"
      PROVE  j = k
  <2>1. /\ Tail(todo)[j] = todo[j + 1] /\ j + 1 \in DOMAIN todo /\ j \in Int
        /\ Tail(todo)[k] = todo[k + 1] /\ k + 1 \in DOMAIN todo /\ k \in Int
    BY TailIs
  <2>2. j + 1 = k + 1
    BY <1>3, <2>1 DEF EnqueueStages
  <2> QED BY <2>1, <2>2
<1>4. ASSUME NEW k \in DOMAIN Tail(todo), Tail(todo)[k][1] = "append"
      PROVE  \E n \in NewRows, b \in Banks :
               /\ Tail(todo)[k][2] = File!Row(<<n>>, RowBytes, b)
               /\ <<n>> \notin File!IdsOf(f) /\ <<"torn", <<n>>>> \notin File!IdsOf(f)
  <2>1. Tail(todo)[k] = todo[k + 1] /\ k + 1 \in DOMAIN todo
    BY TailIs
  <2> QED BY <1>4, <2>1 DEF EnqueueStages
<1> QED BY <1>1, <1>2, <1>3, <1>4 DEF EnqueueStages

LEMMA FlushShifts ==
  ASSUME NEW todo \in Seq(FileStages), todo # <<>>, FlushStages(todo)
  PROVE  FlushStages(Tail(todo))
<1>1. OneOf(Tail(todo), {"snapshot", "prepare", "flush"})
  BY OneOfShifts DEF FlushStages
<1>2. After(Tail(todo), "prepare", "snapshot") /\ After(Tail(todo), "flush", "prepare")
  BY AfterShifts DEF FlushStages
<1>3. ASSUME NEW k \in DOMAIN Tail(todo), Tail(todo)[k][1] = "flush"
      PROVE  k = Len(Tail(todo)) /\ ~flushing
  <2>1. /\ Tail(todo)[k] = todo[k + 1] /\ k + 1 \in DOMAIN todo /\ k \in Int
        /\ Len(Tail(todo)) = Len(todo) - 1 /\ Len(todo) \in Int
    BY TailIs
  <2>2. k + 1 = Len(todo) /\ ~flushing
    BY <1>3, <2>1 DEF FlushStages
  <2> QED BY <2>2, TailIs
<1> QED BY <1>1, <1>2, <1>3 DEF FlushStages

LEMMA MarkShifts ==
  ASSUME NEW todo \in Seq(FileStages), todo # <<>>, NEW f, MarkStages(todo, f)
  PROVE  MarkStages(Tail(todo), f)
<1>1. OneOf(Tail(todo), {"snapshot", "name", "mark"})
  BY OneOfShifts DEF MarkStages
<1>2. ASSUME NEW k \in DOMAIN Tail(todo)
      PROVE  /\ Tail(todo)[k][1] # "snapshot" => Tail(todo)[k][2] \in RowIds(f)
             /\ Tail(todo)[k][1] = "mark" =>
                  /\ k = Len(Tail(todo)) /\ flushing /\ Sending(f) = {}
                  /\ \A n \in DOMAIN f : f[n].id = Tail(todo)[k][2] => n \in Open(f)
  <2>1. /\ Tail(todo)[k] = todo[k + 1] /\ k + 1 \in DOMAIN todo /\ k \in Int
        /\ Len(Tail(todo)) = Len(todo) - 1 /\ Len(todo) \in Int
    BY TailIs
  <2>2. k + 1 = Len(todo) => k = Len(Tail(todo))
    BY TailIs
  <2> QED BY <2>1, <2>2 DEF MarkStages
<1> QED BY <1>1, <1>2 DEF MarkStages

LEMMA AnswerShifts ==
  ASSUME NEW todo \in Seq(FileStages), todo # <<>>, NEW f, AnswerStages(todo, f)
  PROVE  AnswerStages(Tail(todo), f)
<1>1. OneOf(Tail(todo), {"deliver", "deny", "refuse", "release", "count"})
  BY OneOfShifts DEF AnswerStages
<1>2. ASSUME NEW k \in DOMAIN Tail(todo)
      PROVE  /\ Tail(todo)[k][1] = "deliver" => k = Len(Tail(todo))
             /\ Tail(todo)[k][2] \in RowIds(f)
             /\ Tail(todo)[k][1] = "deliver" => Tail(todo)[k][2] \notin acked
  <2>1. /\ Tail(todo)[k] = todo[k + 1] /\ k + 1 \in DOMAIN todo /\ k \in Int
        /\ Len(Tail(todo)) = Len(todo) - 1 /\ Len(todo) \in Int
    BY TailIs
  <2>2. k + 1 = Len(todo) => k = Len(Tail(todo))
    BY TailIs
  <2> QED BY <2>1, <2>2 DEF AnswerStages
<1> QED BY <1>1, <1>2 DEF AnswerStages

\* What is left of an operation's stages may be done to the same file.
LEMMA StagesShift ==
  ASSUME NEW todo \in Seq(FileStages), todo # <<>>, NEW f, StagesOk(todo, f)
  PROVE  StagesOk(Tail(todo), f)
BY EnqueueShifts, FlushShifts, MarkShifts, AnswerShifts DEF StagesOk

LEMMA NoStages ==
  ASSUME NEW f
  PROVE  StagesOk(<<>>, f)
<1> DEFINE none == <<>>
<1>1. DOMAIN none = {}
  OBVIOUS
<1> HIDE DEF none
<1>2. FlushStages(none)
  BY <1>1 DEF FlushStages, OneOf, After
<1> QED BY <1>2 DEF StagesOk, none

-----------------------------------------------------------------------------
(* A stage that is done *)

Doing(do, id) ==
  /\ FileTypes /\ LinesInv /\ NextInv /\ op.point = "next"
  /\ do = op.todo[1][1] /\ id = op.todo[1][2] /\ do \notin {"append", "flush"}

LEMMA DoingIs ==
  ASSUME NEW do, NEW id, Doing(do, id)
  PROVE  /\ op.todo \in Seq(FileStages) /\ op.todo # <<>> /\ StagesOk(op.todo, lines)
         /\ do \in TamingStages \cup {"mark", "deliver", "deny"}
         /\ do \notin {"snapshot", "prepare"} => id \in RowIds(lines) /\ id \in File!IdsOf(File!Items)
         /\ File!Items \in Seq(FileRows)
<1>1. op.todo \in Seq(FileStages) /\ op.todo # <<>> /\ StagesOk(op.todo, lines)
  BY DEF Doing, NextInv, FileTypes
<1>2. 1 \in DOMAIN op.todo
  BY <1>1, TailIs
<1> DEFINE known == do \in TamingStages \cup {"mark", "deliver", "deny"}
           named == do \notin {"snapshot", "prepare"} => id \in RowIds(lines)
<1>3. ASSUME EnqueueStages(op.todo, lines) \/ FlushStages(op.todo) PROVE known /\ named
  <2>1. do \in {"snapshot", "prepare"}
    BY <1>2, <1>3 DEF EnqueueStages, FlushStages, OneOf, Doing
  <2> QED BY <2>1 DEF TamingStages
<1>4. ASSUME MarkStages(op.todo, lines) PROVE known /\ named
  <2>1. do \in {"snapshot", "name", "mark"} /\ (do # "snapshot" => id \in RowIds(lines))
    BY <1>2, <1>4 DEF MarkStages, OneOf, Doing
  <2> QED BY <2>1 DEF TamingStages
<1>5. ASSUME AnswerStages(op.todo, lines) PROVE known /\ named
  <2>1. do \in {"deliver", "deny", "refuse", "release", "count"} /\ id \in RowIds(lines)
    BY <1>2, <1>5 DEF AnswerStages, OneOf, Doing
  <2> QED BY <2>1 DEF TamingStages
<1>6. RowIds(lines) \subseteq File!IdsOf(File!Items) /\ File!Items \in Seq(FileRows)
  BY ItemsIds, RowsAreRead DEF Doing
<1> QED BY <1>1, <1>3, <1>4, <1>5, <1>6 DEF StagesOk

\* The row to be marked is open, and none is marked.
LEMMA MarkIs ==
  ASSUME NEW id, Doing("mark", id)
  PROVE  /\ flushing /\ Sending(lines) = {} /\ Sending(File!Items) = {} /\ Tail(op.todo) = <<>>
         /\ \A n \in DOMAIN File!Items : File!Items[n].id = id => n \in Open(File!Items)
<1>1. op.todo \in Seq(FileStages) /\ op.todo # <<>> /\ StagesOk(op.todo, lines)
      /\ id \in RowIds(lines) /\ op.todo[1][1] = "mark" /\ op.todo[1][2] = id
  BY DoingIs DEF Doing
<1>2. 1 \in DOMAIN op.todo
  BY <1>1, TailIs
<1>3. MarkStages(op.todo, lines)
  BY <1>1, <1>2 DEF StagesOk, EnqueueStages, FlushStages, AnswerStages, OneOf
<1>4. /\ 1 = Len(op.todo) /\ flushing /\ Sending(lines) = {}
      /\ \A n \in DOMAIN lines : lines[n].id = id => n \in Open(lines)
  BY <1>1, <1>2, <1>3 DEF MarkStages
<1>5. Tail(op.todo) = <<>>
  BY <1>1, <1>4, TailIs
<1>6. Sending(File!Items) = {}
  BY <1>4, ItemsStates DEF Doing
<1>7. ASSUME NEW n \in DOMAIN File!Items, File!Items[n].id = id
      PROVE  n \in Open(File!Items)
  <2>1. PICK m \in DOMAIN lines : lines[m].id = id
    BY <1>1 DEF RowIds
  <2>2. m \in Open(lines)
    BY <1>4, <2>1
  <2> QED BY <1>7, <2>1, <2>2, ItemsStates DEF Doing
<1> QED BY <1>4, <1>5, <1>6, <1>7

\* An answer is recorded for a row that is not acknowledged any more.
LEMMA AnswerIs ==
  ASSUME NEW do, NEW id, Doing(do, id), do \in {"deliver", "deny", "refuse", "release", "count"}
  PROVE  /\ AnswerStages(op.todo, lines) /\ Unanswered(lines) = {} /\ Unanswered(File!Items) = {}
         /\ do = "deliver" => Tail(op.todo) = <<>> /\ id \notin acked
<1>1. op.todo \in Seq(FileStages) /\ op.todo # <<>> /\ StagesOk(op.todo, lines)
      /\ op.todo[1][1] = do /\ op.todo[1][2] = id
  BY DoingIs DEF Doing
<1>2. 1 \in DOMAIN op.todo
  BY <1>1, TailIs
<1>3. AnswerStages(op.todo, lines)
  BY <1>1, <1>2 DEF StagesOk, EnqueueStages, FlushStages, MarkStages, OneOf
<1>4. Unanswered(lines) = {} /\ (do = "deliver" => 1 = Len(op.todo) /\ id \notin acked)
  BY <1>1, <1>2, <1>3 DEF AnswerStages
<1>5. 1 = Len(op.todo) => Tail(op.todo) = <<>>
  BY <1>1, TailIs
<1>6. Unanswered(File!Items) = {}
  BY <1>4, ItemsStates DEF Doing
<1> QED BY <1>3, <1>4, <1>5, <1>6

\* What a stage makes of the rows, together.
LEMMA MadeKeeps ==
  ASSUME NEW do, NEW id, Doing(do, id)
  PROVE  LET t == File!Made(do, id) IN
           /\ t \in Seq(FileRows) /\ ItemsInv(t)
           /\ do # "deliver" => Alike(t, File!Items)
           /\ GateProtects(File!Items) => GateProtects(t)
           /\ OneBank(File!Items) => OneBank(t)
           /\ do # "mark" /\ Unanswered(File!Items) = {} => Unanswered(t) = {}
           /\ do \in TamingStages => Tamed(t, File!Items)
           /\ do = "mark" => SentIsOpen(t)
<1> DEFINE t == File!Made(do, id)
           s == File!Items
<1>1. /\ s \in Seq(FileRows) /\ FileTypes /\ LinesInv /\ OneSent(s) /\ NoJunk(s)
      /\ do \in TamingStages \cup {"mark", "deliver", "deny"}
      /\ do \notin {"snapshot", "prepare"} => id \in File!IdsOf(s)
  BY DoingIs, ItemsStates, ItemsDistinct DEF Doing
<1>2. CASE do \in TamingStages
  <2>1. Tamed(t, s)
    BY <1>1, <1>2, MadeTamed
  <2> HIDE DEF t
  <2>2. /\ OneSent(t) /\ (GateProtects(s) => GateProtects(t)) /\ (OneBank(s) => OneBank(t))
        /\ (Unanswered(s) = {} => Unanswered(t) = {})
    <3> HIDE DEF s
    <3> QED BY <1>1, <2>1, TamedKeeps
  <2>3. Alike(t, s) /\ t \in Seq(FileRows)
    BY <2>1 DEF Tamed, Alike
  <2>4. ItemsInv(t)
    BY <1>1, <2>2, <2>3, AlikeKeeps
  <2>5. do # "mark"
    BY <1>2 DEF TamingStages
  <2> QED BY <2>1, <2>2, <2>3, <2>4, <2>5 DEF t
<1>3. CASE do = "mark"
  <2>1. t = File!Sent(id)
    BY <1>3, StagesMake
  <2>2. Sending(s) = {} /\ \A n \in DOMAIN s : s[n].id = id => n \in Open(s)
    BY <1>3, MarkIs
  <2> HIDE DEF t
  <2>3. /\ Alike(t, s) /\ OneSent(t) /\ SentIsOpen(t)
        /\ GateProtects(s) => GateProtects(t)
        /\ OneBank(s) => OneBank(t)
    BY <1>1, <1>3, <2>1, <2>2, SentKeeps
  <2>4. ItemsInv(t) /\ t \in Seq(FileRows)
    BY <1>1, <2>3, AlikeKeeps DEF Alike
  <2>5. do \notin TamingStages
    BY <1>3 DEF TamingStages
  <2> QED BY <1>3, <2>3, <2>4, <2>5 DEF t
<1>4. CASE do = "deny"
  <2>1. t = File!Denied(id)
    BY <1>4, StagesMake
  <2> HIDE DEF t
  <2>2. Alike(t, s) /\ Sending(t) = {} /\ GateProtects(t) /\ (OneBank(s) => OneBank(t))
    BY <1>1, <2>1, DeniedKeeps
  <2>3. OneSent(t) /\ Unanswered(t) = {}
    BY <2>2 DEF OneSent, Unanswered
  <2>4. ItemsInv(t) /\ t \in Seq(FileRows)
    BY <1>1, <2>2, <2>3, AlikeKeeps DEF Alike
  <2>5. do \notin TamingStages
    BY <1>4 DEF TamingStages
  <2> QED BY <1>4, <2>2, <2>3, <2>4, <2>5 DEF t
<1>5. CASE do = "deliver"
  <2>1. t = File!Delivered(id)
    BY <1>5, StagesMake
  <2>2. id \notin acked
    BY <1>5, AnswerIs
  <2> HIDE DEF t
  <2>3. /\ t \in Seq(FileRows) /\ ItemsInv(t)
        /\ GateProtects(s) => GateProtects(t)
        /\ OneBank(s) => OneBank(t)
        /\ Unanswered(s) = {} => Unanswered(t) = {}
    BY <1>1, <1>5, <2>1, <2>2, DeliveredKeeps
  <2>4. do \notin TamingStages
    BY <1>5 DEF TamingStages
  <2> QED BY <1>5, <2>3, <2>4 DEF t
<1> QED BY <1>1, <1>2, <1>3, <1>4, <1>5

\* The names of a row to be appended are not those of a barrier.
LEMMA BarriersAreTriples ==
  ASSUME NEW g \in Nat, NEW id \in BarrierIds(g)
  PROVE  \E a, b : id = <<"corrupt", a, b>>
BY DEF BarrierIds

LEMMA TornNamesDiffer ==
  ASSUME NEW x, NEW g, NEW m
  PROVE  <<"torn", x>> # <<"corrupt", g, m>>
<1>1. Len(<<"torn", x>>) = 2 /\ Len(<<"corrupt", g, m>>) = 3
  OBVIOUS
<1> QED BY <1>1

LEMMA NewNamesDiffer ==
  ASSUME NEW n \in NewRows, NEW g \in Nat
  PROVE  <<n>> \notin BarrierIds(g) /\ <<"torn", <<n>>>> \notin BarrierIds(g)
<1>1. <<n>> \in RowNames
  BY DEF RowNames
<1>2. <<n>> \notin BarrierIds(g)
  BY <1>1, NamesDiffer, BarriersAreTriples
<1>3. <<"torn", <<n>>>> \notin BarrierIds(g)
  BY TornNamesDiffer, BarriersAreTriples
<1> QED BY <1>2, <1>3

\* A file with no more ids, but for barriers, leaves room for the row.
LEMMA EnqueueMoves ==
  ASSUME FileTypes, NEW todo, NEW f, EnqueueStages(todo, lines),
         File!IdsOf(f) \subseteq RowIds(lines) \cup BarrierIds(generation)
  PROVE  EnqueueStages(todo, f)
<1>1. generation \in Nat
  BY RouterConstants DEF FileTypes, File!QueueFileConstants
<1>2. RowIds(lines) \subseteq File!IdsOf(lines)
  BY DEF RowIds, File!IdsOf
<1>3. ASSUME NEW k \in DOMAIN todo, todo[k][1] = "append"
      PROVE  \E n \in NewRows, b \in Banks :
               /\ todo[k][2] = File!Row(<<n>>, RowBytes, b)
               /\ <<n>> \notin File!IdsOf(f) /\ <<"torn", <<n>>>> \notin File!IdsOf(f)
  <2>1. PICK n \in NewRows, b \in Banks :
          /\ todo[k][2] = File!Row(<<n>>, RowBytes, b)
          /\ <<n>> \notin File!IdsOf(lines) /\ <<"torn", <<n>>>> \notin File!IdsOf(lines)
    BY <1>3 DEF EnqueueStages
  <2>2. <<n>> \notin File!IdsOf(f) /\ <<"torn", <<n>>>> \notin File!IdsOf(f)
    BY <1>1, <1>2, <2>1, NewNamesDiffer
  <2> QED BY <2>1, <2>2
<1> QED BY <1>3 DEF EnqueueStages

\* The rows of the file are all there, and those that are sent or closed, too.
LEMMA MarkMoves ==
  ASSUME NEW todo, NEW f, MarkStages(todo, lines), RowIds(lines) \subseteq RowIds(f),
         Sending(lines) = {} => Sending(f) = {},
         \A n \in DOMAIN f : \A m \in Open(lines) : f[n].id = lines[m].id => n \in Open(f)
  PROVE  MarkStages(todo, f)
<1>1. ASSUME NEW k \in DOMAIN todo, todo[k][1] = "mark", NEW n \in DOMAIN f, f[n].id = todo[k][2]
      PROVE  n \in Open(f)
  <2>1. todo[k][2] \in RowIds(lines)
    <3>1. todo[k][1] # "snapshot"
      BY <1>1
    <3> QED BY <3>1 DEF MarkStages
  <2>2. PICK m \in DOMAIN lines : lines[m].id = todo[k][2]
    BY <2>1 DEF RowIds
  <2>3. m \in Open(lines)
    BY <1>1, <2>2 DEF MarkStages
  <2> QED BY <1>1, <2>2, <2>3
<1> QED BY <1>1 DEF MarkStages

LEMMA AnswerMoves ==
  ASSUME NEW todo, NEW f, AnswerStages(todo, lines), RowIds(lines) \subseteq RowIds(f),
         Unanswered(f) = {}
  PROVE  AnswerStages(todo, f)
BY DEF AnswerStages

\* The stages that are left may be done to what this one makes.
LEMMA StagesAfter ==
  ASSUME NEW do, NEW id, Doing(do, id)
  PROVE  StagesOk(Tail(op.todo), File!Made(do, id)) /\ StagesOk(Tail(op.todo), lines)
<1> DEFINE t == File!Made(do, id)
           s == File!Items
           todo == Tail(op.todo)
<1>1. /\ op.todo \in Seq(FileStages) /\ op.todo # <<>> /\ StagesOk(op.todo, lines)
      /\ do \in TamingStages \cup {"mark", "deliver", "deny"} /\ FileTypes /\ LinesInv
      /\ s \in Seq(FileRows)
  BY DoingIs DEF Doing
<1>2. StagesOk(todo, lines)
  BY <1>1, StagesShift
<1>3. CASE do \in {"mark", "deliver"}
  <2>1. todo = <<>>
    BY <1>3, MarkIs, AnswerIs
  <2> QED BY <1>2, <2>1, NoStages
<1>4. CASE do \notin {"mark", "deliver"}
  <2>1. Alike(t, s) /\ OneSent(t)
    BY <1>4, MadeKeeps DEF ItemsInv
  <2>2. do \in TamingStages => Tamed(t, s)
    BY MadeKeeps
  <2>3. do \in {"deny", "refuse", "release", "count"} =>
          AnswerStages(op.todo, lines) /\ Unanswered(s) = {}
    BY AnswerIs
  <2>4. Unanswered(s) = {} => Unanswered(t) = {}
    BY <1>4, MadeKeeps
  <2> HIDE DEF t
  <2>5. File!IdsOf(t) = File!IdsOf(s) /\ RowIds(t) = RowIds(s)
    BY <1>1, <2>1, AlikeKeeps
  <2>6. /\ RowIds(lines) \subseteq RowIds(t)
        /\ File!IdsOf(t) \subseteq RowIds(lines) \cup BarrierIds(generation)
    BY <1>1, <2>5, ItemsIds
  <2>7. CASE EnqueueStages(op.todo, lines)
    <3>1. EnqueueStages(todo, lines)
      BY <1>1, <2>7, EnqueueShifts
    <3> HIDE DEF todo
    <3>2. EnqueueStages(todo, t)
      BY <1>1, <2>6, <3>1, EnqueueMoves
    <3> QED BY <1>2, <3>2 DEF StagesOk, t, todo
  <2>8. CASE FlushStages(op.todo)
    <3>1. FlushStages(todo)
      BY <1>1, <2>8, FlushShifts
    <3> QED BY <1>2, <3>1 DEF StagesOk, t
  <2>9. CASE MarkStages(op.todo, lines)
    <3>1. MarkStages(todo, lines)
      BY <1>1, <2>9, MarkShifts
    <3>2. do \in {"snapshot", "name"}
      <4>1. 1 \in DOMAIN op.todo
        BY <1>1, TailIs
      <4> QED BY <1>4, <2>9, <4>1 DEF MarkStages, OneOf, Doing
    <3>3. SameStates(t, s)
      <4>1. CASE do = "snapshot"
        <5>1. t = s
          BY <4>1, StagesMake DEF t
        <5> QED BY <5>1 DEF SameStates
      <4>2. CASE do = "name"
        <5>1. t = [File!Items EXCEPT ![File!At(id)].named = TRUE]
          BY <4>2, StagesMake DEF t
        <5>2. id \in File!IdsOf(File!Items)
          BY <4>2, DoingIs
        <5> QED BY <1>1, <5>1, <5>2, NamedIs
      <4> QED BY <3>2, <4>1, <4>2
    <3>4. /\ DOMAIN t = DOMAIN s
          /\ \A n \in DOMAIN s : t[n].id = s[n].id /\ t[n].junk = s[n].junk /\ t[n].state = s[n].state
      <4> HIDE DEF s
      <4>1. DOMAIN t = 1..Len(s) /\ DOMAIN s = 1..Len(s)
        BY <1>1, <2>1 DEF Alike
      <4> QED BY <2>1, <3>3, <4>1 DEF Alike, SameStates
    <3>5. /\ Sending(lines) = {} => Sending(s) = {}
          /\ \A n \in DOMAIN s : \A m \in DOMAIN lines :
               m \in Open(lines) /\ s[n].id = lines[m].id => n \in Open(s)
      BY <1>1, ItemsStates
    <3>6. Open(lines) \subseteq DOMAIN lines
      BY DEF Open
    <3>7. /\ Sending(lines) = {} => Sending(t) = {}
          /\ \A n \in DOMAIN t : \A m \in Open(lines) : t[n].id = lines[m].id => n \in Open(t)
      <4> HIDE DEF s
      <4>1. Sending(t) = Sending(s)
        BY <3>4 DEF Sending
      <4>2. Open(t) = Open(s)
        BY <3>4 DEF Open
      <4> QED BY <3>4, <3>5, <3>6, <4>1, <4>2
    <3> HIDE DEF todo
    <3>8. MarkStages(todo, t)
      BY <2>6, <3>1, <3>7, MarkMoves
    <3> QED BY <1>2, <3>8 DEF StagesOk, t, todo
  <2>10. CASE AnswerStages(op.todo, lines)
    <3>1. AnswerStages(todo, lines)
      BY <1>1, <2>10, AnswerShifts
    <3>2. do \in {"deny", "refuse", "release", "count"}
      <4>1. 1 \in DOMAIN op.todo
        BY <1>1, TailIs
      <4> QED BY <1>4, <2>10, <4>1 DEF AnswerStages, OneOf, Doing
    <3>3. Unanswered(t) = {}
      BY <2>3, <2>4, <3>2 DEF t
    <3> HIDE DEF todo
    <3>4. AnswerStages(todo, t)
      BY <2>6, <3>1, <3>3, AnswerMoves
    <3> QED BY <1>2, <3>4 DEF StagesOk, t, todo
  <2> QED BY <1>1, <2>7, <2>8, <2>9, <2>10 DEF StagesOk
<1> QED BY <1>3, <1>4

\* The same of a line that is repaired before a row is appended.
LEMMA StagesRepaired ==
  ASSUME FileTypes, LinesInv, NextInv, op.point = "next", op.todo[1][1] = "append"
  PROVE  StagesOk(op.todo, File!Items)
<1>1. op.todo \in Seq(FileStages) /\ op.todo # <<>> /\ StagesOk(op.todo, lines)
  BY DEF NextInv, FileTypes
<1>2. 1 \in DOMAIN op.todo
  BY <1>1, TailIs
<1>3. EnqueueStages(op.todo, lines)
  BY <1>1, <1>2 DEF StagesOk, FlushStages, MarkStages, AnswerStages, OneOf
<1>4. EnqueueStages(op.todo, File!Items)
  BY <1>3, ItemsIds, EnqueueMoves
<1> QED BY <1>4 DEF StagesOk

-----------------------------------------------------------------------------
(* The room an operation leaves *)

LEMMA HeadroomIsKnown ==
  ASSUME NEW t \in Seq(FileRows)
  PROVE  File!ReplayOutcomeHeadroom(t) \in Int /\ (SentIsOpen(t) => HasHeadroom(t, File!ReplayOutcomeHeadroom(t)))
<1>1. File!ReplayOutcomeHeadroom(t) \in Int
  BY HeadroomIs
<1> HIDE DEF File!ReplayOutcomeHeadroom
<1> QED BY <1>1 DEF HasHeadroom

\* Where the rows are of one bank, a change of the bank moves all or none of
\* the open ones; the gate protects them already.
LEMMA PreparedRoom ==
  ASSUME File!Items \in Seq(FileRows), OneSent(File!Items), NoJunk(File!Items),
         GateProtects(File!Items), OneBank(File!Items), SentIsOpen(File!Items),
         Unanswered(File!Items) # {}, File!Changed(PreparedItems) # {}
  PROVE  HasHeadroom(PreparedItems, File!Reserved("prepare", PreparedItems))
<1> DEFINE s == File!Items
           t == PreparedItems
<1>1. PICK m : m \in Unanswered(s)
  OBVIOUS
<1>2. /\ m \in Sending(s) /\ m \in DOMAIN s /\ s[m].state.sending
      /\ s \in Seq(FileRows) /\ DOMAIN s = 1..Len(s)
  BY <1>1 DEF Unanswered, Sending
<1>3. /\ Tamed(t, s) /\ Alike(t, s)
      /\ \A n \in 1..Len(s) : /\ t[n].state = File!PreparedState(s[n])
                              /\ t[n].state.sending = s[n].state.sending
                              /\ t[n].state.quarantine = "none" => s[n].bank = bank
  BY PreparedTamed DEF Tamed
<1>4. \A n \in DOMAIN s : n \in Open(s) <=> s[n].state.quarantine = "none"
  BY DEF Open, NoJunk
<1>5. t \in Seq(FileRows) /\ DOMAIN t = DOMAIN s
      /\ \A n \in DOMAIN s : t[n].junk = s[n].junk /\ t[n].bank = s[n].bank
  <2> HIDE DEF s, t
  <2>1. t \in Seq(FileRows) /\ DOMAIN t = 1..Len(s)
    BY <1>3 DEF Alike
  <2> QED BY <1>2, <1>3, <2>1 DEF Alike
\* A row keeps its state unless it is of another bank and open.
<1>6. ASSUME NEW n \in DOMAIN s, ~(s[n].state.quarantine = "none" /\ s[n].bank # bank)
      PROVE  t[n] = s[n]
  <2> DEFINE y == s[n].state
             gated == \E k \in DOMAIN s : s[k].state.gate # "none"
             p == IF gated THEN File!Protected(y) ELSE y
  <2>1. y \in RowStates
    <3>1. s[n] \in FileRows
      BY <1>2
    <3> QED BY <3>1 DEF FileRows
  <2>2. gated => y.present /\ y.protected
    BY DEF GateProtects, Gated
  <2>3. p = y
    <3>1. y.present /\ y.protected => File!Protected(y) = y
      <4> HIDE DEF y
      <4> QED BY <2>1 DEF RowStates, File!Protected
    <3> QED BY <2>2, <3>1
  <2>4. File!PreparedState(s[n]) = IF p.quarantine = "none" /\ s[n].bank # bank THEN File!Mismatched(p) ELSE p
    BY DEF File!PreparedState
  <2>5. File!PreparedState(s[n]) = y
    BY <1>6, <2>3, <2>4
  <2>6. t[n] = [s[n] EXCEPT !.state = File!PreparedState(s[n])]
    <3>1. n \in DOMAIN File!Items
      OBVIOUS
    <3> QED BY <3>1 DEF PreparedItems, File!SetStates
  <2>7. [s[n] EXCEPT !.state = y] = s[n]
    <3>1. s[n] \in FileRows
      BY <1>2
    <3> HIDE DEF s
    <3> QED BY <3>1 DEF FileRows
  <2> QED BY <2>5, <2>6, <2>7
<1>7. PICK n \in DOMAIN s : t[n] # s[n]
  <2>1. PICK n : n \in File!Changed(PreparedItems)
    OBVIOUS
  <2> QED BY <1>5, <2>1 DEF File!Changed
<1>8. n \in Open(s) /\ s[n].bank # bank
  BY <1>4, <1>6, <1>7
<1>9. PICK b \in Banks : \A k \in Open(s) : s[k].bank = b
  BY DEF OneBank
<1>10. b # bank /\ m \in Open(s) /\ s[m].bank # bank /\ Open(s) \subseteq DOMAIN s
  BY <1>2, <1>8, <1>9 DEF SentIsOpen, Open
<1>11. t[m] # s[m]
  BY <1>2, <1>3, <1>4, <1>10
<1> HIDE DEF s, t
<1>12. Open(t) = {}
  <2> SUFFICES ASSUME NEW k \in DOMAIN t, ~t[k].junk, t[k].state.quarantine = "none" PROVE FALSE
    BY DEF Open
  <2>1. k \in 1..Len(s) /\ s[k].bank = bank
    BY <1>2, <1>3, <1>5
  <2>2. Tamer(t[k].state, s[k].state)
    BY <1>3, <2>1 DEF Tamed
  <2>3. k \in Open(s)
    BY <1>2, <1>4, <2>1, <2>2 DEF Tamer
  <2> QED BY <1>9, <1>10, <2>1, <2>3
<1>13. SentIsOpen(t)
  BY <1>12 DEF SentIsOpen
<1>14. File!Reserved("prepare", t) = File!ReplayOutcomeHeadroom(t)
  <2>1. m \in DOMAIN t /\ t[m] # s[m] /\ t[m].state.sending
    BY <1>2, <1>3, <1>5, <1>11
  <2>2. \E k \in File!Changed(t) : t[k].state.sending
    <3>1. m \in File!Changed(t)
      BY <2>1 DEF File!Changed, s
    <3> QED BY <2>1, <3>1
  <2> QED BY <2>2 DEF File!Reserved
<1>15. HasHeadroom(t, File!ReplayOutcomeHeadroom(t))
  BY <1>5, <1>13, HeadroomIsKnown
<1> QED BY <1>14, <1>15 DEF t

\* A flush goes on with the rows of one bank.
LEMMA PreparedOneBank ==
  ASSUME FileTypes, LinesInv
  PROVE  /\ OneBank(PreparedItems)
         /\ File!Changed(PreparedItems) = {} => OneBank(lines)
<1> DEFINE s == File!Items
           t == PreparedItems
<1>1. s \in Seq(FileRows) /\ bank \in Banks
  BY RowsAreRead DEF FileTypes
<1>2. /\ Tamed(t, s) /\ Alike(t, s)
      /\ \A n \in 1..Len(s) : t[n].state.quarantine = "none" => s[n].bank = bank
  BY <1>1, PreparedTamed DEF Tamed
<1>3. File!Changed(t) = {} => \A n \in DOMAIN t : t[n] = s[n]
  BY DEF File!Changed
<1> HIDE DEF s, t
<1>4. DOMAIN t = 1..Len(s) /\ DOMAIN s = 1..Len(s) /\ \A n \in 1..Len(s) : t[n].bank = s[n].bank
  BY <1>1, <1>2 DEF Alike
<1>5. OneBank(t)
  BY <1>1, <1>2, <1>4 DEF OneBank, Open
<1>6. File!Changed(t) = {} => OneBank(s)
  BY <1>3, <1>4, <1>5 DEF OneBank, Open
<1> QED BY <1>5, <1>6, ItemsStates DEF s, t

\* The room that is left suffices for what a stage makes of the rows.
LEMMA MadeRoom ==
  ASSUME NEW do, NEW id, Doing(do, id), RoomLeft
  PROVE  LET t == File!Made(do, id) IN
           File!NothingToDo(do, t) \/ PendingRoom(t, File!Reserved(do, t))
<1> DEFINE t == File!Made(do, id)
           s == File!Items
           r == File!Reserved(do, t)
<1>1. /\ t \in Seq(FileRows) /\ ItemsInv(t) /\ s \in Seq(FileRows) /\ FileTypes /\ LinesInv
      /\ GateProtects(s) => GateProtects(t)
      /\ OneBank(s) => OneBank(t)
      /\ do # "mark" /\ Unanswered(s) = {} => Unanswered(t) = {}
      /\ do \in TamingStages \cup {"mark", "deliver", "deny"}
      /\ OneSent(s) /\ NoJunk(s)
  BY MadeKeeps, DoingIs, ItemsStates, ItemsDistinct DEF Doing
<1>2. CASE Roomy(lines)
  BY <1>1, <1>2 DEF ItemsInv, PendingRoom
<1>3. CASE ~Roomy(lines)
  <2>1. /\ GateProtects(lines) /\ (flushing => OneBank(lines))
        /\ Unanswered(lines) # {} => flushing /\ Tight(lines)
    BY <1>3 DEF RoomLeft
  <2>2. /\ GateProtects(s) /\ (flushing => OneBank(s))
        /\ Unanswered(lines) = {} => Unanswered(s) = {}
    BY <1>1, <2>1, ItemsStates
  <2>3. SUFFICES ASSUME Unanswered(t) # {}, ~File!NothingToDo(do, t)
                 PROVE  flushing /\ HasHeadroom(t, r)
    BY <1>1, <2>2 DEF PendingRoom
  <2>4. CASE do = "mark"
    <3>1. flushing /\ SentIsOpen(t)
      BY <2>4, MarkIs, MadeKeeps
    <3>2. r = File!ReplayOutcomeHeadroom(t)
      BY <2>4 DEF File!Reserved
    <3> HIDE DEF t, r
    <3> QED BY <1>1, <3>1, <3>2, HeadroomIsKnown
  <2>5. CASE do # "mark"
    <3>1. Unanswered(lines) # {} /\ flushing /\ Tight(lines)
      BY <1>1, <2>1, <2>2, <2>3, <2>5
    <3>2. lines = s /\ SentIsOpen(s) /\ NoJunk(lines) /\ OneBank(s) /\ Unanswered(s) # {}
      BY <1>1, <2>2, <3>1, ItemsAreLines DEF Tight, HasHeadroom
    <3>3. do \notin {"deliver", "deny", "refuse", "release", "count"}
      BY <3>1, AnswerIs
    <3>4. File!JunkOf(lines) = <<>>
      BY <1>1, <3>2, JunkIs DEF FileTypes
    <3>5. do # "snapshot"
      BY <2>3, <3>4 DEF File!NothingToDo
    <3>6. CASE do = "prepare"
      <4>1. t = PreparedItems
        BY <3>6, StagesMake
      <4>2. File!Changed(PreparedItems) # {}
        BY <2>3, <3>6, <4>1 DEF File!NothingToDo
      <4>3. HasHeadroom(PreparedItems, File!Reserved("prepare", PreparedItems))
        BY <1>1, <2>2, <3>2, <4>2, PreparedRoom
      <4> QED BY <3>1, <3>6, <4>1, <4>3
    <3>7. CASE do = "name"
      <4>1. t = [File!Items EXCEPT ![File!At(id)].named = TRUE] /\ id \in File!IdsOf(File!Items)
        BY <3>7, StagesMake, DoingIs
      <4>2. Alike(t, s) /\ SameStates(t, s)
        BY <1>1, <4>1, NamedIs
      <4>3. r = File!ReplayOutcomeHeadroom(t)
        BY <3>7 DEF File!Reserved
      <4> HIDE DEF s, t, r
      <4>4. /\ DOMAIN t = DOMAIN s
            /\ \A n \in DOMAIN s : t[n].junk = s[n].junk /\ t[n].state = s[n].state
        <5>1. DOMAIN t = 1..Len(s) /\ DOMAIN s = 1..Len(s)
          BY <1>1, <4>2 DEF Alike
        <5> QED BY <4>2, <5>1 DEF Alike, SameStates
      <4>5. Sending(t) = Sending(s) /\ Open(t) = Open(s)
        BY <4>4 DEF Sending, Open
      <4>6. SentIsOpen(t)
        BY <3>2, <4>5 DEF SentIsOpen
      <4> QED BY <1>1, <3>1, <4>3, <4>6, HeadroomIsKnown
    <3> QED BY <1>1, <2>5, <3>3, <3>5, <3>6, <3>7 DEF TamingStages
  <2> QED BY <2>4, <2>5
<1> QED BY <1>2, <1>3

\* A line that is not ended leaves no row unanswered where room is short.
LEMMA RepairedRoom ==
  ASSUME FileTypes, LinesInv, RoomLeft, File!Unterminated
  PROVE  PendingRoom(File!Items, 0)
<1>1. CASE Roomy(lines)
  BY <1>1, ItemsKeepAll DEF ItemsInv, PendingRoom
<1>2. CASE ~Roomy(lines)
  <2>1. /\ GateProtects(lines) /\ (flushing => OneBank(lines))
        /\ Unanswered(lines) # {} => flushing /\ Tight(lines)
    BY <1>2 DEF RoomLeft
  <2>2. ~AllEnded(lines)
    <3>1. lines \in Seq(FileRows) /\ lines # <<>> /\ ~lines[Len(lines)].ended
      BY DEF FileTypes, File!Unterminated, File!Last
    <3>2. Len(lines) \in DOMAIN lines
      BY <3>1
    <3> QED BY <3>1, <3>2 DEF AllEnded
  <2>3. Unanswered(lines) = {}
    BY <2>1, <2>2 DEF Tight
  <2> QED BY <2>1, <2>3, ItemsStates DEF PendingRoom
<1> QED BY <1>1, <1>2

\* What is rewritten holds what PendingInv asks for.
LEMMA MadePending ==
  ASSUME NEW do, NEW id, Doing(do, id), RoomLeft
  PROVE  LET t == File!Made(do, id)
             todo == Tail(op.todo) IN
           /\ todo \in Seq(FileStages) /\ t \in Seq(FileRows) /\ File!Reserved(do, t) \in Int
           /\ ItemsInv(t) /\ StagesOk(todo, t) /\ StagesOk(todo, lines)
           /\ todo # <<>> /\ todo[1][1] = "flush" => OneBank(t)
           /\ File!NothingToDo(do, t) =>
                /\ todo # <<>> /\ todo[1][1] \in {"prepare", "append"} => NoJunk(lines)
                /\ todo # <<>> /\ todo[1][1] = "flush" => OneBank(lines)
<1> DEFINE t == File!Made(do, id)
           todo == Tail(op.todo)
<1>1. /\ op.todo \in Seq(FileStages) /\ op.todo # <<>> /\ StagesOk(op.todo, lines)
      /\ FileTypes /\ LinesInv /\ t \in Seq(FileRows) /\ ItemsInv(t) /\ do = op.todo[1][1]
      /\ do \notin {"append", "flush"}
  BY DoingIs, MadeKeeps DEF Doing
<1>2. todo \in Seq(FileStages) /\ StagesOk(todo, t) /\ StagesOk(todo, lines)
  BY <1>1, StagesAfter, TailIs
<1>3. File!Reserved(do, t) \in Int
  <2>1. File!ReplayOutcomeHeadroom(t) \in Int
    BY <1>1, HeadroomIsKnown
  <2> HIDE DEF t
  <2> QED BY <2>1 DEF File!Reserved
<1>4. ASSUME todo # <<>>
      PROVE  /\ todo[1][1] = "flush" => do = "prepare"
             /\ todo[1][1] = "append" => do = "prepare"
             /\ todo[1][1] = "prepare" => do = "snapshot"
  <2>1. 2 \in DOMAIN op.todo /\ todo[1] = op.todo[2] /\ 1 \in DOMAIN todo
    BY <1>1, <1>4, TailIs
  <2>2. CASE EnqueueStages(op.todo, lines)
    <3>1. 2 > 1 /\ 2 - 1 = 1
      OBVIOUS
    <3>2. /\ op.todo[2][1] = "append" => op.todo[1][1] = "prepare"
          /\ op.todo[2][1] = "prepare" => op.todo[1][1] = "snapshot"
      BY <2>1, <2>2, <3>1 DEF EnqueueStages, After
    <3>3. op.todo[2][1] # "flush"
      BY <2>1, <2>2 DEF EnqueueStages, OneOf
    <3> QED BY <1>1, <2>1, <3>2, <3>3
  <2>3. CASE FlushStages(op.todo)
    <3>1. 2 > 1 /\ 2 - 1 = 1
      OBVIOUS
    <3>2. /\ op.todo[2][1] = "flush" => op.todo[1][1] = "prepare"
          /\ op.todo[2][1] = "prepare" => op.todo[1][1] = "snapshot"
      BY <2>1, <2>3, <3>1 DEF FlushStages, After
    <3>3. op.todo[2][1] # "append"
      BY <2>1, <2>3 DEF FlushStages, OneOf
    <3> QED BY <1>1, <2>1, <3>2, <3>3
  <2>4. CASE MarkStages(op.todo, lines)
    BY <1>1, <2>1, <2>4 DEF MarkStages, OneOf
  <2>5. CASE AnswerStages(op.todo, lines)
    BY <1>1, <2>1, <2>5 DEF AnswerStages, OneOf
  <2> QED BY <1>1, <2>2, <2>3, <2>4, <2>5 DEF StagesOk
<1>5. do = "prepare" => t = PreparedItems
  BY StagesMake
<1>6. todo # <<>> /\ todo[1][1] = "flush" => OneBank(t)
  BY <1>1, <1>4, <1>5, PreparedOneBank
<1>7. ASSUME File!NothingToDo(do, t), todo # <<>>
      PROVE  /\ todo[1][1] \in {"prepare", "append"} => NoJunk(lines)
             /\ todo[1][1] = "flush" => OneBank(lines)
  <2>1. do = "snapshot" => NoJunk(lines)
    BY <1>1, <1>7, JunkIs DEF File!NothingToDo, FileTypes
  <2>2. do = "prepare" => NoJunk(lines)
    BY <1>1 DEF Doing, NextInv
  <2>3. do = "prepare" => OneBank(lines)
    BY <1>1, <1>5, <1>7, PreparedOneBank DEF File!NothingToDo
  <2> QED BY <1>4, <1>7, <2>1, <2>2, <2>3
<1> QED BY <1>1, <1>2, <1>3, <1>6, <1>7

-----------------------------------------------------------------------------
(* The steps *)

\* What does not depend on the operation under way.
LEMMA LinesKept ==
  ASSUME LinesInv, UNCHANGED <<lines, generation, recovery, acked, junked>>
  PROVE  LinesInv'
BY DEF LinesInv, Rooms, Recovered

LEMMA RoomKept ==
  ASSUME RoomLeft, UNCHANGED <<lines, flushing, limit, answered>>
  PROVE  RoomLeft'
BY DEF RoomLeft, Roomy, Tight, Unanswered

LEMMA StagesKept ==
  ASSUME NEW todo, NEW f, StagesOk(todo, f), UNCHANGED <<flushing, answered, acked>>
  PROVE  StagesOk(todo, f)'
BY DEF StagesOk, FlushStages, MarkStages, AnswerStages, Unanswered

LEMMA ItemsKept ==
  ASSUME NEW items, ItemsInv(items), UNCHANGED <<lines, generation, recovery, acked, limit>>
  PROVE  ItemsInv(items)'
BY DEF ItemsInv, JunkRooms, Rooms, Roomy

LEMMA PendingKept ==
  ASSUME NEW items, NEW reserved, PendingRoom(items, reserved), UNCHANGED <<flushing, limit, answered>>
  PROVE  PendingRoom(items, reserved)'
BY DEF PendingRoom, Roomy, Unanswered

Operations ==
  [point : {"idle", "next", "preserve", "replace"}, todo : Seq(FileStages),
   items : Seq(FileRows), reserved : Int]
FileStill == UNCHANGED <<lines, generation, recovery, acked, junked, answered, flushing, bank, limit>>

LEMMA TurnIs ==
  ASSUME NEW todo \in Seq(FileStages)
  PROVE  LET o == File!Turn(todo) IN
           /\ o \in Operations /\ o.todo = todo /\ o.point \in {"idle", "next"}
           /\ o.point = "next" <=> todo # <<>>
<1> DEFINE idle == File!Idle
           turned == [idle EXCEPT !.point = "next"]
           next == [turned EXCEPT !.todo = todo]
<1>1. <<>> \in Seq(FileRows) /\ <<>> \in Seq(FileStages) /\ 0 \in Int
  OBVIOUS
<1>2. idle \in Operations /\ idle.todo = <<>> /\ idle.point = "idle"
  BY <1>1 DEF File!Idle, Operations
<1>3. File!Turn(todo) = IF todo = <<>> THEN idle ELSE next
  BY DEF File!Turn
<1> HIDE DEF idle
<1>4. turned \in Operations /\ turned.point = "next"
  BY <1>2 DEF Operations
<1> HIDE DEF turned
<1>5. next \in Operations /\ next.todo = todo /\ next.point = "next"
  BY <1>4 DEF Operations
<1> HIDE DEF next
<1> QED BY <1>2, <1>3, <1>5

LEMMA RewritingIs ==
  ASSUME NEW items \in Seq(FileRows), NEW reserved \in Int, NEW todo \in Seq(FileStages)
  PROVE  LET o == File!Rewriting(items, reserved, todo) IN
           /\ o \in Operations /\ o.todo = todo /\ o.items = items /\ o.reserved = reserved
           /\ o.point = IF File!JunkOf(lines) = <<>> THEN "replace" ELSE "preserve"
BY DEF File!Rewriting, Operations

\* An operation goes on with its next stage, or is done.
LEMMA TurnGoesOn ==
  ASSUME NEW todo \in Seq(FileStages), op' = File!Turn(todo), FileTypes', LinesInv', RoomLeft',
         todo # <<>> =>
           /\ StagesOk(todo, lines)'
           /\ todo[1][1] \in {"prepare", "append"} => NoJunk(lines)'
           /\ todo[1][1] = "flush" => (OneBank(lines) \/ Roomy(lines))'
  PROVE  FileInv'
<1>1. op'.todo = todo /\ op'.point \in {"idle", "next"} /\ (op'.point = "next" <=> todo # <<>>)
  BY TurnIs
<1>2. NextInv'
  BY <1>1 DEF NextInv
<1>3. PendingInv'
  BY <1>1 DEF PendingInv
<1> QED BY <1>2, <1>3 DEF FileInv

\* An operation begins to rewrite the file.
LEMMA RewritingGoesOn ==
  ASSUME FileInv, FileStill,
         NEW items \in Seq(FileRows), NEW reserved \in Int, NEW todo \in Seq(FileStages),
         op' = File!Rewriting(items, reserved, todo),
         ItemsInv(items), StagesOk(todo, items), PendingRoom(items, reserved),
         todo # <<>> /\ todo[1][1] = "flush" => OneBank(items) \/ Roomy(items)
  PROVE  FileInv'
<1>1. /\ op' \in Operations /\ op'.todo = todo /\ op'.items = items /\ op'.reserved = reserved
      /\ op'.point = IF File!JunkOf(lines) = <<>> THEN "replace" ELSE "preserve"
  BY RewritingIs
<1>2. FileTypes'
  BY <1>1 DEF FileInv, FileTypes, FileStill, Operations
<1>3. LinesInv' /\ RoomLeft'
  BY LinesKept, RoomKept DEF FileInv, FileStill
<1>4. NextInv'
  BY <1>1 DEF NextInv
<1>5. ItemsInv(items)' /\ StagesOk(todo, items)' /\ PendingRoom(items, reserved)'
  BY ItemsKept, StagesKept, PendingKept DEF FileStill
<1>6. todo # <<>> /\ todo[1][1] = "flush" => (OneBank(items) \/ Roomy(items))'
  BY DEF FileStill, Roomy
<1>7. File!JunkOf(lines) = <<>> =>
        /\ JunkIds(lines) \subseteq File!ToSet(recovery[generation])
        /\ Len(File!JunkOf(lines)) <= Len(recovery[generation])
  <2>1. SUFFICES ASSUME File!JunkOf(lines) = <<>>
                 PROVE  /\ JunkIds(lines) \subseteq File!ToSet(recovery[generation])
                        /\ Len(File!JunkOf(lines)) <= Len(recovery[generation])
    OBVIOUS
  <2>2. JunkIds(lines) = {}
    <3>1. NoJunk(lines)
      BY <2>1, JunkIs DEF FileInv, FileTypes
    <3> QED BY <3>1 DEF NoJunk, JunkIds
  <2>3. recovery[generation] \in Seq(FileIds)
    BY DEF FileInv, FileTypes
  <2>4. Len(File!JunkOf(lines)) = 0
    BY <2>1
  <2> QED BY <2>2, <2>3, <2>4
<1>8. PendingInv'
  <2>1. op'.point = "preserve" => File!JunkOf(lines') # <<>>
    BY <1>1 DEF FileStill
  <2>2. op'.point = "replace" =>
          /\ JunkIds(lines') \subseteq File!ToSet(recovery'[generation'])
          /\ Len(File!JunkOf(lines')) <= Len(recovery'[generation'])
    BY <1>1, <1>7 DEF FileStill
  <2> QED BY <1>1, <1>5, <1>6, <2>1, <2>2 DEF PendingInv
<1> QED BY <1>2, <1>3, <1>4, <1>8 DEF FileInv

\* A stage leaves its rewrite, or nothing, to be done.
LEMMA RewriteKeeps ==
  ASSUME FileInv, File!Rewrite
  PROVE  FileInv'
<1> DEFINE do == op.todo[1][1]
           id == op.todo[1][2]
           t == File!Made(do, id)
           r == File!Reserved(do, t)
           todo == Tail(op.todo)
<1>1. FileStill
  BY DEF File!Rewrite, FileStill, File!file, File!history, File!outside
<1>2. Doing(do, id) /\ RoomLeft
  BY DEF File!Rewrite, Doing, FileInv
<1>3. op' = IF File!NothingToDo(do, t) THEN File!Turn(todo) ELSE File!Rewriting(t, r, todo)
  BY DEF File!Rewrite
<1>4. /\ todo \in Seq(FileStages) /\ t \in Seq(FileRows) /\ r \in Int
      /\ ItemsInv(t) /\ StagesOk(todo, t) /\ StagesOk(todo, lines)
      /\ todo # <<>> /\ todo[1][1] = "flush" => OneBank(t)
      /\ File!NothingToDo(do, t) =>
           /\ todo # <<>> /\ todo[1][1] \in {"prepare", "append"} => NoJunk(lines)
           /\ todo # <<>> /\ todo[1][1] = "flush" => OneBank(lines)
  BY <1>2, MadePending
<1>5. File!NothingToDo(do, t) \/ PendingRoom(t, r)
  BY <1>2, MadeRoom
<1> HIDE DEF do, id, t, r, todo
<1>6. CASE File!NothingToDo(do, t)
  <2>1. PICK rest \in Seq(FileStages) : rest = todo
    BY <1>4
  <2>2. op' = File!Turn(rest)
    BY <1>3, <1>6, <2>1
  <2>3. FileTypes'
    BY <1>1, <2>2, TurnIs DEF FileInv, FileTypes, FileStill, Operations
  <2>4. LinesInv' /\ RoomLeft'
    BY <1>1, LinesKept, RoomKept DEF FileInv, FileStill
  <2>5. StagesOk(rest, lines)'
    <3>1. StagesOk(rest, lines)
      BY <1>4, <2>1
    <3> QED BY <1>1, <3>1, StagesKept DEF FileStill
  <2>6. /\ rest # <<>> /\ rest[1][1] \in {"prepare", "append"} => NoJunk(lines)'
        /\ rest # <<>> /\ rest[1][1] = "flush" => OneBank(lines)'
    BY <1>1, <1>4, <1>6, <2>1 DEF FileStill
  <2> QED BY <2>2, <2>3, <2>4, <2>5, <2>6, TurnGoesOn
<1>7. CASE ~File!NothingToDo(do, t)
  <2>1. PICK items \in Seq(FileRows) : items = t
    BY <1>4
  <2>2. PICK reserved \in Int : reserved = r
    BY <1>4
  <2>3. PICK rest \in Seq(FileStages) : rest = todo
    BY <1>4
  <2>4. op' = File!Rewriting(items, reserved, rest)
    BY <1>3, <1>7, <2>1, <2>2, <2>3
  <2>5. ItemsInv(items) /\ StagesOk(rest, items) /\ PendingRoom(items, reserved)
    BY <1>4, <1>5, <1>7, <2>1, <2>2, <2>3
  <2>6. rest # <<>> /\ rest[1][1] = "flush" => OneBank(items) \/ Roomy(items)
    BY <1>4, <2>1, <2>3
  <2> QED BY <1>1, <2>4, <2>5, <2>6, RewritingGoesOn
<1> QED BY <1>6, <1>7

LEMMA RepairLineKeeps ==
  ASSUME FileInv, File!RepairLine
  PROVE  FileInv'
<1>1. FileStill
  BY DEF File!RepairLine, FileStill, File!file, File!history, File!outside
<1>2. /\ FileTypes /\ LinesInv /\ NextInv /\ RoomLeft /\ op.point = "next" /\ op.todo[1][1] = "append"
      /\ File!Unterminated
  BY DEF FileInv, File!RepairLine, File!Do
<1>3. op' = File!Rewriting(File!Items, 0, op.todo)
  BY DEF File!RepairLine
<1>4. ItemsInv(File!Items) /\ StagesOk(op.todo, File!Items) /\ PendingRoom(File!Items, 0)
  BY <1>2, ItemsKeepAll, StagesRepaired, RepairedRoom
<1>5. PICK items \in Seq(FileRows) : items = File!Items
  BY <1>2, RowsAreRead
<1>6. PICK todo \in Seq(FileStages) : todo = op.todo
  BY <1>2 DEF FileTypes
<1>7. op' = File!Rewriting(items, 0, todo) /\ todo[1][1] = "append"
  BY <1>2, <1>3, <1>5, <1>6
<1>8. ItemsInv(items) /\ StagesOk(todo, items) /\ PendingRoom(items, 0)
  BY <1>4, <1>5, <1>6
<1> QED BY <1>1, <1>7, <1>8, RewritingGoesOn

-----------------------------------------------------------------------------
(* Prefixes *)

LEMMA PrefixIs ==
  ASSUME NEW S, NEW s \in Seq(S), NEW t \in Seq(S)
  PROVE  File!IsPrefix(s, t) <=> Len(s) <= Len(t) /\ \A n \in 1..Len(s) : s[n] = t[n]
<1>1. File!IsPrefix(s, t) <=> Len(s) <= Len(t) /\ SubSeq(s, 1, Len(s)) = SubSeq(t, 1, Len(s))
  BY DEF File!IsPrefix
<1>2. /\ SubSeq(s, 1, Len(s)) = [n \in 1..Len(s) |-> s[n]]
      /\ SubSeq(t, 1, Len(s)) = [n \in 1..Len(s) |-> t[n]]
  OBVIOUS
<1> QED BY <1>1, <1>2

LEMMA PrefixFacts ==
  ASSUME NEW S, NEW s \in Seq(S), NEW t \in Seq(S)
  PROVE  /\ File!IsPrefix(<<>>, t) /\ File!IsPrefix(t, t)
         /\ File!IsPrefix(s, t) => /\ File!ToSet(s) \subseteq File!ToSet(t) /\ Len(s) <= Len(t)
                                   /\ \A e \in S : File!IsPrefix(s, Append(t, e))
<1>1. File!IsPrefix(<<>>, t)
  <2> DEFINE none == <<>>
  <2>1. none \in Seq(S) /\ Len(none) = 0
    OBVIOUS
  <2> HIDE DEF none
  <2>2. Len(none) <= Len(t) /\ \A n \in 1..Len(none) : none[n] = t[n]
    BY <2>1
  <2>3. File!IsPrefix(none, t)
    BY <2>1, <2>2, PrefixIs
  <2> QED BY <2>3 DEF none
<1>2. File!IsPrefix(t, t)
  BY PrefixIs
<1>3. ASSUME File!IsPrefix(s, t)
      PROVE  /\ File!ToSet(s) \subseteq File!ToSet(t) /\ Len(s) <= Len(t)
             /\ \A e \in S : File!IsPrefix(s, Append(t, e))
  <2>1. Len(s) <= Len(t) /\ \A n \in 1..Len(s) : s[n] = t[n]
    BY <1>3, PrefixIs
  <2>2. File!ToSet(s) \subseteq File!ToSet(t)
    <3>1. DOMAIN s = 1..Len(s) /\ DOMAIN t = 1..Len(t) /\ Len(s) \in Nat /\ Len(t) \in Nat
      OBVIOUS
    <3>2. \A n \in DOMAIN s : n \in DOMAIN t
      BY <2>1, <3>1
    <3> QED BY <2>1, <3>1, <3>2 DEF File!ToSet
  <2>3. ASSUME NEW e \in S PROVE File!IsPrefix(s, Append(t, e))
    <3> DEFINE u == Append(t, e)
    <3>1. u \in Seq(S) /\ Len(u) = Len(t) + 1 /\ \A n \in 1..Len(t) : u[n] = t[n]
      BY AppendProperties
    <3> HIDE DEF u
    <3>2. Len(s) <= Len(u) /\ \A n \in 1..Len(s) : s[n] = u[n]
      BY <2>1, <3>1
    <3>3. File!IsPrefix(s, u)
      BY <3>1, <3>2, PrefixIs
    <3> QED BY <3>3 DEF u
  <2> QED BY <2>1, <2>2, <2>3
<1> QED BY <1>1, <1>2, <1>3

\* A snapshot keeps what the one before it kept.
LEMMA PreserveKeeps ==
  ASSUME FileInv, File!Preserve
  PROVE  FileInv'
<1> DEFINE junk == File!JunkOf(lines)
<1>1. /\ FileTypes /\ LinesInv /\ RoomLeft /\ PendingInv /\ op.point = "preserve"
      /\ lines \in Seq(FileRows) /\ generation \in 1..MaxGenerations /\ MaxGenerations \in Nat
      /\ recovery \in [1..MaxGenerations -> Seq(FileIds)]
      /\ UNCHANGED <<lines, generation, acked, junked, answered, flushing, bank, limit>>
  BY RouterConstants DEF FileInv, FileTypes, File!Preserve, File!file, File!history, File!outside,
                         File!QueueFileConstants
<1>2. junk \in Seq(FileIds) /\ File!ToSet(junk) = JunkIds(lines) /\ File!IsPrefix(recovery[generation], junk)
  BY <1>1, JunkIs DEF LinesInv
<1>3. recovery' = [recovery EXCEPT ![generation] = junk] /\ op' = [op EXCEPT !.point = "replace"]
  BY <1>2 DEF File!Preserve, File!SnapshotFits
<1> HIDE DEF junk
<1>4. /\ recovery' \in [1..MaxGenerations -> Seq(FileIds)] /\ recovery'[generation] = junk
      /\ \A g \in 1..MaxGenerations : g # generation => recovery'[g] = recovery[g]
  BY <1>1, <1>2, <1>3
<1>5. /\ op' \in Operations /\ op'.point = "replace" /\ op'.todo = op.todo /\ op'.items = op.items
      /\ op'.reserved = op.reserved
  <2>1. op \in Operations
    BY <1>1 DEF FileTypes, Operations
  <2> QED BY <1>3, <2>1 DEF Operations
<1>6. FileTypes'
  BY <1>1, <1>4, <1>5 DEF FileTypes, Operations
<1>7. LinesInv'
  <2>1. /\ \A n \in DOMAIN lines : lines[n].ended \/ n = Len(lines)
        /\ Distinct(lines) /\ OfGeneration(lines, generation - 1) /\ JunkIsBare(lines)
        /\ OneSent(lines) /\ acked \subseteq RowIds(lines) /\ JunkIds(lines) \subseteq junked
    BY <1>1 DEF LinesInv
  <2>2. Ranged(lines, generation - 1, Rooms')
    <3>1. Ranged(lines, generation - 1, Rooms)
      BY <1>1 DEF LinesInv
    <3>2. \A g \in 1..(generation - 1) : g \in 1..MaxGenerations /\ g # generation
      BY <1>1
    <3>3. \A g \in 1..(generation - 1) : Rooms'[g] = Rooms[g]
      BY <1>4, <3>2 DEF Rooms
    <3> QED BY <3>1, <3>3 DEF Ranged
  <2>3. junked \subseteq JunkIds(lines) \cup Recovered'
    <3>1. SUFFICES ASSUME NEW x \in Recovered, x \notin JunkIds(lines) PROVE x \in Recovered'
      BY <1>1 DEF LinesInv
    <3>2. PICK g \in 1..MaxGenerations : x \in File!ToSet(recovery[g])
      BY <1>1, <3>1 DEF Recovered
    <3>3. CASE g = generation
      <4>1. recovery[generation] \in Seq(FileIds)
        BY <1>1
      <4>2. File!ToSet(recovery[generation]) \subseteq File!ToSet(junk)
        BY <1>2, <4>1, PrefixFacts
      <4> QED BY <1>2, <3>1, <3>2, <3>3, <4>2
    <3>4. CASE g # generation
      <4>1. recovery'[g] = recovery[g] /\ g \in DOMAIN recovery'
        BY <1>4, <3>4
      <4> QED BY <3>2, <4>1 DEF Recovered
    <3> QED BY <3>3, <3>4
  <2>4. \A g \in (generation + 1)..MaxGenerations : recovery'[g] = <<>>
    <3>1. \A g \in (generation + 1)..MaxGenerations : recovery[g] = <<>>
      BY <1>1 DEF LinesInv
    <3>2. \A g \in (generation + 1)..MaxGenerations : g \in 1..MaxGenerations /\ g # generation
      BY <1>1
    <3> QED BY <1>4, <3>1, <3>2
  <2>5. File!IsPrefix(recovery'[generation], junk)
    BY <1>2, <1>4, PrefixFacts
  <2> QED BY <1>1, <2>1, <2>2, <2>3, <2>4, <2>5 DEF LinesInv, junk
<1>8. RoomLeft'
  BY <1>1, RoomKept
<1>9. NextInv'
  BY <1>5 DEF NextInv
<1>10. PendingInv'
  <2>1. PICK items : items = op.items
    OBVIOUS
  <2>2. PICK reserved : reserved = op.reserved
    OBVIOUS
  <2>3. PICK todo : todo = op.todo
    OBVIOUS
  <2>4. /\ ItemsInv(items) /\ StagesOk(todo, items) /\ PendingRoom(items, reserved)
        /\ todo # <<>> /\ todo[1][1] = "flush" => OneBank(items) \/ Roomy(items)
    BY <1>1, <2>1, <2>2, <2>3 DEF PendingInv
  <2>5. JunkRooms' = JunkRooms
    <3> DEFINE room == Len(junk)
    <3>1. Rooms \in [1..MaxGenerations -> Nat] /\ Rooms' \in [1..MaxGenerations -> Nat]
      BY <1>1, <1>4 DEF Rooms
    <3>2. \A g \in 1..MaxGenerations : g # generation => Rooms'[g] = Rooms[g]
      BY <1>4 DEF Rooms
    <3>3. JunkRooms = [Rooms EXCEPT ![generation] = room] /\ JunkRooms' = [Rooms' EXCEPT ![generation] = room]
      BY <1>1 DEF JunkRooms, junk
    <3> HIDE DEF room
    <3> QED BY <3>1, <3>2, <3>3
  <2>6. ItemsInv(items)'
    BY <1>1, <2>4, <2>5 DEF ItemsInv, Roomy
  <2>7. StagesOk(todo, items)' /\ PendingRoom(items, reserved)'
    BY <1>1, <2>4, StagesKept, PendingKept
  <2>8. todo # <<>> /\ todo[1][1] = "flush" => (OneBank(items) \/ Roomy(items))'
    BY <1>1, <2>4 DEF Roomy
  <2>9. op'.items = items /\ op'.reserved = reserved /\ op'.todo = todo /\ op'.point = "replace"
    BY <1>5, <2>1, <2>2, <2>3
  <2>10. /\ JunkIds(lines') \subseteq File!ToSet(recovery'[generation'])
         /\ Len(File!JunkOf(lines')) <= Len(recovery'[generation'])
    <3>1. Len(junk) <= Len(junk)
      BY <1>2
    <3> QED BY <1>1, <1>2, <1>4, <3>1 DEF junk
  <2> QED BY <2>6, <2>7, <2>8, <2>9, <2>10 DEF PendingInv
<1> QED BY <1>6, <1>7, <1>8, <1>9, <1>10 DEF FileInv

\* The file that takes the name holds what was made of the rows, and there is
\* room for what is awaited.
LEMMA ReplaceKeeps ==
  ASSUME FileInv, File!Replace
  PROVE  FileInv'
<1>1. /\ FileTypes /\ LinesInv /\ RoomLeft /\ PendingInv /\ op.point = "replace"
      /\ lines \in Seq(FileRows) /\ generation \in 1..MaxGenerations /\ MaxGenerations \in Nat
      /\ recovery \in [1..MaxGenerations -> Seq(FileIds)] /\ limit \in Nat
      /\ generation < MaxGenerations
      /\ UNCHANGED <<recovery, acked, junked, answered, flushing, bank, limit>>
  BY RouterConstants DEF FileInv, FileTypes, File!Replace, File!history, File!outside,
                         File!QueueFileConstants
<1>2. PICK items \in Seq(FileRows) : items = op.items
  BY <1>1 DEF FileTypes
<1>3. PICK reserved \in Int : reserved = op.reserved
  BY <1>1 DEF FileTypes
<1>4. PICK todo \in Seq(FileStages) : todo = op.todo
  BY <1>1 DEF FileTypes
<1>5. /\ ItemsInv(items) /\ StagesOk(todo, items) /\ PendingRoom(items, reserved)
      /\ todo # <<>> /\ todo[1][1] = "flush" => OneBank(items) \/ Roomy(items)
      /\ JunkIds(lines) \subseteq File!ToSet(recovery[generation])
      /\ Len(File!JunkOf(lines)) <= Len(recovery[generation])
  BY <1>1, <1>2, <1>3, <1>4 DEF PendingInv
<1>6. CASE File!TooLong(items, reserved)
  <2> DEFINE none == <<>>
  <2>1. none \in Seq(FileStages)
    OBVIOUS
  <2>2. op' = File!Turn(none) /\ UNCHANGED <<lines, generation>>
    BY <1>2, <1>3, <1>6 DEF File!Replace, File!Turn, File!file
  <2> HIDE DEF none
  <2>3. FileTypes'
    BY <1>1, <2>1, <2>2, TurnIs DEF FileTypes, Operations
  <2>4. LinesInv' /\ RoomLeft'
    BY <1>1, <2>2, LinesKept, RoomKept
  <2>5. none = <<>>
    BY DEF none
  <2> QED BY <2>1, <2>2, <2>3, <2>4, <2>5, TurnGoesOn
<1>7. CASE ~File!TooLong(items, reserved)
  <2>1. lines' = items /\ generation' = generation + 1 /\ op' = File!Turn(todo)
    BY <1>2, <1>3, <1>4, <1>7 DEF File!Replace
  <2>2. FileTypes'
    <3>1. generation' \in 1..MaxGenerations
      BY <1>1, <2>1
    <3> QED BY <1>1, <2>1, <3>1, TurnIs DEF FileTypes, Operations
  <2>3. /\ Distinct(items) /\ OfGeneration(items, generation) /\ NoJunk(items) /\ AllEnded(items)
        /\ Ranged(items, generation, JunkRooms) /\ OneSent(items) /\ acked \subseteq RowIds(items)
    BY <1>5 DEF ItemsInv
  <2>4. LinesInv'
    <3>1. generation' - 1 = generation
      BY <1>1, <2>1
    <3>2. Ranged(items, generation, Rooms)
      <4>1. ASSUME NEW g \in 1..generation PROVE JunkRooms[g] <= Rooms[g] /\ JunkRooms[g] \in Int /\ Rooms[g] \in Int
        <5>1. g \in 1..MaxGenerations
          BY <1>1
        <5>2. Rooms \in [1..MaxGenerations -> Nat] /\ Rooms[g] = Len(recovery[g])
          BY <1>1, <5>1 DEF Rooms
        <5>3. Len(File!JunkOf(lines)) \in Nat
          BY <1>1, JunkIs
        <5> DEFINE room == Len(File!JunkOf(lines))
        <5>4. JunkRooms = [Rooms EXCEPT ![generation] = room]
          BY DEF JunkRooms
        <5>5. room \in Nat /\ room <= Len(recovery[generation])
          BY <1>5, <5>3
        <5> HIDE DEF room
        <5>6. CASE g = generation
          BY <1>1, <5>1, <5>2, <5>4, <5>5, <5>6
        <5>7. CASE g # generation
          BY <1>1, <5>1, <5>2, <5>4, <5>7
        <5> QED BY <5>6, <5>7
      <4>2. ASSUME NEW n \in DOMAIN items, items[n].range # File!NoRange
            PROVE  /\ items[n].range.source \in 1..generation
                   /\ items[n].range.offset + items[n].range.length <= Rooms[items[n].range.source]
        <5>1. /\ items[n].range.source \in 1..generation
              /\ items[n].range.offset + items[n].range.length <= JunkRooms[items[n].range.source]
          BY <2>3, <4>2 DEF Ranged
        <5>2. items[n].range.offset \in Nat /\ items[n].range.length \in Nat
          <6>1. items[n] \in FileRows
            OBVIOUS
          <6> QED BY <6>1 DEF FileRows
        <5> DEFINE source == items[n].range.source
                   end == items[n].range.offset + items[n].range.length
        <5>3. end \in Nat /\ source \in 1..generation /\ end <= JunkRooms[source]
          BY <5>1, <5>2
        <5> HIDE DEF source, end
        <5>4. JunkRooms[source] <= Rooms[source] /\ JunkRooms[source] \in Int /\ Rooms[source] \in Int
          BY <4>1, <5>3
        <5>5. source \in 1..generation /\ end <= Rooms[source]
          BY <5>3, <5>4
        <5> QED BY <5>5 DEF source, end
      <4> QED BY <2>3, <4>2 DEF Ranged
    <3>3. JunkIds(items) = {}
      BY <2>3 DEF NoJunk, JunkIds
    <3>4. junked \subseteq Recovered
      <4>1. File!ToSet(recovery[generation]) \subseteq Recovered
        BY <1>1 DEF Recovered
      <4> QED BY <1>1, <1>5, <4>1 DEF LinesInv
    <3>5. JunkIsBare(items)
      BY <2>3 DEF NoJunk, JunkIsBare
    <3>6. \A g \in (generation' + 1)..MaxGenerations : recovery[g] = <<>>
      BY <1>1, <2>1 DEF LinesInv
    <3>7. File!IsPrefix(recovery[generation'], File!JunkOf(items))
      <4>1. generation' \in (generation + 1)..MaxGenerations
        BY <1>1, <2>1
      <4>2. recovery[generation'] = <<>>
        BY <1>1, <4>1 DEF LinesInv
      <4>3. File!JunkOf(items) \in Seq(FileIds)
        BY JunkIs
      <4> QED BY <4>2, <4>3, PrefixFacts
    <3>8. \A n \in DOMAIN items : items[n].ended
      BY <2>3 DEF AllEnded
    <3>9. Recovered' = Recovered /\ Rooms' = Rooms
      BY <1>1 DEF Recovered, Rooms
    <3> QED BY <1>1, <2>1, <2>3, <3>1, <3>2, <3>3, <3>4, <3>5, <3>6, <3>7, <3>8, <3>9 DEF LinesInv
  <2>5. RoomLeft'
    <3>1. CASE Roomy(items)
      BY <1>1, <2>1, <3>1 DEF RoomLeft, Roomy
    <3>2. CASE ~Roomy(items)
      <4>1. /\ GateProtects(items) /\ (flushing => OneBank(items))
            /\ Unanswered(items) # {} => flushing /\ HasHeadroom(items, reserved)
        BY <1>5, <3>2 DEF PendingRoom
      <4>2. ASSUME Unanswered(items) # {} PROVE flushing /\ HasHeadroom(items, limit - File!FileBytes(items))
        <5>1. items # <<>>
          BY <4>2 DEF Unanswered, Sending
        <5>2. File!FileBytes(items) + reserved <= limit
          BY <1>7, <5>1, <1>1, FileBytesIs DEF File!TooLong
        <5>3. File!FileBytes(items) \in Int /\ File!ReplayOutcomeHeadroom(items) \in Int
          BY FileBytesIs, HeadroomIsKnown
        <5> DEFINE bytes == File!FileBytes(items)
                   head == File!ReplayOutcomeHeadroom(items)
        <5>4. head <= reserved /\ SentIsOpen(items) /\ flushing
          BY <4>1, <4>2 DEF HasHeadroom
        <5>5. bytes \in Int /\ head \in Int /\ bytes + reserved <= limit
          BY <5>2, <5>3
        <5> HIDE DEF bytes, head
        <5>6. head <= limit - bytes
          BY <1>1, <5>4, <5>5
        <5> QED BY <5>4, <5>6 DEF HasHeadroom, bytes, head
      <4>3. /\ Unanswered(items)' = Unanswered(items)
            /\ GateProtects(items)' = GateProtects(items) /\ OneBank(items)' = OneBank(items)
        BY <1>1 DEF Unanswered
      <4>4. Unanswered(lines)' = Unanswered(items)
        BY <1>1, <2>1 DEF Unanswered
      <4> QED BY <1>1, <2>1, <2>3, <4>1, <4>2, <4>4 DEF RoomLeft, Tight
    <3> QED BY <3>1, <3>2
  <2>6. StagesOk(todo, items)'
    BY <1>1, <1>5, StagesKept
  <2>7. StagesOk(todo, lines)' /\ NoJunk(lines)'
    BY <2>1, <2>3, <2>6
  <2>8. todo # <<>> /\ todo[1][1] = "flush" => (OneBank(lines) \/ Roomy(lines))'
    BY <1>1, <1>5, <2>1 DEF Roomy
  <2> QED BY <2>1, <2>2, <2>4, <2>5, <2>7, <2>8, TurnGoesOn
<1> QED BY <1>6, <1>7

-----------------------------------------------------------------------------
(* A line behind the last *)

\* The lengths of the lines with one more.
LEMMA BytesAppended ==
  ASSUME NEW f \in Seq(FileRows), NEW b \in Int
  PROVE  /\ Append(Bytes(f), b) \in Seq(Int) /\ Len(Append(Bytes(f), b)) = Len(f) + 1
         /\ \A n \in 1..Len(f) : Append(Bytes(f), b)[n] = File!LineBytes(f[n])
         /\ Append(Bytes(f), b)[Len(f) + 1] = b
         /\ File!Total(Append(Bytes(f), b)) = File!FileBytes(f) + b
<1> DEFINE s == Bytes(f)
           t == Append(s, b)
<1>1. s \in Seq(Int) /\ Len(s) = Len(f) /\ \A n \in 1..Len(f) : s[n] = File!LineBytes(f[n])
  BY BytesAreIntegers
<1>2. File!FileBytes(f) = File!Total(s)
  BY FileBytesIs
<1> HIDE DEF s
<1>3. /\ t \in Seq(Int) /\ Len(t) = Len(s) + 1 /\ t[Len(s) + 1] = b
      /\ \A n \in 1..Len(s) : t[n] = s[n]
  BY <1>1, AppendProperties
<1>4. File!Total(t) = File!Total(s) + b
  BY <1>1, TotalAppend
<1> HIDE DEF t
<1> QED BY <1>1, <1>2, <1>3, <1>4 DEF s, t

\* What every line has set aside.
LEMMA SetAside ==
  ASSUME NEW n \in Nat
  PROVE  LET c == [k \in 1..n |-> 256] IN
           c \in Seq(Int) /\ Len(c) = n /\ File!Total(c) = n * 256
<1> DEFINE c == [k \in 1..n |-> 256]
           g == [k \in 0..n |-> k * 256]
<1>1. c \in [1..n -> Int] /\ \A k \in 1..n : c[k] = 256
  OBVIOUS
<1>2. g \in [0..n -> Int] /\ g[0] = 0 /\ \A k \in 0..n : g[k] = k * 256
  OBVIOUS
<1> HIDE DEF c, g
<1>3. c \in Seq(Int) /\ Len(c) = n
  BY <1>1, FunctionIsSequence
<1>4. ASSUME NEW k \in 1..n PROVE g[k] = g[k - 1] + c[k]
  <2>1. k - 1 \in 0..n /\ k \in 0..n
    OBVIOUS
  <2>2. g[k] = k * 256 /\ g[k - 1] = (k - 1) * 256 /\ c[k] = 256
    BY <1>1, <1>2, <2>1
  <2> QED BY <2>2
<1>5. Sums(c, g)
  BY <1>2, <1>3, <1>4 DEF Sums
<1>6. File!Total(c) = g[n]
  BY <1>3, <1>5, SumsAgree
<1>7. g[n] = n * 256
  BY <1>2
<1> QED BY <1>3, <1>6, <1>7 DEF c

\* A line that fits with what is set aside for all leaves room for each.
LEMMA RoomyAppended ==
  ASSUME NEW f \in Seq(FileRows), NoJunk(f), NEW e \in FileRows, NEW b \in Int,
         LineLimit(e) <= b + 256, limit \in Nat,
         File!FileBytes(f) + b + (Len(f) + 1) * 256 <= limit
  PROVE  Roomy(Append(f, e))
<1> DEFINE t == Append(f, e)
           u == Append(Bytes(f), b)
           c == [k \in 1..(Len(f) + 1) |-> 256]
           m == Len(f) + 1
           h == [k \in 1..m |-> u[k] + c[k]]
<1>1. /\ t \in Seq(FileRows) /\ Len(t) = m /\ t[m] = e /\ \A n \in 1..Len(f) : t[n] = f[n]
  BY AppendProperties
<1>2. /\ u \in Seq(Int) /\ Len(u) = m /\ u[m] = b
      /\ \A n \in 1..Len(f) : u[n] = File!LineBytes(f[n])
      /\ File!Total(u) = File!FileBytes(f) + b
  BY BytesAppended
<1>3. m \in Nat /\ Len(f) \in Nat /\ File!FileBytes(f) \in Int
  BY FileBytesIs
<1>4. c \in Seq(Int) /\ Len(c) = m /\ File!Total(c) = m * 256 /\ \A k \in 1..m : c[k] = 256
  BY <1>3, SetAside
<1> HIDE DEF t, u, c, m
<1>5. h \in [1..m -> Int] /\ \A k \in 1..m : h[k] = u[k] + c[k]
  BY <1>2, <1>4, SMTT(30)
<1> HIDE DEF h
<1>6. h \in Seq(Int) /\ Len(h) = m
  BY <1>3, <1>5, FunctionIsSequence
<1>7. File!Total(h) = File!Total(u) + File!Total(c)
  <2>1. Len(u) = Len(c) /\ Len(h) = Len(c)
    BY <1>2, <1>4, <1>6
  <2>2. \A k \in 1..Len(u) : h[k] = u[k] + c[k]
    BY <1>2, <1>5
  <2>3. u \in Seq(Int) /\ c \in Seq(Int) /\ h \in Seq(Int)
    BY <1>2, <1>4, <1>6
  <2> QED BY <2>1, <2>2, <2>3, TotalSum
<1>8. /\ LineLimits(t) \in Seq(Int) /\ Len(LineLimits(t)) = m
      /\ \A k \in 1..m : LineLimits(t)[k] = LineLimit(t[k])
  BY <1>1, BytesAreIntegers
<1>9. ASSUME NEW k \in 1..m PROVE LineLimits(t)[k] <= h[k]
  <2>1. CASE k = m
    BY <1>1, <1>2, <1>4, <1>5, <1>8, <2>1
  <2>2. CASE k # m
    <3>1. k \in 1..Len(f)
      BY <1>3, <2>2 DEF m
    <3>2. f[k] \in FileRows /\ ~f[k].junk
      BY <3>1 DEF NoJunk
    <3>3. /\ LineLimit(f[k]) \in Nat /\ File!LineBytes(f[k]) \in Nat
          /\ LineLimit(f[k]) <= File!LineBytes(f[k]) + 167
      <4>1. Growth = 167
        BY DEF Growth, MetadataLimit
      <4> QED BY <3>2, <4>1, LineWithinLimit, SMTT(30)
    <3>4. LineLimits(t)[k] = LineLimit(f[k]) /\ h[k] = File!LineBytes(f[k]) + 256
      <4>1. LineLimits(t)[k] = LineLimit(t[k]) /\ t[k] = f[k]
        BY <1>1, <1>8, <3>1
      <4>2. u[k] = File!LineBytes(f[k])
        BY <1>2, <3>1
      <4>3. h[k] = u[k] + c[k] /\ c[k] = 256
        BY <1>4, <1>5
      <4> QED BY <4>1, <4>2, <4>3
    <3> QED BY <3>3, <3>4
  <2> QED BY <2>1, <2>2
<1>10. File!Total(LineLimits(t)) <= File!Total(h)
  BY <1>6, <1>8, <1>9, TotalLess
<1>11. File!Total(LineLimits(t)) \in Int /\ File!Total(h) \in Int
  BY <1>6, <1>8, TotalInt
<1>12. File!Total(LineLimits(t)) <= limit
  BY <1>2, <1>3, <1>4, <1>7, <1>10, <1>11 DEF m
<1> QED BY <1>12, RoomyIs DEF t

\* The rows that are appended, whole or torn.
NewRow(n, b) == File!Row(<<n>>, RowBytes, b)
LEMMA NewRowIs ==
  ASSUME NEW n \in NewRows, NEW b \in Banks
  PROVE  LET r == NewRow(n, b) IN
           /\ r \in FileRows /\ r.id = <<n>> /\ ~r.junk /\ r.ended
           /\ r.state = File!NoState /\ r.range = File!NoRange
           /\ File!LineBytes(r) = RowBytes + 53
           /\ [r EXCEPT !.ended = FALSE] \in FileRows /\ [r EXCEPT !.ended = FALSE].id = <<n>>
           /\ ~[r EXCEPT !.ended = FALSE].junk /\ [r EXCEPT !.ended = FALSE].state = File!NoState
           /\ [r EXCEPT !.ended = FALSE].range = File!NoRange
           /\ LineLimit(r) = RowBytes + 167 /\ LineLimit([r EXCEPT !.ended = FALSE]) = RowBytes + 167
<1> DEFINE r == NewRow(n, b)
           q == [r EXCEPT !.ended = FALSE]
<1>1. RowBytes \in Nat /\ RowBytes >= 125
  BY RouterConstants DEF File!QueueFileConstants
<1>2. <<n>> \in FileIds
  BY DEF FileIds, RowNames
<1>3. b \in RowBanks
  BY DEF RowBanks
<1>4. File!NoState \in RowStates
  BY DEF File!NoState, RowStates
<1>5. File!NoRange \in [source : Nat, offset : Nat, length : Nat]
  BY DEF File!NoRange
<1>6. /\ r.id = <<n>> /\ r.junk = FALSE /\ r.ended = TRUE /\ r.bytes = RowBytes /\ r.named = TRUE
      /\ r.state = File!NoState /\ r.range = File!NoRange /\ r.attempts = 0
  BY DEF NewRow, File!Row
<1>7. r \in FileRows
  <2> DEFINE id == <<n>>
  <2>1. id \in FileIds
    BY <1>2
  <2> HIDE DEF id, File!NoState, File!NoRange
  <2>2. [id |-> id, junk |-> FALSE, bytes |-> RowBytes, named |-> TRUE, bank |-> b, attempts |-> 0,
         state |-> File!NoState, range |-> File!NoRange, ended |-> TRUE] \in FileRows
    BY <1>1, <1>3, <1>4, <1>5, <2>1 DEF FileRows
  <2> QED BY <2>2 DEF NewRow, File!Row, id
<1> HIDE DEF r
<1>8. /\ q \in FileRows /\ q.id = r.id /\ q.junk = r.junk /\ q.bytes = r.bytes
      /\ q.state = r.state /\ q.range = r.range
  BY <1>7 DEF FileRows
<1> HIDE DEF q
<1>9. File!LineBytes(r) = RowBytes + 53
  <2>1. File!MetadataBytes(r) = 0
    <3>1. File!MemberBytes(File!NoState) = 0
      BY DEF File!MemberBytes, File!NoState, File!Present
    <3>2. File!NoState.present = FALSE /\ File!NoState.quarantine = "none"
      BY DEF File!NoState
    <3> HIDE DEF File!NoState, File!MemberBytes
    <3> QED BY <1>6, <3>1, <3>2 DEF File!MetadataBytes, File!Present
  <2> QED BY <1>1, <1>6, <2>1 DEF File!LineBytes, File!Present, File!OperationIdBytes
<1>10. LineLimit(r) = RowBytes + 167 /\ LineLimit(q) = RowBytes + 167
  BY <1>6, <1>8 DEF LineLimit, Growth, MetadataLimit
<1> QED BY <1>6, <1>7, <1>8, <1>9, <1>10 DEF r, q

LEMMA TornIs ==
  ASSUME NEW n \in NewRows, NEW piece \in Nat, NEW b \in Nat, piece <= b, b >= 178
  PROVE  LET e == File!Junk(<<"torn", <<n>>>>, piece, FALSE) IN
           /\ e \in FileRows /\ e.id = <<"torn", <<n>>>> /\ e.junk
           /\ e.state = File!NoState /\ e.range = File!NoRange
           /\ LineLimit(e) <= b + 256
<1> DEFINE id == <<"torn", <<n>>>>
           r == File!Row(id, piece, "none")
           q == [r EXCEPT !.junk = TRUE]
           e == [q EXCEPT !.ended = FALSE]
<1>1. File!Junk(id, piece, FALSE) = e
  BY DEF File!Junk
<1>2. id \in FileIds
  BY DEF FileIds, TornIds
<1> HIDE DEF id
<1>3. File!NoState \in RowStates
  BY DEF File!NoState, RowStates
<1>4. File!NoRange \in [source : Nat, offset : Nat, length : Nat]
  BY DEF File!NoRange
<1>5. "none" \in RowBanks
  BY DEF RowBanks
<1> HIDE DEF File!NoState, File!NoRange
<1>6. /\ r \in FileRows /\ r.id = id /\ r.bytes = piece
      /\ r.state = File!NoState /\ r.range = File!NoRange
  BY <1>2, <1>3, <1>4, <1>5 DEF FileRows, File!Row
<1> HIDE DEF r
<1>7. q \in FileRows /\ q.id = id /\ q.bytes = piece /\ q.junk /\ q.state = r.state /\ q.range = r.range
  BY <1>6 DEF FileRows
<1> HIDE DEF q
<1>8. e \in FileRows /\ e.id = id /\ e.bytes = piece /\ e.junk /\ e.state = q.state /\ e.range = q.range
  BY <1>7 DEF FileRows
<1> HIDE DEF e
<1>9. LineLimit(e) <= b + 256
  BY <1>8 DEF LineLimit, Growth, MetadataLimit
<1> QED BY <1>1, <1>6, <1>7, <1>8, <1>9 DEF id

\* A line with a name of its own may follow lines that all have their newline.
LEMMA LineAppended ==
  ASSUME FileTypes, LinesInv, AllEnded(lines), NEW e \in FileRows, e.id \notin File!IdsOf(lines),
         e.id \in RowNames \cup (IF e.junk THEN TornIds ELSE {}),
         e.state = File!NoState, e.range = File!NoRange,
         lines' = Append(lines, e), UNCHANGED <<generation, recovery>>,
         acked' \subseteq (IF e.junk THEN acked ELSE acked \cup {e.id}),
         junked' = IF e.junk THEN junked \cup {e.id} ELSE junked
  PROVE  LinesInv'
<1> DEFINE f == lines
           t == Append(f, e)
           m == Len(f) + 1
<1>1. /\ f \in Seq(FileRows) /\ generation \in 1..MaxGenerations
      /\ recovery \in [1..MaxGenerations -> Seq(FileIds)]
      /\ \A n \in DOMAIN f : f[n].ended
      /\ Distinct(f) /\ OfGeneration(f, generation - 1) /\ JunkIsBare(f)
      /\ Ranged(f, generation - 1, Rooms) /\ OneSent(f)
      /\ acked \subseteq RowIds(f) /\ JunkIds(f) \subseteq junked
      /\ junked \subseteq JunkIds(f) \cup Recovered
      /\ \A g \in (generation + 1)..MaxGenerations : recovery[g] = <<>>
      /\ File!IsPrefix(recovery[generation], File!JunkOf(f))
  BY DEF FileTypes, LinesInv, AllEnded
<1>2. /\ t \in Seq(FileRows) /\ Len(t) = m /\ t[m] = e /\ \A n \in 1..Len(f) : t[n] = f[n]
  BY <1>1, AppendProperties
<1>3. lines' = t
  OBVIOUS
<1>4. File!JunkOf(t) = IF e.junk THEN Append(File!JunkOf(f), e.id) ELSE File!JunkOf(f)
  BY <1>1, JunkOfAppend
<1>5. e.id \notin File!IdsOf(f)
  OBVIOUS
<1> HIDE DEF t
<1>6. /\ DOMAIN f = 1..Len(f) /\ DOMAIN t = 1..m /\ Len(f) \in Nat /\ m \in DOMAIN t
      /\ \A n \in DOMAIN t : n = m \/ n \in DOMAIN f
      /\ \A n \in DOMAIN f : n \in DOMAIN t /\ n # m /\ t[n] = f[n]
  BY <1>1, <1>2, SMTT(30)
<1> HIDE DEF f
<1>7. \A n \in DOMAIN t : t[n].ended \/ n = Len(t)
  BY <1>1, <1>2, <1>6
<1>8. Distinct(t)
  BY <1>1, <1>2, <1>5, <1>6 DEF Distinct, File!IdsOf
<1>9. OfGeneration(t, generation - 1)
  <2>1. ASSUME NEW n \in DOMAIN t
        PROVE  t[n].id \in RowNames \cup (IF t[n].junk THEN TornIds ELSE BarrierIds(generation - 1))
    BY <1>1, <1>2, <1>6 DEF OfGeneration
  <2> QED BY <2>1 DEF OfGeneration
<1>10. JunkIsBare(t)
  BY <1>1, <1>2, <1>6 DEF JunkIsBare
<1>11. Ranged(t, generation - 1, Rooms)
  <2>1. ASSUME NEW n \in DOMAIN t, t[n].range # File!NoRange
        PROVE  n \in DOMAIN f /\ \A k \in 1..(n - 1) : t[k] = f[k]
    <3>1. n \in DOMAIN f
      BY <1>2, <1>6, <2>1
    <3>2. \A k \in 1..(n - 1) : k \in DOMAIN f
      BY <1>6, <3>1
    <3> QED BY <1>6, <3>1, <3>2
  <2> QED BY <1>1, <1>6, <2>1, ZenonT(60) DEF Ranged
<1>12. ~e.state.sending
  BY DEF File!NoState
<1>13. OneSent(t)
  <2>1. \A n \in Sending(t) : n \in Sending(f) /\ t[n] = f[n]
    BY <1>2, <1>6, <1>12 DEF Sending
  <2> QED BY <1>1, <2>1 DEF OneSent
<1>14. /\ RowIds(f) \subseteq RowIds(t) /\ (~e.junk => e.id \in RowIds(t))
       /\ JunkIds(f) \subseteq JunkIds(t) /\ (e.junk => e.id \in JunkIds(t))
       /\ JunkIds(t) \subseteq JunkIds(f) \cup (IF e.junk THEN {e.id} ELSE {})
  <2>1. RowIds(f) \subseteq RowIds(t) /\ (~e.junk => e.id \in RowIds(t))
    BY <1>2, <1>6 DEF RowIds
  <2>2. JunkIds(f) \subseteq JunkIds(t) /\ (e.junk => e.id \in JunkIds(t))
    BY <1>2, <1>6 DEF JunkIds
  <2>3. JunkIds(t) \subseteq JunkIds(f) \cup (IF e.junk THEN {e.id} ELSE {})
    BY <1>2, <1>6 DEF JunkIds
  <2> QED BY <2>1, <2>2, <2>3
<1>15. acked' \subseteq RowIds(t)
  BY <1>1, <1>14
<1>16. JunkIds(t) \subseteq junked' /\ junked' \subseteq JunkIds(t) \cup Recovered
  BY <1>1, <1>14
<1>17. File!IsPrefix(recovery[generation], File!JunkOf(t))
  <2>1. File!JunkOf(f) \in Seq(FileIds) /\ recovery[generation] \in Seq(FileIds) /\ e.id \in FileIds
    BY <1>1, JunkIs DEF FileRows
  <2> QED BY <1>1, <1>4, <2>1, PrefixFacts DEF f
<1>18. Recovered' = Recovered /\ Rooms' = Rooms
  BY DEF Recovered, Rooms
<1> QED BY <1>1, <1>3, <1>7, <1>8, <1>9, <1>10, <1>11, <1>13, <1>15, <1>16, <1>17, <1>18 DEF LinesInv

\* What an append begins with.
LEMMA AppendBegins ==
  ASSUME FileInv, File!Do("append"), ~File!Unterminated
  PROVE  /\ FileTypes /\ LinesInv /\ RoomLeft /\ lines \in Seq(FileRows) /\ limit \in Nat
         /\ AllEnded(lines) /\ NoJunk(lines)
         /\ op.todo \in Seq(FileStages) /\ op.todo # <<>> /\ EnqueueStages(op.todo, lines)
         /\ \E n \in NewRows, b \in Banks :
              /\ op.todo[1][2] = NewRow(n, b)
              /\ <<n>> \notin File!IdsOf(lines) /\ <<"torn", <<n>>>> \notin File!IdsOf(lines)
<1>1. /\ FileTypes /\ LinesInv /\ NextInv /\ RoomLeft /\ op.point = "next" /\ op.todo[1][1] = "append"
      /\ lines \in Seq(FileRows) /\ limit \in Nat
  BY DEF FileInv, File!Do, FileTypes
<1>2. op.todo \in Seq(FileStages) /\ op.todo # <<>> /\ StagesOk(op.todo, lines) /\ NoJunk(lines)
  BY <1>1 DEF NextInv, FileTypes
<1>3. 1 \in DOMAIN op.todo
  BY <1>2, TailIs
<1>4. EnqueueStages(op.todo, lines)
  BY <1>1, <1>2, <1>3 DEF StagesOk, FlushStages, MarkStages, AnswerStages, OneOf
<1>5. \E n \in NewRows, b \in Banks :
        /\ op.todo[1][2] = NewRow(n, b)
        /\ <<n>> \notin File!IdsOf(lines) /\ <<"torn", <<n>>>> \notin File!IdsOf(lines)
  BY <1>1, <1>3, <1>4 DEF EnqueueStages, NewRow
<1>6. AllEnded(lines)
  <2>1. lines # <<>> => lines[Len(lines)].ended
    BY DEF File!Unterminated, File!Last
  <2>2. \A n \in DOMAIN lines : lines[n].ended \/ n = Len(lines)
    BY <1>1 DEF LinesInv
  <2>3. lines = <<>> => DOMAIN lines = {}
    OBVIOUS
  <2> QED BY <2>1, <2>2, <2>3 DEF AllEnded
<1> QED BY <1>1, <1>2, <1>4, <1>5, <1>6

\* A row that is appended is followed by no other.
LEMMA AppendGoesOn ==
  ASSUME NEW todo \in Seq(FileStages), todo # <<>>, EnqueueStages(todo, lines),
         todo[1][1] = "append", NEW f
  PROVE  /\ EnqueueStages(Tail(todo), f)
         /\ Tail(todo) # <<>> => Tail(todo)[1][1] \notin {"prepare", "append", "flush"}
<1>1. EnqueueStages(Tail(todo), lines)
  BY EnqueueShifts
<1>2. ASSUME NEW k \in DOMAIN Tail(todo) PROVE Tail(todo)[k][1] # "append"
  <2>1. Tail(todo)[k] = todo[k + 1] /\ k + 1 \in DOMAIN todo /\ k \in 1..(Len(todo) - 1) /\ 1 \in DOMAIN todo
    BY TailIs
  <2>2. k + 1 # 1
    BY <2>1
  <2> QED BY <2>1, <2>2 DEF EnqueueStages
<1>3. EnqueueStages(Tail(todo), f)
  BY <1>1, <1>2 DEF EnqueueStages
<1>4. ASSUME Tail(todo) # <<>> PROVE Tail(todo)[1][1] \notin {"prepare", "append", "flush"}
  <2>1. 1 \in DOMAIN Tail(todo) /\ Tail(todo)[1] = todo[2] /\ 1 + 1 \in DOMAIN todo
    BY <1>4, TailIs
  <2>2. 2 \in DOMAIN todo /\ 2 > 1 /\ 2 - 1 = 1
    BY <2>1
  <2>3. todo[2][1] # "prepare"
    BY <2>2 DEF EnqueueStages, After
  <2>4. todo[2][1] # "flush"
    BY <2>2 DEF EnqueueStages, OneOf
  <2> QED BY <1>2, <2>1, <2>3, <2>4
<1> QED BY <1>3, <1>4

\* A row is appended where the room for its answers is left.
LEMMA AppendRowKeeps ==
  ASSUME FileInv, File!AppendRow
  PROVE  FileInv'
<1>1. /\ FileTypes /\ LinesInv /\ RoomLeft /\ lines \in Seq(FileRows) /\ limit \in Nat
      /\ AllEnded(lines) /\ NoJunk(lines)
      /\ op.todo \in Seq(FileStages) /\ op.todo # <<>> /\ EnqueueStages(op.todo, lines)
  BY AppendBegins DEF File!AppendRow
<1>2. PICK n \in NewRows, b \in Banks :
        /\ op.todo[1][2] = NewRow(n, b)
        /\ <<n>> \notin File!IdsOf(lines) /\ <<"torn", <<n>>>> \notin File!IdsOf(lines)
  BY AppendBegins DEF File!AppendRow
<1> DEFINE row == NewRow(n, b)
<1>3. UNCHANGED <<generation, recovery, junked, answered, flushing, bank, limit>>
  BY DEF File!AppendRow, File!outside
<1>4. /\ row \in FileRows /\ row.id = <<n>> /\ ~row.junk /\ row.ended
      /\ row.state = File!NoState /\ row.range = File!NoRange
      /\ File!LineBytes(row) = RowBytes + 53 /\ LineLimit(row) = RowBytes + 167
      /\ RowBytes \in Nat
  <2>1. RowBytes \in Nat
    BY RouterConstants DEF File!QueueFileConstants
  <2>2. /\ row \in FileRows /\ row.id = <<n>> /\ ~row.junk /\ row.ended
        /\ row.state = File!NoState /\ row.range = File!NoRange
        /\ File!LineBytes(row) = RowBytes + 53 /\ LineLimit(row) = RowBytes + 167
    <3>1. n \in NewRows /\ b \in Banks
      OBVIOUS
    <3> QED BY <3>1, NewRowIs, ZenonT(90)
  <2> HIDE DEF row
  <2> QED BY <2>1, <2>2
<1>5. row = op.todo[1][2] /\ ~File!Unterminated /\ op.todo[1][1] = "append"
  BY <1>2 DEF File!AppendRow, File!Do
<1> HIDE DEF row
<1>6. CASE ~File!AppendFits(row)
  <2> DEFINE none == <<>>
  <2>1. none \in Seq(FileStages)
    OBVIOUS
  <2>2. op' = File!Turn(none) /\ UNCHANGED <<lines, acked>>
    BY <1>5, <1>6 DEF File!AppendRow, File!Turn
  <2> HIDE DEF none
  <2>3. FileTypes'
    BY <1>1, <1>3, <2>1, <2>2, TurnIs DEF FileTypes, Operations
  <2>4. LinesInv' /\ RoomLeft'
    BY <1>1, <1>3, <2>2, LinesKept, RoomKept
  <2>5. none = <<>>
    BY DEF none
  <2> QED BY <2>1, <2>2, <2>3, <2>4, <2>5, TurnGoesOn
<1>7. CASE File!AppendFits(row)
  <2>1. /\ lines' = File!Joined(row) /\ acked' = acked \cup {row.id}
        /\ op' = File!Turn(Tail(op.todo))
    BY <1>5, <1>7 DEF File!AppendRow
  <2>2. lines' = Append(lines, row)
    <3>1. ~(lines # <<>> /\ ~File!Last(lines).ended)
      BY <1>5 DEF File!Unterminated
    <3> QED BY <2>1, <3>1 DEF File!Joined
  <2>3. row.id \in RowNames /\ row.id \notin File!IdsOf(lines)
    BY <1>2, <1>4 DEF RowNames
  <2>4. LinesInv'
    BY <1>1, <1>3, <1>4, <2>1, <2>2, <2>3, LineAppended
  <2>5. RoomLeft'
    <3> DEFINE length == File!LineBytes(row)
    <3>1. File!FileBytes(lines) + length + (Len(lines) + 1) * 256 <= limit
      BY <1>7 DEF File!AppendFits, File!ReplayMetadataBytes
    <3>2. length \in Int /\ LineLimit(row) <= length + 256
      BY <1>4
    <3> HIDE DEF length
    <3>3. Roomy(Append(lines, row))
      BY <1>1, <1>4, <3>1, <3>2, RoomyAppended
    <3>4. Roomy(lines)'
      BY <1>3, <2>2, <3>3 DEF Roomy
    <3> QED BY <3>4 DEF RoomLeft
  <2>6. PICK todo \in Seq(FileStages) : todo = Tail(op.todo)
    BY <1>1, TailIs
  <2>7. FileTypes'
    <3>1. lines' \in Seq(FileRows)
      BY <1>1, <1>4, <2>2, AppendProperties
    <3>2. acked' \subseteq FileIds
      BY <1>1, <1>4, <2>1 DEF FileTypes, FileRows
    <3>3. op' \in Operations
      BY <2>1, <2>6, TurnIs
    <3> QED BY <1>1, <1>3, <3>1, <3>2, <3>3 DEF FileTypes, Operations
  <2>8. todo # <<>> => todo[1][1] \notin {"prepare", "append", "flush"}
    BY <1>1, <1>5, <2>6, AppendGoesOn
  <2>9. StagesOk(todo, lines')
    <3>1. EnqueueStages(todo, lines')
      BY <1>1, <1>5, <2>6, AppendGoesOn
    <3> QED BY <3>1 DEF StagesOk
  <2>10. StagesOk(todo, lines)'
    <3>1. EnqueueStages(todo, lines)'
      BY <1>1, <1>5, <2>6, AppendGoesOn
    <3> QED BY <3>1 DEF StagesOk
  <2>11. op' = File!Turn(todo)
    BY <2>1, <2>6
  <2> QED BY <2>4, <2>5, <2>7, <2>8, <2>10, <2>11, TurnGoesOn
<1> QED BY <1>6, <1>7

\* Whatever a crash leaves of a row leaves room for the answers, too.
LEMMA CrashKeeps ==
  ASSUME FileInv, File!Crash
  PROVE  FileInv'
<1> DEFINE none == <<>>
<1>1. /\ op' = File!Turn(none) /\ none \in Seq(FileStages) /\ none = <<>>
      /\ UNCHANGED <<generation, recovery, acked, answered, flushing, bank, limit>>
      /\ FileTypes /\ LinesInv /\ RoomLeft
  BY DEF File!Crash, File!Turn, FileInv
<1> HIDE DEF none
<1>2. op' \in Operations
  BY <1>1, TurnIs
<1>3. CASE UNCHANGED <<lines, junked>>
  <2>1. FileTypes'
    BY <1>1, <1>2, <1>3 DEF FileTypes, Operations
  <2>2. LinesInv' /\ RoomLeft'
    BY <1>1, <1>3, LinesKept, RoomKept
  <2> QED BY <1>1, <2>1, <2>2, TurnGoesOn
<1>4. CASE ~UNCHANGED <<lines, junked>>
  <2>1. File!Do("append") /\ ~File!Unterminated /\ File!AppendFits(op.todo[1][2])
    BY <1>4 DEF File!Crash
  <2>2. /\ lines \in Seq(FileRows) /\ limit \in Nat /\ AllEnded(lines) /\ NoJunk(lines)
    BY <2>1, AppendBegins
  <2>3. PICK n \in NewRows, b \in Banks :
          /\ op.todo[1][2] = NewRow(n, b)
          /\ <<n>> \notin File!IdsOf(lines) /\ <<"torn", <<n>>>> \notin File!IdsOf(lines)
    BY <2>1, AppendBegins
  <2> DEFINE row == NewRow(n, b)
             cut == [row EXCEPT !.ended = FALSE]
             length == RowBytes + 53
  <2>4. /\ row \in FileRows /\ row.id = <<n>> /\ File!LineBytes(row) = length
        /\ cut \in FileRows /\ cut.id = <<n>> /\ ~cut.junk
        /\ cut.state = File!NoState /\ cut.range = File!NoRange
        /\ LineLimit(cut) = RowBytes + 167
        /\ RowBytes \in Nat /\ RowBytes >= 125
    BY NewRowIs, RouterConstants DEF File!QueueFileConstants
  <2>5. File!FileBytes(lines) + length + (Len(lines) + 1) * 256 <= limit
    BY <2>1, <2>3, <2>4 DEF File!AppendFits, File!ReplayMetadataBytes
  <2>6. length \in Nat /\ length >= 178 /\ LineLimit(cut) <= length + 256
    BY <2>4
  <2>7. row = op.todo[1][2]
    BY <2>3
  <2>8. \/ lines' = Append(lines, cut) /\ UNCHANGED junked
        \/ \E piece \in {1, length - 2} :
             /\ lines' = Append(lines, File!Junk(<<"torn", <<n>>>>, piece, FALSE))
             /\ junked' = junked \cup {<<"torn", <<n>>>>}
    BY <1>4, <2>4, <2>7 DEF File!Crash
  <2> HIDE DEF row, cut, length
  <2>9. ASSUME NEW e \in FileRows, LineLimit(e) <= length + 256, e.id \notin File!IdsOf(lines),
               e.id \in RowNames \cup (IF e.junk THEN TornIds ELSE {}),
               e.state = File!NoState, e.range = File!NoRange,
               lines' = Append(lines, e),
               junked' = IF e.junk THEN junked \cup {e.id} ELSE junked
        PROVE  FileInv'
    <3>1. LinesInv'
      <4>1. acked' \subseteq (IF e.junk THEN acked ELSE acked \cup {e.id})
        BY <1>1
      <4> QED BY <1>1, <2>2, <2>9, <4>1, LineAppended
    <3>2. Roomy(Append(lines, e))
      BY <2>2, <2>5, <2>6, <2>9, RoomyAppended
    <3>3. RoomLeft'
      <4>1. Roomy(lines)'
        BY <1>1, <2>9, <3>2 DEF Roomy
      <4> QED BY <4>1 DEF RoomLeft
    <3>4. FileTypes'
      <4>1. lines' \in Seq(FileRows)
        BY <2>2, <2>9, AppendProperties
      <4>2. junked' \subseteq FileIds
        BY <1>1, <2>9 DEF FileTypes, FileRows
      <4> QED BY <1>1, <1>2, <4>1, <4>2 DEF FileTypes, Operations
    <3> QED BY <1>1, <3>1, <3>3, <3>4, TurnGoesOn
  <2>10. CASE lines' = Append(lines, cut) /\ UNCHANGED junked
    <3>1. cut.id \in RowNames /\ cut.id \notin File!IdsOf(lines)
      BY <2>3, <2>4 DEF RowNames
    <3> QED BY <2>4, <2>6, <2>9, <2>10, <3>1
  <2>11. CASE \E piece \in {1, length - 2} :
               /\ lines' = Append(lines, File!Junk(<<"torn", <<n>>>>, piece, FALSE))
               /\ junked' = junked \cup {<<"torn", <<n>>>>}
    <3>1. PICK piece \in {1, length - 2} :
               /\ lines' = Append(lines, File!Junk(<<"torn", <<n>>>>, piece, FALSE))
               /\ junked' = junked \cup {<<"torn", <<n>>>>}
      BY <2>11
    <3> DEFINE e == File!Junk(<<"torn", <<n>>>>, piece, FALSE)
    <3>2. piece \in Nat /\ piece <= length
      BY <2>6
    <3>3. /\ e \in FileRows /\ e.id = <<"torn", <<n>>>> /\ e.junk
          /\ e.state = File!NoState /\ e.range = File!NoRange /\ LineLimit(e) <= length + 256
      BY <2>6, <3>2, TornIs
    <3>4. e.id \in TornIds /\ e.id \notin File!IdsOf(lines)
      BY <2>3, <3>3 DEF TornIds
    <3>5. lines' = Append(lines, e) /\ junked' = junked \cup {e.id}
      BY <3>1, <3>3
    <3> HIDE DEF e
    <3> QED BY <2>9, <3>3, <3>4, <3>5
  <2> QED BY <2>8, <2>10, <2>11
<1> QED BY <1>3, <1>4

-----------------------------------------------------------------------------
(* The callers *)

LEMMA StageIs ==
  ASSUME NEW do \in StageNames, NEW id \in FileIds \cup FileRows \cup {<<>>}
  PROVE  File!Stage(do, id) \in FileStages /\ File!Stage(do, id)[1] = do /\ File!Stage(do, id)[2] = id
<1>1. <<do, id>> \in StageNames \X (FileIds \cup FileRows \cup {<<>>})
  OBVIOUS
<1>2. <<do, id>>[1] = do /\ <<do, id>>[2] = id
  OBVIOUS
<1> QED BY <1>1, <1>2 DEF File!Stage, FileStages

\* An operation begins with none under way.
LEMMA Starts ==
  ASSUME FileInv, NEW todo \in Seq(FileStages), op' = File!Turn(todo), LinesInv', RoomLeft',
         UNCHANGED <<lines, generation, recovery, junked, flushing, bank, limit>>,
         acked' \subseteq FileIds, answered' \subseteq FileIds,
         StagesOk(todo, lines)', todo # <<>> => todo[1][1] \notin {"prepare", "append", "flush"}
  PROVE  FileInv'
<1>1. op' \in Operations
  BY TurnIs
<1>2. FileTypes'
  BY <1>1 DEF FileInv, FileTypes, Operations
<1> QED BY <1>2, TurnGoesOn

LEMMA SameSequence ==
  ASSUME NEW S, NEW s \in Seq(S), NEW t \in Seq(S), Len(s) = Len(t), \A n \in 1..Len(s) : s[n] = t[n]
  PROVE  s = t
OBVIOUS

LEMMA Joined3 ==
  ASSUME NEW S, NEW a \in S, NEW b \in S, NEW c \in S
  PROVE  <<a, b>> \o <<c>> = <<a, b, c>>
<1> DEFINE s == <<a, b>>
           t == <<c>>
           u == <<a, b, c>>
           v == s \o t
<1>1. s \in Seq(S) /\ Len(s) = 2 /\ s[1] = a /\ s[2] = b
  OBVIOUS
<1>2. t \in Seq(S) /\ Len(t) = 1 /\ t[1] = c
  OBVIOUS
<1>3. u \in Seq(S) /\ Len(u) = 3 /\ u[1] = a /\ u[2] = b /\ u[3] = c
  OBVIOUS
<1> HIDE DEF s, t, u
<1>4. /\ v \in Seq(S) /\ Len(v) = Len(s) + Len(t)
      /\ \A i \in 1..Len(v) : v[i] = IF i <= Len(s) THEN s[i] ELSE t[i - Len(s)]
  <2>1. s \in Seq(S) /\ t \in Seq(S)
    BY <1>1, <1>2
  <2> QED BY ONLY <2>1, ConcatProperties
<1> HIDE DEF v
<1>5. Len(v) = 3 /\ v[1] = s[1] /\ v[2] = s[2] /\ v[3] = t[1]
  BY <1>1, <1>2, <1>4
<1>6. \A n \in 1..Len(v) : n = 1 \/ n = 2 \/ n = 3
  BY <1>5
<1>7. \A n \in 1..Len(v) : v[n] = u[n]
  BY <1>1, <1>2, <1>3, <1>5, <1>6
<1>8. v = u
  BY <1>3, <1>4, <1>5, <1>7, SameSequence
<1> QED BY <1>8 DEF s, t, u, v

LEMMA Joined5 ==
  ASSUME NEW S, NEW a \in S, NEW b \in S, NEW c \in S
  PROVE  <<a, b, c>> \o <<a, b>> = <<a, b, c, a, b>>
<1> DEFINE s == <<a, b, c>>
           t == <<a, b>>
           u == <<a, b, c, a, b>>
           v == s \o t
<1>1. s \in Seq(S) /\ Len(s) = 3 /\ s[1] = a /\ s[2] = b /\ s[3] = c
  OBVIOUS
<1>2. t \in Seq(S) /\ Len(t) = 2 /\ t[1] = a /\ t[2] = b
  OBVIOUS
<1>3. u \in Seq(S) /\ Len(u) = 5 /\ u[1] = a /\ u[2] = b /\ u[3] = c /\ u[4] = a /\ u[5] = b
  OBVIOUS
<1> HIDE DEF s, t, u
<1>4. /\ v \in Seq(S) /\ Len(v) = Len(s) + Len(t)
      /\ \A i \in 1..Len(v) : v[i] = IF i <= Len(s) THEN s[i] ELSE t[i - Len(s)]
  <2>1. s \in Seq(S) /\ t \in Seq(S)
    BY <1>1, <1>2
  <2> QED BY ONLY <2>1, ConcatProperties
<1> HIDE DEF v
<1>5. /\ Len(v) = 5 /\ v[1] = s[1] /\ v[2] = s[2] /\ v[3] = s[3]
      /\ v[4] = t[1] /\ v[5] = t[2]
  BY <1>1, <1>2, <1>4
<1>6. \A n \in 1..Len(v) : n = 1 \/ n = 2 \/ n = 3 \/ n = 4 \/ n = 5
  BY <1>5
<1>7. \A n \in 1..Len(v) : v[n] = u[n]
  BY <1>1, <1>2, <1>3, <1>5, <1>6
<1>8. v = u
  BY <1>3, <1>4, <1>5, <1>7, SameSequence
<1> QED BY <1>8 DEF s, t, u, v

LEMMA PrepareIs ==
  ASSUME NEW c
  PROVE  LET a == File!Stage("snapshot", <<>>)
             b == File!Stage("prepare", <<>>) IN
           /\ File!Prepare \o <<c>> = <<a, b, c>>
           /\ (File!Prepare \o <<c>>) \o File!Prepare = <<a, b, c, a, b>>
<1> DEFINE a == File!Stage("snapshot", <<>>)
           b == File!Stage("prepare", <<>>)
           S == {a, b, c}
<1>1. File!Prepare = <<a, b>>
  BY DEF File!Prepare
<1>2. a \in S /\ b \in S /\ c \in S
  OBVIOUS
<1> HIDE DEF a, b, S
<1>3. <<a, b>> \o <<c>> = <<a, b, c>> /\ <<a, b, c>> \o <<a, b>> = <<a, b, c, a, b>>
  BY <1>2, Joined3, Joined5
<1> QED BY <1>1, <1>3 DEF a, b

LEMMA ThreeStages ==
  ASSUME NEW a \in FileStages, NEW b \in FileStages, NEW c \in FileStages
  PROVE  LET s == <<a, b, c>> IN
           /\ s \in Seq(FileStages) /\ s # <<>> /\ DOMAIN s = 1..3 /\ Len(s) = 3
           /\ s[1] = a /\ s[2] = b /\ s[3] = c
OBVIOUS

LEMMA FiveStages ==
  ASSUME NEW a \in FileStages, NEW b \in FileStages, NEW c \in FileStages
  PROVE  LET s == <<a, b, c, a, b>> IN
           /\ s \in Seq(FileStages) /\ s # <<>> /\ DOMAIN s = 1..5 /\ Len(s) = 5
           /\ s[1] = a /\ s[2] = b /\ s[3] = c /\ s[4] = a /\ s[5] = b
OBVIOUS

LEMMA BeginFlushKeeps ==
  ASSUME FileInv, File!BeginFlush
  PROVE  FileInv'
<1> DEFINE a == File!Stage("snapshot", <<>>)
           b == File!Stage("prepare", <<>>)
           c == File!Stage("flush", <<>>)
           todo == <<a, b, c>>
<1>1. ~flushing /\ FileStill
  BY DEF File!BeginFlush, FileStill, File!file, File!history, File!outside
<1>2. op' = File!Turn(todo)
  BY PrepareIs DEF File!BeginFlush, File!Start
<1>3. /\ a \in FileStages /\ a[1] = "snapshot" /\ b \in FileStages /\ b[1] = "prepare"
      /\ c \in FileStages /\ c[1] = "flush"
  BY StageIs DEF StageNames
<1> HIDE DEF a, b, c
<1>4. /\ todo \in Seq(FileStages) /\ todo # <<>> /\ DOMAIN todo = 1..3 /\ Len(todo) = 3
      /\ todo[1] = a /\ todo[2] = b /\ todo[3] = c
  BY <1>3, ThreeStages
<1> HIDE DEF todo
<1>5. \A k \in DOMAIN todo : k = 1 \/ k = 2 \/ k = 3
  BY <1>4
<1>6. FlushStages(todo)
  <2>1. OneOf(todo, {"snapshot", "prepare", "flush"})
    BY <1>3, <1>4, <1>5 DEF OneOf
  <2>2. 2 - 1 = 1 /\ 3 - 1 = 2
    OBVIOUS
  <2>3. After(todo, "prepare", "snapshot") /\ After(todo, "flush", "prepare")
    BY <1>3, <1>4, <1>5, <2>2 DEF After
  <2>4. \A k \in DOMAIN todo : todo[k][1] = "flush" => k = Len(todo)
    BY <1>3, <1>4, <1>5
  <2> QED BY <1>1, <2>1, <2>3, <2>4 DEF FlushStages
<1>7. StagesOk(todo, lines)'
  <2>1. FlushStages(todo)'
    BY <1>1, <1>6 DEF FlushStages, FileStill
  <2> QED BY <2>1 DEF StagesOk
<1>8. LinesInv' /\ RoomLeft'
  BY <1>1, LinesKept, RoomKept DEF FileInv, FileStill
<1>9. acked' \subseteq FileIds /\ answered' \subseteq FileIds
  BY <1>1 DEF FileInv, FileTypes, FileStill
<1>10. todo[1][1] \notin {"prepare", "append", "flush"}
  BY <1>3, <1>4
<1> QED BY <1>1, <1>2, <1>4, <1>7, <1>8, <1>9, <1>10, Starts DEF FileStill

\* A name of the row may not be that of a line.
LEMMA UntriedIsNew ==
  ASSUME FileInv, NEW id \in NewRows, ~File!Tried(id)
  PROVE  <<id>> \notin File!IdsOf(lines) /\ <<"torn", <<id>>>> \notin File!IdsOf(lines)
<1> DEFINE name == <<"torn", <<id>>>>
<1>1. <<id>> \notin File!IdsOf(lines) /\ name \notin junked
  BY DEF File!Tried
<1>2. name \notin RowNames
  BY NamesDiffer
<1>3. name \notin BarrierIds(generation - 1)
  <2>1. generation - 1 \in Nat
    BY RouterConstants DEF FileInv, FileTypes, File!QueueFileConstants
  <2> QED BY <2>1, NewNamesDiffer
<1> HIDE DEF name
<1>4. name \notin File!IdsOf(lines)
  <2> SUFFICES ASSUME NEW n \in DOMAIN lines, lines[n].id = name PROVE FALSE
    BY DEF File!IdsOf
  <2>1. name \in RowNames \cup (IF lines[n].junk THEN TornIds ELSE BarrierIds(generation - 1))
    BY DEF FileInv, LinesInv, OfGeneration
  <2>2. lines[n].junk
    BY <1>2, <1>3, <2>1
  <2>3. name \in JunkIds(lines)
    BY <2>2 DEF JunkIds
  <2> QED BY <1>1, <2>3 DEF FileInv, LinesInv
<1> QED BY <1>1, <1>4 DEF name

LEMMA EnqueueKeeps ==
  ASSUME FileInv, NEW id \in NewRows, File!Enqueue(id)
  PROVE  FileInv'
<1> DEFINE a == File!Stage("snapshot", <<>>)
           b == File!Stage("prepare", <<>>)
           row == NewRow(id, bank)
           c == File!Stage("append", row)
           todo == <<a, b, c, a, b>>
<1>1. FileStill /\ ~File!Tried(id) /\ bank \in Banks
  BY DEF File!Enqueue, FileStill, File!file, File!history, File!outside, FileInv, FileTypes
<1>2. op' = File!Turn(todo)
  <2>1. op' = File!Turn(File!Prepare \o <<c>> \o File!Prepare)
    BY DEF File!Enqueue, File!Start, NewRow
  <2> HIDE DEF c
  <2> QED BY <2>1, PrepareIs
<1>3. row \in FileRows
  BY <1>1, NewRowIs
<1>4. row = File!Row(<<id>>, RowBytes, bank)
  BY DEF NewRow
<1> HIDE DEF row
<1>5. /\ a \in FileStages /\ a[1] = "snapshot" /\ b \in FileStages /\ b[1] = "prepare"
      /\ c \in FileStages /\ c[1] = "append" /\ c[2] = row
  BY <1>3, StageIs DEF StageNames
<1> HIDE DEF a, b, c
<1>6. /\ todo \in Seq(FileStages) /\ todo # <<>> /\ DOMAIN todo = 1..5 /\ Len(todo) = 5
      /\ todo[1] = a /\ todo[2] = b /\ todo[3] = c /\ todo[4] = a /\ todo[5] = b
  BY <1>5, FiveStages
<1> HIDE DEF todo
<1>7. \A k \in DOMAIN todo : k = 1 \/ k = 2 \/ k = 3 \/ k = 4 \/ k = 5
  BY <1>6
<1>8. EnqueueStages(todo, lines)
  <2>1. OneOf(todo, {"snapshot", "prepare", "append"})
    BY <1>5, <1>6, <1>7 DEF OneOf
  <2>2. 2 - 1 = 1 /\ 3 - 1 = 2 /\ 4 - 1 = 3 /\ 5 - 1 = 4
    OBVIOUS
  <2>3. After(todo, "prepare", "snapshot") /\ After(todo, "append", "prepare")
    BY <1>5, <1>6, <1>7, <2>2 DEF After
  <2>4. \A k \in DOMAIN todo : todo[k][1] = "append" => k = 3
    BY <1>5, <1>6, <1>7
  <2>5. <<id>> \notin File!IdsOf(lines) /\ <<"torn", <<id>>>> \notin File!IdsOf(lines)
    BY <1>1, UntriedIsNew
  <2>6. ASSUME NEW k \in DOMAIN todo, todo[k][1] = "append"
        PROVE  \E n \in NewRows, e \in Banks :
                 /\ todo[k][2] = File!Row(<<n>>, RowBytes, e)
                 /\ <<n>> \notin File!IdsOf(lines) /\ <<"torn", <<n>>>> \notin File!IdsOf(lines)
    <3>1. todo[k][2] = File!Row(<<id>>, RowBytes, bank)
      BY <1>4, <1>5, <1>6, <2>4, <2>6
    <3> QED BY <1>1, <2>5, <3>1
  <2>7. \A j, k \in DOMAIN todo : todo[j][1] = "append" /\ todo[k][1] = "append" => j = k
    BY <2>4
  <2> QED BY <2>1, <2>3, <2>6, <2>7 DEF EnqueueStages
<1>9. PICK stages \in Seq(FileStages) : stages = todo
  BY <1>6
<1>13. StagesOk(stages, lines)'
  <2>1. EnqueueStages(stages, lines)
    BY <1>8, <1>9
  <2>2. EnqueueStages(stages, lines)'
    BY <1>1, <2>1 DEF FileStill
  <2> QED BY <2>2 DEF StagesOk
<1>10. LinesInv' /\ RoomLeft'
  BY <1>1, LinesKept, RoomKept DEF FileInv, FileStill
<1>11. acked' \subseteq FileIds /\ answered' \subseteq FileIds
  BY <1>1 DEF FileInv, FileTypes, FileStill
<1>12. stages[1][1] \notin {"prepare", "append", "flush"} /\ op' = File!Turn(stages)
  BY <1>2, <1>5, <1>6, <1>9
<1> QED BY <1>1, <1>10, <1>11, <1>12, <1>13, Starts DEF FileStill

\* A flush goes on, or ends, with the rows that were prepared.
LEMMA PreparedKeeps ==
  ASSUME FileInv, File!Prepared
  PROVE  FileInv'
<1>1. /\ op.point = "next" /\ op.todo \in Seq(FileStages) /\ op.todo # <<>> /\ op.todo[1][1] = "flush"
      /\ StagesOk(op.todo, lines) /\ (OneBank(lines) \/ Roomy(lines))
  BY DEF FileInv, FileTypes, NextInv, File!Prepared, File!Do
<1>2. 1 \in DOMAIN op.todo /\ (Len(op.todo) = 1 => Tail(op.todo) = <<>>)
  BY <1>1, TailIs
<1>3. FlushStages(op.todo)
  <2>1. ~EnqueueStages(op.todo, lines)
    BY <1>1, <1>2 DEF EnqueueStages, OneOf
  <2>2. ~MarkStages(op.todo, lines)
    BY <1>1, <1>2 DEF MarkStages, OneOf
  <2>3. ~AnswerStages(op.todo, lines)
    BY <1>1, <1>2 DEF AnswerStages, OneOf
  <2> QED BY <1>1, <2>1, <2>2, <2>3 DEF StagesOk
<1>4. 1 = Len(op.todo) /\ ~flushing
  BY <1>1, <1>2, <1>3 DEF FlushStages
<1>5. op' = File!Turn(<<>>)
  BY <1>2, <1>4 DEF File!Prepared
<1>6. /\ UNCHANGED <<lines, generation, recovery, acked, junked, answered, bank, limit>>
      /\ flushing' \in BOOLEAN
  BY DEF File!Prepared, File!file, File!history, File!outside
<1>7. LinesInv'
  BY <1>6, LinesKept DEF FileInv
<1>8. RoomLeft'
  <2>1. CASE Roomy(lines)
    <3>1. Roomy(lines)'
      BY <1>6, <2>1 DEF Roomy, LineLimit
    <3> QED BY <3>1 DEF RoomLeft
  <2>2. CASE ~Roomy(lines)
    <3>1. GateProtects(lines) /\ OneBank(lines) /\ Unanswered(lines) = {}
      BY <1>1, <1>4, <2>2 DEF RoomLeft, FileInv
    <3>2. GateProtects(lines)' /\ OneBank(lines)' /\ Unanswered(lines)' = {}
      BY <1>6, <3>1 DEF GateProtects, Gated, NoJunk, OneBank, Open, Unanswered, Sending
    <3> QED BY <3>2 DEF RoomLeft
  <2> QED BY <2>1, <2>2
<1>9. <<>> \in Seq(FileStages)
  OBVIOUS
<1>10. op' \in Operations
  BY <1>5, <1>9, TurnIs
<1>11. FileTypes'
  BY <1>6, <1>10 DEF FileInv, FileTypes, Operations
<1> QED BY <1>5, <1>7, <1>8, <1>9, <1>11, TurnGoesOn

\* A row that is being sent is a line of the file.
LEMMA SendingLines ==
  ASSUME FileTypes, LinesInv
  PROVE  /\ File!SendingIds \subseteq FileIds
         /\ \A n \in Sending(lines) : lines[n].id \in File!SendingIds
         /\ \A id \in File!SendingIds :
              \E n \in Sending(lines) : lines[n].id = id /\ id \in RowIds(lines)
<1>1. File!SendingIds = {lines[n].id : n \in Sending(lines)}
  BY ItemsStates
<1>2. \A n \in Sending(lines) : n \in DOMAIN lines /\ lines[n].id \in FileIds
  <2>1. \A n \in DOMAIN lines : lines[n] \in FileRows
    BY DEF FileTypes
  <2>2. \A r \in FileRows : r.id \in FileIds
    BY DEF FileRows
  <2> QED BY <2>1, <2>2 DEF Sending
<1>3. ASSUME NEW n \in Sending(lines)
      PROVE  ~lines[n].junk
  <2>1. lines[n].state.sending /\ n \in DOMAIN lines
    BY DEF Sending
  <2>2. ~File!NoState.sending
    BY DEF File!NoState
  <2> QED BY <2>1, <2>2 DEF LinesInv, JunkIsBare
<1> QED BY <1>1, <1>2, <1>3 DEF RowIds

\* A flush that ends leaves no answer to wait for.
LEMMA EndFlushKeeps ==
  ASSUME FileInv, File!EndFlush
  PROVE  FileInv'
<1>1. FileTypes /\ LinesInv /\ RoomLeft
  BY DEF FileInv
<1>2. /\ UNCHANGED <<lines, generation, recovery, acked, junked, bank, limit, op>>
      /\ flushing' = FALSE /\ answered' = answered \cup File!SendingIds /\ op = File!Idle
  BY DEF File!EndFlush, File!file, File!outside
<1>3. op' = File!Turn(<<>>)
  BY <1>2 DEF File!Turn
<1>4. LinesInv'
  BY <1>1, <1>2, LinesKept
<1>5. Unanswered(lines)' = {}
  <2>1. \A n \in Sending(lines) : lines[n].id \in answered \cup File!SendingIds
    BY <1>1, SendingLines
  <2> HIDE DEF File!SendingIds
  <2> QED BY <1>2, <2>1 DEF Unanswered, Sending
<1>6. RoomLeft'
  <2>1. Roomy(lines) => Roomy(lines)'
    BY <1>2 DEF Roomy, LineLimit
  <2>2. GateProtects(lines) => GateProtects(lines)'
    BY <1>2 DEF GateProtects, Gated, NoJunk
  <2> QED BY <1>1, <1>2, <1>5, <2>1, <2>2 DEF RoomLeft
<1>7. answered' \subseteq FileIds
  BY <1>1, <1>2, SendingLines DEF FileTypes
<1>8. FileTypes'
  BY <1>1, <1>2, <1>7 DEF FileTypes
<1>9. <<>> \in Seq(FileStages)
  OBVIOUS
<1> QED BY <1>3, <1>4, <1>6, <1>8, <1>9, TurnGoesOn

\* Where nothing but the write bank changes, nothing is lost.
LEMMA BankChanges ==
  ASSUME FileInv, bank' \in Banks,
         UNCHANGED <<lines, generation, recovery, op, acked, junked, answered, flushing, limit>>
  PROVE  FileInv'
<1>1. FileTypes'
  BY DEF FileInv, FileTypes
<1>2. LinesInv'
  BY LinesKept DEF FileInv
<1>3. RoomLeft'
  BY RoomKept DEF FileInv
<1>4. NextInv'
  <2> SUFFICES ASSUME op.point = "next"
               PROVE  NextInv'
    BY DEF NextInv
  <2>1. /\ op.todo # <<>> /\ StagesOk(op.todo, lines)
        /\ op.todo[1][1] \in {"prepare", "append"} => NoJunk(lines)
        /\ op.todo[1][1] = "flush" => OneBank(lines) \/ Roomy(lines)
    BY DEF FileInv, NextInv
  <2>2. PICK todo, f : todo = op.todo /\ f = lines
    OBVIOUS
  <2>3. StagesOk(todo, f)'
    BY <2>1, <2>2, StagesKept
  <2>4. todo = op.todo' /\ f = lines'
    BY <2>2
  <2>5. StagesOk(op.todo, lines)'
    BY <2>3, <2>4
  <2>6. /\ NoJunk(lines) => NoJunk(lines)'
        /\ OneBank(lines) => OneBank(lines)'
        /\ Roomy(lines) => Roomy(lines)'
    BY DEF NoJunk, OneBank, Open, Roomy, LineLimit
  <2> QED BY <2>1, <2>5, <2>6 DEF NextInv
<1>5. PendingInv'
  <2> SUFFICES ASSUME op.point \in {"preserve", "replace"}
               PROVE  PendingInv'
    BY DEF PendingInv
  <2>1. /\ ItemsInv(op.items) /\ StagesOk(op.todo, op.items) /\ PendingRoom(op.items, op.reserved)
        /\ op.todo # <<>> /\ op.todo[1][1] = "flush" => OneBank(op.items) \/ Roomy(op.items)
        /\ op.point = "preserve" => File!JunkOf(lines) # <<>>
        /\ op.point = "replace" =>
             /\ JunkIds(lines) \subseteq File!ToSet(recovery[generation])
             /\ Len(File!JunkOf(lines)) <= Len(recovery[generation])
    BY DEF FileInv, PendingInv
  <2>2. PICK todo, f, reserved : todo = op.todo /\ f = op.items /\ reserved = op.reserved
    OBVIOUS
  <2>3. todo = op.todo' /\ f = op.items' /\ reserved = op.reserved'
    BY <2>2
  <2>4. ItemsInv(f)' /\ StagesOk(todo, f)' /\ PendingRoom(f, reserved)'
    BY <2>1, <2>2, ItemsKept, StagesKept, PendingKept
  <2>5. OneBank(f)' \/ Roomy(f)' \/ ~(OneBank(f) \/ Roomy(f))
    BY DEF OneBank, Open, Roomy, LineLimit
  <2>6. /\ File!JunkOf(lines)' = File!JunkOf(lines) /\ JunkIds(lines)' = JunkIds(lines)
        /\ op.point' = op.point /\ op'.todo = op.todo
    BY DEF JunkIds
  <2> QED BY <2>1, <2>2, <2>3, <2>4, <2>5, <2>6 DEF PendingInv
<1> QED BY <1>1, <1>2, <1>3, <1>4, <1>5 DEF FileInv

LEMMA RerouteKeeps ==
  ASSUME FileInv, File!Reroute
  PROVE  FileInv'
BY BankChanges DEF File!Reroute, File!file, File!history

\* A row an operation reads, unless it is a barrier, is a line of the file.
LEMMA ReadRowIs ==
  ASSUME FileTypes, LinesInv, NEW id \in File!IdsOf(File!Items),
         LET row == File!Items[File!At(id)] IN ~row.named \/ row.state.quarantine = "none"
  PROVE  /\ id \in RowIds(lines) /\ id \in FileIds
         /\ \E m \in DOMAIN lines : FromLine(File!Items[File!At(id)], lines[m]) /\ lines[m].id = id
<1> DEFINE k == File!At(id)
           row == File!Items[k]
<1>1. k \in DOMAIN File!Items /\ row.id = id
  BY AtIs
<1>2. row \in FileRows
  BY <1>1, RowsAreRead
<1>3. \A m \in DOMAIN lines : ~IsBarrier(row, m)
  BY BarrierIsCorrupt DEF IsBarrier, TornAs
<1>4. PICK m \in DOMAIN lines : FromLine(row, lines[m])
  BY <1>1, <1>3, RowsAreRead
<1>5. ~lines[m].junk /\ lines[m].id = id
  BY <1>1, <1>4 DEF FromLine
<1>6. id \in FileIds
  BY <1>1, <1>2 DEF FileRows
<1> QED BY <1>4, <1>5, <1>6 DEF RowIds

LEMMA OneStage ==
  ASSUME NEW a \in FileStages
  PROVE  LET s == <<a>> IN
           s \in Seq(FileStages) /\ s # <<>> /\ DOMAIN s = 1..1 /\ Len(s) = 1 /\ s[1] = a
OBVIOUS

LEMMA TwoStages ==
  ASSUME NEW a \in FileStages, NEW b \in FileStages
  PROVE  LET s == <<a, b>> IN
           /\ s \in Seq(FileStages) /\ s # <<>> /\ DOMAIN s = 1..2 /\ Len(s) = 2
           /\ s[1] = a /\ s[2] = b
OBVIOUS

LEMMA EnsureOperationIdsKeeps ==
  ASSUME FileInv, NEW id \in File!IdsOf(File!Items), File!EnsureOperationIds(id)
  PROVE  FileInv'
<1> DEFINE a == File!Stage("name", id)
           todo == <<a>>
<1>1. FileStill /\ ~File!Items[File!At(id)].named /\ op' = File!Turn(todo)
  BY DEF File!EnsureOperationIds, File!Start, FileStill, File!file, File!history, File!outside
<1>2. id \in RowIds(lines) /\ id \in FileIds
  BY <1>1, ReadRowIs DEF FileInv
<1>3. a \in FileStages /\ a[1] = "name" /\ a[2] = id
  BY <1>2, StageIs DEF StageNames
<1> HIDE DEF a
<1>4. todo \in Seq(FileStages) /\ todo # <<>> /\ DOMAIN todo = 1..1 /\ todo[1] = a
  BY <1>3, OneStage
<1> HIDE DEF todo
<1>5. \A k \in DOMAIN todo : k = 1
  BY <1>4
<1>6. MarkStages(todo, lines)
  BY <1>2, <1>3, <1>4, <1>5 DEF MarkStages, OneOf
<1>7. PICK stages \in Seq(FileStages) : stages = todo
  BY <1>4
<1>8. StagesOk(stages, lines)'
  <2>1. StagesOk(stages, lines)
    BY <1>6, <1>7 DEF StagesOk
  <2>2. PICK f : f = lines
    OBVIOUS
  <2>3. StagesOk(stages, f)'
    BY <1>1, <2>1, <2>2, StagesKept DEF FileStill
  <2>4. f = lines'
    BY <1>1, <2>2 DEF FileStill
  <2> QED BY <2>3, <2>4
<1>9. LinesInv' /\ RoomLeft'
  BY <1>1, LinesKept, RoomKept DEF FileInv, FileStill
<1>10. acked' \subseteq FileIds /\ answered' \subseteq FileIds
  BY <1>1 DEF FileInv, FileTypes, FileStill
<1>11. stages[1][1] \notin {"prepare", "append", "flush"} /\ op' = File!Turn(stages)
  BY <1>1, <1>3, <1>4, <1>7
<1> QED BY <1>1, <1>8, <1>9, <1>10, <1>11, Starts DEF FileStill

\* The row that is marked is the only one.
LEMMA MarkSendingKeeps ==
  ASSUME FileInv, NEW id \in File!IdsOf(File!Items), File!MarkSending(id)
  PROVE  FileInv'
<1> DEFINE a == File!Stage("snapshot", <<>>)
           b == File!Stage("name", id)
           c == File!Stage("mark", id)
           todo == <<a, b, c>>
           row == File!Items[File!At(id)]
<1>1. /\ UNCHANGED <<lines, generation, recovery, acked, junked, flushing, bank, limit>>
      /\ answered' = answered \ {id} /\ flushing /\ File!SendingIds = {}
      /\ row.state.quarantine = "none" /\ op' = File!Turn(todo)
  BY DEF File!MarkSending, File!Start, File!file, File!outside
<1>2. FileTypes /\ LinesInv /\ RoomLeft
  BY DEF FileInv
<1>3. id \in RowIds(lines) /\ id \in FileIds
  BY <1>1, <1>2, ReadRowIs
<1>4. PICK m \in DOMAIN lines : FromLine(row, lines[m]) /\ lines[m].id = id
  BY <1>1, <1>2, ReadRowIs
<1>5. \A n \in DOMAIN lines : lines[n].id = id => n \in Open(lines)
  <2>1. ~lines[m].junk /\ lines[m].state.quarantine = "none"
    BY <1>1, <1>4 DEF FromLine
  <2>2. \A n \in DOMAIN lines : lines[n].id = id => n = m
    BY <1>2, <1>4 DEF LinesInv, Distinct
  <2> QED BY <1>4, <2>1, <2>2 DEF Open
<1>6. Sending(lines) = {}
  BY <1>1, <1>2, SendingLines
<1>7. /\ a \in FileStages /\ a[1] = "snapshot" /\ b \in FileStages /\ b[1] = "name" /\ b[2] = id
      /\ c \in FileStages /\ c[1] = "mark" /\ c[2] = id
  BY <1>3, StageIs DEF StageNames
<1> HIDE DEF a, b, c, row
<1>8. /\ todo \in Seq(FileStages) /\ todo # <<>> /\ DOMAIN todo = 1..3 /\ Len(todo) = 3
      /\ todo[1] = a /\ todo[2] = b /\ todo[3] = c
  BY <1>7, ThreeStages
<1> HIDE DEF todo
<1>9. \A k \in DOMAIN todo : k = 1 \/ k = 2 \/ k = 3
  BY <1>8
<1>10. MarkStages(todo, lines)
  <2>1. OneOf(todo, {"snapshot", "name", "mark"})
    BY <1>7, <1>8, <1>9 DEF OneOf
  <2>2. \A k \in DOMAIN todo : todo[k][1] # "snapshot" => todo[k][2] \in RowIds(lines)
    BY <1>3, <1>7, <1>8, <1>9
  <2>3. \A k \in DOMAIN todo : todo[k][1] = "mark" => k = Len(todo) /\ todo[k][2] = id
    BY <1>7, <1>8, <1>9
  <2> QED BY <1>1, <1>5, <1>6, <2>1, <2>2, <2>3 DEF MarkStages
<1>11. PICK stages \in Seq(FileStages) : stages = todo
  BY <1>8
<1>12. StagesOk(stages, lines)'
  <2>1. MarkStages(stages, lines)
    BY <1>10, <1>11
  <2>2. PICK f : f = lines
    OBVIOUS
  <2>3. MarkStages(stages, f)'
    BY <1>1, <2>1, <2>2 DEF MarkStages
  <2>4. f = lines'
    BY <1>1, <2>2
  <2>5. MarkStages(stages, lines)'
    BY <2>3, <2>4
  <2> QED BY <2>5 DEF StagesOk
<1>13. LinesInv'
  BY <1>1, <1>2, LinesKept
<1>14. RoomLeft'
  <2>1. Unanswered(lines)' = {} /\ Unanswered(lines) = {}
    BY <1>1, <1>6 DEF Unanswered, Sending
  <2>2. Roomy(lines) => Roomy(lines)'
    BY <1>1 DEF Roomy, LineLimit
  <2>3. GateProtects(lines) => GateProtects(lines)'
    BY <1>1 DEF GateProtects, Gated, NoJunk
  <2>4. OneBank(lines) => OneBank(lines)'
    BY <1>1 DEF OneBank, Open
  <2> QED BY <1>1, <1>2, <2>1, <2>2, <2>3, <2>4 DEF RoomLeft
<1>15. acked' \subseteq FileIds /\ answered' \subseteq FileIds
  BY <1>1, <1>2 DEF FileTypes
<1>16. stages[1][1] \notin {"prepare", "append", "flush"} /\ op' = File!Turn(stages)
  BY <1>1, <1>7, <1>8, <1>11
<1> QED BY <1>1, <1>12, <1>13, <1>14, <1>15, <1>16, Starts

\* The stages that record an answer.
AnswersOf(id) ==
  {<<File!Stage(do, id)>> : do \in {"deny", "refuse", "release", "deliver"}}
    \cup {<<File!Stage("count", id), File!Stage("release", id)>>}
LEMMA AnswersAreStages ==
  ASSUME NEW id \in FileIds, NEW todo \in AnswersOf(id)
  PROVE  /\ todo \in Seq(FileStages) /\ todo # <<>>
         /\ OneOf(todo, {"deliver", "deny", "refuse", "release", "count"})
         /\ \A k \in DOMAIN todo :
              todo[k][2] = id /\ (todo[k][1] = "deliver" => k = Len(todo) /\ todo = <<File!Stage("deliver", id)>>)
         /\ todo[1][1] \notin {"prepare", "append", "flush"}
<1>1. ASSUME NEW do \in {"deny", "refuse", "release", "deliver"}, todo = <<File!Stage(do, id)>>
      PROVE  /\ todo \in Seq(FileStages) /\ todo # <<>>
             /\ OneOf(todo, {"deliver", "deny", "refuse", "release", "count"})
             /\ \A k \in DOMAIN todo :
                  todo[k][2] = id /\ (todo[k][1] = "deliver" => k = Len(todo) /\ todo = <<File!Stage("deliver", id)>>)
             /\ todo[1][1] \notin {"prepare", "append", "flush"}
  <2> DEFINE a == File!Stage(do, id)
             s == <<a>>
  <2>1. a \in FileStages /\ a[1] = do /\ a[2] = id
    BY StageIs DEF StageNames
  <2>2. do = "deliver" => a = File!Stage("deliver", id)
    OBVIOUS
  <2> HIDE DEF a
  <2>3. s \in Seq(FileStages) /\ s # <<>> /\ DOMAIN s = 1..1 /\ Len(s) = 1 /\ s[1] = a
    BY <2>1, OneStage
  <2>4. do = "deliver" => s = <<File!Stage("deliver", id)>>
    BY <2>2
  <2>5. todo = s
    BY <1>1 DEF a
  <2> HIDE DEF s
  <2>6. \A k \in DOMAIN s : k = 1
    BY <2>3
  <2> QED BY <2>1, <2>3, <2>4, <2>5, <2>6 DEF OneOf
<1>2. ASSUME todo = <<File!Stage("count", id), File!Stage("release", id)>>
      PROVE  /\ todo \in Seq(FileStages) /\ todo # <<>>
             /\ OneOf(todo, {"deliver", "deny", "refuse", "release", "count"})
             /\ \A k \in DOMAIN todo :
                  todo[k][2] = id /\ todo[k][1] # "deliver"
             /\ todo[1][1] \notin {"prepare", "append", "flush"}
  <2> DEFINE a == File!Stage("count", id)
             b == File!Stage("release", id)
             s == <<a, b>>
  <2>1. a \in FileStages /\ a[1] = "count" /\ a[2] = id /\ b \in FileStages /\ b[1] = "release" /\ b[2] = id
    BY StageIs DEF StageNames
  <2>2. todo = s
    BY <1>2
  <2> HIDE DEF a, b
  <2>3. s \in Seq(FileStages) /\ s # <<>> /\ DOMAIN s = 1..2 /\ s[1] = a /\ s[2] = b
    BY <2>1, TwoStages
  <2> HIDE DEF s
  <2>4. \A k \in DOMAIN s : k = 1 \/ k = 2
    BY <2>3
  <2> QED BY <2>1, <2>2, <2>3, <2>4 DEF OneOf
<1> QED BY <1>1, <1>2 DEF AnswersOf

\* The answer that arrives is for the row that is marked, and for that one only.
LEMMA AnswerKeeps ==
  ASSUME FileInv, NEW id \in File!IdsOf(File!Items), File!Answer(id)
  PROVE  FileInv'
<1>1. FileTypes /\ LinesInv /\ RoomLeft
  BY DEF FileInv
<1>2. /\ UNCHANGED <<lines, generation, recovery, junked, flushing, bank, limit>>
      /\ flushing /\ id \in File!Awaited /\ answered' = answered \cup {id}
  BY DEF File!Answer, File!file, File!outside
<1>3. id \in File!SendingIds
  BY <1>2 DEF File!Awaited
<1>4. PICK m \in Sending(lines) : lines[m].id = id /\ id \in RowIds(lines)
  BY <1>1, <1>3, SendingLines
<1>5. id \in FileIds
  BY <1>1, <1>3, SendingLines
<1>6. PICK todo \in AnswersOf(id) :
        /\ op' = File!Turn(todo)
        /\ IF todo = <<File!Stage("deliver", id)>> THEN acked' = acked \ {id} ELSE acked' \subseteq acked
  <2>1. \/ \E do \in {"deny", "refuse", "release"} : op' = File!Turn(<<File!Stage(do, id)>>) /\ acked' = acked
        \/ op' = File!Turn(<<File!Stage("deliver", id)>>) /\ acked' = acked \ {id}
        \/ op' = File!Turn(<<File!Stage("count", id), File!Stage("release", id)>>) /\ acked' = acked
    BY DEF File!Answer, File!Start
  <2>2. CASE \E do \in {"deny", "refuse", "release"} : op' = File!Turn(<<File!Stage(do, id)>>) /\ acked' = acked
    <3>1. PICK do \in {"deny", "refuse", "release"} : op' = File!Turn(<<File!Stage(do, id)>>) /\ acked' = acked
      BY <2>2
    <3>2. <<File!Stage(do, id)>> \in AnswersOf(id)
      BY DEF AnswersOf
    <3>3. <<File!Stage(do, id)>> # <<File!Stage("deliver", id)>>
      BY DEF File!Stage
    <3> QED BY <3>1, <3>2, <3>3
  <2>3. CASE op' = File!Turn(<<File!Stage("deliver", id)>>) /\ acked' = acked \ {id}
    BY <2>3 DEF AnswersOf
  <2>4. CASE op' = File!Turn(<<File!Stage("count", id), File!Stage("release", id)>>) /\ acked' = acked
    <3>1. <<File!Stage("count", id), File!Stage("release", id)>> # <<File!Stage("deliver", id)>>
      OBVIOUS
    <3> QED BY <2>4, <3>1 DEF AnswersOf
  <2> QED BY <2>1, <2>2, <2>3, <2>4
<1>7. /\ todo \in Seq(FileStages) /\ todo # <<>>
      /\ OneOf(todo, {"deliver", "deny", "refuse", "release", "count"})
      /\ \A k \in DOMAIN todo :
           todo[k][2] = id /\ (todo[k][1] = "deliver" => k = Len(todo) /\ todo = <<File!Stage("deliver", id)>>)
      /\ todo[1][1] \notin {"prepare", "append", "flush"}
  BY <1>5, AnswersAreStages
<1>8. Unanswered(lines)' = {}
  <2>1. \A n \in Sending(lines) : lines[n].id = id
    BY <1>1, <1>4 DEF LinesInv, OneSent
  <2> QED BY <1>2, <2>1 DEF Unanswered, Sending
<1>9. AnswerStages(todo, lines)'
  <2>1. \A k \in DOMAIN todo : todo[k][1] = "deliver" => id \notin acked'
    BY <1>6, <1>7
  <2>2. \A k \in DOMAIN todo : todo[k][2] \in RowIds(lines)'
    BY <1>2, <1>4, <1>7 DEF RowIds
  <2>3. \A k \in DOMAIN todo : todo[k][1] = "deliver" => todo[k][2] \notin acked'
    BY <1>7, <2>1
  <2> QED BY <1>7, <1>8, <2>2, <2>3 DEF AnswerStages, OneOf
<1>10. acked' \subseteq acked
  BY <1>6
<1>11. LinesInv'
  BY <1>1, <1>2, <1>10 DEF LinesInv, Rooms, Recovered, RowIds
<1>12. RoomLeft'
  <2>1. Roomy(lines) => Roomy(lines)'
    BY <1>2 DEF Roomy, LineLimit
  <2>2. GateProtects(lines) => GateProtects(lines)'
    BY <1>2 DEF GateProtects, Gated, NoJunk
  <2>3. OneBank(lines) => OneBank(lines)'
    BY <1>2 DEF OneBank, Open
  <2> QED BY <1>1, <1>2, <1>8, <2>1, <2>2, <2>3 DEF RoomLeft
<1>13. acked' \subseteq FileIds /\ answered' \subseteq FileIds
  BY <1>1, <1>2, <1>5, <1>10 DEF FileTypes
<1>14. StagesOk(todo, lines)'
  BY <1>9 DEF StagesOk
<1> QED BY <1>2, <1>6, <1>7, <1>11, <1>12, <1>13, <1>14, Starts

-----------------------------------------------------------------------------
(* The file the service finds *)

LEMMA LeftIs ==
  ASSUME NEW id, <<id>> \in RowNames, NEW in \in {"A", "B"}, NEW named \in BOOLEAN
  PROVE  LET r == Left(id, in, named) IN
           /\ r \in FileRows /\ r.id = <<id>> /\ r.ended
           /\ r.state = File!NoState /\ r.range = File!NoRange
           /\ [r EXCEPT !.ended = FALSE] \in FileRows /\ [r EXCEPT !.ended = FALSE].id = <<id>>
           /\ [r EXCEPT !.ended = FALSE].state = File!NoState
           /\ [r EXCEPT !.ended = FALSE].range = File!NoRange
<1> DEFINE row == Lines!Row(<<id>>, RowBytes, in)
           r == [row EXCEPT !.named = named]
           q == [r EXCEPT !.ended = FALSE]
<1>1. <<id>> \in FileIds /\ in \in RowBanks /\ RowBytes \in Nat
  BY RouterConstants DEF FileIds, RowBanks, File!QueueFileConstants
<1>2. File!NoState \in RowStates
  BY DEF File!NoState, RowStates
<1>3. /\ row \in FileRows /\ row.id = <<id>> /\ row.ended
      /\ row.state = File!NoState /\ row.range = File!NoRange
  BY <1>1, <1>2 DEF Lines!Row, Lines!NoState, Lines!NoRange, File!NoState, File!NoRange, FileRows
<1> HIDE DEF row
<1>4. /\ r \in FileRows /\ r.id = <<id>> /\ r.ended
      /\ r.state = File!NoState /\ r.range = File!NoRange
  BY <1>3 DEF FileRows
<1> HIDE DEF r
<1>5. /\ q \in FileRows /\ q.id = <<id>>
      /\ q.state = File!NoState /\ q.range = File!NoRange
  BY <1>4 DEF FileRows
<1> QED BY <1>4, <1>5 DEF r, row, Left

LEMMA LeftJunkIs ==
  ASSUME NEW id \in RowNames, NEW bytes \in Nat, NEW ended \in BOOLEAN
  PROVE  LET r == Lines!Junk(id, bytes, ended) IN
           /\ r \in FileRows /\ r.id = id /\ r.ended = ended
           /\ r.state = File!NoState /\ r.range = File!NoRange
<1> DEFINE row == Lines!Row(id, bytes, "none")
           r == [row EXCEPT !.junk = TRUE]
           q == [r EXCEPT !.ended = ended]
<1>1. id \in FileIds /\ "none" \in RowBanks
  BY DEF FileIds, RowBanks
<1>2. File!NoState \in RowStates
  BY DEF File!NoState, RowStates
<1>3. /\ row \in FileRows /\ row.id = id
      /\ row.state = File!NoState /\ row.range = File!NoRange
  BY <1>1, <1>2 DEF Lines!Row, Lines!NoState, Lines!NoRange, File!NoState, File!NoRange, FileRows
<1>4. Lines!Junk(id, bytes, ended) = [row EXCEPT !.junk = TRUE, !.ended = ended]
  BY DEF Lines!Junk
<1> HIDE DEF row
<1>5. /\ r \in FileRows /\ r.id = id
      /\ r.state = File!NoState /\ r.range = File!NoRange
  BY <1>3 DEF FileRows
<1>6. Lines!Junk(id, bytes, ended) = q
  BY <1>4
<1> HIDE DEF r
<1>7. /\ q \in FileRows /\ q.id = id /\ q.ended = ended
      /\ q.state = File!NoState /\ q.range = File!NoRange
  BY <1>5 DEF FileRows
<1> QED BY <1>6, <1>7 DEF q

\* Rows of an earlier run: none is sent, named by a barrier, or a gate.
Plain(r) == r \in FileRows /\ r.state = File!NoState /\ r.range = File!NoRange /\ r.id \in RowNames
Leavable(f) ==
  /\ f \in Seq(FileRows) /\ \A n \in DOMAIN f : Plain(f[n]) /\ (f[n].ended \/ n = Len(f))
  /\ Distinct(f)

LEMMA TwoLines ==
  ASSUME NEW a, NEW b, Plain(a), Plain(b), a.ended, a.id # b.id
  PROVE  Leavable(<<a, b>>)
<1> DEFINE f == <<a, b>>
<1>1. f \in Seq(FileRows) /\ DOMAIN f = 1..2 /\ Len(f) = 2 /\ f[1] = a /\ f[2] = b
  BY DEF Plain
<1> HIDE DEF f
<1>2. \A n \in DOMAIN f : n = 1 \/ n = 2
  BY <1>1
<1>3. Distinct(f)
  BY <1>1, <1>2 DEF Distinct
<1> QED BY <1>1, <1>2, <1>3 DEF Leavable, f

LEMMA ThreeLines ==
  ASSUME NEW a, NEW b, NEW c, Plain(a), Plain(b), Plain(c), a.ended, b.ended,
         a.id # b.id, a.id # c.id, b.id # c.id
  PROVE  Leavable(<<a, b, c>>)
<1> DEFINE f == <<a, b, c>>
<1>1. f \in Seq(FileRows) /\ DOMAIN f = 1..3 /\ Len(f) = 3 /\ f[1] = a /\ f[2] = b /\ f[3] = c
  BY DEF Plain
<1> HIDE DEF f
<1>2. \A n \in DOMAIN f : n = 1 \/ n = 2 \/ n = 3
  BY <1>1
<1>3. Distinct(f)
  BY <1>1, <1>2 DEF Distinct
<1> QED BY <1>1, <1>2, <1>3 DEF Leavable, f

LEMMA FourLines ==
  ASSUME NEW a, NEW b, NEW c, NEW d, Plain(a), Plain(b), Plain(c), Plain(d), a.ended, b.ended, c.ended,
         a.id # b.id, a.id # c.id, b.id # c.id, a.id # d.id, b.id # d.id, c.id # d.id
  PROVE  Leavable(<<a, b, c, d>>)
<1> DEFINE f == <<a, b, c, d>>
<1>1. /\ f \in Seq(FileRows) /\ DOMAIN f = 1..4 /\ Len(f) = 4
      /\ f[1] = a /\ f[2] = b /\ f[3] = c /\ f[4] = d
  BY DEF Plain
<1> HIDE DEF f
<1>2. \A n \in DOMAIN f : n = 1 \/ n = 2 \/ n = 3 \/ n = 4
  BY <1>1
<1>3. Distinct(f)
  BY <1>1, <1>2 DEF Distinct
<1> QED BY <1>1, <1>2, <1>3 DEF Leavable, f

LEMMA LeftFilesAre ==
  ASSUME NEW f \in LeftFiles
  PROVE  Leavable(f)
<1> DEFINE a == Left("o1", "A", FALSE)
           b == Left("o2", "A", TRUE)
           c == Lines!Junk(<<"j1">>, 10, TRUE)
           d == Lines!Junk(<<"j2">>, 1, TRUE)
           e == Left("o1", "A", TRUE)
           g == Lines!Junk(<<"j3">>, 20, FALSE)
           h == Left("o2", "B", FALSE)
           i == [Left("o3", "A", TRUE) EXCEPT !.ended = FALSE]
<1>1. \A x, in, named : Left(x, in, named).id = <<x>>
  BY DEF Left, Lines!Row
<1>2. \A x, bytes, ended : Lines!Junk(x, bytes, ended).id = x
  BY DEF Lines!Junk, Lines!Row
<1>3. i.id = <<"o3">>
  BY DEF Left, Lines!Row
<1>4. /\ a.id = <<"o1">> /\ b.id = <<"o2">> /\ c.id = <<"j1">> /\ d.id = <<"j2">> /\ e.id = <<"o1">>
      /\ g.id = <<"j3">> /\ h.id = <<"o2">>
  BY <1>1, <1>2
<1>5. LeftFiles = {<<a, b>>, <<c, d, e, g>>, <<e, h, i>>}
  BY DEF LeftFiles
<1>6. \A file \in LeftFiles : \A n \in DOMAIN file : file[n].id \in RowNames
  BY DEF RowNames, File!IdsOf
<1> HIDE DEF LeftFiles
<1>7. /\ <<"o1">> \in RowNames /\ <<"o2">> \in RowNames /\ <<"o3">> \in RowNames
      /\ <<"j1">> \in RowNames /\ <<"j2">> \in RowNames /\ <<"j3">> \in RowNames
  <2> HIDE DEF a, b, c, d, e, g, h, i
  <2>1. <<a, b>> \in LeftFiles /\ <<c, d, e, g>> \in LeftFiles /\ <<e, h, i>> \in LeftFiles
    BY <1>5
  <2>2. a.id \in RowNames /\ b.id \in RowNames
    <3>1. 1 \in DOMAIN <<a, b>> /\ 2 \in DOMAIN <<a, b>> /\ <<a, b>>[1] = a /\ <<a, b>>[2] = b
      OBVIOUS
    <3> QED BY <1>6, <2>1, <3>1
  <2>3. c.id \in RowNames /\ d.id \in RowNames /\ g.id \in RowNames
    <3>1. /\ 1 \in DOMAIN <<c, d, e, g>> /\ 2 \in DOMAIN <<c, d, e, g>> /\ 4 \in DOMAIN <<c, d, e, g>>
          /\ <<c, d, e, g>>[1] = c /\ <<c, d, e, g>>[2] = d /\ <<c, d, e, g>>[4] = g
      OBVIOUS
    <3> QED BY <1>6, <2>1, <3>1
  <2>4. i.id \in RowNames
    <3>1. 3 \in DOMAIN <<e, h, i>> /\ <<e, h, i>>[3] = i
      OBVIOUS
    <3> QED BY <1>6, <2>1, <3>1
  <2> QED BY <1>3, <1>4, <2>2, <2>3, <2>4
<1>8. Plain(a) /\ Plain(b) /\ Plain(e) /\ Plain(h) /\ a.ended /\ e.ended /\ h.ended
  <2>1. "A" \in {"A", "B"} /\ "B" \in {"A", "B"} /\ TRUE \in BOOLEAN /\ FALSE \in BOOLEAN
    OBVIOUS
  <2> QED BY <1>4, <1>7, <2>1, LeftIs DEF Plain
<1>9. Plain(i)
  <2>1. "A" \in {"A", "B"} /\ TRUE \in BOOLEAN
    OBVIOUS
  <2> QED BY <1>3, <1>7, <2>1, LeftIs DEF Plain
<1>10. Plain(c) /\ Plain(d) /\ Plain(g) /\ c.ended /\ d.ended
  <2>1. 10 \in Nat /\ 1 \in Nat /\ 20 \in Nat /\ TRUE \in BOOLEAN /\ FALSE \in BOOLEAN
    OBVIOUS
  <2> QED BY <1>4, <1>7, <2>1, LeftJunkIs, ZenonT(60) DEF Plain
<1> HIDE DEF a, b, c, d, e, g, h, i
<1>11. <<"o1">> # <<"o2">> /\ <<"o1">> # <<"o3">> /\ <<"o2">> # <<"o3">>
  OBVIOUS
<1>12. /\ <<"j1">> # <<"j2">> /\ <<"j1">> # <<"o1">> /\ <<"j2">> # <<"o1">>
       /\ <<"j1">> # <<"j3">> /\ <<"j2">> # <<"j3">> /\ <<"o1">> # <<"j3">>
  OBVIOUS
<1>13. Leavable(<<a, b>>)
  BY <1>4, <1>8, <1>11, TwoLines
<1>14. Leavable(<<c, d, e, g>>)
  BY <1>4, <1>8, <1>10, <1>12, FourLines
<1>15. Leavable(<<e, h, i>>)
  BY <1>3, <1>4, <1>8, <1>9, <1>11, ThreeLines
<1> QED BY <1>5, <1>13, <1>14, <1>15

LEMMA FileBegins ==
  ASSUME File!Init
  PROVE  FileInv
<1>1. /\ lines \in LeftFiles /\ limit \in {485, 1000, 1450} /\ generation = 1
      /\ recovery = [g \in 1..MaxGenerations |-> <<>>] /\ op = File!Idle /\ bank \in Banks
      /\ flushing = FALSE /\ answered = {} /\ acked = RowIds(lines)
      /\ junked = File!ToSet(File!JunkOf(lines))
  BY DEF File!Init, RowIds
<1>2. Leavable(lines)
  BY <1>1, LeftFilesAre
<1>3. lines \in Seq(FileRows) /\ \A n \in DOMAIN lines : lines[n] \in FileRows /\ Plain(lines[n])
  BY <1>2 DEF Leavable, Plain
<1>4. MaxGenerations \in Nat /\ 1 \in 1..MaxGenerations
  BY RouterConstants DEF File!QueueFileConstants
<1>5. junked = JunkIds(lines) /\ File!JunkOf(lines) \in Seq(FileIds)
  BY <1>1, <1>3, JunkIs
<1>6. junked \subseteq FileIds /\ acked \subseteq FileIds
  <2>1. \A n \in DOMAIN lines : lines[n].id \in FileIds
    BY <1>3 DEF FileRows
  <2> QED BY <1>1, <1>5, <2>1 DEF JunkIds, RowIds
<1>7. recovery \in [1..MaxGenerations -> Seq(FileIds)] /\ \A g \in 1..MaxGenerations : recovery[g] = <<>>
  <2>1. <<>> \in Seq(FileIds)
    OBVIOUS
  <2> QED BY <1>1, <2>1
<1>8. op \in Operations /\ op.point = "idle"
  <2>1. <<>> \in Seq(FileRows) /\ <<>> \in Seq(FileStages) /\ 0 \in Int
    OBVIOUS
  <2> QED BY <1>1, <2>1 DEF File!Idle, Operations
<1>9. FileTypes
  <2>1. limit \in Nat /\ generation \in 1..MaxGenerations /\ flushing \in BOOLEAN /\ answered \subseteq FileIds
    <3>1. \A n \in {485, 1000, 1450} : n \in Nat
      OBVIOUS
    <3>2. limit \in Nat
      BY <1>1, <3>1
    <3>3. generation \in 1..MaxGenerations
      BY <1>1, <1>4
    <3>4. flushing \in BOOLEAN
      <4>1. flushing = FALSE
        BY <1>1
      <4> QED BY <4>1
    <3>5. answered \subseteq FileIds
      <4>1. answered = {}
        BY <1>1
      <4> QED BY <4>1
    <3> QED BY <3>2, <3>3, <3>4, <3>5
  <2>2. op \in [point : {"idle", "next", "preserve", "replace"}, todo : Seq(FileStages),
               items : Seq(FileRows), reserved : Int]
    BY <1>8 DEF Operations
  <2> QED BY <1>1, <1>3, <1>6, <1>7, <2>1, <2>2 DEF FileTypes
<1>10. ~File!NoState.sending /\ File!NoState.gate = "none"
  BY DEF File!NoState
<1>11. Sending(lines) = {} /\ ~Gated(lines)
  BY <1>3, <1>10 DEF Sending, Gated, Plain
<1>12. LinesInv
  <2>1. \A n \in DOMAIN lines : lines[n].ended \/ n = Len(lines)
    BY <1>2 DEF Leavable
  <2>2. Distinct(lines)
    BY <1>2 DEF Leavable
  <2>3. OfGeneration(lines, generation - 1) /\ JunkIsBare(lines)
    BY <1>3 DEF OfGeneration, JunkIsBare, Plain
  <2>4. Ranged(lines, generation - 1, Rooms)
    BY <1>3 DEF Ranged, Plain
  <2>5. OneSent(lines)
    BY <1>11 DEF OneSent
  <2>6. \A g \in (generation + 1)..MaxGenerations : recovery[g] = <<>>
    <3>1. \A g \in (generation + 1)..MaxGenerations : g \in 1..MaxGenerations
      BY <1>1, <1>4
    <3> QED BY <1>7, <3>1
  <2>7. File!IsPrefix(recovery[generation], File!JunkOf(lines))
    BY <1>1, <1>4, <1>5, <1>7, PrefixFacts
  <2> QED BY <1>1, <1>5, <2>1, <2>2, <2>3, <2>4, <2>5, <2>6, <2>7 DEF LinesInv
<1>13. RoomLeft
  BY <1>1, <1>11 DEF RoomLeft, GateProtects, Unanswered
<1> QED BY <1>8, <1>9, <1>12, <1>13 DEF FileInv, NextInv, PendingInv

-----------------------------------------------------------------------------
(* The queue file, from the first file to any later one *)

LEMMA FileKeeps ==
  ASSUME FileInv, File!Next
  PROVE  FileInv'
<1>1. ASSUME NEW id \in File!IdsOf(File!Items),
             File!EnsureOperationIds(id) \/ File!MarkSending(id) \/ File!Answer(id)
      PROVE  FileInv'
  BY <1>1, EnsureOperationIdsKeeps, MarkSendingKeeps, AnswerKeeps
<1>2. ASSUME NEW id \in NewRows, File!Enqueue(id)
      PROVE  FileInv'
  BY <1>2, EnqueueKeeps
<1> QED BY <1>1, <1>2, RewriteKeeps, PreserveKeeps, ReplaceKeeps, RepairLineKeeps, AppendRowKeeps,
           CrashKeeps, BeginFlushKeeps, PreparedKeeps, EndFlushKeeps, RerouteKeeps DEF File!Next

LEMMA FileAlways == AnySpec => [](part = "file" => FileInv)
<1> DEFINE Inv == part = "file" => FileInv
<1>1. AnyInit => Inv
  BY FileBegins DEF AnyInit
<1>2. Inv /\ [AnyNext]_all => Inv'
  <2> SUFFICES ASSUME Inv, [AnyNext]_all PROVE Inv'
    OBVIOUS
  <2>1. CASE FileNext
    BY <2>1, FileKeeps DEF FileNext
  <2>2. CASE UNCHANGED <<part, fileVars>>
    <3>1. bank \in Banks => bank' \in Banks
      BY <2>2 DEF fileVars
    <3>2. FileInv => bank \in Banks
      BY DEF FileInv, FileTypes
    <3>3. UNCHANGED <<lines, generation, recovery, op, acked, junked, answered, flushing, limit>>
          /\ UNCHANGED part
      BY <2>2 DEF fileVars
    <3> QED BY <3>1, <3>2, <3>3, BankChanges
  <2> QED BY <2>1, <2>2
          DEF AnyNext, RecallNext, ClientsNext, HumanNext, PluginNext, ServiceNext, all
<1> QED BY <1>1, <1>2, PTL DEF AnySpec

\* What an answer leaves are rows.
LEMMA OutcomesAreRows ==
  ASSUME FileTypes, LinesInv, NEW id \in File!IdsOf(File!Items), NEW items \in File!Outcomes(id)
  PROVE  items \in Seq(FileRows)
<1>1. File!Items \in Seq(FileRows) /\ NoJunk(File!Items)
  BY RowsAreRead, ItemsDistinct
<1>2. File!Delivered(id) \in Seq(FileRows)
  BY DeliveredKeeps
<1>3. File!Denied(id) \in Seq(FileRows)
  BY <1>1, DeniedKeeps DEF Alike
<1>4. File!Counted(id) \in Seq(FileRows)
  BY <1>1, CountedIs DEF Alike
<1>5. \A x \in RowStates : File!SetState(id, x) \in Seq(FileRows)
  BY <1>1, SetStateIs
<1>6. File!Items[File!At(id)].state \in RowStates
  <2>1. File!Items[File!At(id)] \in FileRows
    BY <1>1, AtIs
  <2> QED BY <2>1 DEF FileRows
<1> QED BY <1>2, <1>3, <1>4, <1>5, <1>6, OutcomeKinds, AnswerStates

\* The answer that is awaited can be recorded: the room for it was left when the row
\* was marked and no later append, tear or quarantine takes it.
LEMMA AwaitedFits ==
  ASSUME FileInv, NEW id \in File!Awaited, NEW items \in File!Outcomes(id)
  PROVE  File!FileBytes(items) <= limit
<1>1. FileTypes /\ LinesInv /\ RoomLeft /\ limit \in Nat
  BY DEF FileInv, FileTypes
<1>2. id \in File!SendingIds \ answered
  BY DEF File!Awaited
<1>3. File!Items \in Seq(FileRows)
  BY <1>1, RowsAreRead
<1>4. PICK n \in Sending(lines) : lines[n].id = id /\ id \in RowIds(lines)
  BY <1>1, <1>2, SendingLines
<1>5. id \in File!IdsOf(File!Items)
  BY <1>1, <1>4, ItemsIds
<1>6. n \in Unanswered(lines)
  BY <1>2, <1>4 DEF Unanswered
<1>7. CASE Roomy(lines)
  <2>1. Roomy(File!Items)
    BY <1>1, <1>7, ItemsReading DEF FileTypes
  <2> QED BY <1>1, <1>3, <1>5, <2>1, RoomyOutcomes
<1>8. CASE ~Roomy(lines)
  <2>1. Tight(lines)
    BY <1>1, <1>6, <1>8 DEF RoomLeft
  <2>2. File!Items = lines
    BY <1>1, <2>1, ItemsAreLines DEF Tight
  <2>3. NoJunk(lines) /\ File!ReplayOutcomeHeadroom(lines) <= limit - File!FileBytes(lines)
    BY <2>1 DEF Tight, HasHeadroom
  <2>4. File!ReplayOutcomeHeadroom(lines) \in Int /\ File!FileBytes(lines) \in Int
    BY <1>3, <2>2, HeadroomIsKnown, FileBytesIs
  <2>5. File!FileBytes(File!Items) + File!ReplayOutcomeHeadroom(File!Items) <= limit
    BY <1>1, <2>2, <2>3, <2>4
  <2>6. File!At(id) = n
    <3>1. File!At(id) \in DOMAIN lines /\ lines[File!At(id)].id = id
      BY <1>5, <2>2, AtIs
    <3> QED BY <1>1, <1>4, <3>1 DEF LinesInv, Distinct, Sending
  <2>7. SendingRow(File!Items, File!At(id))
    <3>1. n \in 1..Len(lines) /\ lines[n].state.sending
      BY <1>1, <1>4 DEF Sending, FileTypes
    <3>2. lines[n].state.present /\ lines[n].state.quarantine # "corrupt" /\ Distinct(lines)
      BY <1>1, <1>4 DEF LinesInv, OneSent
    <3> QED BY <2>2, <2>3, <2>6, <3>1, <3>2 DEF SendingRow
  <2> QED BY <1>1, <1>3, <1>5, <2>5, <2>7, TightOutcomes
<1> QED BY <1>7, <1>8

\* No acknowledged row and no damaged bytes are lost, every barrier names bytes that a
\* recovery file holds, and the answer to a row that is sent can be recorded: through
\* crashes, torn lines and full disks, for any rows, banks and generations.
THEOREM NothingIsEverLost == AnySpec => []NothingLost
<1>1. FileInv => File!NothingLost
  <2> SUFFICES ASSUME LinesInv PROVE File!NothingLost
    BY DEF FileInv
  <2>1. RowIds(lines) \subseteq File!IdsOf(lines) /\ JunkIds(lines) \subseteq File!IdsOf(lines)
    BY DEF RowIds, JunkIds, File!IdsOf
  <2> QED BY <2>1 DEF LinesInv, Recovered, File!NothingLost
<1>2. FileInv => File!BarriersHaveBytes
  <2> SUFFICES ASSUME FileInv PROVE File!BarriersHaveBytes
    OBVIOUS
  <2>1. File!SnapshotFits
    BY DEF FileInv, LinesInv, File!SnapshotFits
  <2>2. ASSUME NEW n \in DOMAIN lines, lines[n].range # File!NoRange
        PROVE  /\ lines[n].range.offset + lines[n].range.length <= Len(recovery[lines[n].range.source])
               /\ \A m \in 1..n-1 : lines[m].range.source = lines[n].range.source
                    => lines[m].range.offset + lines[m].range.length <= lines[n].range.offset
    <3>1. /\ lines[n].range.source \in 1..(generation - 1)
          /\ lines[n].range.offset + lines[n].range.length <= Rooms[lines[n].range.source]
          /\ \A m \in 1..(n - 1) : lines[m].range.source = lines[n].range.source
               => lines[m].range.offset + lines[m].range.length <= lines[n].range.offset
      BY <2>2 DEF FileInv, LinesInv, Ranged
    <3>2. lines[n].range.source \in 1..MaxGenerations
      BY <3>1, RouterConstants DEF FileInv, FileTypes, File!QueueFileConstants
    <3>3. Rooms[lines[n].range.source] = Len(recovery[lines[n].range.source])
      BY <3>2 DEF Rooms
    <3> QED BY <3>1, <3>3
  <2> QED BY <2>1, <2>2 DEF File!BarriersHaveBytes
<1>3. FileInv => File!OutcomeFits
  <2> SUFFICES ASSUME FileInv, NEW id \in File!Awaited, NEW items \in File!Outcomes(id)
               PROVE  ~File!TooLong(items, 0)
    BY DEF File!OutcomeFits
  <2>1. FileTypes /\ LinesInv /\ limit \in Nat
    BY DEF FileInv, FileTypes
  <2>2. id \in File!IdsOf(File!Items)
    BY <2>1, SendingLines, ItemsIds DEF File!Awaited
  <2>3. File!FileBytes(items) \in Int
    BY <2>1, <2>2, OutcomesAreRows, FileBytesIs
  <2>4. File!FileBytes(items) <= limit
    BY AwaitedFits
  <2> QED BY <2>1, <2>3, <2>4 DEF File!TooLong
<1>4. (part = "file" => FileInv) => NothingLost
  BY <1>1, <1>2, <1>3 DEF NothingLost
<1> QED BY <1>4, FileAlways, PTL

\* The lines of the file have names of their own.
LEMMA FileTyped ==
  ASSUME FileInv
  PROVE  File!TypeOK
<1>1. FileTypes /\ LinesInv
  BY DEF FileInv
<1>2. Cardinality(File!IdsOf(lines)) = Len(lines)
  <2> DEFINE N == Len(lines)
             S == 1..N
             T == File!IdsOf(lines)
             f == [n \in S |-> lines[n].id]
  <2>1. N \in Nat /\ DOMAIN lines = S
    BY <1>1 DEF FileTypes
  <2>2. f \in [S -> T] /\ (\A t \in T : \E n \in S : f[n] = t) /\ \A m, n \in S : f[m] = f[n] => m = n
    BY <1>1, <2>1 DEF File!IdsOf, LinesInv, Distinct
  <2>3. f \in Surjection(S, T) /\ f \in Injection(S, T)
    <3> HIDE DEF f, T, S
    <3> QED BY <2>2 DEF Surjection, Injection, IsInjective
  <2>4. IsFiniteSet(S) /\ Cardinality(S) = N
    <3>1. 1 \in Int /\ N \in Int /\ (1 > N <=> N = 0) /\ N - 1 + 1 = N
      BY <2>1
    <3> HIDE DEF N
    <3>2. IsFiniteSet(1..N) /\ Cardinality(1..N) = IF 1 > N THEN 0 ELSE N - 1 + 1
      BY <3>1, FS_Interval
    <3> QED BY <3>1, <3>2
  <2> HIDE DEF f, T, S
  <2>5. Cardinality(T) = Cardinality(S)
    BY <2>3, <2>4, FS_Surjection
  <2> QED BY <2>4, <2>5 DEF T
<1>3. File!Cardinality(File!IdsOf(lines)) = Cardinality(File!IdsOf(lines))
  BY DEF File!Cardinality, Cardinality
<1>4. op.point \in {"idle", "next", "preserve", "replace"} /\ generation \in 1..MaxGenerations
  BY <1>1 DEF FileTypes
<1>5. \A n \in DOMAIN lines : lines[n].ended \/ n = Len(lines)
  BY <1>1 DEF LinesInv
<1> QED BY <1>2, <1>3, <1>4, <1>5 DEF File!TypeOK
=============================================================================
