---------------------------- MODULE RetainOutbox ----------------------------
(***************************************************************************)
(* What the retain path promises of the writes it is given, without files, *)
(* locks or flushes:                                                       *)
(*                                                                         *)
(*   - writes are taken on one at a time, and those of one destination (a  *)
(*     document of a bank) reach the server in that order;                 *)
(*   - a write may reach the server more than once, under its identity,    *)
(*     but never after a later write of its destination did;               *)
(*   - a write may be given up, unless it is pinned (protected behind an   *)
(*     authorization gate): a pinned write is performed first.             *)
(***************************************************************************)
EXTENDS Naturals

CONSTANTS
  Writes,        \* identities of writes
  Destinations,  \* where an ordered write goes
  Nowhere        \* a write that is ordered with no other

VARIABLES
  open,    \* the writes that may still reach the server, with their destination
  turn,    \* the order in which writes were taken on; 0 before that
  done,    \* the writes the server has performed
  pinned   \* the writes that may not be given up

outboxVars == <<open, turn, done, pinned>>

OutboxInit ==
  /\ DOMAIN open \subseteq Writes
  /\ open \in [DOMAIN open -> Destinations \cup {Nowhere}]
  /\ turn \in [Writes -> Nat]
  /\ \A i \in Writes : turn[i] > 0 <=> i \in DOMAIN open
  /\ done = {}
  /\ pinned \subseteq DOMAIN open

\* A new write is taken on, after all earlier ones.
TakeOn(i, destination) ==
  /\ turn[i] = 0
  /\ open' = [j \in DOMAIN open \cup {i} |-> IF j = i THEN destination ELSE open[j]]
  /\ turn' \in [Writes -> Nat]
  /\ \A j \in Writes : turn[j] < turn'[i] /\ (j # i => turn'[j] = turn[j])
  /\ UNCHANGED <<done, pinned>>

InTurn(i) ==
  \A j \in DOMAIN open :
    open[j] = open[i] /\ open[i] # Nowhere => turn[j] >= turn[i]

Without(S) == [i \in DOMAIN open \ S |-> open[i]]

\* The server performs a write that is in its turn; the outbox may keep it, not
\* knowing that it was performed.
Perform(i) ==
  /\ i \in DOMAIN open
  /\ InTurn(i)
  /\ done' = done \cup {i}
  /\ open' \in {open, Without({i})}
  /\ UNCHANGED <<turn, pinned>>

\* Writes are given up or, already performed, forgotten.
Close(S) ==
  /\ S # {}
  /\ S \cap pinned \subseteq done
  /\ open' = Without(S)
  /\ UNCHANGED <<turn, done, pinned>>

Pin(S) ==
  /\ pinned' = pinned \cup S
  /\ UNCHANGED <<open, turn, done>>

OutboxNext ==
  \/ \E i \in Writes, d \in Destinations \cup {Nowhere} : TakeOn(i, d)
  \/ \E i \in Writes : Perform(i)
  \/ \E S \in SUBSET DOMAIN open : Close(S)
  \/ \E S \in SUBSET DOMAIN open : Pin(S)

OutboxSpec == OutboxInit /\ [][OutboxNext]_outboxVars
=============================================================================
