-------------------------- MODULE AgentRuntimeProofs --------------------------
(***************************************************************************)
(* Proofs about the runtime of an agent session, for any number of         *)
(* sessions, prompts, state objects and tasks and for every host: a task   *)
(* in flight keeps its session in the cache, what a session marked as      *)
(* retained is written or being written, and no knowledge that was         *)
(* injected for one prompt is used for another.  RuntimeInv is the         *)
(* inductive invariant.  Then proofs about the files of a session's Stop   *)
(* hooks, for any number of processes, directories, turns and lines: the   *)
(* journal tells what was said, and the root is kept; FilesInv.  Last,     *)
(* the types of all parts of a coding agent.                               *)
(***************************************************************************)
EXTENDS AgentsProofs, RecursionLemmas, SequenceTheorems, FiniteSetTheorems, TLAPS

-----------------------------------------------------------------------------
(* The runtime of an agent session.  A call is a composition of operators on  *)
(* the core's record, so that the lemmas are about records: what each         *)
(* operator leaves of every session but the one it is called for, which it    *)
(* either does not change or removes, and of that one.                        *)

StateTypes ==
  [retained : Nat, active : BOOLEAN, busy : Nat, generation : Nat, ended : BOOLEAN]
Phases == {"rest", "start", "prompt", "request", "transform", "model", "over"}
Live == {"start", "prompt", "request", "transform", "model"}

\* The core c is a record of the right form.
IsCore(c) ==
  c \in [order : {c.order}, object : [Runtime!Ids -> 0 .. MaxObjects],
         state : [1 .. MaxObjects -> StateTypes], admitted : 0 .. MaxObjects,
         cursor : [Runtime!Ids -> {"none", "clean", "unsent"}],
         injection : [Runtime!Ids -> Nat], last : {c.last}, tasks : {c.tasks}]

TasksAt(ts, o) == {t \in ts : t.object = o}
TasksOf(c, r) == {t \in c.tasks : t.session = r}
TaskOK(t) == t.session \in Runtime!Ids /\ t.object \in 1 .. MaxObjects /\ t.n \in Nat

\* A session's object is its own, and busy while it has tasks, which hold that object.
CoreOK(c) ==
  /\ IsCore(c)
  /\ \A s \in Runtime!Ids : c.object[s] <= c.admitted /\ (c.object[s] = 0 => c.injection[s] = 0)
  /\ \A s, r \in Runtime!Ids : s # r /\ c.object[s] # 0 => c.object[s] # c.object[r]
  /\ IsFiniteSet(c.tasks)
  /\ \A t \in c.tasks : TaskOK(t) /\ c.object[t.session] = t.object
  /\ \A o \in 1 .. MaxObjects : Cardinality(TasksAt(c.tasks, o)) <= c.state[o].busy

\* What the state object x of session r in core c says, for a host h, a phase ph, a number
\* pr of prompts and a number w of turns written.
EndedOK(c, r) == c.state[c.object[r]].ended => ~Runtime!Removable(c, r, c.object[r])
RetainedOK(x, ts, w) ==
  x.retained > 0 => w >= x.retained \/ \E t \in ts : t.kind = "retain" /\ t.n >= x.retained
GenerationOK(x, ph, pr) == x.generation <= pr /\ (ph = "start" => x.generation < pr)
ActiveOK(x, ts, ph, pr) ==
  /\ \A t \in ts : t.kind = "idle" => t.n <= x.generation /\ (ph \in Live => t.n < pr)
  /\ ph \in Live \ {"start"} /\ x.generation = pr => x.active
InjectionOK(inj, ts, ph, pr) ==
  /\ \A t \in ts : t.kind = "prompt" => ph \in {"prompt", "over"} /\ t.n = pr
  /\ \A t, u \in ts : t.kind = "prompt" /\ u.kind = "prompt" => t = u
  /\ ph \in {"prompt", "request"} => inj \in {0, pr}

ObjectOK(x, inj, ts, h, ph, pr, w) ==
  /\ RetainedOK(x, ts, w) /\ GenerationOK(x, ph, pr)
  /\ h # "opencode2" => ActiveOK(x, ts, ph, pr)
  /\ h \in {"opencode2", "dsh"} => InjectionOK(inj, ts, ph, pr)

SoundFor(c, r, h, ph, pr, w) ==
  c.object[r] # 0 =>
    r \notin Foreign
    /\ ObjectOK(c.state[c.object[r]], c.injection[r], TasksOf(c, r), h, ph, pr, w)
Holds(c, r, h, ph, pr, w) ==
  SoundFor(c, r, h, ph, pr, w) /\ (c.object[r] # 0 => EndedOK(c, r))

\* Where the turn of session r is.
TurnOK(r, h, ph, pr, id, del) ==
  /\ ph \in Phases /\ pr \in Nat /\ id \in Nat
  /\ id > 0 /\ h # "opencode2" => ph \in {"rest", "over"} /\ pr >= 1
  /\ ph \notin {"rest", "over"} => pr >= 1
  /\ h \in {"opencode2", "dsh"} =>
       /\ ph \notin {"start", "transform"}
       /\ ph \in {"rest", "prompt", "request"} => del = Runtime!None
       /\ del # Runtime!None => del.prompt = pr
  /\ r \in Foreign => ph = "over" /\ (h # "opencode2" => id = 0)

RuntimeInv ==
  /\ phase \in [Runtime!Ids -> Phases] /\ prompts \in [Runtime!Ids -> Nat]
  /\ idle \in [Runtime!Ids -> Nat] /\ written \in [Runtime!Ids -> Nat]
  /\ DOMAIN delivered = Runtime!Ids
  /\ CoreOK(Runtime!Core)
  /\ \A r \in Runtime!Ids :
       /\ TurnOK(r, host, phase[r], prompts[r], idle[r], delivered[r])
       /\ Holds(Runtime!Core, r, host, phase[r], prompts[r], written[r])

\* Session r is in core d as it was in core c.
SameFor(c, d, r) ==
  /\ d.object[r] = c.object[r] /\ d.cursor[r] = c.cursor[r] /\ d.injection[r] = c.injection[r]
  /\ TasksOf(d, r) = TasksOf(c, r)
  /\ c.object[r] # 0 => d.state[c.object[r]] = c.state[c.object[r]]
KeptFor(c, d, r) == SameFor(c, d, r) \/ d.object[r] = 0
OthersKept(c, d, s) == \A r \in Runtime!Ids \ {s} : KeptFor(c, d, r)

\* The fields of a core.
LEMMA CoreFields ==
  ASSUME NEW c, IsCore(c)
  PROVE  /\ c = [order |-> c.order, object |-> c.object, state |-> c.state,
                 admitted |-> c.admitted, cursor |-> c.cursor, injection |-> c.injection,
                 last |-> c.last, tasks |-> c.tasks]
         /\ c.object \in [Runtime!Ids -> 0 .. MaxObjects]
         /\ c.state \in [1 .. MaxObjects -> StateTypes] /\ c.admitted \in 0 .. MaxObjects
         /\ c.cursor \in [Runtime!Ids -> {"none", "clean", "unsent"}]
         /\ c.injection \in [Runtime!Ids -> Nat]
BY DEF IsCore

LEMMA HoldsKept ==
  ASSUME NEW c, NEW d, NEW r \in Runtime!Ids, KeptFor(c, d, r), NEW h, NEW ph, NEW pr, NEW w,
         Holds(c, r, h, ph, pr, w)
  PROVE  Holds(d, r, h, ph, pr, w)
BY DEF KeptFor, SameFor, Holds, SoundFor, EndedOK, Runtime!Removable

LEMMA KeptTwice ==
  ASSUME NEW c, NEW d, NEW e, NEW r, KeptFor(c, d, r), KeptFor(d, e, r)
  PROVE  KeptFor(c, e, r)
BY DEF KeptFor, SameFor

LEMMA OthersTwice ==
  ASSUME NEW c, NEW d, NEW e, NEW s, OthersKept(c, d, s), OthersKept(d, e, s)
  PROVE  OthersKept(c, e, s)
BY KeptTwice DEF OthersKept

\* An object that is not busy has no task.
LEMMA IdleHasNoTask ==
  ASSUME NEW c, CoreOK(c), NEW s \in Runtime!Ids, c.object[s] # 0, c.state[c.object[s]].busy = 0
  PROVE  TasksOf(c, s) = {}
<1> DEFINE o == c.object[s]
           at == TasksAt(c.tasks, o)
<1>1. o \in 1 .. MaxObjects
  BY CoreFields, AgentsConstants DEF CoreOK, Runtime!RuntimeConstants
<1>2. IsFiniteSet(at) /\ Cardinality(at) \in Nat
  BY FS_Subset, FS_CardinalityType DEF CoreOK, TasksAt
<1>3. Cardinality(at) <= 0
  BY <1>1 DEF CoreOK
<1>4. Cardinality(at) = 0
  <2> HIDE DEF at
  <2> QED BY <1>2, <1>3
<1>5. at = {}
  BY <1>2, <1>4, FS_EmptySet
<1> QED BY <1>5 DEF CoreOK, TasksOf, TasksAt

\* Session s's object changes, but for how busy it is.
LEMMA SessionChanges ==
  ASSUME NEW c, CoreOK(c), NEW s \in Runtime!Ids, c.object[s] # 0,
         NEW d, IsCore(d), d.object = c.object, d.admitted = c.admitted, d.tasks = c.tasks,
         \A r \in Runtime!Ids : r # s =>
           d.injection[r] = c.injection[r] /\ d.cursor[r] = c.cursor[r],
         \A i \in 1 .. MaxObjects : i # c.object[s] => d.state[i] = c.state[i],
         d.state[c.object[s]].busy = c.state[c.object[s]].busy
  PROVE  CoreOK(d) /\ OthersKept(c, d, s) /\ TasksOf(d, s) = TasksOf(c, s)
<1>1. c.object \in [Runtime!Ids -> 0 .. MaxObjects] /\ MaxObjects \in Nat
  BY CoreFields, AgentsConstants DEF CoreOK, Runtime!RuntimeConstants
<1>2. \A o \in 1 .. MaxObjects : d.state[o].busy = c.state[o].busy
  OBVIOUS
<1>3. CoreOK(d)
  BY <1>2 DEF CoreOK
<1>4. ASSUME NEW r \in Runtime!Ids, r # s PROVE SameFor(c, d, r)
  <2>1. c.object[r] # c.object[s]
    BY <1>4 DEF CoreOK
  <2>2. c.object[r] # 0 => c.object[r] \in 1 .. MaxObjects
    BY <1>1
  <2> QED BY <1>4, <2>1, <2>2 DEF SameFor, TasksOf
<1> QED BY <1>3, <1>4 DEF OthersKept, KeptFor, TasksOf

LEMMA RemoveKeeps ==
  ASSUME NEW c, CoreOK(c), NEW gone \in SUBSET Runtime!Ids,
         \A s \in gone : c.object[s] # 0 /\ Runtime!Removable(c, s, c.object[s]),
         NEW d, d = Runtime!Remove(c, gone)
  PROVE  /\ CoreOK(d) /\ d.admitted = c.admitted
         /\ \A r \in Runtime!Ids : KeptFor(c, d, r) /\ (r \in gone => d.object[r] = 0)
         /\ gone = {} => d.object = c.object
<1> DEFINE blank(o) == c.state[o].busy = 0 /\ \E s \in gone : c.object[s] = o
           states == [o \in 1 .. MaxObjects |-> IF blank(o) THEN Runtime!Fresh ELSE c.state[o]]
           objects == [s \in Runtime!Ids |-> IF s \in gone THEN 0 ELSE c.object[s]]
           cursors == [s \in Runtime!Ids |-> IF s \in gone THEN "none" ELSE c.cursor[s]]
           injections == [s \in Runtime!Ids |-> IF s \in gone THEN 0 ELSE c.injection[s]]
<1>1. /\ c.object \in [Runtime!Ids -> 0 .. MaxObjects]
      /\ c.state \in [1 .. MaxObjects -> StateTypes] /\ c.admitted \in 0 .. MaxObjects
      /\ c.cursor \in [Runtime!Ids -> {"none", "clean", "unsent"}]
      /\ c.injection \in [Runtime!Ids -> Nat] /\ MaxObjects \in Nat /\ DOMAIN c.state = 1 .. MaxObjects
  BY CoreFields, AgentsConstants DEF CoreOK, Runtime!RuntimeConstants
<1>2. /\ d.state = states /\ d.object = objects /\ d.cursor = cursors /\ d.injection = injections
      /\ d.admitted = c.admitted /\ d.tasks = c.tasks
  BY <1>1 DEF Runtime!Remove, CoreOK, IsCore
<1>3. IsCore(d)
  <2>1. Runtime!Fresh \in StateTypes
    BY DEF Runtime!Fresh, StateTypes
  <2>2. states \in [1 .. MaxObjects -> StateTypes]
    <3> HIDE DEF blank
    <3> QED BY <1>1, <2>1
  <2>3. /\ objects \in [Runtime!Ids -> 0 .. MaxObjects]
        /\ cursors \in [Runtime!Ids -> {"none", "clean", "unsent"}]
        /\ injections \in [Runtime!Ids -> Nat]
    BY <1>1
  <2>4. d = [order |-> d.order, object |-> d.object, state |-> d.state,
             admitted |-> d.admitted, cursor |-> d.cursor, injection |-> d.injection,
             last |-> d.last, tasks |-> d.tasks]
    BY <1>1 DEF Runtime!Remove, CoreOK, IsCore
  <2> HIDE DEF states, objects, cursors, injections
  <2> QED BY <1>1, <1>2, <2>2, <2>3, <2>4 DEF IsCore
<1>4. \A o \in 1 .. MaxObjects : d.state[o].busy = c.state[o].busy
  BY <1>2 DEF Runtime!Fresh
<1>5. ASSUME NEW t \in c.tasks PROVE t.session \notin gone /\ d.object[t.session] = t.object
  <2>1. t.session \in Runtime!Ids /\ c.object[t.session] = t.object
    BY DEF CoreOK, TaskOK
  <2>2. t.session \notin gone
    <3> SUFFICES ASSUME t.session \in gone PROVE FALSE
      OBVIOUS
    <3>1. TasksOf(c, t.session) = {}
      BY <2>1, IdleHasNoTask DEF Runtime!Removable
    <3> QED BY <3>1 DEF TasksOf
  <2> QED BY <1>2, <2>1, <2>2
<1>6. \A s, r \in Runtime!Ids : s # r /\ d.object[s] # 0 => d.object[s] # d.object[r]
  BY <1>2 DEF CoreOK
<1>7. \A s \in Runtime!Ids :
        d.object[s] <= d.admitted /\ (d.object[s] = 0 => d.injection[s] = 0)
  BY <1>1, <1>2 DEF CoreOK
<1>8. CoreOK(d)
  <2>1. IsFiniteSet(d.tasks) /\ \A t \in d.tasks : TaskOK(t) /\ d.object[t.session] = t.object
    BY <1>2, <1>5 DEF CoreOK
  <2>2. \A o \in 1 .. MaxObjects : Cardinality(TasksAt(d.tasks, o)) <= d.state[o].busy
    BY <1>2, <1>4 DEF CoreOK
  <2> QED BY <1>3, <1>6, <1>7, <2>1, <2>2 DEF CoreOK
<1>9. ASSUME NEW r \in Runtime!Ids, r \notin gone PROVE SameFor(c, d, r)
  <2>1. c.object[r] # 0 => ~ \E s \in gone : c.object[s] = c.object[r]
    BY <1>9 DEF CoreOK
  <2>2. c.object[r] # 0 => c.object[r] \in 1 .. MaxObjects
    BY <1>1
  <2> QED BY <1>2, <1>9, <2>1, <2>2 DEF SameFor, TasksOf
<1>10. gone = {} => d.object = c.object
  BY <1>1, <1>2
<1> QED BY <1>2, <1>8, <1>9, <1>10 DEF KeptFor

\* The last step of what has ended.
LEMMA CleanupKeeps ==
  ASSUME NEW c, CoreOK(c), NEW s \in Runtime!Ids, c.object[s] # 0,
         NEW d, d = Runtime!CleanupEnded(c, s, c.object[s])
  PROVE  CoreOK(d) /\ OthersKept(c, d, s) /\ (d.object[s] = 0 \/ (d = c /\ EndedOK(c, s)))
<1>1. CASE c.state[c.object[s]].ended /\ Runtime!Removable(c, s, c.object[s])
  <2>1. d = Runtime!Remove(c, {s})
    BY <1>1 DEF Runtime!CleanupEnded
  <2> QED BY <1>1, <2>1, RemoveKeeps DEF OthersKept
<1>2. CASE ~(c.state[c.object[s]].ended /\ Runtime!Removable(c, s, c.object[s]))
  BY <1>2 DEF Runtime!CleanupEnded, EndedOK, OthersKept, KeptFor, SameFor
<1> QED BY <1>1, <1>2

LEMMA LatestKeeps ==
  ASSUME NEW c, CoreOK(c), NEW s \in Runtime!Ids, NEW d, d = Runtime!Latest(c, s)
  PROVE  /\ CoreOK(d) /\ \A r \in Runtime!Ids : SameFor(c, d, r)
         /\ d.object = c.object /\ d.state = c.state /\ d.tasks = c.tasks
         /\ d.injection = c.injection
<1>1. /\ d.object = c.object /\ d.state = c.state /\ d.tasks = c.tasks /\ d.cursor = c.cursor
      /\ d.injection = c.injection /\ d.admitted = c.admitted
      /\ d = [order |-> d.order, object |-> d.object, state |-> d.state,
              admitted |-> d.admitted, cursor |-> d.cursor, injection |-> d.injection,
              last |-> d.last, tasks |-> d.tasks]
  BY DEF Runtime!Latest, CoreOK, IsCore
<1>2. IsCore(d)
  BY <1>1, CoreFields DEF CoreOK, IsCore
<1> QED BY <1>1, <1>2 DEF CoreOK, SameFor, TasksOf

\* A session that the core d admitted begins anew.
New(d, s) ==
  d.state[d.object[s]] = Runtime!Fresh /\ TasksOf(d, s) = {} /\ d.injection[s] = 0

LEMMA AdmitKeeps ==
  ASSUME NEW c, CoreOK(c), NEW s \in Runtime!Ids, c.object[s] = 0, c.admitted < MaxObjects,
         NEW d, d = Runtime!Admit(c, s)
  PROVE  CoreOK(d) /\ OthersKept(c, d, s) /\ (d.object[s] = 0 \/ New(d, s))
<1> DEFINE n == c.admitted + 1
           grown == [c EXCEPT !.admitted = @ + 1, !.state[c.admitted + 1] = Runtime!Fresh]
           e == [grown EXCEPT !.object[s] = grown.admitted]
<1>0. d = c \/ d = Runtime!Latest(e, s)
  BY DEF Runtime!Admit
<1>1. CASE d = c
  BY <1>1 DEF OthersKept, KeptFor, SameFor
<1>2. CASE d = Runtime!Latest(e, s)
  <2>2. /\ c.object \in [Runtime!Ids -> 0 .. MaxObjects]
        /\ c.state \in [1 .. MaxObjects -> StateTypes] /\ c.admitted \in 0 .. MaxObjects
        /\ c.cursor \in [Runtime!Ids -> {"none", "clean", "unsent"}]
        /\ c.injection \in [Runtime!Ids -> Nat] /\ MaxObjects \in Nat
    BY CoreFields, AgentsConstants DEF CoreOK, Runtime!RuntimeConstants
  <2>3. n \in 1 .. MaxObjects /\ \A r \in Runtime!Ids : c.object[r] # n
    BY <2>2 DEF CoreOK
  <2>4. /\ e.object = [c.object EXCEPT ![s] = n] /\ e.state = [c.state EXCEPT ![n] = Runtime!Fresh]
        /\ e.admitted = n /\ e.cursor = c.cursor /\ e.injection = c.injection
        /\ e.tasks = c.tasks
        /\ e = [order |-> e.order, object |-> e.object, state |-> e.state,
                admitted |-> e.admitted, cursor |-> e.cursor, injection |-> e.injection,
                last |-> e.last, tasks |-> e.tasks]
    <3> DEFINE x == Runtime!Fresh
    <3>1. IsCore(c)
      BY DEF CoreOK
    <3>2. grown = [c EXCEPT !.admitted = n, !.state[n] = x]
      OBVIOUS
    <3> HIDE DEF n, grown, x
    <3>3. /\ grown.object = c.object /\ grown.state = [c.state EXCEPT ![n] = x]
          /\ grown.admitted = n /\ grown.cursor = c.cursor /\ grown.injection = c.injection
          /\ grown.tasks = c.tasks
          /\ grown = [order |-> grown.order, object |-> grown.object, state |-> grown.state,
                     admitted |-> grown.admitted, cursor |-> grown.cursor,
                     injection |-> grown.injection, last |-> grown.last, tasks |-> grown.tasks]
      BY <3>1, <3>2 DEF IsCore
    <3> QED BY <3>3 DEF x
  <2> HIDE DEF n, grown, e
  <2>5. IsCore(e)
    <3>1. Runtime!Fresh \in StateTypes
      BY DEF Runtime!Fresh, StateTypes
    <3>2. e.object \in [Runtime!Ids -> 0 .. MaxObjects]
          /\ e.state \in [1 .. MaxObjects -> StateTypes] /\ e.admitted \in 0 .. MaxObjects
      BY <2>2, <2>3, <2>4, <3>1
    <3> QED BY <2>2, <2>4, <3>2 DEF IsCore
  <2>6. ASSUME NEW t \in c.tasks
        PROVE  t.session # s /\ t.object # n /\ TaskOK(t) /\ c.object[t.session] = t.object
    BY <2>3 DEF CoreOK, TaskOK
  <2>7. CoreOK(e)
    <3>1. \A r \in Runtime!Ids :
            e.object[r] <= e.admitted /\ (e.object[r] = 0 => e.injection[r] = 0)
      BY <2>2, <2>3, <2>4 DEF CoreOK, n
    <3>2. \A r, q \in Runtime!Ids : r # q /\ e.object[r] # 0 => e.object[r] # e.object[q]
      BY <2>2, <2>3, <2>4 DEF CoreOK
    <3>3. \A t \in e.tasks : TaskOK(t) /\ e.object[t.session] = t.object
      BY <2>2, <2>4, <2>6 DEF TaskOK
    <3>4. ASSUME NEW o \in 1 .. MaxObjects
          PROVE  Cardinality(TasksAt(e.tasks, o)) <= e.state[o].busy
      <4>1. CASE o = n
        <5>1. TasksAt(e.tasks, o) = {}
          BY <2>4, <2>6, <4>1 DEF TasksAt
        <5> QED BY <2>2, <2>3, <2>4, <4>1, <5>1, FS_EmptySet DEF Runtime!Fresh
      <4>2. CASE o # n
        BY <2>2, <2>4, <4>2 DEF CoreOK
      <4> QED BY <4>1, <4>2
    <3> QED BY <2>4, <2>5, <3>1, <3>2, <3>3, <3>4 DEF CoreOK
  <2>8. OthersKept(c, e, s)
    <3> SUFFICES ASSUME NEW r \in Runtime!Ids \ {s} PROVE SameFor(c, e, r)
      BY DEF OthersKept, KeptFor
    <3> QED BY <2>2, <2>3, <2>4 DEF SameFor, TasksOf
  <2>9. /\ CoreOK(d) /\ OthersKept(e, d, s) /\ d.object = e.object /\ d.state = e.state
        /\ d.tasks = e.tasks /\ d.injection = e.injection
    BY <1>2, <2>7, LatestKeeps DEF OthersKept, KeptFor
  <2>10. New(d, s)
    BY <2>2, <2>3, <2>4, <2>6, <2>9 DEF New, TasksOf, CoreOK
  <2> QED BY <2>8, <2>9, <2>10, OthersTwice
<1> QED BY <1>0, <1>1, <1>2

\* Admission keeps the object a session has, or gives it a new one, or none.
LEMMA StateForKeeps ==
  ASSUME NEW c, CoreOK(c), NEW s \in Runtime!Ids, c.admitted < MaxObjects,
         NEW d, d = Runtime!StateFor(c, s)
  PROVE  /\ CoreOK(d) /\ OthersKept(c, d, s)
         /\ \/ c.object[s] # 0 /\ d.object[s] # 0 /\ SameFor(c, d, s)
            \/ c.object[s] = 0 /\ d.object[s] = 0
            \/ c.object[s] = 0 /\ d.object[s] # 0 /\ New(d, s)
<1>1. CASE c.object[s] # 0
  <2>1. d = Runtime!Latest(c, s)
    BY <1>1 DEF Runtime!StateFor
  <2> QED BY <1>1, <2>1, LatestKeeps DEF OthersKept, KeptFor
<1>2. CASE c.object[s] = 0
  <2> DEFINE gone == Runtime!Oldest(c)
             e == Runtime!Remove(c, gone)
  <2>1. d = Runtime!Admit(e, s) \/ d = Runtime!Admit(c, s)
    BY <1>2 DEF Runtime!StateFor
  <2>2. /\ gone \in SUBSET Runtime!Ids
        /\ \A k \in gone : c.object[k] # 0 /\ Runtime!Removable(c, k, c.object[k])
    BY DEF Runtime!Oldest, Runtime!Keys
  <2> HIDE DEF gone
  <2>3. CoreOK(e) /\ e.admitted = c.admitted /\ \A r \in Runtime!Ids : KeptFor(c, e, r)
    BY <2>2, RemoveKeeps
  <2>4. e.object[s] = 0
    BY <1>2, <2>3 DEF KeptFor, SameFor
  <2> HIDE DEF e
  <2>5. CASE d = Runtime!Admit(e, s)
    <3>1. CoreOK(d) /\ OthersKept(e, d, s) /\ (d.object[s] = 0 \/ New(d, s))
      BY <2>3, <2>4, <2>5, AdmitKeeps
    <3>2. OthersKept(c, e, s)
      BY <2>3 DEF OthersKept
    <3> QED BY <1>2, <3>1, <3>2, OthersTwice
  <2>6. CASE d = Runtime!Admit(c, s)
    BY <1>2, <2>6, AdmitKeeps
  <2> QED BY <2>1, <2>5, <2>6
<1> QED BY <1>1, <1>2

\* What an operator makes of state objects.
LEMMA StateObjects ==
  ASSUME NEW x \in StateTypes
  PROVE  /\ Runtime!Busier(x) \in StateTypes /\ Runtime!Working(x) \in StateTypes
         /\ Runtime!Resting(x) \in StateTypes /\ Runtime!Prompted(x) \in StateTypes
         /\ \A n \in Nat : Runtime!Counted(x, n) \in StateTypes
         /\ x.busy > 0 => Runtime!LessBusy(x) \in StateTypes
<1>1. Runtime!Busier(x) \in StateTypes
  BY DEF Runtime!Busier, StateTypes
<1>2. Runtime!Working(x) \in StateTypes
  BY DEF Runtime!Working, StateTypes
<1>3. Runtime!Resting(x) \in StateTypes
  BY DEF Runtime!Resting, StateTypes
<1>4. Runtime!Prompted(x) \in StateTypes
  BY DEF Runtime!Prompted, StateTypes
<1>5. \A n \in Nat : Runtime!Counted(x, n) \in StateTypes
  BY DEF Runtime!Counted, StateTypes
<1>6. x.busy > 0 => Runtime!LessBusy(x) \in StateTypes
  BY DEF Runtime!LessBusy, StateTypes
<1> QED BY <1>1, <1>2, <1>3, <1>4, <1>5, <1>6

LEMMA StateFields ==
  ASSUME NEW x \in StateTypes
  PROVE  /\ \A y \in {Runtime!Busier(x), Runtime!LessBusy(x)} :
              /\ y.retained = x.retained /\ y.active = x.active /\ y.ended = x.ended
              /\ y.generation = x.generation
         /\ Runtime!Busier(x).busy = x.busy + 1 /\ Runtime!LessBusy(x).busy = x.busy - 1
         /\ \A y \in {Runtime!Working(x), Runtime!Resting(x)} :
              /\ y.retained = x.retained /\ y.ended = x.ended /\ y.generation = x.generation
              /\ y.busy = x.busy
         /\ Runtime!Working(x).active = TRUE /\ Runtime!Resting(x).active = FALSE
         /\ \A n \in Nat : LET y == Runtime!Counted(x, n) IN
              /\ y.retained = n /\ y.active = x.active /\ y.ended = x.ended
              /\ y.generation = x.generation /\ y.busy = x.busy
         /\ LET y == Runtime!Prompted(x) IN
              /\ y.retained = x.retained /\ y.active = TRUE /\ y.ended = FALSE
              /\ y.generation = x.generation + 1 /\ y.busy = x.busy
<1>1. \A y \in {Runtime!Busier(x), Runtime!LessBusy(x)} :
        /\ y.retained = x.retained /\ y.active = x.active /\ y.ended = x.ended
        /\ y.generation = x.generation
  BY DEF Runtime!Busier, Runtime!LessBusy, StateTypes
<1>2. Runtime!Busier(x).busy = x.busy + 1 /\ Runtime!LessBusy(x).busy = x.busy - 1
  BY DEF Runtime!Busier, Runtime!LessBusy, StateTypes
<1>3. \A y \in {Runtime!Working(x), Runtime!Resting(x)} :
        /\ y.retained = x.retained /\ y.ended = x.ended /\ y.generation = x.generation
        /\ y.busy = x.busy
  BY DEF Runtime!Working, Runtime!Resting, StateTypes
<1>4. Runtime!Working(x).active = TRUE /\ Runtime!Resting(x).active = FALSE
  BY DEF Runtime!Working, Runtime!Resting, StateTypes
<1>5. \A n \in Nat : LET y == Runtime!Counted(x, n) IN
        /\ y.retained = n /\ y.active = x.active /\ y.ended = x.ended
        /\ y.generation = x.generation /\ y.busy = x.busy
  BY DEF Runtime!Counted, StateTypes
<1>6. LET y == Runtime!Prompted(x) IN
        /\ y.retained = x.retained /\ y.active = TRUE /\ y.ended = FALSE
        /\ y.generation = x.generation + 1 /\ y.busy = x.busy
  BY DEF Runtime!Prompted, StateTypes
<1> QED BY <1>1, <1>2, <1>3, <1>4, <1>5, <1>6

\* The core e is c with other tasks and object o set to x.
TasksSet(c, o, x, ts, e) == e = [c EXCEPT !.state[o] = x, !.tasks = ts]

\* The core e differs from c in tasks of session s and in how busy its object o is.
LEMMA TasksChange ==
  ASSUME NEW c, CoreOK(c), NEW s \in Runtime!Ids, NEW o, o = c.object[s], o # 0,
         NEW x \in StateTypes, NEW ts, IsFiniteSet(ts),
         \A t \in ts : t \in c.tasks \/ (t.session = s /\ t.object = o /\ t.n \in Nat),
         \A t \in c.tasks : t \in ts \/ t.session = s,
         Cardinality(TasksAt(ts, o)) <= x.busy,
         NEW e, TasksSet(c, o, x, ts, e)
  PROVE  /\ CoreOK(e) /\ OthersKept(c, e, s)
         /\ e.object = c.object /\ e.admitted = c.admitted /\ e.cursor = c.cursor
         /\ e.injection = c.injection /\ e.tasks = ts /\ e.state[o] = x
<1>1. /\ c.object \in [Runtime!Ids -> 0 .. MaxObjects] /\ o \in 1 .. MaxObjects
      /\ c.state \in [1 .. MaxObjects -> StateTypes] /\ IsCore(c)
  BY CoreFields, AgentsConstants DEF CoreOK, Runtime!RuntimeConstants
<1>2. /\ e.state = [c.state EXCEPT ![o] = x] /\ e.tasks = ts
      /\ e.object = c.object /\ e.admitted = c.admitted /\ e.cursor = c.cursor
      /\ e.injection = c.injection
      /\ e = [order |-> e.order, object |-> e.object, state |-> e.state,
              admitted |-> e.admitted, cursor |-> e.cursor, injection |-> e.injection,
              last |-> e.last, tasks |-> e.tasks]
  BY <1>1 DEF IsCore, TasksSet
<1>3. e.state \in [1 .. MaxObjects -> StateTypes] /\ e.state[o] = x
      /\ \A i \in 1 .. MaxObjects : i # o => e.state[i] = c.state[i]
  BY <1>1, <1>2
<1>4. IsCore(e)
  BY <1>1, <1>2, <1>3, CoreFields DEF IsCore
<1>5. ASSUME NEW t \in ts PROVE TaskOK(t) /\ c.object[t.session] = t.object
  BY <1>1 DEF CoreOK, TaskOK
<1>6. ASSUME NEW i \in 1 .. MaxObjects, i # o
      PROVE  TasksAt(ts, i) = TasksAt(c.tasks, i)
  <2>1. ASSUME NEW t \in ts, t.object = i PROVE t \in c.tasks
    BY <1>6, <2>1
  <2>2. ASSUME NEW t \in c.tasks, t.object = i PROVE t \in ts
    BY <1>6, <2>2 DEF CoreOK
  <2> QED BY <2>1, <2>2 DEF TasksAt
<1>7. CoreOK(e)
  <2>1. \A i \in 1 .. MaxObjects : Cardinality(TasksAt(e.tasks, i)) <= e.state[i].busy
    BY <1>2, <1>3, <1>6 DEF CoreOK
  <2> QED BY <1>2, <1>4, <1>5, <2>1 DEF CoreOK
<1>8. ASSUME NEW r \in Runtime!Ids \ {s} PROVE SameFor(c, e, r)
  <2>1. c.object[r] # 0 => c.object[r] \in 1 .. MaxObjects /\ c.object[r] # o
    BY <1>1 DEF CoreOK
  <2>2. TasksOf(e, r) = TasksOf(c, r)
    BY <1>2 DEF TasksOf
  <2> QED BY <1>2, <1>3, <2>1, <2>2 DEF SameFor
<1> QED BY <1>2, <1>3, <1>7, <1>8 DEF OthersKept, KeptFor

\* The core e is c with object o of session s set to x, its cursor to cur and its block
\* to inj, as far as an operation sets them.
ObjectSet(c, s, o, x, cur, inj, e) ==
  \/ e = [c EXCEPT !.state[o] = x] /\ cur = c.cursor[s] /\ inj = c.injection[s]
  \/ e = [c EXCEPT !.state[o] = x, !.injection[s] = inj] /\ cur = c.cursor[s]
  \/ \E l : e = [c EXCEPT !.injection[s] = inj, !.last = l]
            /\ cur = c.cursor[s] /\ x = c.state[o]
  \/ e = [c EXCEPT !.cursor[s] = cur] /\ inj = c.injection[s] /\ x = c.state[o]

\* The core e differs from c in fields of session s and in its object, not in tasks.
LEMMA ObjectChanges ==
  ASSUME NEW c, CoreOK(c), NEW s \in Runtime!Ids, NEW o, o = c.object[s], o # 0,
         NEW x \in StateTypes, x.busy = c.state[o].busy,
         NEW cur \in {"none", "clean", "unsent"}, NEW inj \in Nat, NEW e,
         ObjectSet(c, s, o, x, cur, inj, e)
  PROVE  /\ CoreOK(e) /\ OthersKept(c, e, s)
         /\ e.object = c.object /\ e.admitted = c.admitted /\ e.tasks = c.tasks
         /\ e.cursor[s] = cur /\ e.injection[s] = inj /\ e.state[o] = x
<1>1. /\ c.object \in [Runtime!Ids -> 0 .. MaxObjects] /\ o \in 1 .. MaxObjects
      /\ c.state \in [1 .. MaxObjects -> StateTypes] /\ IsCore(c)
      /\ c.cursor \in [Runtime!Ids -> {"none", "clean", "unsent"}]
      /\ c.injection \in [Runtime!Ids -> Nat]
  BY CoreFields, AgentsConstants DEF CoreOK, Runtime!RuntimeConstants
<1>2. /\ e.object = c.object /\ e.admitted = c.admitted /\ e.tasks = c.tasks
      /\ e.state = [c.state EXCEPT ![o] = x]
      /\ e.cursor = [c.cursor EXCEPT ![s] = cur]
      /\ e.injection = [c.injection EXCEPT ![s] = inj]
      /\ e = [order |-> e.order, object |-> e.object, state |-> e.state,
              admitted |-> e.admitted, cursor |-> e.cursor, injection |-> e.injection,
              last |-> e.last, tasks |-> e.tasks]
  <2>1. CASE e = [c EXCEPT !.state[o] = x] /\ cur = c.cursor[s] /\ inj = c.injection[s]
    BY <1>1, <2>1 DEF IsCore
  <2>2. CASE e = [c EXCEPT !.state[o] = x, !.injection[s] = inj] /\ cur = c.cursor[s]
    BY <1>1, <2>2 DEF IsCore
  <2>3. ASSUME NEW l, e = [c EXCEPT !.injection[s] = inj, !.last = l], cur = c.cursor[s],
               x = c.state[o]
        PROVE  /\ e.object = c.object /\ e.admitted = c.admitted /\ e.tasks = c.tasks
               /\ e.state = [c.state EXCEPT ![o] = x]
               /\ e.cursor = [c.cursor EXCEPT ![s] = cur]
               /\ e.injection = [c.injection EXCEPT ![s] = inj]
               /\ e = [order |-> e.order, object |-> e.object, state |-> e.state,
                       admitted |-> e.admitted, cursor |-> e.cursor, injection |-> e.injection,
                       last |-> e.last, tasks |-> e.tasks]
    BY <1>1, <2>3 DEF IsCore
  <2>4. CASE e = [c EXCEPT !.cursor[s] = cur] /\ inj = c.injection[s] /\ x = c.state[o]
    BY <1>1, <2>4 DEF IsCore
  <2> QED BY <2>1, <2>2, <2>3, <2>4 DEF ObjectSet
<1>3. /\ e.state \in [1 .. MaxObjects -> StateTypes] /\ e.state[o] = x
      /\ \A i \in 1 .. MaxObjects : i # o => e.state[i] = c.state[i]
      /\ e.cursor \in [Runtime!Ids -> {"none", "clean", "unsent"}] /\ e.cursor[s] = cur
      /\ e.injection \in [Runtime!Ids -> Nat] /\ e.injection[s] = inj
      /\ \A r \in Runtime!Ids : r # s =>
           e.injection[r] = c.injection[r] /\ e.cursor[r] = c.cursor[r]
  BY <1>1, <1>2, ZenonT(40)
<1>4. IsCore(e)
  BY <1>1, <1>2, <1>3, CoreFields DEF IsCore
<1>5. CoreOK(e) /\ OthersKept(c, e, s)
  <2>1. /\ c.object[s] # 0 /\ e.object = c.object /\ e.admitted = c.admitted
        /\ e.tasks = c.tasks
        /\ \A i \in 1 .. MaxObjects : i # c.object[s] => e.state[i] = c.state[i]
        /\ e.state[c.object[s]].busy = c.state[c.object[s]].busy
        /\ \A r \in Runtime!Ids : r # s =>
             e.injection[r] = c.injection[r] /\ e.cursor[r] = c.cursor[r]
    BY <1>2, <1>3
  <2> QED BY <1>4, <2>1, SessionChanges
<1> QED BY <1>2, <1>3, <1>5

\* A new task, which pins its session.
TaskAdded(c, e, s, o, kind, n) ==
  \E u : u.kind = kind /\ u.session = s /\ u.object = o /\ u.n = n
         /\ e.tasks = c.tasks \cup {u}

LEMMA PinKeeps ==
  ASSUME NEW c, CoreOK(c), NEW s \in Runtime!Ids, NEW o, o = c.object[s], o # 0,
         NEW kind, NEW n \in Nat, NEW e, e = Runtime!Pin(c, Runtime!Task(kind, s, o, n))
  PROVE  /\ CoreOK(e) /\ OthersKept(c, e, s)
         /\ e.object = c.object /\ e.admitted = c.admitted /\ e.cursor = c.cursor
         /\ e.injection = c.injection /\ e.state[o] = Runtime!Busier(c.state[o])
         /\ TaskAdded(c, e, s, o, kind, n)
<1> DEFINE t == Runtime!Task(kind, s, o, n)
           free == {copy \in 1 .. MaxTasks : Runtime!Numbered(t, copy) \notin c.tasks}
           u == Runtime!Numbered(t, CHOOSE copy \in free : \A other \in free : copy <= other)
           ts == c.tasks \cup {u}
           x == Runtime!Busier(c.state[o])
<1>1. u.kind = kind /\ u.session = s /\ u.object = o /\ u.n = n
  BY DEF Runtime!Numbered, Runtime!Task
<1>2. TasksSet(c, o, x, ts, e)
  BY DEF TasksSet, Runtime!Pin, Runtime!Begin, Runtime!Task
<1> HIDE DEF t, u, free
<1>3. /\ c.object \in [Runtime!Ids -> 0 .. MaxObjects] /\ o \in 1 .. MaxObjects
      /\ c.state[o] \in StateTypes
  BY CoreFields, AgentsConstants DEF CoreOK, Runtime!RuntimeConstants
<1>4. x \in StateTypes /\ x.busy = c.state[o].busy + 1 /\ c.state[o].busy \in Nat
  BY <1>3, StateObjects, StateFields DEF StateTypes
<1>5. IsFiniteSet(ts) /\ IsFiniteSet(TasksAt(c.tasks, o))
  BY FS_AddElement, FS_Subset DEF CoreOK, TasksAt
<1>6. TasksAt(ts, o) = TasksAt(c.tasks, o) \cup {u}
  BY <1>1 DEF TasksAt
<1>7. Cardinality(TasksAt(c.tasks, o)) <= c.state[o].busy
      /\ Cardinality(TasksAt(c.tasks, o)) \in Nat
  BY <1>3, <1>5, FS_CardinalityType DEF CoreOK
<1>8. Cardinality(TasksAt(ts, o)) <= x.busy
  <2>1. Cardinality(TasksAt(ts, o)) = Cardinality(TasksAt(c.tasks, o))
        \/ Cardinality(TasksAt(ts, o)) = Cardinality(TasksAt(c.tasks, o)) + 1
    BY <1>5, <1>6, FS_AddElement
  <2> HIDE DEF ts, x
  <2> QED BY <1>4, <1>7, <2>1
<1>9. /\ \A v \in ts : v \in c.tasks \/ (v.session = s /\ v.object = o /\ v.n \in Nat)
      /\ \A v \in c.tasks : v \in ts \/ v.session = s
  BY <1>1
<1>10. /\ CoreOK(e) /\ OthersKept(c, e, s)
       /\ e.object = c.object /\ e.admitted = c.admitted /\ e.cursor = c.cursor
       /\ e.injection = c.injection /\ e.tasks = ts /\ e.state[o] = x
  <2> HIDE DEF ts, x
  <2> QED BY <1>2, <1>4, <1>5, <1>8, <1>9, TasksChange
<1> QED BY <1>1, <1>10 DEF TaskAdded

\* The end of a task: its session goes if it was ended and this was all it had.
LEMMA ReleaseKeeps ==
  ASSUME NEW c, CoreOK(c), NEW t \in c.tasks, NEW s, s = t.session, NEW o, o = t.object,
         NEW d, d = Runtime!Release(c, t)
  PROVE  /\ CoreOK(d) /\ OthersKept(c, d, s) /\ s \in Runtime!Ids /\ c.object[s] = o
         /\ \/ d.object[s] = 0
            \/ /\ d.object = c.object /\ d.cursor = c.cursor /\ d.injection = c.injection
               /\ d.tasks = c.tasks \ {t} /\ d.state[o] = Runtime!LessBusy(c.state[o])
               /\ EndedOK(d, s)
<1> DEFINE ts == c.tasks \ {t}
           x == Runtime!LessBusy(c.state[o])
           e == [c EXCEPT !.state[o] = x, !.tasks = ts]
<1>1. s \in Runtime!Ids /\ o \in 1 .. MaxObjects /\ c.object[s] = o /\ o # 0
  BY DEF CoreOK, TaskOK
<1>2. d = Runtime!CleanupEnded(e, s, o)
  BY DEF Runtime!Release
<1>3. c.state[o] \in StateTypes /\ c.state[o].busy \in Nat
  BY <1>1, CoreFields DEF CoreOK, StateTypes
<1>4. IsFiniteSet(ts) /\ IsFiniteSet(TasksAt(c.tasks, o)) /\ t \in TasksAt(c.tasks, o)
  BY FS_Subset DEF CoreOK, TasksAt
<1>5. TasksAt(ts, o) = TasksAt(c.tasks, o) \ {t}
  BY DEF TasksAt
<1>6. /\ Cardinality(TasksAt(ts, o)) = Cardinality(TasksAt(c.tasks, o)) - 1
      /\ Cardinality(TasksAt(c.tasks, o)) <= c.state[o].busy
      /\ Cardinality(TasksAt(ts, o)) \in Nat /\ Cardinality(TasksAt(c.tasks, o)) \in Nat
  <2>1. Cardinality(TasksAt(ts, o)) = Cardinality(TasksAt(c.tasks, o)) - 1
    BY <1>4, <1>5, FS_RemoveElement
  <2>2. Cardinality(TasksAt(c.tasks, o)) <= c.state[o].busy
    BY <1>1 DEF CoreOK
  <2>3. IsFiniteSet(TasksAt(ts, o))
    BY <1>4, FS_Subset DEF TasksAt
  <2> QED BY <1>4, <2>1, <2>2, <2>3, FS_CardinalityType
<1>7. /\ x \in StateTypes /\ x.busy = c.state[o].busy - 1
      /\ Cardinality(TasksAt(ts, o)) <= x.busy
  <2>1. c.state[o].busy > 0
    BY <1>3, <1>6
  <2>2. x \in StateTypes /\ x.busy = c.state[o].busy - 1
    BY <1>3, <2>1, StateObjects, StateFields
  <2> HIDE DEF x, ts
  <2> QED BY <1>3, <1>6, <2>2
<1>8. /\ \A v \in ts : v \in c.tasks \/ (v.session = s /\ v.object = o /\ v.n \in Nat)
      /\ \A v \in c.tasks : v \in ts \/ v.session = s
  OBVIOUS
<1>9. /\ CoreOK(e) /\ OthersKept(c, e, s)
      /\ e.object = c.object /\ e.admitted = c.admitted /\ e.cursor = c.cursor
      /\ e.injection = c.injection /\ e.tasks = ts /\ e.state[o] = x
  <2>1. TasksSet(c, o, x, ts, e)
    BY DEF TasksSet
  <2> HIDE DEF e, x, ts
  <2> QED BY <1>1, <1>4, <1>7, <1>8, <2>1, TasksChange
<1> HIDE DEF e, x
<1>10. CoreOK(d) /\ OthersKept(e, d, s) /\ (d.object[s] = 0 \/ (d = e /\ EndedOK(e, s)))
  BY <1>1, <1>2, <1>9, CleanupKeeps
<1> QED BY <1>1, <1>9, <1>10, OthersTwice DEF x

-----------------------------------------------------------------------------
(* What the operators make of what SoundFor says.                           *)

\* The core changes to d, at session s only.
Only(f, g, s, S) == g \in [Runtime!Ids -> S] /\ \A r \in Runtime!Ids \ {s} : g[r] = f[r]

LEMMA OnlyOneOf ==
  ASSUME NEW S, NEW f \in [Runtime!Ids -> S], NEW s \in Runtime!Ids, NEW v \in S
  PROVE  Only(f, [f EXCEPT ![s] = v], s, S) /\ Only(f, f, s, S)
BY DEF Only

LEMMA BecomesCore ==
  ASSUME NEW d, CoreOK(d), Runtime!Becomes(d)
  PROVE  Runtime!Core' = d
<1>1. IsCore(d)
  BY DEF CoreOK
<1>2. d = [order |-> d.order, object |-> d.object, state |-> d.state,
           admitted |-> d.admitted, cursor |-> d.cursor, injection |-> d.injection,
           last |-> d.last, tasks |-> d.tasks]
  BY <1>1, CoreFields
<1> QED BY <1>2 DEF Runtime!Becomes, Runtime!Core

\* One session's step.
LEMMA OneSession ==
  ASSUME RuntimeInv, NEW s \in Runtime!Ids, NEW d, CoreOK(d), OthersKept(Runtime!Core, d, s),
         Runtime!Core' = d, host' = host,
         Only(phase, phase', s, Phases), Only(prompts, prompts', s, Nat),
         Only(idle, idle', s, Nat), Only(written, written', s, Nat),
         DOMAIN delivered' = Runtime!Ids,
         \A r \in Runtime!Ids \ {s} : delivered'[r] = delivered[r],
         TurnOK(s, host, phase'[s], prompts'[s], idle'[s], delivered'[s]),
         Holds(d, s, host, phase'[s], prompts'[s], written'[s])
  PROVE  RuntimeInv'
<1>1. /\ phase' \in [Runtime!Ids -> Phases] /\ prompts' \in [Runtime!Ids -> Nat]
      /\ idle' \in [Runtime!Ids -> Nat] /\ written' \in [Runtime!Ids -> Nat]
      /\ \A r \in Runtime!Ids \ {s} :
           /\ phase'[r] = phase[r] /\ prompts'[r] = prompts[r] /\ idle'[r] = idle[r]
           /\ written'[r] = written[r]
  BY DEF Only
<1>2. ASSUME NEW r \in Runtime!Ids, r # s
      PROVE  /\ TurnOK(r, host, phase'[r], prompts'[r], idle'[r], delivered'[r])
             /\ Holds(d, r, host, phase'[r], prompts'[r], written'[r])
  <2>1. KeptFor(Runtime!Core, d, r)
    BY <1>2 DEF OthersKept
  <2>2. /\ Holds(Runtime!Core, r, host, phase[r], prompts[r], written[r])
        /\ TurnOK(r, host, phase[r], prompts[r], idle[r], delivered[r])
    BY DEF RuntimeInv
  <2> QED BY <1>1, <1>2, <2>1, <2>2, HoldsKept
<1> QED BY <1>1, <1>2 DEF RuntimeInv

\* An admitted session is sound as it was, or anew.
LEMMA StateForHolds ==
  ASSUME NEW c, CoreOK(c), NEW s \in Runtime!Ids, c.admitted < MaxObjects, s \notin Foreign,
         NEW h, NEW ph, NEW pr, NEW w, NEW id, NEW del, TurnOK(s, h, ph, pr, id, del),
         Holds(c, s, h, ph, pr, w), NEW d, d = Runtime!StateFor(c, s)
  PROVE  /\ CoreOK(d) /\ OthersKept(c, d, s) /\ Holds(d, s, h, ph, pr, w)
         /\ d.admitted \in Nat
<1>1. /\ CoreOK(d) /\ OthersKept(c, d, s)
      /\ \/ c.object[s] # 0 /\ d.object[s] # 0 /\ SameFor(c, d, s)
         \/ d.object[s] = 0
         \/ d.object[s] # 0 /\ New(d, s)
  BY StateForKeeps
<1>2. d.admitted \in Nat
  BY <1>1, CoreFields DEF CoreOK
<1>3. CASE SameFor(c, d, s)
  BY <1>1, <1>2, <1>3, HoldsKept DEF KeptFor
<1>4. CASE d.object[s] = 0
  BY <1>1, <1>2, <1>4 DEF Holds, SoundFor
<1>5. CASE New(d, s)
  <2>1. /\ d.state[d.object[s]].retained = 0 /\ d.state[d.object[s]].generation = 0
        /\ d.state[d.object[s]].ended = FALSE /\ TasksOf(d, s) = {} /\ d.injection[s] = 0
    BY <1>5 DEF New, Runtime!Fresh
  <2>2. pr \in Nat /\ (ph \in Live => pr >= 1)
    BY DEF TurnOK, Live
  <2>3. /\ GenerationOK(d.state[d.object[s]], ph, pr)
        /\ RetainedOK(d.state[d.object[s]], TasksOf(d, s), w)
    BY <2>1, <2>2 DEF GenerationOK, RetainedOK, Live
  <2>4. /\ ActiveOK(d.state[d.object[s]], TasksOf(d, s), ph, pr)
        /\ InjectionOK(d.injection[s], TasksOf(d, s), ph, pr)
    BY <2>1, <2>2 DEF ActiveOK, InjectionOK, Live
  <2> QED BY <1>1, <1>2, <2>1, <2>3, <2>4 DEF Holds, SoundFor, ObjectOK, EndedOK
<1> QED BY <1>1, <1>3, <1>4, <1>5

\* The state object of a session of a core.
LEMMA ObjectTypes ==
  ASSUME NEW c, CoreOK(c), NEW s \in Runtime!Ids, c.object[s] # 0
  PROVE  /\ c.object[s] \in 1 .. MaxObjects /\ c.state[c.object[s]] \in StateTypes
         /\ c.cursor[s] \in {"none", "clean", "unsent"} /\ c.injection[s] \in Nat
BY CoreFields, AgentsConstants DEF CoreOK, Runtime!RuntimeConstants

\* A new task of a sound session.
LEMMA PinHolds ==
  ASSUME NEW c, CoreOK(c), NEW s \in Runtime!Ids, NEW o, o = c.object[s], o # 0,
         NEW h, NEW ph, NEW pr, NEW w, SoundFor(c, s, h, ph, pr, w),
         NEW kind, NEW n \in Nat,
         kind = "idle" /\ h # "opencode2" =>
           n <= c.state[o].generation /\ (ph \in Live => n < pr),
         kind = "prompt" /\ h \in {"opencode2", "dsh"} =>
           ph = "prompt" /\ n = pr /\ \A t \in TasksOf(c, s) : t.kind # "prompt",
         NEW e, e = Runtime!Pin(c, Runtime!Task(kind, s, o, n))
  PROVE  CoreOK(e) /\ OthersKept(c, e, s) /\ Holds(e, s, h, ph, pr, w)
<1>1. /\ CoreOK(e) /\ OthersKept(c, e, s)
      /\ e.object = c.object /\ e.admitted = c.admitted /\ e.cursor = c.cursor
      /\ e.injection = c.injection /\ e.state[o] = Runtime!Busier(c.state[o])
      /\ TaskAdded(c, e, s, o, kind, n)
  BY PinKeeps
<1>2. PICK u : /\ u.kind = kind /\ u.session = s /\ u.object = o /\ u.n = n
               /\ e.tasks = c.tasks \cup {u}
  BY <1>1 DEF TaskAdded
<1> DEFINE x == c.state[o]
           y == e.state[o]
           ts == TasksOf(c, s)
           us == TasksOf(e, s)
<1>3. us = ts \cup {u}
  BY <1>2 DEF TasksOf
<1>4. x \in StateTypes /\ c.object[s] \in 1 .. MaxObjects
  BY CoreFields, AgentsConstants DEF CoreOK, Runtime!RuntimeConstants
<1>5. /\ y.retained = x.retained /\ y.active = x.active /\ y.generation = x.generation
      /\ y.busy = x.busy + 1 /\ x.busy \in Nat
  <2>1. y = Runtime!Busier(x)
    BY <1>1
  <2> HIDE DEF x, y
  <2>2. x.busy \in Nat
    BY <1>4 DEF StateTypes
  <2> QED BY <1>4, <2>1, <2>2, StateFields
<1>6. /\ s \notin Foreign /\ RetainedOK(x, ts, w) /\ GenerationOK(x, ph, pr)
      /\ h # "opencode2" => ActiveOK(x, ts, ph, pr)
      /\ h \in {"opencode2", "dsh"} => InjectionOK(c.injection[s], ts, ph, pr)
  BY DEF SoundFor, ObjectOK
<1>7. EndedOK(e, s)
  BY <1>1, <1>5 DEF EndedOK, Runtime!Removable
<1> HIDE DEF x, y, ts, us
<1>8. RetainedOK(y, us, w) /\ GenerationOK(y, ph, pr)
  BY <1>3, <1>5, <1>6 DEF RetainedOK, GenerationOK
<1>9. h # "opencode2" => ActiveOK(y, us, ph, pr)
  BY <1>2, <1>3, <1>5, <1>6 DEF ActiveOK, x
<1>10. h \in {"opencode2", "dsh"} => InjectionOK(e.injection[s], us, ph, pr)
  BY <1>1, <1>2, <1>3, <1>6 DEF InjectionOK, ts
<1> QED BY <1>1, <1>6, <1>7, <1>8, <1>9, <1>10 DEF Holds, SoundFor, ObjectOK, y, us

\* The new task is among those of the core.
Pinned(c, e, s, o, kind, n) ==
  /\ e.object = c.object /\ e.state[o].retained = c.state[o].retained
  /\ c.tasks \subseteq e.tasks
  /\ \E u \in TasksOf(e, s) : u.kind = kind /\ u.n = n

LEMMA PinAdds ==
  ASSUME NEW c, CoreOK(c), NEW s \in Runtime!Ids, NEW o, o = c.object[s], o # 0,
         NEW kind, NEW n \in Nat, NEW e, e = Runtime!Pin(c, Runtime!Task(kind, s, o, n))
  PROVE  Pinned(c, e, s, o, kind, n)
<1>1. /\ CoreOK(e) /\ OthersKept(c, e, s)
      /\ e.object = c.object /\ e.admitted = c.admitted /\ e.cursor = c.cursor
      /\ e.injection = c.injection /\ e.state[o] = Runtime!Busier(c.state[o])
      /\ TaskAdded(c, e, s, o, kind, n)
  BY PinKeeps
<1>2. c.state[o] \in StateTypes
  BY ObjectTypes
<1>3. e.state[o].retained = c.state[o].retained
  <2>1. Runtime!Busier(c.state[o]).retained = c.state[o].retained
    BY <1>2, StateFields
  <2> QED BY <1>1, <2>1
<1> QED BY <1>1, <1>3 DEF TaskAdded, Pinned, TasksOf

\* The end of a task of a sound session.
LEMMA ReleaseHolds ==
  ASSUME NEW c, CoreOK(c), NEW t \in c.tasks, NEW s, s = t.session, NEW o, o = t.object,
         NEW h, NEW ph, NEW pr, NEW w \in Nat, SoundFor(c, s, h, ph, pr, w),
         t.kind # "retain" \/ c.state[o].retained = 0 \/ w >= t.n,
         NEW d, d = Runtime!Release(c, t)
  PROVE  CoreOK(d) /\ OthersKept(c, d, s) /\ Holds(d, s, h, ph, pr, w)
<1>1. /\ CoreOK(d) /\ OthersKept(c, d, s) /\ s \in Runtime!Ids /\ c.object[s] = o
      /\ \/ d.object[s] = 0
         \/ /\ d.object = c.object /\ d.cursor = c.cursor /\ d.injection = c.injection
            /\ d.tasks = c.tasks \ {t} /\ d.state[o] = Runtime!LessBusy(c.state[o])
            /\ EndedOK(d, s)
  BY ReleaseKeeps
<1>2. CASE d.object[s] = 0
  BY <1>1, <1>2 DEF Holds, SoundFor
<1>3. CASE /\ d.object = c.object /\ d.cursor = c.cursor /\ d.injection = c.injection
           /\ d.tasks = c.tasks \ {t} /\ d.state[o] = Runtime!LessBusy(c.state[o])
           /\ EndedOK(d, s)
  <2> DEFINE x == c.state[o]
             y == d.state[o]
             ts == TasksOf(c, s)
             us == TasksOf(d, s)
  <2>1. us = ts \ {t} /\ t \in ts
    BY <1>3 DEF TasksOf
  <2>2. x \in StateTypes /\ o # 0 /\ TaskOK(t)
    <3>1. TaskOK(t) /\ c.state \in [1 .. MaxObjects -> StateTypes]
      BY CoreFields DEF CoreOK
    <3> QED BY <3>1, AgentsConstants DEF TaskOK, Runtime!RuntimeConstants
  <2>3. /\ y.retained = x.retained /\ y.active = x.active /\ y.generation = x.generation
        /\ x.retained \in Nat
    <3>1. y = Runtime!LessBusy(x)
      BY <1>3
    <3> HIDE DEF x, y
    <3>2. x.retained \in Nat
      BY <2>2 DEF StateTypes
    <3> QED BY <2>2, <3>1, <3>2, StateFields
  <2>4. /\ s \notin Foreign /\ RetainedOK(x, ts, w) /\ GenerationOK(x, ph, pr)
        /\ h # "opencode2" => ActiveOK(x, ts, ph, pr)
        /\ h \in {"opencode2", "dsh"} => InjectionOK(c.injection[s], ts, ph, pr)
    BY <1>1, <2>2 DEF SoundFor, ObjectOK
  <2>5. t.kind # "retain" \/ x.retained = 0 \/ w >= t.n
    OBVIOUS
  <2> HIDE DEF x, y, ts, us
  <2>6. RetainedOK(y, us, w) /\ GenerationOK(y, ph, pr)
    BY <2>1, <2>2, <2>3, <2>4, <2>5 DEF RetainedOK, GenerationOK, TaskOK
  <2>7. h # "opencode2" => ActiveOK(y, us, ph, pr)
    BY <2>1, <2>3, <2>4 DEF ActiveOK
  <2>8. h \in {"opencode2", "dsh"} => InjectionOK(d.injection[s], us, ph, pr)
    BY <1>3, <2>1, <2>4 DEF InjectionOK
  <2> QED BY <1>1, <1>3, <2>1, <2>4, <2>6, <2>7, <2>8 DEF Holds, SoundFor, ObjectOK, y, us, ts
<1> QED BY <1>1, <1>2, <1>3

LEMMA ReleaseTasks ==
  ASSUME NEW c, CoreOK(c), NEW t \in c.tasks, NEW d, d = Runtime!Release(c, t)
  PROVE  d.object[t.session] = 0 \/ TasksOf(d, t.session) = TasksOf(c, t.session) \ {t}
<1> DEFINE s == t.session
           o == t.object
<1> HIDE DEF s, o
<1>1. \/ d.object[s] = 0
      \/ /\ d.object = c.object /\ d.cursor = c.cursor /\ d.injection = c.injection
         /\ d.tasks = c.tasks \ {t} /\ d.state[o] = Runtime!LessBusy(c.state[o])
         /\ EndedOK(d, s)
  <2>1. s = t.session /\ o = t.object
    BY DEF s, o
  <2> QED BY <2>1, ReleaseKeeps
<1> QED BY <1>1 DEF TasksOf, s

LEMMA SetSound ==
  ASSUME NEW c, CoreOK(c), NEW s \in Runtime!Ids, NEW o, o = c.object[s], o # 0,
         NEW x \in StateTypes, x.busy = c.state[o].busy,
         NEW cur \in {"none", "clean", "unsent"}, NEW inj \in Nat, NEW e,
         ObjectSet(c, s, o, x, cur, inj, e), NEW h, NEW ph, NEW pr, NEW w,
         s \notin Foreign, ObjectOK(x, inj, TasksOf(c, s), h, ph, pr, w)
  PROVE  /\ CoreOK(e) /\ OthersKept(c, e, s) /\ SoundFor(e, s, h, ph, pr, w)
         /\ e.object = c.object /\ e.admitted = c.admitted /\ TasksOf(e, s) = TasksOf(c, s)
         /\ e.tasks = c.tasks /\ e.state[o] = x /\ e.cursor[s] = cur
<1>1. /\ CoreOK(e) /\ OthersKept(c, e, s)
      /\ e.object = c.object /\ e.admitted = c.admitted /\ e.tasks = c.tasks
      /\ e.cursor[s] = cur /\ e.injection[s] = inj /\ e.state[o] = x
  BY ObjectChanges
<1>2. TasksOf(e, s) = TasksOf(c, s)
  BY <1>1 DEF TasksOf
<1> QED BY <1>1, <1>2 DEF SoundFor

LEMMA CleanupHolds ==
  ASSUME NEW c, CoreOK(c), NEW s \in Runtime!Ids, NEW o, o = c.object[s], o # 0,
         NEW h, NEW ph, NEW pr, NEW w, SoundFor(c, s, h, ph, pr, w),
         NEW d, d = Runtime!CleanupEnded(c, s, o)
  PROVE  CoreOK(d) /\ OthersKept(c, d, s) /\ Holds(d, s, h, ph, pr, w)
<1>1. CoreOK(d) /\ OthersKept(c, d, s) /\ (d.object[s] = 0 \/ (d = c /\ EndedOK(c, s)))
  BY CleanupKeeps
<1> QED BY <1>1 DEF Holds, SoundFor

LEMMA LastKeeps ==
  ASSUME NEW c, CoreOK(c), NEW l, NEW e, e = [c EXCEPT !.last = l]
  PROVE  /\ CoreOK(e) /\ \A r \in Runtime!Ids : SameFor(c, e, r)
         /\ e.object = c.object /\ e.state = c.state /\ e.tasks = c.tasks
         /\ e.injection = c.injection /\ e.admitted = c.admitted
<1>1. IsCore(c)
  BY DEF CoreOK
<1>2. /\ e.object = c.object /\ e.state = c.state /\ e.tasks = c.tasks /\ e.cursor = c.cursor
      /\ e.injection = c.injection /\ e.admitted = c.admitted
      /\ e = [order |-> e.order, object |-> e.object, state |-> e.state,
              admitted |-> e.admitted, cursor |-> e.cursor, injection |-> e.injection,
              last |-> e.last, tasks |-> e.tasks]
  BY <1>1 DEF IsCore
<1>3. IsCore(e)
  BY <1>1, <1>2, CoreFields DEF IsCore
<1> QED BY <1>2, <1>3 DEF CoreOK, SameFor, TasksOf

\* The recall task of a prompt is pinned.
LEMMA PromptPinned ==
  ASSUME NEW c, CoreOK(c), NEW s \in Runtime!Ids, NEW o, o = c.object[s], o # 0,
         NEW h, NEW pr \in Nat, NEW w, SoundFor(c, s, h, "prompt", pr, w),
         h \in {"opencode2", "dsh"} => \A t \in TasksOf(c, s) : t.kind # "prompt",
         NEW d, d = Runtime!Pin(c, Runtime!Task("prompt", s, o, pr))
  PROVE  CoreOK(d) /\ OthersKept(c, d, s) /\ Holds(d, s, h, "prompt", pr, w)
<1> DEFINE kind == "prompt"
           turn == "prompt"
<1>1. /\ SoundFor(c, s, h, turn, pr, w) /\ d = Runtime!Pin(c, Runtime!Task(kind, s, o, pr))
      /\ kind # "idle" /\ turn = "prompt"
  OBVIOUS
<1> HIDE DEF kind, turn
<1>2. CoreOK(d) /\ OthersKept(c, d, s) /\ Holds(d, s, h, turn, pr, w)
  BY <1>1, PinHolds
<1> QED BY <1>1, <1>2

\* A session whose next prompt begins.
LEMMA PromptHolds ==
  ASSUME NEW b, CoreOK(b), NEW s \in Runtime!Ids, b.admitted < MaxObjects, s \notin Foreign,
         NEW h, NEW ph, NEW pr, NEW w, NEW id, NEW del, TurnOK(s, h, ph, pr, id, del),
         Holds(b, s, h, ph, pr, w),
         NEW pr2, (ph = "rest" /\ pr2 = pr + 1) \/ (ph = "start" /\ pr2 = pr),
         NEW c, c = Runtime!StateFor(b, s), NEW o, o = c.object[s], o # 0,
         NEW e, e = Runtime!Activate(c, s, o)
  PROVE  /\ CoreOK(e) /\ OthersKept(b, e, s) /\ Holds(e, s, h, "request", pr2, w)
         /\ LET d == Runtime!Pin(e, Runtime!Task("prompt", s, o, pr2)) IN
              CoreOK(d) /\ OthersKept(b, d, s) /\ Holds(d, s, h, "prompt", pr2, w)
<1> DEFINE z == c.state[o]
           x == Runtime!Prompted(z)
           ts == TasksOf(c, s)
           none == 0
<1>1. CoreOK(c) /\ OthersKept(b, c, s) /\ Holds(c, s, h, ph, pr, w)
  BY StateForHolds
<1>2. /\ z \in StateTypes /\ c.cursor[s] \in {"none", "clean", "unsent"}
      /\ c.injection[s] \in Nat /\ o \in 1 .. MaxObjects
  BY <1>1, ObjectTypes
<1>3. /\ x.retained = z.retained /\ x.active = TRUE /\ x.ended = FALSE
      /\ x.generation = z.generation + 1 /\ x.busy = z.busy /\ x \in StateTypes
      /\ z.generation \in Nat
  <2> HIDE DEF z
  <2>1. z.generation \in Nat
    BY <1>2 DEF StateTypes
  <2> QED BY <1>2, <2>1, StateFields, StateObjects
<1>4. /\ RetainedOK(z, ts, w) /\ GenerationOK(z, ph, pr)
      /\ h # "opencode2" => ActiveOK(z, ts, ph, pr)
      /\ h \in {"opencode2", "dsh"} => InjectionOK(c.injection[s], ts, ph, pr)
  BY <1>1 DEF Holds, SoundFor, ObjectOK
<1>5. pr \in Nat /\ pr2 \in Nat /\ (h \in {"opencode2", "dsh"} => ph = "rest")
  BY DEF TurnOK
<1>6. ObjectSet(c, s, o, x, c.cursor[s], none, e) /\ none \in Nat
  BY DEF ObjectSet, Runtime!Activate
<1> HIDE DEF x, z, ts, none
<1>7. RetainedOK(x, ts, w)
  BY <1>3, <1>4 DEF RetainedOK
<1>8. ASSUME h \in {"opencode2", "dsh"} PROVE \A t \in ts : t.kind # "prompt"
  BY <1>4, <1>5, <1>8 DEF InjectionOK
<1>9. \A t \in ts : t.n \in Nat
  BY <1>1 DEF CoreOK, TaskOK, ts, TasksOf
<1>10. ASSUME NEW q \in {"prompt", "request"}
       PROVE  /\ CoreOK(e) /\ OthersKept(c, e, s) /\ SoundFor(e, s, h, q, pr2, w)
              /\ e.object = c.object /\ TasksOf(e, s) = ts /\ e.state[o] = x
  <2>1. GenerationOK(x, q, pr2)
    BY <1>3, <1>4, <1>5 DEF GenerationOK
  <2>2. ASSUME h # "opencode2" PROVE ActiveOK(x, ts, q, pr2)
    <3>1. /\ z.generation <= pr /\ (ph = "start" => z.generation < pr)
          /\ \A t \in ts : t.kind = "idle" => t.n <= z.generation
      BY <1>4, <2>2 DEF GenerationOK, ActiveOK
    <3>2. \A t \in ts : t.kind = "idle" => t.n <= x.generation /\ t.n < pr2
      BY <1>3, <1>5, <1>9, <3>1
    <3> QED BY <1>3, <3>2 DEF ActiveOK
  <2>3. ASSUME h \in {"opencode2", "dsh"} PROVE InjectionOK(none, ts, q, pr2)
    BY <1>8, <2>3 DEF InjectionOK, none
  <2>4. x.busy = c.state[o].busy /\ x \in StateTypes
    BY <1>3 DEF z
  <2>5. ObjectOK(x, none, TasksOf(c, s), h, q, pr2, w)
    BY <1>7, <2>1, <2>2, <2>3 DEF ObjectOK, ts
  <2> QED BY <1>1, <1>2, <1>6, <2>4, <2>5, SetSound DEF ts
<1>11. Holds(e, s, h, "request", pr2, w)
  <2>1. EndedOK(e, s)
    BY <1>3, <1>10 DEF EndedOK
  <2> QED BY <1>10, <2>1 DEF Holds
<1>12. LET d == Runtime!Pin(e, Runtime!Task("prompt", s, o, pr2)) IN
         CoreOK(d) /\ OthersKept(b, d, s) /\ Holds(d, s, h, "prompt", pr2, w)
  <2> DEFINE d == Runtime!Pin(e, Runtime!Task("prompt", s, o, pr2))
  <2>1. CoreOK(d) /\ OthersKept(e, d, s) /\ Holds(d, s, h, "prompt", pr2, w)
    <3>1. /\ CoreOK(e) /\ SoundFor(e, s, h, "prompt", pr2, w) /\ o = e.object[s] /\ o # 0
          /\ h \in {"opencode2", "dsh"} => \A t \in TasksOf(e, s) : t.kind # "prompt"
      BY <1>8, <1>10
    <3> QED BY <1>5, <3>1, PromptPinned
  <2> HIDE DEF d
  <2>2. OthersKept(b, d, s)
    BY <1>1, <1>10, <2>1, OthersTwice
  <2> QED BY <2>1, <2>2 DEF d
<1>13. OthersKept(b, e, s)
  BY <1>1, <1>10, OthersTwice
<1> QED BY <1>10, <1>11, <1>12, <1>13

-----------------------------------------------------------------------------
(* One lemma per operation of the runtime.                                  *)

LEMMA SessionFacts ==
  ASSUME RuntimeInv, NEW s \in Runtime!Ids
  PROVE  /\ CoreOK(Runtime!Core)
         /\ TurnOK(s, host, phase[s], prompts[s], idle[s], delivered[s])
         /\ Holds(Runtime!Core, s, host, phase[s], prompts[s], written[s])
         /\ phase \in [Runtime!Ids -> Phases] /\ prompts \in [Runtime!Ids -> Nat]
         /\ idle \in [Runtime!Ids -> Nat] /\ written \in [Runtime!Ids -> Nat]
         /\ DOMAIN delivered = Runtime!Ids
         /\ Runtime!Core.object = object /\ Runtime!Core.state = state
         /\ Runtime!Core.admitted = admitted /\ Runtime!Core.cursor = cursor
         /\ Runtime!Core.injection = injection /\ Runtime!Core.tasks = tasks
         /\ OthersKept(Runtime!Core, Runtime!Core, s)
BY DEF RuntimeInv, Runtime!Core, OthersKept, KeptFor, SameFor

LEMMA SeedIfColdKeeps ==
  ASSUME RuntimeInv, Runtime!SeedIfCold
  PROVE  RuntimeInv'
<1>1. /\ host' = host /\ phase' = phase /\ prompts' = prompts /\ idle' = idle
      /\ written' = written /\ delivered' = delivered /\ Runtime!Core' = Runtime!Core
  BY DEF Runtime!SeedIfCold, Runtime!coreVars, Runtime!blockVars, Runtime!Core
<1> QED BY <1>1 DEF RuntimeInv

LEMMA OnPromptKeeps ==
  ASSUME RuntimeInv, NEW s \in Runtime!Ids, admitted < MaxObjects, s \notin Foreign,
         \/ phase[s] = "rest" /\ prompts' = [prompts EXCEPT ![s] = @ + 1]
         \/ phase[s] = "start" /\ prompts' = prompts,
         NEW empty \in BOOLEAN, Runtime!OnPrompt(s, empty)
  PROVE  \E d : /\ CoreOK(d) /\ OthersKept(Runtime!Core, d, s) /\ Runtime!Core' = d
                /\ Only(phase, phase', s, Phases) /\ phase'[s] \in {"prompt", "request"}
                /\ Holds(d, s, host, phase'[s], prompts'[s], written[s])
<1> DEFINE b == [Runtime!Core EXCEPT !.last = Runtime!None]
           c == Runtime!StateFor(b, s)
           o == c.object[s]
           t == Runtime!Task("prompt", s, o, prompts'[s])
           begun == Runtime!Activate(c, s, o)
           q == IF o = 0 \/ empty THEN "request" ELSE "prompt"
<1>1. /\ Runtime!Becomes(IF o = 0 THEN c ELSE IF empty THEN begun ELSE Runtime!Pin(begun, t))
      /\ phase' = [phase EXCEPT ![s] = q]
  BY DEF Runtime!OnPrompt
<1>2. /\ CoreOK(b) /\ OthersKept(Runtime!Core, b, s) /\ b.admitted < MaxObjects
      /\ Holds(b, s, host, phase[s], prompts[s], written[s])
      /\ TurnOK(s, host, phase[s], prompts[s], idle[s], delivered[s])
  <2>1. /\ CoreOK(b) /\ b.admitted = Runtime!Core.admitted
        /\ \A r \in Runtime!Ids : SameFor(Runtime!Core, b, r)
    BY SessionFacts, LastKeeps
  <2>2. \A r \in Runtime!Ids : KeptFor(Runtime!Core, b, r)
    BY <2>1 DEF KeptFor
  <2>3. b.admitted < MaxObjects
    BY <2>1, SessionFacts
  <2> HIDE DEF b
  <2> QED BY <2>1, <2>2, <2>3, SessionFacts, HoldsKept DEF OthersKept
<1> HIDE DEF b
<1>3. /\ (phase[s] = "rest" /\ prompts'[s] = prompts[s] + 1)
         \/ (phase[s] = "start" /\ prompts'[s] = prompts[s])
      /\ Only(phase, phase', s, Phases) /\ phase'[s] = q
  <2>1. prompts \in [Runtime!Ids -> Nat] /\ phase \in [Runtime!Ids -> Phases]
    BY SessionFacts
  <2>2. q \in Phases
    BY DEF Phases
  <2> HIDE DEF q
  <2> QED BY <1>1, <2>1, <2>2, OnlyOneOf
<1>4. CASE o = 0
  <2>1. CoreOK(c) /\ OthersKept(b, c, s)
    BY <1>2, StateForHolds
  <2>2. Runtime!Becomes(c) /\ phase'[s] = "request"
    BY <1>1, <1>3, <1>4
  <2>3. Holds(c, s, host, phase'[s], prompts'[s], written[s])
    BY <1>4 DEF Holds, SoundFor
  <2> HIDE DEF c
  <2>4. Runtime!Core' = c
    BY <2>1, <2>2, BecomesCore
  <2> QED BY <1>2, <1>3, <2>1, <2>2, <2>3, <2>4, OthersTwice
<1>5. CASE o # 0
  <2> DEFINE pinned == Runtime!Pin(begun, t)
  <2>1. /\ CoreOK(begun) /\ OthersKept(b, begun, s)
        /\ Holds(begun, s, host, "request", prompts'[s], written[s])
        /\ CoreOK(pinned) /\ OthersKept(b, pinned, s)
        /\ Holds(pinned, s, host, "prompt", prompts'[s], written[s])
    <3> DEFINE ph == phase[s]
               pr == prompts[s]
               pr2 == prompts'[s]
               w == written[s]
               id == idle[s]
               del == delivered[s]
               object1 == o
    <3>1. /\ (ph = "rest" /\ pr2 = pr + 1) \/ (ph = "start" /\ pr2 = pr)
          /\ Holds(b, s, host, ph, pr, w) /\ TurnOK(s, host, ph, pr, id, del)
      BY <1>2, <1>3
    <3>2. /\ c = Runtime!StateFor(b, s) /\ object1 = c.object[s] /\ object1 # 0
          /\ begun = Runtime!Activate(c, s, object1)
      BY <1>5
    <3>3. pinned = Runtime!Pin(begun, Runtime!Task("prompt", s, object1, pr2))
      OBVIOUS
    <3> HIDE DEF ph, pr, pr2, w, id, del, object1, c, begun, pinned
    <3>4. /\ CoreOK(begun) /\ OthersKept(b, begun, s)
          /\ Holds(begun, s, host, "request", pr2, w)
          /\ LET e == Runtime!Pin(begun, Runtime!Task("prompt", s, object1, pr2)) IN
               CoreOK(e) /\ OthersKept(b, e, s) /\ Holds(e, s, host, "prompt", pr2, w)
      BY <1>2, <3>1, <3>2, PromptHolds
    <3> QED BY <3>3, <3>4 DEF pr2, w
  <2> HIDE DEF begun, pinned
  <2>2. CASE empty
    <3>1. Runtime!Becomes(begun) /\ phase'[s] = "request"
      BY <1>1, <1>3, <1>5, <2>2
    <3>2. Runtime!Core' = begun
      BY <2>1, <3>1, BecomesCore
    <3> QED BY <1>2, <1>3, <2>1, <3>1, <3>2, OthersTwice
  <2>3. CASE ~empty
    <3>1. Runtime!Becomes(pinned) /\ phase'[s] = "prompt"
      BY <1>1, <1>3, <1>5, <2>3 DEF pinned
    <3>2. Runtime!Core' = pinned
      BY <2>1, <3>1, BecomesCore
    <3> QED BY <1>2, <1>3, <2>1, <3>1, <3>2, OthersTwice
  <2> QED BY <2>2, <2>3
<1> QED BY <1>4, <1>5

\* A prompt that the core does not hear of.
LEMMA UnheardHolds ==
  ASSUME NEW c, NEW s, NEW h, NEW pr \in Nat, NEW w, Holds(c, s, h, "rest", pr, w),
         NEW q \in Phases, h \in {"opencode2", "dsh"} => q = "model",
         CoreOK(c), s \in Runtime!Ids
  PROVE  Holds(c, s, h, q, pr + 1, w)
<1> SUFFICES ASSUME c.object[s] # 0 PROVE Holds(c, s, h, q, pr + 1, w)
  BY DEF Holds, SoundFor
<1> DEFINE x == c.state[c.object[s]]
           ts == TasksOf(c, s)
           inj == c.injection[s]
<1>1. x \in StateTypes
  BY ObjectTypes
<1>2. x.generation \in Nat
  <2> HIDE DEF x
  <2> QED BY <1>1 DEF StateTypes
<1>3. ObjectOK(x, inj, ts, h, "rest", pr, w) /\ s \notin Foreign /\ EndedOK(c, s)
  BY DEF Holds, SoundFor
<1>4. \A t \in ts : t.n \in Nat
  BY DEF CoreOK, TaskOK, TasksOf
<1> HIDE DEF x, ts, inj
<1>5. RetainedOK(x, ts, w) /\ GenerationOK(x, q, pr + 1)
  BY <1>2, <1>3 DEF ObjectOK, GenerationOK
<1>6. ASSUME h # "opencode2" PROVE ActiveOK(x, ts, q, pr + 1)
  <2>1. x.generation <= pr /\ \A t \in ts : t.kind = "idle" => t.n <= x.generation
    BY <1>3, <1>6 DEF ObjectOK, GenerationOK, ActiveOK
  <2>2. \A t \in ts : t.kind = "idle" => t.n <= x.generation /\ t.n < pr + 1
    BY <1>2, <1>4, <2>1
  <2> QED BY <1>2, <2>1, <2>2 DEF ActiveOK
<1>7. ASSUME h \in {"opencode2", "dsh"} PROVE InjectionOK(inj, ts, q, pr + 1)
  BY <1>3, <1>7 DEF ObjectOK, InjectionOK
<1>8. ObjectOK(x, inj, ts, h, q, pr + 1, w)
  BY <1>5, <1>6, <1>7 DEF ObjectOK
<1> QED BY <1>3, <1>8 DEF Holds, SoundFor, x, ts, inj

\* Nothing but the turn of session s changes.
LEMMA QuietStep ==
  ASSUME RuntimeInv, NEW s \in Runtime!Ids, Runtime!CoreUnchanged, host' = host, written' = written,
         Only(phase, phase', s, Phases), Only(prompts, prompts', s, Nat),
         Only(idle, idle', s, Nat), DOMAIN delivered' = Runtime!Ids,
         \A r \in Runtime!Ids \ {s} : delivered'[r] = delivered[r],
         TurnOK(s, host, phase'[s], prompts'[s], idle'[s], delivered'[s]),
         Holds(Runtime!Core, s, host, phase'[s], prompts'[s], written[s])
  PROVE  RuntimeInv'
<1>1. Runtime!Core' = Runtime!Core
  BY DEF Runtime!CoreUnchanged, Runtime!Core
<1>2. CoreOK(Runtime!Core) /\ OthersKept(Runtime!Core, Runtime!Core, s)
      /\ Only(written, written', s, Nat)
  BY SessionFacts, OnlyOneOf
<1> QED BY <1>1, <1>2, OneSession

LEMMA UserPromptKeeps ==
  ASSUME RuntimeInv, NEW s \in Runtime!Ids, Runtime!UserPrompt(s)
  PROVE  RuntimeInv'
<1>1. /\ phase[s] = "rest" /\ admitted < MaxObjects /\ (idle[s] > 0 => host = "opencode2")
      /\ prompts' = [prompts EXCEPT ![s] = @ + 1] /\ host' = host /\ idle' = idle
      /\ delivered' = delivered /\ written' = written
  BY DEF Runtime!UserPrompt
<1>2. /\ TurnOK(s, host, "rest", prompts[s], idle[s], delivered[s])
      /\ Holds(Runtime!Core, s, host, "rest", prompts[s], written[s])
      /\ prompts[s] \in Nat /\ idle[s] \in Nat /\ CoreOK(Runtime!Core)
      /\ Only(prompts, prompts', s, Nat) /\ prompts'[s] = prompts[s] + 1
      /\ Only(idle, idle', s, Nat) /\ DOMAIN delivered' = Runtime!Ids
      /\ Only(written, written', s, Nat)
  <2>1. /\ TurnOK(s, host, "rest", prompts[s], idle[s], delivered[s])
        /\ Holds(Runtime!Core, s, host, "rest", prompts[s], written[s])
        /\ prompts \in [Runtime!Ids -> Nat] /\ idle \in [Runtime!Ids -> Nat]
        /\ written \in [Runtime!Ids -> Nat] /\ CoreOK(Runtime!Core)
        /\ DOMAIN delivered = Runtime!Ids
    BY <1>1, SessionFacts
  <2>2. prompts[s] \in Nat /\ idle[s] \in Nat /\ prompts[s] + 1 \in Nat
    BY <2>1
  <2>3. prompts' = [prompts EXCEPT ![s] = prompts[s] + 1] /\ prompts'[s] = prompts[s] + 1
    BY <1>1, <2>1
  <2> QED BY <1>1, <2>1, <2>2, <2>3, OnlyOneOf, ZenonT(40)
<1>3. s \notin Foreign
  BY <1>2 DEF TurnOK
<1>4. ASSUME NEW q \in {"start", "prompt", "request", "model"},
             q = "start" => host \notin {"opencode2", "dsh"}
      PROVE  TurnOK(s, host, q, prompts[s] + 1, idle[s], delivered[s])
  <2> DEFINE p == prompts[s]
             i == idle[s]
             del == delivered[s]
  <2>1. /\ p \in Nat /\ i \in Nat /\ (i > 0 => host = "opencode2")
        /\ (host \in {"opencode2", "dsh"} => del = Runtime!None)
    BY <1>1, <1>2 DEF TurnOK
  <2> HIDE DEF p, i, del
  <2>2. q \in Phases /\ q \notin {"rest", "over", "transform"}
    BY DEF Phases
  <2>3. TurnOK(s, host, q, p + 1, i, del)
    BY <1>3, <1>4, <2>1, <2>2 DEF TurnOK
  <2> QED BY <2>3 DEF p, i, del
<1>5. ASSUME NEW q \in {"start", "model", "request"}, phase' = [phase EXCEPT ![s] = q],
             Runtime!CoreUnchanged, host \notin {"opencode", "opencode2"},
             host = "dsh" => q = "model"
      PROVE  RuntimeInv'
  <2>1. q \in Phases
    BY DEF Phases
  <2>2. Only(phase, phase', s, Phases) /\ phase'[s] = q
    BY <1>5, <2>1, SessionFacts, OnlyOneOf
  <2>3. Holds(Runtime!Core, s, host, q, prompts[s] + 1, written[s])
    BY <1>2, <1>5, <2>1, UnheardHolds
  <2>4. TurnOK(s, host, q, prompts[s] + 1, idle[s], delivered[s])
    BY <1>4, <1>5
  <2> QED BY <1>1, <1>2, <1>5, <2>2, <2>3, <2>4, QuietStep
<1>6. ASSUME NEW empty \in BOOLEAN, Runtime!OnPrompt(s, empty)
      PROVE  RuntimeInv'
  <2>1. PICK d : /\ CoreOK(d) /\ OthersKept(Runtime!Core, d, s) /\ Runtime!Core' = d
                 /\ Only(phase, phase', s, Phases) /\ phase'[s] \in {"prompt", "request"}
                 /\ Holds(d, s, host, phase'[s], prompts'[s], written[s])
    BY <1>1, <1>3, <1>6, OnPromptKeeps
  <2>2. TurnOK(s, host, phase'[s], prompts'[s], idle'[s], delivered'[s])
    BY <1>1, <1>2, <1>4, <2>1
  <2>3. Holds(d, s, host, phase'[s], prompts'[s], written'[s])
    BY <1>1, <2>1
  <2> QED BY <1>1, <1>2, <2>1, <2>2, <2>3, OneSession
<1>7. PICK empty \in BOOLEAN :
        IF host \in {"pi", "cline"} /\ ~awaited
        THEN phase' = [phase EXCEPT ![s] = "start"] /\ Runtime!CoreUnchanged
        ELSE IF empty /\ host \notin {"opencode", "opencode2"}
             THEN /\ phase' = [phase EXCEPT ![s] = IF host = "dsh" THEN "model" ELSE "request"]
                  /\ Runtime!CoreUnchanged
             ELSE Runtime!OnPrompt(s, empty)
  BY DEF Runtime!UserPrompt
<1> QED BY <1>5, <1>6, <1>7

LEMMA StartedPromptKeeps ==
  ASSUME RuntimeInv, NEW s \in Runtime!Ids, Runtime!StartedPrompt(s)
  PROVE  RuntimeInv'
<1>1. /\ phase[s] = "start" /\ admitted < MaxObjects /\ prompts' = prompts
      /\ Runtime!OnPrompt(s, FALSE) /\ host' = host /\ idle' = idle
      /\ delivered' = delivered /\ written' = written
  BY DEF Runtime!StartedPrompt
<1>2. /\ TurnOK(s, host, "start", prompts[s], idle[s], delivered[s])
      /\ Only(prompts, prompts', s, Nat) /\ Only(idle, idle', s, Nat)
      /\ DOMAIN delivered' = Runtime!Ids /\ Only(written, written', s, Nat)
  BY <1>1, SessionFacts, OnlyOneOf
<1>3. s \notin Foreign
  BY <1>2 DEF TurnOK
<1>4. PICK d : /\ CoreOK(d) /\ OthersKept(Runtime!Core, d, s) /\ Runtime!Core' = d
               /\ Only(phase, phase', s, Phases) /\ phase'[s] \in {"prompt", "request"}
               /\ Holds(d, s, host, phase'[s], prompts'[s], written[s])
  BY <1>1, <1>3, OnPromptKeeps
<1>5. TurnOK(s, host, phase'[s], prompts'[s], idle'[s], delivered'[s])
  BY <1>1, <1>2, <1>4 DEF TurnOK, Phases
<1>6. Holds(d, s, host, phase'[s], prompts'[s], written'[s])
  BY <1>1, <1>4
<1> QED BY <1>1, <1>2, <1>4, <1>5, <1>6, OneSession

\* A turn goes on from one phase to another.
LEMMA PhaseHolds ==
  ASSUME NEW c, NEW s, NEW h, NEW p, NEW q, NEW pr, NEW w, Holds(c, s, h, p, pr, w),
         q # "start", q \in Live => p \in Live \ {"start"},
         h \in {"opencode2", "dsh"} =>
           /\ q \in {"prompt", "request"} => p \in {"prompt", "request"}
           /\ q \in {"prompt", "over"} \/ \A t \in TasksOf(c, s) : t.kind # "prompt"
  PROVE  Holds(c, s, h, q, pr, w)
BY DEF Holds, SoundFor, ObjectOK, GenerationOK, ActiveOK, InjectionOK

LEMMA HookBudgetEndsKeeps ==
  ASSUME RuntimeInv, NEW s \in Runtime!Ids, Runtime!HookBudgetEnds(s)
  PROVE  RuntimeInv'
<1>1. /\ host = "cline" /\ phase[s] = "prompt" /\ phase' = [phase EXCEPT ![s] = "request"]
      /\ host' = host /\ prompts' = prompts /\ idle' = idle /\ delivered' = delivered
      /\ written' = written /\ Runtime!CoreUnchanged
  BY DEF Runtime!HookBudgetEnds, Runtime!Continue, Runtime!coreVars, Runtime!blockVars,
         Runtime!CoreUnchanged
<1>2. /\ TurnOK(s, host, "prompt", prompts[s], idle[s], delivered[s])
      /\ Holds(Runtime!Core, s, host, "prompt", prompts[s], written[s])
      /\ Only(phase, phase', s, Phases) /\ phase'[s] = "request"
      /\ Only(prompts, prompts', s, Nat) /\ Only(idle, idle', s, Nat)
      /\ DOMAIN delivered' = Runtime!Ids
  BY <1>1, SessionFacts, OnlyOneOf DEF Phases
<1>3. Holds(Runtime!Core, s, host, "request", prompts[s], written[s])
  BY <1>1, <1>2, PhaseHolds DEF Live
<1>4. TurnOK(s, host, "request", prompts[s], idle[s], delivered[s])
  BY <1>1, <1>2 DEF TurnOK, Phases
<1> QED BY <1>1, <1>2, <1>3, <1>4, QuietStep

LEMMA InjectKeeps ==
  ASSUME RuntimeInv, NEW s \in Runtime!Ids, Runtime!Inject(s)
  PROVE  RuntimeInv'
<1> DEFINE q == IF host = "opencode" THEN "transform" ELSE "model"
<1>1. /\ phase[s] = "request" /\ phase' = [phase EXCEPT ![s] = q]
      /\ delivered' = [delivered EXCEPT ![s] = Runtime!GetInjection(s)]
      /\ host' = host /\ prompts' = prompts /\ idle' = idle
      /\ written' = written /\ Runtime!CoreUnchanged
  BY DEF Runtime!Inject, Runtime!coreVars, Runtime!CoreUnchanged
<1>2. q \in {"transform", "model"} /\ q \in Phases /\ (host = "dsh" => q = "model")
      /\ (host = "opencode2" => q = "model")
  BY DEF Phases
<1> HIDE DEF q
<1>3. /\ TurnOK(s, host, "request", prompts[s], idle[s], delivered[s])
      /\ Holds(Runtime!Core, s, host, "request", prompts[s], written[s])
      /\ Only(phase, phase', s, Phases) /\ phase'[s] = q
      /\ Only(prompts, prompts', s, Nat) /\ Only(idle, idle', s, Nat)
      /\ DOMAIN delivered' = Runtime!Ids
      /\ delivered'[s] = Runtime!GetInjection(s)
      /\ \A r \in Runtime!Ids \ {s} : delivered'[r] = delivered[r]
  BY <1>1, <1>2, SessionFacts, OnlyOneOf
<1>4. ASSUME host \in {"opencode2", "dsh"}, object[s] # 0
      PROVE  /\ injection[s] \in {0, prompts[s]}
             /\ \A t \in TasksOf(Runtime!Core, s) : t.kind # "prompt"
  BY <1>3, <1>4, SessionFacts DEF Holds, SoundFor, ObjectOK, InjectionOK
<1>5. Holds(Runtime!Core, s, host, q, prompts[s], written[s])
  <2>1. CASE object[s] = 0
    BY <2>1, SessionFacts DEF Holds, SoundFor
  <2>2. CASE object[s] # 0
    BY <1>2, <1>3, <1>4, <2>2, PhaseHolds DEF Live
  <2> QED BY <2>1, <2>2
<1>6. ASSUME host \in {"opencode2", "dsh"}, delivered'[s] # Runtime!None
      PROVE  delivered'[s].prompt = prompts[s]
  <2>1. object[s] # 0 /\ injection[s] # 0
        /\ delivered'[s] = [session |-> s, prompt |-> injection[s]]
    BY <1>3, <1>6 DEF Runtime!GetInjection, Runtime!HasSession
  <2> QED BY <1>4, <1>6, <2>1
<1>7. TurnOK(s, host, q, prompts[s], idle[s], delivered'[s])
  BY <1>2, <1>3, <1>6 DEF TurnOK
<1> QED BY <1>1, <1>3, <1>5, <1>7, QuietStep

LEMMA ReplyKeeps ==
  ASSUME RuntimeInv, NEW s \in Runtime!Ids, Runtime!Reply(s)
  PROVE  RuntimeInv'
<1> DEFINE n == IF host = "opencode2" THEN 2 ELSE 1
<1>1. /\ phase[s] = "model" /\ phase' = [phase EXCEPT ![s] = "rest"]
      /\ delivered' = [delivered EXCEPT ![s] = Runtime!None]
      /\ host' = host /\ prompts' = prompts /\ idle' = [idle EXCEPT ![s] = n]
      /\ written' = written /\ Runtime!CoreUnchanged
  BY DEF Runtime!Reply, Runtime!coreVars, Runtime!CoreUnchanged
<1>2. n \in Nat
  OBVIOUS
<1> HIDE DEF n
<1>3. /\ TurnOK(s, host, "model", prompts[s], idle[s], delivered[s])
      /\ Holds(Runtime!Core, s, host, "model", prompts[s], written[s])
      /\ Only(phase, phase', s, Phases) /\ phase'[s] = "rest"
      /\ Only(prompts, prompts', s, Nat) /\ Only(idle, idle', s, Nat)
      /\ DOMAIN delivered' = Runtime!Ids
      /\ delivered'[s] = Runtime!None /\ idle'[s] = n
      /\ \A r \in Runtime!Ids \ {s} : delivered'[r] = delivered[r]
  BY <1>1, <1>2, SessionFacts, OnlyOneOf DEF Phases
<1>4. ASSUME host \in {"opencode2", "dsh"}, object[s] # 0
      PROVE  \A t \in TasksOf(Runtime!Core, s) : t.kind # "prompt"
  BY <1>3, <1>4, SessionFacts DEF Holds, SoundFor, ObjectOK, InjectionOK
<1>5. Holds(Runtime!Core, s, host, "rest", prompts[s], written[s])
  <2>1. CASE object[s] = 0
    BY <2>1, SessionFacts DEF Holds, SoundFor
  <2>2. CASE object[s] # 0
    BY <1>3, <1>4, <2>2, PhaseHolds DEF Live
  <2> QED BY <2>1, <2>2
<1>6. TurnOK(s, host, "rest", prompts[s], n, Runtime!None)
  BY <1>2, <1>3 DEF TurnOK, Phases
<1>7. TurnOK(s, host, phase'[s], prompts'[s], idle'[s], delivered'[s])
  BY <1>1, <1>3, <1>6
<1> QED BY <1>1, <1>3, <1>5, <1>7, QuietStep

\* One session's step that sets the core.
LEMMA CoreStep ==
  ASSUME RuntimeInv, NEW s \in Runtime!Ids, NEW d, CoreOK(d), OthersKept(Runtime!Core, d, s),
         Runtime!Becomes(d), host' = host, prompts' = prompts, delivered' = delivered,
         Only(phase, phase', s, Phases), Only(idle, idle', s, Nat),
         Only(written, written', s, Nat),
         TurnOK(s, host, phase'[s], prompts[s], idle'[s], delivered[s]),
         Holds(d, s, host, phase'[s], prompts[s], written'[s])
  PROVE  RuntimeInv'
<1>1. Runtime!Core' = d
  BY BecomesCore
<1>2. Only(prompts, prompts', s, Nat) /\ DOMAIN delivered' = Runtime!Ids
  BY SessionFacts, OnlyOneOf
<1> QED BY <1>1, <1>2, OneSession

LEMMA TurnsAreMany ==
  ASSUME RuntimeInv, NEW s \in Runtime!Ids,
         phase[s] = "transform" \/ (idle[s] > 0 /\ host # "opencode2")
  PROVE  Runtime!Turns(s) \in Nat
<1>1. prompts[s] \in Nat /\ prompts[s] >= 1
  <2>1. TurnOK(s, host, phase[s], prompts[s], idle[s], delivered[s])
    BY SessionFacts
  <2> QED BY <2>1 DEF TurnOK
<1> QED BY <1>1 DEF Runtime!Turns

LEMMA TransformKeeps ==
  ASSUME RuntimeInv, NEW s \in Runtime!Ids, Runtime!Transform(s)
  PROVE  RuntimeInv'
<1> DEFINE c == Runtime!StateFor(Runtime!Core, s)
           o == c.object[s]
           z == c.state[o]
           x == Runtime!Working(z)
           e == [c EXCEPT !.state[o] = x]
           n == Runtime!Turns(s)
           d == Runtime!Pin(e, Runtime!Task("retain", s, o, n))
           ts == TasksOf(c, s)
           pr == prompts[s]
           w == written[s]
           inj == c.injection[s]
<1>1. /\ phase[s] = "transform" /\ admitted < MaxObjects
      /\ Runtime!Becomes(IF o = 0 THEN c ELSE d) /\ phase' = [phase EXCEPT ![s] = "model"]
      /\ host' = host /\ prompts' = prompts /\ idle' = idle
      /\ delivered' = delivered /\ written' = written
  BY DEF Runtime!Transform
<1>2. /\ TurnOK(s, host, "transform", pr, idle[s], delivered[s])
      /\ Holds(Runtime!Core, s, host, "transform", pr, w)
      /\ Only(phase, phase', s, Phases) /\ phase'[s] = "model"
      /\ Only(written, written', s, Nat) /\ Only(idle, idle', s, Nat)
  BY <1>1, SessionFacts, OnlyOneOf DEF Phases
<1>3. s \notin Foreign /\ host \notin {"opencode2", "dsh"} /\ n \in Nat
  BY <1>1, <1>2, TurnsAreMany DEF TurnOK
<1>4. CoreOK(c) /\ OthersKept(Runtime!Core, c, s) /\ Holds(c, s, host, "transform", pr, w)
  BY <1>1, <1>2, <1>3, SessionFacts, StateForHolds
<1>5. TurnOK(s, host, phase'[s], pr, idle'[s], delivered[s])
  BY <1>1, <1>2, <1>3 DEF TurnOK, Phases
<1>6. CASE o = 0
  <2>1. Holds(c, s, host, phase'[s], pr, written'[s])
    BY <1>6 DEF Holds, SoundFor
  <2>2. Runtime!Becomes(c)
    BY <1>1, <1>6
  <2> HIDE DEF c
  <2> QED BY <1>1, <1>2, <1>4, <1>5, <2>1, <2>2, CoreStep
<1>7. CASE o # 0
  <2>1. z \in StateTypes /\ c.cursor[s] \in {"none", "clean", "unsent"} /\ inj \in Nat
        /\ o \in 1 .. MaxObjects
    BY <1>4, <1>7, ObjectTypes
  <2>2. /\ x.retained = z.retained /\ x.active = TRUE /\ x.generation = z.generation
        /\ x.busy = z.busy /\ x \in StateTypes
    <3> HIDE DEF z
    <3> QED BY <2>1, StateFields, StateObjects
  <2>3. ObjectOK(z, inj, ts, host, "transform", pr, w)
    BY <1>4, <1>7 DEF Holds, SoundFor
  <2>4. ObjectSet(c, s, o, x, c.cursor[s], inj, e)
    BY DEF ObjectSet
  <2> HIDE DEF x, z, e, ts, c, d, inj
  <2>5. ObjectOK(x, inj, ts, host, "model", pr, w)
    BY <1>3, <2>2, <2>3 DEF ObjectOK, RetainedOK, GenerationOK, ActiveOK, Live
  <2>6. x.busy = c.state[o].busy /\ ObjectOK(x, inj, TasksOf(c, s), host, "model", pr, w)
    BY <2>2, <2>5 DEF z, ts
  <2>7. /\ CoreOK(e) /\ OthersKept(c, e, s) /\ SoundFor(e, s, host, "model", pr, w)
        /\ e.object = c.object
    BY <1>3, <1>4, <1>7, <2>1, <2>2, <2>4, <2>6, SetSound, SMTT(30)
  <2>8. CoreOK(d) /\ OthersKept(e, d, s) /\ Holds(d, s, host, "model", pr, w)
    BY <1>3, <1>7, <2>7, PinHolds DEF d
  <2>9. OthersKept(Runtime!Core, d, s) /\ Runtime!Becomes(d)
    BY <1>1, <1>4, <1>7, <2>7, <2>8, OthersTwice
  <2> QED BY <1>1, <1>2, <1>5, <2>8, <2>9, CoreStep
<1> QED BY <1>6, <1>7

\* A session that rests.
Rested(c, o, e) == e = [c EXCEPT !.state[o] = Runtime!Resting(@)]

LEMMA RestingSound ==
  ASSUME NEW c, CoreOK(c), NEW s \in Runtime!Ids, NEW o, o = c.object[s], o # 0,
         NEW h, NEW ph, NEW pr, NEW w, SoundFor(c, s, h, ph, pr, w),
         h # "opencode2" => ph \notin Live \/ c.state[o].generation # pr,
         NEW e, Rested(c, o, e)
  PROVE  /\ CoreOK(e) /\ OthersKept(c, e, s) /\ SoundFor(e, s, h, ph, pr, w)
         /\ e.object = c.object /\ e.admitted = c.admitted /\ e.tasks = c.tasks
         /\ e.state[o].retained = c.state[o].retained
<1> DEFINE z == c.state[o]
           x == Runtime!Resting(z)
           ts == TasksOf(c, s)
           inj == c.injection[s]
<1>1. z \in StateTypes /\ c.cursor[s] \in {"none", "clean", "unsent"} /\ inj \in Nat
      /\ o \in 1 .. MaxObjects
  BY ObjectTypes
<1>2. /\ x.retained = z.retained /\ x.generation = z.generation
      /\ x.busy = z.busy /\ x \in StateTypes
  <2> HIDE DEF z
  <2> QED BY <1>1, StateFields, StateObjects
<1>3. ObjectOK(z, inj, ts, h, ph, pr, w) /\ s \notin Foreign
      /\ (h # "opencode2" => ph \notin Live \/ z.generation # pr)
  BY DEF SoundFor
<1>4. ObjectSet(c, s, o, x, c.cursor[s], inj, e)
  BY DEF ObjectSet, Rested
<1> HIDE DEF x, z, ts, inj
<1>5. ObjectOK(x, inj, ts, h, ph, pr, w)
  BY <1>2, <1>3 DEF ObjectOK, RetainedOK, GenerationOK, ActiveOK
<1>6. x.busy = c.state[o].busy /\ ObjectOK(x, inj, TasksOf(c, s), h, ph, pr, w)
  BY <1>2, <1>5 DEF z, ts
<1>7. /\ CoreOK(e) /\ OthersKept(c, e, s) /\ SoundFor(e, s, h, ph, pr, w)
      /\ e.object = c.object /\ e.admitted = c.admitted /\ e.tasks = c.tasks
      /\ e.state[o] = x
  BY <1>1, <1>2, <1>3, <1>4, <1>6, SetSound
<1> QED BY <1>2, <1>7 DEF z

LEMMA RunEndsKeeps ==
  ASSUME RuntimeInv, NEW s \in Runtime!Ids, Runtime!RunEnds(s)
  PROVE  RuntimeInv'
<1> DEFINE n == Runtime!Turns(s)
           pr == prompts[s]
           ph == phase[s]
           w == written[s]
<1>1. PICK empty \in BOOLEAN :
        LET c == IF empty THEN Runtime!Core ELSE Runtime!StateFor(Runtime!Core, s)
            o == c.object[s]
            calm == [c EXCEPT !.state[o] = Runtime!Resting(@)]
            t == Runtime!Task("retain", s, o, n)
        IN  Runtime!Becomes(IF o = 0 THEN c
                            ELSE IF empty THEN Runtime!CleanupEnded(calm, s, o)
                                 ELSE Runtime!Pin(calm, t))
  BY DEF Runtime!RunEnds
<1> DEFINE c == IF empty THEN Runtime!Core ELSE Runtime!StateFor(Runtime!Core, s)
           o == c.object[s]
           calm == [c EXCEPT !.state[o] = Runtime!Resting(@)]
           t == Runtime!Task("retain", s, o, n)
           d == IF o = 0 THEN c
                ELSE IF empty THEN Runtime!CleanupEnded(calm, s, o) ELSE Runtime!Pin(calm, t)
<1>2. /\ host \in {"pi", "cline"} /\ idle[s] > 0 /\ admitted < MaxObjects
      /\ idle' = [idle EXCEPT ![s] = 0] /\ phase' = phase
      /\ host' = host /\ prompts' = prompts /\ delivered' = delivered /\ written' = written
  BY DEF Runtime!RunEnds
<1>3. /\ TurnOK(s, host, ph, pr, idle[s], delivered[s])
      /\ Holds(Runtime!Core, s, host, ph, pr, w)
      /\ Only(phase, phase', s, Phases) /\ phase'[s] = ph
      /\ Only(written, written', s, Nat) /\ written'[s] = w
      /\ Only(idle, idle', s, Nat) /\ idle'[s] = 0
  <2>1. 0 \in Nat /\ idle \in [Runtime!Ids -> Nat]
    BY SessionFacts
  <2>2. Only(idle, idle', s, Nat) /\ idle'[s] = 0
    BY <1>2, <2>1 DEF Only
  <2> QED BY <1>2, <2>2, SessionFacts, OnlyOneOf
<1>4. s \notin Foreign /\ n \in Nat /\ ph \notin Live
  BY <1>2, <1>3, TurnsAreMany DEF TurnOK, Live
<1>5. TurnOK(s, host, phase'[s], pr, idle'[s], delivered[s])
  BY <1>2, <1>3, <1>4 DEF TurnOK
<1>6. CoreOK(c) /\ OthersKept(Runtime!Core, c, s) /\ Holds(c, s, host, ph, pr, w)
  <2>1. CASE empty
    BY <1>3, <2>1, SessionFacts
  <2>2. CASE ~empty
    BY <1>2, <1>3, <1>4, <2>2, SessionFacts, StateForHolds
  <2> QED BY <2>1, <2>2
<1>7. Runtime!Becomes(d)
  BY <1>1
<1>8. CoreOK(d) /\ OthersKept(Runtime!Core, d, s) /\ Holds(d, s, host, ph, pr, w)
  <2> HIDE DEF c, n
  <2>1. CASE o = 0
    BY <1>6, <2>1
  <2>2. CASE o # 0
    <3>1. /\ CoreOK(calm) /\ OthersKept(c, calm, s) /\ SoundFor(calm, s, host, ph, pr, w)
          /\ calm.object = c.object
      <4>1. Rested(c, o, calm)
        BY DEF Rested
      <4> HIDE DEF calm
      <4> QED BY <1>4, <1>6, <2>2, <4>1, RestingSound DEF Holds
    <3>2. CASE empty
      <4>1. d = Runtime!CleanupEnded(calm, s, o)
        BY <2>2, <3>2
      <4> HIDE DEF calm, d
      <4>2. CoreOK(d) /\ OthersKept(calm, d, s) /\ Holds(d, s, host, ph, pr, w)
        BY <2>2, <3>1, <4>1, CleanupHolds
      <4> QED BY <1>6, <3>1, <4>2, OthersTwice
    <3>3. CASE ~empty
      <4>1. d = Runtime!Pin(calm, t)
        BY <2>2, <3>3
      <4> HIDE DEF calm, d
      <4>2. CoreOK(d) /\ OthersKept(calm, d, s) /\ Holds(d, s, host, ph, pr, w)
        BY <1>4, <2>2, <3>1, <4>1, PinHolds
      <4> QED BY <1>6, <3>1, <4>2, OthersTwice
    <3> QED BY <3>2, <3>3
  <2> QED BY <2>1, <2>2
<1> HIDE DEF d
<1> QED BY <1>2, <1>3, <1>5, <1>7, <1>8, CoreStep

LEMMA SessionIdleKeeps ==
  ASSUME RuntimeInv, NEW s \in Runtime!Ids, Runtime!SessionIdle(s)
  PROVE  RuntimeInv'
<1> DEFINE pr == prompts[s]
           ph == phase[s]
           w == written[s]
           c == Runtime!StateFor(Runtime!Core, s)
           o == c.object[s]
           n == c.state[o].generation
           d == Runtime!Pin(c, Runtime!Task("idle", s, o, n))
<1>1. /\ idle[s] > 0 /\ admitted < MaxObjects
      /\ idle' = [idle EXCEPT ![s] = idle[s] - 1] /\ phase' = phase
      /\ host' = host /\ prompts' = prompts /\ delivered' = delivered /\ written' = written
  BY DEF Runtime!SessionIdle
<1>2. IF Runtime!Eligible(s) THEN Runtime!Becomes(IF o = 0 THEN c ELSE d)
      ELSE Runtime!CoreUnchanged
  BY DEF Runtime!SessionIdle
<1>3. /\ TurnOK(s, host, ph, pr, idle[s], delivered[s])
      /\ Holds(Runtime!Core, s, host, ph, pr, w)
      /\ Only(phase, phase', s, Phases) /\ phase'[s] = ph
      /\ Only(written, written', s, Nat) /\ written'[s] = w
      /\ Only(prompts, prompts', s, Nat) /\ DOMAIN delivered' = Runtime!Ids
      /\ idle \in [Runtime!Ids -> Nat]
  BY <1>1, SessionFacts, OnlyOneOf
<1>4. Only(idle, idle', s, Nat) /\ idle'[s] = idle[s] - 1 /\ idle[s] \in Nat
  <2>1. idle[s] \in Nat /\ idle[s] - 1 \in Nat
    BY <1>1, <1>3
  <2> QED BY <1>1, <1>3, <2>1 DEF Only
<1>5. TurnOK(s, host, phase'[s], pr, idle'[s], delivered[s])
  <2> DEFINE i == idle[s]
  <2>1. i \in Nat /\ i > 0 /\ i - 1 \in Nat
    BY <1>1, <1>4
  <2>2. TurnOK(s, host, ph, pr, i, delivered[s])
    BY <1>3
  <2> HIDE DEF i
  <2>3. s \in Foreign => host = "opencode2"
    BY <2>1, <2>2 DEF TurnOK
  <2>4. TurnOK(s, host, ph, pr, i - 1, delivered[s])
    BY <2>1, <2>2, <2>3 DEF TurnOK
  <2> QED BY <1>3, <1>4, <2>4 DEF i
<1>6. CASE ~Runtime!Eligible(s)
  BY <1>1, <1>2, <1>3, <1>4, <1>5, <1>6, QuietStep
<1>7. CASE Runtime!Eligible(s)
  <2>1. s \notin Foreign
    <3>1. CASE host = "opencode2"
      BY <1>3, <1>7, <3>1, SessionFacts DEF Runtime!Eligible, Runtime!HasSession, Holds, SoundFor
    <3>2. CASE host # "opencode2"
      BY <1>1, <1>3, <3>2 DEF TurnOK
    <3> QED BY <3>1, <3>2
  <2>2. CoreOK(c) /\ OthersKept(Runtime!Core, c, s) /\ Holds(c, s, host, ph, pr, w)
    BY <1>1, <1>3, <2>1, SessionFacts, StateForHolds
  <2>3. CASE o = 0
    <3>1. Runtime!Becomes(c)
      BY <1>2, <1>7, <2>3
    <3> HIDE DEF c
    <3> QED BY <1>1, <1>3, <1>4, <1>5, <2>2, <3>1, CoreStep
  <2>4. CASE o # 0
    <3>1. Runtime!Becomes(d)
      BY <1>2, <1>7, <2>4
    <3> HIDE DEF c
    <3>2. n \in Nat /\ n <= c.state[o].generation
      <4>1. c.state[o] \in StateTypes
        BY <2>2, <2>4, ObjectTypes
      <4> QED BY <4>1 DEF StateTypes
    <3>3. host # "opencode2" => ph \notin Live
      BY <1>1, <1>3 DEF TurnOK, Live
    <3>4. CoreOK(d) /\ OthersKept(c, d, s) /\ Holds(d, s, host, ph, pr, w)
      <4> DEFINE kind == "idle"
      <4>1. /\ d = Runtime!Pin(c, Runtime!Task(kind, s, o, n)) /\ kind # "prompt"
            /\ SoundFor(c, s, host, ph, pr, w)
        BY <2>2 DEF Holds
      <4> HIDE DEF n, d, kind
      <4> QED BY <2>2, <2>4, <3>2, <3>3, <4>1, PinHolds
    <3>5. OthersKept(Runtime!Core, d, s)
      BY <2>2, <3>4, OthersTwice
    <3> HIDE DEF d
    <3> QED BY <1>1, <1>3, <1>4, <1>5, <3>1, <3>4, <3>5, CoreStep
  <2> QED BY <2>3, <2>4
<1> QED BY <1>6, <1>7

\* What is known of a task of the core.
LEMMA TaskFacts ==
  ASSUME RuntimeInv, NEW t \in tasks
  PROVE  /\ t.session \in Runtime!Ids /\ t.object \in 1 .. MaxObjects /\ t.n \in Nat
         /\ t.object = Runtime!Core.object[t.session] /\ t.object # 0
         /\ t \in Runtime!Core.tasks /\ t \in TasksOf(Runtime!Core, t.session)
         /\ CoreOK(Runtime!Core)
         /\ Holds(Runtime!Core, t.session, host, phase[t.session], prompts[t.session],
                  written[t.session])
         /\ TurnOK(t.session, host, phase[t.session], prompts[t.session], idle[t.session],
                   delivered[t.session])
<1>1. Runtime!Core.tasks = tasks
  BY DEF Runtime!Core
<1>2. CoreOK(Runtime!Core)
  BY DEF RuntimeInv
<1>3. TaskOK(t) /\ Runtime!Core.object[t.session] = t.object
  BY <1>1, <1>2 DEF CoreOK
<1>4. t.object # 0
  BY <1>3 DEF TaskOK
<1> QED BY <1>1, <1>2, <1>3, <1>4 DEF TaskOK, RuntimeInv, TasksOf

\* A step of a task that leaves the turns alone.
LEMMA TaskStep ==
  ASSUME RuntimeInv, NEW t \in tasks, NEW d, CoreOK(d), OthersKept(Runtime!Core, d, t.session),
         Runtime!Becomes(d), UNCHANGED Runtime!hostVars, delivered' = delivered,
         Only(written, written', t.session, Nat),
         Holds(d, t.session, host, phase[t.session], prompts[t.session], written'[t.session])
  PROVE  RuntimeInv'
<1> DEFINE s == t.session
<1>1. /\ host' = host /\ phase' = phase /\ prompts' = prompts /\ idle' = idle
  BY DEF Runtime!hostVars
<1>2. s \in Runtime!Ids /\ TurnOK(s, host, phase[s], prompts[s], idle[s], delivered[s])
  BY TaskFacts
<1>3. Only(phase, phase', s, Phases) /\ Only(idle, idle', s, Nat)
  BY <1>1, <1>2, SessionFacts, OnlyOneOf
<1>4. Only(written, written', s, Nat) /\ OthersKept(Runtime!Core, d, s)
      /\ Holds(d, s, host, phase[s], prompts[s], written'[s])
  OBVIOUS
<1> HIDE DEF s
<1>5. /\ TurnOK(s, host, phase'[s], prompts[s], idle'[s], delivered[s])
      /\ Holds(d, s, host, phase'[s], prompts[s], written'[s])
  BY <1>1, <1>2, <1>4
<1> QED BY <1>1, <1>2, <1>3, <1>4, <1>5, CoreStep

\* The count of retained turns of a session is set.
IsCounted(c, o, n, e) == e = [c EXCEPT !.state[o] = Runtime!Counted(@, n)]

LEMMA CountedSound ==
  ASSUME NEW c, CoreOK(c), NEW s \in Runtime!Ids, NEW o, o = c.object[s], o # 0,
         NEW h, NEW ph, NEW pr, NEW w, SoundFor(c, s, h, ph, pr, w), NEW n \in Nat,
         NEW e, IsCounted(c, o, n, e), NEW v, n > 0 => v >= n
  PROVE  /\ CoreOK(e) /\ OthersKept(c, e, s) /\ SoundFor(e, s, h, ph, pr, v)
         /\ e.object = c.object /\ e.admitted = c.admitted /\ e.tasks = c.tasks
         /\ e.state[o].retained = n
<1> DEFINE z == c.state[o]
           x == Runtime!Counted(z, n)
           ts == TasksOf(c, s)
           inj == c.injection[s]
<1>1. z \in StateTypes /\ c.cursor[s] \in {"none", "clean", "unsent"} /\ inj \in Nat
      /\ o \in 1 .. MaxObjects
  BY ObjectTypes
<1>2. /\ x.retained = n /\ x.generation = z.generation /\ x.active = z.active
      /\ x.busy = z.busy /\ x \in StateTypes
  <2> HIDE DEF z
  <2> QED BY <1>1 DEF Runtime!Counted, StateTypes
<1>3. ObjectOK(z, inj, ts, h, ph, pr, w) /\ s \notin Foreign
  BY DEF SoundFor
<1>4. ObjectSet(c, s, o, x, c.cursor[s], inj, e)
  BY DEF ObjectSet, IsCounted
<1> HIDE DEF x, z, ts, inj
<1>5. ObjectOK(x, inj, ts, h, ph, pr, v)
  BY <1>2, <1>3 DEF ObjectOK, RetainedOK, GenerationOK, ActiveOK
<1>6. x.busy = c.state[o].busy /\ ObjectOK(x, inj, TasksOf(c, s), h, ph, pr, v)
  BY <1>2, <1>5 DEF z, ts
<1>7. /\ CoreOK(e) /\ OthersKept(c, e, s) /\ SoundFor(e, s, h, ph, pr, v)
      /\ e.object = c.object /\ e.admitted = c.admitted /\ e.tasks = c.tasks
      /\ e.state[o] = x
  BY <1>1, <1>2, <1>3, <1>4, <1>6, SetSound
<1> QED BY <1>2, <1>7

\* A write-back that an idle call starts backs the count it sets.
LEMMA RetainedSound ==
  ASSUME NEW c, CoreOK(c), NEW t \in c.tasks, NEW s, s = t.session, NEW o, o = t.object,
         NEW h, NEW ph, NEW pr, NEW w, SoundFor(c, s, h, ph, pr, w), NEW n \in Int,
         NEW d, d = Runtime!Retained(c, t, n)
  PROVE  /\ CoreOK(d) /\ OthersKept(c, d, s) /\ SoundFor(d, s, h, ph, pr, w)
         /\ d.object = c.object /\ t \in d.tasks
<1>1. s \in Runtime!Ids /\ o \in 1 .. MaxObjects /\ o = c.object[s] /\ o # 0
  BY DEF CoreOK, TaskOK
<1>2. CASE n <= c.state[o].retained
  BY <1>2 DEF Runtime!Retained, OthersKept, KeptFor, SameFor
<1>3. CASE ~(n <= c.state[o].retained)
  <2> DEFINE e == [c EXCEPT !.state[o] = Runtime!Counted(@, n)]
             kind == "retain"
  <2>1. n \in Nat
    <3>1. c.state[o] \in StateTypes
      BY <1>1, ObjectTypes
    <3>2. c.state[o].retained \in Nat
      BY <3>1 DEF StateTypes
    <3> QED BY <1>3, <3>2
  <2>2. /\ d = Runtime!Pin(e, Runtime!Task(kind, s, o, n)) /\ IsCounted(c, o, n, e)
        /\ kind \notin {"idle", "prompt"}
    BY <1>3 DEF Runtime!Retained, IsCounted
  <2> HIDE DEF e, kind
  <2>3. /\ CoreOK(e) /\ OthersKept(c, e, s) /\ SoundFor(e, s, h, ph, pr, n)
        /\ e.object = c.object /\ e.tasks = c.tasks /\ e.state[o].retained = n
    <3>1. n > 0 => n >= n
      BY <2>1
    <3> QED BY <1>1, <2>1, <2>2, <3>1, CountedSound
  <2>4. /\ CoreOK(d) /\ OthersKept(e, d, s) /\ Holds(d, s, h, ph, pr, n)
        /\ Pinned(e, d, s, o, kind, n)
    <3>1. CoreOK(d) /\ OthersKept(e, d, s) /\ Holds(d, s, h, ph, pr, n)
      BY <1>1, <2>1, <2>2, <2>3, PinHolds
    <3>2. Pinned(e, d, s, o, kind, n)
      BY <1>1, <2>1, <2>2, <2>3, PinAdds
    <3> QED BY <3>1, <3>2
  <2>5. RetainedOK(d.state[o], TasksOf(d, s), w)
    BY <2>1, <2>3, <2>4 DEF RetainedOK, Pinned, kind
  <2>6. SoundFor(d, s, h, ph, pr, w)
    BY <1>1, <2>3, <2>4, <2>5 DEF Holds, SoundFor, ObjectOK, Pinned
  <2> QED BY <2>3, <2>4, <2>6, OthersTwice DEF Pinned
<1> QED BY <1>2, <1>3

LEMMA SettledSound ==
  ASSUME NEW c, CoreOK(c), NEW t \in c.tasks, NEW s, s = t.session, NEW o, o = t.object,
         NEW h, NEW ph, NEW pr, NEW w, SoundFor(c, s, h, ph, pr, w),
         h # "opencode2" => ph \notin Live \/ t.n # pr,
         NEW d, d = Runtime!Settled(c, t)
  PROVE  CoreOK(d) /\ OthersKept(c, d, s) /\ SoundFor(d, s, h, ph, pr, w) /\ t \in d.tasks
<1>1. s \in Runtime!Ids /\ o \in 1 .. MaxObjects /\ o = c.object[s] /\ o # 0
  BY DEF CoreOK, TaskOK
<1>2. CASE c.state[o].generation = t.n
  <2>1. Rested(c, o, d)
    BY <1>2 DEF Runtime!Settled, Rested
  <2>2. h # "opencode2" => ph \notin Live \/ c.state[o].generation # pr
    BY <1>2
  <2>3. /\ CoreOK(d) /\ OthersKept(c, d, s) /\ SoundFor(d, s, h, ph, pr, w)
        /\ d.object = c.object /\ d.tasks = c.tasks
    BY <1>1, <2>1, <2>2, RestingSound
  <2> QED BY <2>3
<1>3. CASE c.state[o].generation # t.n
  BY <1>3 DEF Runtime!Settled, OthersKept, KeptFor, SameFor
<1> QED BY <1>2, <1>3

LEMMA IdleEndsKeeps ==
  ASSUME RuntimeInv, NEW t \in tasks, Runtime!IdleEnds(t)
  PROVE  RuntimeInv'
<1> DEFINE s == t.session
           o == t.object
           ph == phase[s]
           pr == prompts[s]
           w == written[s]
           b == Runtime!Core
<1>1. /\ t.kind = "idle" /\ UNCHANGED Runtime!hostVars /\ delivered' = delivered
      /\ written' = written
  BY DEF Runtime!IdleEnds
<1>2. PICK n \in {0, Runtime!Turns(s)} :
        Runtime!Becomes(Runtime!Release(Runtime!Settled(
                          IF n = 0 THEN b ELSE Runtime!Retained(b, t, n), t), t))
  BY DEF Runtime!IdleEnds
<1> DEFINE c == IF n = 0 THEN b ELSE Runtime!Retained(b, t, n)
           e == Runtime!Settled(c, t)
           d == Runtime!Release(e, t)
<1>3. /\ s \in Runtime!Ids /\ CoreOK(b) /\ Holds(b, s, host, ph, pr, w) /\ t \in b.tasks
      /\ t \in TasksOf(b, s) /\ b.object[s] # 0 /\ pr \in Nat /\ w \in Nat
      /\ Only(written, written', s, Nat) /\ written'[s] = w
  BY <1>1, TaskFacts, SessionFacts, OnlyOneOf
<1>4. host # "opencode2" => ph \notin Live \/ t.n # pr
  <2>1. host # "opencode2" /\ ph \in Live => t.n < pr
    BY <1>1, <1>3 DEF Holds, SoundFor, ObjectOK, ActiveOK
  <2>2. t.n \in Nat
    BY TaskFacts
  <2> QED BY <1>3, <2>1, <2>2
<1>5. n \in Int
  BY <1>3 DEF Runtime!Turns
<1>6. Runtime!Becomes(d)
  BY <1>2
<1> HIDE DEF b, o, ph, pr, w
<1>7. CoreOK(c) /\ OthersKept(b, c, s) /\ SoundFor(c, s, host, ph, pr, w) /\ t \in c.tasks
  <2>1. CASE n = 0
    BY <1>3, <2>1 DEF OthersKept, KeptFor, SameFor, Holds
  <2>2. CASE n # 0
    <3>1. c = Runtime!Retained(b, t, n)
      BY <2>2
    <3> HIDE DEF c, s
    <3>2. SoundFor(b, s, host, ph, pr, w) /\ s = t.session
      BY <1>3 DEF Holds, s
    <3> QED BY <1>3, <1>5, <3>1, <3>2, RetainedSound
  <2> QED BY <2>1, <2>2
<1> HIDE DEF c
<1>8. CoreOK(e) /\ OthersKept(c, e, s) /\ SoundFor(e, s, host, ph, pr, w) /\ t \in e.tasks
  BY <1>4, <1>7, SettledSound
<1> HIDE DEF e
<1>9. CoreOK(d) /\ OthersKept(e, d, s) /\ Holds(d, s, host, ph, pr, w)
  <2>1. t.kind # "retain"
    BY <1>1
  <2> QED BY <1>3, <1>8, <2>1, ReleaseHolds
<1>10. OthersKept(b, d, s)
  BY <1>7, <1>8, <1>9, OthersTwice
<1> HIDE DEF d
<1>11. Holds(d, s, host, phase[s], prompts[s], written'[s])
  BY <1>3, <1>9 DEF ph, pr
<1> QED BY <1>1, <1>3, <1>6, <1>9, <1>10, <1>11, TaskStep DEF b

LEMMA RetainFailsKeeps ==
  ASSUME RuntimeInv, NEW t \in tasks, Runtime!RetainFails(t)
  PROVE  RuntimeInv'
<1> DEFINE s == t.session
           o == t.object
           ph == phase[s]
           pr == prompts[s]
           w == written[s]
           b == Runtime!Core
           n == 0
           e == [b EXCEPT !.state[o] = Runtime!Counted(@, n)]
           d == Runtime!Release(e, t)
<1>1. /\ UNCHANGED Runtime!hostVars /\ delivered' = delivered
      /\ written' = written /\ Runtime!Becomes(d)
  BY DEF Runtime!RetainFails
<1>2. IsCounted(b, o, n, e) /\ n \in Nat /\ (n > 0 => w >= n)
  BY DEF IsCounted
<1>3. /\ s \in Runtime!Ids /\ CoreOK(b) /\ Holds(b, s, host, ph, pr, w) /\ t \in b.tasks
      /\ b.object[s] = o /\ o # 0 /\ w \in Nat
      /\ Only(written, written', s, Nat) /\ written'[s] = w
  BY <1>1, TaskFacts, SessionFacts, OnlyOneOf
<1> HIDE DEF b, ph, pr, w, e, n
<1>4. /\ CoreOK(e) /\ OthersKept(b, e, s) /\ SoundFor(e, s, host, ph, pr, w) /\ e.tasks = b.tasks
      /\ e.state[o].retained = n
  <2>1. SoundFor(b, s, host, ph, pr, w)
    BY <1>3 DEF Holds
  <2> QED BY <1>2, <1>3, <2>1, CountedSound
<1>5. CoreOK(d) /\ OthersKept(e, d, s) /\ Holds(d, s, host, ph, pr, w)
  <2>1. t \in e.tasks /\ e.state[o].retained = 0
    BY <1>3, <1>4 DEF n
  <2> QED BY <1>3, <1>4, <2>1, ReleaseHolds
<1>6. OthersKept(b, d, s)
  BY <1>4, <1>5, OthersTwice
<1> HIDE DEF d
<1>7. Holds(d, s, host, phase[s], prompts[s], written'[s])
  BY <1>3, <1>5 DEF ph, pr
<1> QED BY <1>1, <1>3, <1>5, <1>6, <1>7, TaskStep DEF b

\* The cursor or the block of a session is set.
LEMMA FieldSound ==
  ASSUME NEW c, CoreOK(c), NEW s \in Runtime!Ids, NEW o, o = c.object[s], o # 0,
         NEW h, NEW ph, NEW pr, NEW w, SoundFor(c, s, h, ph, pr, w),
         NEW cur \in {"none", "clean", "unsent"}, NEW inj \in Nat, NEW e,
         ObjectSet(c, s, o, c.state[o], cur, inj, e), NEW v \in Nat, w \in Nat, v >= w,
         inj = c.injection[s]
           \/ (h \in {"opencode2", "dsh"} /\ ph \in {"prompt", "request"} => inj = pr)
  PROVE  /\ CoreOK(e) /\ OthersKept(c, e, s) /\ SoundFor(e, s, h, ph, pr, v)
         /\ e.object = c.object /\ e.tasks = c.tasks /\ e.state[o] = c.state[o]
         /\ e.cursor[s] = cur
<1> DEFINE x == c.state[o]
           ts == TasksOf(c, s)
<1>1. x \in StateTypes /\ o \in 1 .. MaxObjects
  BY ObjectTypes
<1>2. ObjectOK(x, c.injection[s], ts, h, ph, pr, w) /\ s \notin Foreign
  BY DEF SoundFor
<1>3. ObjectSet(c, s, o, x, cur, inj, e) /\ x.busy = c.state[o].busy
  OBVIOUS
<1>4. x.retained \in Nat
  <2> HIDE DEF x
  <2> QED BY <1>1 DEF StateTypes
<1> HIDE DEF x, ts
<1>5. ObjectOK(x, inj, ts, h, ph, pr, v)
  <2>1. RetainedOK(x, ts, v)
    BY <1>2, <1>4 DEF ObjectOK, RetainedOK
  <2>2. h \in {"opencode2", "dsh"} => InjectionOK(inj, ts, ph, pr)
    BY <1>2 DEF ObjectOK, InjectionOK
  <2> QED BY <1>2, <2>1, <2>2 DEF ObjectOK
<1>6. ObjectOK(x, inj, TasksOf(c, s), h, ph, pr, v)
  BY <1>5 DEF ts
<1>7. /\ CoreOK(e) /\ OthersKept(c, e, s) /\ SoundFor(e, s, h, ph, pr, v)
      /\ e.object = c.object /\ e.tasks = c.tasks /\ e.state[o] = x /\ e.cursor[s] = cur
  BY <1>1, <1>2, <1>3, <1>6, SetSound
<1> QED BY <1>7 DEF x

LEMMA RetainSucceedsKeeps ==
  ASSUME RuntimeInv, NEW t \in tasks, Runtime!RetainSucceeds(t)
  PROVE  RuntimeInv'
<1> DEFINE s == t.session
           o == t.object
           ph == phase[s]
           pr == prompts[s]
           w == written[s]
           v == IF t.n > w THEN t.n ELSE w
           b == Runtime!Core
           cur == "clean"
           inj == b.injection[s]
           e == [b EXCEPT !.cursor[s] = cur]
           d == Runtime!Release(e, t)
<1>1. /\ UNCHANGED Runtime!hostVars /\ delivered' = delivered
      /\ written' = [written EXCEPT ![s] = v] /\ Runtime!Becomes(d)
  BY DEF Runtime!RetainSucceeds
<1>2. /\ s \in Runtime!Ids /\ CoreOK(b) /\ Holds(b, s, host, ph, pr, w) /\ t \in b.tasks
      /\ b.object[s] = o /\ o # 0 /\ w \in Nat /\ t.n \in Nat
      /\ written \in [Runtime!Ids -> Nat]
  BY TaskFacts, SessionFacts
<1>3. v \in Nat /\ v >= w /\ v >= t.n
  BY <1>2
<1>4. Only(written, written', s, Nat) /\ written'[s] = v
  BY <1>1, <1>2, <1>3 DEF Only
<1>5. /\ ObjectSet(b, s, o, b.state[o], cur, inj, e) /\ cur \in {"none", "clean", "unsent"}
      /\ inj \in Nat
  <2>1. inj \in Nat
    BY <1>2, ObjectTypes
  <2> QED BY <2>1 DEF ObjectSet
<1> HIDE DEF b, ph, pr, w, v, e, cur, inj
<1>6. CoreOK(e) /\ OthersKept(b, e, s) /\ SoundFor(e, s, host, ph, pr, v) /\ e.tasks = b.tasks
  <2>1. SoundFor(b, s, host, ph, pr, w) /\ inj = b.injection[s]
    BY <1>2 DEF Holds, inj
  <2> QED BY <1>2, <1>3, <1>5, <2>1, FieldSound
<1>7. CoreOK(d) /\ OthersKept(e, d, s) /\ Holds(d, s, host, ph, pr, v)
  <2>1. t \in e.tasks
    BY <1>2, <1>6
  <2> QED BY <1>3, <1>6, <2>1, ReleaseHolds
<1>8. OthersKept(b, d, s)
  BY <1>6, <1>7, OthersTwice
<1> HIDE DEF d
<1>9. Holds(d, s, host, phase[s], prompts[s], written'[s])
  BY <1>4, <1>7 DEF ph, pr
<1> QED BY <1>1, <1>4, <1>7, <1>8, <1>9, TaskStep DEF b

LEMMA RetainClaimsKeeps ==
  ASSUME RuntimeInv, NEW t \in tasks, Runtime!RetainClaims(t)
  PROVE  RuntimeInv'
<1> DEFINE s == t.session
           o == t.object
           ph == phase[s]
           pr == prompts[s]
           w == written[s]
           b == Runtime!Core
           cur == "unsent"
           inj == b.injection[s]
           e == [b EXCEPT !.cursor[s] = cur]
<1>1. /\ UNCHANGED Runtime!hostVars /\ delivered' = delivered /\ written' = written
      /\ Runtime!Becomes(e)
  BY DEF Runtime!RetainClaims, Runtime!Becomes, Runtime!Core, Runtime!blockVars
<1>2. /\ s \in Runtime!Ids /\ CoreOK(b) /\ Holds(b, s, host, ph, pr, w)
      /\ b.object[s] = o /\ o # 0 /\ w \in Nat
      /\ Only(written, written', s, Nat) /\ written'[s] = w
  BY <1>1, TaskFacts, SessionFacts, OnlyOneOf
<1>3. /\ ObjectSet(b, s, o, b.state[o], cur, inj, e) /\ cur \in {"none", "clean", "unsent"}
      /\ inj \in Nat
  <2>1. inj \in Nat
    BY <1>2, ObjectTypes
  <2> QED BY <2>1 DEF ObjectSet
<1> HIDE DEF b, ph, pr, w, cur, inj
<1>4. e.cursor[s] = cur
  BY <1>2, CoreFields DEF CoreOK, IsCore
<1> HIDE DEF e
<1>5. CoreOK(e) /\ OthersKept(b, e, s) /\ SoundFor(e, s, host, ph, pr, w)
  <2> DEFINE v == w
  <2>1. SoundFor(b, s, host, ph, pr, w) /\ inj = b.injection[s] /\ v >= w /\ v \in Nat
    BY <1>2 DEF Holds, inj
  <2> HIDE DEF v
  <2>2. CoreOK(e) /\ OthersKept(b, e, s) /\ SoundFor(e, s, host, ph, pr, v)
    BY <1>2, <1>3, <2>1, FieldSound, SMTT(30)
  <2> QED BY <2>2 DEF v
<1>6. Holds(e, s, host, phase[s], prompts[s], written'[s])
  <2>1. EndedOK(e, s)
    BY <1>4 DEF EndedOK, Runtime!Removable, cur
  <2> QED BY <1>2, <1>5, <2>1 DEF Holds, ph, pr
<1> QED BY <1>1, <1>2, <1>5, <1>6, TaskStep DEF b

LEMMA PromptEndsKeeps ==
  ASSUME RuntimeInv, NEW t \in tasks, Runtime!PromptEnds(t)
  PROVE  RuntimeInv'
<1> DEFINE s == t.session
           o == t.object
           ph == phase[s]
           pr == prompts[s]
           w == written[s]
           b == Runtime!Core
           n == t.n
           q == IF ph = "prompt" THEN "request" ELSE ph
           l == [session |-> t.session, prompt |-> t.n]
           set == [b EXCEPT !.injection[s] = n, !.last = l]
<1>1. /\ t.kind = "prompt" /\ phase' = [phase EXCEPT ![s] = q]
      /\ host' = host /\ prompts' = prompts /\ idle' = idle
      /\ delivered' = delivered /\ written' = written
  BY DEF Runtime!PromptEnds, Runtime!Continue
<1>2. PICK denied \in BOOLEAN : Runtime!Becomes(Runtime!Release(IF denied THEN b ELSE set, t))
  BY DEF Runtime!PromptEnds
<1> DEFINE e == IF denied THEN b ELSE set
           d == Runtime!Release(e, t)
<1>3. /\ s \in Runtime!Ids /\ CoreOK(b) /\ Holds(b, s, host, ph, pr, w) /\ t \in b.tasks
      /\ t \in TasksOf(b, s) /\ b.object[s] = o /\ o # 0 /\ w \in Nat /\ n \in Nat
      /\ TurnOK(s, host, ph, pr, idle[s], delivered[s])
      /\ Only(written, written', s, Nat) /\ written'[s] = w
      /\ Only(idle, idle', s, Nat) /\ idle'[s] = idle[s]
      /\ phase \in [Runtime!Ids -> Phases]
  BY <1>1, TaskFacts, SessionFacts, OnlyOneOf
<1>4. q \in Phases /\ Only(phase, phase', s, Phases) /\ phase'[s] = q
  <2>1. q \in Phases
    BY <1>3 DEF Phases
  <2> HIDE DEF q
  <2> QED BY <1>1, <1>3, <2>1, OnlyOneOf
<1>5. Runtime!Becomes(d)
  BY <1>2
<1>6. ASSUME host \in {"opencode2", "dsh"} PROVE ph \in {"prompt", "over"} /\ n = pr
  BY <1>1, <1>3, <1>6 DEF Holds, SoundFor, ObjectOK, InjectionOK
<1>7. TurnOK(s, host, phase'[s], prompts[s], idle'[s], delivered[s])
  BY <1>3, <1>4 DEF TurnOK, Phases
<1> HIDE DEF ph, pr, w, b, n
<1>8. /\ CoreOK(e) /\ OthersKept(b, e, s) /\ SoundFor(e, s, host, ph, pr, w) /\ e.tasks = b.tasks
  <2>1. CASE denied
    BY <1>3, <2>1 DEF Holds, OthersKept, KeptFor, SameFor
  <2>2. CASE ~denied
    <3> DEFINE cur == b.cursor[s]
    <3>1. e = set
      BY <2>2
    <3>2. cur \in {"none", "clean", "unsent"}
      BY <1>3, ObjectTypes
    <3>3. ObjectSet(b, s, o, b.state[o], cur, n, e)
      BY <3>1 DEF ObjectSet
    <3> HIDE DEF e, cur, set, l
    <3>4. SoundFor(b, s, host, ph, pr, w) /\ w >= w
      BY <1>3 DEF Holds
    <3> QED BY <1>3, <1>6, <3>2, <3>3, <3>4, FieldSound, SMTT(30)
  <2> QED BY <2>1, <2>2
<1> HIDE DEF e, set, l
<1>9. t \in e.tasks /\ t \in TasksOf(e, s)
  BY <1>3, <1>8 DEF TasksOf
<1>10. /\ CoreOK(d) /\ OthersKept(e, d, s) /\ Holds(d, s, host, ph, pr, w)
       /\ d.object[s] = 0 \/ TasksOf(d, s) = TasksOf(e, s) \ {t}
  <2>1. t.kind # "retain"
    BY <1>1
  <2>2. CoreOK(d) /\ OthersKept(e, d, s) /\ Holds(d, s, host, ph, pr, w)
    BY <1>3, <1>8, <1>9, <2>1, ReleaseHolds
  <2>3. d.object[s] = 0 \/ TasksOf(d, s) = TasksOf(e, s) \ {t}
    BY <1>3, <1>8, <1>9, ReleaseTasks
  <2> QED BY <2>2, <2>3
<1>11. OthersKept(b, d, s)
  BY <1>8, <1>10, OthersTwice
<1>12. Holds(d, s, host, q, pr, w)
  <2>1. CASE ph # "prompt"
    BY <1>10, <2>1
  <2>2. CASE d.object[s] = 0
    BY <2>2 DEF Holds, SoundFor
  <2>3. CASE ph = "prompt" /\ d.object[s] # 0
    <3>1. ASSUME host \in {"opencode2", "dsh"}
          PROVE  \A u \in TasksOf(d, s) : u.kind # "prompt"
      <4>1. e.object[s] # 0
        BY <1>3, <1>8, <1>9 DEF CoreOK, TaskOK
      <4>2. \A u \in TasksOf(e, s) : u.kind = "prompt" => u = t
        BY <1>1, <1>8, <1>9, <3>1, <4>1 DEF SoundFor, ObjectOK, InjectionOK
      <4> QED BY <1>10, <2>3, <4>2
    <3> HIDE DEF d
    <3>2. q = "request" /\ Holds(d, s, host, "prompt", pr, w)
      BY <1>10, <2>3
    <3> QED BY <3>1, <3>2, PhaseHolds DEF Live
  <2> QED BY <2>1, <2>2, <2>3
<1> HIDE DEF d, q
<1>13. Holds(d, s, host, phase'[s], prompts[s], written'[s])
  BY <1>3, <1>4, <1>12 DEF pr
<1> QED BY <1>1, <1>3, <1>4, <1>5, <1>7, <1>10, <1>11, <1>13, CoreStep DEF b

\* Session r is in core d as in core c, but that it is ended.
Disposed(c, d, r) ==
  /\ d.object[r] = c.object[r] /\ d.injection[r] = c.injection[r]
  /\ TasksOf(d, r) = TasksOf(c, r)
  /\ d.state[c.object[r]] = Runtime!Ended(c.state[c.object[r]]) /\ EndedOK(d, r)

LEMMA EndedFields ==
  ASSUME NEW x \in StateTypes
  PROVE  /\ Runtime!Ended(x) \in StateTypes /\ Runtime!Ended(x).busy = x.busy
         /\ Runtime!Ended(x).retained = x.retained
         /\ Runtime!Ended(x).generation = x.generation
BY DEF Runtime!Ended, StateTypes

LEMMA StatesSet ==
  ASSUME NEW c, IsCore(c), NEW f, NEW e, e = [c EXCEPT !.state = f]
  PROVE  /\ e.object = c.object /\ e.state = f /\ e.tasks = c.tasks
         /\ e.cursor = c.cursor /\ e.injection = c.injection /\ e.admitted = c.admitted
         /\ e = [order |-> e.order, object |-> e.object, state |-> e.state,
                 admitted |-> e.admitted, cursor |-> e.cursor,
                 injection |-> e.injection, last |-> e.last, tasks |-> e.tasks]
<1>1. /\ e.object = c.object /\ e.state = f /\ e.tasks = c.tasks
      /\ e.cursor = c.cursor /\ e.injection = c.injection /\ e.admitted = c.admitted
  BY DEF IsCore
<1>2. e = [order |-> e.order, object |-> e.object, state |-> e.state,
           admitted |-> e.admitted, cursor |-> e.cursor,
           injection |-> e.injection, last |-> e.last, tasks |-> e.tasks]
  BY DEF IsCore
<1> QED BY <1>1, <1>2

LEMMA DisposeKeeps ==
  ASSUME NEW c, CoreOK(c), NEW ss \in SUBSET Runtime!Ids, NEW d, d = Runtime!Dispose(c, ss)
  PROVE  /\ CoreOK(d) /\ \A r \in Runtime!Ids \ ss : KeptFor(c, d, r)
         /\ \A r \in ss : d.object[r] = 0 \/ Disposed(c, d, r)
<1> DEFINE hit(o) == \E s \in ss : c.object[s] = o
           states == [o \in DOMAIN c.state |->
                        IF \E s \in ss : c.object[s] = o THEN Runtime!Ended(c.state[o])
                        ELSE c.state[o]]
           over == [c EXCEPT !.state = states]
           gone == {s \in ss \cap Runtime!Keys(c) :
                      Runtime!Removable(over, s, c.object[s])}
<1>1. d = Runtime!Remove(over, gone)
  BY DEF Runtime!Dispose
<1>2. /\ c.object \in [Runtime!Ids -> 0 .. MaxObjects] /\ IsCore(c)
      /\ c.state \in [1 .. MaxObjects -> StateTypes] /\ DOMAIN c.state = 1 .. MaxObjects
      /\ \A s \in Runtime!Ids : c.object[s] # 0 => c.object[s] \in 1 .. MaxObjects
  BY CoreFields, AgentsConstants DEF CoreOK, Runtime!RuntimeConstants
<1>3. /\ states \in [1 .. MaxObjects -> StateTypes]
      /\ \A o \in 1 .. MaxObjects :
           /\ states[o].busy = c.state[o].busy
           /\ hit(o) => states[o] = Runtime!Ended(c.state[o])
           /\ ~hit(o) => states[o] = c.state[o]
  BY <1>2, EndedFields
<1> HIDE DEF states
<1>4. /\ over.object = c.object /\ over.state = states /\ over.tasks = c.tasks
      /\ over.cursor = c.cursor /\ over.injection = c.injection /\ over.admitted = c.admitted
      /\ over = [order |-> over.order, object |-> over.object, state |-> over.state,
                 admitted |-> over.admitted, cursor |-> over.cursor,
                 injection |-> over.injection, last |-> over.last, tasks |-> over.tasks]
  BY <1>2, StatesSet
<1> HIDE DEF over
<1>5. IsCore(over)
  BY <1>2, <1>3, <1>4, CoreFields DEF IsCore
<1>6. CoreOK(over)
  BY <1>3, <1>4, <1>5 DEF CoreOK
<1>7. /\ gone \in SUBSET Runtime!Ids
      /\ \A s \in gone : over.object[s] # 0 /\ Runtime!Removable(over, s, over.object[s])
      /\ \A s \in ss : over.object[s] # 0 /\ s \notin gone =>
           ~Runtime!Removable(over, s, over.object[s])
  BY <1>4 DEF Runtime!Keys
<1> HIDE DEF gone
<1>8. /\ CoreOK(d) /\ \A r \in Runtime!Ids : KeptFor(over, d, r) /\ (r \in gone => d.object[r] = 0)
  BY <1>1, <1>6, <1>7, RemoveKeeps
<1>9. ASSUME NEW r \in Runtime!Ids \ ss PROVE KeptFor(c, d, r)
  <2>1. SameFor(c, over, r)
    <3>1. c.object[r] # 0 => ~hit(c.object[r])
      BY DEF CoreOK
    <3> HIDE DEF hit
    <3> QED BY <1>2, <1>3, <1>4, <3>1 DEF SameFor, TasksOf
  <2> QED BY <1>8, <2>1, KeptTwice DEF KeptFor
<1>10. ASSUME NEW r \in ss, d.object[r] # 0 PROVE Disposed(c, d, r)
  <2>1. SameFor(over, d, r) /\ r \notin gone /\ over.object[r] # 0
    BY <1>8, <1>10 DEF KeptFor, SameFor
  <2>2. ~Runtime!Removable(over, r, over.object[r])
    BY <1>7, <2>1
  <2>3. EndedOK(d, r)
    BY <2>1, <2>2 DEF EndedOK, Runtime!Removable, SameFor
  <2>4. states[c.object[r]] = Runtime!Ended(c.state[c.object[r]])
    BY <1>2, <1>3, <1>4, <2>1
  <2> QED BY <1>4, <2>1, <2>3, <2>4 DEF Disposed, SameFor, TasksOf
<1> QED BY <1>8, <1>9, <1>10

LEMMA DisposedHolds ==
  ASSUME NEW c, CoreOK(c), NEW r \in Runtime!Ids, NEW d, d.object[r] = 0 \/ Disposed(c, d, r),
         NEW h, NEW ph, NEW pr, NEW w, Holds(c, r, h, ph, pr, w)
  PROVE  Holds(d, r, h, "over", pr, w)
<1>1. CASE d.object[r] = 0
  BY <1>1 DEF Holds, SoundFor
<1>2. CASE Disposed(c, d, r) /\ d.object[r] # 0
  <2> DEFINE x == c.state[c.object[r]]
             y == d.state[d.object[r]]
             ts == TasksOf(c, r)
             inj == c.injection[r]
  <2>1. /\ d.object[r] = c.object[r] /\ d.injection[r] = inj /\ TasksOf(d, r) = ts
        /\ y = Runtime!Ended(x) /\ EndedOK(d, r)
    BY <1>2 DEF Disposed
  <2>2. x \in StateTypes
    BY <1>2, <2>1, ObjectTypes
  <2>3. ObjectOK(x, inj, ts, h, ph, pr, w) /\ r \notin Foreign
    BY <1>2, <2>1 DEF Holds, SoundFor
  <2> HIDE DEF x, y, ts, inj
  <2>4. y.retained = x.retained /\ y.generation = x.generation
    BY <2>1, <2>2, EndedFields
  <2>5. ObjectOK(y, inj, ts, h, "over", pr, w)
    BY <2>3, <2>4 DEF ObjectOK, RetainedOK, GenerationOK, ActiveOK, InjectionOK, Live
  <2> QED BY <2>1, <2>3, <2>5 DEF Holds, SoundFor, y
<1> QED BY <1>1, <1>2

LEMMA DeletedKeeps ==
  ASSUME RuntimeInv, NEW s \in Runtime!Ids, Runtime!Deleted(s)
  PROVE  RuntimeInv'
<1> DEFINE b == Runtime!Core
           d == Runtime!Dispose(b, {s})
<1>1. /\ phase' = [phase EXCEPT ![s] = "over"] /\ host' = host /\ prompts' = prompts
      /\ idle' = idle /\ delivered' = delivered /\ written' = written
      /\ Runtime!Becomes(d) \/ Runtime!CoreUnchanged
  BY DEF Runtime!Deleted
<1>2. /\ TurnOK(s, host, phase[s], prompts[s], idle[s], delivered[s])
      /\ Holds(b, s, host, phase[s], prompts[s], written[s]) /\ CoreOK(b)
      /\ Only(phase, phase', s, Phases) /\ phase'[s] = "over"
      /\ Only(prompts, prompts', s, Nat) /\ Only(idle, idle', s, Nat)
      /\ Only(written, written', s, Nat) /\ DOMAIN delivered' = Runtime!Ids
      /\ written'[s] = written[s]
  BY <1>1, SessionFacts, OnlyOneOf DEF Phases
<1>3. TurnOK(s, host, "over", prompts[s], idle[s], delivered[s])
  BY <1>2 DEF TurnOK, Phases
<1>4. TurnOK(s, host, phase'[s], prompts[s], idle'[s], delivered[s])
      /\ TurnOK(s, host, phase'[s], prompts'[s], idle'[s], delivered'[s])
  BY <1>1, <1>2, <1>3
<1> HIDE DEF b
<1>5. CASE Runtime!Becomes(d)
  <2>1. /\ CoreOK(d) /\ \A r \in Runtime!Ids \ {s} : KeptFor(b, d, r)
        /\ d.object[s] = 0 \/ Disposed(b, d, s)
    BY <1>2, DisposeKeeps
  <2> HIDE DEF d
  <2>2. Holds(d, s, host, phase'[s], prompts[s], written'[s])
    BY <1>2, <2>1, DisposedHolds
  <2>3. OthersKept(b, d, s)
    BY <2>1 DEF OthersKept
  <2> QED BY <1>1, <1>2, <1>4, <1>5, <2>1, <2>2, <2>3, CoreStep DEF b
<1>6. CASE Runtime!CoreUnchanged
  <2>1. Holds(b, s, host, phase'[s], prompts'[s], written[s])
    BY <1>1, <1>2, PhaseHolds DEF Live
  <2> QED BY <1>1, <1>2, <1>4, <1>6, <2>1, QuietStep DEF b
<1> QED BY <1>1, <1>5, <1>6

LEMMA TeardownKeeps ==
  ASSUME RuntimeInv, Runtime!Teardown
  PROVE  RuntimeInv'
<1> DEFINE b == Runtime!Core
           d == Runtime!Dispose(b, Runtime!Ids)
<1>1. /\ phase' = [s \in Runtime!Ids |-> "over"] /\ idle' = [s \in Runtime!Ids |-> 0]
      /\ host' = host /\ prompts' = prompts
      /\ delivered' = delivered /\ written' = written /\ Runtime!Becomes(d)
  BY DEF Runtime!Teardown
<1>2. CoreOK(b)
  BY DEF RuntimeInv
<1> HIDE DEF b
<1>3. CoreOK(d) /\ \A r \in Runtime!Ids : d.object[r] = 0 \/ Disposed(b, d, r)
  BY <1>2, DisposeKeeps
<1> HIDE DEF d
<1>4. Runtime!Core' = d
  BY <1>1, <1>3, BecomesCore
<1>5. ASSUME NEW r \in Runtime!Ids
      PROVE  /\ TurnOK(r, host, "over", prompts[r], 0, delivered[r])
             /\ Holds(d, r, host, "over", prompts[r], written[r])
  <2>1. /\ TurnOK(r, host, phase[r], prompts[r], idle[r], delivered[r])
        /\ Holds(b, r, host, phase[r], prompts[r], written[r])
    BY DEF RuntimeInv, b
  <2>2. TurnOK(r, host, "over", prompts[r], 0, delivered[r])
    BY <2>1 DEF TurnOK, Phases
  <2> QED BY <1>2, <1>3, <2>1, <2>2, DisposedHolds
<1>6. phase' \in [Runtime!Ids -> Phases] /\ idle' \in [Runtime!Ids -> Nat]
  BY <1>1 DEF Phases
<1>7. /\ prompts' \in [Runtime!Ids -> Nat] /\ written' \in [Runtime!Ids -> Nat]
      /\ DOMAIN delivered' = Runtime!Ids
  BY <1>1 DEF RuntimeInv
<1>8. \A r \in Runtime!Ids :
        /\ TurnOK(r, host', phase'[r], prompts'[r], idle'[r], delivered'[r])
        /\ Holds(d, r, host', phase'[r], prompts'[r], written'[r])
  BY <1>1, <1>5
<1> QED BY <1>3, <1>4, <1>6, <1>7, <1>8 DEF RuntimeInv

LEMMA RuntimeInitially ==
  ASSUME Runtime!Init
  PROVE  RuntimeInv
<1> DEFINE c == Runtime!Core
<1>1. /\ phase = [s \in Runtime!Ids |-> IF s \in Sessions THEN "rest" ELSE "over"]
      /\ prompts = [s \in Runtime!Ids |-> 0]
      /\ idle = [s \in Runtime!Ids |-> IF host = "opencode2" /\ s \in Foreign THEN 1 ELSE 0]
      /\ delivered = [s \in Runtime!Ids |-> Runtime!None]
      /\ written = [s \in Runtime!Ids |-> 0]
  BY DEF Runtime!Init
<1>2. /\ c.object = [s \in Runtime!Ids |-> 0] /\ c.admitted = 0 /\ c.tasks = {}
      /\ c.state = [o \in 1 .. MaxObjects |-> Runtime!Fresh]
      /\ c.cursor = [s \in Runtime!Ids |-> "none"]
      /\ c.injection = [s \in Runtime!Ids |-> 0]
      /\ c = [order |-> c.order, object |-> c.object, state |-> c.state,
              admitted |-> c.admitted, cursor |-> c.cursor, injection |-> c.injection,
              last |-> c.last, tasks |-> c.tasks]
  BY DEF Runtime!Init, Runtime!Core
<1> HIDE DEF c
<1>3. MaxObjects \in Nat /\ Sessions \cap Foreign = {}
  BY AgentsConstants DEF Runtime!RuntimeConstants
<1>4. Runtime!Fresh \in StateTypes /\ Runtime!Fresh.busy = 0
  BY DEF Runtime!Fresh, StateTypes
<1>5. IsCore(c)
  <2>1. /\ c.object \in [Runtime!Ids -> 0 .. MaxObjects]
        /\ c.state \in [1 .. MaxObjects -> StateTypes] /\ c.admitted \in 0 .. MaxObjects
        /\ c.cursor \in [Runtime!Ids -> {"none", "clean", "unsent"}]
        /\ c.injection \in [Runtime!Ids -> Nat]
    BY <1>2, <1>3, <1>4
  <2> QED BY <1>2, <2>1 DEF IsCore
<1>6. CoreOK(c)
  <2>1. \A o \in 1 .. MaxObjects : Cardinality(TasksAt(c.tasks, o)) <= c.state[o].busy
    <3> TAKE o \in 1 .. MaxObjects
    <3>1. TasksAt(c.tasks, o) = {}
      BY <1>2 DEF TasksAt
    <3>2. Cardinality(TasksAt(c.tasks, o)) = 0
      BY <3>1, FS_EmptySet
    <3>3. c.state[o].busy = 0
      BY <1>2, <1>4
    <3> QED BY <3>2, <3>3
  <2>2. /\ IsFiniteSet(c.tasks)
        /\ \A t \in c.tasks : TaskOK(t) /\ c.object[t.session] = t.object
    BY <1>2, FS_EmptySet
  <2>3. /\ \A s \in Runtime!Ids :
             c.object[s] <= c.admitted /\ (c.object[s] = 0 => c.injection[s] = 0)
        /\ \A s, r \in Runtime!Ids : s # r /\ c.object[s] # 0 => c.object[s] # c.object[r]
    BY <1>2
  <2> QED BY <1>5, <2>1, <2>2, <2>3 DEF CoreOK
<1>7. ASSUME NEW r \in Runtime!Ids
      PROVE  /\ TurnOK(r, host, phase[r], prompts[r], idle[r], delivered[r])
             /\ Holds(c, r, host, phase[r], prompts[r], written[r])
  <2>1. Holds(c, r, host, phase[r], prompts[r], written[r])
    BY <1>2 DEF Holds, SoundFor
  <2>2. /\ phase[r] \in {"rest", "over"} /\ (r \in Foreign => phase[r] = "over")
        /\ prompts[r] = 0 /\ delivered[r] = Runtime!None /\ idle[r] \in {0, 1}
        /\ (host # "opencode2" => idle[r] = 0)
    BY <1>1, <1>3
  <2>3. TurnOK(r, host, phase[r], prompts[r], idle[r], delivered[r])
    BY <2>2 DEF TurnOK, Phases
  <2> QED BY <2>1, <2>3
<1>8. /\ phase \in [Runtime!Ids -> Phases] /\ prompts \in [Runtime!Ids -> Nat]
      /\ idle \in [Runtime!Ids -> Nat] /\ written \in [Runtime!Ids -> Nat]
      /\ DOMAIN delivered = Runtime!Ids
  BY <1>1 DEF Phases
<1> QED BY <1>6, <1>7, <1>8 DEF RuntimeInv, c

LEMMA RuntimeStep ==
  ASSUME RuntimeInv, Runtime!Next \/ UNCHANGED runtimeVars
  PROVE  RuntimeInv'
<1>1. CASE UNCHANGED runtimeVars
  <2>1. Runtime!Core' = Runtime!Core
    BY <1>1 DEF runtimeVars, Runtime!Core
  <2> QED BY <1>1, <2>1 DEF runtimeVars, RuntimeInv
<1>2. ASSUME NEW s \in Runtime!Ids,
             \/ Runtime!UserPrompt(s) \/ Runtime!StartedPrompt(s) \/ Runtime!HookBudgetEnds(s)
             \/ Runtime!Inject(s) \/ Runtime!Transform(s) \/ Runtime!Reply(s)
             \/ Runtime!RunEnds(s) \/ Runtime!SessionIdle(s) \/ Runtime!Deleted(s)
      PROVE  RuntimeInv'
  BY <1>2, UserPromptKeeps, StartedPromptKeeps, HookBudgetEndsKeeps, InjectKeeps,
     TransformKeeps, ReplyKeeps, RunEndsKeeps, SessionIdleKeeps, DeletedKeeps
<1>3. ASSUME NEW t \in tasks,
             \/ Runtime!PromptEnds(t) \/ Runtime!IdleEnds(t) \/ Runtime!RetainClaims(t)
             \/ Runtime!RetainFails(t) \/ Runtime!RetainSucceeds(t)
      PROVE  RuntimeInv'
  BY <1>3, PromptEndsKeeps, IdleEndsKeeps, RetainClaimsKeeps, RetainFailsKeeps,
     RetainSucceedsKeeps
<1> QED BY <1>1, <1>2, <1>3, SeedIfColdKeeps, TeardownKeeps DEF Runtime!Next

\* The invariant holds of every behaviour that follows a runtime: a session's object is
\* its own and counts the tasks that hold it, and agrees with where its turn is.
THEOREM RuntimeAlways == Spec => [](part = "runtime" => RuntimeInv)
<1> DEFINE Inv == part = "runtime" => RuntimeInv
<1>1. Init => Inv
  BY RuntimeInitially DEF Init
<1>2. Inv /\ [Next]_all => Inv'
  <2> SUFFICES ASSUME Inv, [Next]_all PROVE Inv'
    OBVIOUS
  <2>1. CASE RuntimeNext
    BY <2>1, RuntimeStep DEF RuntimeNext
  <2>2. CASE UNCHANGED <<part, runtimeVars>>
    BY <2>2, RuntimeStep
  <2> QED BY <2>1, <2>2
          DEF Next, PromptNext, FilesNext, WriteBackNext, ReadersNext, SetupNext, all
<1> QED BY <1>1, <1>2, PTL DEF Spec

\* Evicting the session used least recently, ending sessions and tearing the runtime down
\* take no session away from a task under way, nor the object it works on; a session stays
\* pinned until the reply to its own prompt; and an ended one whose work is over is gone.
THEOREM WorkAlwaysKeepsItsSession == Spec => []WorkKeepsItsSession
<1>1. RuntimeInv => Runtime!WorkKeepsItsSession
  <2> SUFFICES ASSUME RuntimeInv, NEW t \in tasks PROVE object[t.session] = t.object
    BY DEF Runtime!WorkKeepsItsSession
  <2>1. t.session \in Runtime!Ids /\ t.object = Runtime!Core.object[t.session]
    BY TaskFacts
  <2> QED BY <2>1, SessionFacts
<1>2. RuntimeInv => Runtime!ActiveUntilReply
  <2> SUFFICES ASSUME RuntimeInv, host # "opencode2", NEW s \in Sessions,
                      phase[s] \in {"prompt", "transform", "model"}, object[s] # 0,
                      state[object[s]].generation = prompts[s]
               PROVE  state[object[s]].active
    BY DEF Runtime!ActiveUntilReply
  <2>1. s \in Runtime!Ids
    BY DEF Runtime!Ids
  <2>2. ActiveOK(state[object[s]], TasksOf(Runtime!Core, s), phase[s], prompts[s])
    BY <2>1, SessionFacts DEF Holds, SoundFor, ObjectOK
  <2> QED BY <2>2 DEF ActiveOK, Live
<1>3. RuntimeInv => Runtime!EndedSessionsLeave
  BY SessionFacts DEF Runtime!EndedSessionsLeave, Holds, EndedOK
<1>4. (part = "runtime" => RuntimeInv) => WorkKeepsItsSession
  BY <1>1, <1>2, <1>3 DEF WorkKeepsItsSession
<1> QED BY <1>4, RuntimeAlways, PTL

\* Whatever write-backs fail, overlap or are still to be sent, and however the sessions
\* change places in the map: the turns the runtime counts as retained, and so does not
\* send again, are written, or a task is under way that carries them.
THEOREM RetainedAlwaysBacked == Spec => []RetainedIsBacked
<1>1. RuntimeInv => Runtime!RetainedIsBacked
  <2> SUFFICES ASSUME RuntimeInv, NEW s \in Runtime!Ids, object[s] # 0,
                      state[object[s]].retained > 0
               PROVE  \/ written[s] >= state[object[s]].retained
                      \/ \E t \in tasks : t.kind = "retain" /\ t.session = s
                                          /\ t.n >= state[object[s]].retained
    BY DEF Runtime!RetainedIsBacked
  <2>1. RetainedOK(state[object[s]], TasksOf(Runtime!Core, s), written[s])
    BY SessionFacts DEF Holds, SoundFor, ObjectOK
  <2> QED BY <2>1, SessionFacts DEF RetainedOK, TasksOf
<1>2. (part = "runtime" => RuntimeInv) => RetainedIsBacked
  BY <1>1 DEF RetainedIsBacked
<1> QED BY <1>2, RuntimeAlways, PTL

\* In opencode2 and dsh a request carries the block of the prompt it is for, or none,
\* in whatever order recalls and sessions end; and nothing is kept or begun for a
\* session of another workspace.
THEOREM InjectionAlwaysFresh == Spec => []InjectionIsFresh
<1>1. RuntimeInv => Runtime!InjectionIsFresh
  <2> SUFFICES ASSUME RuntimeInv, host \in {"opencode2", "dsh"}, NEW s \in Sessions,
                      delivered[s] # Runtime!None
               PROVE  delivered[s].prompt = prompts[s]
    BY DEF Runtime!InjectionIsFresh
  <2>1. s \in Runtime!Ids
    BY DEF Runtime!Ids
  <2>2. TurnOK(s, host, phase[s], prompts[s], idle[s], delivered[s])
    BY <2>1, SessionFacts
  <2> QED BY <2>2 DEF TurnOK
<1>2. RuntimeInv => Runtime!ForeignNeverTouched
  <2> SUFFICES ASSUME RuntimeInv, NEW s \in Foreign
               PROVE  object[s] = 0 /\ ~ \E t \in tasks : t.session = s
    BY DEF Runtime!ForeignNeverTouched
  <2>1. s \in Runtime!Ids
    BY DEF Runtime!Ids
  <2>2. object[s] = 0
    BY <2>1, SessionFacts DEF Holds, SoundFor
  <2>3. ASSUME NEW t \in tasks, t.session = s PROVE FALSE
    BY <2>1, <2>2, <2>3, TaskFacts, SessionFacts
  <2> QED BY <2>2, <2>3
<1>3. (part = "runtime" => RuntimeInv) => InjectionIsFresh
  BY <1>1, <1>2 DEF InjectionIsFresh
<1> QED BY <1>3, RuntimeAlways, PTL

-----------------------------------------------------------------------------
(* The journal of a session.  What is read of it is told by recursion, so that *)
(* the lemmas say what one more line adds, and that a line may change its form *)
(* as long as it stays readable or stays unreadable.                           *)

Forms == {"whole", "bare", "part", "bad"}
Lines == [turn : Files!Turns, form : Forms]

\* The turns read on the way through the lines.
Reads(lines, f) ==
  /\ f \in [0 .. Len(lines) -> Seq(Files!Turns)] /\ f[0] = <<>>
  /\ \A n \in 1 .. Len(lines) :
       f[n] = IF Files!Legible(lines[n]) THEN Append(f[n - 1], lines[n].turn) ELSE f[n - 1]

LEMMA ToldReads ==
  ASSUME NEW lines \in Seq(Lines)
  PROVE  \E f : Reads(lines, f) /\ Files!Told(lines) = f[Len(lines)]
<1> DEFINE T == Seq(Files!Turns)
           none == <<>>
           More(n, t) == IF Files!Legible(lines[n]) THEN Append(t, lines[n].turn) ELSE t
           first[n \in 0 .. Len(lines)] ==
             IF n = 0 THEN <<>>
             ELSE IF Files!Legible(lines[n]) THEN Append(first[n - 1], lines[n].turn) ELSE first[n - 1]
           step == [n \in 1 .. Len(lines) |-> [t \in T |-> More(n, t)]]
<1>1. Len(lines) \in Nat /\ none \in T
  BY EmptySeq
<1>2. step \in Steps(Len(lines), T)
  <2>1. ASSUME NEW n \in 1 .. Len(lines), NEW t \in T PROVE More(n, t) \in T
    <3>1. lines[n] \in Lines
      OBVIOUS
    <3>2. lines[n].turn \in Files!Turns
      BY <3>1 DEF Lines
    <3> HIDE DEF Lines
    <3>3. Append(t, lines[n].turn) \in T
      BY <3>2, AppendProperties
    <3> QED BY <3>3
  <2> HIDE DEF T, More
  <2>2. \A n \in 1 .. Len(lines) : [t \in T |-> More(n, t)] \in [T -> T]
    BY <2>1
  <2> QED BY <2>2 DEF Steps
<1>3. PICK g : Follows(g, Len(lines), T, none, step)
  <2> HIDE DEF T, step, none
  <2> QED BY <1>1, <1>2, Recursion
<1>4. g = [n \in 0 .. Len(lines) |-> IF n = 0 THEN none ELSE More(n, g[n - 1])]
  <2>1. \A n \in 1 .. Len(lines) : step[n][g[n - 1]] = More(n, g[n - 1])
    <3> HIDE DEF More, T
    <3> QED BY <1>1, <1>3 DEF Follows
  <2> HIDE DEF step, first, More, T, none
  <2>2. \A n \in 0 .. Len(lines) : (IF n = 0 THEN none ELSE step[n][g[n - 1]])
                                 = (IF n = 0 THEN none ELSE More(n, g[n - 1]))
    BY <1>1, <2>1
  <2> QED BY <1>3, <2>2 DEF Follows
<1>5. first = [n \in 0 .. Len(lines) |-> IF n = 0 THEN none ELSE More(n, first[n - 1])]
  BY <1>4
<1>6. first[0] = none /\ \A n \in 1 .. Len(lines) : first[n] = More(n, first[n - 1])
  <2> HIDE DEF first, step, T
  <2>1. Len(lines) \in Nat
    BY <1>1
  <2> HIDE DEF none
  <2>2. \A n \in 0 .. Len(lines) : first[n] = IF n = 0 THEN none ELSE More(n, first[n - 1])
    BY <1>5, ZenonT(20)
  <2> HIDE DEF More
  <2>3. 0 \in 0 .. Len(lines) /\ \A n \in 1 .. Len(lines) : n \in 0 .. Len(lines) /\ n # 0
    BY <2>1
  <2> QED BY <2>2, <2>3, Zenon
<1>7. \A n \in 0 .. Len(lines) : first[n] \in T
  <2>1. \A n \in 1 .. Len(lines) : first[n - 1] \in T => first[n] = step[n][first[n - 1]]
    <3> HIDE DEF first, T, More
    <3> QED BY <1>6
  <2> HIDE DEF step, first, T, none
  <2> QED BY <1>1, <1>2, <1>6, <2>1, Values
<1>8. first \in [0 .. Len(lines) -> T]
  <2> HIDE DEF first, step, More, T
  <2> QED BY <1>5, <1>7
<1>9. Files!Told(lines) = first[Len(lines)]
  BY DEF Files!Told
<1> HIDE DEF first, step
<1>10. Reads(lines, first)
  BY <1>6, <1>8 DEF Reads
<1> QED BY <1>9, <1>10

LEMMA ToldIs ==
  ASSUME NEW lines \in Seq(Lines), NEW f, Reads(lines, f)
  PROVE  Files!Told(lines) = f[Len(lines)] /\ f[Len(lines)] \in Seq(Files!Turns)
<1>1. PICK g : Reads(lines, g) /\ Files!Told(lines) = g[Len(lines)]
  BY ToldReads
<1> DEFINE Same == {n \in 0 .. Len(lines) : f[n] = g[n]}
<1>2. Len(lines) \in Nat /\ 0 \in Same
  BY <1>1 DEF Reads
<1>3. ASSUME NEW n \in 0 .. (Len(lines) - 1), n \in Same PROVE n + 1 \in Same
  <2>1. n + 1 \in 1 .. Len(lines) /\ (n + 1) - 1 = n /\ f[n] = g[n] /\ n + 1 \in 0 .. Len(lines)
    BY <1>2, <1>3
  <2>2. f[n + 1] = g[n + 1]
    BY <1>1, <2>1 DEF Reads
  <2> QED BY <2>1, <2>2
<1>4. \A n \in 0 .. Len(lines) : n \in Same
  <2> HIDE DEF Same
  <2> QED BY <1>2, <1>3, Induction
<1>5. f[Len(lines)] = g[Len(lines)]
  BY <1>2, <1>4
<1> QED BY <1>1, <1>2, <1>5 DEF Reads

LEMMA ToldType ==
  ASSUME NEW lines \in Seq(Lines)
  PROVE  Files!Told(lines) \in Seq(Files!Turns)
BY ToldReads, ToldIs

LEMMA ToldNothing == Files!Told(<<>>) = <<>>
<1> DEFINE none == <<>>
<1>1. none \in Seq(Lines) /\ Len(none) = 0
  BY EmptySeq
<1> HIDE DEF none
<1>2. PICK f : Reads(none, f) /\ Files!Told(none) = f[Len(none)]
  BY <1>1, ToldReads
<1> QED BY <1>1, <1>2 DEF Reads, none

\* One line more.
LEMMA ToldOneMore ==
  ASSUME NEW lines \in Seq(Lines), NEW line \in Lines
  PROVE  Files!Told(Append(lines, line))
           = IF Files!Legible(line) THEN Append(Files!Told(lines), line.turn) ELSE Files!Told(lines)
<1> DEFINE t == Append(lines, line)
           n == Len(lines)
<1>1. /\ t \in Seq(Lines) /\ n \in Nat /\ Len(t) = n + 1 /\ t[n + 1] = line
      /\ \A i \in 1 .. n : t[i] = lines[i]
  <2> HIDE DEF Lines
  <2> QED BY AppendProperties
<1> HIDE DEF t, n
<1>2. PICK f : Reads(t, f) /\ Files!Told(t) = f[Len(t)]
  BY <1>1, ToldReads
<1> DEFINE g == [i \in 0 .. n |-> f[i]]
<1>3. Reads(lines, g)
  <2>1. \A i \in 0 .. n : i \in 0 .. Len(t) /\ g[i] = f[i]
    BY <1>1
  <2>2. g \in [0 .. n -> Seq(Files!Turns)] /\ g[0] = <<>>
    BY <1>1, <1>2, <2>1 DEF Reads
  <2>3. ASSUME NEW i \in 1 .. n
        PROVE  g[i] = IF Files!Legible(lines[i]) THEN Append(g[i - 1], lines[i].turn) ELSE g[i - 1]
    <3>1. i \in 1 .. Len(t) /\ t[i] = lines[i] /\ g[i] = f[i] /\ g[i - 1] = f[i - 1]
      BY <1>1
    <3> QED BY <1>2, <3>1 DEF Reads
  <2> HIDE DEF g
  <2> QED BY <2>2, <2>3 DEF Reads, n
<1>4. Files!Told(lines) = g[n] /\ g[n] = f[n]
  <2>1. g[n] = f[n]
    BY <1>1
  <2> HIDE DEF g
  <2> QED BY <1>3, <2>1, ToldIs DEF n
<1>5. f[n + 1] = IF Files!Legible(line) THEN Append(f[n], line.turn) ELSE f[n]
  <2>1. n + 1 \in 1 .. Len(t) /\ (n + 1) - 1 = n
    BY <1>1
  <2> QED BY <1>1, <1>2, <2>1 DEF Reads
<1> QED BY <1>1, <1>2, <1>4, <1>5 DEF t

\* Lines that keep their turns and can be read where they could.
LEMMA ToldAlike ==
  ASSUME NEW lines \in Seq(Lines), NEW others \in Seq(Lines), Len(others) = Len(lines),
         \A n \in 1 .. Len(lines) : /\ others[n].turn = lines[n].turn
                                    /\ Files!Legible(others[n]) <=> Files!Legible(lines[n])
  PROVE  Files!Told(others) = Files!Told(lines)
<1>1. PICK f : Reads(lines, f) /\ Files!Told(lines) = f[Len(lines)]
  BY ToldReads
<1>2. Reads(others, f)
  BY <1>1 DEF Reads
<1> QED BY <1>1, <1>2, ToldIs

-----------------------------------------------------------------------------
(* Turns that were said, in the order they were said in.                      *)

\* The turns of t are, in order, among the first n of u.
Places(t, u, n, place) ==
  /\ place \in [1 .. Len(t) -> 1 .. n]
  /\ \A i \in 1 .. Len(t) : t[i] = u[place[i]] /\ \A j \in 1 .. (i - 1) : place[j] < place[i]
Tells(t, u, n) == \E place : Places(t, u, n, place)

LEMMA TellsFurther ==
  ASSUME NEW S, NEW t \in Seq(S), NEW u \in Seq(S), NEW v \in Seq(S), NEW n \in 0 .. Len(u),
         NEW m \in n .. Len(v), Tells(t, u, n), \A i \in 1 .. n : v[i] = u[i]
  PROVE  Tells(t, v, m)
<1>1. PICK place : Places(t, u, n, place)
  BY DEF Tells
<1>2. Places(t, v, m, place)
  <2>1. place \in [1 .. Len(t) -> 1 .. m]
    BY <1>1 DEF Places
  <2>2. ASSUME NEW i \in 1 .. Len(t) PROVE t[i] = v[place[i]]
    <3>1. place[i] \in 1 .. n /\ t[i] = u[place[i]]
      BY <1>1 DEF Places
    <3> QED BY <3>1
  <2> QED BY <1>1, <2>1, <2>2 DEF Places
<1> QED BY <1>2 DEF Tells

\* The last turn said is told after the others.
LEMMA TellsTheLast ==
  ASSUME NEW S, NEW t \in Seq(S), NEW u \in Seq(S), NEW n \in 1 .. Len(u), Tells(t, u, n - 1)
  PROVE  Tells(Append(t, u[n]), u, n)
<1> DEFINE k == Len(t)
           w == Append(t, u[n])
<1>1. PICK place : Places(t, u, n - 1, place)
  BY DEF Tells
<1>2. k \in Nat /\ Len(w) = k + 1 /\ w[k + 1] = u[n] /\ \A i \in 1 .. k : w[i] = t[i]
  BY AppendProperties
<1> DEFINE further == [i \in 1 .. Len(w) |-> IF i = k + 1 THEN n ELSE place[i]]
<1> HIDE DEF w
<1>3. /\ further[k + 1] = n
      /\ \A i \in 1 .. k : further[i] = place[i] /\ place[i] \in 1 .. (n - 1) /\ further[i] < n
  BY <1>1, <1>2 DEF Places
<1>4. further \in [1 .. Len(w) -> 1 .. n]
  BY <1>1, <1>2 DEF Places
<1>5. ASSUME NEW i \in 1 .. Len(w)
      PROVE  w[i] = u[further[i]] /\ \A j \in 1 .. (i - 1) : further[j] < further[i]
  <2> HIDE DEF further
  <2>1. CASE i = k + 1
    BY <1>2, <1>3, <2>1
  <2>2. CASE i \in 1 .. k
    BY <1>1, <1>2, <1>3, <2>2 DEF Places
  <2> QED BY <1>2, <2>1, <2>2
<1> HIDE DEF further
<1>6. Places(w, u, n, further)
  BY <1>4, <1>5 DEF Places
<1> QED BY <1>6 DEF Tells, w

\* Turns that do not end with the last one said do not hold it.
LEMMA TellsTheRest ==
  ASSUME NEW S, NEW t \in Seq(S), NEW u \in Seq(S), NEW n \in 1 .. Len(u), Tells(t, u, n),
         t = <<>> \/ t[Len(t)] # u[n]
  PROVE  Tells(t, u, n - 1)
<1>1. PICK place : Places(t, u, n, place)
  BY DEF Tells
<1>2. Places(t, u, n - 1, place)
  <2>1. Len(t) \in Nat /\ n - 1 \in Nat
    OBVIOUS
  <2>2. ASSUME NEW i \in 1 .. Len(t) PROVE place[i] \in 1 .. (n - 1)
    <3>1. Len(t) \in 1 .. Len(t) /\ t # <<>> /\ place[Len(t)] \in 1 .. n /\ place[i] \in 1 .. n
      BY <1>1, <2>1, EmptySeq, SMTT(30) DEF Places
    <3>2. place[Len(t)] # n
      BY <1>1, <3>1 DEF Places
    <3>3. i = Len(t) \/ i \in 1 .. (Len(t) - 1)
      BY <2>1
    <3>4. i = Len(t) \/ place[i] < place[Len(t)]
      BY <1>1, <3>1, <3>3 DEF Places
    <3> QED BY <3>1, <3>2, <3>4
  <2> QED BY <1>1, <2>2 DEF Places
<1> QED BY <1>2 DEF Tells

-----------------------------------------------------------------------------
(* Records joined to the journal                                              *)

LEMMA JoinedLine ==
  ASSUME journal \in Seq(Lines), NEW line \in Lines, NEW terminated \in BOOLEAN
  PROVE  /\ Files!Joined(line, terminated) \in Seq(Lines)
         /\ Files!Terminated \/ ~terminated
              => Files!Told(Files!Joined(line, terminated))
                   = IF Files!Legible(line) THEN Append(Files!Read, line.turn) ELSE Files!Read
<1> DEFINE n == Len(journal)
<1>1. CASE Files!Terminated
  <2>1. Files!Joined(line, terminated) = Append(journal, line)
    BY <1>1 DEF Files!Joined
  <2>2. Append(journal, line) \in Seq(Lines)
    <3> HIDE DEF Lines
    <3> QED BY AppendProperties
  <2> QED BY <2>1, <2>2, ToldOneMore DEF Files!Read
<1>2. CASE ~Files!Terminated
  <2>1. n \in Nat /\ n \in 1 .. n /\ journal[n] \in Lines /\ journal[n].form \in {"bare", "part"}
    <3>1. journal # <<>> /\ journal[n].form \in {"bare", "part"}
      BY <1>2 DEF Files!Terminated, Files!Last
    <3> QED BY <3>1, EmptySeq
  <2>2. CASE terminated
    <3> DEFINE spoilt == [line EXCEPT !.form = IF @ = "whole" THEN "bad" ELSE "part"]
    <3>1. Files!Joined(line, terminated) = Append(Files!Front(journal), spoilt)
      BY <1>2, <2>2 DEF Files!Joined
    <3>2. spoilt \in Lines
      BY DEF Lines, Forms
    <3>3. Files!Front(journal) \in Seq(Lines)
      <4> HIDE DEF Lines
      <4> QED BY <2>1, SubSeqProperties DEF Files!Front
    <3> HIDE DEF spoilt
    <3>4. Append(Files!Front(journal), spoilt) \in Seq(Lines)
      BY <3>2, <3>3, AppendProperties
    <3> QED BY <1>2, <2>2, <3>1, <3>4
  <2>3. CASE ~terminated
    <3> DEFINE mended == [journal[n] EXCEPT !.form = IF @ = "bare" THEN "whole" ELSE "bad"]
               ended == [journal EXCEPT ![n] = mended]
    <3>1. Files!Joined(line, terminated) = Append(ended, line)
      BY <1>2, <2>1, <2>3 DEF Files!Joined
    <3>2. /\ mended \in Lines /\ mended.turn = journal[n].turn
          /\ Files!Legible(mended) <=> Files!Legible(journal[n])
      BY <2>1 DEF Lines, Forms, Files!Legible
    <3> HIDE DEF mended
    <3>3. /\ ended \in Seq(Lines) /\ Len(ended) = n /\ ended[n] = mended
          /\ \A i \in 1 .. n : i # n => ended[i] = journal[i]
      <4> HIDE DEF Lines
      <4> QED BY <2>1, <3>2, ExceptSeq
    <3> HIDE DEF ended
    <3>4. Files!Told(ended) = Files!Read
      <4>1. \A i \in 1 .. n : /\ ended[i].turn = journal[i].turn
                              /\ Files!Legible(ended[i]) <=> Files!Legible(journal[i])
        BY <3>2, <3>3
      <4> QED BY <3>3, <4>1, ToldAlike DEF Files!Read
    <3>5. Append(ended, line) \in Seq(Lines)
      <4> HIDE DEF Lines
      <4> QED BY <3>3, AppendProperties
    <3> QED BY <3>1, <3>3, <3>4, <3>5, ToldOneMore
  <2> QED BY <2>2, <2>3
<1> QED BY <1>1, <1>2

-----------------------------------------------------------------------------
(* The processes of a session.  Of one process at a time, what it says of the *)
(* journal it read is still so when it appends; of two, nothing is claimed.   *)

Waiting == {"new", "unrecorded", "rooted"}
Processes ==
  {Files!Gone}
  \cup [point : Waiting, turn : Files!Turns, dir : Dirs \cup {NoDir}, calm : BOOLEAN]
  \cup [point : {"appending"}, turn : Files!Turns, terminated : BOOLEAN]

FileTypes ==
  /\ root \in Dirs \cup {NoDir} /\ journal \in Seq(Lines) /\ said \in Seq(Files!Turns)
  /\ stopHook \in [Slots -> Processes] /\ overlap \in BOOLEAN

\* Nobody records another root than the one a calm process found.
CalmOK(h) ==
  h.point \in Waiting /\ h.calm =>
    /\ root # NoDir /\ \A t \in Slots : stopHook[t].point # "unrecorded"
    /\ h.point = "rooted" => h.dir = root

\* A process is about the last turn said; one that appends knows how the journal ends,
\* and that what is read of it was said before.
ProcessOK(h) ==
  h.point # "none" =>
    /\ Len(said) \in 1 .. Len(said) /\ h.turn = said[Len(said)]
    /\ h.point = "appending" =>
         /\ h.terminated <=> Files!Terminated
         /\ Tells(Files!Read, said, Len(said) - 1)
AloneOK ==
  /\ \A s, t \in Slots : stopHook[s].point # "none" /\ stopHook[t].point # "none" => s = t
  /\ Tells(Files!Read, said, Len(said))
  /\ \A s \in Slots : ProcessOK(stopHook[s])

FilesInv ==
  /\ FileTypes
  /\ \A s \in Slots : CalmOK(stopHook[s])
  /\ ~overlap => AloneOK

ToProcess(s, p) ==
  /\ stopHook' \in [Slots -> Processes] /\ stopHook'[s] = p
  /\ \A t \in Slots : t # s => stopHook'[t] = stopHook[t]

LEMMA Goes ==
  ASSUME FileTypes, NEW s \in Slots, NEW p \in Processes, Files!Go(s, p)
  PROVE  ToProcess(s, p)
<1> HIDE DEF Processes
<1> QED BY DEF FileTypes, Files!Go, ToProcess

\* What is read of the journal, of which type.
LEMMA ReadIs ==
  ASSUME FileTypes
  PROVE  Files!Read \in Seq(Files!Turns) /\ Len(said) \in Nat
BY ToldType DEF FileTypes, Files!Read

\* A step that changes the root and the processes only, with a process p in slot s.
LEMMA OnlyProcesses ==
  ASSUME FilesInv, NEW s \in Slots, NEW p \in Processes, ToProcess(s, p),
         UNCHANGED <<journal, said, overlap>>, ~overlap => ProcessOK(p),
         stopHook[s].point # "none" \/ p.point = "none"
  PROVE  ~overlap' => AloneOK'
<1> SUFFICES ASSUME ~overlap PROVE AloneOK'
  OBVIOUS
<1>1. AloneOK /\ ProcessOK(p) /\ stopHook' \in [Slots -> Processes]
  BY DEF FilesInv, ToProcess
<1>2. \A t \in Slots : stopHook'[t] = IF t = s THEN p ELSE stopHook[t]
  BY DEF ToProcess
<1>3. Files!Read' = Files!Read /\ (Files!Terminated' <=> Files!Terminated)
  BY DEF Files!Read, Files!Terminated
<1>4. \A t, u \in Slots : stopHook'[t].point # "none" /\ stopHook'[u].point # "none" => t = u
  <2> HIDE DEF Processes
  <2> QED BY <1>1, <1>2 DEF AloneOK
<1>5. ASSUME NEW t \in Slots PROVE ProcessOK(stopHook[t])'
  <2> DEFINE h == stopHook'[t]
  <2>1. ProcessOK(h)
    BY <1>1, <1>2 DEF AloneOK
  <2> QED BY <1>3, <2>1 DEF ProcessOK
<1>6. Tells(Files!Read, said, Len(said))'
  BY <1>1, <1>3 DEF AloneOK
<1> QED BY <1>4, <1>5, <1>6 DEF AloneOK

\* A process found calm stays so while no process comes to record a root.
LEMMA StaysCalm ==
  ASSUME FilesInv, NEW s \in Slots, NEW p \in Processes, ToProcess(s, p), UNCHANGED root,
         p.point # "unrecorded" \/ root = NoDir,
         CalmOK(p)
  PROVE  \A t \in Slots : CalmOK(stopHook[t])'
<1> SUFFICES ASSUME NEW t \in Slots PROVE CalmOK(stopHook[t])'
  OBVIOUS
<1>1. \A u \in Slots : stopHook'[u] = IF u = s THEN p ELSE stopHook[u]
  BY DEF ToProcess
<1>2. \A u \in Slots : CalmOK(stopHook[u])
  BY DEF FilesInv
<1>3. CalmOK(IF t = s THEN p ELSE stopHook[t])
  BY <1>2
<1> DEFINE h == IF t = s THEN p ELSE stopHook[t]
<1> SUFFICES ASSUME h.point \in Waiting, h.calm
             PROVE  /\ root # NoDir /\ \A u \in Slots : stopHook'[u].point # "unrecorded"
                    /\ h.point = "rooted" => h.dir = root
  BY <1>1 DEF CalmOK
<1>4. /\ root # NoDir /\ \A u \in Slots : stopHook[u].point # "unrecorded"
      /\ h.point = "rooted" => h.dir = root
  BY <1>3 DEF CalmOK
<1> HIDE DEF h, Processes
<1> QED BY <1>1, <1>4

\* The journal unchanged is read as before.
LEMMA PrefixSame ==
  ASSUME FileTypes, UNCHANGED journal
  PROVE  Files!PrefixStays
<1>1. Files!Read' = Files!Read
  BY DEF Files!Read
<1>2. Files!IsPrefix(Files!Read, Files!Read)
  BY ReadIs DEF Files!IsPrefix
<1> QED BY <1>1, <1>2 DEF Files!PrefixStays

LEMMA EventInv ==
  ASSUME FilesInv, NEW s \in Slots, NEW turn \in Files!Turns, NEW dir \in Dirs,
         NEW again \in BOOLEAN, Files!Event(s, turn, dir, again)
  PROVE  FilesInv'
<1> DEFINE p == [point |-> "new", turn |-> turn, dir |-> dir,
                 calm |-> root # NoDir /\ \A t \in Slots : ~Files!At(t, "unrecorded")]
<1>1. p \in Processes
  BY DEF Processes, Waiting
<1>2. FileTypes /\ UNCHANGED <<root, journal>> /\ Files!Go(s, p)
  BY DEF FilesInv, Files!Event
<1>3. ToProcess(s, p) /\ p.point = "new" /\ p.turn = turn
  BY <1>1, <1>2, Goes
<1>4. /\ said' \in Seq(Files!Turns) /\ Len(said') \in 1 .. Len(said') /\ said'[Len(said')] = turn
      /\ Len(said) \in 0 .. Len(said') /\ \A i \in 1 .. Len(said) : said'[i] = said[i]
  <2>1. CASE again
    <3>1. said # <<>> /\ said[Len(said)] = turn /\ said' = said
      BY <2>1 DEF Files!Event, Files!Last
    <3> QED BY <1>2, <3>1, EmptySeq DEF FileTypes
  <2>2. CASE ~again
    <3>1. said' = Append(said, turn) /\ said \in Seq(Files!Turns)
      BY <1>2, <2>2 DEF Files!Event, FileTypes
    <3> QED BY <3>1, AppendProperties
  <2> QED BY <2>1, <2>2
<1>5. CalmOK(p)
  BY DEF CalmOK, Files!At
<1>6. overlap' \in BOOLEAN /\ (~overlap' => ~overlap /\ \A t \in Slots : stopHook[t].point = "none")
  BY <1>2 DEF Files!Event, Files!At, FileTypes
<1>7. ~overlap' => AloneOK'
  <2> SUFFICES ASSUME ~overlap' PROVE AloneOK'
    OBVIOUS
  <2> HIDE DEF p
  <2>1. AloneOK /\ \A t \in Slots : stopHook[t].point = "none"
    BY <1>6 DEF FilesInv
  <2>2. Files!Read' = Files!Read /\ Files!Read \in Seq(Files!Turns)
    BY <1>2, ReadIs DEF Files!Read
  <2>3. Tells(Files!Read, said', Len(said'))
    BY <1>2, <1>4, <2>1, <2>2, TellsFurther DEF AloneOK, FileTypes
  <2>4. \A t \in Slots : t # s => stopHook'[t].point = "none"
    BY <1>3, <2>1 DEF ToProcess
  <2>5. ASSUME NEW t \in Slots PROVE ProcessOK(stopHook[t])'
    <3>1. CASE t = s
      BY <1>3, <1>4, <3>1 DEF ToProcess, ProcessOK
    <3>2. CASE t # s
      BY <2>4, <3>2 DEF ProcessOK
    <3> QED BY <3>1, <3>2
  <2> QED BY <2>2, <2>3, <2>4, <2>5 DEF AloneOK
<1>8. \A t \in Slots : CalmOK(stopHook[t])'
  <2> HIDE DEF p
  <2> QED BY <1>1, <1>2, <1>3, <1>5, StaysCalm
<1>9. FileTypes'
  BY <1>2, <1>3, <1>4, <1>6 DEF FileTypes, ToProcess
<1> QED BY <1>7, <1>8, <1>9 DEF FilesInv

LEMMA ReadRootInv ==
  ASSUME FilesInv, NEW s \in Slots, Files!ReadRoot(s)
  PROVE  FilesInv'
<1> DEFINE h == stopHook[s]
           p == IF root = NoDir THEN [h EXCEPT !.point = "unrecorded"]
                ELSE [h EXCEPT !.point = "rooted", !.dir = root]
<1>1. /\ FileTypes /\ UNCHANGED <<root, journal, said, overlap>> /\ Files!Go(s, p)
      /\ h.point = "new" /\ h \in Processes /\ CalmOK(h)
  BY DEF FilesInv, FileTypes, Files!ReadRoot, Files!At
<1>2. h \in [point : Waiting, turn : Files!Turns, dir : Dirs \cup {NoDir}, calm : BOOLEAN]
  BY <1>1 DEF Processes, Waiting, Files!Gone
<1>3. /\ p \in [point : Waiting, turn : Files!Turns, dir : Dirs \cup {NoDir}, calm : BOOLEAN]
      /\ p.point = IF root = NoDir THEN "unrecorded" ELSE "rooted"
      /\ root # NoDir => p.dir = root
      /\ p.turn = h.turn /\ p.calm = h.calm
  BY <1>1, <1>2 DEF FileTypes, Waiting
<1>4. p \in Processes
  <2> HIDE DEF p, h
  <2> QED BY <1>3 DEF Processes
<1>5. CalmOK(p)
  <2> HIDE DEF p
  <2> QED BY <1>1, <1>3 DEF CalmOK, Waiting
<1>6. ~overlap => ProcessOK(p)
  <2>1. ~overlap => ProcessOK(h)
    BY DEF FilesInv, AloneOK
  <2> HIDE DEF p
  <2> QED BY <1>1, <1>3, <2>1 DEF ProcessOK
<1> HIDE DEF p
<1>7. ToProcess(s, p)
  BY <1>1, <1>4, Goes
<1>8. ~overlap' => AloneOK'
  BY <1>1, <1>4, <1>6, <1>7, OnlyProcesses
<1>9. \A t \in Slots : CalmOK(stopHook[t])'
  BY <1>1, <1>3, <1>4, <1>5, <1>7, StaysCalm
<1>10. FileTypes'
  BY <1>1, <1>7 DEF FileTypes, ToProcess
<1> QED BY <1>8, <1>9, <1>10 DEF FilesInv

\* With a process about to record a root, none is calm, and the root may change.
LEMMA WriteRootInv ==
  ASSUME FilesInv, NEW s \in Slots, Files!WriteRoot(s)
  PROVE  FilesInv'
<1> DEFINE h == stopHook[s]
           p == [h EXCEPT !.point = "rooted"]
<1>1. /\ FileTypes /\ UNCHANGED <<journal, said, overlap>> /\ Files!Go(s, p)
      /\ h.point = "unrecorded" /\ h \in Processes /\ root' \in {h.dir, root}
  BY DEF FilesInv, FileTypes, Files!WriteRoot, Files!At
<1>2. h \in [point : Waiting, turn : Files!Turns, dir : Dirs \cup {NoDir}, calm : BOOLEAN]
  BY <1>1 DEF Processes, Waiting, Files!Gone
<1>3. /\ p \in [point : Waiting, turn : Files!Turns, dir : Dirs \cup {NoDir}, calm : BOOLEAN]
      /\ p.point = "rooted" /\ p.turn = h.turn /\ p.calm = h.calm
  BY <1>1, <1>2 DEF Waiting
<1>4. p \in Processes
  <2> HIDE DEF p, h
  <2> QED BY <1>3 DEF Processes
<1>5. ~overlap => ProcessOK(p)
  <2>1. ~overlap => ProcessOK(h)
    BY DEF FilesInv, AloneOK
  <2> HIDE DEF p
  <2> QED BY <1>1, <1>3, <2>1 DEF ProcessOK
<1> HIDE DEF p
<1>6. ToProcess(s, p)
  BY <1>1, <1>4, Goes
<1>7. ~overlap' => AloneOK'
  BY <1>1, <1>4, <1>5, <1>6, OnlyProcesses
<1>8. \A t \in Slots : CalmOK(stopHook[t])'
  <2>1. \A t \in Slots : ~(stopHook[t].point \in Waiting /\ stopHook[t].calm)
    BY <1>1 DEF FilesInv, CalmOK
  <2>2. ASSUME NEW t \in Slots PROVE ~(stopHook'[t].point \in Waiting /\ stopHook'[t].calm)
    <3>1. CASE t = s
      BY <1>1, <1>3, <1>6, <2>1, <3>1 DEF ToProcess, Waiting
    <3>2. CASE t # s
      BY <1>6, <2>1, <3>2 DEF ToProcess
    <3> QED BY <3>1, <3>2
  <2> QED BY <2>2 DEF CalmOK
<1>9. FileTypes'
  BY <1>1, <1>2, <1>6 DEF FileTypes, ToProcess
<1> QED BY <1>7, <1>8, <1>9 DEF FilesInv

LEMMA ReadTailInv ==
  ASSUME FilesInv, NEW s \in Slots, Files!ReadTail(s)
  PROVE  FilesInv'
<1> DEFINE h == stopHook[s]
           full == Len(journal) >= MaxLines \/ Files!Repeats(h.turn)
           q == [point |-> "appending", turn |-> h.turn, terminated |-> Files!Terminated]
           p == IF full THEN Files!Gone ELSE q
<1>1. /\ FileTypes /\ UNCHANGED <<root, journal, said, overlap>> /\ Files!Go(s, p)
      /\ h.point = "rooted" /\ h \in Processes
  BY DEF FilesInv, FileTypes, Files!ReadTail, Files!At
<1>2. h.turn \in Files!Turns
  BY <1>1 DEF Processes, Waiting, Files!Gone
<1>3. q \in Processes /\ Files!Gone \in Processes /\ p \in Processes
  <2>1. q \in Processes
    BY <1>2 DEF Processes, Files!Terminated
  <2> HIDE DEF q, full
  <2> QED BY <2>1 DEF Processes
<1>4. Files!Gone.point = "none" /\ p.point \in {"none", "appending"}
  <2> HIDE DEF full
  <2> QED BY DEF Files!Gone
<1>5. CalmOK(p)
  BY <1>4 DEF CalmOK, Waiting
<1>6. ~overlap => ProcessOK(p)
  <2> SUFFICES ASSUME ~overlap, ~full PROVE ProcessOK(q)
    <3> HIDE DEF full, q
    <3> QED BY <1>4 DEF ProcessOK
  <2>1. ProcessOK(h) /\ Tells(Files!Read, said, Len(said))
    BY DEF FilesInv, AloneOK
  <2>2. Len(said) \in 1 .. Len(said) /\ h.turn = said[Len(said)] /\ said \in Seq(Files!Turns)
    BY <1>1, <2>1 DEF ProcessOK, FileTypes
  <2>3. Files!Read = <<>> \/ Files!Read[Len(Files!Read)] # said[Len(said)]
    BY <2>2 DEF Files!Repeats, Files!LastTurn, Files!Last
  <2>4. Tells(Files!Read, said, Len(said) - 1)
    BY <1>1, <2>1, <2>2, <2>3, ReadIs, TellsTheRest
  <2> QED BY <2>2, <2>4 DEF ProcessOK
<1> HIDE DEF p, q
<1>7. ToProcess(s, p)
  BY <1>1, <1>3, Goes
<1>8. ~overlap' => AloneOK'
  BY <1>1, <1>3, <1>6, <1>7, OnlyProcesses
<1>9. \A t \in Slots : CalmOK(stopHook[t])'
  BY <1>1, <1>3, <1>4, <1>5, <1>7, StaysCalm
<1>10. FileTypes'
  BY <1>1, <1>7 DEF FileTypes, ToProcess
<1> QED BY <1>8, <1>9, <1>10 DEF FilesInv

LEMMA KillInv ==
  ASSUME FilesInv, NEW s \in Slots, Files!Kill(s)
  PROVE  FilesInv'
<1> DEFINE p == Files!Gone
<1>1. FileTypes /\ UNCHANGED <<root, journal, said, overlap>> /\ Files!Go(s, p)
  BY DEF FilesInv, Files!Kill
<1>2. p \in Processes /\ p.point = "none"
  BY DEF Processes, Files!Gone
<1>3. CalmOK(p) /\ ProcessOK(p)
  BY <1>2 DEF CalmOK, ProcessOK, Waiting
<1> HIDE DEF p
<1>4. ToProcess(s, p)
  BY <1>1, <1>2, Goes
<1>5. ~overlap' => AloneOK'
  BY <1>1, <1>2, <1>3, <1>4, OnlyProcesses
<1>6. \A t \in Slots : CalmOK(stopHook[t])'
  BY <1>1, <1>2, <1>3, <1>4, StaysCalm
<1>7. FileTypes'
  BY <1>1, <1>4 DEF FileTypes, ToProcess
<1> QED BY <1>5, <1>6, <1>7 DEF FilesInv

\* A record follows what was read of the journal, or spoils the line of another process.
LEMMA AppendTurnInv ==
  ASSUME FilesInv, NEW s \in Slots, NEW form \in {"whole", "bare", "part"}, Files!AppendTurn(s, form)
  PROVE  FilesInv' /\ Files!PrefixStays
<1> DEFINE h == stopHook[s]
           p == Files!Gone
           line == [turn |-> h.turn, form |-> form]
<1>1. /\ FileTypes /\ UNCHANGED <<root, said, overlap>> /\ Files!Go(s, p)
      /\ h.point = "appending" /\ h \in Processes
      /\ journal' = Files!Joined(line, h.terminated)
  BY DEF FilesInv, FileTypes, Files!AppendTurn, Files!At
<1>2. h.turn \in Files!Turns /\ h.terminated \in BOOLEAN
  BY <1>1 DEF Processes, Waiting, Files!Gone
<1>3. line \in Lines /\ line.turn = h.turn
  BY <1>2 DEF Lines, Forms
<1>4. p \in Processes /\ p.point = "none"
  BY DEF Processes, Files!Gone
<1> HIDE DEF p, line
<1>5. /\ ToProcess(s, p)
      /\ \A t \in Slots : stopHook'[t].point # "none" => t # s /\ stopHook'[t] = stopHook[t]
  <2>1. ToProcess(s, p)
    BY <1>1, <1>4, Goes
  <2> QED BY <1>4, <2>1 DEF ToProcess
<1>6. /\ journal' \in Seq(Lines)
      /\ Files!Terminated \/ ~h.terminated
           => Files!Read' = IF Files!Legible(line) THEN Append(Files!Read, h.turn) ELSE Files!Read
  <2>1. journal \in Seq(Lines) /\ Files!Read' = Files!Told(journal')
    BY <1>1 DEF FileTypes, Files!Read
  <2> HIDE DEF h, Lines
  <2> QED BY <1>1, <1>2, <1>3, <2>1, JoinedLine
<1>7. ~overlap => AloneOK /\ ProcessOK(h) /\ (h.terminated <=> Files!Terminated)
  <2>1. ~overlap => AloneOK /\ ProcessOK(h)
    BY DEF FilesInv, AloneOK
  <2> QED BY <1>1, <2>1 DEF ProcessOK
<1>8. Files!Read \in Seq(Files!Turns)
  BY <1>1, ReadIs
<1>9. Files!PrefixStays
  <2> SUFFICES ASSUME ~(overlap /\ ~Files!Terminated) PROVE Files!IsPrefix(Files!Read, Files!Read')
    BY DEF Files!PrefixStays
  <2>1. Files!Read' = Append(Files!Read, h.turn) \/ Files!Read' = Files!Read
    BY <1>6, <1>7
  <2>2. CASE Files!Read' = Append(Files!Read, h.turn)
    <3> DEFINE r == Files!Read
               w == Append(r, h.turn)
    <3>1. /\ w \in Seq(Files!Turns) /\ Len(w) = Len(r) + 1 /\ Len(r) \in Nat
          /\ \A i \in 1 .. Len(r) : w[i] = r[i]
      BY <1>2, <1>8, AppendProperties
    <3> HIDE DEF r, w
    <3>2. SubSeq(r, 1, Len(r)) = SubSeq(w, 1, Len(r))
      BY <3>1
    <3> QED BY <2>2, <3>1, <3>2 DEF Files!IsPrefix, r, w
  <2>3. CASE Files!Read' = Files!Read
    BY <1>8, <2>3 DEF Files!IsPrefix
  <2> QED BY <2>1, <2>2, <2>3
<1>10. ~overlap' => AloneOK'
  <2> SUFFICES ASSUME ~overlap PROVE AloneOK'
    BY <1>1
  <2>1. \A t \in Slots : stopHook'[t].point = "none"
    BY <1>1, <1>5, <1>7 DEF AloneOK
  <2>2. /\ Len(said) \in 1 .. Len(said) /\ h.turn = said[Len(said)] /\ said \in Seq(Files!Turns)
        /\ Tells(Files!Read, said, Len(said) - 1) /\ Tells(Files!Read, said, Len(said))
    BY <1>1, <1>7 DEF ProcessOK, AloneOK, FileTypes
  <2>3. Tells(Files!Read', said, Len(said))
    <3>1. Tells(Append(Files!Read, said[Len(said)]), said, Len(said))
      BY <1>8, <2>2, TellsTheLast
    <3> QED BY <1>6, <1>7, <2>2, <3>1
  <2>4. \A t \in Slots : ProcessOK(stopHook[t])'
    BY <2>1 DEF ProcessOK
  <2> QED BY <1>1, <2>1, <2>3, <2>4 DEF AloneOK
<1>11. \A t \in Slots : CalmOK(stopHook[t])'
  <2>1. CalmOK(p)
    BY <1>4 DEF CalmOK, Waiting
  <2> QED BY <1>1, <1>4, <1>5, <2>1, StaysCalm
<1>12. FileTypes'
  BY <1>1, <1>5, <1>6 DEF FileTypes, ToProcess
<1> QED BY <1>9, <1>10, <1>11, <1>12 DEF FilesInv

LEMMA FilesInitially == part = "files" /\ Files!Init => FilesInv
<1> SUFFICES ASSUME Files!Init PROVE FilesInv
  OBVIOUS
<1>1. /\ root = NoDir /\ journal = <<>> /\ said = <<>> /\ overlap = FALSE
      /\ stopHook = [s \in Slots |-> Files!Gone]
  BY DEF Files!Init
<1>2. Files!Gone \in Processes /\ Files!Gone.point = "none"
  BY DEF Processes, Files!Gone
<1>3. stopHook \in [Slots -> Processes] /\ \A s \in Slots : stopHook[s].point = "none"
  <2> HIDE DEF Processes, Files!Gone
  <2> QED BY <1>1, <1>2
<1>4. FileTypes
  <2> DEFINE none == <<>>
  <2>1. none \in Seq(Lines) /\ none \in Seq(Files!Turns) /\ journal = none /\ said = none
    BY <1>1, EmptySeq
  <2> HIDE DEF none, Lines, Processes
  <2> QED BY <1>1, <1>3, <2>1 DEF FileTypes
<1>5. Tells(Files!Read, said, Len(said))
  <2> DEFINE none == <<>>
  <2>1. Files!Read = none /\ said = none /\ Len(none) = 0
    BY <1>1, ToldNothing DEF Files!Read
  <2>2. none \in [1 .. 0 -> 1 .. 0]
    OBVIOUS
  <2> HIDE DEF none
  <2>3. Places(none, none, 0, none)
    BY <2>1, <2>2 DEF Places
  <2> QED BY <2>1, <2>3 DEF Tells
<1>6. AloneOK /\ \A s \in Slots : CalmOK(stopHook[s])
  BY <1>3, <1>5 DEF AloneOK, ProcessOK, CalmOK, Waiting
<1> QED BY <1>4, <1>6 DEF FilesInv

LEMMA FilesStep ==
  ASSUME FilesInv, Files!Next
  PROVE  FilesInv' /\ Files!PrefixStays
<1>1. PICK s \in Slots : Files!Step(s)
  BY DEF Files!Next
<1>2. CASE Files!ReadRoot(s)
  BY <1>2, ReadRootInv, PrefixSame DEF Files!ReadRoot, FilesInv
<1>3. CASE Files!WriteRoot(s)
  BY <1>3, WriteRootInv, PrefixSame DEF Files!WriteRoot, FilesInv
<1>4. CASE Files!ReadTail(s)
  BY <1>4, ReadTailInv, PrefixSame DEF Files!ReadTail, FilesInv
<1>5. CASE Files!Kill(s)
  BY <1>5, KillInv, PrefixSame DEF Files!Kill, FilesInv
<1>6. ASSUME NEW turn \in Files!Turns, NEW dir \in Dirs, NEW again \in BOOLEAN,
             Files!Event(s, turn, dir, again)
      PROVE  FilesInv' /\ Files!PrefixStays
  BY <1>6, EventInv, PrefixSame DEF Files!Event, FilesInv
<1>7. ASSUME NEW form \in {"whole", "bare", "part"}, Files!AppendTurn(s, form)
      PROVE  FilesInv' /\ Files!PrefixStays
  BY <1>7, AppendTurnInv
<1> QED BY <1>1, <1>2, <1>3, <1>4, <1>5, <1>6, <1>7 DEF Files!Step

LEMMA FilesRestStep ==
  ASSUME FilesInv, UNCHANGED fileVars
  PROVE  FilesInv' /\ Files!PrefixStays
<1>1. Files!PrefixStays
  BY PrefixSame DEF fileVars, FilesInv
<1>2. FileTypes' /\ \A s \in Slots : CalmOK(stopHook[s])'
  BY DEF FilesInv, FileTypes, CalmOK, fileVars
<1>3. ~overlap' => AloneOK'
  <2> SUFFICES ASSUME ~overlap PROVE AloneOK'
    BY DEF fileVars
  <2>1. Files!Read' = Files!Read /\ (Files!Terminated' <=> Files!Terminated) /\ AloneOK
    BY DEF fileVars, Files!Read, Files!Terminated, FilesInv
  <2> QED BY <2>1 DEF AloneOK, ProcessOK, fileVars
<1> QED BY <1>1, <1>2, <1>3 DEF FilesInv

\* The invariant holds of every behaviour that follows the files of a session, and every
\* step keeps the prefix.
LEMMA FilesAlways ==
  Spec => /\ [](part = "files" => FilesInv)
          /\ [][part = "files" => Files!PrefixStays]_fileVars
<1> DEFINE Inv == part = "files" => FilesInv
           Stays == part = "files" => Files!PrefixStays
<1>1. Init => Inv
  BY FilesInitially DEF Init
<1>2. Inv /\ [Next]_all => Inv' /\ [Stays]_fileVars
  <2> SUFFICES ASSUME Inv, [Next]_all PROVE Inv' /\ [Stays]_fileVars
    OBVIOUS
  <2>1. CASE FilesNext
    BY <2>1, FilesStep DEF FilesNext
  <2>2. CASE UNCHANGED <<part, fileVars>>
    BY <2>2, FilesRestStep
  <2> QED BY <2>1, <2>2
          DEF Next, RuntimeNext, PromptNext, WriteBackNext, ReadersNext, SetupNext, all
<1> HIDE DEF Stays
<1>3. Spec => []Inv /\ [][Stays]_fileVars
  BY <1>1, <1>2, PTL DEF Spec
<1> QED BY <1>3 DEF Stays

\* Of the journal of a session nothing is read that was not said, in the order it was said
\* in, whatever a kill cuts off, as long as no two processes overlap; what was read of it
\* once is a prefix of what is read later, unless a process appends to a line that another
\* one left without its newline; and a process that began with a recorded root, while none
\* was about to record another, works for the bank of that root.
THEOREM PrefixAlwaysKept == Spec => PrefixKept
<1>1. FilesInv => Files!NoPhantomTurns
  <2> SUFFICES ASSUME FilesInv, ~overlap PROVE Files!NoPhantomTurns
    BY DEF Files!NoPhantomTurns
  <2>1. PICK place : Places(Files!Read, said, Len(said), place)
    BY DEF FilesInv, AloneOK, Tells
  <2>2. DOMAIN Files!Read = 1 .. Len(Files!Read) /\ DOMAIN said = 1 .. Len(said)
    BY ReadIs, LenProperties DEF FilesInv, FileTypes
  <2> QED BY <2>1, <2>2 DEF Places, Files!NoPhantomTurns
<1>2. FilesInv => Files!OneRoot
  BY DEF FilesInv, CalmOK, Waiting, Files!OneRoot, Files!At
<1>3. (part = "files" => FilesInv) => (part = "files" => Files!NoPhantomTurns /\ Files!OneRoot)
  BY <1>1, <1>2
<1> QED BY <1>3, FilesAlways, PTL DEF PrefixKept

-----------------------------------------------------------------------------
\* The two names of one operator.
LEMMA RuntimeCardinality ==
  ASSUME NEW S
  PROVE  Runtime!Cardinality(S) = Cardinality(S)
BY DEF Runtime!Cardinality, Cardinality

\* A core c whose types are right, with at most m tasks: the map has MaxSessions keys at
\* most, in a total order, and each state object is as busy as it has tasks.
Ordered(c) ==
  /\ IsFiniteSet(Runtime!Keys(c)) /\ Cardinality(Runtime!Keys(c)) <= MaxSessions
  /\ \A s, r \in Runtime!Keys(c) : (<<s, r>> \in c.order) # (s = r \/ <<r, s>> \in c.order)
  /\ \A pair \in c.order : {pair[1], pair[2]} \subseteq Runtime!Keys(c)
BusyAsMany(c) ==
  \A o \in 1 .. MaxObjects : c.state[o].busy = Cardinality(TasksAt(c.tasks, o))
Typed(c, m) == Ordered(c) /\ BusyAsMany(c) /\ Cardinality(c.tasks) <= m

\* The fields that types are about are the same.
LEMMA SameTyped ==
  ASSUME NEW c, NEW d, NEW m, Typed(c, m), d.object = c.object, d.order = c.order,
         d.tasks = c.tasks, \A o \in 1 .. MaxObjects : d.state[o].busy = c.state[o].busy
  PROVE  Typed(d, m)
<1>1. Runtime!Keys(d) = Runtime!Keys(c)
  BY DEF Runtime!Keys
<1> QED BY <1>1 DEF Typed, Ordered, BusyAsMany

LEMMA RemoveTyped ==
  ASSUME NEW c, CoreOK(c), NEW m, Typed(c, m), NEW gone \in SUBSET Runtime!Ids,
         NEW d, d = Runtime!Remove(c, gone)
  PROVE  /\ Typed(d, m) /\ Runtime!Keys(d) = Runtime!Keys(c) \ gone
         /\ d.tasks = c.tasks /\ d.admitted = c.admitted
<1> DEFINE kept == {pair \in c.order : pair[1] \notin gone /\ pair[2] \notin gone}
<1>1. /\ c.state \in [1 .. MaxObjects -> StateTypes]
      /\ d.object = [s \in Runtime!Ids |-> IF s \in gone THEN 0 ELSE c.object[s]]
      /\ d.state = [o \in 1 .. MaxObjects |->
                      IF c.state[o].busy = 0 /\ \E s \in gone : c.object[s] = o
                      THEN Runtime!Fresh ELSE c.state[o]]
      /\ d.order = kept /\ d.tasks = c.tasks /\ d.admitted = c.admitted
  BY CoreFields DEF Runtime!Remove, CoreOK, IsCore
<1>2. Runtime!Keys(d) = Runtime!Keys(c) \ gone
  BY <1>1 DEF Runtime!Keys
<1>3. \A o \in 1 .. MaxObjects : d.state[o].busy = c.state[o].busy
  BY <1>1 DEF Runtime!Fresh
<1>4. IsFiniteSet(Runtime!Keys(d)) /\ Cardinality(Runtime!Keys(d)) <= MaxSessions
  <2>1. IsFiniteSet(Runtime!Keys(c)) /\ Cardinality(Runtime!Keys(c)) <= MaxSessions
    BY DEF Typed, Ordered
  <2>2. /\ IsFiniteSet(Runtime!Keys(d))
        /\ Cardinality(Runtime!Keys(d)) <= Cardinality(Runtime!Keys(c))
    BY <1>2, <2>1, FS_Subset
  <2>3. Cardinality(Runtime!Keys(c)) \in Nat /\ Cardinality(Runtime!Keys(d)) \in Nat
        /\ MaxSessions \in Nat
    BY <2>1, <2>2, FS_CardinalityType, AgentsConstants DEF Runtime!RuntimeConstants
  <2> QED BY <2>1, <2>2, <2>3
<1>5. Ordered(d)
  <2> DEFINE K == Runtime!Keys(c)
             L == Runtime!Keys(d)
  <2>1. /\ \A s, r \in K : (<<s, r>> \in c.order) # (s = r \/ <<r, s>> \in c.order)
        /\ \A pair \in c.order : {pair[1], pair[2]} \subseteq K
    BY DEF Typed, Ordered
  <2> HIDE DEF K, L
  <2>2. L = K \ gone
    BY <1>2 DEF K, L
  <2>3. ASSUME NEW s \in L, NEW r \in L
        PROVE  (<<s, r>> \in kept) # (s = r \/ <<r, s>> \in kept)
    <3>1. (<<s, r>> \in kept) = (<<s, r>> \in c.order) /\ (<<r, s>> \in kept) = (<<r, s>> \in c.order)
      BY <2>2
    <3> HIDE DEF kept
    <3> QED BY <2>1, <2>2, <3>1
  <2>4. \A pair \in kept : {pair[1], pair[2]} \subseteq L
    BY <2>1, <2>2
  <2> HIDE DEF kept
  <2> QED BY <1>1, <1>4, <2>3, <2>4 DEF Ordered, L
<1> QED BY <1>1, <1>2, <1>3, <1>5 DEF Typed, BusyAsMany

LEMMA CleanupTyped ==
  ASSUME NEW c, CoreOK(c), NEW m, Typed(c, m), NEW s \in Runtime!Ids, NEW o,
         NEW d, d = Runtime!CleanupEnded(c, s, o)
  PROVE  Typed(d, m)
<1>1. d = c \/ d = Runtime!Remove(c, {s})
  BY DEF Runtime!CleanupEnded
<1> QED BY <1>1, RemoveTyped

\* s is a key of the core but for the order, which is that of the others.
LEMMA LatestTyped ==
  ASSUME NEW c, IsCore(c), NEW s \in Runtime!Ids, c.object[s] # 0, NEW m,
         IsFiniteSet(Runtime!Keys(c)), Cardinality(Runtime!Keys(c)) <= MaxSessions,
         \A q, r \in Runtime!Keys(c) \ {s} :
           (<<q, r>> \in c.order) # (q = r \/ <<r, q>> \in c.order),
         \A pair \in c.order : {pair[1], pair[2]} \subseteq Runtime!Keys(c),
         BusyAsMany(c), Cardinality(c.tasks) <= m,
         NEW d, d = Runtime!Latest(c, s)
  PROVE  Typed(d, m) /\ d.tasks = c.tasks /\ d.admitted = c.admitted
<1> DEFINE K == Runtime!Keys(c)
           old == {pair \in c.order : s \notin {pair[1], pair[2]}}
           new == (K \ {s}) \X {s}
           all2 == old \cup new
<1>1. /\ d.order = all2 /\ d.object = c.object /\ d.state = c.state /\ d.tasks = c.tasks
      /\ d.admitted = c.admitted
  BY DEF Runtime!Latest, IsCore
<1>2. Runtime!Keys(d) = K /\ s \in K
  BY <1>1 DEF Runtime!Keys
<1>3. ASSUME NEW q \in K, NEW r \in K
      PROVE  (<<q, r>> \in all2) # (q = r \/ <<r, q>> \in all2)
  <2> HIDE DEF K
  <2>1. /\ (<<q, r>> \in old) = (<<q, r>> \in c.order /\ q # s /\ r # s)
        /\ (<<r, q>> \in old) = (<<r, q>> \in c.order /\ q # s /\ r # s)
        /\ (<<q, r>> \in new) = (q # s /\ r = s)
        /\ (<<r, q>> \in new) = (r # s /\ q = s)
    OBVIOUS
  <2> HIDE DEF old, new
  <2>2. CASE q # s /\ r # s
    <3>1. (<<q, r>> \in c.order) # (q = r \/ <<r, q>> \in c.order)
      BY <2>2 DEF K
    <3> QED BY <2>1, <2>2, <3>1
  <2>3. CASE q = s \/ r = s
    BY <2>1, <2>3
  <2> QED BY <2>2, <2>3
<1>4. \A pair \in all2 : {pair[1], pair[2]} \subseteq K
  BY <1>2
<1>5. Ordered(d)
  <2> HIDE DEF all2, K
  <2> QED BY <1>1, <1>2, <1>3, <1>4 DEF Ordered, K
<1> QED BY <1>1, <1>5 DEF Typed, BusyAsMany

\* The core with a new object for session s.
Grown(c, s) ==
  LET added == [c EXCEPT !.admitted = @ + 1, !.state[c.admitted + 1] = Runtime!Fresh]
  IN  [added EXCEPT !.object[s] = added.admitted]

LEMMA GrownCore ==
  ASSUME NEW c, CoreOK(c), NEW s \in Runtime!Ids, c.admitted < MaxObjects,
         NEW n, n = c.admitted + 1, NEW e, e = Grown(c, s)
  PROVE  /\ n \in 1 .. MaxObjects /\ \A r \in Runtime!Ids : c.object[r] # n
         /\ e.object = [c.object EXCEPT ![s] = n] /\ e.state = [c.state EXCEPT ![n] = Runtime!Fresh]
         /\ e.admitted = n /\ e.cursor = c.cursor /\ e.injection = c.injection
         /\ e.tasks = c.tasks /\ e.order = c.order /\ IsCore(e)
<1> DEFINE grown == [c EXCEPT !.admitted = @ + 1, !.state[c.admitted + 1] = Runtime!Fresh]
           x == Runtime!Fresh
<1>1. e = [grown EXCEPT !.object[s] = grown.admitted] /\ grown = [c EXCEPT !.admitted = n, !.state[n] = x]
  BY DEF Grown
<1>2. /\ c.object \in [Runtime!Ids -> 0 .. MaxObjects]
      /\ c.state \in [1 .. MaxObjects -> StateTypes] /\ c.admitted \in 0 .. MaxObjects
      /\ c.cursor \in [Runtime!Ids -> {"none", "clean", "unsent"}]
      /\ c.injection \in [Runtime!Ids -> Nat] /\ MaxObjects \in Nat /\ IsCore(c)
  BY CoreFields, AgentsConstants DEF CoreOK, Runtime!RuntimeConstants
<1>3. n \in 1 .. MaxObjects /\ \A r \in Runtime!Ids : c.object[r] # n
  BY <1>2 DEF CoreOK
<1> HIDE DEF grown, x
<1>4. /\ e.object = [c.object EXCEPT ![s] = n] /\ e.state = [c.state EXCEPT ![n] = x]
      /\ e.admitted = n /\ e.cursor = c.cursor /\ e.injection = c.injection
      /\ e.tasks = c.tasks /\ e.order = c.order
      /\ e = [order |-> e.order, object |-> e.object, state |-> e.state,
              admitted |-> e.admitted, cursor |-> e.cursor, injection |-> e.injection,
              last |-> e.last, tasks |-> e.tasks]
  <2>1. /\ grown.object = c.object /\ grown.state = [c.state EXCEPT ![n] = x]
        /\ grown.admitted = n /\ grown.cursor = c.cursor /\ grown.injection = c.injection
        /\ grown.tasks = c.tasks /\ grown.order = c.order
        /\ grown = [order |-> grown.order, object |-> grown.object, state |-> grown.state,
                   admitted |-> grown.admitted, cursor |-> grown.cursor,
                   injection |-> grown.injection, last |-> grown.last, tasks |-> grown.tasks]
    BY <1>1, <1>2 DEF IsCore
  <2> QED BY <1>1, <2>1
<1>5. IsCore(e)
  <2>1. x \in StateTypes
    BY DEF x, Runtime!Fresh, StateTypes
  <2>2. e.object \in [Runtime!Ids -> 0 .. MaxObjects]
        /\ e.state \in [1 .. MaxObjects -> StateTypes] /\ e.admitted \in 0 .. MaxObjects
    BY <1>2, <1>3, <1>4, <2>1
  <2> QED BY <1>2, <1>4, <2>2 DEF IsCore
<1> QED BY <1>3, <1>4, <1>5 DEF x

LEMMA AdmitTyped ==
  ASSUME NEW c, CoreOK(c), NEW s \in Runtime!Ids, c.object[s] = 0, c.admitted < MaxObjects,
         NEW m, Typed(c, m), NEW d, d = Runtime!Admit(c, s)
  PROVE  Typed(d, m) /\ d.tasks = c.tasks
<1> DEFINE n == c.admitted + 1
           e == Grown(c, s)
<1>0. d = c \/ (Cardinality(Runtime!Keys(c)) < MaxSessions /\ d = Runtime!Latest(e, s))
  <2>1. Cardinality(Runtime!Keys(c)) \in Nat /\ MaxSessions \in Nat
    BY FS_CardinalityType, AgentsConstants DEF Typed, Ordered, Runtime!RuntimeConstants
  <2> DEFINE grown == [c EXCEPT !.admitted = @ + 1, !.state[c.admitted + 1] = Runtime!Fresh]
             f == [grown EXCEPT !.object[s] = grown.admitted]
  <2>2. d = c \/ (~(Cardinality(Runtime!Keys(c)) >= MaxSessions) /\ d = Runtime!Latest(f, s))
    <3>1. CASE Runtime!Cardinality(Runtime!Keys(c)) >= MaxSessions
      BY <3>1 DEF Runtime!Admit
    <3>2. CASE ~(Runtime!Cardinality(Runtime!Keys(c)) >= MaxSessions)
      <4>1. d = Runtime!Latest(f, s)
        BY <3>2 DEF Runtime!Admit
      <4> QED BY <3>2, <4>1, RuntimeCardinality
    <3> QED BY <3>1, <3>2
  <2>3. f = e
    BY DEF Grown
  <2> HIDE DEF f, e
  <2> QED BY <2>1, <2>2, <2>3
<1>1. CASE d = c
  BY <1>1
<1>2. CASE Cardinality(Runtime!Keys(c)) < MaxSessions /\ d = Runtime!Latest(e, s)
  <2>1. /\ n \in 1 .. MaxObjects /\ \A r \in Runtime!Ids : c.object[r] # n
        /\ e.object = [c.object EXCEPT ![s] = n] /\ e.state = [c.state EXCEPT ![n] = Runtime!Fresh]
        /\ e.tasks = c.tasks /\ e.order = c.order /\ IsCore(e)
    BY GrownCore
  <2>2. c.object \in [Runtime!Ids -> 0 .. MaxObjects] /\ c.state \in [1 .. MaxObjects -> StateTypes]
    BY CoreFields DEF CoreOK
  <2> HIDE DEF n, e
  <2>3. e.object[s] # 0 /\ Runtime!Keys(e) = Runtime!Keys(c) \cup {s}
        /\ s \notin Runtime!Keys(c)
    BY <2>1, <2>2 DEF Runtime!Keys
  <2>4. IsFiniteSet(Runtime!Keys(e)) /\ Cardinality(Runtime!Keys(e)) <= MaxSessions
    <3>1. IsFiniteSet(Runtime!Keys(c)) /\ Cardinality(Runtime!Keys(c)) \in Nat /\ MaxSessions \in Nat
      BY FS_CardinalityType, AgentsConstants DEF Typed, Ordered, Runtime!RuntimeConstants
    <3>2. /\ IsFiniteSet(Runtime!Keys(e))
          /\ Cardinality(Runtime!Keys(e)) = Cardinality(Runtime!Keys(c)) + 1
      BY <2>3, <3>1, FS_AddElement
    <3> QED BY <1>2, <3>1, <3>2
  <2>5. BusyAsMany(e)
    <3>1. ASSUME NEW t \in c.tasks PROVE t.object # n
      BY <2>1 DEF CoreOK, TaskOK
    <3>2. ASSUME NEW i \in 1 .. MaxObjects
          PROVE  e.state[i].busy = Cardinality(TasksAt(e.tasks, i))
      <4>1. CASE i = n
        <5>1. TasksAt(e.tasks, i) = {} /\ e.state[i] = Runtime!Fresh
          BY <2>1, <2>2, <3>1, <4>1 DEF TasksAt
        <5> QED BY <5>1, FS_EmptySet DEF Runtime!Fresh
      <4>2. CASE i # n
        BY <2>1, <2>2, <4>2 DEF Typed, BusyAsMany
      <4> QED BY <4>1, <4>2
    <3> QED BY <3>2 DEF BusyAsMany
  <2>6. /\ \A q, r \in Runtime!Keys(e) \ {s} :
             (<<q, r>> \in e.order) # (q = r \/ <<r, q>> \in e.order)
        /\ \A pair \in e.order : {pair[1], pair[2]} \subseteq Runtime!Keys(e)
        /\ Cardinality(e.tasks) <= m
    BY <2>1, <2>3 DEF Typed, Ordered
  <2>7. d = Runtime!Latest(e, s)
    BY <1>2
  <2>8. e.object[s] # 0 /\ IsCore(e)
    BY <2>1, <2>3
  <2>9. Typed(d, m) /\ d.tasks = e.tasks
    BY <2>4, <2>5, <2>6, <2>7, <2>8, LatestTyped
  <2> QED BY <2>1, <2>9
<1> QED BY <1>0, <1>1, <1>2

LEMMA StateForTyped ==
  ASSUME NEW c, CoreOK(c), NEW s \in Runtime!Ids, c.admitted < MaxObjects,
         NEW m, Typed(c, m), NEW d, d = Runtime!StateFor(c, s)
  PROVE  CoreOK(d) /\ Typed(d, m) /\ d.tasks = c.tasks
<1>0. CoreOK(d)
  BY StateForKeeps
<1>1. CASE c.object[s] # 0
  <2>1. d = Runtime!Latest(c, s)
    BY <1>1 DEF Runtime!StateFor
  <2> QED BY <1>0, <1>1, <2>1, LatestTyped DEF Typed, Ordered, CoreOK
<1>2. CASE c.object[s] = 0
  <2> DEFINE gone == Runtime!Oldest(c)
             e == Runtime!Remove(c, gone)
  <2>1. d = Runtime!Admit(e, s) \/ d = Runtime!Admit(c, s)
    BY <1>2 DEF Runtime!StateFor
  <2>2. /\ gone \in SUBSET Runtime!Ids
        /\ \A k \in gone : c.object[k] # 0 /\ Runtime!Removable(c, k, c.object[k])
    BY DEF Runtime!Oldest, Runtime!Keys
  <2> HIDE DEF gone
  <2>3. /\ CoreOK(e) /\ e.admitted = c.admitted /\ Typed(e, m) /\ e.tasks = c.tasks
        /\ Runtime!Keys(e) = Runtime!Keys(c) \ gone
    BY <2>2, RemoveKeeps, RemoveTyped
  <2>4. e.object[s] = 0
    BY <1>2, <2>3 DEF Runtime!Keys
  <2> HIDE DEF e
  <2> QED BY <1>0, <1>2, <2>1, <2>3, <2>4, AdmitTyped
<1> QED BY <1>1, <1>2

LEMMA ObjectTyped ==
  ASSUME NEW c, CoreOK(c), NEW s \in Runtime!Ids, NEW o, o = c.object[s], o # 0,
         NEW x \in StateTypes, x.busy = c.state[o].busy,
         NEW cur \in {"none", "clean", "unsent"}, NEW inj \in Nat, NEW e,
         ObjectSet(c, s, o, x, cur, inj, e), NEW m, Typed(c, m)
  PROVE  CoreOK(e) /\ Typed(e, m) /\ e.object = c.object /\ e.tasks = c.tasks
<1>1. /\ CoreOK(e) /\ e.object = c.object /\ e.tasks = c.tasks /\ e.state[o] = x
  BY ObjectChanges
<1>2. /\ o \in 1 .. MaxObjects /\ c.state \in [1 .. MaxObjects -> StateTypes] /\ IsCore(c)
  BY CoreFields, ObjectTypes DEF CoreOK
<1>3. e.order = c.order /\ \A i \in 1 .. MaxObjects : i # o => e.state[i] = c.state[i]
  <2>1. CASE e = [c EXCEPT !.state[o] = x]
    BY <1>2, <2>1 DEF IsCore
  <2>4. CASE e = [c EXCEPT !.state[o] = x, !.injection[s] = inj]
    BY <1>2, <2>4 DEF IsCore
  <2>2. ASSUME NEW l, e = [c EXCEPT !.injection[s] = inj, !.last = l]
        PROVE  e.order = c.order /\ e.state = c.state
    BY <1>2, <2>2 DEF IsCore
  <2>3. CASE e = [c EXCEPT !.cursor[s] = cur]
    BY <1>2, <2>3 DEF IsCore
  <2> QED BY <2>1, <2>2, <2>3, <2>4 DEF ObjectSet
<1>4. \A i \in 1 .. MaxObjects : e.state[i].busy = c.state[i].busy
  BY <1>1, <1>3
<1> QED BY <1>1, <1>3, <1>4, SameTyped

LEMMA LastTyped ==
  ASSUME NEW c, CoreOK(c), NEW m, Typed(c, m), NEW l, NEW e, e = [c EXCEPT !.last = l]
  PROVE  CoreOK(e) /\ Typed(e, m) /\ e.tasks = c.tasks /\ e.admitted = c.admitted
<1>1. /\ CoreOK(e) /\ e.object = c.object /\ e.state = c.state /\ e.tasks = c.tasks
      /\ e.admitted = c.admitted
  BY LastKeeps
<1>2. e.order = c.order
  BY DEF CoreOK, IsCore
<1> QED BY <1>1, <1>2, SameTyped

\* There is a number for a new task while those of its kind are less than MaxTasks.
LEMMA FreeNumber ==
  ASSUME NEW ts, NEW t, NEW K, IsFiniteSet(K), Cardinality(K) < MaxTasks,
         \A v \in ts : v.kind = t.kind => v \in K
  PROVE  LET free == {copy \in 1 .. MaxTasks : Runtime!Numbered(t, copy) \notin ts}
             u == Runtime!Numbered(t, CHOOSE copy \in free : \A other \in free : copy <= other)
         IN  u \notin ts
<1> DEFINE free == {copy \in 1 .. MaxTasks : Runtime!Numbered(t, copy) \notin ts}
           f == [copy \in 1 .. MaxTasks |-> Runtime!Numbered(t, copy)]
           first == CHOOSE copy \in free : \A other \in free : copy <= other
<1>1. MaxTasks \in Nat \ {0}
  BY AgentsConstants DEF Runtime!RuntimeConstants
<1>2. free # {}
  <2> SUFFICES ASSUME free = {} PROVE FALSE
    OBVIOUS
  <2>1. \A copy \in 1 .. MaxTasks : f[copy] \in K
    BY DEF Runtime!Numbered
  <2>2. \A i, j \in 1 .. MaxTasks : f[i] = f[j] => i = j
    BY DEF Runtime!Numbered
  <2> HIDE DEF f
  <2>3. f \in [1 .. MaxTasks -> K]
    <3>1. f = [copy \in 1 .. MaxTasks |-> f[copy]]
      BY DEF f
    <3> QED BY <2>1, <3>1
  <2>4. IsFiniteSet(1 .. MaxTasks) /\ Cardinality(1 .. MaxTasks) = MaxTasks
    BY <1>1, FS_Interval
  <2>5. Cardinality(K) < Cardinality(1 .. MaxTasks)
    BY <2>4
  <2>6. \E i, j \in 1 .. MaxTasks : i # j /\ f[i] = f[j]
    <3> DEFINE I == 1 .. MaxTasks
    <3> HIDE DEF I
    <3>1. IsFiniteSet(I) /\ Cardinality(K) < Cardinality(I) /\ f \in [I -> K]
      BY <2>3, <2>4, <2>5 DEF I
    <3>2. \E i, j \in I : i # j /\ f[i] = f[j]
      BY <3>1, FS_PigeonHole
    <3> QED BY <3>2 DEF I
  <2> QED BY <2>2, <2>6
<1>3. first \in free
  <2>1. free \in SUBSET Nat
    BY <1>1
  <2> HIDE DEF free
  <2>2. \E copy \in free : \A other \in free : copy <= other
    BY <1>2, <2>1, Least
  <2> QED BY <2>2
<1>4. Runtime!Numbered(t, first) \notin ts
  <2> HIDE DEF first
  <2> QED BY <1>3
<1> QED BY <1>4

LEMMA PinTyped ==
  ASSUME NEW c, CoreOK(c), NEW s \in Runtime!Ids, NEW o, o = c.object[s], o # 0,
         NEW kind, NEW n \in Nat, NEW m \in Nat, Typed(c, m),
         NEW K, IsFiniteSet(K), Cardinality(K) < MaxTasks, \A t \in c.tasks : t.kind = kind => t \in K,
         NEW e, e = Runtime!Pin(c, Runtime!Task(kind, s, o, n))
  PROVE  /\ CoreOK(e) /\ Typed(e, m + 1) /\ e.object = c.object /\ c.tasks \subseteq e.tasks
         /\ Cardinality(e.tasks) = Cardinality(c.tasks) + 1
<1> DEFINE t == Runtime!Task(kind, s, o, n)
           free == {copy \in 1 .. MaxTasks : Runtime!Numbered(t, copy) \notin c.tasks}
           u == Runtime!Numbered(t, CHOOSE copy \in free : \A other \in free : copy <= other)
           ts == c.tasks \cup {u}
           x == Runtime!Busier(c.state[o])
<1>1. u.object = o
  BY DEF Runtime!Numbered, Runtime!Task
<1>2. u \notin c.tasks
  <2>1. t.kind = kind
    BY DEF Runtime!Task
  <2> QED BY <2>1, FreeNumber
<1>3. TasksSet(c, o, x, ts, e)
  BY DEF TasksSet, Runtime!Pin, Runtime!Begin, Runtime!Task
<1>4. o \in 1 .. MaxObjects /\ c.state[o] \in StateTypes
      /\ c.state \in [1 .. MaxObjects -> StateTypes] /\ IsCore(c)
  BY CoreFields, ObjectTypes DEF CoreOK
<1>5. CoreOK(e) /\ e.object = c.object
  BY PinKeeps
<1> HIDE DEF t, u, free
<1>6. x.busy = c.state[o].busy + 1
  BY <1>4, StateFields
<1> HIDE DEF x
<1>7. /\ e.order = c.order /\ e.tasks = ts /\ e.state[o] = x
      /\ \A i \in 1 .. MaxObjects : i # o => e.state[i] = c.state[i]
  <2>1. e.order = c.order /\ e.tasks = ts /\ e.state = [c.state EXCEPT ![o] = x]
    BY <1>3, <1>4 DEF TasksSet, IsCore
  <2> QED BY <1>4, <2>1
<1>8. Ordered(e)
  <2>1. Runtime!Keys(e) = Runtime!Keys(c)
    BY <1>5 DEF Runtime!Keys
  <2> QED BY <1>7, <2>1 DEF Typed, Ordered
<1>9. IsFiniteSet(c.tasks) /\ Cardinality(ts) = Cardinality(c.tasks) + 1
      /\ Cardinality(c.tasks) \in Nat
  BY <1>2, FS_AddElement, FS_CardinalityType DEF CoreOK
<1>10. BusyAsMany(e)
  <2>1. ASSUME NEW i \in 1 .. MaxObjects
        PROVE  e.state[i].busy = Cardinality(TasksAt(ts, i))
    <3>1. c.state[i].busy = Cardinality(TasksAt(c.tasks, i))
      BY DEF Typed, BusyAsMany
    <3>2. CASE i = o
      <4>1. IsFiniteSet(TasksAt(c.tasks, o)) /\ u \notin TasksAt(c.tasks, o)
        BY <1>2, <1>9, FS_Subset DEF TasksAt
      <4>2. TasksAt(ts, o) = TasksAt(c.tasks, o) \cup {u}
        BY <1>1 DEF TasksAt
      <4>3. Cardinality(TasksAt(ts, o)) = Cardinality(TasksAt(c.tasks, o)) + 1
        BY <4>1, <4>2, FS_AddElement
      <4> QED BY <1>6, <1>7, <3>1, <3>2, <4>3
    <3>3. CASE i # o
      <4>1. TasksAt(ts, i) = TasksAt(c.tasks, i)
        BY <1>1, <3>3 DEF TasksAt
      <4> QED BY <1>7, <3>1, <3>3, <4>1
    <3> QED BY <3>2, <3>3
  <2> QED BY <1>7, <2>1 DEF BusyAsMany
<1>11. Cardinality(e.tasks) <= m + 1 /\ Cardinality(e.tasks) = Cardinality(c.tasks) + 1
  <2>1. Cardinality(c.tasks) <= m
    BY DEF Typed
  <2> QED BY <1>7, <1>9, <2>1
<1> QED BY <1>5, <1>7, <1>8, <1>10, <1>11 DEF Typed

LEMMA ReleaseTyped ==
  ASSUME NEW c, CoreOK(c), NEW t \in c.tasks, NEW m \in Nat, Typed(c, m + 1),
         NEW d, d = Runtime!Release(c, t)
  PROVE  CoreOK(d) /\ Typed(d, m)
<1> DEFINE s == t.session
           o == t.object
           ts == c.tasks \ {t}
           x == Runtime!LessBusy(c.state[o])
           e == [c EXCEPT !.state[o] = x, !.tasks = ts]
<1>1. s \in Runtime!Ids /\ o \in 1 .. MaxObjects /\ c.object[s] = o /\ o # 0 /\ TaskOK(t)
  BY DEF CoreOK, TaskOK
<1>2. d = Runtime!CleanupEnded(e, s, o)
  BY DEF Runtime!Release
<1>3. c.state[o] \in StateTypes /\ c.state \in [1 .. MaxObjects -> StateTypes] /\ IsCore(c)
      /\ c.state[o].busy \in Nat
  BY <1>1, CoreFields DEF CoreOK, StateTypes
<1>4. IsFiniteSet(c.tasks) /\ Cardinality(ts) = Cardinality(c.tasks) - 1
      /\ Cardinality(c.tasks) \in Nat /\ IsFiniteSet(ts)
  BY FS_RemoveElement, FS_CardinalityType DEF CoreOK
<1>5. \A i \in 1 .. MaxObjects : c.state[i].busy = Cardinality(TasksAt(c.tasks, i))
  BY DEF Typed, BusyAsMany
<1>6. /\ IsFiniteSet(TasksAt(c.tasks, o)) /\ TasksAt(ts, o) = TasksAt(c.tasks, o) \ {t}
      /\ Cardinality(TasksAt(ts, o)) = Cardinality(TasksAt(c.tasks, o)) - 1
      /\ Cardinality(TasksAt(ts, o)) \in Nat
  <2>1. IsFiniteSet(TasksAt(c.tasks, o)) /\ t \in TasksAt(c.tasks, o)
    BY <1>4, FS_Subset DEF TasksAt
  <2>2. TasksAt(ts, o) = TasksAt(c.tasks, o) \ {t}
    BY DEF TasksAt
  <2> DEFINE held == TasksAt(c.tasks, o)
             rest == TasksAt(ts, o)
  <2>3. IsFiniteSet(held) /\ t \in held /\ rest = held \ {t}
    BY <2>1, <2>2
  <2> HIDE DEF held, rest, ts, o, s, x, e
  <2>4. IsFiniteSet(held \ {t}) /\ Cardinality(held \ {t}) = Cardinality(held) - 1
    BY <2>3, FS_RemoveElement
  <2>5. Cardinality(rest) \in Nat
    BY <2>3, <2>4, FS_CardinalityType
  <2>6. Cardinality(rest) = Cardinality(held) - 1
    BY <2>3, <2>4
  <2> QED BY <2>3, <2>5, <2>6 DEF held, rest
<1>7. x \in StateTypes /\ x.busy = c.state[o].busy - 1
  <2>1. c.state[o].busy = Cardinality(TasksAt(ts, o)) + 1
    BY <1>1, <1>3, <1>5, <1>6
  <2>2. c.state[o].busy > 0
    BY <1>6, <2>1
  <2> QED BY <1>3, <2>2, StateObjects, StateFields
<1>8. TasksSet(c, o, x, ts, e)
  BY DEF TasksSet
<1> HIDE DEF x, e
<1>9. /\ e.order = c.order /\ e.tasks = ts /\ e.state[o] = x /\ e.object = c.object
      /\ \A i \in 1 .. MaxObjects : i # o => e.state[i] = c.state[i]
  <2>1. e.order = c.order /\ e.tasks = ts /\ e.state = [c.state EXCEPT ![o] = x]
        /\ e.object = c.object
    BY <1>3, <1>8 DEF TasksSet, IsCore
  <2> QED BY <1>1, <1>3, <2>1
<1>10. CoreOK(e)
  <2>1. Cardinality(TasksAt(ts, o)) <= x.busy
    <3>1. c.state[o].busy = Cardinality(TasksAt(c.tasks, o))
      BY <1>1, <1>5
    <3> HIDE DEF ts
    <3> QED BY <1>6, <1>7, <3>1
  <2>2. /\ \A v \in ts : v \in c.tasks \/ (v.session = s /\ v.object = o /\ v.n \in Nat)
        /\ \A v \in c.tasks : v \in ts \/ v.session = s
    OBVIOUS
  <2> HIDE DEF ts, s, o
  <2>3. o = c.object[s]
    BY <1>1
  <2> QED BY <1>1, <1>4, <1>7, <1>8, <2>1, <2>2, <2>3, TasksChange
<1>11. Typed(e, m)
  <2>1. Ordered(e)
    <3>1. Runtime!Keys(e) = Runtime!Keys(c)
      BY <1>9 DEF Runtime!Keys
    <3> QED BY <1>9, <3>1 DEF Typed, Ordered
  <2>2. ASSUME NEW i \in 1 .. MaxObjects PROVE e.state[i].busy = Cardinality(TasksAt(ts, i))
    <3>1. CASE i = o
      BY <1>5, <1>6, <1>7, <1>9, <3>1
    <3>2. CASE i # o
      <4>1. TasksAt(ts, i) = TasksAt(c.tasks, i)
        BY <3>2 DEF TasksAt
      <4> QED BY <1>5, <1>9, <3>2, <4>1
    <3> QED BY <3>1, <3>2
  <2>3. Cardinality(c.tasks) <= m + 1
    BY DEF Typed
  <2>4. Cardinality(e.tasks) <= m
    <3> HIDE DEF ts
    <3> QED BY <1>4, <1>9, <2>3
  <2> QED BY <1>9, <2>1, <2>2, <2>4 DEF Typed, BusyAsMany
<1>12. CoreOK(d)
  BY ReleaseKeeps
<1> QED BY <1>1, <1>2, <1>10, <1>11, <1>12, CleanupTyped

LEMMA TypedMore ==
  ASSUME NEW c, CoreOK(c), NEW m \in Nat, Typed(c, m)
  PROVE  Typed(c, m + 1)
<1>1. Cardinality(c.tasks) \in Nat /\ Cardinality(c.tasks) <= m
  BY FS_CardinalityType DEF CoreOK, Typed
<1>2. Cardinality(c.tasks) <= m + 1
  BY <1>1
<1> QED BY <1>2 DEF Typed

\* A new task while there is room for one.
LEMMA PinInRoom ==
  ASSUME NEW c, CoreOK(c), NEW s \in Runtime!Ids, NEW o, o = c.object[s], o # 0,
         NEW kind, NEW n \in Nat, Typed(c, MaxTasks), c.tasks = tasks, Runtime!Room,
         NEW e, e = Runtime!Pin(c, Runtime!Task(kind, s, o, n))
  PROVE  CoreOK(e) /\ Typed(e, MaxTasks)
<1>1. MaxTasks \in Nat \ {0} /\ IsFiniteSet(c.tasks) /\ Cardinality(c.tasks) \in Nat
  BY AgentsConstants, FS_CardinalityType DEF CoreOK, Runtime!RuntimeConstants
<1>2. Cardinality(c.tasks) < MaxTasks
  BY RuntimeCardinality DEF Runtime!Room
<1> DEFINE m == MaxTasks - 1
<1>3. m \in Nat /\ m + 1 = MaxTasks
  BY <1>1
<1>4. Typed(c, m)
  <2>1. Cardinality(c.tasks) <= m
    BY <1>1, <1>2
  <2> HIDE DEF m
  <2> QED BY <2>1 DEF Typed
<1> HIDE DEF m
<1>5. CoreOK(e) /\ Typed(e, m + 1)
  <2> DEFINE K == c.tasks
  <2>1. \A t \in c.tasks : t.kind = kind => t \in K
    OBVIOUS
  <2>2. IsFiniteSet(K) /\ Cardinality(K) < MaxTasks
    BY <1>1, <1>2
  <2> HIDE DEF K
  <2> QED BY <1>3, <1>4, <2>1, <2>2, PinTyped
<1> QED BY <1>3, <1>5

\* The end of one of the tasks.
LEMMA ReleaseInRoom ==
  ASSUME NEW c, CoreOK(c), NEW t \in c.tasks, Typed(c, MaxTasks) \/ Typed(c, MaxTasks + 1),
         NEW d, d = Runtime!Release(c, t)
  PROVE  CoreOK(d) /\ Typed(d, MaxTasks)
<1>1. MaxTasks \in Nat
  BY AgentsConstants DEF Runtime!RuntimeConstants
<1>2. Typed(c, MaxTasks + 1)
  BY <1>1, TypedMore
<1> QED BY <1>1, <1>2, ReleaseTyped

TypesInv == RuntimeInv /\ Typed(Runtime!Core, MaxTasks)

LEMMA TypesFacts ==
  ASSUME TypesInv
  PROVE  /\ RuntimeInv /\ CoreOK(Runtime!Core) /\ Typed(Runtime!Core, MaxTasks)
         /\ Runtime!Core.tasks = tasks /\ Runtime!Core.admitted = admitted
         /\ Runtime!Core.object = object /\ Runtime!Core.state = state
BY DEF TypesInv, RuntimeInv, Runtime!Core

\* Types of the step to core d.
LEMMA BecomesTyped ==
  ASSUME NEW d, CoreOK(d) /\ Typed(d, MaxTasks), Runtime!Becomes(d)
  PROVE  Typed(Runtime!Core, MaxTasks)'
<1>1. Runtime!Core' = d
  BY BecomesCore
<1> DEFINE m == MaxTasks
<1> HIDE DEF m
<1>2. Typed(Runtime!Core, m)' <=> Typed(d, m)
  BY <1>1 DEF Typed, Ordered, BusyAsMany, Runtime!Keys, TasksAt, m
<1> QED BY <1>2 DEF m

LEMMA UntouchedTyped ==
  ASSUME TypesInv, order' = order, object' = object, state' = state, tasks' = tasks
  PROVE  Typed(Runtime!Core, MaxTasks)'
<1> DEFINE c == Runtime!Core
           d == Runtime!Core'
<1>1. /\ d.object = c.object /\ d.order = c.order /\ d.tasks = c.tasks
      /\ \A o \in 1 .. MaxObjects : d.state[o].busy = c.state[o].busy
  BY DEF Runtime!Core
<1>2. Typed(c, MaxTasks)
  BY DEF TypesInv
<1> HIDE DEF c, d
<1>3. Typed(d, MaxTasks)
  BY <1>1, <1>2, SameTyped
<1> QED BY <1>3 DEF d, Typed, Ordered, BusyAsMany, Runtime!Keys, TasksAt

\* What an operation sets in the core c for session s and its object o.
Sets(c, s, o, e) ==
  \/ e = [c EXCEPT !.state[o] = Runtime!Working(@)]
  \/ e = [c EXCEPT !.state[o] = Runtime!Resting(@)]
  \/ \E n \in Nat : e = [c EXCEPT !.state[o] = Runtime!Counted(@, n)]
  \/ e = [c EXCEPT !.cursor[s] = "clean"]
  \/ \E n \in Nat : \E l : e = [c EXCEPT !.injection[s] = n, !.last = l]
  \/ e = Runtime!Activate(c, s, o)

LEMMA SetTyped ==
  ASSUME NEW c, CoreOK(c), NEW s \in Runtime!Ids, NEW o, o = c.object[s], o # 0,
         NEW m, Typed(c, m), NEW e,
         Sets(c, s, o, e)
  PROVE  CoreOK(e) /\ Typed(e, m) /\ e.object = c.object /\ e.tasks = c.tasks
<1> DEFINE z == c.state[o]
           cur == c.cursor[s]
           inj == c.injection[s]
<1>1. z \in StateTypes /\ cur \in {"none", "clean", "unsent"} /\ inj \in Nat
  BY ObjectTypes
<1>2. ASSUME NEW x \in StateTypes, x.busy = z.busy, NEW cur2 \in {"none", "clean", "unsent"},
             NEW inj2 \in Nat, ObjectSet(c, s, o, x, cur2, inj2, e)
      PROVE  CoreOK(e) /\ Typed(e, m) /\ e.object = c.object /\ e.tasks = c.tasks
  BY <1>2, ObjectTyped
<1>3. CASE e = [c EXCEPT !.state[o] = Runtime!Working(@)]
  <2> DEFINE x == Runtime!Working(z)
  <2>1. ObjectSet(c, s, o, x, cur, inj, e)
    BY <1>3 DEF ObjectSet
  <2> HIDE DEF z
  <2>2. x \in StateTypes
    BY <1>1, StateObjects
  <2>3. x.busy = z.busy
    BY <1>1, StateFields
  <2> HIDE DEF x, cur, inj
  <2> QED BY <1>1, <1>2, <2>1, <2>2, <2>3
<1>4. CASE e = [c EXCEPT !.state[o] = Runtime!Resting(@)]
  <2> DEFINE x == Runtime!Resting(z)
  <2>1. ObjectSet(c, s, o, x, cur, inj, e)
    BY <1>4 DEF ObjectSet
  <2> HIDE DEF z
  <2>2. x \in StateTypes
    BY <1>1, StateObjects
  <2>3. x.busy = z.busy
    BY <1>1, StateFields
  <2> HIDE DEF x, cur, inj
  <2> QED BY <1>1, <1>2, <2>1, <2>2, <2>3
<1>5. ASSUME NEW n \in Nat, e = [c EXCEPT !.state[o] = Runtime!Counted(@, n)]
      PROVE  CoreOK(e) /\ Typed(e, m) /\ e.object = c.object /\ e.tasks = c.tasks
  <2> DEFINE x == Runtime!Counted(z, n)
  <2>1. ObjectSet(c, s, o, x, cur, inj, e)
    BY <1>5 DEF ObjectSet
  <2> HIDE DEF z
  <2>2. x \in StateTypes
    BY <1>1, <1>5, StateObjects
  <2>3. x.busy = z.busy
    BY <1>1, <1>5, StateFields
  <2> HIDE DEF x, cur, inj
  <2> QED BY <1>1, <1>2, <2>1, <2>2, <2>3
<1>6. CASE e = [c EXCEPT !.cursor[s] = "clean"]
  <2> DEFINE cur2 == "clean"
  <2>1. ObjectSet(c, s, o, z, cur2, inj, e) /\ cur2 \in {"none", "clean", "unsent"}
    BY <1>6 DEF ObjectSet
  <2> HIDE DEF z, cur2, inj
  <2> QED BY <1>1, <1>2, <2>1
<1>7. ASSUME NEW n \in Nat, NEW l, e = [c EXCEPT !.injection[s] = n, !.last = l]
      PROVE  CoreOK(e) /\ Typed(e, m) /\ e.object = c.object /\ e.tasks = c.tasks
  <2>1. ObjectSet(c, s, o, z, cur, n, e)
    BY <1>7 DEF ObjectSet
  <2> HIDE DEF z, cur
  <2> QED BY <1>1, <1>2, <2>1
<1>8. CASE e = Runtime!Activate(c, s, o)
  <2> DEFINE x == Runtime!Prompted(z)
             none == 0
  <2>1. ObjectSet(c, s, o, x, cur, none, e)
    BY <1>8 DEF ObjectSet, Runtime!Activate
  <2> HIDE DEF z
  <2>2. x \in StateTypes /\ x.busy = z.busy /\ none \in Nat
    BY <1>1, StateObjects, StateFields
  <2> HIDE DEF x, cur, none
  <2> QED BY <1>1, <1>2, <2>1, <2>2
<1> QED BY <1>3, <1>4, <1>5, <1>6, <1>7, <1>8 DEF Sets

LEMMA DisposeTyped ==
  ASSUME NEW c, CoreOK(c), NEW m, Typed(c, m), NEW ss \in SUBSET Runtime!Ids,
         NEW d, d = Runtime!Dispose(c, ss)
  PROVE  CoreOK(d) /\ Typed(d, m)
<1> DEFINE states == [o \in DOMAIN c.state |->
                        IF \E s \in ss : c.object[s] = o THEN Runtime!Ended(c.state[o])
                        ELSE c.state[o]]
           over == [c EXCEPT !.state = states]
           gone == {s \in ss \cap Runtime!Keys(c) :
                      Runtime!Removable(over, s, c.object[s])}
<1>1. d = Runtime!Remove(over, gone)
  BY DEF Runtime!Dispose
<1>2. /\ c.object \in [Runtime!Ids -> 0 .. MaxObjects] /\ IsCore(c)
      /\ c.state \in [1 .. MaxObjects -> StateTypes] /\ DOMAIN c.state = 1 .. MaxObjects
  BY CoreFields DEF CoreOK
<1>3. /\ states \in [1 .. MaxObjects -> StateTypes]
      /\ \A o \in 1 .. MaxObjects : states[o].busy = c.state[o].busy
  BY <1>2, EndedFields
<1> HIDE DEF states
<1>4. /\ over.object = c.object /\ over.state = states /\ over.tasks = c.tasks
      /\ over.cursor = c.cursor /\ over.injection = c.injection /\ over.admitted = c.admitted
      /\ over = [order |-> over.order, object |-> over.object, state |-> over.state,
                 admitted |-> over.admitted, cursor |-> over.cursor,
                 injection |-> over.injection, last |-> over.last, tasks |-> over.tasks]
  BY <1>2, StatesSet
<1>5. over.order = c.order
  BY <1>2 DEF IsCore
<1> HIDE DEF over
<1>6. IsCore(over)
  BY <1>2, <1>3, <1>4, CoreFields DEF IsCore
<1>7. CoreOK(over)
  BY <1>3, <1>4, <1>6 DEF CoreOK
<1>8. Typed(over, m)
  <2>1. \A o \in 1 .. MaxObjects : over.state[o].busy = c.state[o].busy
    BY <1>3, <1>4
  <2> QED BY <1>4, <1>5, <2>1, SameTyped
<1>9. gone \in SUBSET Runtime!Ids
  BY DEF Runtime!Keys
<1> HIDE DEF gone
<1>10. CoreOK(d)
  BY DisposeKeeps
<1> QED BY <1>1, <1>7, <1>8, <1>9, <1>10, RemoveTyped

LEMMA OnPromptTyped ==
  ASSUME TypesInv, NEW s \in Runtime!Ids, admitted < MaxObjects, prompts'[s] \in Nat,
         NEW empty \in BOOLEAN, Runtime!OnPrompt(s, empty)
  PROVE  Typed(Runtime!Core, MaxTasks)'
<1> DEFINE b == [Runtime!Core EXCEPT !.last = Runtime!None]
           c == Runtime!StateFor(b, s)
           o == c.object[s]
           n == prompts'[s]
           kind == "prompt"
           begun == Runtime!Activate(c, s, o)
           d == IF o = 0 THEN c ELSE IF empty THEN begun
                ELSE Runtime!Pin(begun, Runtime!Task(kind, s, o, n))
<1>1. Runtime!Becomes(d) /\ (o # 0 /\ ~empty => Runtime!Room)
  BY DEF Runtime!OnPrompt
<1>2. CoreOK(b) /\ Typed(b, MaxTasks) /\ b.tasks = tasks /\ b.admitted < MaxObjects
  BY TypesFacts, LastTyped
<1> HIDE DEF b
<1>3. CoreOK(c) /\ Typed(c, MaxTasks) /\ c.tasks = tasks
  BY <1>2, StateForTyped
<1> HIDE DEF c, n, kind
<1>4. CASE o = 0
  BY <1>1, <1>3, <1>4, BecomesTyped
<1>5. CASE o # 0
  <2>1. CoreOK(begun) /\ Typed(begun, MaxTasks) /\ begun.object = c.object /\ begun.tasks = tasks
    <3>1. Sets(c, s, o, begun)
      BY DEF Sets
    <3> HIDE DEF o, begun
    <3> QED BY <1>3, <1>5, <3>1, SetTyped DEF o
  <2> HIDE DEF begun
  <2>2. CASE empty
    BY <1>1, <1>5, <2>1, <2>2, BecomesTyped
  <2>3. CASE ~empty
    <3>1. d = Runtime!Pin(begun, Runtime!Task(kind, s, o, n))
      BY <1>5, <2>3
    <3>2. o = begun.object[s] /\ Runtime!Room /\ n \in Nat
      BY <1>1, <1>5, <2>1, <2>3 DEF n
    <3>3. Runtime!Becomes(d)
      BY <1>1
    <3> HIDE DEF d, o
    <3>4. CoreOK(d) /\ Typed(d, MaxTasks)
      BY <1>5, <2>1, <3>1, <3>2, PinInRoom
    <3> QED BY <3>3, <3>4, BecomesTyped
  <2> QED BY <2>2, <2>3
<1> QED BY <1>4, <1>5

LEMMA UserPromptTyped ==
  ASSUME TypesInv, NEW s \in Runtime!Ids, Runtime!UserPrompt(s)
  PROVE  Typed(Runtime!Core, MaxTasks)'
<1>1. /\ admitted < MaxObjects /\ prompts' = [prompts EXCEPT ![s] = @ + 1]
      /\ \/ Runtime!CoreUnchanged
         \/ \E empty \in BOOLEAN : Runtime!OnPrompt(s, empty)
  BY DEF Runtime!UserPrompt
<1>2. prompts'[s] \in Nat
  <2>1. prompts \in [Runtime!Ids -> Nat]
    BY TypesFacts, SessionFacts
  <2> QED BY <1>1, <2>1
<1> QED BY <1>1, <1>2, OnPromptTyped, UntouchedTyped DEF Runtime!CoreUnchanged

LEMMA StartedPromptTyped ==
  ASSUME TypesInv, NEW s \in Runtime!Ids, Runtime!StartedPrompt(s)
  PROVE  Typed(Runtime!Core, MaxTasks)'
<1>1. admitted < MaxObjects /\ prompts' = prompts /\ Runtime!OnPrompt(s, FALSE)
  BY DEF Runtime!StartedPrompt
<1>2. prompts'[s] \in Nat
  <2>1. prompts \in [Runtime!Ids -> Nat]
    BY TypesFacts, SessionFacts
  <2> QED BY <1>1, <2>1
<1> QED BY <1>1, <1>2, OnPromptTyped

LEMMA PromptEndsTyped ==
  ASSUME TypesInv, NEW t \in tasks, Runtime!PromptEnds(t)
  PROVE  Typed(Runtime!Core, MaxTasks)'
<1> DEFINE b == Runtime!Core
           s == t.session
           o == t.object
           n == t.n
           l == [session |-> t.session, prompt |-> t.n]
           set == [b EXCEPT !.injection[s] = n, !.last = l]
<1>1. PICK denied \in BOOLEAN : Runtime!Becomes(Runtime!Release(IF denied THEN b ELSE set, t))
  BY DEF Runtime!PromptEnds
<1> DEFINE e == IF denied THEN b ELSE set
           d == Runtime!Release(e, t)
<1>2. /\ CoreOK(b) /\ Typed(b, MaxTasks) /\ t \in b.tasks /\ s \in Runtime!Ids
      /\ o = b.object[s] /\ o # 0 /\ n \in Nat
  BY TypesFacts, TaskFacts
<1>3. Sets(b, s, o, set)
  BY <1>2 DEF Sets
<1>4. Runtime!Becomes(d)
  BY <1>1
<1> HIDE DEF b, set, o, s
<1>5. CoreOK(set) /\ Typed(set, MaxTasks) /\ t \in set.tasks
  <2>1. CoreOK(set) /\ Typed(set, MaxTasks) /\ set.tasks = b.tasks
    BY <1>2, <1>3, SetTyped
  <2> QED BY <1>2, <2>1
<1>6. CoreOK(e) /\ Typed(e, MaxTasks) /\ t \in e.tasks
  BY <1>2, <1>5
<1> HIDE DEF e
<1>7. CoreOK(d) /\ Typed(d, MaxTasks)
  BY <1>6, ReleaseInRoom
<1> HIDE DEF d
<1> QED BY <1>4, <1>7, BecomesTyped

LEMMA TransformTyped ==
  ASSUME TypesInv, NEW s \in Runtime!Ids, Runtime!Transform(s)
  PROVE  Typed(Runtime!Core, MaxTasks)'
<1> DEFINE c == Runtime!StateFor(Runtime!Core, s)
           o == c.object[s]
           e == [c EXCEPT !.state[o] = Runtime!Working(@)]
           n == Runtime!Turns(s)
           kind == "retain"
           d == Runtime!Pin(e, Runtime!Task(kind, s, o, n))
<1>1. /\ phase[s] = "transform" /\ admitted < MaxObjects
      /\ Runtime!Becomes(IF o = 0 THEN c ELSE d) /\ (o # 0 => Runtime!Room)
  BY DEF Runtime!Transform
<1>2. n \in Nat
  BY <1>1, TypesFacts, TurnsAreMany
<1>3. CoreOK(c) /\ Typed(c, MaxTasks) /\ c.tasks = tasks
  BY <1>1, TypesFacts, StateForTyped
<1> HIDE DEF c, n, kind
<1>4. CASE o = 0
  BY <1>1, <1>3, <1>4, BecomesTyped
<1>5. CASE o # 0
  <2>1. Sets(c, s, o, e)
    BY DEF Sets
  <2>2. o = c.object[s] /\ Runtime!Becomes(d) /\ Runtime!Room
    BY <1>1, <1>5
  <2> HIDE DEF e, o
  <2>3. CoreOK(e) /\ Typed(e, MaxTasks) /\ e.object = c.object /\ e.tasks = c.tasks
    BY <1>3, <1>5, <2>1, <2>2, SetTyped
  <2>4. o = e.object[s] /\ e.tasks = tasks
    BY <1>3, <2>2, <2>3
  <2>5. CoreOK(d) /\ Typed(d, MaxTasks)
    BY <1>2, <1>5, <2>2, <2>3, <2>4, PinInRoom
  <2> HIDE DEF d
  <2> QED BY <2>2, <2>5, BecomesTyped
<1> QED BY <1>4, <1>5

LEMMA RunEndsTyped ==
  ASSUME TypesInv, NEW s \in Runtime!Ids, Runtime!RunEnds(s)
  PROVE  Typed(Runtime!Core, MaxTasks)'
<1> DEFINE n == Runtime!Turns(s)
           kind == "retain"
<1>1. PICK empty \in BOOLEAN :
        LET c == IF empty THEN Runtime!Core ELSE Runtime!StateFor(Runtime!Core, s)
            o == c.object[s]
            calm == [c EXCEPT !.state[o] = Runtime!Resting(@)]
            t == Runtime!Task(kind, s, o, n)
        IN  /\ o # 0 /\ ~empty => Runtime!Room
            /\ Runtime!Becomes(IF o = 0 THEN c
                               ELSE IF empty THEN Runtime!CleanupEnded(calm, s, o)
                                    ELSE Runtime!Pin(calm, t))
  BY DEF Runtime!RunEnds
<1> DEFINE c == IF empty THEN Runtime!Core ELSE Runtime!StateFor(Runtime!Core, s)
           o == c.object[s]
           calm == [c EXCEPT !.state[o] = Runtime!Resting(@)]
           t == Runtime!Task(kind, s, o, n)
           d == IF o = 0 THEN c
                ELSE IF empty THEN Runtime!CleanupEnded(calm, s, o) ELSE Runtime!Pin(calm, t)
<1>2. host \in {"pi", "cline"} /\ idle[s] > 0 /\ admitted < MaxObjects
  BY DEF Runtime!RunEnds
<1>3. n \in Nat
  BY <1>2, TypesFacts, TurnsAreMany
<1>4. Runtime!Becomes(d) /\ (o # 0 /\ ~empty => Runtime!Room)
  BY <1>1
<1>5. CoreOK(c) /\ Typed(c, MaxTasks) /\ c.tasks = tasks
  <2>1. CASE empty
    BY <2>1, TypesFacts
  <2>2. CASE ~empty
    BY <1>2, <2>2, TypesFacts, StateForTyped
  <2> QED BY <2>1, <2>2
<1> HIDE DEF c, n, kind
<1>6. CASE o = 0
  BY <1>4, <1>5, <1>6, BecomesTyped
<1>7. CASE o # 0
  <2>1. Sets(c, s, o, calm) /\ o = c.object[s]
    BY DEF Sets
  <2> HIDE DEF calm, o
  <2>2. CoreOK(calm) /\ Typed(calm, MaxTasks) /\ calm.object = c.object /\ calm.tasks = c.tasks
    BY <1>5, <1>7, <2>1, SetTyped
  <2>3. CASE empty
    <3>1. d = Runtime!CleanupEnded(calm, s, o)
      BY <1>7, <2>3
    <3> HIDE DEF d
    <3>2. CoreOK(d) /\ Typed(d, MaxTasks)
      <4>1. o = calm.object[s] /\ calm.object[s] # 0
        BY <1>7, <2>1, <2>2
      <4> QED BY <2>2, <3>1, <4>1, CleanupKeeps, CleanupTyped
    <3> QED BY <1>4, <3>2, BecomesTyped
  <2>4. CASE ~empty
    <3>1. d = Runtime!Pin(calm, Runtime!Task(kind, s, o, n)) /\ Runtime!Room
      BY <1>4, <1>7, <2>4
    <3>2. o = calm.object[s] /\ calm.tasks = tasks
      BY <1>5, <2>1, <2>2
    <3> HIDE DEF d
    <3>3. CoreOK(d) /\ Typed(d, MaxTasks)
      BY <1>3, <1>7, <2>2, <3>1, <3>2, PinInRoom
    <3> QED BY <1>4, <3>3, BecomesTyped
  <2> QED BY <2>3, <2>4
<1> QED BY <1>6, <1>7

LEMMA SessionIdleTyped ==
  ASSUME TypesInv, NEW s \in Runtime!Ids, Runtime!SessionIdle(s)
  PROVE  Typed(Runtime!Core, MaxTasks)'
<1> DEFINE c == Runtime!StateFor(Runtime!Core, s)
           o == c.object[s]
           n == c.state[o].generation
           kind == "idle"
           d == Runtime!Pin(c, Runtime!Task(kind, s, o, n))
<1>1. /\ admitted < MaxObjects
      /\ IF Runtime!Eligible(s)
         THEN IF o = 0 THEN Runtime!Becomes(c) ELSE Runtime!Room /\ Runtime!Becomes(d)
         ELSE Runtime!CoreUnchanged
  BY DEF Runtime!SessionIdle
<1>2. CoreOK(c) /\ Typed(c, MaxTasks) /\ c.tasks = tasks
  BY <1>1, TypesFacts, StateForTyped
<1>3. o # 0 => n \in Nat
  <2> HIDE DEF c
  <2>1. o # 0 => c.state[o] \in StateTypes
    BY <1>2, ObjectTypes
  <2> QED BY <2>1 DEF StateTypes
<1> HIDE DEF c, n, kind
<1>4. CASE Runtime!Becomes(c)
  BY <1>2, <1>4, BecomesTyped
<1>5. CASE o # 0 /\ Runtime!Room /\ Runtime!Becomes(d)
  <2>1. o = c.object[s]
    OBVIOUS
  <2> HIDE DEF o
  <2>2. CoreOK(d) /\ Typed(d, MaxTasks)
    BY <1>2, <1>3, <1>5, <2>1, PinInRoom
  <2> HIDE DEF d
  <2> QED BY <1>5, <2>2, BecomesTyped
<1>6. CASE Runtime!CoreUnchanged
  BY <1>6, UntouchedTyped DEF Runtime!CoreUnchanged
<1> QED BY <1>1, <1>4, <1>5, <1>6

LEMMA IdleEndsTyped ==
  ASSUME TypesInv, NEW t \in tasks, Runtime!IdleEnds(t)
  PROVE  Typed(Runtime!Core, MaxTasks)'
<1> DEFINE b == Runtime!Core
           s == t.session
           o == t.object
           kind == "retain"
<1>1. PICK n \in {0, Runtime!Turns(s)} :
        Runtime!Becomes(Runtime!Release(Runtime!Settled(
                          IF n = 0 THEN b ELSE Runtime!Retained(b, t, n), t), t))
  BY DEF Runtime!IdleEnds
<1> DEFINE f == [b EXCEPT !.state[o] = Runtime!Counted(@, n)]
           p == Runtime!Pin(f, Runtime!Task(kind, s, o, n))
           c == IF n = 0 THEN b ELSE Runtime!Retained(b, t, n)
           e == Runtime!Settled(c, t)
           d == Runtime!Release(e, t)
<1>2. /\ CoreOK(b) /\ Typed(b, MaxTasks) /\ t \in b.tasks /\ s \in Runtime!Ids
      /\ o = b.object[s] /\ o # 0 /\ t.kind = "idle"
  BY TypesFacts, TaskFacts DEF Runtime!IdleEnds
<1>3. n \in Int
  <2>1. prompts[s] \in Nat
    BY <1>2, TypesFacts, SessionFacts
  <2> QED BY <2>1 DEF Runtime!Turns
<1>4. Runtime!Becomes(d)
  BY <1>1
<1>5. c = b \/ (~(n <= b.state[o].retained) /\ c = p)
  BY DEF Runtime!Retained
<1> HIDE DEF b
<1>6. Sets(b, s, o, f) \/ n \notin Nat
  BY DEF Sets
<1> HIDE DEF f, kind, s, o
<1>7. /\ CoreOK(c) /\ (Typed(c, MaxTasks) \/ Typed(c, MaxTasks + 1))
      /\ t \in c.tasks /\ c.object = b.object
  <2>1. CASE c = b
    BY <1>2, <2>1
  <2>2. CASE ~(n <= b.state[o].retained) /\ c = p
    <3>1. n \in Nat
      <4>1. b.state[o] \in StateTypes
        BY <1>2, ObjectTypes
      <4>2. b.state[o].retained \in Nat
        BY <4>1 DEF StateTypes
      <4> QED BY <1>3, <2>2, <4>2
    <3>2. CoreOK(f) /\ Typed(f, MaxTasks) /\ f.object = b.object /\ f.tasks = b.tasks
      BY <1>2, <1>6, <3>1, SetTyped
    <3> DEFINE K == f.tasks \ {t}
    <3>3. IsFiniteSet(f.tasks) /\ Cardinality(f.tasks) <= MaxTasks /\ MaxTasks \in Nat /\ t \in f.tasks
      BY <1>2, <3>2, AgentsConstants DEF CoreOK, Typed, Runtime!RuntimeConstants
    <3>4. IsFiniteSet(K) /\ Cardinality(K) < MaxTasks
      <4>1. IsFiniteSet(K) /\ Cardinality(K) = Cardinality(f.tasks) - 1
            /\ Cardinality(f.tasks) \in Nat
        BY <3>3, FS_RemoveElement, FS_CardinalityType
      <4> HIDE DEF K
      <4> QED BY <3>3, <4>1
    <3>5. \A v \in f.tasks : v.kind = kind => v \in K
      BY <1>2 DEF kind
    <3> HIDE DEF K
    <3>6. o = f.object[s] /\ o # 0 /\ s \in Runtime!Ids
      BY <1>2, <3>2
    <3> DEFINE m == MaxTasks
    <3>m. m \in Nat /\ Typed(f, m) /\ m = MaxTasks
      BY <3>2, <3>3
    <3> HIDE DEF m
    <3>p. p = Runtime!Pin(f, Runtime!Task(kind, s, o, n))
      OBVIOUS
    <3> HIDE DEF p
    <3>7. /\ CoreOK(p) /\ Typed(p, m + 1) /\ p.object = f.object /\ f.tasks \subseteq p.tasks
      BY <3>1, <3>2, <3>m, <3>p, <3>4, <3>5, <3>6, PinTyped
    <3> HIDE DEF c
    <3> QED BY <1>2, <2>2, <3>2, <3>m, <3>7
  <2> QED BY <1>5, <2>1, <2>2
<1> HIDE DEF c
<1>8. CoreOK(e) /\ (Typed(e, MaxTasks) \/ Typed(e, MaxTasks + 1)) /\ t \in e.tasks
  <2>1. e = c \/ e = [c EXCEPT !.state[o] = Runtime!Resting(@)]
    BY DEF Runtime!Settled, o
  <2>2. e = c \/ Sets(c, s, o, e)
    BY <2>1 DEF Sets
  <2> HIDE DEF e
  <2>3. o = c.object[s] /\ o # 0 /\ s \in Runtime!Ids
    BY <1>2, <1>7
  <2> DEFINE m == MaxTasks
             more == MaxTasks + 1
  <2>4. m \in Nat /\ more \in Nat
    BY AgentsConstants DEF Runtime!RuntimeConstants
  <2>5. Typed(c, m) \/ Typed(c, more)
    BY <1>7
  <2> HIDE DEF m, more
  <2>6. CASE e = c
    BY <1>7, <2>6
  <2>7. CASE Sets(c, s, o, e)
    <3>1. CoreOK(c)
      BY <1>7
    <3>2. CASE Typed(c, m)
      <4>1. CoreOK(e) /\ Typed(e, m) /\ e.tasks = c.tasks
        BY <2>3, <2>4, <2>7, <3>1, <3>2, SetTyped
      <4> QED BY <1>7, <4>1 DEF m
    <3>3. CASE Typed(c, more)
      <4>1. CoreOK(e) /\ Typed(e, more) /\ e.tasks = c.tasks
        BY <2>3, <2>4, <2>7, <3>1, <3>3, SetTyped
      <4> QED BY <1>7, <4>1 DEF more
    <3> QED BY <2>5, <3>2, <3>3
  <2> QED BY <2>2, <2>6, <2>7
<1> HIDE DEF e
<1>9. CoreOK(d) /\ Typed(d, MaxTasks)
  BY <1>8, ReleaseInRoom
<1> HIDE DEF d
<1> QED BY <1>4, <1>9, BecomesTyped

LEMMA RetainEndsTyped ==
  ASSUME TypesInv, NEW t \in tasks, Runtime!RetainFails(t) \/ Runtime!RetainSucceeds(t)
  PROVE  Typed(Runtime!Core, MaxTasks)'
<1> DEFINE b == Runtime!Core
           s == t.session
           o == t.object
           fails == [b EXCEPT !.state[o] = Runtime!Counted(@, 0)]
           succeeds == [b EXCEPT !.cursor[s] = "clean"]
<1>1. PICK e \in {fails, succeeds} : Runtime!Becomes(Runtime!Release(e, t))
  BY DEF Runtime!RetainFails, Runtime!RetainSucceeds
<1> DEFINE d == Runtime!Release(e, t)
<1>2. /\ CoreOK(b) /\ Typed(b, MaxTasks) /\ t \in b.tasks /\ s \in Runtime!Ids
      /\ o = b.object[s] /\ o # 0
  BY TypesFacts, TaskFacts
<1>3. Sets(b, s, o, e)
  <2>1. Sets(b, s, o, fails)
    <3>1. 0 \in Nat
      OBVIOUS
    <3> QED BY <3>1 DEF Sets
  <2>2. Sets(b, s, o, succeeds)
    BY DEF Sets
  <2> QED BY <1>1, <2>1, <2>2
<1> HIDE DEF b, o, s
<1>4. CoreOK(e) /\ Typed(e, MaxTasks) /\ t \in e.tasks
  <2>1. CoreOK(e) /\ Typed(e, MaxTasks) /\ e.tasks = b.tasks
    BY <1>2, <1>3, SetTyped
  <2> QED BY <1>2, <2>1
<1>5. CoreOK(d) /\ Typed(d, MaxTasks) /\ Runtime!Becomes(d)
  BY <1>1, <1>4, ReleaseInRoom
<1> HIDE DEF d
<1> QED BY <1>5, BecomesTyped

LEMMA EndTyped ==
  ASSUME TypesInv, Runtime!Teardown \/ \E s \in Runtime!Ids : Runtime!Deleted(s)
  PROVE  Typed(Runtime!Core, MaxTasks)'
<1>1. Runtime!CoreUnchanged
      \/ \E ss \in SUBSET Runtime!Ids : Runtime!Becomes(Runtime!Dispose(Runtime!Core, ss))
  BY DEF Runtime!Teardown, Runtime!Deleted
<1>2. ASSUME NEW ss \in SUBSET Runtime!Ids, Runtime!Becomes(Runtime!Dispose(Runtime!Core, ss))
      PROVE  Typed(Runtime!Core, MaxTasks)'
  <2> DEFINE d == Runtime!Dispose(Runtime!Core, ss)
  <2>1. CoreOK(d) /\ Typed(d, MaxTasks) /\ Runtime!Becomes(d)
    BY <1>2, TypesFacts, DisposeTyped
  <2> HIDE DEF d
  <2> QED BY <2>1, BecomesTyped
<1> QED BY <1>1, <1>2, UntouchedTyped DEF Runtime!CoreUnchanged

LEMMA TypesStep ==
  ASSUME TypesInv, Runtime!Next \/ UNCHANGED runtimeVars
  PROVE  TypesInv'
<1>1. RuntimeInv'
  BY RuntimeStep DEF TypesInv
<1>2. CASE UNCHANGED <<order, object, state, tasks>>
  BY <1>1, <1>2, UntouchedTyped DEF TypesInv
<1>3. ASSUME NEW s \in Runtime!Ids,
             \/ Runtime!UserPrompt(s) \/ Runtime!StartedPrompt(s) \/ Runtime!HookBudgetEnds(s)
             \/ Runtime!Inject(s) \/ Runtime!Transform(s) \/ Runtime!Reply(s)
             \/ Runtime!RunEnds(s) \/ Runtime!SessionIdle(s) \/ Runtime!Deleted(s)
      PROVE  Typed(Runtime!Core, MaxTasks)'
  <2>1. CASE Runtime!HookBudgetEnds(s) \/ Runtime!Inject(s) \/ Runtime!Reply(s)
    <3>1. UNCHANGED <<order, object, state, tasks>>
      BY <2>1 DEF Runtime!HookBudgetEnds, Runtime!Inject, Runtime!Reply, Runtime!coreVars
    <3> QED BY <3>1, UntouchedTyped
  <2> QED BY <1>3, <2>1, UserPromptTyped, StartedPromptTyped, TransformTyped, RunEndsTyped,
             SessionIdleTyped, EndTyped
<1>4. ASSUME NEW t \in tasks,
             \/ Runtime!PromptEnds(t) \/ Runtime!IdleEnds(t) \/ Runtime!RetainClaims(t)
             \/ Runtime!RetainFails(t) \/ Runtime!RetainSucceeds(t)
      PROVE  Typed(Runtime!Core, MaxTasks)'
  <2>1. CASE Runtime!RetainClaims(t)
    BY <2>1, UntouchedTyped DEF Runtime!RetainClaims
  <2> QED BY <1>4, <2>1, PromptEndsTyped, IdleEndsTyped, RetainEndsTyped
<1>5. CASE Runtime!SeedIfCold
  BY <1>2, <1>5 DEF Runtime!SeedIfCold, Runtime!coreVars
<1>6. CASE UNCHANGED runtimeVars
  BY <1>2, <1>6 DEF runtimeVars
<1> QED BY <1>1, <1>3, <1>4, <1>5, <1>6, EndTyped DEF Runtime!Next, TypesInv

LEMMA TypesInitially ==
  ASSUME Runtime!Init
  PROVE  TypesInv
<1> DEFINE c == Runtime!Core
<1>1. /\ c.object = [s \in Runtime!Ids |-> 0] /\ c.tasks = {} /\ c.order = {}
      /\ c.state = [o \in 1 .. MaxObjects |-> Runtime!Fresh]
  BY DEF Runtime!Init, Runtime!Core
<1> HIDE DEF c
<1>2. MaxTasks \in Nat /\ MaxSessions \in Nat /\ IsFiniteSet({}) /\ Cardinality({}) = 0
  BY AgentsConstants, FS_EmptySet DEF Runtime!RuntimeConstants
<1>3. Runtime!Keys(c) = {}
  BY <1>1 DEF Runtime!Keys
<1>4. Ordered(c)
  BY <1>1, <1>2, <1>3 DEF Ordered
<1>5. \A o \in 1 .. MaxObjects : TasksAt(c.tasks, o) = {} /\ c.state[o].busy = 0
  BY <1>1 DEF TasksAt, Runtime!Fresh
<1>6. Typed(c, MaxTasks)
  BY <1>1, <1>2, <1>4, <1>5, SMTT(30) DEF Typed, BusyAsMany
<1> QED BY <1>6, RuntimeInitially DEF TypesInv, c

LEMMA RuntimeTypes ==
  ASSUME TypesInv
  PROVE  Runtime!TypeOK
<1>1. /\ CoreOK(Runtime!Core) /\ Typed(Runtime!Core, MaxTasks) /\ Runtime!Core.tasks = tasks
      /\ Runtime!Core.object = object /\ Runtime!Core.state = state
      /\ Runtime!Core.admitted = admitted /\ Runtime!Core.order = order
  BY TypesFacts DEF Runtime!Core
<1>2. Runtime!Cardinality(Runtime!Keys(Runtime!Core)) <= MaxSessions
  BY <1>1, RuntimeCardinality DEF Typed, Ordered
<1>3. \A s \in Runtime!Ids : object[s] \in 0 .. admitted
  <2>1. object \in [Runtime!Ids -> 0 .. MaxObjects] /\ admitted \in 0 .. MaxObjects
        /\ \A s \in Runtime!Ids : object[s] <= admitted
    BY <1>1, CoreFields DEF CoreOK
  <2>2. MaxObjects \in Nat
    BY AgentsConstants DEF Runtime!RuntimeConstants
  <2> QED BY <2>1, <2>2
<1>4. ASSUME NEW o \in DOMAIN state
      PROVE  state[o].busy = Runtime!Cardinality({t \in tasks : t.object = o})
  <2>1. o \in 1 .. MaxObjects
    BY <1>1, CoreFields DEF CoreOK
  <2>2. state[o].busy = Cardinality(TasksAt(tasks, o))
    BY <1>1, <2>1 DEF Typed, BusyAsMany
  <2> QED BY <2>2, RuntimeCardinality DEF TasksAt
<1>5. /\ \A s, r \in Runtime!Keys(Runtime!Core) :
           (<<s, r>> \in order) # (s = r \/ <<r, s>> \in order)
      /\ \A pair \in order : {pair[1], pair[2]} \subseteq Runtime!Keys(Runtime!Core)
  BY <1>1 DEF Typed, Ordered
<1> QED BY <1>2, <1>3, <1>4, <1>5 DEF Runtime!TypeOK

-----------------------------------------------------------------------------
(* The types of the prompt hooks.  No process has seen the cache count more   *)
(* turns than processes were started before it.                               *)

HookTypes(p) ==
  /\ p.kind \in {"none", "start", "prompt", "tool", "claim"}
  /\ p.kind = "prompt" => p.cached.turns < started

HookTypesInv ==
  /\ granted \subseteq Scopes
  /\ started \in 0 .. MaxHooks /\ cache.turns <= started
  /\ \A s \in Slots : HookTypes(hook[s])

LEMMA HookTypesInitially == Prompt!Init => HookTypesInv
<1> SUFFICES ASSUME Prompt!Init PROVE HookTypesInv
  OBVIOUS
<1>1. \A s \in Slots : hook[s].kind = "none"
  BY DEF Prompt!Init, Prompt!Gone
<1>2. started = 0 /\ cache.turns = 0 /\ granted = Scopes
  BY DEF Prompt!Init, Prompt!NoCache
<1> QED BY <1>1, <1>2, AgentsConstants DEF HookTypesInv, HookTypes, Prompt!PromptConstants

\* A process leaves, or becomes one of another kind, and the cache counts no more turns
\* than before, or one more than the process had seen.
LEMMA HookTypesLater ==
  ASSUME BudgetInv, HookTypesInv, granted' \subseteq Scopes, NEW s \in Slots, NEW p,
         hook' = hook \/ hook' = [hook EXCEPT ![s] = p],
         p.kind \in {"none", "start", "prompt", "tool", "claim"},
         p.kind = "prompt" => p.cached = cache /\ started' = started + 1,
         started' = started \/ (started < MaxHooks /\ started' = started + 1),
         \/ cache' = cache \/ cache'.turns = 0
         \/ hook[s].kind = "prompt" /\ cache'.turns = hook[s].cached.turns + 1
  PROVE  HookTypesInv'
<1>1. /\ started \in Nat /\ MaxHooks \in Nat /\ started <= MaxHooks /\ cache.turns \in Nat
      /\ cache.turns <= started /\ DOMAIN hook = Slots
  BY AgentsConstants DEF HookTypesInv, Prompt!PromptConstants, BudgetInv, CacheTypes
<1>2. started' \in 0 .. MaxHooks /\ started' >= started
  BY <1>1
<1>3. \A r \in Slots : hook[r].kind = "prompt" =>
        hook[r].cached.turns \in Nat /\ hook[r].cached.turns < started
  BY DEF HookTypesInv, HookTypes, BudgetInv, PromptOK, CacheTypes
<1>4. cache'.turns <= started'
  BY <1>1, <1>2, <1>3
<1>5. ASSUME NEW r \in Slots PROVE HookTypes(hook[r])'
  <2>1. hook'[r] = hook[r] \/ hook'[r] = p
    BY <1>1
  <2>2. CASE hook'[r] = hook[r]
    <3>1. hook[r].kind = "prompt" => hook[r].cached.turns < started'
      BY <1>1, <1>2, <1>3
    <3> QED BY <2>2, <3>1 DEF HookTypes, HookTypesInv
  <2>3. CASE hook'[r] = p
    <3>1. p.kind = "prompt" => p.cached.turns < started'
      BY <1>1
    <3> QED BY <2>3, <3>1 DEF HookTypes
  <2> QED BY <2>1, <2>2, <2>3
<1> QED BY <1>2, <1>4, <1>5 DEF HookTypesInv

LEMMA HookTypesStep ==
  ASSUME BudgetInv, BlocksInv, HookTypesInv, [Prompt!Next]_promptVars
  PROVE  HookTypesInv'
<1> DEFINE gone == Prompt!Gone
<1>0. gone.kind = "none"
  BY DEF Prompt!Gone
<1>g. granted \subseteq Scopes
  BY DEF HookTypesInv
<1>1. ASSUME NEW s \in Slots, Prompt!Step(s) PROVE HookTypesInv'
  <2>1. ASSUME NEW p, Prompt!Enter(s, p), p.kind \in {"start", "prompt", "tool"},
               p.kind = "prompt" => p.cached = cache,
               granted' = granted, cache' = cache
        PROVE  HookTypesInv'
    <3>1. hook' = [hook EXCEPT ![s] = p] /\ started < MaxHooks /\ started' = started + 1
      BY <2>1 DEF Prompt!Enter
    <3> QED BY <1>g, <2>1, <3>1, HookTypesLater
  <2>2. CASE Prompt!BeginStart(s)
    <3> DEFINE p == [kind |-> "start", scope |-> scope]
    <3>1. Prompt!Enter(s, p) /\ p.kind = "start" /\ granted' = granted /\ cache' = cache
      BY <2>2 DEF Prompt!BeginStart, Prompt!access
    <3> HIDE DEF p
    <3> QED BY <2>1, <3>1
  <2>3. CASE Prompt!BeginPrompt(s)
    <3> DEFINE p == [kind |-> "prompt", scope |-> scope, cached |-> cache, seen |-> tally.writes]
    <3>1. /\ Prompt!Enter(s, p) /\ p.kind = "prompt" /\ p.cached = cache
          /\ granted' = granted /\ cache' = cache
      BY <2>3 DEF Prompt!BeginPrompt, Prompt!access
    <3> HIDE DEF p
    <3> QED BY <2>1, <3>1
  <2>4. CASE Prompt!BeginTool(s)
    <3> DEFINE p == [kind |-> "tool", scope |-> scope]
    <3>1. Prompt!Enter(s, p) /\ p.kind = "tool" /\ granted' = granted /\ cache' = cache
      BY <2>4 DEF Prompt!BeginTool, Prompt!access
    <3> HIDE DEF p
    <3> QED BY <2>1, <3>1
  <2>5. ASSUME NEW p, hook' = [hook EXCEPT ![s] = p], p.kind \in {"none", "claim"},
               started' = started, granted' = granted,
               \/ cache' = cache \/ cache'.turns = 0
               \/ hook[s].kind = "prompt" /\ cache'.turns = hook[s].cached.turns + 1
        PROVE  HookTypesInv'
    BY <1>g, <2>5, HookTypesLater
  <2>6. CASE Prompt!Claim(s) \/ \E answer \in {"ok", "denied", "failed"} : Prompt!EndProbe(s, answer)
    <3>1. \E p : /\ hook' = [hook EXCEPT ![s] = p] /\ p.kind \in {"none", "claim"}
                 /\ started' = started /\ granted' = granted /\ cache' = cache
      <4>1. CASE Prompt!Claim(s)
        BY <4>1 DEF Prompt!Claim, Prompt!Claiming, Prompt!access
      <4>2. CASE \E answer \in {"ok", "denied", "failed"} : Prompt!EndProbe(s, answer)
        BY <4>2 DEF Prompt!EndProbe, Prompt!Claiming, Prompt!access, Prompt!Gone
      <4> QED BY <2>6, <4>1, <4>2
    <3> QED BY <2>5, <3>1
  <2>7. CASE Prompt!Deliver(s) \/ Prompt!Kill(s)
    <3>1. /\ hook' = [hook EXCEPT ![s] = gone]
          /\ started' = started /\ granted' = granted /\ cache' = cache
      BY <2>7 DEF Prompt!Deliver, Prompt!Kill, Prompt!Leave, Prompt!access
    <3> QED BY <1>0, <2>5, <3>1
  <2>8. ASSUME NEW empty \in BOOLEAN, Prompt!EndStart(s, empty) PROVE HookTypesInv'
    <3>1. /\ hook' = [hook EXCEPT ![s] = gone]
          /\ started' = started /\ granted' = granted
          /\ cache' = cache \/ cache'.turns = 0
      BY <2>8 DEF Prompt!EndStart, Prompt!Leave, Prompt!access, Prompt!NoCache
    <3> QED BY <1>0, <2>5, <3>1
  <2>9. ASSUME NEW got, Prompt!EndPrompt(s, got) PROVE HookTypesInv'
    <3>1. /\ hook' = [hook EXCEPT ![s] = gone]
          /\ started' = started /\ granted' = granted
          /\ hook[s].kind = "prompt" /\ cache'.turns = hook[s].cached.turns + 1
      BY <2>9 DEF Prompt!EndPrompt, Prompt!Leave, Prompt!access
    <3> QED BY <1>0, <2>5, <3>1
  <2> QED BY <1>1, <2>2, <2>3, <2>4, <2>6, <2>7, <2>8, <2>9
          DEF Prompt!Step, Prompt!EndPromptBackedUp
<1>2. CASE Prompt!ChangeScope \/ Prompt!Regrant \/ UNCHANGED promptVars
  <2>1. UNCHANGED <<cache, hook, started>>
    BY <1>2 DEF Prompt!ChangeScope, Prompt!Regrant, Prompt!Change, promptVars
  <2>2. granted' \subseteq Scopes
    BY <1>g, <1>2 DEF Prompt!ChangeScope, Prompt!Regrant, promptVars
  <2> QED BY <2>1, <2>2 DEF HookTypesInv, HookTypes
<1> QED BY <1>1, <1>2 DEF Prompt!Next

LEMMA PromptTyped ==
  ASSUME BudgetInv, BlocksInv, HookTypesInv
  PROVE  Prompt!TypeOK
<1>1. cache.turns \in 0 .. MaxHooks /\ cache.attempts \in 0 .. MaxHooks
  <2>1. /\ MaxHooks \in Nat /\ cache.turns \in Nat /\ cache.attempts \in Nat
        /\ cache.attempts <= cache.turns
        /\ started \in 0 .. MaxHooks /\ cache.turns <= started
    BY AgentsConstants DEF BudgetInv, CacheTypes, HookTypesInv, Prompt!PromptConstants, Fits
  <2> QED BY <2>1
<1>2. cache \in [exists : BOOLEAN, turns : 0..MaxHooks, attempts : 0..MaxHooks,
                 answered : BOOLEAN, defer : BOOLEAN]
  BY <1>1 DEF BudgetInv, CacheTypes
<1> QED BY <1>2 DEF BlocksInv, BlockTypes, HookTypesInv, HookTypes, Prompt!TypeOK

LEMMA PromptTypes == Spec => [](part = "prompt" => Prompt!TypeOK)
<1> DEFINE Given == part = "prompt" => BudgetInv /\ BlocksInv
           Inv == part = "prompt" => HookTypesInv
<1>1. Init => Inv
  BY HookTypesInitially DEF Init
<1>2. Given /\ Inv /\ [Next]_all => Inv'
  <2> SUFFICES ASSUME Given, Inv, [Next]_all PROVE Inv'
    OBVIOUS
  <2>1. CASE PromptNext
    BY <2>1, HookTypesStep DEF PromptNext
  <2>2. CASE UNCHANGED <<part, promptVars>>
    BY <2>2, HookTypesStep
  <2> QED BY <2>1, <2>2
          DEF Next, RuntimeNext, FilesNext, WriteBackNext, ReadersNext, SetupNext, all
<1>3. Given /\ Inv => (part = "prompt" => Prompt!TypeOK)
  BY PromptTyped
<1>4. Spec => []Given
  BY PromptAlways
<1> HIDE DEF Given, Inv
<1> QED BY <1>1, <1>2, <1>3, <1>4, PTL DEF Spec

-----------------------------------------------------------------------------
(* The types of the files, the readers and the installer                      *)

\* Every line of the journal but the last has its newline.
LinesEnded(lines) == \A n \in 1 .. (Len(lines) - 1) : lines[n].form \in {"whole", "bad"}

LEMMA JoinedEnded ==
  ASSUME journal \in Seq(Lines), LinesEnded(journal), NEW line \in Lines, NEW terminated \in BOOLEAN
  PROVE  LinesEnded(Files!Joined(line, terminated))
<1> DEFINE n == Len(journal)
<1>0. n \in Nat /\ \A i \in 1 .. n : journal[i] \in Lines
  BY ElementOfSeq
<1>1. CASE Files!Terminated
  <2> DEFINE longer == Append(journal, line)
  <2>1. Files!Joined(line, terminated) = longer
    BY <1>1 DEF Files!Joined
  <2>2. /\ Len(longer) = n + 1 /\ \A i \in 1 .. n : longer[i] = journal[i]
    <3> HIDE DEF Lines
    <3> QED BY AppendProperties
  <2>3. n = 0 \/ journal[n].form \in {"whole", "bad"}
    <3>1. CASE journal = <<>>
      BY <3>1
    <3>2. CASE journal # <<>>
      <4>1. journal[n].form \notin {"bare", "part"} /\ n \in 1 .. n
        BY <1>0, <1>1, <3>2, EmptySeq DEF Files!Terminated, Files!Last
      <4>2. journal[n] \in Lines
        BY <1>0, <4>1
      <4> QED BY <4>1, <4>2 DEF Lines, Forms
    <3> QED BY <3>1, <3>2
  <2> HIDE DEF longer
  <2>4. ASSUME NEW i \in 1 .. n PROVE longer[i].form \in {"whole", "bad"}
    <3>1. CASE i = n
      BY <2>2, <2>3, <3>1
    <3>2. CASE i # n
      <4>1. i \in 1 .. (n - 1)
        BY <1>0, <3>2
      <4> QED BY <2>2, <4>1 DEF LinesEnded
    <3> QED BY <3>1, <3>2
  <2> QED BY <1>0, <2>1, <2>2, <2>4 DEF LinesEnded
<1>2. CASE ~Files!Terminated
  <2>1. n \in 1 .. n /\ journal[n].form \in {"bare", "part"}
    BY <1>0, <1>2, EmptySeq DEF Files!Terminated, Files!Last
  <2>2. CASE terminated
    <3> DEFINE spoilt == [line EXCEPT !.form = IF @ = "whole" THEN "bad" ELSE "part"]
               front == Files!Front(journal)
               longer == Append(front, spoilt)
    <3>1. Files!Joined(line, terminated) = longer
      BY <1>2, <2>2 DEF Files!Joined
    <3>2. front \in Seq(Lines) /\ Len(front) = n - 1 /\ \A i \in 1 .. (n - 1) : front[i] = journal[i]
      <4> HIDE DEF Lines
      <4> QED BY <2>1, SubSeqProperties DEF Files!Front
    <3>3. spoilt \in Lines
      BY DEF Lines, Forms
    <3> HIDE DEF front, spoilt
    <3>4. Len(longer) = n /\ \A i \in 1 .. (n - 1) : longer[i] = front[i]
      <4> HIDE DEF Lines
      <4>1. Len(longer) = Len(front) + 1 /\ \A i \in 1 .. Len(front) : longer[i] = front[i]
        BY <3>2, <3>3, AppendProperties
      <4> QED BY <1>0, <3>2, <4>1
    <3> HIDE DEF longer
    <3> QED BY <3>1, <3>2, <3>4 DEF LinesEnded
  <2>3. CASE ~terminated
    <3> DEFINE mended == [journal[n] EXCEPT !.form = IF @ = "bare" THEN "whole" ELSE "bad"]
               ended == [journal EXCEPT ![n] = mended]
               longer == Append(ended, line)
    <3>1. Files!Joined(line, terminated) = longer
      BY <1>2, <2>1, <2>3 DEF Files!Joined
    <3>2. mended \in Lines /\ mended.form \in {"whole", "bad"}
      <4>1. journal[n] \in Lines
        BY <1>0, <2>1
      <4> QED BY <2>1, <4>1 DEF Lines, Forms
    <3> HIDE DEF mended
    <3>3. /\ ended \in Seq(Lines) /\ Len(ended) = n /\ ended[n] = mended
          /\ \A i \in 1 .. n : i # n => ended[i] = journal[i]
      <4> HIDE DEF Lines
      <4> QED BY <2>1, <3>2, ExceptSeq
    <3> HIDE DEF ended
    <3>4. Len(longer) = n + 1 /\ \A i \in 1 .. n : longer[i] = ended[i]
      <4> HIDE DEF Lines
      <4>1. Len(longer) = Len(ended) + 1 /\ \A i \in 1 .. Len(ended) : longer[i] = ended[i]
        BY <3>3, AppendProperties
      <4> QED BY <3>3, <4>1
    <3> HIDE DEF longer
    <3>5. ASSUME NEW i \in 1 .. n PROVE longer[i].form \in {"whole", "bad"}
      <4>1. CASE i = n
        BY <3>2, <3>3, <3>4, <4>1
      <4>2. CASE i # n
        <5>1. i \in 1 .. (n - 1)
          BY <1>0, <4>2
        <5> QED BY <3>3, <3>4, <4>2, <5>1 DEF LinesEnded
      <4> QED BY <4>1, <4>2
    <3> QED BY <1>0, <3>1, <3>4, <3>5 DEF LinesEnded
  <2> QED BY <2>2, <2>3
<1> QED BY <1>1, <1>2

LEMMA LinesStayEnded ==
  ASSUME FilesInv, LinesEnded(journal), [Files!Next]_fileVars
  PROVE  LinesEnded(journal')
<1>1. CASE UNCHANGED journal
  BY <1>1
<1>2. ASSUME NEW s \in Slots, NEW form \in {"whole", "bare", "part"}, Files!AppendTurn(s, form)
      PROVE  LinesEnded(journal')
  <2> DEFINE line == [turn |-> stopHook[s].turn, form |-> form]
             terminated == stopHook[s].terminated
  <2>1. stopHook[s].point = "appending" /\ stopHook[s] \in Processes
    BY <1>2 DEF Files!AppendTurn, Files!At, FilesInv, FileTypes
  <2>2. line \in Lines /\ terminated \in BOOLEAN
    BY <2>1 DEF Lines, Forms, Processes, Waiting, Files!Gone
  <2>3. journal' = Files!Joined(line, terminated) /\ journal \in Seq(Lines)
    BY <1>2 DEF Files!AppendTurn, FilesInv, FileTypes
  <2> HIDE DEF line, terminated
  <2> QED BY <2>2, <2>3, JoinedEnded
<1> QED BY <1>1, <1>2
        DEF Files!Next, Files!Step, Files!Event, Files!ReadRoot, Files!WriteRoot, Files!ReadTail,
            Files!Kill, fileVars

LEMMA FilesTyped ==
  ASSUME FilesInv, LinesEnded(journal)
  PROVE  Files!TypeOK
<1>1. ASSUME NEW s \in Slots PROVE stopHook[s].point \in Files!Points \cup {"none"}
  <2>1. stopHook[s] \in Processes
    BY DEF FilesInv, FileTypes
  <2> QED BY <2>1 DEF Processes, Waiting, Files!Gone, Files!Points
<1> QED BY <1>1 DEF FilesInv, FileTypes, Lines, Forms, LinesEnded, Files!TypeOK

LEMMA FileTypesAlways == Spec => [](part = "files" => Files!TypeOK)
<1> DEFINE Given == part = "files" => FilesInv
           Inv == part = "files" => LinesEnded(journal)
<1>1. Init => Inv
  BY DEF Init, Files!Init, LinesEnded
<1>2. Given /\ Inv /\ [Next]_all => Inv'
  <2> SUFFICES ASSUME Given, Inv, [Next]_all PROVE Inv'
    OBVIOUS
  <2>1. CASE FilesNext
    BY <2>1, LinesStayEnded DEF FilesNext
  <2>2. CASE UNCHANGED <<part, fileVars>>
    BY <2>2, LinesStayEnded
  <2> QED BY <2>1, <2>2
          DEF Next, RuntimeNext, PromptNext, WriteBackNext, ReadersNext, SetupNext, all
<1>3. Given /\ Inv => (part = "files" => Files!TypeOK)
  BY FilesTyped
<1>4. Spec => []Given
  BY FilesAlways, PTL
<1> HIDE DEF Given, Inv
<1> QED BY <1>1, <1>2, <1>3, <1>4, PTL DEF Spec

-----------------------------------------------------------------------------

Tokens == {"said", "user_query", "/user_query"} \X Nat
SpokenTurns == [role : Readers!Speakers \cup {"action"}, said : Seq(Tokens)]

ReaderTypes ==
  /\ format \in Formats /\ happened \in 0 .. MaxHappenings /\ open \in 0 .. happened
  /\ spoken \in Seq(SpokenTurns)

LEMMA SaidTypes ==
  ASSUME NEW n \in Nat
  PROVE  Readers!Said(n) \in Seq(Tokens) /\ Readers!Quoted(n) \in Seq(Tokens)
<1> DEFINE one == <<<<"said", n>>>>
           begun == <<<<"user_query", 0>>>>
           ended == <<<<"/user_query", 0>>>>
<1>1. one \in Seq(Tokens) /\ begun \in Seq(Tokens) /\ ended \in Seq(Tokens)
  BY DEF Tokens
<1>2. Readers!Said(n) = one /\ Readers!Quoted(n) = one \o ((begun \o one) \o ended)
  BY DEF Readers!Said, Readers!Quoted, Readers!Query
<1> HIDE DEF one, begun, ended, Tokens
<1>3. (begun \o one) \in Seq(Tokens)
  BY <1>1, ConcatProperties
<1>4. ((begun \o one) \o ended) \in Seq(Tokens)
  BY <1>1, <1>3, ConcatProperties
<1>5. (one \o ((begun \o one) \o ended)) \in Seq(Tokens)
  BY <1>1, <1>4, ConcatProperties
<1> QED BY <1>1, <1>2, <1>5

LEMMA HappenedTypes ==
  ASSUME NEW what \in Readers!Happenings, NEW n \in Nat
  PROVE  Readers!Happened(what, n) \in Seq(SpokenTurns)
<1> DEFINE user == Readers!Turn("user", Readers!Said(n))
           quoted == Readers!Turn("user", Readers!Quoted(n))
           assistant == Readers!Turn("assistant", Readers!Said(n))
           action == Readers!Turn("action", Readers!Said(n))
<1>1. user \in SpokenTurns /\ quoted \in SpokenTurns /\ assistant \in SpokenTurns
      /\ action \in SpokenTurns
  BY SaidTypes DEF Readers!Turn, SpokenTurns, Readers!Speakers
<1>2. \/ Readers!Happened(what, n) = <<user>> \/ Readers!Happened(what, n) = <<quoted>>
      \/ Readers!Happened(what, n) = <<assistant>> \/ Readers!Happened(what, n) = <<action>>
      \/ Readers!Happened(what, n) = <<assistant, action, action>>
      \/ Readers!Happened(what, n) = <<>>
  BY DEF Readers!Happened, Readers!Happenings
<1> HIDE DEF user, quoted, assistant, action, SpokenTurns
<1>3. /\ <<user>> \in Seq(SpokenTurns) /\ <<quoted>> \in Seq(SpokenTurns)
      /\ <<assistant>> \in Seq(SpokenTurns) /\ <<action>> \in Seq(SpokenTurns)
      /\ <<assistant, action, action>> \in Seq(SpokenTurns) /\ <<>> \in Seq(SpokenTurns)
  BY <1>1
<1> QED BY <1>2, <1>3

LEMMA HappenTypes ==
  ASSUME ReaderTypes, NEW what \in Readers!Happenings, Readers!Happen(what)
  PROVE  ReaderTypes'
<1> DEFINE n == happened + 1
<1>1. /\ happened \in Nat /\ MaxHappenings \in Nat /\ open \in Nat /\ open <= happened
      /\ happened < MaxHappenings /\ happened' = n
  BY AgentsConstants DEF ReaderTypes, Readers!Happen, Readers!ReadersConstants
<1>2. n \in Nat
  BY <1>1
<1>3. open' \in {n, open, 0}
  BY DEF Readers!Happen
<1>4. spoken' = spoken \o Readers!Happened(what, n) /\ format' = format
  BY DEF Readers!Happen
<1>5. spoken' \in Seq(SpokenTurns)
  <2> HIDE DEF n, SpokenTurns
  <2> QED BY <1>2, <1>4, HappenedTypes, ConcatProperties DEF ReaderTypes
<1> QED BY <1>1, <1>3, <1>4, <1>5 DEF ReaderTypes

LEMMA MoreTypes ==
  ASSUME ReaderTypes, Readers!More
  PROVE  ReaderTypes'
<1> DEFINE n == happened + 1
           more == Readers!Said(n)
<1>1. /\ happened \in Nat /\ MaxHappenings \in Nat /\ open \in Nat /\ open <= happened
      /\ happened < MaxHappenings /\ happened' = n
  <2>1. happened < MaxHappenings /\ happened' = n
    BY DEF Readers!More
  <2>2. MaxHappenings \in Nat
    BY AgentsConstants DEF Readers!ReadersConstants
  <2> QED BY <2>1, <2>2 DEF ReaderTypes
<1>2. open' \in {open, 0} /\ format' = format
  BY DEF Readers!More
<1>3. more \in Seq(Tokens)
  BY <1>1, SaidTypes
<1>4. \E i : spoken' = [spoken EXCEPT ![i].said = @ \o more]
  BY DEF Readers!More
<1> HIDE DEF more
<1>5. PICK i : spoken' = [spoken EXCEPT ![i].said = @ \o more]
  BY <1>4
<1>6. spoken \in Seq(SpokenTurns) /\ Len(spoken) \in Nat /\ DOMAIN spoken = 1 .. Len(spoken)
  BY DEF ReaderTypes
<1>7. DOMAIN spoken' = 1 .. Len(spoken)
  BY <1>5, <1>6
<1>8. ASSUME NEW j \in 1 .. Len(spoken) PROVE spoken'[j] \in SpokenTurns
  <2>1. spoken[j] \in SpokenTurns
    BY <1>6
  <2>2. spoken[j].said \in Seq(Tokens)
    BY <2>1 DEF SpokenTurns
  <2>3. (spoken[j].said \o more) \in Seq(Tokens)
    BY <1>3, <2>2, ConcatProperties
  <2>4. [spoken[j] EXCEPT !.said = @ \o more] \in SpokenTurns
    <3> DEFINE longer == spoken[j].said \o more
    <3> HIDE DEF longer
    <3>1. [spoken[j] EXCEPT !.said = longer] \in SpokenTurns
      BY <2>1, <2>3 DEF SpokenTurns, longer
    <3> QED BY <3>1 DEF longer
  <2>5. spoken'[j] = spoken[j] \/ spoken'[j] = [spoken[j] EXCEPT !.said = @ \o more]
    BY <1>5, <1>6
  <2> QED BY <2>1, <2>4, <2>5
<1>9. spoken' \in Seq(SpokenTurns)
  <2>1. spoken' = [j \in 1 .. Len(spoken) |-> spoken'[j]]
    BY <1>5, <1>7
  <2> HIDE DEF SpokenTurns
  <2>2. spoken' \in [1 .. Len(spoken) -> SpokenTurns]
    BY <1>8, <2>1
  <2> QED BY <1>6, <2>2, IsASeq
<1> QED BY <1>1, <1>2, <1>9 DEF ReaderTypes

LEMMA ReadersTyped ==
  ASSUME ReaderTypes
  PROVE  Readers!TypeOK
<1>1. ASSUME NEW i \in DOMAIN spoken PROVE spoken[i].role \in Readers!Speakers \cup {"action"}
  <2>1. spoken[i] \in SpokenTurns
    BY DEF ReaderTypes
  <2> QED BY <2>1 DEF SpokenTurns
<1>2. happened <= MaxHappenings /\ open <= happened
  BY DEF ReaderTypes
<1> QED BY <1>1, <1>2 DEF ReaderTypes, Readers!TypeOK

LEMMA ReaderTypesAlways == Spec => [](part = "readers" => Readers!TypeOK)
<1> DEFINE Inv == part = "readers" => ReaderTypes
<1>1. Init => Inv
  <2> SUFFICES ASSUME Readers!Init PROVE ReaderTypes
    BY DEF Init
  <2> QED BY AgentsConstants DEF Readers!Init, ReaderTypes, Readers!ReadersConstants
<1>2. Inv /\ [Next]_all => Inv'
  <2> SUFFICES ASSUME Inv, [Next]_all PROVE Inv'
    OBVIOUS
  <2>1. CASE ReadersNext
    <3>1. CASE Readers!Stop
      BY <2>1, <3>1 DEF ReadersNext, Readers!Stop, ReaderTypes
    <3> QED BY <2>1, <3>1, HappenTypes, MoreTypes DEF ReadersNext, Readers!Next
  <2>2. CASE UNCHANGED <<part, readerVars>>
    BY <2>2 DEF readerVars, ReaderTypes
  <2> QED BY <2>1, <2>2
          DEF Next, RuntimeNext, PromptNext, FilesNext, WriteBackNext, SetupNext, all
<1>3. Inv => (part = "readers" => Readers!TypeOK)
  BY ReadersTyped
<1> HIDE DEF Inv
<1> QED BY <1>1, <1>2, <1>3, PTL DEF Spec

-----------------------------------------------------------------------------

SetupCounts ==
  /\ commands \in 0 .. MaxCommands /\ faults \in 0 .. MaxFaults
  /\ result \in {"none", "running", "failing", "committed", "restored", "incomplete", "killed"}

LEMMA CountsStep ==
  ASSUME SetupCounts, [Setup!Next]_machineVars
  PROVE  SetupCounts'
<1>1. /\ commands \in Nat /\ faults \in Nat /\ MaxCommands \in Nat /\ MaxFaults \in Nat
      /\ commands <= MaxCommands /\ faults <= MaxFaults
  BY AgentsConstants DEF SetupCounts, Setup!InstallConstants
<1>2. CASE \/ \E verb \in {"install", "uninstall"}, S \in SUBSET scene : Setup!Begin(verb, S)
           \/ Setup!BeginUpdate
  <2>1. /\ commands < MaxCommands /\ commands' = commands + 1 /\ faults' = faults
        /\ result' = "running"
    BY <1>2 DEF Setup!Begin, Setup!BeginUpdate
  <2> QED BY <1>1, <2>1 DEF SetupCounts
<1>3. CASE Setup!Fail \/ Setup!Killed \/ Setup!PassOver \/ \E stuck \in SUBSET snapshots : Setup!Rollback(stuck)
  <2>1. /\ commands' = commands
        /\ faults' = faults \/ (faults < MaxFaults /\ faults' = faults + 1)
        /\ result' = result \/ result' \in {"failing", "killed", "restored", "incomplete"}
    BY <1>3 DEF Setup!Fail, Setup!Killed, Setup!PassOver, Setup!Rollback
  <2> QED BY <1>1, <2>1 DEF SetupCounts
<1>4. CASE \/ \E h \in remaining : Setup!RunAdapter(h)
           \/ Setup!Write \/ Setup!Commit \/ Setup!Return \/ UNCHANGED machineVars
  <2>1. /\ commands' = commands /\ faults' = faults
        /\ result' = result \/ result' \in {"committed", "none"}
    BY <1>4 DEF Setup!RunAdapter, Setup!Write, Setup!Commit, Setup!Return, machineVars
  <2> QED BY <2>1 DEF SetupCounts
<1> QED BY <1>2, <1>3, <1>4 DEF Setup!Next

PassedOverAreFiles == passedOver \subseteq Setup!Files(scene)

LEMMA PassedOverStep ==
  ASSUME RestoreInv, PassedOverAreFiles, [Setup!Next]_machineVars
  PROVE  PassedOverAreFiles'
<1>1. CASE Setup!PassOver
  <2>1. Head(todo).file \in Setup!Files(scene)
    BY <1>1, NextTodo DEF Setup!PassOver, RestoreInv
  <2> QED BY <1>1, <2>1 DEF Setup!PassOver, PassedOverAreFiles
<1>2. CASE UNCHANGED <<scene, passedOver>>
  BY <1>2 DEF PassedOverAreFiles
<1>3. CASE \/ \E verb \in {"install", "uninstall"}, S \in SUBSET scene : Setup!Begin(verb, S)
           \/ Setup!BeginUpdate \/ \E h \in remaining : Setup!RunAdapter(h)
           \/ Setup!Write \/ Setup!Commit \/ Setup!Fail \/ Setup!Killed \/ Setup!Return
           \/ \E stuck \in SUBSET snapshots : Setup!Rollback(stuck)
           \/ UNCHANGED machineVars
  <2>1. UNCHANGED <<scene, passedOver>>
    BY <1>3 DEF Setup!Begin, Setup!BeginUpdate, Setup!RunAdapter, Setup!Write, Setup!Commit, Setup!Fail,
                Setup!Killed, Setup!Return, Setup!Rollback, machineVars
  <2> QED BY <1>2, <2>1
<1> QED BY <1>1, <1>3 DEF Setup!Next

LEMMA SetupTyped ==
  ASSUME RestoreInv, ContentInv, SetupCounts, PassedOverAreFiles, cli \in BOOLEAN
  PROVE  Setup!TypeOK
<1>1. DOMAIN disk = Setup!Files(scene) /\ snapshots \subseteq DOMAIN disk /\ scene \in Scenes
      /\ passedOver \subseteq DOMAIN disk
  BY DEF RestoreInv, PassedOverAreFiles
<1>2. \A f \in DOMAIN disk : FileOK(f, disk[f])
  BY <1>1 DEF ContentInv, KeptIn, Kept
<1>3. \A f \in DOMAIN disk : disk[f].shape \in Setup!Shapes
  BY <1>1, <1>2 DEF FileOK, Setup!Shapes
<1>4. commands <= MaxCommands /\ faults <= MaxFaults
  BY DEF SetupCounts
<1> QED BY <1>1, <1>3, <1>4 DEF SetupCounts, Setup!TypeOK

LEMMA SetupTypesAlways == Spec => [](part = "setup" => Setup!TypeOK)
<1> DEFINE Given == part = "setup" => RestoreInv /\ ContentInv
           Inv == part = "setup" => SetupCounts /\ PassedOverAreFiles /\ cli \in BOOLEAN
<1>1. Init => Inv
  <2> SUFFICES ASSUME Setup!Init PROVE SetupCounts /\ PassedOverAreFiles /\ cli \in BOOLEAN
    BY DEF Init
  <2>1. commands = 0 /\ faults = 0 /\ result = "none" /\ passedOver = {}
        /\ cli \in (IF Setup!UsesItsCli(scene) THEN BOOLEAN ELSE {TRUE})
    BY DEF Setup!Init
  <2>2. cli \in BOOLEAN
    BY <2>1, Zenon
  <2>3. SetupCounts /\ PassedOverAreFiles
    BY <2>1, AgentsConstants DEF SetupCounts, PassedOverAreFiles, Setup!InstallConstants
  <2> QED BY <2>2, <2>3
<1>2. Given /\ Inv /\ [Next]_all => Inv'
  <2> SUFFICES ASSUME Given, Inv, [Next]_all PROVE Inv'
    OBVIOUS
  <2>1. ASSUME [Setup!Next]_machineVars PROVE cli' = cli
    BY <2>1 DEF Setup!Next, machineVars, Setup!Begin, Setup!BeginUpdate, Setup!RunAdapter, Setup!Write,
                Setup!Commit, Setup!Fail, Setup!PassOver, Setup!Killed, Setup!Return, Setup!Rollback
  <2>2. CASE SetupNext
    BY <2>1, <2>2, CountsStep, PassedOverStep DEF SetupNext
  <2>3. CASE UNCHANGED <<part, machineVars>>
    BY <2>1, <2>3, CountsStep, PassedOverStep
  <2> QED BY <2>2, <2>3
          DEF Next, RuntimeNext, PromptNext, FilesNext, WriteBackNext, ReadersNext, all
<1>3. Given /\ Inv => (part = "setup" => Setup!TypeOK)
  BY SetupTyped
<1>4. Spec => []Given
  BY SetupAlways
<1> HIDE DEF Given, Inv
<1> QED BY <1>1, <1>2, <1>3, <1>4, PTL DEF Spec

-----------------------------------------------------------------------------
(* The types of the write-back, of any number of write-backs under way at a   *)
(* time and whether or not a cursor can be written.  What a cursor buffers    *)
(* are appends of its own bank, and so is what a write-back has to send,      *)
(* unless it is one replacement.                                              *)

OpsFor(b) == WriteBack!OperationsOf({b})
AppendsFor(b) == {op \in OpsFor(b) : op.append}

CursorTyped(c) ==
  c # NoCursor =>
    /\ c \in WriteBack!Cursors /\ Len(c.ops) <= MaxCursorOps
    /\ c.pending \in Seq(AppendsFor(c.bank))

QueueTyped(q, b) ==
  q # <<>> /\ q \in Seq(OpsFor(b)) /\ (Len(q) = 1 \/ q \in Seq(AppendsFor(b)))

WorkTyped(w, point) ==
  point # "idle" =>
    /\ DOMAIN w = {"turns", "bank", "cursor", "append", "ops", "queue", "attempts"}
    /\ w.turns \in Seq(WriteBack!Turns) /\ w.bank \in Banks /\ w.append \in BOOLEAN
    /\ w.ops \in Seq(WriteBack!Operations) /\ Len(w.ops) <= MaxCursorOps
    /\ CursorTyped(w.cursor) /\ (w.cursor # NoCursor => w.cursor.bank = w.bank)
    /\ point = "settle" => w.cursor # NoCursor
    /\ point \in Late => QueueTyped(w.queue, w.bank)

Points == {"idle", "probe", "settle", "plan", "send", "confirm"}
Outcomes == {"running", "completed", "failed"}

SessionTyped ==
  /\ transcript \in Seq(WriteBack!Turns) /\ made \in 0 .. MaxTurns
  /\ bank \in Banks /\ moves \in 0 .. MaxMoves
HooksTyped ==
  /\ CursorTyped(stored) /\ pc \in [Hooks -> Points] /\ work = [h \in Hooks |-> work[h]]
  /\ \A h \in Hooks : WorkTyped(work[h], pc[h])
ServerTyped ==
  /\ document \in [Banks -> Seq(WriteBack!Turns)]
  /\ DOMAIN inbox = Banks /\ \A b \in Banks : inbox[b] \in Seq(OpsFor(b))
  /\ DOMAIN status \subseteq WriteBack!Operations
  /\ \A op \in DOMAIN status : status[op] \in Outcomes
WriteBackTypes == SessionTyped /\ HooksTyped /\ ServerTyped

LEMMA OfMore ==
  ASSUME NEW A, NEW B, A \subseteq B, NEW s \in Seq(A)
  PROVE  s \in Seq(B)
OBVIOUS

LEMMA OperationsTyped ==
  ASSUME NEW b \in Banks
  PROVE  /\ AppendsFor(b) \subseteq OpsFor(b) /\ OpsFor(b) \subseteq WriteBack!Operations
         /\ \A append \in BOOLEAN, content \in Seq(WriteBack!Turns) :
              /\ WriteBack!Operation(b, append, content) \in OpsFor(b)
              /\ append => WriteBack!Operation(b, append, content) \in AppendsFor(b)
         /\ \A op \in OpsFor(b) : op.content \in Seq(WriteBack!Turns) /\ op.append \in BOOLEAN
<1> DEFINE T == Seq(WriteBack!Turns)
<1> HIDE DEF T
<1>1. OpsFor(b) = [bank : {b}, append : BOOLEAN, content : T]
  BY DEF OpsFor, WriteBack!OperationsOf, T
<1>2. WriteBack!Operations = [bank : Banks, append : BOOLEAN, content : T]
  BY DEF WriteBack!Operations, WriteBack!OperationsOf, T
<1>3. \A append \in BOOLEAN, content \in T :
        WriteBack!Operation(b, append, content) \in OpsFor(b)
        /\ WriteBack!Operation(b, append, content).append = append
  BY <1>1 DEF WriteBack!Operation
<1>4. \A op \in OpsFor(b) : op.content \in T /\ op.append \in BOOLEAN
  BY <1>1
<1>5. OpsFor(b) \subseteq WriteBack!Operations
  BY <1>1, <1>2
<1>6. \A append \in BOOLEAN, content \in T :
        append => WriteBack!Operation(b, append, content) \in AppendsFor(b)
  BY <1>3 DEF AppendsFor
<1> QED BY <1>3, <1>4, <1>5, <1>6 DEF AppendsFor, T

LEMMA PositionTyped ==
  ASSUME NEW w, w.turns \in Seq(WriteBack!Turns), w.bank \in Banks, w.append \in BOOLEAN,
         NEW dirty \in BOOLEAN, NEW pending \in Seq(AppendsFor(w.bank)),
         NEW ops \in Seq(WriteBack!Operations), Len(ops) <= MaxCursorOps
  PROVE  CursorTyped(WriteBack!Position(w, dirty, pending, ops))
<1> DEFINE c == WriteBack!Position(w, dirty, pending, ops)
           b == w.bank
           T == Seq(WriteBack!Turns)
           O == Seq(WriteBack!Operations)
<1>1. pending \in O
  <2>1. AppendsFor(b) \subseteq WriteBack!Operations
    BY OperationsTyped
  <2> HIDE DEF b
  <2> QED BY <2>1, OfMore DEF b
<1>2. c = [upto |-> w.turns, bank |-> b, append |-> w.append, dirty |-> dirty,
           pending |-> pending, ops |-> ops]
  BY DEF WriteBack!Position, WriteBack!Cursor
<1> HIDE DEF c
<1>3. c.bank = b /\ c.pending = pending /\ c.ops = ops
  BY <1>2
<1>4. c \in WriteBack!Cursors
  <2> HIDE DEF T, O
  <2>1. WriteBack!Cursors = [upto : T, bank : Banks, append : BOOLEAN, dirty : BOOLEAN,
                             pending : O, ops : O]
    BY DEF WriteBack!Cursors, T, O
  <2> QED BY <1>1, <1>2, <2>1 DEF T, O
<1> QED BY <1>3, <1>4 DEF CursorTyped, c

LEMMA CursorFields ==
  ASSUME NEW c, c # NoCursor, CursorTyped(c)
  PROVE  /\ c.upto \in Seq(WriteBack!Turns) /\ c.bank \in Banks /\ c.append \in BOOLEAN
         /\ c.ops \in Seq(WriteBack!Operations) /\ Len(c.ops) <= MaxCursorOps
         /\ c.pending \in Seq(AppendsFor(c.bank))
         /\ \A lost \in BOOLEAN :
              CursorTyped([c EXCEPT !.dirty = lost]) /\ [c EXCEPT !.dirty = lost].bank = c.bank
<1> DEFINE T == Seq(WriteBack!Turns)
           O == Seq(WriteBack!Operations)
<1> HIDE DEF T, O
<1>1. c \in [upto : T, bank : Banks, append : BOOLEAN, dirty : BOOLEAN, pending : O, ops : O]
  BY DEF CursorTyped, WriteBack!Cursors, T, O
<1>2. ASSUME NEW lost \in BOOLEAN
      PROVE  CursorTyped([c EXCEPT !.dirty = lost]) /\ [c EXCEPT !.dirty = lost].bank = c.bank
  <2> DEFINE d == [c EXCEPT !.dirty = lost]
  <2>1. d \in [upto : T, bank : Banks, append : BOOLEAN, dirty : BOOLEAN, pending : O, ops : O]
        /\ d.bank = c.bank /\ d.pending = c.pending /\ d.ops = c.ops
    BY <1>1
  <2> HIDE DEF d
  <2>2. d \in WriteBack!Cursors
    BY <2>1 DEF WriteBack!Cursors, T, O
  <2>3. CursorTyped(d) /\ d.bank = c.bank
    BY <2>1, <2>2 DEF CursorTyped
  <2> QED BY <2>3 DEF d
<1> QED BY <1>1, <1>2 DEF CursorTyped, T, O

LEMMA SliceTyped ==
  ASSUME NEW S, NEW s \in Seq(S), NEW m \in Nat \ {0}
  PROVE  SubSeq(s, m, Len(s)) \in Seq(S)
<1>1. Len(s) \in Nat /\ \A i \in m .. Len(s) : i \in 1 .. Len(s)
  OBVIOUS
<1>2. \A i \in m .. Len(s) : s[i] \in S
  BY <1>1, ElementOfSeq
<1> QED BY <1>1, <1>2, SubSeqProperties

LEMMA AppendQueueTyped ==
  ASSUME NEW w, w.turns \in Seq(WriteBack!Turns), w.bank \in Banks, w.cursor # NoCursor,
         CursorTyped(w.cursor), w.cursor.bank = w.bank
  PROVE  WriteBack!AppendQueue(w) \in Seq(AppendsFor(w.bank))
<1> DEFINE c == w.cursor
           b == w.bank
           A == AppendsFor(b)
           new == SubSeq(w.turns, Len(c.upto) + 1, Len(w.turns))
           op == WriteBack!Operation(b, TRUE, new)
           rest == IF Len(w.turns) = Len(c.upto) THEN <<>> ELSE <<op>>
<1>1. c.pending \in Seq(A) /\ c.upto \in Seq(WriteBack!Turns)
  BY CursorFields
<1>2. new \in Seq(WriteBack!Turns)
  <2> DEFINE m == Len(c.upto) + 1
             T == WriteBack!Turns
             s == w.turns
  <2>1. m \in Nat \ {0} /\ s \in Seq(T)
    BY <1>1
  <2> HIDE DEF m, T, s
  <2>2. SubSeq(s, m, Len(s)) \in Seq(T)
    BY <2>1, SliceTyped
  <2> QED BY <2>2 DEF m, T, s
<1> HIDE DEF new
<1>3. op \in A
  BY <1>2, OperationsTyped
<1>4. WriteBack!AppendQueue(w) = c.pending \o rest
  BY DEF WriteBack!AppendQueue, new
<1> HIDE DEF op, A
<1>5. rest \in Seq(A)
  BY <1>3
<1> HIDE DEF rest
<1>6. (c.pending \o rest) \in Seq(A)
  BY <1>1, <1>5, ConcatProperties
<1> QED BY <1>4, <1>6 DEF A

\* One write-back goes on, and nothing else changes but the cursor.
LEMMA HookTyped ==
  ASSUME WriteBackTypes, NEW h \in Hooks, NEW w, NEW point \in Points, WorkTyped(w, point),
         pc' = [pc EXCEPT ![h] = point], work' = [work EXCEPT ![h] = w],
         CursorTyped(stored'), UNCHANGED <<transcript, made, bank, moves>>, ServerTyped'
  PROVE  WriteBackTypes'
<1>1. pc' \in [Hooks -> Points] /\ work' = [g \in Hooks |-> work'[g]]
  BY DEF WriteBackTypes, HooksTyped
<1>2. ASSUME NEW g \in Hooks PROVE WorkTyped(work'[g], pc'[g])
  <2>1. CASE g = h
    BY <2>1 DEF WriteBackTypes, HooksTyped
  <2>2. CASE g # h
    <3>1. work'[g] = work[g] /\ pc'[g] = pc[g] /\ WorkTyped(work[g], pc[g])
      BY <2>2 DEF WriteBackTypes, HooksTyped
    <3> QED BY <3>1
  <2> QED BY <2>1, <2>2
<1> QED BY <1>1, <1>2 DEF WriteBackTypes, HooksTyped, SessionTyped

LEMMA ServerStays ==
  ASSUME WriteBackTypes, UNCHANGED <<document, inbox, status>>
  PROVE  ServerTyped'
BY DEF WriteBackTypes, ServerTyped

\* The facts about one write-back.
LEMMA WorkFacts ==
  ASSUME WriteBackTypes, NEW h \in Hooks, pc[h] # "idle"
  PROVE  LET w == work[h] IN
         /\ WorkTyped(w, pc[h])
         /\ DOMAIN w = {"turns", "bank", "cursor", "append", "ops", "queue", "attempts"}
         /\ w.turns \in Seq(WriteBack!Turns) /\ w.bank \in Banks /\ w.append \in BOOLEAN
         /\ w.ops \in Seq(WriteBack!Operations) /\ Len(w.ops) <= MaxCursorOps
         /\ CursorTyped(w.cursor) /\ (w.cursor # NoCursor => w.cursor.bank = w.bank)
BY DEF WriteBackTypes, HooksTyped, WorkTyped

LEMMA IdleTyped ==
  ASSUME WriteBackTypes, NEW h \in Hooks, WriteBack!Finish(h), CursorTyped(stored'),
         UNCHANGED <<transcript, made, bank, moves, document, inbox, status>>
  PROVE  WriteBackTypes'
<1> DEFINE w == WriteBack!Idle
<1>1. /\ WorkTyped(w, "idle") /\ "idle" \in Points
      /\ pc' = [pc EXCEPT ![h] = "idle"] /\ work' = [work EXCEPT ![h] = w]
  BY DEF WorkTyped, Points, WriteBack!Finish, WriteBack!Goto, WriteBack!Set
<1> HIDE DEF w
<1> QED BY <1>1, HookTyped, ServerStays

LEMMA StoredStays == ASSUME WriteBackTypes, UNCHANGED stored PROVE CursorTyped(stored')
BY DEF WriteBackTypes, HooksTyped

LEMMA WrittenTyped ==
  ASSUME WriteBackTypes, NEW c, CursorTyped(c), WriteBack!WriteCursor(c)
  PROVE  CursorTyped(stored')
BY DEF WriteBackTypes, HooksTyped, WriteBack!WriteCursor

LEMMA NothingTyped == ASSUME NEW S PROVE <<>> \in Seq(S) /\ Len(<<>>) = 0
OBVIOUS

LEMMA AfterProbeTyped ==
  ASSUME NEW w
  PROVE  /\ WriteBack!AfterProbe(w) \in {"settle", "plan"}
         /\ WriteBack!AfterProbe(w) = "settle" => w.cursor # NoCursor
BY DEF WriteBack!AfterProbe

LEMMA StartTyped ==
  ASSUME WriteBackTypes, NEW h \in Hooks, WriteBack!Start(h)
  PROVE  WriteBackTypes'
<1> DEFINE c == WriteBack!UsableCursor(bank)
           w == WriteBack!Locals(transcript, bank, c)
           point == IF w.append THEN WriteBack!AfterProbe(w) ELSE "probe"
<1>1. /\ pc' = [pc EXCEPT ![h] = point] /\ work' = [work EXCEPT ![h] = w]
      /\ UNCHANGED <<transcript, made, bank, moves, stored, document, inbox, status>>
  BY DEF WriteBack!Start, WriteBack!Goto, WriteBack!Set, WriteBack!sessionVars,
         WriteBack!serverVars
<1>2. /\ transcript \in Seq(WriteBack!Turns) /\ bank \in Banks /\ CursorTyped(stored)
  BY DEF WriteBackTypes, SessionTyped, HooksTyped
<1>3. c = NoCursor \/ (c = stored /\ c.bank = bank)
  BY DEF WriteBack!UsableCursor
<1>4. CursorTyped(c) /\ (c # NoCursor => c.bank = bank /\ c.append \in BOOLEAN)
  BY <1>2, <1>3, CursorFields DEF CursorTyped
<1> HIDE DEF c
<1>5. /\ DOMAIN w = {"turns", "bank", "cursor", "append", "ops", "queue", "attempts"}
      /\ w.turns = transcript /\ w.bank = bank /\ w.cursor = c /\ w.ops = <<>>
      /\ w.append = (c # NoCursor /\ c.append)
  BY DEF WriteBack!Locals
<1>6. w.append \in BOOLEAN
  BY <1>5
<1> HIDE DEF w
<1>7. point \in {"settle", "plan", "probe"} /\ (point = "settle" => w.cursor # NoCursor)
  BY AfterProbeTyped
<1> HIDE DEF point
<1>8. w.ops \in Seq(WriteBack!Operations) /\ Len(w.ops) <= MaxCursorOps
  BY <1>5, NothingTyped, AgentsConstants DEF WriteBack!WriteBackConstants
<1>9. WorkTyped(w, point) /\ point \in Points
  BY <1>2, <1>4, <1>5, <1>6, <1>7, <1>8 DEF WorkTyped, Late, Points
<1> QED BY <1>1, <1>9, HookTyped, ServerStays, StoredStays

LEMMA ProbeTyped ==
  ASSUME WriteBackTypes, NEW h \in Hooks, WriteBack!Probe(h)
  PROVE  WriteBackTypes'
<1> DEFINE w == work[h]
<1>1. /\ pc[h] = "probe"
      /\ UNCHANGED <<transcript, made, bank, moves, stored, document, inbox, status>>
  BY DEF WriteBack!Probe, WriteBack!At, WriteBack!sessionVars, WriteBack!serverVars
<1>2. PICK answer \in BOOLEAN :
        /\ work' = [work EXCEPT ![h] = [w EXCEPT !.append = answer]]
        /\ pc' = [pc EXCEPT ![h] = WriteBack!AfterProbe([w EXCEPT !.append = answer])]
  BY DEF WriteBack!Probe, WriteBack!Goto, WriteBack!Set
<1> DEFINE v == [w EXCEPT !.append = answer]
           point == WriteBack!AfterProbe(v)
<1>3. /\ DOMAIN w = {"turns", "bank", "cursor", "append", "ops", "queue", "attempts"}
      /\ w.turns \in Seq(WriteBack!Turns) /\ w.bank \in Banks
      /\ w.ops \in Seq(WriteBack!Operations) /\ Len(w.ops) <= MaxCursorOps
      /\ CursorTyped(w.cursor) /\ (w.cursor # NoCursor => w.cursor.bank = w.bank)
  BY <1>1, WorkFacts
<1> HIDE DEF w
<1>4. /\ DOMAIN v = DOMAIN w /\ v.turns = w.turns /\ v.bank = w.bank /\ v.ops = w.ops
      /\ v.cursor = w.cursor /\ v.append = answer
  BY <1>3
<1> HIDE DEF v
<1>5. point \in {"settle", "plan"} /\ (point = "settle" => v.cursor # NoCursor)
  BY AfterProbeTyped
<1>6. work' = [work EXCEPT ![h] = v] /\ pc' = [pc EXCEPT ![h] = point]
  BY <1>2 DEF v
<1> HIDE DEF point
<1>7. WorkTyped(v, point) /\ point \in Points
  BY <1>3, <1>4, <1>5 DEF WorkTyped, Late, Points
<1> QED BY <1>1, <1>6, <1>7, HookTyped, ServerStays, StoredStays

LEMMA SettleTyped ==
  ASSUME WriteBackTypes, NEW h \in Hooks, WriteBack!SettleOps(h)
  PROVE  WriteBackTypes'
<1> DEFINE w == work[h]
           c == w.cursor
           ops == c.ops
<1>1. /\ pc[h] = "settle" /\ pc' = [pc EXCEPT ![h] = "plan"]
      /\ UNCHANGED <<transcript, made, bank, moves, stored, document, inbox, status>>
  BY DEF WriteBack!SettleOps, WriteBack!At, WriteBack!Goto, WriteBack!sessionVars,
         WriteBack!serverVars
<1>2. \E lost \in BOOLEAN : \E these :
        work' = [work EXCEPT ![h] = [w EXCEPT !.cursor = [c EXCEPT !.dirty = lost],
                   !.ops = IF lost THEN <<>> ELSE WriteBack!Among(ops, these)]]
  BY DEF WriteBack!SettleOps, WriteBack!Set
<1>p. PICK lost \in BOOLEAN : \E these :
        work' = [work EXCEPT ![h] = [w EXCEPT !.cursor = [c EXCEPT !.dirty = lost],
                   !.ops = IF lost THEN <<>> ELSE WriteBack!Among(ops, these)]]
  BY <1>2
<1>3. PICK these :
        work' = [work EXCEPT ![h] = [w EXCEPT !.cursor = [c EXCEPT !.dirty = lost],
                   !.ops = IF lost THEN <<>> ELSE WriteBack!Among(ops, these)]]
  BY <1>p
<1> DEFINE d == [c EXCEPT !.dirty = lost]
           kept == IF lost THEN <<>> ELSE WriteBack!Among(ops, these)
           v == [w EXCEPT !.cursor = d, !.ops = kept]
<1>4. /\ DOMAIN w = {"turns", "bank", "cursor", "append", "ops", "queue", "attempts"}
      /\ w.turns \in Seq(WriteBack!Turns) /\ w.bank \in Banks /\ w.append \in BOOLEAN
      /\ CursorTyped(c) /\ c # NoCursor /\ c.bank = w.bank
  BY <1>1, WorkFacts DEF WriteBackTypes, HooksTyped, WorkTyped
<1>5. CursorTyped(d) /\ d.bank = w.bank
  BY <1>4, CursorFields
<1>6. kept \in Seq(WriteBack!Operations) /\ Len(kept) <= MaxCursorOps
  <2> DEFINE O == WriteBack!Operations
  <2>1. ops \in Seq(O) /\ Len(ops) <= MaxCursorOps
    BY <1>4, CursorFields
  <2> HIDE DEF O, ops
  <2>2. /\ WriteBack!Among(ops, these) \in Seq(O)
        /\ Len(WriteBack!Among(ops, these)) <= Len(ops)
    BY <2>1, AmongIs
  <2>3. Len(ops) \in Nat /\ MaxCursorOps \in Nat
    BY <2>1, AgentsConstants DEF WriteBack!WriteBackConstants
  <2> DEFINE few == WriteBack!Among(ops, these)
  <2>4. Len(few) \in Nat
    BY <2>2
  <2> HIDE DEF few
  <2>5. Len(few) <= MaxCursorOps
    BY <2>1, <2>2, <2>3, <2>4 DEF few
  <2> QED BY <2>2, <2>3, <2>5, NothingTyped DEF few, O
<1> HIDE DEF w, d, kept
<1>7. /\ DOMAIN v = DOMAIN w /\ v.turns = w.turns /\ v.bank = w.bank /\ v.ops = kept
      /\ v.cursor = d /\ v.append = w.append
  BY <1>4
<1>8. work' = [work EXCEPT ![h] = v]
  BY <1>3 DEF d, kept
<1> HIDE DEF v
<1>9. WorkTyped(v, "plan") /\ "plan" \in Points
  BY <1>4, <1>5, <1>6, <1>7 DEF WorkTyped, Late, Points
<1> QED BY <1>1, <1>8, <1>9, HookTyped, ServerStays, StoredStays

LEMMA ReplaceTyped ==
  ASSUME WriteBackTypes, NEW h \in Hooks, WriteBack!ReplaceDocument(h)
  PROVE  WriteBackTypes'
<1> DEFINE w == work[h]
           b == w.bank
           op == WriteBack!Operation(b, FALSE, w.turns)
           v == [w EXCEPT !.queue = <<op>>, !.cursor = NoCursor, !.ops = <<>>]
           none == <<>>
           c == WriteBack!Position(w, TRUE, none, none)
<1>1. /\ pc[h] = "plan" /\ pc' = [pc EXCEPT ![h] = "send"] /\ work' = [work EXCEPT ![h] = v]
      /\ WriteBack!WriteCursor(c)
      /\ UNCHANGED <<transcript, made, bank, moves, document, inbox, status>>
  BY DEF WriteBack!ReplaceDocument, WriteBack!At, WriteBack!Goto, WriteBack!Set,
         WriteBack!sessionVars, WriteBack!serverVars
<1>2. /\ DOMAIN w = {"turns", "bank", "cursor", "append", "ops", "queue", "attempts"}
      /\ w.turns \in Seq(WriteBack!Turns) /\ b \in Banks /\ w.append \in BOOLEAN
      /\ w.ops \in Seq(WriteBack!Operations) /\ Len(w.ops) <= MaxCursorOps
      /\ CursorTyped(w.cursor) /\ (w.cursor # NoCursor => w.cursor.bank = b)
  BY <1>1, WorkFacts
<1>3. op \in OpsFor(b)
  BY <1>2, OperationsTyped
<1>3a. /\ none \in Seq(AppendsFor(b)) /\ none \in Seq(WriteBack!Operations)
       /\ Len(none) <= MaxCursorOps
  BY NothingTyped, AgentsConstants DEF WriteBack!WriteBackConstants
<1>4. CursorTyped(c)
  <2> HIDE DEF none, w
  <2> QED BY <1>2, <1>3a, PositionTyped
<1> HIDE DEF w, op, c
<1>5. /\ DOMAIN v = DOMAIN w /\ v.turns = w.turns /\ v.bank = b /\ v.ops = none
      /\ v.cursor = NoCursor /\ v.append = w.append /\ v.queue = <<op>>
  BY <1>2
<1> HIDE DEF v, none
<1>6. QueueTyped(v.queue, b)
  BY <1>3, <1>5 DEF QueueTyped
<1>7. WorkTyped(v, "send") /\ "send" \in Points
  BY <1>2, <1>3a, <1>5, <1>6 DEF WorkTyped, CursorTyped, Points
<1>8. CursorTyped(stored')
  BY <1>1, <1>4, WrittenTyped
<1> QED BY <1>1, <1>7, <1>8, HookTyped, ServerStays

LEMMA AppendTyped ==
  ASSUME WriteBackTypes, NEW h \in Hooks, WriteBack!AppendTurns(h)
  PROVE  WriteBackTypes'
<1> DEFINE w == work[h]
           b == w.bank
           q == WriteBack!AppendQueue(w)
           v == [w EXCEPT !.queue = q, !.cursor = NoCursor]
           c == WriteBack!Position(w, FALSE, q, w.ops)
<1>1. /\ pc[h] = "plan" /\ pc' = [pc EXCEPT ![h] = "send"] /\ work' = [work EXCEPT ![h] = v]
      /\ WriteBack!WriteCursor(c) /\ q # <<>> /\ w.cursor # NoCursor
      /\ UNCHANGED <<transcript, made, bank, moves, document, inbox, status>>
  BY DEF WriteBack!AppendTurns, WriteBack!At, WriteBack!Goto, WriteBack!Set,
         WriteBack!sessionVars, WriteBack!serverVars, WriteBack!Trusted
<1>2. /\ DOMAIN w = {"turns", "bank", "cursor", "append", "ops", "queue", "attempts"}
      /\ w.turns \in Seq(WriteBack!Turns) /\ b \in Banks /\ w.append \in BOOLEAN
      /\ w.ops \in Seq(WriteBack!Operations) /\ Len(w.ops) <= MaxCursorOps
      /\ CursorTyped(w.cursor) /\ (w.cursor # NoCursor => w.cursor.bank = b)
  BY <1>1, WorkFacts
<1> HIDE DEF w
<1>3. q \in Seq(AppendsFor(b))
  BY <1>1, <1>2, AppendQueueTyped
<1> HIDE DEF q
<1>4. CursorTyped(c)
  <2> DEFINE ops == w.ops
  <2>1. ops \in Seq(WriteBack!Operations) /\ Len(ops) <= MaxCursorOps
    BY <1>2
  <2> HIDE DEF ops
  <2>2. CursorTyped(WriteBack!Position(w, FALSE, q, ops))
    BY <1>2, <1>3, <2>1, PositionTyped
  <2> QED BY <2>2 DEF ops
<1> HIDE DEF c
<1>5. /\ DOMAIN v = DOMAIN w /\ v.turns = w.turns /\ v.bank = b /\ v.ops = w.ops
      /\ v.cursor = NoCursor /\ v.append = w.append /\ v.queue = q
  BY <1>2
<1> HIDE DEF v
<1>6. QueueTyped(v.queue, b)
  <2>1. q \in Seq(OpsFor(b))
    <3> HIDE DEF b
    <3>1. AppendsFor(b) \subseteq OpsFor(b)
      BY <1>2, OperationsTyped
    <3> QED BY <1>3, <3>1, OfMore
  <2> QED BY <1>1, <1>3, <1>5, <2>1 DEF QueueTyped
<1>7. WorkTyped(v, "send") /\ "send" \in Points
  BY <1>2, <1>5, <1>6 DEF WorkTyped, CursorTyped, Points
<1>8. CursorTyped(stored')
  BY <1>1, <1>4, WrittenTyped
<1> QED BY <1>1, <1>7, <1>8, HookTyped, ServerStays

\* A write-back that has nothing to send, or gives up.
LEMMA EndsTyped ==
  ASSUME WriteBackTypes, NEW h \in Hooks, WriteBack!Skip(h) \/ WriteBack!GiveUp(h)
  PROVE  WriteBackTypes'
<1>1. /\ WriteBack!Finish(h)
      /\ UNCHANGED <<transcript, made, bank, moves, stored, document, inbox, status>>
  BY DEF WriteBack!Skip, WriteBack!GiveUp, WriteBack!sessionVars, WriteBack!serverVars
<1> QED BY <1>1, IdleTyped, StoredStays

\* The head of what is sent, and what is left.
LEMMA HeadTyped ==
  ASSUME NEW b \in Banks, NEW q, QueueTyped(q, b)
  PROVE  /\ Head(q) \in OpsFor(b) /\ Len(q) \in Nat
         /\ ~Head(q).append => Len(q) = 1
         /\ Head(q).append => q \in Seq(AppendsFor(b)) /\ Tail(q) \in Seq(AppendsFor(b))
<1> DEFINE O == OpsFor(b)
           A == AppendsFor(b)
<1>1. q # <<>> /\ q \in Seq(O) /\ (Len(q) = 1 \/ q \in Seq(A))
  BY DEF QueueTyped
<1>2. \A op \in A : op \in O /\ op.append
  BY DEF AppendsFor
<1>3. \A op \in O : op.append => op \in A
  BY DEF AppendsFor
<1> HIDE DEF O, A
<1>4. Len(q) \in Nat /\ Len(q) # 0 /\ Head(q) = q[1] /\ Head(q) \in O
  BY <1>1
<1>5. CASE q \in Seq(A)
  <2>1. Head(q) \in A
    BY <1>4, <1>5
  <2>2. Tail(q) \in Seq(A)
    BY <1>1, <1>5, HeadTailProperties
  <2> QED BY <1>2, <1>4, <1>5, <2>1, <2>2 DEF A, O
<1>6. CASE Len(q) = 1
  <2> SUFFICES ASSUME Head(q).append PROVE q \in Seq(A)
    BY <1>4, <1>5, <1>6 DEF A, O
  <2>1. q[1] \in A
    BY <1>3, <1>4
  <2>2. \A i \in 1 .. Len(q) : q[i] \in A
    BY <1>6, <2>1
  <2>3. q \in [1 .. Len(q) -> A]
    BY <1>1, <2>2
  <2> QED BY <1>4, <2>3
<1> QED BY <1>1, <1>5, <1>6

\* The facts about a write-back that sends.
LEMMA SendFacts ==
  ASSUME WriteBackTypes, NEW h \in Hooks, pc[h] \in Late
  PROVE  LET w == work[h] IN QueueTyped(w.queue, w.bank)
BY DEF WriteBackTypes, HooksTyped, WorkTyped, Late

\* A request that was answered leaves no attempt behind.
LEMMA AnsweredTyped ==
  ASSUME WriteBackTypes, NEW h \in Hooks, pc[h] = "send"
  PROVE  WorkTyped([work[h] EXCEPT !.attempts = 0], "confirm") /\ "confirm" \in Points
<1> DEFINE w == work[h]
           v == [w EXCEPT !.attempts = 0]
<1>1. WorkTyped(w, "send")
  BY DEF WriteBackTypes, HooksTyped
<1>2. DOMAIN w = {"turns", "bank", "cursor", "append", "ops", "queue", "attempts"}
  BY WorkFacts
<1> HIDE DEF w
<1>3. /\ DOMAIN v = DOMAIN w /\ v.turns = w.turns /\ v.bank = w.bank /\ v.ops = w.ops
      /\ v.cursor = w.cursor /\ v.append = w.append /\ v.queue = w.queue
  BY <1>2
<1> HIDE DEF v
<1>4. WorkTyped(v, "confirm") /\ "confirm" \in Points
  BY <1>1, <1>3 DEF WorkTyped, Late, Points
<1> QED BY <1>4 DEF v, w

LEMMA DeliverTyped ==
  ASSUME WriteBackTypes, NEW h \in Hooks, WriteBack!Deliver(h)
  PROVE  WriteBackTypes'
<1> DEFINE w == work[h]
           b == w.bank
           op == Head(w.queue)
           v == [w EXCEPT !.attempts = 0]
<1>1. /\ pc[h] = "send" /\ pc' = [pc EXCEPT ![h] = "confirm"]
      /\ work' = [work EXCEPT ![h] = v]
      /\ WriteBack!Accept(b, op)
      /\ UNCHANGED <<transcript, made, bank, moves, stored, document>>
  BY DEF WriteBack!Deliver, WriteBack!At, WriteBack!Goto, WriteBack!Set, WriteBack!sessionVars
<1>2. WorkTyped(v, "confirm") /\ "confirm" \in Points
  BY <1>1, AnsweredTyped
<1>3. b \in Banks /\ op \in OpsFor(b)
  <2> DEFINE q == w.queue
  <2>1. b \in Banks /\ QueueTyped(q, b)
    BY <1>1, WorkFacts, SendFacts DEF Late
  <2> HIDE DEF q, b
  <2>2. Head(q) \in OpsFor(b)
    BY <2>1, HeadTyped
  <2> QED BY <2>1, <2>2 DEF q
<1>4. op \in WriteBack!Operations
  BY <1>3, OperationsTyped
<1> HIDE DEF w, b, op, v
<1>5. ServerTyped'
  <2>1. ServerTyped
    BY DEF WriteBackTypes
  <2>2. CASE UNCHANGED <<inbox, status>>
    BY <1>1, <2>1, <2>2 DEF ServerTyped
  <2>3. CASE /\ inbox' = [inbox EXCEPT ![b] = Append(@, op)]
             /\ status' = [o \in DOMAIN status \cup {op} |-> IF o = op THEN "running" ELSE status[o]]
    <3>1. Append(inbox[b], op) \in Seq(OpsFor(b))
      BY <1>3, <2>1, AppendProperties DEF ServerTyped
    <3>2. DOMAIN inbox' = Banks /\ \A a \in Banks : inbox'[a] \in Seq(OpsFor(a))
      BY <1>3, <2>1, <2>3, <3>1 DEF ServerTyped
    <3>3. DOMAIN status' = DOMAIN status \cup {op}
          /\ \A o \in DOMAIN status' : status'[o] = "running" \/ (o \in DOMAIN status /\ status'[o] = status[o])
      BY <2>3
    <3> QED BY <1>1, <1>4, <2>1, <3>2, <3>3 DEF ServerTyped, Outcomes
  <2> QED BY <1>1, <2>2, <2>3 DEF WriteBack!Accept
<1> QED BY <1>1, <1>2, <1>5, HookTyped, StoredStays

LEMMA AnswerTyped ==
  ASSUME WriteBackTypes, NEW h \in Hooks, WriteBack!NotFound(h) \/ WriteBack!RateLimited(h)
  PROVE  WriteBackTypes'
<1> DEFINE w == work[h]
           u == [w EXCEPT !.attempts = 0]
           v == [w EXCEPT !.attempts = @ + 1]
<1>1. /\ pc[h] = "send"
      /\ UNCHANGED <<transcript, made, bank, moves, stored, document, inbox, status>>
      /\ \/ pc' = [pc EXCEPT ![h] = "confirm"] /\ work' = [work EXCEPT ![h] = u]
         \/ pc' = pc /\ work' = [work EXCEPT ![h] = v]
  BY DEF WriteBack!NotFound, WriteBack!RateLimited, WriteBack!At, WriteBack!Goto,
         WriteBack!Set, WriteBack!sessionVars, WriteBack!serverVars
<1>2. WorkTyped(w, "send") /\ "send" \in Points
  BY <1>1 DEF WriteBackTypes, HooksTyped, Points
<1>3. CASE pc' = [pc EXCEPT ![h] = "confirm"] /\ work' = [work EXCEPT ![h] = u]
  <2>1. WorkTyped(u, "confirm") /\ "confirm" \in Points
    BY <1>1, AnsweredTyped
  <2> HIDE DEF u
  <2> QED BY <1>1, <1>3, <2>1, HookTyped, ServerStays, StoredStays
<1>4. CASE pc' = pc /\ work' = [work EXCEPT ![h] = v]
  <2>1. WorkTyped(v, "send")
    <3>1. DOMAIN w = {"turns", "bank", "cursor", "append", "ops", "queue", "attempts"}
      BY <1>1, WorkFacts
    <3> HIDE DEF w
    <3>2. /\ DOMAIN v = DOMAIN w /\ v.turns = w.turns /\ v.bank = w.bank /\ v.ops = w.ops
          /\ v.cursor = w.cursor /\ v.append = w.append /\ v.queue = w.queue
      BY <3>1
    <3> HIDE DEF v
    <3> QED BY <1>2, <3>2 DEF WorkTyped
  <2>2. pc' = [pc EXCEPT ![h] = "send"]
    BY <1>1, <1>4 DEF WriteBackTypes, HooksTyped
  <2> HIDE DEF v
  <2> QED BY <1>1, <1>2, <1>4, <2>1, <2>2, HookTyped, ServerStays, StoredStays
<1> QED BY <1>1, <1>3, <1>4

LEMMA ConfirmReplaceTyped ==
  ASSUME WriteBackTypes, NEW h \in Hooks, WriteBack!ConfirmReplace(h)
  PROVE  WriteBackTypes'
<1> DEFINE w == work[h]
           b == w.bank
           q == w.queue
           none == <<>>
           c == WriteBack!Position(w, FALSE, none, q)
<1>1. /\ pc[h] = "confirm" /\ ~Head(q).append /\ WriteBack!WriteCursor(c) /\ WriteBack!Finish(h)
      /\ UNCHANGED <<transcript, made, bank, moves, document, inbox, status>>
  BY DEF WriteBack!ConfirmReplace, WriteBack!At, WriteBack!sessionVars, WriteBack!serverVars
<1>2. /\ w.turns \in Seq(WriteBack!Turns) /\ b \in Banks /\ w.append \in BOOLEAN
      /\ QueueTyped(q, b)
  BY <1>1, WorkFacts, SendFacts DEF Late
<1> HIDE DEF w, q
<1>3. Len(q) = 1 /\ q \in Seq(OpsFor(b))
  <2> HIDE DEF b
  <2>1. Len(q) = 1
    BY <1>1, <1>2, HeadTyped
  <2> QED BY <1>2, <2>1 DEF QueueTyped
<1>4. q \in Seq(WriteBack!Operations) /\ Len(q) <= MaxCursorOps
  <2>1. OpsFor(b) \subseteq WriteBack!Operations
    BY <1>2, OperationsTyped
  <2>2. q \in Seq(WriteBack!Operations)
    <3> HIDE DEF b
    <3> QED BY <1>3, <2>1, OfMore
  <2> QED BY <1>3, <2>2, AgentsConstants DEF WriteBack!WriteBackConstants
<1>5. none \in Seq(AppendsFor(b))
  OBVIOUS
<1> HIDE DEF none
<1>6. CursorTyped(c)
  BY <1>2, <1>4, <1>5, PositionTyped
<1> HIDE DEF c
<1> QED BY <1>1, <1>6, IdleTyped, WrittenTyped

LEMMA ConfirmAppendTyped ==
  ASSUME WriteBackTypes, NEW h \in Hooks, WriteBack!ConfirmAppend(h)
  PROVE  WriteBackTypes'
<1> DEFINE w == work[h]
           b == w.bank
           q == w.queue
           longer == Append(w.ops, Head(q))
           ops == WriteBack!Tracked(longer)
           rest == Tail(q)
           c == WriteBack!Position(w, FALSE, rest, ops)
           v == [w EXCEPT !.queue = rest, !.ops = ops]
<1>1. /\ pc[h] = "confirm" /\ Head(q).append /\ WriteBack!WriteCursor(c)
      /\ UNCHANGED <<transcript, made, bank, moves, document, inbox, status>>
      /\ \/ WriteBack!Finish(h)
         \/ rest # <<>> /\ work' = [work EXCEPT ![h] = v] /\ pc' = [pc EXCEPT ![h] = "send"]
  BY DEF WriteBack!ConfirmAppend, WriteBack!At, WriteBack!Set, WriteBack!Goto,
         WriteBack!sessionVars, WriteBack!serverVars
<1>2. /\ DOMAIN w = {"turns", "bank", "cursor", "append", "ops", "queue", "attempts"}
      /\ w.turns \in Seq(WriteBack!Turns) /\ b \in Banks /\ w.append \in BOOLEAN
      /\ w.ops \in Seq(WriteBack!Operations)
      /\ CursorTyped(w.cursor) /\ (w.cursor # NoCursor => w.cursor.bank = b)
      /\ QueueTyped(q, b)
  BY <1>1, WorkFacts, SendFacts DEF Late
<1> HIDE DEF w, q
<1>3. /\ Head(q) \in OpsFor(b) /\ rest \in Seq(AppendsFor(b))
      /\ OpsFor(b) \subseteq WriteBack!Operations /\ AppendsFor(b) \subseteq OpsFor(b)
  <2>1. OpsFor(b) \subseteq WriteBack!Operations /\ AppendsFor(b) \subseteq OpsFor(b)
    BY <1>2, OperationsTyped
  <2> HIDE DEF b
  <2> QED BY <1>1, <1>2, <2>1, HeadTyped
<1>4. longer \in Seq(WriteBack!Operations)
  <2> DEFINE O == WriteBack!Operations
             x == Head(q)
             s == w.ops
  <2>1. x \in O /\ s \in Seq(O)
    BY <1>2, <1>3
  <2> HIDE DEF O, x, s
  <2>2. Append(s, x) \in Seq(O)
    BY <2>1, AppendProperties
  <2> QED BY <2>2 DEF O, x, s
<1> HIDE DEF longer, rest
<1>5. ops \in Seq(WriteBack!Operations) /\ Len(ops) <= MaxCursorOps
  <2> DEFINE O == WriteBack!Operations
  <2>1. longer \in Seq(O)
    BY <1>4
  <2> HIDE DEF O
  <2>2. ops \in Seq(O) /\ Len(ops) <= MaxCursorOps
    BY <2>1, TrackedIs
  <2> QED BY <2>2 DEF O
<1> HIDE DEF ops
<1>6. CursorTyped(c)
  BY <1>2, <1>3, <1>5, PositionTyped
<1> HIDE DEF c
<1>7. CursorTyped(stored')
  BY <1>1, <1>6, WrittenTyped
<1>8. CASE WriteBack!Finish(h)
  BY <1>1, <1>7, <1>8, IdleTyped
<1>9. CASE rest # <<>> /\ work' = [work EXCEPT ![h] = v] /\ pc' = [pc EXCEPT ![h] = "send"]
  <2>1. /\ DOMAIN v = DOMAIN w /\ v.turns = w.turns /\ v.bank = b /\ v.ops = ops
        /\ v.cursor = w.cursor /\ v.append = w.append /\ v.queue = rest
    BY <1>2
  <2> HIDE DEF v
  <2>2. QueueTyped(v.queue, b)
    <3> HIDE DEF b
    <3>1. rest \in Seq(OpsFor(b))
      BY <1>3, OfMore
    <3> QED BY <1>3, <1>9, <2>1, <3>1 DEF QueueTyped
  <2>3. WorkTyped(v, "send") /\ "send" \in Points
    BY <1>2, <1>5, <2>1, <2>2 DEF WorkTyped, Points
  <2> QED BY <1>1, <1>7, <1>9, <2>3, HookTyped, ServerStays
<1> QED BY <1>1, <1>8, <1>9

LEMMA PerformTyped ==
  ASSUME WriteBackTypes, NEW b \in Banks, WriteBack!Complete(b) \/ WriteBack!Fail(b)
  PROVE  WriteBackTypes'
<1> DEFINE box == inbox[b]
           op == Head(box)
           doc == WriteBack!Perform(op, document[b])
<1>1. /\ UNCHANGED <<transcript, made, bank, moves, stored, pc, work>>
      /\ box # <<>> /\ inbox' = [inbox EXCEPT ![b] = Tail(box)]
      /\ document' = document \/ document' = [document EXCEPT ![b] = doc]
      /\ status' = [status EXCEPT ![op] = "completed"] \/ status' = [status EXCEPT ![op] = "failed"]
  BY DEF WriteBack!Complete, WriteBack!Fail, WriteBack!sessionVars
<1>2. /\ document \in [Banks -> Seq(WriteBack!Turns)] /\ DOMAIN inbox = Banks
      /\ \A a \in Banks : inbox[a] \in Seq(OpsFor(a))
      /\ DOMAIN status \subseteq WriteBack!Operations
      /\ \A o \in DOMAIN status : status[o] \in Outcomes
  BY DEF WriteBackTypes, ServerTyped
<1>3. op \in OpsFor(b) /\ Tail(box) \in Seq(OpsFor(b))
  <2> DEFINE O == OpsFor(b)
  <2>1. box \in Seq(O) /\ box # <<>>
    BY <1>1, <1>2
  <2> HIDE DEF O, box
  <2>2. Head(box) \in O /\ Tail(box) \in Seq(O)
    BY <2>1, HeadTailProperties
  <2> QED BY <2>2 DEF O
<1>4. doc \in Seq(WriteBack!Turns)
  <2> DEFINE T == WriteBack!Turns
             old == document[b]
             new == op.content
  <2>1. old \in Seq(T) /\ new \in Seq(T)
    BY <1>2, <1>3, OperationsTyped
  <2>2. doc = old \o new \/ doc = new
    BY DEF WriteBack!Perform
  <2> HIDE DEF T, old, new, doc
  <2>3. (old \o new) \in Seq(T)
    BY <2>1, ConcatProperties
  <2> QED BY <2>1, <2>2, <2>3 DEF T
<1> HIDE DEF op, doc
<1> DEFINE S == Seq(WriteBack!Turns)
           others == Tail(box)
<1>5. document' \in [Banks -> S]
  <2> HIDE DEF S
  <2>1. doc \in S /\ document \in [Banks -> S]
    BY <1>2, <1>4 DEF S
  <2> QED BY <1>1, <2>1
<1> HIDE DEF others
<1>6. DOMAIN inbox' = Banks /\ \A a \in Banks : inbox'[a] \in Seq(OpsFor(a))
  <2>1. inbox' = [inbox EXCEPT ![b] = others] /\ others \in Seq(OpsFor(b))
    BY <1>1, <1>3 DEF others
  <2> QED BY <1>2, <2>1
<1>7. DOMAIN status' = DOMAIN status /\ \A o \in DOMAIN status : status'[o] \in Outcomes
  BY <1>1, <1>2 DEF Outcomes
<1>8. ServerTyped'
  BY <1>2, <1>5, <1>6, <1>7 DEF ServerTyped
<1> QED BY <1>1, <1>8 DEF WriteBackTypes, SessionTyped, HooksTyped

LEMMA SessionStepTyped ==
  ASSUME WriteBackTypes,
         WriteBack!WriteTurn \/ WriteBack!Rewrite \/ WriteBack!Move \/ WriteBack!LoseCursor
  PROVE  WriteBackTypes'
<1> DEFINE T == WriteBack!Turns
           new == made + 1
           n == Len(transcript)
<1>1. UNCHANGED <<pc, work, document, inbox, status>>
  BY DEF WriteBack!WriteTurn, WriteBack!Rewrite, WriteBack!Move, WriteBack!LoseCursor,
         WriteBack!serverVars
<1>2. /\ made \in Nat /\ made <= MaxTurns /\ MaxTurns \in Nat /\ MaxMoves \in Nat
      /\ moves \in Nat /\ moves <= MaxMoves /\ transcript \in Seq(T) /\ bank \in Banks
  BY AgentsConstants DEF WriteBackTypes, SessionTyped, WriteBack!WriteBackConstants
<1>3. CursorTyped(stored')
  <2>1. stored' = stored \/ stored' = NoCursor
    BY DEF WriteBack!WriteTurn, WriteBack!Rewrite, WriteBack!Move, WriteBack!LoseCursor,
           WriteBack!sessionVars
  <2> QED BY <2>1 DEF WriteBackTypes, HooksTyped, CursorTyped
<1>4. CASE WriteBack!WriteTurn \/ WriteBack!Rewrite
  <2>1. /\ made < MaxTurns /\ made' = new /\ UNCHANGED <<bank, moves>>
        /\ \/ transcript' = Append(transcript, new)
           \/ \E k \in 1 .. n : transcript' = [transcript EXCEPT ![k] = new]
           \/ \E k \in 1 .. n : transcript' = Append(SubSeq(transcript, 1, k - 1), new)
    BY <1>4 DEF WriteBack!WriteTurn, WriteBack!Rewrite
  <2>2. new \in T /\ new \in 0 .. MaxTurns
    BY <1>2, <2>1 DEF WriteBack!Turns
  <2> HIDE DEF T, new
  <2>3. transcript' \in Seq(T)
    <3>1. CASE transcript' = Append(transcript, new)
      BY <1>2, <2>2, <3>1, AppendProperties
    <3>2. ASSUME NEW k \in 1 .. n, transcript' = [transcript EXCEPT ![k] = new]
          PROVE  transcript' \in Seq(T)
      BY <1>2, <2>2, <3>2, ExceptSeq
    <3>3. ASSUME NEW k \in 1 .. n, transcript' = Append(SubSeq(transcript, 1, k - 1), new)
          PROVE  transcript' \in Seq(T)
      <4> DEFINE kept == SubSeq(transcript, 1, k - 1)
      <4>1. kept \in Seq(T)
        <5>1. n \in Nat /\ \A i \in 1 .. (k - 1) : i \in 1 .. n
          BY <1>2
        <5>2. \A i \in 1 .. (k - 1) : transcript[i] \in T
          BY <1>2, <5>1, ElementOfSeq
        <5> QED BY <1>2, <5>2, SubSeqProperties
      <4> HIDE DEF kept
      <4> QED BY <2>2, <3>3, <4>1, AppendProperties DEF kept
    <3> QED BY <2>1, <3>1, <3>2, <3>3
  <2>4. SessionTyped'
    BY <1>2, <2>1, <2>2, <2>3 DEF SessionTyped, T, WriteBackTypes
  <2> QED BY <1>1, <1>3, <2>4 DEF WriteBackTypes, HooksTyped, ServerTyped
<1>5. CASE WriteBack!Move \/ WriteBack!LoseCursor
  <2>1. /\ UNCHANGED <<transcript, made>> /\ bank' \in Banks
        /\ moves' = moves \/ (moves < MaxMoves /\ moves' = moves + 1)
    BY <1>2, <1>5 DEF WriteBack!Move, WriteBack!LoseCursor, WriteBack!sessionVars
  <2>2. SessionTyped'
    BY <1>2, <2>1 DEF SessionTyped, WriteBackTypes
  <2> QED BY <1>1, <1>3, <2>2 DEF WriteBackTypes, HooksTyped, ServerTyped
<1> QED BY <1>4, <1>5

LEMMA WriteBackTypesInitially == WriteBack!Init => WriteBackTypes
<1> SUFFICES ASSUME WriteBack!Init PROVE WriteBackTypes
  OBVIOUS
<1> DEFINE none == <<>>
           T == WriteBack!Turns
<1>1. /\ transcript = none /\ made = 0 /\ bank \in Banks /\ moves = 0 /\ stored = NoCursor
      /\ pc = [h \in Hooks |-> "idle"] /\ work = [h \in Hooks |-> WriteBack!Idle]
      /\ document = [b \in Banks |-> none] /\ inbox = [b \in Banks |-> none]
      /\ status = none
  BY DEF WriteBack!Init
<1>2. none \in Seq(T) /\ DOMAIN none = {} /\ \A b \in Banks : none \in Seq(OpsFor(b))
  BY NothingHeld
<1>3. MaxTurns \in Nat /\ MaxMoves \in Nat
  BY AgentsConstants DEF WriteBack!WriteBackConstants
<1> HIDE DEF none
<1>4. SessionTyped
  BY <1>1, <1>2, <1>3 DEF SessionTyped
<1>5. HooksTyped
  <2> DEFINE w == WriteBack!Idle
  <2> HIDE DEF w
  <2>1. work = [h \in Hooks |-> work[h]] /\ \A h \in Hooks : pc[h] = "idle"
    BY <1>1
  <2>2. pc \in [Hooks -> Points]
    BY <1>1 DEF Points
  <2> QED BY <1>1, <2>1, <2>2 DEF HooksTyped, CursorTyped, WorkTyped
<1>6. ServerTyped
  <2> DEFINE S == Seq(WriteBack!Turns)
  <2>1. none \in S
    BY <1>2
  <2> HIDE DEF S
  <2>2. document \in [Banks -> S]
    BY <1>1, <2>1
  <2> QED BY <1>1, <1>2, <2>2 DEF ServerTyped, S
<1> QED BY <1>4, <1>5, <1>6 DEF WriteBackTypes

LEMMA WriteBackTypesStep ==
  ASSUME WriteBackTypes, [WriteBack!Next]_writeBackVars
  PROVE  WriteBackTypes'
<1>1. CASE UNCHANGED writeBackVars
  BY <1>1 DEF writeBackVars, WriteBackTypes, SessionTyped, HooksTyped, ServerTyped
<1>2. ASSUME NEW h \in Hooks, WriteBack!WriteBack(h) PROVE WriteBackTypes'
  BY <1>2, StartTyped, ProbeTyped, SettleTyped, ReplaceTyped, AppendTyped, EndsTyped,
     DeliverTyped, AnswerTyped, ConfirmReplaceTyped, ConfirmAppendTyped DEF WriteBack!WriteBack
<1> QED BY <1>1, <1>2, PerformTyped, SessionStepTyped DEF WriteBack!Next

LEMMA WriteBackTyped ==
  ASSUME WriteBackTypes
  PROVE  WriteBack!TypeOK
<1>1. stored \in WriteBack!Cursors \cup {NoCursor}
      /\ (stored # NoCursor => Len(stored.ops) <= MaxCursorOps)
  BY DEF WriteBackTypes, HooksTyped, CursorTyped
<1>2. pc \in [Hooks -> {"idle", "probe", "settle", "plan", "send", "confirm"}]
      /\ DOMAIN work = Hooks
  BY DEF WriteBackTypes, HooksTyped, Points
<1>3. \A b \in Banks : inbox[b] \in Seq(WriteBack!OperationsOf({b}))
  BY DEF WriteBackTypes, ServerTyped, OpsFor
<1>4. \A op \in DOMAIN status : status[op] \in {"running", "completed", "failed"}
  BY DEF WriteBackTypes, ServerTyped, Outcomes
<1> QED BY <1>1, <1>2, <1>3, <1>4
        DEF WriteBackTypes, SessionTyped, ServerTyped, WriteBack!TypeOK

LEMMA WriteBackTypesAlways == Spec => [](part = "writeBack" => WriteBack!TypeOK)
<1> DEFINE Inv == part = "writeBack" => WriteBackTypes
<1>1. Init => Inv
  BY WriteBackTypesInitially DEF Init
<1>2. Inv /\ [Next]_all => Inv'
  <2> SUFFICES ASSUME Inv, [Next]_all PROVE Inv'
    OBVIOUS
  <2>1. CASE WriteBackNext
    BY <2>1, WriteBackTypesStep DEF WriteBackNext
  <2>2. CASE UNCHANGED <<part, writeBackVars>>
    BY <2>2, WriteBackTypesStep
  <2> QED BY <2>1, <2>2
          DEF Next, RuntimeNext, PromptNext, FilesNext, ReadersNext, SetupNext, all
<1>3. Inv => (part = "writeBack" => WriteBack!TypeOK)
  BY WriteBackTyped
<1> HIDE DEF Inv
<1> QED BY <1>1, <1>2, <1>3, PTL DEF Spec

LEMMA RuntimeTypesAlways == Spec => [](part = "runtime" => Runtime!TypeOK)
<1> DEFINE Inv == part = "runtime" => TypesInv
<1>1. Init => Inv
  BY TypesInitially DEF Init
<1>2. Inv /\ [Next]_all => Inv'
  <2> SUFFICES ASSUME Inv, [Next]_all PROVE Inv'
    OBVIOUS
  <2>1. CASE RuntimeNext
    BY <2>1, TypesStep DEF RuntimeNext
  <2>2. CASE UNCHANGED <<part, runtimeVars>>
    BY <2>2, TypesStep
  <2> QED BY <2>1, <2>2
          DEF Next, PromptNext, FilesNext, WriteBackNext, ReadersNext, SetupNext, all
<1>3. Inv => (part = "runtime" => Runtime!TypeOK)
  BY RuntimeTypes
<1> HIDE DEF Inv
<1> QED BY <1>1, <1>2, <1>3, PTL DEF Spec

\* Every part of a coding agent keeps its types.  The runtime holds at most MaxSessions
\* sessions, knows of any two which one was used later, each has an object that was made,
\* and an object's busy counts exactly its tasks in flight; a session's cache counts no
\* more than the hooks that ran; every line of the journal but the last has its newline; a
\* reader has no more open than happened; the installer's files keep their shapes; and a stored cursor
\* has at most MaxCursorOps operations, an inbox only operations for its own bank.
THEOREM AgentsTypes == Spec => []TypeOK
<1> DEFINE Parts == part \in {"runtime", "prompt", "files", "writeBack", "readers", "setup"}
<1>1. Init => Parts
  BY DEF Init
<1>2. Parts /\ [Next]_all => Parts'
  BY DEF Next, RuntimeNext, PromptNext, FilesNext, WriteBackNext, ReadersNext, SetupNext, all
<1>3. Spec => []Parts
  <2> HIDE DEF Parts
  <2> QED BY <1>1, <1>2, PTL DEF Spec
<1>4. ASSUME Parts, part = "runtime" => Runtime!TypeOK, part = "prompt" => Prompt!TypeOK,
             part = "files" => Files!TypeOK, part = "writeBack" => WriteBack!TypeOK,
             part = "readers" => Readers!TypeOK, part = "setup" => Setup!TypeOK
      PROVE  TypeOK
  <2>1. CASE part = "runtime"
    BY <1>4, <2>1 DEF TypeOK
  <2>2. CASE part = "prompt"
    BY <1>4, <2>2 DEF TypeOK
  <2>3. CASE part = "files"
    BY <1>4, <2>3 DEF TypeOK
  <2>4. CASE part = "writeBack"
    BY <1>4, <2>4 DEF TypeOK
  <2>5. CASE part = "readers"
    BY <1>4, <2>5 DEF TypeOK
  <2>6. CASE part = "setup"
    BY <1>4, <2>6 DEF TypeOK
  <2> QED BY <1>4, <2>1, <2>2, <2>3, <2>4, <2>5, <2>6 DEF Parts
<1> HIDE DEF Parts
<1> QED BY <1>3, <1>4, RuntimeTypesAlways, PromptTypes, FileTypesAlways, WriteBackTypesAlways,
           ReaderTypesAlways, SetupTypesAlways, PTL

===============================================================================
