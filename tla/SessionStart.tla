---------------------------- MODULE SessionStart ----------------------------
(***************************************************************************)
(* What the SessionStart hook decides about a repository                   *)
(* (buildSessionStartContext, core/session-start.ts).  The bank is the     *)
(* only state: its documents say whether the repository is new to it, how  *)
(* far it has been surveyed, and whether a survey came to nothing.  Every  *)
(* list is read on its own, may fail, and may be out of date when the      *)
(* decision is taken; sessions of several harnesses start at once.         *)
(***************************************************************************)
EXTENDS Integers, FiniteSets, FiniteSetsExt

CONSTANTS
  Sessions,   \* sessions starting at a time
  MaxCommits, \* bound: commits, the one the repository begins with among them
  Refresh,    \* surveyRefreshCommits
  MaxDeletes, \* bound: times the bank is deleted
  MaxFaults   \* bound: reads, launches, writes and surveys that fail

\* The modules that instantiate this one assume it.
SessionStartConstants == Refresh \in Nat \ {0} /\ MaxCommits \in Nat \ {0}
                               /\ MaxDeletes \in Nat /\ MaxFaults \in Nat

VARIABLES
  gitIngest, \* git documents are written at all (gitIngest # "none")
  docs,      \* [git, findings, other]: documents the bank holds
  markers,   \* commits with a survey-baseline document
  writes,    \* baseline documents being written
  head,      \* the current commit; commits up to "lost" are not behind it
  lost,
  surveying, \* a survey runs (SurveyLease)
  seeded,    \* the engine has been launched
  start,     \* [Sessions -> the hook of the session]
  misread,   \* history: findings were taken for absent since they could not be read
  deletes,   \* number of deletes
  faults     \* number of faults

vars == <<gitIngest, docs, markers, writes, head, lost, surveying, seeded, start, misread,
          deletes, faults>>
bank == <<docs, markers, writes, deletes>>
repo == <<gitIngest, head, lost>>
engine == <<surveying, seeded, misread>>

Unread == {0}   \* commits are numbered from 1
NoDocs == [git |-> FALSE, findings |-> FALSE, other |-> FALSE]
Idle == [point |-> "idle", git |-> FALSE, markers |-> {}, empty |-> FALSE, findings |-> FALSE,
         truth |-> FALSE]

Init ==
  /\ gitIngest \in BOOLEAN /\ docs \in {NoDocs, [NoDocs EXCEPT !.other = TRUE]}
  /\ markers = {} /\ writes = {} /\ head = 1 /\ lost = 0
  /\ surveying = FALSE /\ seeded = FALSE /\ misread = FALSE /\ deletes = 0 /\ faults = 0
  /\ start = [s \in Sessions |-> Idle]

At(s, point) == start[s].point = point
Go(s, hook) == start' = [start EXCEPT ![s] = hook]

Begin(s) == /\ At(s, "idle") /\ Go(s, [Idle EXCEPT !.point = "git"])
            /\ UNCHANGED <<bank, repo, engine>>

\* A server that does not answer: nothing is done, the next session tries again.
ListGit(s, ok) ==
  /\ At(s, "git")
  /\ Go(s, IF ok THEN [start[s] EXCEPT !.point = "markers", !.git = docs.git] ELSE Idle)
  /\ UNCHANGED <<bank, repo, engine>>

\* No git documents and no marker that could be read.
Cold(hook) == ~hook.git /\ hook.markers \in {{}, Unread}
ListMarkers(s, ok) ==
  LET hook == [start[s] EXCEPT !.markers = IF ok THEN markers ELSE Unread] IN
    /\ At(s, "markers")
    /\ Go(s, [hook EXCEPT !.point = IF Cold(hook) THEN "documents" ELSE "uploads"])
    /\ UNCHANGED <<bank, repo, engine>>

\* hasDocuments: a probe that failed proves nothing.
BankEmpty == docs = NoDocs /\ markers = {}
ConfirmedEmpty(ok) == ok /\ BankEmpty
ListDocuments(s, ok) ==
  /\ At(s, "documents")
  /\ Go(s, [start[s] EXCEPT !.point = "decide", !.empty = ConfirmedEmpty(ok)])
  /\ UNCHANGED <<bank, repo, engine>>

ListUploads(s, ok) ==
  /\ At(s, "uploads")
  /\ Go(s, [start[s] EXCEPT !.point = "decide", !.findings = ok /\ docs.findings,
                            !.truth = docs.findings])
  /\ UNCHANGED <<bank, repo, engine>>

\* Commits since each baseline HEAD descends from; an unread list counts as none.
Counts(hook) == {head - c : c \in {m \in hook.markers : m > lost}}
\* Mutant of FindingsAbsent: a baseline counts as a survey that was made.
Mut_FindingsAbsentNever(hook) == FALSE

FindingsAbsent(hook) == Counts(hook) # {} /\ ~hook.findings
SurveyWanted(hook) == \/ Cold(hook)
                      \/ FindingsAbsent(hook)
                      \/ Counts(hook) # {} /\ Min(Counts(hook)) >= Refresh

\* The engine is launched; a survey started if wanted, unless one runs or none
\* can; its baseline, or the first one, is written without waiting.
Decide(s, launched) ==
  LET hook == start[s]
      started == SurveyWanted(hook) /\ launched /\ ~surveying IN
    /\ At(s, "decide") /\ Go(s, Idle)
    /\ seeded' = TRUE
    /\ surveying' = (surveying \/ started)
    /\ writes' = IF started \/ (~SurveyWanted(hook) /\ Counts(hook) = {})
                 THEN writes \cup {head} ELSE writes
    /\ misread' = (misread \/ (started /\ ~Cold(hook) /\ FindingsAbsent(hook) /\ hook.truth))
    /\ UNCHANGED <<docs, markers, deletes, repo>>

-----------------------------------------------------------------------------
(* Around the hook *)

WriteBaseline(c, ok) == /\ c \in writes /\ writes' = writes \ {c}
                        /\ markers' = IF ok THEN markers \cup {c} ELSE markers
                        /\ UNCHANGED <<docs, deletes, repo, engine, start>>

\* The survey's agent ingests its findings, or dies before.
SurveyEnds(found) == /\ surveying /\ surveying' = FALSE
                     /\ docs' = [docs EXCEPT !.findings = @ \/ found]
                     /\ UNCHANGED <<markers, writes, deletes, repo, seeded, misread, start>>

\* The engine writes the history; a session retains a conversation.
Ingest == /\ \/ seeded /\ gitIngest /\ docs' = [docs EXCEPT !.git = TRUE]
             \/ docs' = [docs EXCEPT !.other = TRUE]
          /\ docs' # docs
          /\ UNCHANGED <<markers, writes, deletes, repo, engine, start>>

\* A commit, after which the earlier ones may not be ancestors of HEAD.
Commit(rewritten) == /\ head < MaxCommits /\ head' = head + 1
                     /\ lost' = IF rewritten THEN head ELSE lost
                     /\ UNCHANGED <<gitIngest, bank, engine, start>>

DeleteBank == /\ deletes < MaxDeletes /\ deletes' = deletes + 1
              /\ docs' = NoDocs /\ markers' = {}
              /\ UNCHANGED <<writes, repo, engine, start>>

\* What may fail fails a bounded number of times.
Hook(s, ok) == \/ ok /\ Begin(s)
               \/ ListGit(s, ok) \/ ListMarkers(s, ok) \/ ListDocuments(s, ok)
               \/ ListUploads(s, ok) \/ Decide(s, ok)
Fallible(ok) == \/ \E s \in Sessions : Hook(s, ok)
                \/ \E c \in writes : WriteBaseline(c, ok)
                \/ SurveyEnds(ok)
Next == \/ Fallible(TRUE) /\ UNCHANGED faults
        \/ Fallible(FALSE) /\ faults < MaxFaults /\ faults' = faults + 1
        \/ UNCHANGED faults /\ (Ingest \/ DeleteBank \/ \E rewritten \in BOOLEAN : Commit(rewritten))

\* A harness goes on starting sessions, each runs to its end, and so do the
\* writes and the surveys.
Fairness == /\ \A s \in Sessions : WF_vars(Hook(s, TRUE) /\ UNCHANGED faults)
            /\ \A c \in 1..MaxCommits : WF_vars(WriteBaseline(c, TRUE) /\ UNCHANGED faults)
            /\ WF_vars(SurveyEnds(TRUE) /\ UNCHANGED faults)
Spec == Init /\ [][Next]_vars /\ Fairness

-----------------------------------------------------------------------------
(* Properties *)

\* Types of the bank, the repository and the hooks.
TypeOK ==
  /\ docs \in [git : BOOLEAN, findings : BOOLEAN, other : BOOLEAN]
  /\ markers \subseteq 1..MaxCommits /\ writes \subseteq 1..MaxCommits
  /\ head \in 1..MaxCommits /\ lost \in 0..MaxCommits
  /\ \A s \in Sessions : start[s].point \in {"idle", "git", "markers", "documents", "uploads", "decide"}

\* A survey that came to nothing is not the end: whatever markers it left
\* behind, the bank has findings at last and keeps them.
SurveyRetried == <>[](docs.findings)

\* A survey is run again for want of findings only if there are none.
RetriedSurveyDied == ~misread
=============================================================================
