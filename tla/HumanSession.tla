---------------------------- MODULE HumanSession ----------------------------
(***************************************************************************)
(* Human sessions of the coding agents (src/coding-agents/human-login.ts,  *)
(* human-session.ts, runtime.ts): login and sign-out commands, each a      *)
(* process of its own, and an agent process whose transport reads the      *)
(* session anew from the operating system's secure store for each request. *)
(*                                                                         *)
(* A session is the number of its token, in the order the router issues    *)
(* them; the owner of a token is the principal that signed in.             *)
(***************************************************************************)
EXTENDS RouterTransport, Sequences

CONSTANTS
  Logins,     \* login commands
  SignOuts,   \* sign-out commands
  Requests,   \* requests of the agent process
  Principals, \* principals a browser may sign in
  NoOne

HumanConstants == NoOne \notin Principals

VARIABLES
  stored,   \* token in the secure store
  owner,    \* owner[n]: principal of the n-th token, as issued
  live,     \* tokens the router accepts
  login,    \* [Logins -> state of the command]
  signOut,  \* [SignOuts -> state of the command]
  latch,    \* denied token of the agent's transport
  session,  \* session last read by the agent
  request,  \* [Requests -> state of the request]
  denied   \* history: tokens the router denied to the agent

vars == <<stored, owner, live, login, signOut, latch, session, request, denied>>
agent == <<latch, session, request, denied>>

Issued == 1..Len(owner)

\* "promise" is what the callback of the browser or the timer settled first;
\* "consumed" that the callback server has taken a request.
NewLogin == [point |-> "new", promise |-> "pending", consumed |-> FALSE, token |-> NoToken,
             timedOut |-> FALSE]
NewSignOut == [point |-> "new", token |-> NoToken, revoked |-> FALSE, removed |-> NoToken]
NewRequest == [point |-> "new", token |-> NoToken, principal |-> NoOne]

Init ==
  /\ stored = NoToken /\ owner = <<>> /\ live = {}
  /\ login = [l \in Logins |-> NewLogin]
  /\ signOut = [s \in SignOuts |-> NewSignOut]
  /\ latch = NoToken /\ session = NoToken /\ denied = {}
  /\ request = [r \in Requests |-> NewRequest]

-----------------------------------------------------------------------------
(* Login *)

AtLogin(l, point) == login[l].point = point
SetLogin(l, state) == login' = [login EXCEPT ![l] = state]
SettleWith(l, value) == IF login[l].promise = "pending" THEN value ELSE login[l].promise

\* The callback server listens, the authorization URL has been obtained and
\* the browser opened; each of these may fail.
OpenBrowser(l) ==
  /\ AtLogin(l, "new")
  /\ \E point \in {"waiting", "failed"} : SetLogin(l, [login[l] EXCEPT !.point = point])
  /\ UNCHANGED <<stored, owner, live, signOut, agent>>

\* A request reaches the callback server, with a valid code or not; it is
\* answered 404 once one has been taken.
Callback(l, valid) ==
  /\ AtLogin(l, "waiting") /\ ~login[l].consumed
  /\ SetLogin(l, [login[l] EXCEPT !.consumed = TRUE,
                    !.promise = SettleWith(l, IF valid THEN "code" ELSE "rejected")])
  /\ UNCHANGED <<stored, owner, live, signOut, agent>>

\* LOGIN_TIMEOUT_MS has passed.  The timer runs until the command ends.
Timeout(l) ==
  /\ login[l].point \in {"waiting", "exchanging", "revoking"} /\ ~login[l].timedOut
  /\ SetLogin(l, [login[l] EXCEPT !.timedOut = login[l].promise = "pending",
                                  !.promise = SettleWith(l, "rejected")])
  /\ login[l].promise = "pending"
  /\ UNCHANGED <<stored, owner, live, signOut, agent>>

\* The login goes on once its promise is settled.
Resume(l) ==
  /\ AtLogin(l, "waiting") /\ login[l].promise # "pending"
  /\ SetLogin(l, [login[l] EXCEPT
       !.point = IF login[l].promise = "code" THEN "exchanging" ELSE "failed"])
  /\ UNCHANGED <<stored, owner, live, signOut, agent>>

\* The router issues a session for the code; its answer arrives or is lost.
Exchange(l, principal, arrives) ==
  /\ AtLogin(l, "exchanging")
  /\ owner' = Append(owner, principal)
  /\ live' = live \cup {Len(owner')}
  /\ SetLogin(l, [login[l] EXCEPT !.point = IF arrives THEN "storing" ELSE "failed",
                                  !.token = IF arrives THEN Len(owner') ELSE NoToken])
  /\ UNCHANGED <<stored, signOut, agent>>

RefuseExchange(l) ==
  /\ AtLogin(l, "exchanging")
  /\ SetLogin(l, [login[l] EXCEPT !.point = "failed"])
  /\ UNCHANGED <<stored, owner, live, signOut, agent>>

\* setPassword replaces what is stored; the secure store may refuse.
Store(l) ==
  /\ AtLogin(l, "storing")
  /\ \/ stored' = login[l].token /\ SetLogin(l, [login[l] EXCEPT !.point = "stored"])
     \/ UNCHANGED stored /\ SetLogin(l, [login[l] EXCEPT !.point = "revoking"])
  /\ UNCHANGED <<owner, live, signOut, agent>>

\* Mutant of RevokeIssued: the login fails and says nothing to the router.
Mut_RevokeIssuedNot(l) ==
  /\ AtLogin(l, "revoking") /\ SetLogin(l, [login[l] EXCEPT !.point = "failed"])
  /\ UNCHANGED <<stored, owner, live, signOut, agent>>

\* A session that could not be stored is signed out, if the router is reached.
RevokeIssued(l) ==
  /\ AtLogin(l, "revoking")
  /\ \/ live' = live \ {login[l].token} /\ SetLogin(l, [login[l] EXCEPT !.point = "failed"])
     \/ UNCHANGED live /\ SetLogin(l, [login[l] EXCEPT !.point = "unrevoked"])
  /\ UNCHANGED <<stored, owner, signOut, agent>>

-----------------------------------------------------------------------------
(* Sign-out *)

AtSignOut(s, point) == signOut[s].point = point
SetSignOut(s, state) == signOut' = [signOut EXCEPT ![s] = state]

\* getPassword: nothing stored ends the command.
ReadStored(s) ==
  /\ AtSignOut(s, "new")
  /\ SetSignOut(s, [signOut[s] EXCEPT !.token = stored, !.revoked = stored = NoToken,
                      !.point = IF stored = NoToken THEN "done" ELSE "revoking"])
  /\ UNCHANGED <<stored, owner, live, login, agent>>

\* The router revokes the session and says so, revokes it and the answer is
\* lost, or is not reached; a session that is gone already is refused.
RevokeStored(s) ==
  /\ AtSignOut(s, "revoking")
  /\ \E reached, confirmed \in BOOLEAN :
       /\ confirmed => reached /\ signOut[s].token \in live
       /\ live' = IF reached THEN live \ {signOut[s].token} ELSE live
       /\ SetSignOut(s, [signOut[s] EXCEPT !.point = "deleting", !.revoked = confirmed])
  /\ UNCHANGED <<stored, owner, login, agent>>

\* deleteCredential, whatever is stored by now.
Delete(s) ==
  /\ AtSignOut(s, "deleting")
  /\ stored' = NoToken
  /\ SetSignOut(s, [signOut[s] EXCEPT !.point = "done", !.removed = stored])
  /\ UNCHANGED <<owner, live, login, agent>>

-----------------------------------------------------------------------------
(* The agent's transport *)

\* One synchronous step: the token is read from the store (none, or expired:
\* refused), the latch looked at, the header of the principal taken from the
\* session just read, and the request sent.
SendRequest(r) ==
  /\ request[r].point = "new"
  /\ session' = IF stored = NoToken THEN session ELSE stored
  /\ latch' = Credential(latch, stored)
  /\ request' = [request EXCEPT ![r] =
       IF Refused(latch, stored)
       THEN [point |-> "refused", token |-> stored, principal |-> NoOne]
       ELSE [point |-> "sent", token |-> stored, principal |-> owner[session']]]
  /\ UNCHANGED <<stored, owner, live, login, signOut, denied>>

\* Mutant of AnswerRequest: a denial latches the token that is stored by then.
Mut_AnswerRequestCurrent(r, status) ==
  /\ request[r].point = "sent"
  /\ status = "ok" => request[r].token \in live
  /\ latch' = Answered(latch, stored, status)
  /\ denied' = IF status = "denied" THEN denied \cup {request[r].token} ELSE denied
  /\ request' = [request EXCEPT ![r].point = "answered"]
  /\ UNCHANGED <<stored, owner, live, login, signOut, session>>

\* A token that is not live is denied; one that is may be denied (a bank the
\* principal may not use) or the request may fail.
AnswerRequest(r, status) ==
  /\ request[r].point = "sent"
  /\ status = "ok" => request[r].token \in live
  /\ latch' = Answered(latch, request[r].token, status)
  /\ denied' = IF status = "denied" THEN denied \cup {request[r].token} ELSE denied
  /\ request' = [request EXCEPT ![r].point = "answered"]
  /\ UNCHANGED <<stored, owner, live, login, signOut, session>>

\* A session expires within an hour, or an operator revokes it.
Expire == /\ \E n \in live : live' = live \ {n}
          /\ UNCHANGED <<stored, owner, login, signOut, agent>>

LoginStep(l) ==
  \/ OpenBrowser(l) \/ Timeout(l) \/ Resume(l) \/ RefuseExchange(l) \/ Store(l) \/ RevokeIssued(l)
  \/ \E valid \in BOOLEAN : Callback(l, valid)
  \/ \E principal \in Principals, arrives \in BOOLEAN : Exchange(l, principal, arrives)
SignOutStep(s) == ReadStored(s) \/ RevokeStored(s) \/ Delete(s)

Next ==
  \/ \E l \in Logins : LoginStep(l)
  \/ \E s \in SignOuts : SignOutStep(s)
  \/ \E r \in Requests : SendRequest(r) \/ \E status \in Statuses : AnswerRequest(r, status)
  \/ Expire

Spec == Init /\ [][Next]_vars

-----------------------------------------------------------------------------
(* Properties *)

LoginPoints == {"new", "waiting", "exchanging", "storing", "revoking", "stored", "failed",
                "unrevoked"}
MaybeToken == Issued \cup {NoToken}

\* Types of the commands, the store and the transport.
TypeOK ==
  /\ stored \in MaybeToken /\ live \subseteq Issued /\ owner \in Seq(Principals)
  /\ login \in [Logins -> [point : LoginPoints, promise : {"pending", "code", "rejected"},
                           consumed : BOOLEAN, token : MaybeToken, timedOut : BOOLEAN]]
  /\ signOut \in [SignOuts -> [point : {"new", "revoking", "deleting", "done"},
                               token : MaybeToken, revoked : BOOLEAN, removed : MaybeToken]]
  /\ latch \in MaybeToken /\ session \in MaybeToken /\ denied \subseteq Issued

\* A login whose time ran out, or that failed for another reason, leaves no
\* session behind, neither in the store nor (when the router could be told)
\* at the router.
FailedLoginLeavesNothing ==
  \A l \in Logins :
    /\ login[l].timedOut => login[l].token = NoToken /\ login[l].point \in {"waiting", "failed"}
    /\ login[l].point \in {"failed", "unrevoked"} /\ login[l].token # NoToken =>
         stored # login[l].token /\ (login[l].point = "failed" => login[l].token \notin live)

\* "Signed out." is true of the session the command removed, unless a login
\* stored another one while the router was asked.
SignedOutIsRevoked ==
  \A s \in SignOuts :
    signOut[s].point = "done" /\ signOut[s].revoked /\ signOut[s].removed = signOut[s].token =>
      signOut[s].token \notin live

\* Every request names the principal that owns the token it carries, also
\* while somebody else signs in.
PrincipalOwnsToken ==
  \A r \in Requests :
    request[r].point \in {"sent", "answered"} => request[r].principal = owner[request[r].token]

\* A request is refused without asking the router only for want of a session
\* or after the router denied that very session: a late denial of an earlier
\* session never blocks the present one.
RefusedForCause ==
  \A r \in Requests :
    request[r].point = "refused" => request[r].token \in denied \cup {NoToken}
=============================================================================
