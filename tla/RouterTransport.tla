--------------------------- MODULE RouterTransport ---------------------------
(***************************************************************************)
(* RouterTransport (shared/router-transport.ts): the token is read for     *)
(* each request, and a token the router has denied is latched, so that it  *)
(* is not sent again until the source of tokens returns another one.       *)
(* Operators on the latch; the modules that extend this one hold it in a   *)
(* variable.                                                               *)
(***************************************************************************)
EXTENDS Integers

NoToken == 0

\* credential() for the token just read: refused, or the latch is cleared.
Refused(latch, token) == token = NoToken \/ token = latch
Credential(latch, token) == IF Refused(latch, token) THEN latch ELSE NoToken

\* Classes of what comes back: an answer (a 404 to a GET is one), a 401 or
\* 403, any other status or an error of the network.
Statuses == {"ok", "denied", "failed"}

\* request() after its await: a denial latches the token that was sent, not
\* the one that is current now.
Answered(latch, sent, status) == IF status = "denied" THEN sent ELSE latch
=============================================================================
