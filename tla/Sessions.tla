------------------------------ MODULE Sessions ------------------------------
(***************************************************************************)
(* Accounts and refresh-token sessions: auth.service.ts and the routes of  *)
(* auth.routes.ts that call it.  Each call is a handler that other calls   *)
(* interleave with at every await; the token a call issues is named after  *)
(* the call, so tokens are distinct as random ones are.                    *)
(*                                                                         *)
(* A family is the chain of sessions that rotation grows from one login or *)
(* registration.  root, and stale (the token a call carries had been       *)
(* revoked before the call was made), are history that no handler reads.   *)
(***************************************************************************)
EXTENDS Integers, FiniteSets

CONSTANTS
  Requests,  \* calls to the auth routes, each made at most once
  Browsers,  \* cookie jars
  Emails,
  NoToken

ASSUME NoTokenAssumption == NoToken \notin Requests

VARIABLES
  accounts,  \* emails with a User row
  session,   \* the Session rows, by token
  jar,       \* the refresh_token cookie of each browser
  req        \* per request, the state of the handler that serves it

vars == <<accounts, session, jar, req>>

Tokens == Requests \cup {NoToken}

SessionRow ==
  [state : {"none", "live", "revoked"}, expired : BOOLEAN,
   parent : Tokens, root : Tokens]

NoRow == [state |-> "none", expired |-> FALSE, parent |-> NoToken, root |-> NoToken]

Kinds == {"register", "login", "refresh", "logout"}
InFlight == {"sent", "hashing", "revoking", "issuing", "answering", "clearing"}
Refused == {"taken", "unauthorized", "reused", "error"}

RequestState ==
  [pc : InFlight \cup Refused \cup {"idle", "ok", "lost"},
   kind : Kinds \cup {"none"}, browser : Browsers \cup {"none"},
   email : Emails \cup {"none"}, token : Tokens, stale : BOOLEAN]

Unsent ==
  [pc |-> "idle", kind |-> "none", browser |-> "none", email |-> "none",
   token |-> NoToken, stale |-> FALSE]

Init ==
  /\ accounts = {}
  /\ session = [s \in Requests |-> NoRow]
  /\ jar = [b \in Browsers |-> NoToken]
  /\ req = [r \in Requests |-> Unsent]

----------------------------------------------------------------------------
(* The browser.                                                            *)

Send(r, call) == req[r].pc = "idle" /\ req' = [req EXCEPT ![r] = call]

(* Registration and login name an account; refresh and logout carry the    *)
(* cookie the browser holds at that moment, if any.                        *)
SendCredentials(r, b, kind, email) ==
  /\ Send(r, [Unsent EXCEPT !.pc = "sent", !.kind = kind, !.browser = b,
                            !.email = email])
  /\ UNCHANGED <<accounts, session, jar>>

Withdrawn(s) == s # NoToken /\ session[s].state = "revoked"

SendCookie(r, b, kind) ==
  /\ Send(r, [Unsent EXCEPT !.pc = "sent", !.kind = kind, !.browser = b,
                            !.token = jar[b], !.stale = Withdrawn(jar[b])])
  /\ UNCHANGED <<accounts, session, jar>>

----------------------------------------------------------------------------
(* The handlers.                                                           *)

Goto(r, pc) == req' = [req EXCEPT ![r].pc = pc]
Sent(r, kind) == req[r].pc = "sent" /\ req[r].kind = kind

(* registerUser: the look-up, the hash, the insert, which the unique index *)
(* on email refuses with an error no handler translates.                   *)
RegisterCheck(r) ==
  /\ Sent(r, "register")
  /\ \/ req[r].email \in accounts /\ Goto(r, "taken")
     \/ req[r].email \notin accounts /\ Goto(r, "hashing")
  /\ UNCHANGED <<accounts, session, jar>>

RegisterCreate(r) ==
  /\ req[r].pc = "hashing"
  /\ \/ req[r].email \in accounts /\ Goto(r, "error")
     \/ req[r].email \notin accounts /\ Goto(r, "issuing")
  /\ accounts' = accounts \cup {req[r].email}
  /\ UNCHANGED <<session, jar>>

(* loginUser: a wrong password is as good as an unknown email.             *)
Login(r) ==
  /\ Sent(r, "login")
  /\ \/ req[r].email \in accounts /\ Goto(r, "issuing")
     \/ Goto(r, "unauthorized")
  /\ UNCHANGED <<accounts, session, jar>>

(* rotateRefreshToken: read and check, then revoke, then issue.            *)
\* Mutant of Valid: revokedAt is not looked at.
ValidUnlessExpired(s) ==
  s # NoToken /\ session[s].state # "none" /\ ~session[s].expired

Valid(s) == s # NoToken /\ session[s].state = "live" /\ ~session[s].expired

RefreshCheck(r) ==
  LET s == req[r].token IN
  /\ Sent(r, "refresh")
  /\ \/ s = NoToken /\ Goto(r, "unauthorized")
     \/ /\ s # NoToken /\ ~Valid(s)
        /\ Goto(r, IF session[s].state = "revoked" THEN "reused" ELSE "unauthorized")
     \/ Valid(s) /\ Goto(r, "revoking")
  /\ UNCHANGED <<accounts, session, jar>>

\* Mutant of Revoked: the update is forgotten.
RevokedNot(s) == session

Revoked(s) == [session EXCEPT ![s].state = "revoked"]

RefreshRevoke(r) ==
  /\ req[r].pc = "revoking"
  /\ session' = Revoked(req[r].token)
  /\ Goto(r, "issuing")
  /\ UNCHANGED <<accounts, jar>>

RootOf(r) == IF req[r].token = NoToken THEN r ELSE session[req[r].token].root

IssueSession(r) ==
  /\ req[r].pc = "issuing"
  /\ session' = [session EXCEPT ![r] =
       [NoRow EXCEPT !.state = "live", !.parent = req[r].token, !.root = RootOf(r)]]
  /\ Goto(r, "answering")
  /\ UNCHANGED <<accounts, jar>>

\* Mutant of Cookie: a refresh keeps the token it presented.
CookieKept(r) == IF req[r].token = NoToken THEN r ELSE req[r].token

(* setSessionCookies: a cookie that is past its date is not kept.          *)
Cookie(r) == IF session[r].expired THEN NoToken ELSE r

Answer(r) ==
  /\ req[r].pc = "answering"
  /\ jar' = [jar EXCEPT ![req[r].browser] = Cookie(r)]
  /\ Goto(r, "ok")
  /\ UNCHANGED <<accounts, session>>

(* revokeRefreshToken revokes a live token and leaves any other alone; the *)
(* answer clears the cookies whatever was presented.                       *)
Logout(r) ==
  LET s == req[r].token IN
  /\ Sent(r, "logout")
  /\ session' = IF s # NoToken /\ session[s].state = "live"
                  THEN Revoked(s) ELSE session
  /\ Goto(r, "clearing")
  /\ UNCHANGED <<accounts, jar>>

ClearCookie(r) ==
  /\ req[r].pc = "clearing"
  /\ jar' = [jar EXCEPT ![req[r].browser] = NoToken]
  /\ Goto(r, "ok")
  /\ UNCHANGED <<accounts, session>>

(* A crash, a failing query or a cut connection ends the call half way.    *)
Lose(r) ==
  /\ req[r].pc \in InFlight
  /\ Goto(r, "lost")
  /\ UNCHANGED <<accounts, session, jar>>

(* REFRESH_TOKEN_TTL_DAYS have passed, and the cookie goes with the row.   *)
Expire(s) ==
  /\ session[s].state # "none"
  /\ ~session[s].expired
  /\ session' = [session EXCEPT ![s].expired = TRUE]
  /\ jar' = [b \in Browsers |-> IF jar[b] = s THEN NoToken ELSE jar[b]]
  /\ UNCHANGED <<accounts, req>>

Handle(r) ==
  \/ RegisterCheck(r) \/ RegisterCreate(r) \/ Login(r)
  \/ RefreshCheck(r) \/ RefreshRevoke(r)
  \/ IssueSession(r) \/ Answer(r) \/ Logout(r) \/ ClearCookie(r) \/ Lose(r)

Call(r, b) ==
  \/ \E kind \in {"register", "login"}, email \in Emails :
       SendCredentials(r, b, kind, email)
  \/ \E kind \in {"refresh", "logout"} : SendCookie(r, b, kind)

Next ==
  \/ \E r \in Requests : Handle(r) \/ Expire(r)
  \/ \E r \in Requests, b \in Browsers : Call(r, b)

Spec == Init /\ [][Next]_vars

----------------------------------------------------------------------------
(* Properties.                                                             *)

TypeOK ==
  /\ accounts \in SUBSET Emails
  /\ session \in [Requests -> SessionRow]
  /\ jar \in [Browsers -> Tokens]
  /\ req \in [Requests -> RequestState]

(* Rotation consumes what was presented: a session issued by a refresh has *)
(* a parent, and that parent can never be used again.                      *)
ParentsRevoked ==
  \A s \in Requests :
    session[s].parent # NoToken => session[session[s].parent].state = "revoked"

(* A token was exchanged twice, by calls that were both made before either *)
(* of them had revoked it, so that the two overlapped.                     *)
Forked(root) ==
  \E s, t \in Requests :
    /\ s # t
    /\ session[s].parent = session[t].parent
    /\ session[s].parent # NoToken
    /\ session[s].root = root
    /\ ~req[s].stale /\ ~req[t].stale

(* Of all the sessions grown from one login at most one can be used, until *)
(* two refreshes that overlap exchange the same token: neither a replay of *)
(* a token that was exchanged before, nor any other course of events,      *)
(* however long, leaves a login with two usable sessions.                  *)
OneLiveUntilFork ==
  \A s, t \in Requests :
    /\ session[s].state = "live"
    /\ session[t].state = "live"
    /\ session[s].root = session[t].root
    /\ ~Forked(session[s].root)
    => s = t

(* A browser is never left holding a token that will be refused, unless a  *)
(* call with that token is still on its way or was cut off half way.       *)
CookieUsable ==
  \A b \in Browsers :
    \/ jar[b] = NoToken
    \/ Valid(jar[b])
    \/ \E r \in Requests :
         req[r].token = jar[b] /\ req[r].pc \in InFlight \cup {"lost"}

=============================================================================
