---------------------------- MODULE SessionsProofs ----------------------------
(***************************************************************************)
(* What holds of Sessions for any number of calls, browsers and emails.    *)
(***************************************************************************)
EXTENDS Sessions, TLAPS

USE NoTokenAssumption

(* One name for a step of request r.                                       *)
Action(r) ==
  \/ (\E b \in Browsers, kind \in {"register", "login"}, email \in Emails :
        SendCredentials(r, b, kind, email))
  \/ (\E b \in Browsers, kind \in {"refresh", "logout"} : SendCookie(r, b, kind))
  \/ RegisterCheck(r) \/ RegisterCreate(r) \/ Login(r)
  \/ RefreshCheck(r) \/ RefreshRevoke(r)
  \/ IssueSession(r) \/ Answer(r) \/ Logout(r) \/ ClearCookie(r)
  \/ Lose(r) \/ Expire(r)

LEMMA NextActions == Next <=> \E r \in Requests : Action(r)
BY DEF Next, Handle, Call, Action

(* What Goto does to the table of requests: only the caller's pc moves.    *)
LEMMA GotoEffect ==
  ASSUME req \in [Requests -> RequestState], NEW r \in Requests,
         NEW pc \in InFlight \cup Refused \cup {"idle", "ok", "lost"},
         Goto(r, pc)
  PROVE  /\ req' \in [Requests -> RequestState]
         /\ req'[r].pc = pc
         /\ \A q \in Requests \ {r} : req'[q].pc = req[q].pc
         /\ \A q \in Requests : /\ req'[q].kind = req[q].kind
                                /\ req'[q].email = req[q].email
                                /\ req'[q].token = req[q].token
                                /\ req'[q].browser = req[q].browser
                                /\ req'[q].stale = req[q].stale
<1>1. req[r] \in RequestState
  OBVIOUS
<1>2. [req[r] EXCEPT !.pc = pc] \in RequestState
  BY <1>1 DEF RequestState
<1>3. /\ req'[r] = [req[r] EXCEPT !.pc = pc]
      /\ \A q \in Requests \ {r} : req'[q] = req[q]
  BY DEF Goto
<1>4. ASSUME NEW q \in Requests
      PROVE  /\ req'[q].kind = req[q].kind
             /\ req'[q].email = req[q].email
             /\ req'[q].token = req[q].token
             /\ req'[q].browser = req[q].browser
             /\ req'[q].stale = req[q].stale
  <2>1. CASE q = r
    BY <1>1, <1>3, <2>1 DEF RequestState
  <2>2. CASE q # r
    BY <1>3, <2>2
  <2> QED
    BY <2>1, <2>2
<1>5. req'[r].pc = pc
  BY <1>1, <1>3 DEF RequestState
<1> QED
  BY <1>2, <1>3, <1>4, <1>5 DEF Goto

(* What a call carries: credentials, or at most a token; and only a call   *)
(* with a token gets as far as revoking it.                                *)
CallForm ==
  \A r \in Requests :
    /\ req[r].kind \in {"register", "login"} =>
         req[r].email \in Emails /\ req[r].token = NoToken
    /\ req[r].pc = "hashing" => req[r].kind = "register"
    /\ req[r].pc = "revoking" => req[r].token # NoToken

LEMMA TypeStep == TypeOK /\ CallForm /\ [Next]_vars => TypeOK'
<1> SUFFICES ASSUME TypeOK, CallForm, [Next]_vars PROVE TypeOK'
  OBVIOUS
<1>1. CASE UNCHANGED vars
  BY <1>1 DEF vars, TypeOK
<1>2. ASSUME NEW r \in Requests, Action(r) PROVE TypeOK'
  <2>1. /\ req \in [Requests -> RequestState]
        /\ session \in [Requests -> SessionRow]
        /\ jar \in [Browsers -> Tokens]
        /\ accounts \in SUBSET Emails
    BY DEF TypeOK
  <2>2. /\ req[r].token \in Tokens
        /\ req[r].browser \in Browsers \cup {"none"}
        /\ req[r].email \in Emails \cup {"none"}
    BY <2>1 DEF RequestState
  <2>3. ASSUME NEW b \in Browsers, NEW kind \in {"register", "login"},
               NEW email \in Emails, SendCredentials(r, b, kind, email)
        PROVE  TypeOK'
    <3>1. [Unsent EXCEPT !.pc = "sent", !.kind = kind, !.browser = b,
                         !.email = email] \in RequestState
      BY DEF Unsent, RequestState, InFlight, Kinds, Tokens
    <3> QED
      BY <2>1, <2>3, <3>1 DEF SendCredentials, Send, TypeOK
  <2>4. ASSUME NEW b \in Browsers, NEW kind \in {"refresh", "logout"},
               SendCookie(r, b, kind)
        PROVE  TypeOK'
    <3>1. [Unsent EXCEPT !.pc = "sent", !.kind = kind, !.browser = b,
                         !.token = jar[b], !.stale = Withdrawn(jar[b])]
            \in RequestState
      BY <2>1 DEF Unsent, RequestState, InFlight, Kinds, Tokens, Withdrawn
    <3> QED
      BY <2>1, <2>4, <3>1 DEF SendCookie, Send, TypeOK
  <2>5. CASE RegisterCheck(r)
    BY <2>1, <2>5, GotoEffect DEF RegisterCheck, TypeOK, InFlight, Refused
  <2>6. CASE RegisterCreate(r)
    <3>1. req[r].email \in Emails
      BY <2>6 DEF RegisterCreate, CallForm
    <3>2. req' \in [Requests -> RequestState]
      BY <2>1, <2>6, GotoEffect DEF RegisterCreate, InFlight, Refused
    <3> QED
      BY <2>1, <2>6, <3>1, <3>2 DEF RegisterCreate, TypeOK
  <2>7. CASE Login(r)
    BY <2>1, <2>7, GotoEffect DEF Login, TypeOK, InFlight, Refused
  <2>8. CASE RefreshCheck(r)
    BY <2>1, <2>8, GotoEffect DEF RefreshCheck, TypeOK, InFlight, Refused
  <2>9. CASE RefreshRevoke(r)
    <3>1. req' \in [Requests -> RequestState]
      BY <2>1, <2>9, GotoEffect DEF RefreshRevoke, InFlight, Refused
    <3>2. [session[req[r].token] EXCEPT !.state = "revoked"] \in SessionRow
      BY <2>1, <2>2, <2>9 DEF RefreshRevoke, CallForm, SessionRow, Tokens
    <3>3. session' \in [Requests -> SessionRow]
      BY <2>1, <2>9, <3>2 DEF RefreshRevoke, Revoked
    <3> QED
      BY <2>1, <2>9, <3>1, <3>3 DEF RefreshRevoke, TypeOK
  <2>10. CASE IssueSession(r)
    <3>1. req' \in [Requests -> RequestState]
      BY <2>1, <2>10, GotoEffect DEF IssueSession, InFlight, Refused
    <3>2. RootOf(r) \in Tokens
      BY <2>1, <2>2 DEF RootOf, SessionRow, Tokens
    <3>3. session' \in [Requests -> SessionRow]
      BY <2>1, <2>2, <2>10, <3>2 DEF IssueSession, NoRow, SessionRow
    <3> QED
      BY <2>1, <2>10, <3>1, <3>3 DEF IssueSession, TypeOK
  <2>11. CASE Answer(r)
    <3>1. req' \in [Requests -> RequestState]
      BY <2>1, <2>11, GotoEffect DEF Answer
    <3>2. jar' \in [Browsers -> Tokens]
      BY <2>1, <2>11 DEF Answer, Tokens, Cookie
    <3> QED
      BY <2>1, <2>11, <3>1, <3>2 DEF Answer, TypeOK
  <2>12. CASE Logout(r)
    <3>1. req' \in [Requests -> RequestState]
      BY <2>1, <2>12, GotoEffect DEF Logout, InFlight
    <3>2. session' \in [Requests -> SessionRow]
      <4> DEFINE s == req[r].token
      <4>1. CASE s # NoToken /\ session[s].state = "live"
        <5>1. [session[s] EXCEPT !.state = "revoked"] \in SessionRow
          BY <2>1, <2>2, <4>1 DEF SessionRow, Tokens
        <5> QED
          BY <2>1, <2>12, <4>1, <5>1 DEF Logout, Revoked
      <4>2. CASE ~(s # NoToken /\ session[s].state = "live")
        BY <2>1, <2>12, <4>2 DEF Logout
      <4> QED
        BY <4>1, <4>2
    <3> QED
      BY <2>1, <2>12, <3>1, <3>2 DEF Logout, TypeOK
  <2>13. CASE ClearCookie(r)
    <3>1. req' \in [Requests -> RequestState]
      BY <2>1, <2>13, GotoEffect DEF ClearCookie
    <3>2. jar' \in [Browsers -> Tokens]
      BY <2>1, <2>13 DEF ClearCookie, Tokens
    <3> QED
      BY <2>1, <2>13, <3>1, <3>2 DEF ClearCookie, TypeOK
  <2>14. CASE Lose(r)
    BY <2>1, <2>14, GotoEffect DEF Lose, TypeOK
  <2>15. CASE Expire(r)
    <3>1. [session[r] EXCEPT !.expired = TRUE] \in SessionRow
      BY <2>1 DEF SessionRow
    <3>2. session' \in [Requests -> SessionRow]
      BY <2>1, <2>15, <3>1 DEF Expire
    <3>3. jar' \in [Browsers -> Tokens]
      BY <2>1, <2>15 DEF Expire, Tokens
    <3> QED
      BY <2>1, <2>15, <3>2, <3>3 DEF Expire, TypeOK
  <2> QED
    BY <1>2, <2>3, <2>4, <2>5, <2>6, <2>7, <2>8, <2>9, <2>10, <2>11, <2>12,
       <2>13, <2>14, <2>15 DEF Action
<1> QED
  BY <1>1, <1>2, NextActions

LEMMA FormStep == TypeOK /\ CallForm /\ [Next]_vars => CallForm'
<1> SUFFICES ASSUME TypeOK, CallForm, [Next]_vars PROVE CallForm'
  OBVIOUS
<1>1. CASE UNCHANGED vars
  BY <1>1 DEF vars, CallForm
<1>2. ASSUME NEW r \in Requests, Action(r) PROVE CallForm'
  <2>1. req \in [Requests -> RequestState]
    BY DEF TypeOK
  <2>2. ASSUME NEW b \in Browsers, NEW kind \in {"register", "login"},
               NEW email \in Emails, SendCredentials(r, b, kind, email)
        PROVE  CallForm'
    BY <2>1, <2>2 DEF SendCredentials, Send, Unsent, CallForm
  <2>3. ASSUME NEW b \in Browsers, NEW kind \in {"refresh", "logout"},
               SendCookie(r, b, kind)
        PROVE  CallForm'
    BY <2>1, <2>3 DEF SendCookie, Send, Unsent, CallForm
  <2>4. ASSUME NEW pc \in InFlight \cup Refused \cup {"idle", "ok", "lost"},
               Goto(r, pc),
               pc = "hashing" => req[r].kind = "register",
               pc = "revoking" => req[r].token # NoToken
        PROVE  CallForm'
    <3>1. /\ req'[r].pc = pc
          /\ \A q \in Requests \ {r} : req'[q].pc = req[q].pc
          /\ \A q \in Requests : /\ req'[q].kind = req[q].kind
                                 /\ req'[q].email = req[q].email
                                 /\ req'[q].token = req[q].token
      BY <2>1, <2>4, GotoEffect
    <3> QED
      BY <2>4, <3>1 DEF CallForm
  <2>5. CASE RegisterCheck(r) \/ RegisterCreate(r) \/ Login(r)
    BY <2>4, <2>5 DEF RegisterCheck, RegisterCreate, Login, Sent, InFlight, Refused
  <2>6. CASE RefreshCheck(r)
    BY <2>4, <2>6 DEF RefreshCheck, Valid, InFlight, Refused
  <2>7. CASE RefreshRevoke(r) \/ IssueSession(r) \/ Answer(r) \/ Logout(r)
              \/ ClearCookie(r) \/ Lose(r)
    BY <2>4, <2>7
    DEF RefreshRevoke, IssueSession, Answer, Logout, ClearCookie, Lose, InFlight, Refused
  <2>8. CASE Expire(r)
    BY <2>8 DEF Expire, CallForm
  <2> QED
    BY <1>2, <2>2, <2>3, <2>5, <2>6, <2>7, <2>8 DEF Action
<1> QED
  BY <1>1, <1>2, NextActions

LEMMA InitForm == Init => TypeOK /\ CallForm
BY DEF Init, TypeOK, CallForm, NoRow, SessionRow, Unsent, RequestState, Tokens

(* Every variable keeps its type.  Not inductive alone: that an account is *)
(* created for an email at all rests on what calls carry.                  *)
THEOREM TypeCorrect == Spec => []TypeOK
BY InitForm, TypeStep, FormStep, PTL DEF Spec

LEMMA Formed == Spec => [](TypeOK /\ CallForm)
BY InitForm, TypeStep, FormStep, PTL DEF Spec

----------------------------------------------------------------------------
(* Rotation.                                                               *)

(* A call between the moment it was let through with a token and the       *)
(* moment it has put a session in its place.                               *)
Presenting(r) == req[r].pc \in {"revoking", "issuing"} /\ req[r].token # NoToken

(* A call that has not issued its session yet has none; the token a call   *)
(* presents has one; and a call that is about to issue has revoked it.     *)
Unissued == {"idle", "sent", "hashing", "revoking", "issuing"}
Fresh == \A r \in Requests : req[r].pc \in Unissued => session[r] = NoRow
Presented ==
  \A r \in Requests : Presenting(r) =>
    /\ session[req[r].token].state # "none"
    /\ req[r].pc = "issuing" => session[req[r].token].state = "revoked"

RotationInv == Fresh /\ Presented /\ ParentsRevoked

Formedness == TypeOK /\ CallForm

(* Every step but the issuing of a session leaves rows where they are in   *)
(* their families, and at most revokes.                                    *)
RowsAge ==
  \A s \in Requests :
    /\ session'[s].parent = session[s].parent
    /\ session'[s].root = session[s].root
    /\ session[s] = NoRow => session'[s] = NoRow
    /\ \/ session'[s].state = session[s].state
       \/ session[s].state # "none" /\ session'[s].state = "revoked"

LEMMA Revoking ==
  ASSUME TypeOK, NEW s \in Requests, session[s].state # "none",
         session' = [session EXCEPT ![s].state = "revoked"]
  PROVE  RowsAge /\ session'[s].state = "revoked"
<1>1. session[s] \in SessionRow /\ session \in [Requests -> SessionRow]
  BY DEF TypeOK
<1>2. /\ session'[s] = [session[s] EXCEPT !.state = "revoked"]
      /\ \A t \in Requests \ {s} : session'[t] = session[t]
  BY <1>1
<1>3. /\ session'[s].state = "revoked"
      /\ session'[s].parent = session[s].parent
      /\ session'[s].root = session[s].root
  BY <1>1, <1>2 DEF SessionRow
<1>4. session[s] # NoRow
  BY DEF NoRow
<1> QED
  BY <1>2, <1>3, <1>4 DEF RowsAge

LEMMA Aging ==
  ASSUME Formedness, Presented, NEW r \in Requests, Action(r), ~IssueSession(r)
  PROVE  RowsAge
<1> USE DEF Formedness
<1>1. CASE UNCHANGED session
  BY <1>1 DEF RowsAge
<1>2. CASE RefreshRevoke(r)
  <2>1. /\ req[r].token \in Requests
        /\ session[req[r].token].state # "none"
    BY <1>2 DEF RefreshRevoke, Presented, Presenting, CallForm, TypeOK,
                RequestState, Tokens
  <2> QED
    BY <1>2, <2>1, Revoking DEF RefreshRevoke, Revoked
<1>3. CASE Logout(r)
  <2>1. CASE req[r].token # NoToken /\ session[req[r].token].state = "live"
    <3>1. req[r].token \in Requests
      BY <2>1 DEF TypeOK, RequestState, Tokens
    <3> QED
      BY <1>3, <2>1, <3>1, Revoking DEF Logout, Revoked
  <2>2. CASE ~(req[r].token # NoToken /\ session[req[r].token].state = "live")
    BY <1>1, <1>3, <2>2 DEF Logout
  <2> QED
    BY <2>1, <2>2
<1>4. CASE Expire(r)
  <2>1. session[r] \in SessionRow /\ session \in [Requests -> SessionRow]
    BY DEF TypeOK
  <2>2. /\ session'[r] = [session[r] EXCEPT !.expired = TRUE]
        /\ \A t \in Requests \ {r} : session'[t] = session[t]
    BY <1>4, <2>1 DEF Expire
  <2>3. /\ session'[r].state = session[r].state
        /\ session'[r].parent = session[r].parent
        /\ session'[r].root = session[r].root
    BY <2>1, <2>2 DEF SessionRow
  <2>4. session[r] # NoRow
    BY <1>4 DEF Expire, NoRow
  <2> QED
    BY <2>2, <2>3, <2>4 DEF RowsAge
<1> QED
  BY <1>1, <1>2, <1>3, <1>4
  DEF Action, SendCredentials, SendCookie, RegisterCheck, RegisterCreate,
      Login, RefreshCheck, Answer, ClearCookie, Lose

(* What a step does to the calls: only its own moves, it starts presenting *)
(* only a live token, and it issues only after revoking.                   *)
Entering(r) ==
  /\ req'[r].token = req[r].token
  /\ session[req[r].token].state = "live"
  /\ UNCHANGED session

CallsMove(r) ==
  /\ \A q \in Requests \ {r} : req'[q] = req[q]
  /\ req'[r].pc \in Unissued => req[r].pc \in Unissued
  /\ Presenting(r)' =>
       /\ req'[r].token = req[r].token
       /\ \/ UNCHANGED req
          \/ req'[r].pc = "revoking" /\ req[r].pc = "sent" /\ Entering(r)
          \/ /\ req'[r].pc = "issuing" /\ req[r].pc = "revoking"
             /\ session'[req[r].token].state = "revoked"

LEMMA Moving ==
  ASSUME Formedness, Presented, NEW r \in Requests, Action(r)
  PROVE  CallsMove(r)
<1> USE DEF Formedness
<1>1. req \in [Requests -> RequestState]
  BY DEF TypeOK
<1>2. ASSUME NEW b \in Browsers, NEW kind \in {"register", "login"},
             NEW email \in Emails, SendCredentials(r, b, kind, email)
      PROVE  CallsMove(r)
  BY <1>1, <1>2 DEF SendCredentials, Send, Unsent, CallsMove, Presenting, Unissued
<1>3. ASSUME NEW b \in Browsers, NEW kind \in {"refresh", "logout"},
             SendCookie(r, b, kind)
      PROVE  CallsMove(r)
  BY <1>1, <1>3 DEF SendCookie, Send, Unsent, CallsMove, Presenting, Unissued
<1>4. ASSUME NEW pc \in InFlight \cup Refused \cup {"idle", "ok", "lost"},
             Goto(r, pc)
      PROVE  /\ \A q \in Requests \ {r} : req'[q] = req[q]
             /\ req'[r].pc = pc
             /\ req'[r].token = req[r].token
  BY <1>1, <1>4, GotoEffect DEF Goto
<1>5. CASE RegisterCheck(r) \/ RegisterCreate(r) \/ Login(r)
  BY <1>4, <1>5
  DEF RegisterCheck, RegisterCreate, Login, Sent, CallForm, CallsMove,
      Presenting, Unissued, InFlight, Refused
<1>6. CASE RefreshCheck(r)
  BY <1>4, <1>6
  DEF RefreshCheck, Sent, Valid, Entering, CallsMove, Presenting, Unissued,
      InFlight, Refused
<1>7. CASE RefreshRevoke(r)
  <2>1. /\ req[r].token \in Requests
        /\ session[req[r].token].state # "none"
    BY <1>7 DEF RefreshRevoke, Presented, Presenting, CallForm, TypeOK,
                RequestState, Tokens
  <2>2. session'[req[r].token].state = "revoked"
    BY <1>7, <2>1, Revoking DEF RefreshRevoke, Revoked
  <2> QED
    BY <1>4, <1>7, <2>2
    DEF RefreshRevoke, CallsMove, Presenting, Unissued, InFlight, Refused
<1>8. CASE IssueSession(r) \/ Answer(r) \/ Logout(r) \/ ClearCookie(r) \/ Lose(r)
  BY <1>4, <1>8
  DEF IssueSession, Answer, Logout, ClearCookie, Lose, CallsMove, Presenting, Unissued,
      InFlight, Refused
<1>9. CASE Expire(r)
  BY <1>9 DEF Expire, CallsMove, Presenting
<1> QED
  BY <1>2, <1>3, <1>5, <1>6, <1>7, <1>8, <1>9 DEF Action

(* What issuing does: the row that was not there is the call's own.        *)
LEMMA Issuing ==
  ASSUME Formedness, Fresh, NEW r \in Requests, IssueSession(r)
  PROVE  /\ session[r] = NoRow
         /\ session'[r].state = "live"
         /\ session'[r].parent = req[r].token
         /\ session'[r].root = RootOf(r)
         /\ \A s \in Requests \ {r} : session'[s] = session[s]
         /\ req'[r].pc = "answering"
         /\ req[r].pc = "issuing"
<1>1. session[r] = NoRow /\ req[r].pc = "issuing"
  BY DEF IssueSession, Fresh, Unissued
<1>2. req'[r].pc = "answering"
  BY GotoEffect DEF IssueSession, Formedness, TypeOK, InFlight
<1>3. session \in [Requests -> SessionRow]
  BY DEF Formedness, TypeOK
<1> QED
  BY <1>1, <1>2, <1>3 DEF IssueSession, NoRow

LEMMA RotationStep == Formedness /\ RotationInv /\ [Next]_vars => RotationInv'
<1> SUFFICES ASSUME Formedness, RotationInv, [Next]_vars PROVE RotationInv'
  OBVIOUS
<1> USE DEF RotationInv
<1>1. CASE UNCHANGED vars
  BY <1>1 DEF vars, Fresh, Presented, Presenting, ParentsRevoked
<1>2. ASSUME NEW r \in Requests, Action(r) PROVE RotationInv'
  <2>1. CallsMove(r)
    BY <1>2, Moving
  <2>2. \A q \in Requests : req[q].token \in Tokens
    BY DEF Formedness, TypeOK, RequestState
  <2>3. \A s \in Requests : session[s].parent \in Tokens
    BY DEF Formedness, TypeOK, SessionRow
  <2>4. CASE ~IssueSession(r)
    <3>1. RowsAge
      BY <1>2, <2>4, Aging
    <3>2. Fresh'
      BY <2>1, <3>1 DEF Fresh, RowsAge, CallsMove
    <3>3. Presented'
      <4> SUFFICES ASSUME NEW q \in Requests, Presenting(q)'
                   PROVE  /\ session'[req'[q].token].state # "none"
                          /\ req'[q].pc = "issuing" =>
                               session'[req'[q].token].state = "revoked"
        BY DEF Presented
      <4>1. CASE q # r
        <5>1. Presenting(q) /\ req'[q] = req[q]
          BY <2>1, <4>1 DEF CallsMove, Presenting
        <5> QED
          BY <2>2, <3>1, <5>1 DEF Presented, Presenting, RowsAge, Tokens
      <4>2. CASE q = r
        <5>1. CASE UNCHANGED req
          BY <2>2, <3>1, <5>1 DEF Presented, Presenting, RowsAge, Tokens
        <5>2. CASE req'[r].pc = "revoking" /\ Entering(r)
          BY <4>2, <5>2 DEF Entering
        <5>3. CASE req'[r].pc = "issuing" /\ session'[req[r].token].state = "revoked"
          BY <2>1, <4>2, <5>3 DEF CallsMove
        <5> QED
          BY <2>1, <4>2, <5>1, <5>2, <5>3 DEF CallsMove
      <4> QED
        BY <4>1, <4>2
    <3>4. ParentsRevoked'
      BY <2>3, <3>1 DEF ParentsRevoked, RowsAge, Tokens
    <3> QED
      BY <3>2, <3>3, <3>4
  <2>5. CASE IssueSession(r)
    <3>1. /\ session[r] = NoRow
          /\ session'[r].parent = req[r].token
          /\ \A s \in Requests \ {r} : session'[s] = session[s]
          /\ req'[r].pc = "answering"
          /\ req[r].pc = "issuing"
      BY <2>5, Issuing
    <3>2. Fresh'
      BY <2>1, <3>1 DEF Fresh, CallsMove, Unissued
    <3>3. Presented'
      BY <2>1, <2>2, <3>1 DEF Presented, Presenting, CallsMove, NoRow, Tokens
    <3>4. ParentsRevoked'
      <4>1. req[r].token # NoToken =>
              session[req[r].token].state = "revoked" /\ req[r].token # r
        BY <3>1 DEF Presented, Presenting, NoRow
      <4>2. \A s \in Requests : session[s].parent # r
        BY <3>1 DEF ParentsRevoked, NoRow
      <4> QED
        BY <2>2, <2>3, <3>1, <4>1, <4>2 DEF ParentsRevoked, Tokens
    <3> QED
      BY <3>2, <3>3, <3>4
  <2> QED
    BY <2>4, <2>5
<1> QED
  BY <1>1, <1>2, NextActions

LEMMA InitRotation == Init => RotationInv
BY DEF Init, RotationInv, Fresh, Presented, Presenting, ParentsRevoked, NoRow, Unsent

(* However refreshes, logouts, losses and expiries interleave: a token     *)
(* that was exchanged for a new one can never be exchanged again.          *)
THEOREM RotationConsumes == Spec => []ParentsRevoked
<1>1. RotationInv => ParentsRevoked
  BY DEF RotationInv
<1> QED
  BY <1>1, Formed, InitRotation, RotationStep, PTL DEF Spec, Formedness

----------------------------------------------------------------------------
(* Stale calls.  A call made with a token that had been revoked before is  *)
(* refused, or clears the cookie: it never gets to issue a session.        *)

StaleInv ==
  \A r \in Requests : req[r].stale =>
    /\ req[r].token # NoToken
    /\ session[req[r].token].state = "revoked"
    /\ ~Presenting(r)
    /\ session[r] = NoRow

(* What a call carries is fixed when it is sent.                           *)
LEMMA CallsKeep ==
  ASSUME Formedness, NEW r \in Requests, Action(r),
         ~\E b \in Browsers, kind \in {"register", "login"}, email \in Emails :
             SendCredentials(r, b, kind, email),
         ~\E b \in Browsers, kind \in {"refresh", "logout"} : SendCookie(r, b, kind)
  PROVE  req'[r].token = req[r].token /\ req'[r].stale = req[r].stale
<1>1. req \in [Requests -> RequestState]
  BY DEF Formedness, TypeOK
<1>2. ASSUME NEW pc \in InFlight \cup Refused \cup {"idle", "ok", "lost"},
             Goto(r, pc)
      PROVE  req'[r].token = req[r].token /\ req'[r].stale = req[r].stale
  BY <1>1, <1>2, GotoEffect
<1>3. CASE Expire(r)
  BY <1>3 DEF Expire
<1> QED
  BY <1>2, <1>3
  DEF Action, RegisterCheck, RegisterCreate, Login, RefreshCheck, RefreshRevoke,
      IssueSession, Answer, Logout, ClearCookie, Lose, InFlight, Refused

LEMMA StaleStep ==
  Formedness /\ RotationInv /\ StaleInv /\ [Next]_vars => StaleInv'
<1> SUFFICES ASSUME Formedness, RotationInv, StaleInv, [Next]_vars PROVE StaleInv'
  OBVIOUS
<1>1. CASE UNCHANGED vars
  BY <1>1 DEF vars, StaleInv, Presenting
<1>2. ASSUME NEW r \in Requests, Action(r) PROVE StaleInv'
  <2>1. CallsMove(r)
    BY <1>2, Moving DEF RotationInv
  <2>2. \A q \in Requests : req[q].token \in Tokens
    BY DEF Formedness, TypeOK, RequestState
  <2>3. ASSUME NEW q \in Requests, req[q].stale
        PROVE  /\ session'[req[q].token].state = "revoked"
               /\ session'[q] = NoRow
    <3>1. /\ req[q].token \in Requests /\ session[req[q].token].state = "revoked"
          /\ ~Presenting(q) /\ session[q] = NoRow
      BY <2>2, <2>3 DEF StaleInv, Tokens
    <3>2. CASE ~IssueSession(r)
      <4>1. RowsAge
        BY <1>2, <3>2, Aging DEF RotationInv
      <4> QED
        BY <3>1, <4>1 DEF RowsAge
    <3>3. CASE IssueSession(r)
      <4>1. /\ session[r] = NoRow /\ req[r].pc = "issuing"
            /\ \A t \in Requests \ {r} : session'[t] = session[t]
        BY <3>3, Issuing DEF RotationInv
      <4>2. r # q
        BY <2>3, <3>1, <4>1 DEF Presenting, StaleInv
      <4>3. r # req[q].token
        BY <3>1, <4>1 DEF NoRow
      <4> QED
        BY <3>1, <4>1, <4>2, <4>3
    <3> QED
      BY <3>2, <3>3
  <2>4. ASSUME NEW q \in Requests, q # r, req'[q].stale
        PROVE  /\ req'[q].token # NoToken
               /\ session'[req'[q].token].state = "revoked"
               /\ ~Presenting(q)'
               /\ session'[q] = NoRow
    <3>1. req'[q] = req[q]
      BY <2>1, <2>4 DEF CallsMove
    <3> QED
      BY <2>3, <2>4, <3>1 DEF StaleInv, Presenting
  <2>5. ASSUME req'[r].stale
        PROVE  /\ req'[r].token # NoToken
               /\ session'[req'[r].token].state = "revoked"
               /\ ~Presenting(r)'
               /\ session'[r] = NoRow
    <3>1. req \in [Requests -> RequestState]
      BY DEF Formedness, TypeOK
    <3>2. ASSUME NEW b \in Browsers, NEW kind \in {"register", "login"},
                 NEW email \in Emails, SendCredentials(r, b, kind, email)
          PROVE  FALSE
      BY <2>5, <3>1, <3>2 DEF SendCredentials, Send, Unsent
    <3>3. ASSUME NEW b \in Browsers, NEW kind \in {"refresh", "logout"},
                 SendCookie(r, b, kind)
          PROVE  /\ req'[r].token # NoToken
                 /\ session'[req'[r].token].state = "revoked"
                 /\ ~Presenting(r)'
                 /\ session'[r] = NoRow
      <4>1. /\ req[r].pc = "idle" /\ UNCHANGED session
            /\ req'[r].pc = "sent" /\ req'[r].token = jar[b]
            /\ req'[r].stale = Withdrawn(jar[b])
        BY <3>1, <3>3 DEF SendCookie, Send, Unsent
      <4>2. session[r] = NoRow
        BY <4>1 DEF RotationInv, Fresh, Unissued
      <4> QED
        BY <2>5, <4>1, <4>2 DEF Withdrawn, Presenting
    <3>4. CASE req'[r].token = req[r].token /\ req'[r].stale = req[r].stale
      <4>1. /\ req[r].token # NoToken /\ session[req[r].token].state = "revoked"
            /\ ~Presenting(r)
        BY <2>5, <3>4 DEF StaleInv
      <4>2. ~Presenting(r)'
        BY <2>1, <4>1 DEF CallsMove, Entering, Presenting
      <4> QED
        BY <2>3, <2>5, <3>4, <4>1, <4>2
    <3> QED
      BY <1>2, <3>2, <3>3, <3>4, CallsKeep
  <2> QED
    BY <2>4, <2>5 DEF StaleInv
<1> QED
  BY <1>1, <1>2, NextActions

----------------------------------------------------------------------------
(* Families.  A family that never forked is a chain: besides the row at    *)
(* its end, every row of it is the parent of the next.                     *)

Exists(s) == session[s].state # "none"

Rooted ==
  \A s \in Requests : Exists(s) =>
    LET p == session[s].parent
        o == session[s].root
    IN  /\ o \in Requests /\ Exists(o)
        /\ p # NoToken => Exists(p) /\ session[p].root = o

Leaf(s) == Exists(s) /\ \A t \in Requests : session[t].parent # s

Chains ==
  \A s, t \in Requests :
    Leaf(s) /\ Leaf(t) /\ session[s].root = session[t].root
      /\ ~Forked(session[s].root) => s = t

FamilyInv == Rooted /\ Chains

(* A step that only ages rows leaves families and their shape alone.       *)
LEMMA FamilyAging ==
  ASSUME Formedness, FamilyInv, RowsAge,
         \A s \in Requests : session[s] # NoRow => req'[s].stale = req[s].stale
  PROVE  FamilyInv'
<1>1. ASSUME NEW s \in Requests
      PROVE  /\ session'[s].root = session[s].root
             /\ session'[s].parent = session[s].parent
             /\ Exists(s)' <=> Exists(s)
  BY DEF RowsAge, Exists
<1>2. \A s \in Requests : session[s].parent \in Tokens
  BY DEF Formedness, TypeOK, SessionRow
<1>3. Rooted'
  <2> SUFFICES ASSUME NEW s \in Requests, Exists(s)'
               PROVE  /\ session'[s].root \in Requests /\ Exists(session[s].root)'
                      /\ session'[s].parent # NoToken =>
                           /\ Exists(session[s].parent)'
                           /\ session'[session[s].parent].root = session'[s].root
    BY <1>1 DEF Rooted, Exists
  <2>1. Exists(s)
    BY <1>1
  <2>2. session[s].root \in Requests /\ Exists(session[s].root)
    BY <2>1 DEF FamilyInv, Rooted
  <2>3. CASE session[s].parent # NoToken
    <3>1. /\ session[s].parent \in Requests
          /\ Exists(session[s].parent)
          /\ session[session[s].parent].root = session[s].root
      BY <1>2, <2>1, <2>3 DEF FamilyInv, Rooted, Tokens
    <3> QED
      BY <1>1, <2>2, <3>1
  <2>4. CASE session[s].parent = NoToken
    BY <1>1, <2>2, <2>4
  <2> QED
    BY <2>3, <2>4
<1>4. \A o \in Requests : Forked(o)' <=> Forked(o)
  <2>1. \A s \in Requests :
          session[s].parent # NoToken => req'[s].stale = req[s].stale
    BY DEF NoRow
  <2> QED
    BY <1>1, <2>1 DEF Forked
<1>5. \A s \in Requests : Leaf(s)' <=> Leaf(s)
  BY <1>1 DEF Leaf
<1>6. Chains'
  <2> SUFFICES ASSUME NEW s \in Requests, NEW t \in Requests, Leaf(s)', Leaf(t)',
                      session'[s].root = session'[t].root,
                      ~Forked(session[s].root)'
               PROVE  s = t
    BY <1>1 DEF Chains
  <2>1. Leaf(s) /\ Leaf(t) /\ session[s].root = session[t].root
    BY <1>1, <1>5
  <2>2. session[s].root \in Requests
    BY <2>1 DEF FamilyInv, Rooted, Leaf
  <2>3. ~Forked(session[s].root)
    BY <1>1, <1>4, <2>2
  <2> QED
    BY <2>1, <2>3 DEF FamilyInv, Chains
<1> QED
  BY <1>3, <1>6 DEF FamilyInv

(* A new row extends a family at the end of its chain, or forks it.        *)
LEMMA FamilyIssuing ==
  ASSUME Formedness, RotationInv, StaleInv, FamilyInv,
         NEW r \in Requests, IssueSession(r)
  PROVE  FamilyInv'
<1> DEFINE p == req[r].token
<1>1. /\ session[r] = NoRow
      /\ session'[r].state = "live"
      /\ session'[r].parent = p
      /\ session'[r].root = RootOf(r)
      /\ \A s \in Requests \ {r} : session'[s] = session[s]
      /\ req[r].pc = "issuing"
  BY Issuing DEF RotationInv
<1>0. /\ \A s \in Requests : req'[s].stale = req[s].stale
      /\ p # NoToken => ~req[r].stale
      /\ \A s \in Requests : session[s].parent # NoToken => ~req[s].stale
  <2>1. \A s \in Requests : req'[s].stale = req[s].stale
    BY GotoEffect DEF IssueSession, Formedness, TypeOK, InFlight
  <2> QED
    BY <1>1, <2>1 DEF StaleInv, Presenting, NoRow
<1>2. ~Exists(r) /\ session[r].parent = NoToken
  BY <1>1 DEF Exists, NoRow
<1>3. p \in Tokens /\ \A s \in Requests : session[s].parent \in Tokens
  BY DEF Formedness, TypeOK, RequestState, SessionRow
<1>4. \/ p = NoToken /\ RootOf(r) = r
      \/ /\ p \in Requests \ {r}
         /\ Exists(p)
         /\ RootOf(r) = session[p].root
  BY <1>1, <1>2, <1>3
  DEF RootOf, Presenting, Presented, RotationInv, Exists, Tokens
<1>5. ASSUME NEW s \in Requests, Exists(s)
      PROVE  /\ s # r
             /\ session'[s] = session[s]
             /\ session[s].root \in Requests \ {r}
             /\ Exists(session[s].root)
             /\ session[s].parent # r
             /\ session[s].parent # NoToken =>
                  /\ session[s].parent \in Requests \ {r}
                  /\ Exists(session[s].parent)
                  /\ session[session[s].parent].root = session[s].root
  BY <1>1, <1>2, <1>3, <1>5, NoTokenAssumption DEF FamilyInv, Rooted, Tokens
<1>6. \A s \in Requests : Exists(s)' <=> s = r \/ Exists(s)
  BY <1>1 DEF Exists
<1>7. Rooted'
  <2> SUFFICES ASSUME NEW s \in Requests, s = r \/ Exists(s)
               PROVE  /\ session'[s].root \in Requests
                      /\ session'[session'[s].root].state # "none"
                      /\ session'[s].parent # NoToken =>
                           /\ session'[session'[s].parent].state # "none"
                           /\ session'[session'[s].parent].root = session'[s].root
    BY <1>6 DEF Rooted, Exists
  <2>1. CASE s = r
    BY <1>1, <1>4, <1>5, <2>1 DEF Exists
  <2>2. CASE Exists(s)
    BY <1>1, <1>5, <2>2 DEF Exists
  <2> QED
    BY <2>1, <2>2
<1>8. ASSUME NEW s \in Requests, s # r, Leaf(s)'
      PROVE  Leaf(s) /\ s # p
  <2>1. Exists(s)
    BY <1>6, <1>8 DEF Leaf
  <2>2. \A t \in Requests : session[t].parent # s
    BY <1>1, <1>2, <1>8 DEF Leaf
  <2> QED
    BY <1>1, <1>8, <2>1, <2>2 DEF Leaf
<1>9. ASSUME NEW o \in Requests, Forked(o)
      PROVE  Forked(o)'
  <2>1. PICK s \in Requests, t \in Requests :
          /\ s # t
          /\ session[s].parent = session[t].parent
          /\ session[s].parent # NoToken
          /\ session[s].root = o
          /\ ~req[s].stale /\ ~req[t].stale
    BY <1>9 DEF Forked
  <2>2. s # r /\ t # r
    BY <1>2, <2>1
  <2> QED
    BY <1>0, <1>1, <2>1, <2>2 DEF Forked
<1>10. ASSUME NEW s \in Requests, Leaf(s), s # p, NEW o, o = RootOf(r),
              session[s].root = o, ~Forked(o)'
       PROVE  FALSE
  <2>1. p \in Requests \ {r} /\ Exists(p) /\ RootOf(r) = session[p].root
    BY <1>4, <1>5, <1>10 DEF Leaf
  <2>2. Leaf(p)
    <3> SUFFICES ASSUME NEW t \in Requests, session[t].parent = p
                 PROVE  FALSE
      BY <2>1 DEF Leaf
    <3>1. t # r
      BY <1>2, <2>1
    <3>2. /\ session'[t].parent = session'[r].parent
          /\ session'[r].parent # NoToken
          /\ session'[r].root = o
          /\ ~req'[t].stale /\ ~req'[r].stale
      BY <1>0, <1>1, <1>10, <2>1, <3>1, NoTokenAssumption
    <3> QED
      BY <1>10, <3>1, <3>2 DEF Forked
  <2>3. ~Forked(o)
    BY <1>5, <1>9, <1>10, <2>1
  <2> QED
    BY <1>10, <2>1, <2>2, <2>3 DEF FamilyInv, Chains
<1>11. Chains'
  <2> SUFFICES ASSUME NEW s \in Requests, NEW t \in Requests, Leaf(s)', Leaf(t)',
                      session'[s].root = session'[t].root,
                      ~Forked(session[s].root)'
               PROVE  s = t
    BY DEF Chains
  <2>1. CASE s = r /\ t # r
    <3>1. Leaf(t) /\ t # p /\ session[t].root = RootOf(r)
      BY <1>1, <1>8, <2>1
    <3> QED
      BY <1>1, <1>10, <2>1, <3>1
  <2>2. CASE s # r /\ t = r
    <3>1. Leaf(s) /\ s # p /\ session[s].root = RootOf(r)
      BY <1>1, <1>8, <2>2
    <3> QED
      BY <1>1, <1>10, <2>2, <3>1
  <2>3. CASE s # r /\ t # r
    <3>1. Leaf(s) /\ Leaf(t)
      BY <1>8, <2>3
    <3>2. session[s].root = session[t].root /\ session[s].root \in Requests
      BY <1>1, <1>5, <2>3, <3>1 DEF Leaf
    <3>3. ~Forked(session[s].root)
      BY <1>1, <1>9, <2>3, <3>2
    <3> QED
      BY <3>1, <3>2, <3>3 DEF FamilyInv, Chains
  <2> QED
    BY <2>1, <2>2, <2>3
<1> QED
  BY <1>7, <1>11 DEF FamilyInv

LEMMA FamilyStep ==
  Formedness /\ RotationInv /\ StaleInv /\ FamilyInv /\ [Next]_vars => FamilyInv'
<1> SUFFICES ASSUME Formedness, RotationInv, StaleInv, FamilyInv, [Next]_vars
             PROVE  FamilyInv'
  OBVIOUS
<1>1. CASE UNCHANGED vars
  BY <1>1, FamilyAging DEF vars, RowsAge
<1>2. ASSUME NEW r \in Requests, Action(r) PROVE FamilyInv'
  <2>1. CASE IssueSession(r)
    BY <2>1, FamilyIssuing
  <2>2. CASE ~IssueSession(r)
    <3>1. RowsAge
      BY <1>2, <2>2, Aging DEF RotationInv
    <3>2. ASSUME NEW s \in Requests, session[s] # NoRow
          PROVE  req'[s].stale = req[s].stale
      <4>1. req[s].pc # "idle"
        BY <3>2 DEF RotationInv, Fresh, Unissued
      <4>2. CASE s = r
        BY <1>2, <4>1, <4>2, CallsKeep DEF SendCredentials, SendCookie, Send
      <4>3. CASE s # r
        BY <1>2, <4>3, Moving DEF CallsMove, RotationInv
      <4> QED
        BY <4>2, <4>3
    <3> QED
      BY <3>1, <3>2, FamilyAging
  <2> QED
    BY <2>1, <2>2
<1> QED
  BY <1>1, <1>2, NextActions

(* Each login grows a chain of which at most one session can be used, for  *)
(* as long as no two refreshes made before the token was revoked both      *)
(* exchange it: a live row is nobody's parent, so it is the end of its     *)
(* chain, and a replay of a revoked token adds no row.                     *)
THEOREM OneSuccessor == Spec => []OneLiveUntilFork
<1>1. Init => FamilyInv
  BY DEF Init, FamilyInv, Rooted, Chains, Leaf, Exists, NoRow
<1>2. RotationInv /\ FamilyInv => OneLiveUntilFork
  <2> SUFFICES ASSUME RotationInv, FamilyInv,
                      NEW s \in Requests, NEW t \in Requests,
                      session[s].state = "live", session[t].state = "live",
                      session[s].root = session[t].root,
                      ~Forked(session[s].root)
               PROVE  s = t
    BY DEF OneLiveUntilFork
  <2>1. Leaf(s) /\ Leaf(t)
    BY DEF Leaf, Exists, RotationInv, ParentsRevoked
  <2> QED
    BY <2>1 DEF FamilyInv, Chains
<1>3. Init => StaleInv
  BY DEF Init, StaleInv, Unsent
<1> QED
  BY <1>1, <1>2, <1>3, FamilyStep, StaleStep, Formed, InitRotation, RotationStep, PTL
  DEF Spec, Formedness

----------------------------------------------------------------------------
(* Cookies.  A token is in the jar of the browser that was given it, and   *)
(* carried by calls of that browser alone.  If a row was revoked while its *)
(* token is still in the jar, a call that revoked it has not ended, and    *)
(* when it ends it takes the token away.                                   *)

Ending(r, s) ==
  req[r].token = s /\ req[r].pc \in {"issuing", "answering", "clearing", "lost"}

Carried ==
  \A r \in Requests : req[r].token # NoToken =>
    /\ req[req[r].token].pc = "ok"
    /\ req[req[r].token].browser = req[r].browser

AnswersLive ==
  \A r \in Requests : req[r].pc = "answering" => session[r].state = "live"

Kept ==
  \A b \in Browsers : jar[b] # NoToken =>
    /\ req[jar[b]].pc = "ok" /\ req[jar[b]].browser = b
    /\ ~session[jar[b]].expired
    /\ session[jar[b]].state = "live" \/ \E r \in Requests : Ending(r, jar[b])

CookieInv == Carried /\ AnswersLive /\ Kept

(* A call that is sent carries what the jar of its browser holds.          *)
LEMMA SendingKeeps ==
  ASSUME Formedness, CookieInv, NEW r \in Requests, NEW call,
         Send(r, call), UNCHANGED <<session, jar>>,
         call.pc = "sent",
         \/ call.token = NoToken
         \/ call.browser \in Browsers /\ call.token = jar[call.browser]
  PROVE  CookieInv'
<1>1. /\ req[r].pc = "idle" /\ req'[r] = call
      /\ \A q \in Requests \ {r} : req'[q] = req[q]
  BY DEF Send, Formedness, TypeOK
<1>2. /\ \A q \in Requests : req[q].token \in Tokens
      /\ \A b \in Browsers : jar[b] \in Tokens
  BY DEF Formedness, TypeOK, RequestState
<1>3. \A s \in Requests : req[s].pc = "ok" => s # r /\ req'[s] = req[s]
  BY <1>1
<1>4. Carried'
  <2> SUFFICES ASSUME NEW q \in Requests, req'[q].token # NoToken
               PROVE  /\ req'[req'[q].token].pc = "ok"
                      /\ req'[req'[q].token].browser = req'[q].browser
    BY DEF Carried
  <2>1. CASE q = r
    BY <1>1, <1>2, <1>3, <2>1 DEF CookieInv, Kept, Tokens
  <2>2. CASE q # r
    BY <1>1, <1>2, <1>3, <2>2 DEF CookieInv, Carried, Tokens
  <2> QED
    BY <2>1, <2>2
<1>5. AnswersLive'
  BY <1>1 DEF CookieInv, AnswersLive
<1>6. Kept'
  <2> SUFFICES ASSUME NEW b \in Browsers, jar[b] # NoToken
               PROVE  /\ req'[jar[b]].pc = "ok" /\ req'[jar[b]].browser = b
                      /\ ~session[jar[b]].expired
                      /\ session[jar[b]].state = "live" \/ \E q \in Requests : Ending(q, jar[b])'
    BY DEF Kept
  <2>1. jar[b] \in Requests /\ req'[jar[b]] = req[jar[b]]
    BY <1>2, <1>3 DEF CookieInv, Kept, Tokens
  <2>2. \A q \in Requests : Ending(q, jar[b]) => Ending(q, jar[b])'
    BY <1>1 DEF Ending
  <2> QED
    BY <2>1, <2>2 DEF CookieInv, Kept
<1> QED
  BY <1>4, <1>5, <1>6 DEF CookieInv

(* A handler that goes on, with its jar as it is.  It may revoke the row   *)
(* of its token, if that leaves it ending, or issue its own.               *)
LEMMA GoingKeeps ==
  ASSUME Formedness, CookieInv, NEW r \in Requests, UNCHANGED jar,
         NEW pc \in InFlight \cup Refused \cup {"idle", "ok", "lost"},
         Goto(r, pc), req[r].pc # "ok",
         \A s \in Requests : Ending(r, s) => pc \in {"issuing", "answering", "clearing", "lost"},
         pc = "answering" => session'[r].state = "live",
         \A s \in Requests \ {r} :
           /\ session'[s].expired = session[s].expired
           /\ \/ session'[s].state = session[s].state
              \/ req[r].token = s /\ pc \in {"issuing", "clearing"}
  PROVE  CookieInv'
<1>1. /\ req'[r].pc = pc
      /\ \A q \in Requests \ {r} : req'[q].pc = req[q].pc
      /\ \A q \in Requests : /\ req'[q].token = req[q].token
                             /\ req'[q].browser = req[q].browser
  BY GotoEffect DEF Formedness, TypeOK
<1>2. /\ \A q \in Requests : req[q].token \in Tokens
      /\ \A b \in Browsers : jar[b] \in Tokens
  BY DEF Formedness, TypeOK, RequestState
<1>3. Carried'
  BY <1>1, <1>2 DEF CookieInv, Carried, Tokens
<1>4. AnswersLive'
  <2> SUFFICES ASSUME NEW q \in Requests \ {r}, req[q].pc = "answering"
               PROVE  session'[q].state = "live"
    BY <1>1 DEF AnswersLive
  <2>1. req[r].token # q
    BY DEF CookieInv, Carried, NoTokenAssumption
  <2> QED
    BY <2>1 DEF CookieInv, AnswersLive
<1>5. Kept'
  <2> SUFFICES ASSUME NEW b \in Browsers, jar[b] # NoToken
               PROVE  /\ req'[jar[b]].pc = "ok" /\ req'[jar[b]].browser = b
                      /\ ~session'[jar[b]].expired
                      /\ session'[jar[b]].state = "live" \/ \E q \in Requests : Ending(q, jar[b])'
    BY DEF Kept
  <2>1. jar[b] \in Requests \ {r}
    BY <1>2 DEF CookieInv, Kept, Tokens
  <2>2. \A q \in Requests : Ending(q, jar[b]) => Ending(q, jar[b])'
    BY <1>1, <2>1 DEF Ending
  <2>3. CASE session'[jar[b]].state = session[jar[b]].state
    BY <1>1, <2>1, <2>2, <2>3 DEF CookieInv, Kept
  <2>4. CASE req[r].token = jar[b] /\ pc \in {"issuing", "clearing"}
    <3>1. Ending(r, jar[b])'
      BY <1>1, <2>4 DEF Ending
    <3> QED
      BY <1>1, <2>1, <3>1 DEF CookieInv, Kept
  <2> QED
    BY <2>1, <2>3, <2>4
<1> QED
  BY <1>3, <1>4, <1>5 DEF CookieInv

(* An answer sets the cookie of the caller's browser: to a live token of   *)
(* its own, or to none.                                                    *)
LEMMA AnsweringKeeps ==
  ASSUME Formedness, CookieInv, NEW r \in Requests, NEW token,
         Goto(r, "ok"), UNCHANGED session, req[r].pc # "ok",
         jar' = [jar EXCEPT ![req[r].browser] = token],
         \/ token = NoToken
         \/ token = r /\ session[r].state = "live" /\ ~session[r].expired
  PROVE  CookieInv'
<1>1. /\ req'[r].pc = "ok"
      /\ \A q \in Requests \ {r} : req'[q].pc = req[q].pc
      /\ \A q \in Requests : /\ req'[q].token = req[q].token
                             /\ req'[q].browser = req[q].browser
  BY GotoEffect DEF Formedness, TypeOK
<1>2. /\ \A q \in Requests : req[q].token \in Tokens
      /\ \A b \in Browsers : jar[b] \in Tokens
      /\ jar \in [Browsers -> Tokens]
  BY DEF Formedness, TypeOK, RequestState
<1>3. Carried'
  BY <1>1, <1>2 DEF CookieInv, Carried, Tokens
<1>4. AnswersLive'
  BY <1>1 DEF CookieInv, AnswersLive
<1>5. Kept'
  <2> SUFFICES ASSUME NEW b \in Browsers, jar'[b] # NoToken
               PROVE  /\ req'[jar'[b]].pc = "ok" /\ req'[jar'[b]].browser = b
                      /\ ~session[jar'[b]].expired
                      /\ \/ session[jar'[b]].state = "live"
                         \/ \E q \in Requests : Ending(q, jar[b])' /\ jar'[b] = jar[b]
    BY DEF Kept, Ending
  <2>1. CASE b = req[r].browser
    BY <1>1, <1>2, <2>1
  <2>2. CASE b # req[r].browser
    <3>1. jar'[b] = jar[b] /\ jar[b] \in Requests /\ jar[b] # r
      BY <1>2, <2>2 DEF CookieInv, Kept, Tokens
    <3>2. ASSUME NEW q \in Requests, Ending(q, jar[b]) PROVE Ending(q, jar[b])'
      <4>1. req[q].token = jar[b] /\ req[jar[b]].browser = b
        BY <3>1, <3>2 DEF Ending, CookieInv, Kept
      <4>2. req[q].browser = b
        BY <3>1, <4>1 DEF CookieInv, Carried
      <4>3. q # r
        BY <2>2, <4>2
      <4> QED
        BY <1>1, <3>1, <3>2, <4>3 DEF Ending
    <3> QED
      BY <1>1, <3>1, <3>2 DEF CookieInv, Kept
  <2> QED
    BY <2>1, <2>2
<1> QED
  BY <1>3, <1>4, <1>5 DEF CookieInv

LEMMA ExpiringKeeps ==
  ASSUME Formedness, CookieInv, NEW r \in Requests, Expire(r) PROVE CookieInv'
<1>1. /\ UNCHANGED req
      /\ session' = [session EXCEPT ![r].expired = TRUE]
      /\ jar' = [b \in Browsers |-> IF jar[b] = r THEN NoToken ELSE jar[b]]
  BY DEF Expire
<1>2. session \in [Requests -> SessionRow] /\ \A b \in Browsers : jar[b] \in Tokens
  BY DEF Formedness, TypeOK
<1>3. /\ \A s \in Requests : session'[s].state = session[s].state
      /\ \A s \in Requests \ {r} : session'[s] = session[s]
  <2>1. session[r] \in SessionRow /\ session'[r] = [session[r] EXCEPT !.expired = TRUE]
    BY <1>1, <1>2
  <2>2. session'[r].state = session[r].state
    BY <2>1 DEF SessionRow
  <2>3. \A s \in Requests \ {r} : session'[s] = session[s]
    BY <1>1, <1>2
  <2> QED
    BY <2>2, <2>3
<1>4. Carried' /\ AnswersLive'
  BY <1>1, <1>3 DEF CookieInv, Carried, AnswersLive
<1>5. Kept'
  <2> SUFFICES ASSUME NEW b \in Browsers, jar'[b] # NoToken
               PROVE  /\ req[jar'[b]].pc = "ok" /\ req[jar'[b]].browser = b
                      /\ ~session'[jar'[b]].expired
                      /\ session'[jar'[b]].state = "live" \/ \E q \in Requests : Ending(q, jar'[b])
    BY <1>1 DEF Kept, Ending
  <2>1. jar'[b] = jar[b] /\ jar[b] \in Requests \ {r}
    BY <1>1, <1>2 DEF Tokens
  <2> QED
    BY <1>3, <2>1 DEF CookieInv, Kept
<1> QED
  BY <1>4, <1>5 DEF CookieInv

(* A handler that revokes the row of its token, or none.                   *)
LEMMA RowsRevoked ==
  ASSUME Formedness, NEW r \in Requests,
         \/ UNCHANGED session
         \/ req[r].token # NoToken /\ session' = Revoked(req[r].token)
  PROVE  \A s \in Requests :
           /\ session'[s].expired = session[s].expired
           /\ session'[s].state = session[s].state \/ req[r].token = s
<1>1. CASE UNCHANGED session
  BY <1>1
<1>2. CASE req[r].token # NoToken /\ session' = Revoked(req[r].token)
  <2> DEFINE t == req[r].token
  <2>1. t \in Requests /\ session \in [Requests -> SessionRow]
    BY <1>2 DEF Formedness, TypeOK, RequestState, Tokens
  <2>2. session[t] \in SessionRow /\ session'[t] = [session[t] EXCEPT !.state = "revoked"]
    BY <1>2, <2>1 DEF Revoked
  <2>3. session'[t].expired = session[t].expired
    BY <2>2 DEF SessionRow
  <2>4. \A s \in Requests \ {t} : session'[s] = session[s]
    BY <1>2, <2>1 DEF Revoked
  <2> QED
    BY <2>3, <2>4
<1> QED
  BY <1>1, <1>2

LEMMA CookieStep == Formedness /\ RotationInv /\ CookieInv /\ [Next]_vars => CookieInv'
<1> SUFFICES ASSUME Formedness, RotationInv, CookieInv, [Next]_vars PROVE CookieInv'
  OBVIOUS
<1> USE DEF InFlight, Refused
<1>1. CASE UNCHANGED vars
  BY <1>1 DEF vars, CookieInv, Carried, AnswersLive, Kept, Ending
<1>2. ASSUME NEW r \in Requests, Action(r) PROVE CookieInv'
  <2>1. ASSUME NEW b \in Browsers, NEW kind \in {"register", "login"},
               NEW email \in Emails, SendCredentials(r, b, kind, email)
        PROVE  CookieInv'
    BY <2>1, SendingKeeps DEF SendCredentials, Unsent
  <2>2. ASSUME NEW b \in Browsers, NEW kind \in {"refresh", "logout"},
               SendCookie(r, b, kind)
        PROVE  CookieInv'
    BY <2>2, SendingKeeps DEF SendCookie, Unsent
  <2>3. CASE RegisterCheck(r) \/ RegisterCreate(r) \/ Login(r)
    BY <2>3, GoingKeeps DEF RegisterCheck, RegisterCreate, Login, Sent, Ending
  <2>4. CASE RefreshCheck(r)
    BY <2>4, GoingKeeps DEF RefreshCheck, Sent, Ending
  <2>5. CASE RefreshRevoke(r)
    <3>1. req[r].token # NoToken /\ session' = Revoked(req[r].token) /\ req[r].pc = "revoking"
      BY <2>5 DEF RefreshRevoke, Formedness, CallForm
    <3> QED
      BY <2>5, <3>1, RowsRevoked, GoingKeeps DEF RefreshRevoke
  <2>6. CASE IssueSession(r)
    <3>1. /\ session'[r].state = "live"
          /\ \A s \in Requests \ {r} : session'[s] = session[s]
      BY <2>6, Issuing DEF RotationInv
    <3> QED
      BY <2>6, <3>1, GoingKeeps DEF IssueSession
  <2>7. CASE Answer(r)
    <3>1. session[r].state = "live" /\ req[r].pc # "ok"
      BY <2>7 DEF Answer, CookieInv, AnswersLive
    <3> QED
      BY <2>7, <3>1, AnsweringKeeps DEF Answer, Cookie
  <2>8. CASE Logout(r)
    <3>1. /\ req[r].pc = "sent"
          /\ \/ UNCHANGED session
             \/ req[r].token # NoToken /\ session' = Revoked(req[r].token)
      BY <2>8 DEF Logout, Sent
    <3> QED
      BY <2>8, <3>1, RowsRevoked, GoingKeeps DEF Logout
  <2>9. CASE ClearCookie(r)
    BY <2>9, AnsweringKeeps DEF ClearCookie
  <2>10. CASE Lose(r)
    BY <2>10, GoingKeeps DEF Lose
  <2>11. CASE Expire(r)
    BY <2>11, ExpiringKeeps
  <2> QED
    BY <1>2, <2>1, <2>2, <2>3, <2>4, <2>5, <2>6, <2>7, <2>8, <2>9, <2>10, <2>11 DEF Action
<1> QED
  BY <1>1, <1>2, NextActions

(* A browser that holds a token which will be refused has a call with that *)
(* token under way, or cut off half way: whatever else its other calls,    *)
(* and other browsers, did meanwhile.                                      *)
THEOREM NoStaleCookie == Spec => []CookieUsable
<1>1. Init => CookieInv
  BY DEF Init, CookieInv, Carried, AnswersLive, Kept, Unsent
<1>2. CookieInv => CookieUsable
  <2> SUFFICES ASSUME CookieInv, NEW b \in Browsers, jar[b] # NoToken, ~Valid(jar[b])
               PROVE  \E r \in Requests :
                        req[r].token = jar[b] /\ req[r].pc \in InFlight \cup {"lost"}
    BY DEF CookieUsable
  <2> QED
    BY DEF CookieInv, Kept, Valid, Ending, InFlight
<1> QED
  BY <1>1, <1>2, CookieStep, Formed, InitRotation, RotationStep, PTL DEF Spec, Formedness

=============================================================================
