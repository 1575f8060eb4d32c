------------------------------ MODULE TaskProofs ------------------------------
(***************************************************************************)
(* What holds of tasks: of the boards that show them (TaskBoard), for any  *)
(* tasks, columns, viewers and calls, and of the notifications of who is   *)
(* assigned to them (Notifications), for any calls and users, any number   *)
(* of attempts and any number of times a job is handed on.                 *)
(***************************************************************************)
EXTENDS TaskBoard, Notifications, TLAPS

USE ColumnAssumption

----------------------------------------------------------------------------
(* Events on their way: what a board has still to hear of a task.          *)

OnlyCreated(events, t) ==
  \A i \in 1 .. Len(events) : events[i].task = t => events[i].type = "created"

HasCreated(events, t) ==
  \E i \in 1 .. Len(events) : events[i].task = t /\ events[i].type = "created"

(* The last event about the task, if there is one, brings it to column s.  *)
LastSays(events, t, s) ==
  \A i \in 1 .. Len(events) :
    events[i].task = t /\ (\A j \in 1 .. Len(events) : i < j => events[j].task # t)
    => events[i].to = s

(* Nothing about the task comes before its creation.                       *)
CreatedFirst(events, t) ==
  \A i, j \in 1 .. Len(events) :
    i < j /\ events[j].task = t /\ events[j].type = "created" => events[i].task # t

(* One more event.                                                         *)
LEMMA OneMore ==
  ASSUME NEW events \in Seq(Event), NEW e \in Event, NEW t, NEW s
  PROVE  /\ NoneAbout(Append(events, e), t) <=> NoneAbout(events, t) /\ e.task # t
         /\ OnlyCreated(Append(events, e), t)
            <=> OnlyCreated(events, t) /\ (e.task = t => e.type = "created")
         /\ HasCreated(Append(events, e), t)
            <=> HasCreated(events, t) \/ (e.task = t /\ e.type = "created")
         /\ e.task = t => (LastSays(Append(events, e), t, s) <=> e.to = s)
         /\ e.task # t => (LastSays(Append(events, e), t, s) <=> LastSays(events, t, s))
         /\ CreatedFirst(Append(events, e), t)
            <=> /\ CreatedFirst(events, t)
                /\ e.task = t /\ e.type = "created" => NoneAbout(events, t)
<1> DEFINE more == Append(events, e)
           n == Len(events)
<1>1. /\ n \in Nat /\ Len(more) = n + 1 /\ more[n + 1] = e
      /\ \A i \in 1 .. n : more[i] = events[i]
  OBVIOUS
<1> HIDE DEF more, n
<1>2. /\ \A i \in 1 .. n + 1 : i \in 1 .. n \/ i = n + 1
      /\ n + 1 \in 1 .. n + 1
      /\ \A i \in 1 .. n : i \in 1 .. n + 1 /\ i < n + 1 /\ i # n + 1
      /\ \A i \in 1 .. n + 1 : ~(n + 1 < i)
  BY <1>1
<1>3. Len(events) = n
  BY DEF n
<1>4. NoneAbout(more, t) <=> NoneAbout(events, t) /\ e.task # t
  BY <1>1, <1>2, <1>3 DEF NoneAbout
<1>5. OnlyCreated(more, t)
      <=> OnlyCreated(events, t) /\ (e.task = t => e.type = "created")
  BY <1>1, <1>2, <1>3 DEF OnlyCreated
<1>6. HasCreated(more, t)
      <=> HasCreated(events, t) \/ (e.task = t /\ e.type = "created")
  BY <1>1, <1>2, <1>3 DEF HasCreated
<1>7. ASSUME e.task = t PROVE LastSays(more, t, s) <=> e.to = s
  BY <1>1, <1>2, <1>7 DEF LastSays
<1>8. ASSUME e.task # t PROVE LastSays(more, t, s) <=> LastSays(events, t, s)
  BY <1>1, <1>2, <1>3, <1>8 DEF LastSays
<1>9. CreatedFirst(more, t)
      <=> /\ CreatedFirst(events, t)
          /\ e.task = t /\ e.type = "created" => NoneAbout(events, t)
  BY <1>1, <1>2, <1>3 DEF CreatedFirst, NoneAbout
<1> QED
  BY <1>4, <1>5, <1>6, <1>7, <1>8, <1>9 DEF more

(* One event less.                                                         *)
LEMMA OneLess ==
  ASSUME NEW events \in Seq(Event), events # <<>>, NEW t, NEW s
  PROVE  /\ Head(events) \in Event /\ Tail(events) \in Seq(Event)
         /\ \A i \in 1 .. Len(Tail(events)) :
              i + 1 \in 1 .. Len(events) /\ Tail(events)[i] = events[i + 1]
         /\ 1 \in 1 .. Len(events) /\ Head(events) = events[1]
         /\ NoneAbout(events, t) <=> Head(events).task # t /\ NoneAbout(Tail(events), t)
         /\ OnlyCreated(events, t)
            <=> /\ Head(events).task = t => Head(events).type = "created"
                /\ OnlyCreated(Tail(events), t)
         /\ HasCreated(events, t)
            <=> \/ Head(events).task = t /\ Head(events).type = "created"
                \/ HasCreated(Tail(events), t)
         /\ LastSays(events, t, s)
            => /\ LastSays(Tail(events), t, s)
               /\ Head(events).task = t /\ NoneAbout(Tail(events), t)
                  => Head(events).to = s
         /\ CreatedFirst(events, t)
            => /\ CreatedFirst(Tail(events), t)
               /\ Head(events).task = t => ~HasCreated(Tail(events), t)
<1> DEFINE rest == Tail(events)
           e == Head(events)
           n == Len(rest)
<1>1. /\ e \in Event /\ rest \in Seq(Event)
      /\ n \in Nat /\ Len(events) = n + 1 /\ e = events[1]
      /\ \A i \in 1 .. n : i + 1 \in 1 .. n + 1 /\ rest[i] = events[i + 1]
  OBVIOUS
<1>2. \A i \in 1 .. n + 1 : i = 1 \/ (i - 1 \in 1 .. n /\ events[i] = rest[i - 1])
  <2>1. ASSUME NEW i \in 1 .. n + 1, i # 1 PROVE i - 1 \in 1 .. n /\ events[i] = rest[i - 1]
    <3>1. i - 1 \in 1 .. n /\ (i - 1) + 1 = i
      BY <1>1, <2>1
    <3> QED
      BY <1>1, <3>1
  <2> QED
    BY <2>1
<1> HIDE DEF rest, e, n
<1>3. /\ 1 \in 1 .. n + 1 /\ \A i \in 1 .. n : 1 < i + 1
      /\ \A i \in 1 .. n + 1 : ~(i < 1)
      /\ \A i, j \in 1 .. n : i < j <=> i + 1 < j + 1
      /\ \A i \in 1 .. n, j \in 1 .. n + 1 : i + 1 < j => j - 1 \in 1 .. n /\ i < j - 1
  BY <1>1
<1>4. Len(rest) = n
  BY DEF n
<1>5. NoneAbout(events, t) <=> e.task # t /\ NoneAbout(rest, t)
  BY <1>1, <1>2, <1>3, <1>4 DEF NoneAbout
<1>6. OnlyCreated(events, t)
      <=> (e.task = t => e.type = "created") /\ OnlyCreated(rest, t)
  BY <1>1, <1>2, <1>3, <1>4 DEF OnlyCreated
<1>7. HasCreated(events, t)
      <=> (e.task = t /\ e.type = "created") \/ HasCreated(rest, t)
  BY <1>1, <1>2, <1>3, <1>4 DEF HasCreated
<1>8. ASSUME LastSays(events, t, s)
      PROVE  /\ LastSays(rest, t, s)
             /\ e.task = t /\ NoneAbout(rest, t) => e.to = s
  <2>1. ASSUME NEW i \in 1 .. n, rest[i].task = t,
               \A j \in 1 .. n : i < j => rest[j].task # t
        PROVE  rest[i].to = s
    <3>1. \A j \in 1 .. n + 1 : i + 1 < j => events[j].task # t
      BY <1>2, <1>3, <2>1
    <3> QED
      BY <1>1, <1>8, <2>1, <3>1 DEF LastSays
  <2>2. ASSUME e.task = t, NoneAbout(rest, t) PROVE e.to = s
    <3>1. \A j \in 1 .. n + 1 : 1 < j => events[j].task # t
      BY <1>2, <1>4, <2>2 DEF NoneAbout
    <3> QED
      BY <1>1, <1>3, <1>8, <2>2, <3>1 DEF LastSays
  <2> QED
    BY <1>4, <2>1, <2>2 DEF LastSays
<1>9. ASSUME CreatedFirst(events, t)
      PROVE  /\ CreatedFirst(rest, t)
             /\ e.task = t => ~HasCreated(rest, t)
  BY <1>1, <1>3, <1>4, <1>9 DEF CreatedFirst, HasCreated
<1> QED
  BY <1>1, <1>3, <1>4, <1>5, <1>6, <1>7, <1>8, <1>9 DEF rest, e

----------------------------------------------------------------------------
(* The invariant.                                                          *)

Created(t) ==
  \E r \in Requests : req[r].kind = "create" /\ req[r].task = t /\ req[r].wrote

Creating(t) ==
  \E r \in Requests : req[r].kind = "create" /\ req[r].pc = "written" /\ req[r].task = t

OnlyCreating(t) ==
  \A r \in Requests : req[r].pc = "written" /\ req[r].task = t => req[r].kind = "create"

(* The board has fetched or fetches, and missed nothing since.             *)
Current(v) == fetch[v].at # "none" /\ v \notin behind

(* What it shows, or will show once it has the answer.                     *)
Held(v) == IF Underway(v) THEN fetch[v].result ELSE cache[v]

(* A call whose event is out.                                              *)
Announced == {"published", "ok"}

USE DEF Announced

(* What a call carries at each point.                                      *)
CallForm(r) ==
  /\ req[r].pc \in {"idle", "sent", "placing", "checked"} => ~req[r].wrote
  /\ req[r].pc \in {"written", "published", "ok"} => req[r].wrote
  /\ req[r].pc # "idle" => req[r].kind # "none" /\ req[r].task \in Tasks
  /\ req[r].pc = "idle" => req[r].kind = "none"
  /\ req[r].kind = "create" => req[r].to = "TODO"
  /\ req[r].kind = "move" => req[r].to \in Columns
  /\ req[r].kind = "delete" => req[r].to = "none"
  /\ req[r].pc = "placing" => req[r].kind = "create"
  /\ req[r].pc = "checked" => req[r].kind # "create"
  /\ req[r].kind = "move" /\ req[r].waiting => req[r].viewer \in Viewers
  /\ req[r].kind = "delete" /\ req[r].wrote => status[req[r].task] = "none"

OneCreator ==
  \A r, q \in Requests :
    req[r].kind = "create" /\ req[q].kind = "create" /\ req[r].task = req[q].task => r = q

(* Nothing is written to a task before its creation; and while handlers of *)
(* it do not overlap between write and publish, at most one has written    *)
(* without having published, the row is as that one wrote it, and if it is *)
(* the creation nothing else was written.                                  *)
RowFine(t) ==
  /\ ~Created(t) => /\ status[t] = "none"
                    /\ \A r \in Requests : req[r].task = t => ~req[r].wrote
  /\ t \notin raced =>
       \A r \in Requests :
         req[r].pc = "written" /\ req[r].task = t
         => /\ status[t] = req[r].to
            /\ \A q \in Requests : req[q].task = t /\ req[q].pc = "written" => q = r
            /\ req[r].kind = "create" =>
                 \A q \in Requests : req[q].task = t /\ req[q].wrote => q = r

(* The events on their way are of calls that are done; a creation comes    *)
(* first, and when no event is still to be published the last one tells    *)
(* what the row is.                                                        *)
MailFine(v) ==
  /\ v \notin joined => inbox[v] = <<>>
  /\ \A i \in 1 .. Len(inbox[v]) :
       \E r \in Requests : req[r].pc \in Announced /\ inbox[v][i] = EventOf(r)
  /\ \A t \in Tasks \ raced :
       /\ CreatedFirst(inbox[v], t)
       /\ ~Lost(t) /\ ~Unannounced(t) => LastSays(inbox[v], t, status[t])

(* A board lacks a task only when there is none or its creation is still   *)
(* to come; a task with nothing to come is shown as it is, and one of      *)
(* which only the creation is to come is so too, if at all.                *)
Follows(v, t) ==
  Current(v) /\ ~Lost(t) =>
    /\ Held(v)[t] = "none"
       => status[t] = "none" \/ HasCreated(inbox[v], t) \/ Creating(t)
    /\ t \notin raced /\ ~Moving(v, t) =>
         /\ ~Unannounced(t) /\ NoneAbout(inbox[v], t) => Held(v)[t] = status[t]
         /\ OnlyCreating(t) /\ OnlyCreated(inbox[v], t)
            => Held(v)[t] \in {"none", status[t]}

CallsFine ==
  /\ \A r \in Requests : CallForm(r)
  /\ OneCreator
  /\ \A t \in Tasks : RowFine(t)

BoardInv ==
  /\ BoardTypeOK
  /\ CallsFine
  /\ \A v \in Viewers : MailFine(v) /\ \A t \in Tasks : Follows(v, t)

----------------------------------------------------------------------------
(* Steps that leave parts of it alone.                                     *)

LEMMA CallsStay ==
  ASSUME CallsFine, UNCHANGED <<req, status, raced>> PROVE CallsFine'
BY DEF CallsFine, CallForm, OneCreator, RowFine, Created

LEMMA MailStays ==
  ASSUME NEW v \in Viewers, MailFine(v), UNCHANGED <<req, status, raced>>,
         inbox'[v] = inbox[v], v \notin joined' => v \notin joined
  PROVE  MailFine(v)'
BY DEF MailFine, Lost, Unannounced, EventOf

(* What a board holds of a task and has to hear of it may only change      *)
(* together.                                                               *)
LEMMA FollowsStays ==
  ASSUME NEW v \in Viewers, NEW t \in Tasks, Follows(v, t),
         Current(v)' => Current(v) /\ Held(v)'[t] = Held(v)[t],
         Current(v)' /\ NoneAbout(inbox[v], t)' => NoneAbout(inbox[v], t),
         Current(v)' /\ OnlyCreated(inbox[v], t)' => OnlyCreated(inbox[v], t),
         Current(v)' /\ HasCreated(inbox[v], t) => HasCreated(inbox[v], t)',
         Current(v)' /\ Moving(v, t) => Moving(v, t)',
         status'[t] = status[t], t \in raced => t \in raced', Lost(t) => Lost(t)',
         Unannounced(t) => Unannounced(t)' \/ Lost(t)',
         Creating(t) => Creating(t)' \/ Lost(t)',
         OnlyCreating(t)' => OnlyCreating(t) \/ Lost(t)'
  PROVE  Follows(v, t)'
BY DEF Follows

LEMMA CallsAlike ==
  ASSUME NEW t, UNCHANGED req
  PROVE  /\ Lost(t)' <=> Lost(t)
         /\ Unannounced(t)' <=> Unannounced(t)
         /\ Creating(t)' <=> Creating(t)
         /\ OnlyCreating(t)' <=> OnlyCreating(t)
         /\ \A v : Moving(v, t)' <=> Moving(v, t)
BY DEF Lost, Unannounced, Creating, OnlyCreating, Moving

(* A viewer's step that touches no call and no row.                        *)
LEMMA ViewerStep ==
  ASSUME BoardInv, BoardTypeOK', NEW v \in Viewers, UNCHANGED <<req, status, raced>>,
         MailFine(v)', \A t \in Tasks : Follows(v, t)',
         \A u \in Viewers \ {v} : /\ cache'[u] = cache[u] /\ fetch'[u] = fetch[u]
                                  /\ inbox'[u] = inbox[u]
                                  /\ u \in joined' <=> u \in joined
                                  /\ u \in behind' <=> u \in behind
  PROVE  BoardInv'
<1>1. ASSUME NEW u \in Viewers \ {v} PROVE MailFine(u)'
  BY <1>1, MailStays DEF BoardInv
<1>2. ASSUME NEW u \in Viewers \ {v}, NEW t \in Tasks PROVE Follows(u, t)'
  <2>1. /\ Current(u)' => Current(u) /\ Held(u)'[t] = Held(u)[t]
        /\ NoneAbout(inbox[u], t)' <=> NoneAbout(inbox[u], t)
        /\ OnlyCreated(inbox[u], t)' <=> OnlyCreated(inbox[u], t)
        /\ HasCreated(inbox[u], t)' <=> HasCreated(inbox[u], t)
    BY <1>2 DEF Current, Held, Underway, NoneAbout, OnlyCreated, HasCreated
  <2>2. Follows(u, t)
    BY <1>2 DEF BoardInv
  <2> QED
    BY <2>1, <2>2, CallsAlike, FollowsStays
<1>3. CallsFine'
  BY CallsStay DEF BoardInv
<1> QED
  BY <1>1, <1>2, <1>3 DEF BoardInv

----------------------------------------------------------------------------
(* The boards.                                                             *)

LEMMA JoinKeeps ==
  ASSUME BoardInv, NEW v \in Viewers, Join(v) PROVE BoardInv'
<1>1. /\ BoardTypeOK /\ MailFine(v) /\ UNCHANGED <<req, status, raced>>
      /\ joined' = joined \cup {v}
      /\ UNCHANGED <<position, cache, fetch, inbox, behind>>
  BY DEF BoardInv, Join, eventVars
<1>2. BoardTypeOK'
  BY <1>1 DEF BoardTypeOK
<1>3. MailFine(v)'
  BY <1>1, MailStays
<1>4. ASSUME NEW t \in Tasks PROVE Follows(v, t)'
  <2>1. Follows(v, t)
    BY DEF BoardInv
  <2>2. /\ Current(v)' <=> Current(v)
        /\ Held(v)' = Held(v)
        /\ NoneAbout(inbox[v], t)' <=> NoneAbout(inbox[v], t)
        /\ OnlyCreated(inbox[v], t)' <=> OnlyCreated(inbox[v], t)
        /\ HasCreated(inbox[v], t)' <=> HasCreated(inbox[v], t)
    BY <1>1 DEF Current, Held, Underway, NoneAbout, OnlyCreated, HasCreated
  <2> QED
    BY <1>1, <2>1, <2>2, CallsAlike, FollowsStays
<1> QED
  BY <1>1, <1>2, <1>3, <1>4, ViewerStep

(* What is read is what the rows are, whatever is still on its way.        *)
LEMMA ReadTasksKeeps ==
  ASSUME BoardInv, NEW v \in Viewers, ReadTasks(v) PROVE BoardInv'
<1> DEFINE at == IF Loaded(v) THEN "reread" ELSE "read"
           read == [at |-> at, result |-> status]
<1>1. /\ BoardTypeOK /\ MailFine(v) /\ UNCHANGED <<req, status, raced>>
      /\ fetch' = [fetch EXCEPT ![v] = read] /\ behind' = behind \ {v}
      /\ UNCHANGED <<position, cache, joined, inbox>>
  BY DEF BoardInv, ReadTasks
<1>2. read \in Fetch /\ read.at \in {"read", "reread"} /\ read.result = status
  BY <1>1 DEF BoardTypeOK, Fetch
<1> HIDE DEF read
<1>3. /\ BoardTypeOK' /\ fetch'[v] = read
      /\ \A u \in Viewers \ {v} : fetch'[u] = fetch[u]
  BY <1>1, <1>2 DEF BoardTypeOK
<1>4. MailFine(v)'
  BY <1>1, MailStays
<1>5. ASSUME NEW t \in Tasks PROVE Follows(v, t)'
  <2>1. Held(v)' = status'
    BY <1>1, <1>2, <1>3 DEF Held, Underway
  <2> QED
    BY <2>1 DEF Follows
<1> QED
  BY <1>1, <1>3, <1>4, <1>5, ViewerStep

(* The answer of a fetch is put in place, or there is none.                *)
LEMMA ShowTasksKeeps ==
  ASSUME BoardInv, NEW v \in Viewers, ShowTasks(v) PROVE BoardInv'
<1> DEFINE none == [at |-> "done", result |-> Empty]
<1>1. /\ BoardTypeOK /\ MailFine(v) /\ UNCHANGED <<req, status, raced>> /\ Underway(v)
      /\ cache' = [cache EXCEPT ![v] = fetch[v].result]
      /\ fetch' = [fetch EXCEPT ![v] = none]
      /\ UNCHANGED <<position, joined, inbox, behind>>
  BY DEF BoardInv, ShowTasks, Settled, eventVars
<1>2. none \in Fetch /\ none.at = "done" /\ fetch[v] \in Fetch /\ fetch[v].result \in Shown
  BY <1>1 DEF BoardTypeOK, Fetch, Empty, Shown
<1> HIDE DEF none
<1>3. /\ BoardTypeOK' /\ fetch'[v] = none /\ cache'[v] = fetch[v].result
      /\ \A u \in Viewers \ {v} : fetch'[u] = fetch[u] /\ cache'[u] = cache[u]
  BY <1>1, <1>2 DEF BoardTypeOK
<1>4. MailFine(v)'
  BY <1>1, MailStays
<1>5. ASSUME NEW t \in Tasks PROVE Follows(v, t)'
  <2>1. Follows(v, t)
    BY DEF BoardInv
  <2>2. /\ Current(v)' => Current(v)
        /\ Held(v)' = Held(v)
        /\ NoneAbout(inbox[v], t)' <=> NoneAbout(inbox[v], t)
        /\ OnlyCreated(inbox[v], t)' <=> OnlyCreated(inbox[v], t)
        /\ HasCreated(inbox[v], t)' <=> HasCreated(inbox[v], t)
    BY <1>1, <1>2, <1>3 DEF Current, Held, Underway, NoneAbout, OnlyCreated, HasCreated
  <2> QED
    BY <1>1, <2>1, <2>2, CallsAlike, FollowsStays
<1> QED
  BY <1>1, <1>3, <1>4, <1>5, ViewerStep

LEMMA FailFetchKeeps ==
  ASSUME BoardInv, NEW v \in Viewers, FailFetch(v) PROVE BoardInv'
<1> DEFINE at == IF Loaded(v) THEN "done" ELSE "none"
           none == [at |-> at, result |-> Empty]
<1>1. /\ BoardTypeOK /\ MailFine(v) /\ UNCHANGED <<req, status, raced>>
      /\ fetch' = [fetch EXCEPT ![v] = none] /\ behind' = behind \cup {v}
      /\ UNCHANGED <<position, cache, joined, inbox>>
  BY DEF BoardInv, FailFetch, Settled
<1>2. none \in Fetch
  BY DEF Fetch, Empty, Shown
<1> HIDE DEF none
<1>3. BoardTypeOK' /\ \A u \in Viewers \ {v} : fetch'[u] = fetch[u]
  BY <1>1, <1>2 DEF BoardTypeOK
<1>4. MailFine(v)' /\ \A t \in Tasks : Follows(v, t)'
  BY <1>1, MailStays DEF Follows, Current
<1> QED
  BY <1>1, <1>3, <1>4, ViewerStep

(* A board that had events on its way is behind; another loses nothing.    *)
LEMMA DisconnectKeeps ==
  ASSUME BoardInv, NEW v \in Viewers, Disconnect(v) PROVE BoardInv'
<1>1. /\ BoardTypeOK /\ MailFine(v) /\ UNCHANGED <<req, status, raced>>
      /\ joined' = joined \ {v} /\ inbox' = [inbox EXCEPT ![v] = <<>>]
      /\ behind' = IF inbox[v] # <<>> THEN behind \cup {v} ELSE behind
      /\ UNCHANGED <<position, cache, fetch>>
  BY DEF BoardInv, Disconnect
<1>2. /\ BoardTypeOK' /\ inbox'[v] = <<>>
      /\ \A u \in Viewers \ {v} : inbox'[u] = inbox[u]
  BY <1>1 DEF BoardTypeOK
<1>3. MailFine(v)'
  BY <1>2 DEF MailFine, CreatedFirst, LastSays
<1>4. ASSUME NEW t \in Tasks PROVE Follows(v, t)'
  <2>1. Follows(v, t)
    BY DEF BoardInv
  <2>2. Current(v)' => Current(v) /\ Held(v)' = Held(v) /\ inbox'[v] = inbox[v]
    BY <1>1, <1>2 DEF Current, Held, Underway
  <2>3. /\ Current(v)' => (NoneAbout(inbox[v], t)' <=> NoneAbout(inbox[v], t))
        /\ Current(v)' => (OnlyCreated(inbox[v], t)' <=> OnlyCreated(inbox[v], t))
        /\ Current(v)' => (HasCreated(inbox[v], t)' <=> HasCreated(inbox[v], t))
    BY <2>2 DEF NoneAbout, OnlyCreated, HasCreated
  <2> QED
    BY <1>1, <2>1, <2>2, <2>3, CallsAlike, FollowsStays
<1> QED
  BY <1>1, <1>2, <1>3, <1>4, ViewerStep

(* What an event tells of the call it is about.                            *)
LEMMA EventTells ==
  ASSUME BoardInv, NEW r \in Requests, req[r].wrote
  PROVE  /\ req[r].kind \in {"create", "move", "delete"} /\ req[r].task \in Tasks
         /\ EventOf(r) \in Event /\ EventOf(r).task = req[r].task
         /\ EventOf(r).to = req[r].to
         /\ EventOf(r).type = "created" <=> req[r].kind = "create"
         /\ EventOf(r).type = "created" => req[r].to = "TODO"
         /\ EventOf(r).type = "updated" => req[r].to \in Columns
         /\ EventOf(r).type = "deleted"
            => req[r].to = "none" /\ status[req[r].task] = "none"
<1>1. req[r] \in RequestState /\ CallForm(r)
  BY DEF BoardInv, BoardTypeOK, CallsFine
<1>2. req[r].pc # "idle"
  BY <1>1 DEF CallForm
<1>3. req[r].kind \in {"create", "move", "delete"} /\ req[r].task \in Tasks
  BY <1>1, <1>2 DEF CallForm, RequestState
<1>4. /\ EventOf(r).task = req[r].task /\ EventOf(r).to = req[r].to
      /\ EventOf(r).type = EventType[req[r].kind]
      /\ req[r].to \in Columns \cup {"none"}
  BY <1>1 DEF EventOf, RequestState
<1>5. /\ EventType["create"] = "created" /\ EventType["move"] = "updated"
      /\ EventType["delete"] = "deleted"
  BY DEF EventType
<1>6. EventOf(r) \in Event
  BY <1>3, <1>4, <1>5 DEF Event, EventOf
<1> QED
  BY <1>1, <1>3, <1>4, <1>5, <1>6 DEF CallForm

(* The next event is applied.  What it says is what the row is, unless     *)
(* there is more to come.                                                  *)
LEMMA ReceiveEventKeeps ==
  ASSUME BoardInv, NEW v \in Viewers, ReceiveEvent(v) PROVE BoardInv'
<1> DEFINE e == Head(inbox[v])
           rest == Tail(inbox[v])
<1>1. /\ BoardTypeOK /\ MailFine(v) /\ UNCHANGED <<req, status, raced>>
      /\ inbox[v] # <<>> /\ inbox' = [inbox EXCEPT ![v] = rest]
      /\ cache' = IF Loaded(v) THEN [cache EXCEPT ![v] = Applied(cache[v], e)] ELSE cache
      /\ behind' = IF Underway(v) THEN behind \cup {v} ELSE behind
      /\ UNCHANGED <<position, fetch, joined>>
  <2>1. cache \in [Viewers -> Shown]
    BY DEF BoardInv, BoardTypeOK
  <2> QED
    BY <2>1 DEF BoardInv, ReceiveEvent
<1>2. inbox[v] \in Seq(Event) /\ cache[v] \in Shown
  BY <1>1 DEF BoardTypeOK
<1>3. e \in Event /\ rest \in Seq(Event)
  BY <1>1, <1>2, OneLess
<1>4. PICK q \in Requests : req[q].pc \in Announced /\ e = EventOf(q)
  BY <1>1, <1>2, OneLess DEF MailFine
<1>5. req[q].wrote /\ req[q].task = e.task
  BY <1>4, EventTells DEF BoardInv, CallsFine, CallForm
<1>6. /\ e.task \in Tasks /\ e.to \in Columns \cup {"none"}
      /\ e.type \in {"created", "updated", "deleted"}
      /\ e.type = "created" => e.to = "TODO"
      /\ e.type = "updated" => e.to \in Columns
      /\ e.type = "deleted" => e.to = "none" /\ status[e.task] = "none"
  BY <1>3, <1>4, <1>5, EventTells DEF Event
<1>7. /\ Applied(cache[v], e) \in Shown
      /\ \A t \in Tasks \ {e.task} : Applied(cache[v], e)[t] = cache[v][t]
      /\ Applied(cache[v], e)[e.task] =
           IF \/ e.type = "created" /\ cache[v][e.task] = "none"
              \/ e.type = "updated" /\ cache[v][e.task] # "none"
              \/ e.type = "deleted"
             THEN e.to ELSE cache[v][e.task]
  BY <1>2, <1>6 DEF Applied, Shown
<1>8. /\ BoardTypeOK' /\ inbox'[v] = rest
      /\ \A u \in Viewers \ {v} : inbox'[u] = inbox[u] /\ cache'[u] = cache[u]
  BY <1>1, <1>3, <1>7 DEF BoardTypeOK
<1>9. MailFine(v)'
  <2>1. /\ v \notin joined' => inbox'[v] = <<>>
        /\ \A i \in 1 .. Len(rest) :
             \E r \in Requests : req[r].pc \in Announced /\ rest[i] = EventOf(r)
    BY <1>1, <1>2, OneLess DEF MailFine
  <2>2. ASSUME NEW t \in Tasks \ raced
        PROVE  /\ CreatedFirst(rest, t)
               /\ ~Lost(t) /\ ~Unannounced(t) => LastSays(rest, t, status[t])
    BY <1>1, <1>2, <2>2, OneLess DEF MailFine
  <2>3. \A r \in Requests : EventOf(r)' = EventOf(r)
    BY <1>1 DEF EventOf
  <2>4. \A t : (Lost(t)' <=> Lost(t)) /\ (Unannounced(t)' <=> Unannounced(t))
    BY <1>1, CallsAlike
  <2> HIDE DEF rest
  <2>5. \A t \in Tasks \ raced' : CreatedFirst(inbox[v], t)' /\
          (~Lost(t)' /\ ~Unannounced(t)' => LastSays(inbox[v], t, status[t])')
    BY <1>1, <1>8, <2>2, <2>4 DEF CreatedFirst, LastSays
  <2> QED
    BY <1>1, <1>8, <2>1, <2>3, <2>5 DEF MailFine
<1>10. ASSUME NEW t \in Tasks PROVE Follows(v, t)'
  <2>1. CASE Underway(v) \/ ~Loaded(v)
    BY <1>1, <2>1 DEF Follows, Current, Underway, Loaded, BoardTypeOK, Fetch
  <2>2. CASE ~Underway(v) /\ Loaded(v)
    <3>1. /\ cache' = [cache EXCEPT ![v] = Applied(cache[v], e)]
          /\ behind' = behind /\ Held(v) = cache[v] /\ Held(v)' = cache'[v]
          /\ Current(v)' <=> Current(v)
      BY <1>1, <2>2 DEF Held, Current, Underway
    <3>2. Held(v)' = Applied(cache[v], e)
      BY <1>1, <3>1 DEF BoardTypeOK
    <3>3. Follows(v, t) /\ RowFine(t)
      BY DEF BoardInv, CallsFine
    <3>4. /\ NoneAbout(inbox[v], t)' <=> NoneAbout(rest, t)
          /\ OnlyCreated(inbox[v], t)' <=> OnlyCreated(rest, t)
          /\ HasCreated(inbox[v], t)' <=> HasCreated(rest, t)
      <4> HIDE DEF rest
      <4> QED BY <1>8 DEF NoneAbout, OnlyCreated, HasCreated
    <3>5. /\ NoneAbout(inbox[v], t) <=> e.task # t /\ NoneAbout(rest, t)
          /\ OnlyCreated(inbox[v], t)
             <=> (e.task = t => e.type = "created") /\ OnlyCreated(rest, t)
          /\ HasCreated(inbox[v], t)
             <=> (e.task = t /\ e.type = "created") \/ HasCreated(rest, t)
      BY <1>1, <1>2, OneLess
    <3>6. ASSUME t \notin raced
          PROVE  /\ ~Lost(t) /\ ~Unannounced(t) /\ e.task = t /\ NoneAbout(rest, t)
                    => e.to = status[t]
                 /\ e.task = t => ~HasCreated(rest, t)
      BY <1>1, <1>2, <3>6, OneLess DEF MailFine
    <3> HIDE DEF e, rest
    <3>7. CASE e.task # t
      <4>1. Held(v)'[t] = Held(v)[t]
        BY <1>7, <3>1, <3>2, <3>7
      <4> QED
        BY <1>1, <3>1, <3>3, <3>4, <3>5, <3>7, <4>1, CallsAlike, FollowsStays
    <3>8. CASE e.task = t
      <4> SUFFICES ASSUME Current(v), ~Lost(t) PROVE Follows(v, t)'
        BY <1>1, <3>1, CallsAlike DEF Follows
      <4> DEFINE held == cache[v][t]
                 shown == Held(v)'[t]
      <4>1. shown = IF \/ e.type = "created" /\ held = "none"
                       \/ e.type = "updated" /\ held # "none"
                       \/ e.type = "deleted"
                      THEN e.to ELSE held
        BY <1>7, <3>2, <3>8
      <4>2. held = "none" => status[t] = "none" \/ HasCreated(inbox[v], t) \/ Creating(t)
        BY <3>1, <3>3 DEF Follows
      <4>3. t \notin raced /\ ~Moving(v, t) /\ OnlyCreating(t) /\ OnlyCreated(inbox[v], t)
            => held \in {"none", status[t]}
        BY <3>1, <3>3 DEF Follows
      <4> HIDE DEF held, shown
      <4>4. shown = "none" => status[t] = "none" \/ HasCreated(rest, t) \/ Creating(t)
        BY <1>6, <3>5, <3>8, <4>1, <4>2
      <4>5. ~Unannounced(t) => OnlyCreating(t) /\ ~Creating(t)
        BY DEF Unannounced, OnlyCreating, Creating
      <4>6. NoneAbout(rest, t) => OnlyCreated(rest, t) /\ ~HasCreated(rest, t)
        BY DEF NoneAbout, OnlyCreated, HasCreated
      <4>7. ASSUME t \notin raced, ~Moving(v, t), ~Unannounced(t), NoneAbout(rest, t)
            PROVE  shown = status[t]
        <5>1. e.to = status[t]
          BY <3>6, <3>8, <4>7
        <5> QED
          BY <1>6, <3>5, <3>8, <4>1, <4>2, <4>3, <4>5, <4>6, <4>7, <5>1
      <4>8. ASSUME t \notin raced, ~Moving(v, t), OnlyCreating(t), OnlyCreated(rest, t)
            PROVE  shown \in {"none", status[t]}
        <5>1. ~Unannounced(t)
          <6> SUFFICES ASSUME Unannounced(t) PROVE FALSE
            OBVIOUS
          <6>1. PICK r \in Requests : req[r].pc = "written" /\ req[r].task = t
            BY DEF Unannounced
          <6>2. req[r].kind = "create"
            BY <4>8, <6>1 DEF OnlyCreating
          <6>3. q = r
            BY <1>5, <3>3, <3>8, <4>8, <6>1, <6>2 DEF RowFine
          <6> QED
            BY <1>4, <6>1, <6>3
        <5>2. NoneAbout(rest, t)
          BY <3>6, <3>8, <4>8 DEF OnlyCreated, HasCreated, NoneAbout
        <5> QED
          BY <4>7, <4>8, <5>1, <5>2
      <4> QED
        BY <1>1, <3>4, <4>4, <4>7, <4>8, CallsAlike DEF Follows, shown
    <3> QED
      BY <3>7, <3>8
  <2> QED
    BY <2>1, <2>2
<1> QED
  BY <1>1, <1>8, <1>9, <1>10, ViewerStep

----------------------------------------------------------------------------
(* The calls.                                                              *)

SameCall(r) ==
  /\ req'[r].kind = req[r].kind /\ req'[r].viewer = req[r].viewer
  /\ req'[r].task = req[r].task /\ req'[r].to = req[r].to

(* The call is a move that the viewer shows before it is written.          *)
Carries(r, v, t) ==
  /\ req[r].kind = "move" /\ req[r].viewer = v /\ req[r].task = t
  /\ req[r].waiting /\ req[r].pc \in {"sent", "placing", "checked"}

LEMMA Carried == \A v, t : Moving(v, t) <=> \E r \in Requests : Carries(r, v, t)
BY DEF Moving, Carries

(* A call changes hands: only its own place in the table is written.       *)
LEMMA Placed ==
  ASSUME BoardTypeOK, NEW r \in Requests, NEW new \in RequestState,
         req' = [req EXCEPT ![r] = new]
  PROVE  /\ req' \in [Requests -> RequestState] /\ req'[r] = new
         /\ \A q \in Requests \ {r} : req'[q] = req[q]
BY DEF BoardTypeOK

(* A handler goes on without writing or publishing, fails, or loses its    *)
(* caller.                                                                 *)
LEMMA TurnKeeps ==
  ASSUME BoardInv, BoardTypeOK', NEW r \in Requests,
         \A q \in Requests \ {r} : req'[q] = req[q],
         SameCall(r), req'[r].wrote = req[r].wrote, CallForm(r)',
         req[r].pc \in InFlight, req'[r].pc \in InFlight \cup {"ok", "failed"},
         req'[r].pc \in Announced <=> req[r].pc \in Announced,
         req'[r].pc = "written" => req[r].pc = "written",
         req[r].pc = "written" => req'[r].pc \in {"written", "failed"},
         UNCHANGED <<status, fetch, joined, inbox, raced>>,
         \A v \in Viewers \ behind' :
           /\ v \notin behind /\ cache'[v] = cache[v]
           /\ \A t \in Tasks : Carries(r, v, t) => Carries(r, v, t)'
  PROVE  BoardInv'
<1>1. \A q \in Requests : /\ req'[q].kind = req[q].kind /\ req'[q].task = req[q].task
                          /\ req'[q].to = req[q].to /\ req'[q].wrote = req[q].wrote
                          /\ req'[q].pc = "written" => req[q].pc = "written"
                          /\ req[q].pc = "failed" => req'[q].pc = "failed"
                          /\ req[q].pc \in Announced => req'[q].pc \in Announced
                          /\ req[q].pc = "written" => req'[q].pc \in {"written", "failed"}
  BY DEF SameCall, InFlight
<1>2. /\ \A q \in Requests : CallForm(q)
      /\ OneCreator /\ \A t \in Tasks : RowFine(t)
  BY DEF BoardInv, CallsFine
<1>3. \A q \in Requests : req[q].pc = "written" => req[q].wrote
  BY <1>2 DEF CallForm
<1>4. ASSUME NEW t
      PROVE  /\ Created(t)' <=> Created(t)
             /\ Lost(t) => Lost(t)'
             /\ Unannounced(t) => Unannounced(t)' \/ Lost(t)'
             /\ Creating(t) => Creating(t)' \/ Lost(t)'
             /\ OnlyCreating(t)' => OnlyCreating(t) \/ Lost(t)'
  <2>1. (Created(t)' <=> Created(t)) /\ (Lost(t) => Lost(t)')
    BY <1>1 DEF Created, Lost
  <2>2. ASSUME NEW q \in Requests, req[q].pc = "written", req[q].task = t
        PROVE  (req'[q].pc = "written" /\ req'[q].task = t) \/ Lost(t)'
    BY <1>1, <1>3, <2>2 DEF Lost
  <2>3. Unannounced(t) => Unannounced(t)' \/ Lost(t)'
    BY <2>2 DEF Unannounced
  <2>4. Creating(t) => Creating(t)' \/ Lost(t)'
    BY <1>1, <2>2 DEF Creating
  <2>5. OnlyCreating(t)' => OnlyCreating(t) \/ Lost(t)'
    BY <1>1, <2>2 DEF OnlyCreating
  <2> QED
    BY <2>1, <2>3, <2>4, <2>5
<1>5. CallsFine'
  <2>1. ASSUME NEW q \in Requests \ {r} PROVE CallForm(q)'
    BY <1>2, <2>1 DEF CallForm
  <2>2. OneCreator'
    BY <1>1, <1>2 DEF OneCreator
  <2>3. ASSUME NEW t \in Tasks PROVE RowFine(t)'
    BY <1>1, <1>2, <1>4, <2>3 DEF RowFine
  <2> QED
    BY <2>1, <2>2, <2>3 DEF CallsFine
<1>6. ASSUME NEW v \in Viewers PROVE MailFine(v)'
  <2>1. MailFine(v)
    BY DEF BoardInv
  <2>2. \A q \in Requests : EventOf(q)' = EventOf(q)
    BY <1>1 DEF EventOf
  <2>3. \A t \in Tasks \ raced' :
          /\ CreatedFirst(inbox[v], t)'
          /\ ~Lost(t)' /\ ~Unannounced(t)' => LastSays(inbox[v], t, status[t])'
    BY <1>4, <2>1 DEF MailFine, CreatedFirst, LastSays
  <2> QED
    BY <1>1, <2>1, <2>2, <2>3 DEF MailFine
<1>7. ASSUME NEW v \in Viewers, NEW t \in Tasks PROVE Follows(v, t)'
  <2>1. Follows(v, t)
    BY DEF BoardInv
  <2>2. /\ Current(v)' => Current(v) /\ Held(v)'[t] = Held(v)[t]
        /\ NoneAbout(inbox[v], t)' <=> NoneAbout(inbox[v], t)
        /\ OnlyCreated(inbox[v], t)' <=> OnlyCreated(inbox[v], t)
        /\ HasCreated(inbox[v], t)' <=> HasCreated(inbox[v], t)
    BY DEF Current, Held, Underway, NoneAbout, OnlyCreated, HasCreated
  <2>3. Current(v)' /\ Moving(v, t) => Moving(v, t)'
    <3> SUFFICES ASSUME Current(v)', Moving(v, t) PROVE Moving(v, t)'
      OBVIOUS
    <3>1. PICK q \in Requests : Carries(q, v, t)
      BY Carried
    <3>2. Carries(q, v, t)'
      BY <3>1 DEF Carries, Current
    <3> QED
      BY <3>2 DEF Moving, Carries
  <2> QED
    BY <1>4, <2>1, <2>2, <2>3, FollowsStays
<1> QED
  BY <1>5, <1>6, <1>7 DEF BoardInv

(* What a caller that sees its call fail does to its board.                *)
LEMMA RolledBack ==
  ASSUME BoardInv, NEW r \in Requests, RollBack(r)
  PROVE  /\ cache' \in [Viewers -> Shown] /\ behind' \in SUBSET Viewers
         /\ \A v \in Viewers \ behind' :
              /\ v \notin behind /\ cache'[v] = cache[v]
              /\ \A t \in Tasks : ~Carries(r, v, t)
<1>1. /\ cache \in [Viewers -> Shown] /\ behind \in SUBSET Viewers
      /\ req[r] \in RequestState /\ CallForm(r)
  BY DEF BoardInv, BoardTypeOK, CallsFine
<1>2. CASE req[r].kind = "move" /\ req[r].waiting
  <2>1. req[r].viewer \in Viewers /\ req[r].previous \in Shown
    BY <1>1, <1>2 DEF CallForm, RequestState
  <2>2. /\ cache' = [cache EXCEPT ![req[r].viewer] = req[r].previous]
        /\ behind' = behind \cup {req[r].viewer}
    BY <1>2 DEF RollBack
  <2> QED
    BY <1>1, <2>1, <2>2 DEF Carries
<1>3. CASE ~(req[r].kind = "move" /\ req[r].waiting)
  <2>1. cache' = cache /\ behind' = behind
    BY <1>3 DEF RollBack
  <2> QED
    BY <1>1, <1>3, <2>1 DEF Carries
<1> QED
  BY <1>2, <1>3

LEMMA FailKeeps ==
  ASSUME BoardInv, NEW r \in Requests, Fail(r),
         req[r].pc \in InFlight \ {"published"},
         UNCHANGED <<status, position, fetch, joined, inbox, raced>>
  PROVE  BoardInv'
<1> DEFINE new == [req[r] EXCEPT !.pc = "failed", !.waiting = FALSE, !.previous = Empty]
<1>1. BoardTypeOK /\ req[r] \in RequestState /\ CallForm(r) /\ RollBack(r)
  BY DEF BoardInv, BoardTypeOK, CallsFine, Fail
<1>2. req' = [req EXCEPT ![r] = new]
  BY <1>1 DEF Fail, BoardTypeOK
<1>3. /\ new \in RequestState /\ new.pc = "failed" /\ new.waiting = FALSE
      /\ new.kind = req[r].kind /\ new.viewer = req[r].viewer /\ new.task = req[r].task
      /\ new.to = req[r].to
      /\ new.wrote = req[r].wrote
  BY <1>1 DEF RequestState, Empty, Shown
<1> HIDE DEF new
<1>4. /\ req' \in [Requests -> RequestState] /\ req'[r] = new
      /\ \A q \in Requests \ {r} : req'[q] = req[q]
  BY <1>1, <1>2, <1>3, Placed
<1>5. BoardTypeOK'
  BY <1>1, <1>4, RolledBack DEF BoardTypeOK
<1>6. SameCall(r) /\ CallForm(r)'
  BY <1>1, <1>3, <1>4 DEF SameCall, CallForm, InFlight
<1>7. \A v \in Viewers \ behind' :
        /\ v \notin behind /\ cache'[v] = cache[v]
        /\ \A t \in Tasks : Carries(r, v, t) => Carries(r, v, t)'
  BY <1>1, RolledBack
<1> QED
  BY <1>3, <1>4, <1>5, <1>6, <1>7, TurnKeeps DEF InFlight

LEMMA CutOffKeeps ==
  ASSUME BoardInv, NEW r \in Requests, CutOff(r) PROVE BoardInv'
<1> DEFINE new == [req[r] EXCEPT !.waiting = FALSE, !.previous = Empty]
<1>1. /\ BoardTypeOK /\ req[r] \in RequestState /\ CallForm(r) /\ RollBack(r)
      /\ req[r].pc \in InFlight /\ UNCHANGED <<status, position, fetch, joined, inbox, raced>>
  BY DEF BoardInv, BoardTypeOK, CallsFine, CutOff
<1>2. req' = [req EXCEPT ![r] = new]
  BY <1>1 DEF CutOff, BoardTypeOK
<1>3. /\ new \in RequestState /\ new.pc = req[r].pc /\ new.waiting = FALSE
      /\ new.kind = req[r].kind /\ new.viewer = req[r].viewer /\ new.task = req[r].task
      /\ new.to = req[r].to
      /\ new.wrote = req[r].wrote
  BY <1>1 DEF RequestState, Empty, Shown
<1> HIDE DEF new
<1>4. /\ req' \in [Requests -> RequestState] /\ req'[r] = new
      /\ \A q \in Requests \ {r} : req'[q] = req[q]
  BY <1>1, <1>2, <1>3, Placed
<1>5. BoardTypeOK'
  BY <1>1, <1>4, RolledBack DEF BoardTypeOK
<1>6. SameCall(r) /\ CallForm(r)'
  BY <1>1, <1>3, <1>4 DEF SameCall, CallForm, InFlight
<1>7. \A v \in Viewers \ behind' :
        /\ v \notin behind /\ cache'[v] = cache[v]
        /\ \A t \in Tasks : Carries(r, v, t) => Carries(r, v, t)'
  BY <1>1, RolledBack
<1> QED
  BY <1>1, <1>3, <1>4, <1>5, <1>6, <1>7, TurnKeeps

(* A read of the handler.                                                  *)
LEMMA ReadKeeps ==
  ASSUME BoardInv, NEW r \in Requests, NEW new \in RequestState,
         req' = [req EXCEPT ![r] = new], req[r].pc = "sent",
         \/ new.pc = "placing" /\ req[r].kind = "create"
         \/ new.pc = "checked" /\ req[r].kind # "create",
         new.kind = req[r].kind, new.viewer = req[r].viewer, new.task = req[r].task,
         new.to = req[r].to, new.waiting = req[r].waiting, new.wrote = req[r].wrote,
         UNCHANGED <<status, position, cache, fetch, joined, inbox, behind, raced>>
  PROVE  BoardInv'
<1>1. BoardTypeOK /\ req[r] \in RequestState /\ CallForm(r)
  BY DEF BoardInv, BoardTypeOK, CallsFine
<1>2. /\ req' \in [Requests -> RequestState] /\ req'[r] = new
      /\ \A q \in Requests \ {r} : req'[q] = req[q]
  BY <1>1, Placed
<1>3. BoardTypeOK'
  BY <1>1, <1>2 DEF BoardTypeOK
<1>4. SameCall(r) /\ CallForm(r)'
  BY <1>1, <1>2 DEF SameCall, CallForm
<1>5. \A v \in Viewers, t \in Tasks : Carries(r, v, t) => Carries(r, v, t)'
  BY <1>2 DEF Carries, InFlight
<1> QED
  BY <1>2, <1>3, <1>4, <1>5, TurnKeeps DEF InFlight

LEMMA FindTopKeeps ==
  ASSUME BoardInv, NEW r \in Requests, FindTop(r) PROVE BoardInv'
<1>1. /\ req[r] \in RequestState /\ req[r].pc = "sent" /\ req[r].kind = "create"
      /\ position \in [Tasks -> Int]
      /\ UNCHANGED <<status, position, cache, fetch, joined, inbox, behind, raced>>
  BY DEF BoardInv, BoardTypeOK, FindTop, viewVars, eventVars
<1>2. PICK lowest \in IF Todo = {} THEN {1} ELSE {position[t] : t \in Todo} :
        req' = [req EXCEPT ![r].pc = "placing", ![r].top = lowest - 1]
  BY DEF FindTop
<1> DEFINE top == lowest - 1
           new == [req[r] EXCEPT !.pc = "placing", !.top = top]
<1>3. top \in Int
  BY <1>1 DEF Todo
<1>4. req' = [req EXCEPT ![r] = new]
  BY <1>2 DEF BoardInv, BoardTypeOK
<1> HIDE DEF top
<1>5. /\ new \in RequestState /\ new.pc = "placing"
      /\ new.kind = req[r].kind /\ new.viewer = req[r].viewer /\ new.task = req[r].task
      /\ new.to = req[r].to /\ new.waiting = req[r].waiting
      /\ new.wrote = req[r].wrote
  BY <1>1, <1>3 DEF RequestState, InFlight
<1> HIDE DEF new
<1> QED
  BY <1>1, <1>4, <1>5, ReadKeeps

LEMMA FindTaskKeeps ==
  ASSUME BoardInv, NEW r \in Requests, FindTask(r) PROVE BoardInv'
<1>1. /\ req[r] \in RequestState /\ req[r].pc = "sent" /\ req[r].kind # "create"
      /\ UNCHANGED <<status, position, fetch, joined, inbox, raced>>
  BY DEF BoardInv, BoardTypeOK, FindTask
<1>2. CASE Goto(r, "checked") /\ UNCHANGED <<cache, behind>>
  <2> DEFINE new == [req[r] EXCEPT !.pc = "checked"]
  <2>1. req' = [req EXCEPT ![r] = new]
    BY <1>2 DEF Goto, BoardInv, BoardTypeOK
  <2>2. /\ new \in RequestState /\ new.pc = "checked"
        /\ new.kind = req[r].kind /\ new.viewer = req[r].viewer /\ new.task = req[r].task
        /\ new.to = req[r].to /\ new.waiting = req[r].waiting
        /\ new.wrote = req[r].wrote
    BY <1>1 DEF RequestState, InFlight
  <2> HIDE DEF new
  <2> QED
    BY <1>1, <1>2, <2>1, <2>2, ReadKeeps
<1>3. CASE Fail(r)
  BY <1>1, <1>3, FailKeeps DEF InFlight
<1> QED
  BY <1>2, <1>3 DEF FindTask

LEMMA AbortKeeps ==
  ASSUME BoardInv, NEW r \in Requests, Abort(r) PROVE BoardInv'
BY FailKeeps DEF Abort

(* The answer tells the caller only.                                       *)
LEMMA AnswerKeeps ==
  ASSUME BoardInv, NEW r \in Requests, Answer(r) PROVE BoardInv'
<1> DEFINE new == [req[r] EXCEPT !.pc = "ok", !.previous = Empty]
<1>1. /\ BoardTypeOK /\ req[r] \in RequestState /\ CallForm(r)
      /\ req[r].pc = "published"
      /\ UNCHANGED <<status, position, cache, fetch, joined, inbox, behind, raced>>
  BY DEF BoardInv, BoardTypeOK, CallsFine, Answer, viewVars, eventVars
<1>2. req' = [req EXCEPT ![r] = new]
  BY <1>1 DEF Answer, BoardTypeOK
<1>3. /\ new \in RequestState /\ new.pc = "ok" /\ new.waiting = req[r].waiting
      /\ new.kind = req[r].kind /\ new.viewer = req[r].viewer /\ new.task = req[r].task
      /\ new.to = req[r].to
      /\ new.wrote = req[r].wrote
  BY <1>1 DEF RequestState, Empty, Shown
<1> HIDE DEF new
<1>4. /\ req' \in [Requests -> RequestState] /\ req'[r] = new
      /\ \A q \in Requests \ {r} : req'[q] = req[q]
  BY <1>1, <1>2, <1>3, Placed
<1>5. BoardTypeOK'
  BY <1>1, <1>4 DEF BoardTypeOK
<1>6. SameCall(r) /\ CallForm(r)'
  BY <1>1, <1>3, <1>4 DEF SameCall, CallForm
<1>7. \A v \in Viewers, t \in Tasks : ~Carries(r, v, t)
  BY <1>1 DEF Carries
<1> QED
  BY <1>1, <1>3, <1>4, <1>5, <1>6, <1>7, TurnKeeps DEF InFlight

(* A call is sent.  The caller's board changes only where it is Moving.    *)
LEMMA SentKeeps ==
  ASSUME BoardInv, NEW r \in Requests, NEW t \in Tasks, NEW new \in RequestState,
         Send(r, new), new.pc = "sent", new.task = t, new.wrote = FALSE,
         \/ new.kind = "create" /\ new.to = "TODO" /\ MayCreate(t)
         \/ new.kind = "move" /\ new.to \in Columns
         \/ new.kind = "delete" /\ new.to = "none",
         new.kind = "move" /\ new.waiting => new.viewer \in Viewers,
         UNCHANGED position, cache' \in [Viewers -> Shown],
         \A v \in Viewers, u \in Tasks :
           \/ cache'[v][u] = cache[v][u]
           \/ /\ cache'[v][u] # "none" /\ u = t /\ new.kind = "move"
              /\ new.waiting /\ new.viewer = v
  PROVE  BoardInv'
<1>1. /\ BoardTypeOK /\ CallForm(r) /\ req[r] \in RequestState
      /\ req[r].pc = "idle" /\ req' = [req EXCEPT ![r] = new]
      /\ UNCHANGED <<status, fetch, joined, inbox, behind, raced>>
  BY DEF BoardInv, CallsFine, BoardTypeOK, Send, eventVars
<1>2. /\ req' \in [Requests -> RequestState] /\ req'[r] = new
      /\ \A q \in Requests \ {r} : req'[q] = req[q]
  BY <1>1, Placed
<1>3. BoardTypeOK'
  BY <1>1, <1>2 DEF BoardTypeOK
<1>4. /\ req[r].kind = "none" /\ ~req[r].wrote
  BY <1>1 DEF CallForm
<1>5. ASSUME NEW u
      PROVE  /\ Created(u)' <=> Created(u)
             /\ Lost(u)' <=> Lost(u)
             /\ Unannounced(u)' <=> Unannounced(u)
             /\ Creating(u)' <=> Creating(u)
             /\ OnlyCreating(u)' <=> OnlyCreating(u)
             /\ \A v : Moving(v, u) => Moving(v, u)'
  BY <1>1, <1>2, <1>4 DEF Created, Lost, Unannounced, Creating, OnlyCreating, Moving, InFlight
<1>6. CallsFine'
  <2>1. ASSUME NEW q \in Requests PROVE CallForm(q)'
    <3>1. CASE q = r
      BY <1>2, <3>1 DEF CallForm
    <3>2. CASE q # r
      BY <1>1, <1>2, <3>2 DEF CallForm, BoardInv, CallsFine
    <3> QED
      BY <3>1, <3>2
  <2>2. OneCreator'
    BY <1>2 DEF OneCreator, BoardInv, CallsFine, MayCreate, Named
  <2>3. ASSUME NEW u \in Tasks PROVE RowFine(u)'
    <3>1. RowFine(u)
      BY DEF BoardInv, CallsFine
    <3>2. \A q \in Requests : /\ req'[q].pc = "written" => q # r
                              /\ req'[q].wrote => q # r
      BY <1>2
    <3> QED
      BY <1>1, <1>2, <1>5, <3>1, <3>2 DEF RowFine
  <2> QED
    BY <2>1, <2>2, <2>3 DEF CallsFine
<1>7. ASSUME NEW v \in Viewers PROVE MailFine(v)'
  <2>1. MailFine(v)
    BY DEF BoardInv
  <2>2. \A q \in Requests : req[q].pc \in Announced => req'[q].pc \in Announced /\ EventOf(q)' = EventOf(q)
    BY <1>1, <1>2 DEF EventOf
  <2>3. \A u \in Tasks \ raced' :
          /\ CreatedFirst(inbox[v], u)'
          /\ ~Lost(u)' /\ ~Unannounced(u)' => LastSays(inbox[v], u, status[u])'
    BY <1>1, <1>5, <2>1 DEF MailFine, CreatedFirst, LastSays
  <2> QED
    BY <1>1, <2>1, <2>2, <2>3 DEF MailFine
<1>8. ASSUME NEW v \in Viewers, NEW u \in Tasks PROVE Follows(v, u)'
  <2>1. Follows(v, u)
    BY DEF BoardInv
  <2>2. /\ Current(v)' <=> Current(v)
        /\ NoneAbout(inbox[v], u)' <=> NoneAbout(inbox[v], u)
        /\ OnlyCreated(inbox[v], u)' <=> OnlyCreated(inbox[v], u)
        /\ HasCreated(inbox[v], u)' <=> HasCreated(inbox[v], u)
    BY <1>1 DEF Current, NoneAbout, OnlyCreated, HasCreated
  <2>3. CASE Held(v)'[u] = Held(v)[u]
    BY <1>1, <1>5, <2>1, <2>2, <2>3, FollowsStays
  <2>4. CASE Held(v)'[u] # Held(v)[u]
    <3>1. Held(v)'[u] = cache'[v][u] /\ cache'[v][u] # cache[v][u]
      BY <1>1, <2>4 DEF Held, Underway
    <3>2. Held(v)'[u] # "none" /\ Moving(v, u)'
      BY <1>2, <3>1 DEF Moving, InFlight
    <3> QED
      BY <3>2 DEF Follows
  <2> QED
    BY <2>3, <2>4
<1> QED
  BY <1>3, <1>6, <1>7, <1>8 DEF BoardInv

LEMMA UnsentTyped == UnsentCall \in RequestState
BY DEF UnsentCall, RequestState, Empty, Shown

LEMMA createTaskKeeps ==
  ASSUME BoardInv, NEW r \in Requests, NEW v \in Viewers, NEW t \in Tasks,
         createTask(r, v, t)
  PROVE  BoardInv'
<1> DEFINE new == [UnsentCall EXCEPT !.pc = "sent", !.kind = "create",
                                     !.viewer = v, !.task = t, !.to = "TODO"]
<1>1. new \in RequestState
  BY UnsentTyped DEF RequestState, InFlight
<1>2. /\ new.pc = "sent" /\ new.kind = "create"
      /\ new.task = t /\ new.to = "TODO" /\ new.wrote = FALSE
  BY DEF UnsentCall
<1>3. /\ Send(r, new) /\ MayCreate(t) /\ UNCHANGED <<position, cache>>
      /\ cache \in [Viewers -> Shown]
  BY DEF createTask, Send, BoardInv, BoardTypeOK
<1> HIDE DEF new
<1> QED
  BY <1>1, <1>2, <1>3, SentKeeps

LEMMA moveTaskKeeps ==
  ASSUME BoardInv, NEW r \in Requests, NEW v \in Viewers, NEW t \in Tasks,
         NEW s \in Columns, moveTask(r, v, t, s)
  PROVE  BoardInv'
<1> DEFINE new == [UnsentCall EXCEPT !.pc = "sent", !.kind = "move", !.viewer = v,
                                     !.task = t, !.to = s, !.previous = cache[v]]
<1>1. cache \in [Viewers -> Shown] /\ cache[v] \in Shown
  BY DEF BoardInv, BoardTypeOK
<1>2. new \in RequestState
  BY <1>1, UnsentTyped DEF RequestState, InFlight
<1>3. /\ new.pc = "sent" /\ new.kind = "move"
      /\ new.task = t /\ new.to = s /\ new.viewer = v
      /\ new.wrote = FALSE /\ new.waiting = TRUE
  BY DEF UnsentCall
<1>4. Send(r, new) /\ UNCHANGED position /\ cache' = [cache EXCEPT ![v][t] = s]
  BY DEF moveTask, Send
<1> HIDE DEF new
<1>5. /\ cache' \in [Viewers -> Shown]
      /\ \A u \in Viewers, x \in Tasks :
           cache'[u][x] = cache[u][x] \/ (u = v /\ x = t /\ cache'[u][x] # "none")
  BY <1>1, <1>4 DEF Shown
<1>6. \A u \in Viewers, x \in Tasks :
        \/ cache'[u][x] = cache[u][x]
        \/ /\ cache'[u][x] # "none" /\ x = t /\ new.kind = "move"
           /\ new.waiting /\ new.viewer = u
  BY <1>3, <1>5
<1>7. /\ \/ new.kind = "create" /\ new.to = "TODO" /\ MayCreate(t)
         \/ new.kind = "move" /\ new.to \in Columns
         \/ new.kind = "delete" /\ new.to = "none"
      /\ new.kind = "move" /\ new.waiting => new.viewer \in Viewers
  BY <1>3
<1>8. new.pc = "sent" /\ new.task = t /\ new.wrote = FALSE
  BY <1>3
<1>9. Send(r, new) /\ UNCHANGED position /\ cache' \in [Viewers -> Shown]
  BY <1>4, <1>5
<1> QED
  BY <1>2, <1>6, <1>7, <1>8, <1>9, SentKeeps

LEMMA SendElsewhereKeeps ==
  ASSUME BoardInv, NEW r \in Requests, NEW t \in Tasks,
         NEW kind \in {"create", "move", "delete"}, NEW s \in Columns \cup {"none"},
         SendElsewhere(r, t, kind, s)
  PROVE  BoardInv'
<1> DEFINE new == [UnsentCall EXCEPT !.pc = "sent", !.kind = kind,
                                     !.viewer = Elsewhere, !.task = t, !.to = s,
                                     !.waiting = FALSE]
<1>1. new \in RequestState
  BY UnsentTyped DEF RequestState, InFlight
<1>2. /\ new.pc = "sent" /\ new.kind = kind
      /\ new.task = t /\ new.to = s
      /\ new.wrote = FALSE /\ new.waiting = FALSE
  BY DEF UnsentCall
<1>3. /\ Send(r, new) /\ UNCHANGED <<position, cache>> /\ cache \in [Viewers -> Shown]
      /\ kind = "create" => MayCreate(t) /\ s = "TODO"
      /\ kind = "delete" => s = "none"
      /\ kind = "move" => s \in Columns
  BY DEF SendElsewhere, Send, BoardInv, BoardTypeOK
<1> HIDE DEF new
<1>4. \/ new.kind = "create" /\ new.to = "TODO" /\ MayCreate(t)
      \/ new.kind = "move" /\ new.to \in Columns
      \/ new.kind = "delete" /\ new.to = "none"
  BY <1>2, <1>3
<1> QED
  BY <1>1, <1>2, <1>3, <1>4, SentKeeps

----------------------------------------------------------------------------
(* Writing and publishing, which matter for one task only.                 *)

LEMMA OtherTask ==
  ASSUME NEW r \in Requests, NEW t, req[r].task # t, SameCall(r),
         \A q \in Requests \ {r} : req'[q] = req[q]
  PROVE  /\ Created(t)' <=> Created(t)
         /\ Lost(t)' <=> Lost(t)
         /\ Unannounced(t)' <=> Unannounced(t)
         /\ Creating(t)' <=> Creating(t)
         /\ OnlyCreating(t)' <=> OnlyCreating(t)
         /\ \A v : Moving(v, t)' <=> Moving(v, t)
<1>1. \A q \in Requests : /\ req[q].task = t => req'[q] = req[q]
                          /\ req'[q].task = req[q].task
  BY DEF SameCall
<1> QED
  BY <1>1 DEF Created, Lost, Unannounced, Creating, OnlyCreating, Moving

LEMMA OtherRow ==
  ASSUME NEW r \in Requests, NEW t \in Tasks, req[r].task # t, SameCall(r),
         \A q \in Requests \ {r} : req'[q] = req[q],
         status'[t] = status[t], t \in raced => t \in raced', RowFine(t)
  PROVE  RowFine(t)'
<1>1. \A q \in Requests : /\ req[q].task = t => req'[q] = req[q]
                          /\ req'[q].task = req[q].task
  BY DEF SameCall
<1> QED
  BY <1>1, OtherTask DEF RowFine

(* A write: of the tasks and boards, only its task is to be looked at.     *)
LEMMA WrittenKeeps ==
  ASSUME BoardInv, BoardTypeOK', NEW r \in Requests, NEW t \in Tasks,
         req[r].task = t, req[r].pc \in {"placing", "checked"}, SameCall(r),
         \A q \in Requests \ {r} : req'[q] = req[q],
         req'[r].pc = "written", req'[r].wrote, req'[r].waiting = req[r].waiting,
         \A u \in Tasks \ {t} : /\ status'[u] = status[u]
                                /\ u \in raced' <=> u \in raced,
         t \in raced => t \in raced', CallForm(r)', RowFine(t)',
         \A q \in Requests \ {r} :
           req[q].task = t /\ req[q].kind = "delete" => ~req[q].wrote,
         \A v \in Viewers : Follows(v, t)',
         UNCHANGED <<cache, fetch, joined, inbox, behind>>
  PROVE  BoardInv'
<1>1. CallsFine /\ \A q \in Requests : CallForm(q)
  BY DEF BoardInv, CallsFine
<1>2. CallsFine'
  <2>1. ASSUME NEW q \in Requests \ {r} PROVE CallForm(q)'
    <3>1. req[q].kind = "delete" /\ req[q].wrote
          => req[q].task \in Tasks \ {t}
      BY <1>1 DEF CallForm
    <3> QED
      BY <1>1, <2>1, <3>1 DEF CallForm
  <2>2. OneCreator'
    BY <1>1 DEF CallsFine, OneCreator, SameCall
  <2>3. \A u \in Tasks \ {t} : RowFine(u)'
    BY <1>1, OtherRow DEF CallsFine
  <2> QED
    BY <2>1, <2>2, <2>3 DEF CallsFine
<1>3. Unannounced(t)'
  BY DEF Unannounced, SameCall
<1>4. ASSUME NEW v \in Viewers PROVE MailFine(v)'
  <2>1. MailFine(v)
    BY DEF BoardInv
  <2>2. \A q \in Requests : req[q].pc \in Announced => req'[q].pc \in Announced /\ EventOf(q)' = EventOf(q)
    BY DEF EventOf
  <2>3. \A u \in Tasks \ raced' : CreatedFirst(inbox[v], u)'
    BY <2>1 DEF MailFine, CreatedFirst
  <2>4. ASSUME NEW u \in Tasks \ raced', ~Lost(u)', ~Unannounced(u)'
        PROVE  LastSays(inbox[v], u, status[u])'
    <3>1. u # t /\ u \in Tasks \ {t} /\ u \notin raced /\ status'[u] = status[u]
      BY <1>3, <2>4
    <3>2. ~Lost(u) /\ ~Unannounced(u)
      BY <2>4, <3>1, OtherTask
    <3> QED
      BY <2>1, <3>1, <3>2 DEF MailFine, LastSays
  <2> QED
    BY <2>1, <2>2, <2>3, <2>4 DEF MailFine
<1>5. ASSUME NEW v \in Viewers, NEW u \in Tasks \ {t} PROVE Follows(v, u)'
  <2>1. Follows(v, u)
    BY DEF BoardInv
  <2>2. /\ Current(v)' => Current(v)
        /\ Held(v)' = Held(v)
        /\ NoneAbout(inbox[v], u)' <=> NoneAbout(inbox[v], u)
        /\ OnlyCreated(inbox[v], u)' <=> OnlyCreated(inbox[v], u)
        /\ HasCreated(inbox[v], u)' <=> HasCreated(inbox[v], u)
    BY DEF Current, Held, Underway, NoneAbout, OnlyCreated, HasCreated
  <2> QED
    BY <2>1, <2>2, OtherTask, FollowsStays
<1> QED
  BY <1>2, <1>4, <1>5 DEF BoardInv

(* An insert is the first write of its task, and no board shows it yet.    *)
LEMMA InsertKeeps ==
  ASSUME BoardInv, NEW r \in Requests, Insert(r) PROVE BoardInv'
<1> DEFINE new == [req[r] EXCEPT !.pc = "written", !.wrote = TRUE]
<1>0. PICK t \in Tasks : t = req[r].task
  BY DEF Insert, BoardInv, CallsFine, CallForm
<1>1. /\ BoardTypeOK /\ CallsFine /\ req[r] \in RequestState /\ CallForm(r)
      /\ req[r].pc = "placing"
      /\ UNCHANGED <<cache, fetch, joined, inbox, behind, raced>>
      /\ status' = [status EXCEPT ![t] = "TODO"]
      /\ position' = [position EXCEPT ![t] = req[r].top]
  BY <1>0 DEF BoardInv, BoardTypeOK, CallsFine, Insert, viewVars, eventVars
<1>2. req' = [req EXCEPT ![r] = new]
  BY <1>1 DEF Insert, BoardTypeOK
<1>3. /\ new \in RequestState /\ new.pc = "written" /\ new.wrote = TRUE
      /\ new.kind = req[r].kind /\ new.viewer = req[r].viewer /\ new.task = req[r].task
      /\ new.to = req[r].to /\ new.waiting = req[r].waiting
  BY <1>1 DEF RequestState, InFlight
<1> HIDE DEF new
<1>4. /\ req' \in [Requests -> RequestState] /\ req'[r] = new
      /\ \A q \in Requests \ {r} : req'[q] = req[q]
  BY <1>1, <1>2, <1>3, Placed
<1>5. /\ req[r].task = t /\ req[r].kind = "create" /\ req[r].to = "TODO" /\ ~req[r].wrote
      /\ req[r].top \in Int
  BY <1>0, <1>1 DEF CallForm, RequestState
<1>6. SameCall(r)
  BY <1>3, <1>4 DEF SameCall
<1>7. ~Created(t)
  BY <1>1, <1>5 DEF Created, CallsFine, OneCreator
<1>8. status[t] = "none" /\ \A q \in Requests : req[q].task = t => ~req[q].wrote
  BY <1>1, <1>5, <1>7 DEF CallsFine, RowFine
<1>9. ~Unannounced(t) /\ ~Lost(t)
  BY <1>1, <1>8 DEF Unannounced, Lost, CallsFine, CallForm
<1>10. /\ BoardTypeOK' /\ status'[t] = "TODO"
       /\ \A u \in Tasks \ {t} : status'[u] = status[u]
  BY <1>1, <1>4, <1>5 DEF BoardTypeOK, Shown
<1>11. /\ req'[r].task = t /\ req'[r].kind = "create" /\ req'[r].to = "TODO"
       /\ req'[r].pc = "written" /\ req'[r].wrote
  BY <1>3, <1>4, <1>5
<1>12. Created(t)' /\ Creating(t)' /\ Unannounced(t)'
  BY <1>11 DEF Created, Creating, Unannounced
<1>13. CallForm(r)'
  BY <1>3, <1>4, <1>5, <1>11 DEF CallForm
<1>14. RowFine(t)'
  <2>1. \A q \in Requests : req'[q].task = t /\ req'[q].wrote => q = r
    BY <1>4, <1>8
  <2>2. \A q \in Requests : req'[q].task = t /\ req'[q].pc = "written" => q = r
    BY <1>1, <1>4, <1>8 DEF CallsFine, CallForm
  <2> QED
    BY <1>10, <1>11, <1>12, <2>1, <2>2 DEF RowFine
<1>15. ASSUME NEW v \in Viewers PROVE Follows(v, t)'
  <2>1. Follows(v, t) /\ MailFine(v) /\ inbox[v] \in Seq(Event)
    BY <1>1, <1>5 DEF BoardInv, BoardTypeOK
  <2>2. NoneAbout(inbox[v], t)
    <3> SUFFICES ASSUME NEW i \in 1 .. Len(inbox[v]), inbox[v][i].task = t PROVE FALSE
      BY DEF NoneAbout
    <3>1. PICK q \in Requests : req[q].pc \in Announced /\ inbox[v][i] = EventOf(q)
      BY <2>1 DEF MailFine
    <3>2. req[q].wrote /\ req[q].task = t
      BY <1>1, <3>1 DEF EventOf, CallsFine, CallForm
    <3> QED
      BY <1>8, <3>2
  <2>3. OnlyCreating(t)
    BY <1>9 DEF OnlyCreating, Unannounced
  <2>4. Current(v)' => Current(v) /\ Held(v)' = Held(v)
    BY <1>1 DEF Current, Held, Underway
  <2>5. Moving(v, t) => Moving(v, t)'
    BY <1>4, <1>5 DEF Moving
  <2>6. t \in raced' <=> t \in raced
    BY <1>1
  <2>7. Current(v) /\ t \notin raced /\ ~Moving(v, t) => Held(v)[t] = "none"
    BY <1>8, <1>9, <2>1, <2>2 DEF Follows
  <2> QED
    BY <1>12, <2>4, <2>5, <2>6, <2>7 DEF Follows
<1>16. req'[r].waiting = req[r].waiting
  BY <1>3, <1>4
<1> QED
  BY <1>1, <1>4, <1>5, <1>6, <1>8, <1>10, <1>11, <1>13, <1>14, <1>15, <1>16, WrittenKeeps

LEMMA WriteKeeps ==
  ASSUME BoardInv, NEW r \in Requests, Write(r) PROVE BoardInv'
<1> DEFINE new == [req[r] EXCEPT !.pc = "written", !.wrote = TRUE]
<1>0. PICK t \in Tasks : t = req[r].task
  BY DEF Write, BoardInv, CallsFine, CallForm
<1>1. /\ BoardTypeOK /\ CallsFine /\ req[r] \in RequestState /\ CallForm(r)
      /\ req[r].pc = "checked"
      /\ UNCHANGED <<position, fetch, joined, inbox>>
  BY DEF BoardInv, BoardTypeOK, CallsFine, Write
<1>2. CASE Fail(r) /\ UNCHANGED <<status, raced>>
  BY <1>1, <1>2, FailKeeps DEF InFlight
<1>3. CASE /\ status[t] # "none"
           /\ status' = [status EXCEPT ![t] = req[r].to]
           /\ req' = [req EXCEPT ![r].pc = "written", ![r].wrote = TRUE]
           /\ raced' = IF Unannounced(t) THEN raced \cup {t} ELSE raced
           /\ UNCHANGED <<cache, behind>>
  <2>1. req' = [req EXCEPT ![r] = new]
    BY <1>1, <1>3 DEF BoardTypeOK
  <2>2. /\ new \in RequestState /\ new.pc = "written" /\ new.wrote = TRUE
        /\ new.kind = req[r].kind /\ new.viewer = req[r].viewer /\ new.task = req[r].task
        /\ new.to = req[r].to /\ new.waiting = req[r].waiting
    BY <1>1 DEF RequestState, InFlight
  <2> HIDE DEF new
  <2>3. /\ req' \in [Requests -> RequestState] /\ req'[r] = new
        /\ \A q \in Requests \ {r} : req'[q] = req[q]
    BY <1>1, <2>1, <2>2, Placed
  <2>4. /\ req[r].task = t /\ req[r].kind # "create" /\ ~req[r].wrote
        /\ req[r].to \in Columns \cup {"none"}
    BY <1>0, <1>1 DEF CallForm, RequestState
  <2>5. SameCall(r)
    BY <2>2, <2>3 DEF SameCall
  <2>a. PICK s \in Columns \cup {"none"} : s = req[r].to
    BY <2>4
  <2>6. /\ status' = [status EXCEPT ![t] = s] /\ status[t] # "none"
        /\ raced' = IF Unannounced(t) THEN raced \cup {t} ELSE raced
        /\ cache' = cache /\ behind' = behind
    BY <1>3, <2>a
  <2>7. /\ BoardTypeOK' /\ status'[t] = s
        /\ \A u \in Tasks \ {t} : status'[u] = status[u]
    BY <1>1, <2>3, <2>6 DEF BoardTypeOK, Shown
  <2>8. /\ req'[r].task = t /\ req'[r].kind = req[r].kind /\ req'[r].to = s
        /\ req'[r].pc = "written" /\ req'[r].wrote /\ req'[r].kind # "create"
    BY <2>2, <2>3, <2>4, <2>a
  <2>9. Created(t)
    BY <1>1, <2>4, <2>6 DEF CallsFine, RowFine
  <2>10. Created(t)'
    BY <2>3, <2>4, <2>9 DEF Created
  <2>11. Unannounced(t)'
    BY <2>8 DEF Unannounced
  <2>12. \A q \in Requests \ {r} :
           req[q].task = t /\ req[q].kind = "delete" => ~req[q].wrote
    BY <1>1, <2>6 DEF CallsFine, CallForm
  <2>13. CallForm(r)'
    <3>1. req[r].kind = "delete" => s = "none"
      BY <1>1, <2>a DEF CallForm
    <3> QED
      BY <1>1, <2>2, <2>3, <2>7, <2>8, <3>1 DEF CallForm
  <2>14. RowFine(t)'
    <3>1. ASSUME t \notin raced', NEW q \in Requests, req'[q].task = t,
                 req'[q].pc = "written"
          PROVE  q = r
      BY <2>3, <2>6, <3>1 DEF Unannounced
    <3> QED
      BY <2>7, <2>8, <2>10, <3>1 DEF RowFine
  <2>15. ASSUME NEW v \in Viewers PROVE Follows(v, t)'
    <3>1. Follows(v, t)
      BY <2>4 DEF BoardInv
    <3>2. ~OnlyCreating(t)'
      BY <2>8 DEF OnlyCreating
    <3>3. Current(v)' => Current(v) /\ Held(v)' = Held(v)
      BY <1>1, <2>6 DEF Current, Held, Underway
    <3>4. Creating(t) => Creating(t)'
      BY <2>3, <2>4 DEF Creating
    <3>5. Lost(t) => Lost(t)'
      BY <1>1, <2>3 DEF Lost
    <3>6. HasCreated(inbox[v], t)' <=> HasCreated(inbox[v], t)
      BY <1>1 DEF HasCreated
    <3> QED
      BY <2>6, <2>11, <3>1, <3>2, <3>3, <3>4, <3>5, <3>6 DEF Follows
  <2>16. /\ req'[r].waiting = req[r].waiting
         /\ \A u \in Tasks \ {t} : u \in raced' <=> u \in raced
         /\ t \in raced => t \in raced'
    BY <2>2, <2>3, <2>6
  <2> QED
    BY <1>1, <2>3, <2>4, <2>5, <2>6, <2>7, <2>8, <2>12, <2>13, <2>14, <2>15, <2>16,
       WrittenKeeps
<1> QED
  BY <1>0, <1>2, <1>3 DEF Write

(* What is published reaches every board that is subscribed, after all     *)
(* that was published before; a board that is not is behind.               *)
LEMMA PublishKeeps ==
  ASSUME BoardInv, NEW r \in Requests, Publish(r) PROVE BoardInv'
<1> DEFINE e == EventOf(r)
           new == [req[r] EXCEPT !.pc = "published"]
<1>1. /\ BoardTypeOK /\ CallsFine /\ req[r] \in RequestState /\ CallForm(r)
      /\ req[r].pc = "written"
      /\ inbox' = [v \in Viewers |-> IF v \in joined THEN Append(inbox[v], e) ELSE inbox[v]]
      /\ behind' = behind \cup {v \in Viewers \ joined : fetch[v].at # "none"}
      /\ UNCHANGED <<status, position, cache, fetch, joined, raced>>
  BY DEF BoardInv, BoardTypeOK, CallsFine, Publish, viewVars
<1>2. req' = [req EXCEPT ![r] = new]
  BY <1>1 DEF Publish, BoardTypeOK
<1>3. /\ new \in RequestState /\ new.pc = "published" /\ new.wrote = req[r].wrote
      /\ new.kind = req[r].kind /\ new.viewer = req[r].viewer /\ new.task = req[r].task
      /\ new.to = req[r].to /\ new.waiting = req[r].waiting
  BY <1>1 DEF RequestState, InFlight
<1> HIDE DEF new
<1>4. /\ req' \in [Requests -> RequestState] /\ req'[r] = new
      /\ \A q \in Requests \ {r} : req'[q] = req[q]
  BY <1>1, <1>2, <1>3, Placed
<1>5. req[r].wrote
  BY <1>1 DEF CallForm
<1>6. PICK t \in Tasks : t = req[r].task
  BY <1>5, EventTells
<1>7. /\ e \in Event /\ e.task = t /\ e.to = req[r].to
      /\ e.type = "created" <=> req[r].kind = "create"
  BY <1>5, <1>6, EventTells
<1>8. SameCall(r) /\ CallForm(r)'
  BY <1>1, <1>3, <1>4 DEF SameCall, CallForm
<1>9. EventOf(r)' = e /\ req'[r].pc \in Announced
  BY <1>3, <1>4 DEF EventOf
<1>10. \A q \in Requests :
         req[q].pc \in Announced => req'[q].pc \in Announced /\ EventOf(q)' = EventOf(q)
  BY <1>1, <1>4 DEF EventOf
<1>11. BoardTypeOK'
  <2>1. inbox' \in [Viewers -> Seq(Event)]
    <3> HIDE DEF e
    <3> QED BY <1>1, <1>7 DEF BoardTypeOK
  <2> QED
    BY <1>1, <1>4, <2>1 DEF BoardTypeOK
<1> HIDE DEF e
<1>12. CallsFine'
  <2>1. ASSUME NEW q \in Requests \ {r} PROVE CallForm(q)'
    BY <1>1, <1>4, <2>1 DEF CallForm, CallsFine
  <2>2. OneCreator'
    BY <1>1, <1>4, <1>8 DEF CallsFine, OneCreator, SameCall
  <2>3. ASSUME NEW u \in Tasks PROVE RowFine(u)'
    <3>1. RowFine(u)
      BY <1>1 DEF CallsFine
    <3>2. \A q \in Requests : /\ req'[q].kind = req[q].kind /\ req'[q].task = req[q].task
                              /\ req'[q].to = req[q].to /\ req'[q].wrote = req[q].wrote
                              /\ req'[q].pc = "written" => req[q].pc = "written"
      BY <1>3, <1>4
    <3>3. Created(u)' <=> Created(u)
      BY <3>2 DEF Created
    <3> QED
      BY <1>1, <3>1, <3>2, <3>3 DEF RowFine
  <2> QED
    BY <1>8, <2>1, <2>2, <2>3 DEF CallsFine
<1>13. /\ Lost(t)' <=> Lost(t)
       /\ Creating(t) => Creating(t)' \/ req[r].kind = "create"
       /\ req[r].kind = "create" /\ OnlyCreating(t)' => OnlyCreating(t)
       /\ \A v : Moving(v, t) => Moving(v, t)'
  BY <1>1, <1>3, <1>4 DEF Lost, Creating, OnlyCreating, Moving
<1>14. ASSUME NEW v \in Viewers, v \in joined
       PROVE  inbox[v] \in Seq(Event) /\ inbox'[v] = Append(inbox[v], e)
  BY <1>1, <1>14 DEF BoardTypeOK
<1>15. ASSUME NEW v \in Viewers PROVE MailFine(v)'
  <2>1. MailFine(v)
    BY DEF BoardInv
  <2>2. CASE v \notin joined
    BY <1>1, <2>1, <2>2 DEF MailFine, CreatedFirst, LastSays
  <2>3. CASE v \in joined
    <3> DEFINE events == inbox[v]
    <3>1. events \in Seq(Event) /\ inbox'[v] = Append(events, e)
      BY <1>14, <2>3
    <3>2. /\ \A i \in 1 .. Len(Append(events, e)) :
               i \in 1 .. Len(events) \/ i = Len(events) + 1
          /\ \A i \in 1 .. Len(events) : Append(events, e)[i] = events[i]
          /\ Append(events, e)[Len(events) + 1] = e
      BY <1>7, <3>1
    <3>3. ASSUME NEW i \in 1 .. Len(inbox'[v])
          PROVE  \E q \in Requests : req'[q].pc \in Announced /\ inbox'[v][i] = EventOf(q)'
      <4>1. CASE i \in 1 .. Len(events)
        <5>1. PICK q \in Requests : req[q].pc \in Announced /\ events[i] = EventOf(q)
          BY <2>1, <4>1 DEF MailFine
        <5> QED
          BY <1>10, <3>1, <3>2, <4>1, <5>1
      <4>2. CASE i = Len(events) + 1
        BY <1>9, <3>1, <3>2, <4>2
      <4> QED
        BY <3>1, <3>2, <4>1, <4>2
    <3>4. ASSUME NEW u \in Tasks \ raced
          PROVE  CreatedFirst(Append(events, e), u)
      <4>1. CreatedFirst(events, u)
        BY <2>1 DEF MailFine
      <4>2. ASSUME e.task = u, e.type = "created" PROVE NoneAbout(events, u)
        <5> SUFFICES ASSUME NEW i \in 1 .. Len(events), events[i].task = u PROVE FALSE
          BY DEF NoneAbout
        <5>1. PICK q \in Requests : req[q].pc \in Announced /\ events[i] = EventOf(q)
          BY <2>1 DEF MailFine
        <5>2. req[q].wrote /\ req[q].task = u
          BY <1>1, <5>1 DEF EventOf, CallsFine, CallForm
        <5>3. req[r].kind = "create" /\ req[r].task = u
          BY <1>6, <1>7, <4>2
        <5>4. q = r
          BY <1>1, <5>2, <5>3 DEF CallsFine, RowFine
        <5> QED
          BY <1>1, <5>1, <5>4
      <4> QED
        BY <1>7, <3>1, <4>1, <4>2, OneMore
    <3>5. ASSUME NEW u \in Tasks \ raced, ~Lost(u)', ~Unannounced(u)'
          PROVE  LastSays(Append(events, e), u, status[u])
      <4>1. CASE u = t
        <5>1. e.to = status[u]
          BY <1>1, <1>6, <1>7, <4>1 DEF CallsFine, RowFine
        <5> QED
          BY <1>7, <3>1, <4>1, <5>1, OneMore
      <4>2. CASE u # t
        <5>1. ~Lost(u) /\ ~Unannounced(u)
          BY <1>4, <1>6, <1>8, <3>5, <4>2, OtherTask
        <5>2. LastSays(events, u, status[u])
          BY <2>1, <5>1 DEF MailFine
        <5> QED
          BY <1>7, <3>1, <4>2, <5>2, OneMore
      <4> QED
        BY <4>1, <4>2
    <3>6. \A u \in Tasks \ raced' :
            /\ CreatedFirst(inbox[v], u)'
            /\ ~Lost(u)' /\ ~Unannounced(u)' => LastSays(inbox[v], u, status[u])'
      BY <1>1, <3>1, <3>4, <3>5 DEF CreatedFirst, LastSays
    <3> QED
      BY <1>1, <2>3, <3>3, <3>6 DEF MailFine
  <2> QED
    BY <2>2, <2>3
<1>16. ASSUME NEW v \in Viewers, NEW u \in Tasks PROVE Follows(v, u)'
  <2>1. Follows(v, u) /\ (Held(v)' = Held(v))
    BY <1>1 DEF BoardInv, Held, Underway
  <2>2. CASE v \notin joined
    <3>1. ~Current(v)'
      BY <1>1, <2>2 DEF Current
    <3> QED
      BY <3>1 DEF Follows
  <2>3. CASE v \in joined
    <3>1. inbox[v] \in Seq(Event) /\ inbox'[v] = Append(inbox[v], e)
      BY <1>14, <2>3
    <3>2. Current(v)' <=> Current(v)
      BY <1>1, <2>3 DEF Current
    <3>3. /\ NoneAbout(inbox[v], u)' <=> NoneAbout(inbox[v], u) /\ e.task # u
          /\ OnlyCreated(inbox[v], u)'
             <=> OnlyCreated(inbox[v], u) /\ (e.task = u => e.type = "created")
          /\ HasCreated(inbox[v], u)'
             <=> HasCreated(inbox[v], u) \/ (e.task = u /\ e.type = "created")
      <4>1. /\ NoneAbout(inbox[v], u)' <=> NoneAbout(Append(inbox[v], e), u)
            /\ OnlyCreated(inbox[v], u)' <=> OnlyCreated(Append(inbox[v], e), u)
            /\ HasCreated(inbox[v], u)' <=> HasCreated(Append(inbox[v], e), u)
        BY <3>1 DEF NoneAbout, OnlyCreated, HasCreated
      <4> QED
        BY <1>7, <3>1, <4>1, OneMore
    <3>4. CASE u # t
      BY <1>1, <1>4, <1>6, <1>7, <1>8, <2>1, <3>2, <3>3, <3>4, OtherTask, FollowsStays
    <3>5. CASE u = t
      BY <1>1, <1>7, <1>13, <2>1, <3>2, <3>3, <3>5 DEF Follows
    <3> QED
      BY <3>4, <3>5
  <2> QED
    BY <2>2, <2>3
<1> QED
  BY <1>11, <1>12, <1>15, <1>16 DEF BoardInv

----------------------------------------------------------------------------

LEMMA InitBoards == BoardInit => BoardInv
<1> SUFFICES ASSUME BoardInit PROVE BoardInv
  OBVIOUS
<1>1. /\ status = Empty /\ joined = {} /\ behind = {} /\ raced = {}
      /\ \A r \in Requests : req[r] = UnsentCall
      /\ \A v \in Viewers : inbox[v] = <<>> /\ fetch[v].at = "none"
  BY DEF BoardInit
<1>2. BoardTypeOK
  <2>1. Empty \in Shown
    BY DEF Empty, Shown
  <2>2. [at |-> "none", result |-> Empty] \in Fetch
    BY <2>1 DEF Fetch
  <2> QED
    BY <2>1, <2>2, UnsentTyped DEF BoardInit, BoardTypeOK
<1>3. /\ UnsentCall.pc = "idle" /\ UnsentCall.kind = "none" /\ UnsentCall.wrote = FALSE
  BY DEF UnsentCall
<1>4. CallsFine
  BY <1>1, <1>3 DEF CallsFine, CallForm, OneCreator, RowFine, Empty
<1>5. \A v \in Viewers : MailFine(v) /\ \A t \in Tasks : Follows(v, t)
  BY <1>1 DEF MailFine, CreatedFirst, LastSays, Follows, Current
<1> QED
  BY <1>2, <1>4, <1>5 DEF BoardInv

LEMMA NextBoards == BoardInv /\ [BoardNext]_boardVars => BoardInv'
<1> SUFFICES ASSUME BoardInv, [BoardNext]_boardVars PROVE BoardInv'
  OBVIOUS
<1>1. ASSUME NEW v \in Viewers,
             \/ Join(v) \/ Disconnect(v) \/ ReceiveEvent(v)
             \/ ReadTasks(v) \/ ShowTasks(v) \/ FailFetch(v)
      PROVE  BoardInv'
  BY <1>1, JoinKeeps, DisconnectKeeps, ReceiveEventKeeps, ReadTasksKeeps,
     ShowTasksKeeps, FailFetchKeeps
<1>2. ASSUME NEW r \in Requests, HandleTask(r) PROVE BoardInv'
  BY <1>2, FindTopKeeps, InsertKeeps, FindTaskKeeps, WriteKeeps, PublishKeeps, AnswerKeeps,
     AbortKeeps, CutOffKeeps DEF HandleTask
<1>3. ASSUME NEW r \in Requests, CallElsewhere(r) PROVE BoardInv'
  BY <1>3, SendElsewhereKeeps DEF CallElsewhere
<1>4. ASSUME NEW r \in Requests, NEW v \in Viewers, Call(r, v) PROVE BoardInv'
  BY <1>4, createTaskKeeps, moveTaskKeeps DEF Call
<1>5. CASE UNCHANGED boardVars
  <2>1. UNCHANGED <<status, position, req, cache, fetch, joined, inbox, behind, raced>>
    BY <1>5 DEF boardVars
  <2>2. BoardTypeOK' /\ CallsFine'
    BY <2>1, CallsStay DEF BoardInv, BoardTypeOK
  <2>3. ASSUME NEW v \in Viewers PROVE MailFine(v)'
    BY <2>1, MailStays DEF BoardInv
  <2>4. ASSUME NEW v \in Viewers, NEW t \in Tasks PROVE Follows(v, t)'
    <3>1. Follows(v, t)
      BY DEF BoardInv
    <3>2. /\ Current(v)' <=> Current(v)
          /\ Held(v)' = Held(v)
          /\ NoneAbout(inbox[v], t)' <=> NoneAbout(inbox[v], t)
          /\ OnlyCreated(inbox[v], t)' <=> OnlyCreated(inbox[v], t)
          /\ HasCreated(inbox[v], t)' <=> HasCreated(inbox[v], t)
      BY <2>1 DEF Current, Held, Underway, NoneAbout, OnlyCreated, HasCreated
    <3> QED
      BY <2>1, <3>1, <3>2, CallsAlike, FollowsStays
  <2> QED
    BY <2>2, <2>3, <2>4 DEF BoardInv
<1> QED
  BY <1>1, <1>2, <1>3, <1>4, <1>5 DEF BoardNext

(* Type correctness.                                                       *)
THEOREM BoardTypeCorrect == BoardSpec => []BoardTypeOK
<1>1. BoardInv => BoardTypeOK
  BY DEF BoardInv
<1> QED
  BY <1>1, InitBoards, NextBoards, PTL DEF BoardSpec

(* A board shows every task as the database has it once what was written   *)
(* to it has reached the board, unless it fell behind or handlers of the   *)
(* task overlapped between write and publish.                              *)
THEOREM BoardsAgree == BoardSpec => []BoardsConverge
<1>1. BoardInv => BoardsConverge
  <2> SUFFICES ASSUME BoardInv, NEW v \in Viewers \ behind, NEW t \in Tasks \ raced,
                      Quiet(v, t)
               PROVE  cache[v][t] = status[t]
    BY DEF BoardsConverge
  <2>1. Follows(v, t)
    BY DEF BoardInv
  <2>2. Current(v) /\ Held(v) = cache[v]
    BY DEF Quiet, Current, Held, Underway
  <2> QED
    BY <2>1, <2>2 DEF Follows, Quiet
<1> QED
  BY <1>1, InitBoards, NextBoards, PTL DEF BoardSpec

----------------------------------------------------------------------------
(* The notifications.                                                      *)

USE UserAssumption, AttemptAssumption

Pending == {"waiting", "active", "delayed"}

(* The runs of a job so far: one for every failure and stall, and the one  *)
(* that has the job or completed it.                                       *)
Used(c) ==
  job[c].failures + job[c].stalls
    + (IF job[c].state \in {"active", "completed"} THEN 1 ELSE 0)

(* A handler that has written is about to enqueue a job if and only if it  *)
(* handed the task to somebody, unless the row had changed under it; and   *)
(* so it has a job once it is done.                                        *)
CallFine(c) ==
  /\ call[c].pc = "read" => call[c].kind # "none"
  /\ call[c].kind = "create" => call[c].existing = Nobody
  /\ call[c].pc = "written" => call[c].apart \/ (call[c].handed <=> Notifies(c))
  /\ job[c].state # "none" => call[c].pc = "done" /\ (call[c].handed \/ call[c].apart)
  /\ call[c].pc = "done" /\ call[c].handed => call[c].apart \/ job[c].state # "none"

(* Runs are used in order, the last one has the job while it is active,    *)
(* and a job ends only when a run of it has inserted the row or when       *)
(* nothing is left of its attempts.                                        *)
JobFine(c) ==
  /\ job[c].state = "none" => job[c].failures = 0 /\ job[c].stalls = 0
  /\ job[c].state \in Pending => job[c].failures < Attempts /\ job[c].stalls <= MaxStalls
  /\ job[c].holder = IF job[c].state = "active" THEN Used(c) ELSE 0
  /\ \A n \in Runs : run[c][n] # "none" <=> n <= Used(c)
  /\ \A n \in Runs : run[c][n] = "stored" => n \in rows[c]
  /\ \A n \in rows[c] : run[c][n] # "none"
  /\ job[c].state = "completed" => rows[c] # {}
  /\ job[c].state = "failed" => UsedUp(c)

NotifyInv == TypeOK /\ \A c \in Calls : CallFine(c) /\ JobFine(c)

LEMMA OneCall ==
  ASSUME NotifyInv, NEW c \in Calls, TypeOK', CallFine(c)', JobFine(c)',
         \A d \in Calls \ {c} : /\ call'[d] = call[d] /\ job'[d] = job[d]
                                /\ run'[d] = run[d] /\ rows'[d] = rows[d]
  PROVE  NotifyInv'
<1>1. ASSUME NEW d \in Calls \ {c} PROVE CallFine(d)' /\ JobFine(d)'
  BY DEF NotifyInv, CallFine, Notifies, JobFine, Used, UsedUp
<1> QED
  BY <1>1 DEF NotifyInv

(* What the types say of one call.                                         *)
LEMMA Typed ==
  ASSUME TypeOK, NEW c \in Calls
  PROVE  /\ call[c] \in CallState /\ job[c] \in JobState
         /\ run[c] \in [Runs -> Progress] /\ rows[c] \in SUBSET Runs
         /\ job[c].failures \in Nat /\ job[c].stalls \in Nat /\ job[c].holder \in Nat
         /\ \A n \in Runs : n \in Nat \ {0}
BY DEF TypeOK, JobState, Runs

----------------------------------------------------------------------------
(* The task routes.                                                        *)

LEMMA ReceiveKeeps ==
  ASSUME NotifyInv, NEW c \in Calls, NEW kind \in {"create", "assign"}, NEW u \in Users,
         NEW to \in Users \cup {Nobody}, Receive(c, kind, u, to)
  PROVE  NotifyInv'
<1> DEFINE state == [Unsent EXCEPT !.pc = "read", !.kind = kind, !.actor = u, !.to = to,
                                   !.existing = Known]
<1>1. /\ TypeOK /\ CallFine(c) /\ JobFine(c) /\ call[c].pc = "idle"
      /\ call' = [call EXCEPT ![c] = state] /\ UNCHANGED <<assignee, job, run, rows>>
  BY DEF NotifyInv, Receive
<1>2. Known \in Users \cup {Nobody} /\ (kind = "create" => Known = Nobody)
  BY <1>1 DEF Known, TypeOK, Receive
<1>3. /\ state \in CallState /\ state.pc = "read" /\ state.kind = kind
      /\ state.existing = Known
  BY <1>2 DEF CallState, Unsent
<1> HIDE DEF state
<1>4. TypeOK' /\ call'[c] = state /\ \A d \in Calls \ {c} : call'[d] = call[d]
  BY <1>1, <1>3 DEF TypeOK
<1>5. CallFine(c)' /\ JobFine(c)'
  BY <1>1, <1>2, <1>3, <1>4 DEF CallFine, JobFine, Used, UsedUp
<1> QED
  BY <1>1, <1>4, <1>5, OneCall

LEMMA WriteTaskKeeps ==
  ASSUME NotifyInv, NEW c \in Calls, WriteTask(c) PROVE NotifyInv'
<1> DEFINE handed == call[c].to \notin {Nobody, Known, call[c].actor}
           apart == call[c].existing # Known
           state == [call[c] EXCEPT !.pc = "written", !.handed = handed, !.apart = apart]
<1>1. /\ TypeOK /\ CallFine(c) /\ JobFine(c) /\ call[c].pc = "read"
      /\ assignee' = call[c].to /\ UNCHANGED <<job, run, rows>>
  BY DEF NotifyInv, WriteTask
<1>2. call \in [Calls -> CallState] /\ call[c] \in CallState
  BY <1>1 DEF TypeOK
<1>3. call' = [call EXCEPT ![c] = state]
  BY <1>2 DEF WriteTask
<1>4. handed \in BOOLEAN /\ apart \in BOOLEAN
  OBVIOUS
<1>5. /\ state \in CallState /\ state.pc = "written" /\ state.handed = handed
      /\ state.apart = apart /\ state.to = call[c].to /\ state.actor = call[c].actor
      /\ state.existing = call[c].existing /\ state.kind = call[c].kind
  <2> HIDE DEF handed, apart
  <2> QED BY <1>2, <1>4 DEF CallState
<1>6. apart \/ (handed <=> Notifies(c))
  BY <1>1, <1>2 DEF CallFine, CallState, Notifies
<1> HIDE DEF state, handed, apart
<1>7. call'[c] = state /\ (\A d \in Calls \ {c} : call'[d] = call[d]) /\ TypeOK'
  BY <1>1, <1>2, <1>3, <1>5 DEF TypeOK, CallState
<1>8. CallFine(c)'
  <2>1. Notifies(c)' <=> Notifies(c)
    BY <1>5, <1>7 DEF Notifies
  <2> QED
    BY <1>1, <1>5, <1>6, <1>7, <2>1 DEF CallFine
<1>9. JobFine(c)'
  BY <1>1 DEF JobFine, Used, UsedUp
<1> QED
  BY <1>1, <1>7, <1>8, <1>9, OneCall

(* A handler that ends keeps its history.                                  *)
LEMMA Closes ==
  ASSUME TypeOK, NEW c \in Calls, NEW pc \in {"done", "failed"}, Close(c, pc)
  PROVE  /\ call' \in [Calls -> CallState]
         /\ call'[c].pc = pc /\ call'[c].handed = call[c].handed
         /\ call'[c].apart = call[c].apart /\ call'[c].kind = "none"
         /\ \A d \in Calls \ {c} : call'[d] = call[d]
<1> DEFINE state == [Unsent EXCEPT !.pc = pc, !.handed = call[c].handed, !.apart = call[c].apart]
<1>1. call \in [Calls -> CallState] /\ call[c] \in CallState
  BY DEF TypeOK
<1>2. /\ state \in CallState /\ state.pc = pc /\ state.handed = call[c].handed
      /\ state.apart = call[c].apart /\ state.kind = "none"
  BY <1>1 DEF CallState, Unsent
<1>3. call' = [call EXCEPT ![c] = state]
  BY DEF Close
<1> HIDE DEF state
<1> QED
  BY <1>1, <1>2, <1>3

LEMMA EnqueueKeeps ==
  ASSUME NotifyInv, NEW c \in Calls, Enqueue(c) PROVE NotifyInv'
<1>1. /\ TypeOK /\ CallFine(c) /\ JobFine(c) /\ call[c].pc = "written" /\ Close(c, "done")
      /\ UNCHANGED <<assignee, run, rows>>
  BY DEF NotifyInv, Enqueue
<1>2. /\ call' \in [Calls -> CallState]
      /\ call'[c].pc = "done" /\ call'[c].handed = call[c].handed
      /\ call'[c].apart = call[c].apart /\ call'[c].kind = "none"
      /\ \A d \in Calls \ {c} : call'[d] = call[d]
  BY <1>1, Closes
<1>3. job[c].state = "none" /\ job[c] \in JobState /\ job \in [Calls -> JobState]
  BY <1>1 DEF CallFine, TypeOK
<1>4. CASE Notifies(c)
  <2>1. job' = [job EXCEPT ![c] = [job[c] EXCEPT !.state = "waiting"]]
    BY <1>3, <1>4 DEF Enqueue
  <2>2. [job[c] EXCEPT !.state = "waiting"] \in JobState
    BY <1>3 DEF JobState
  <2>3. /\ job'[c] = [job[c] EXCEPT !.state = "waiting"] /\ job' \in [Calls -> JobState]
        /\ \A d \in Calls \ {c} : job'[d] = job[d]
    BY <1>3, <2>1, <2>2
  <2>4. /\ job'[c].state = "waiting" /\ job'[c].failures = job[c].failures
        /\ job'[c].stalls = job[c].stalls /\ job'[c].holder = job[c].holder
    BY <1>3, <2>3 DEF JobState
  <2>5. CallFine(c)' /\ TypeOK'
    <3>1. call[c].handed \/ call[c].apart
      BY <1>1, <1>4 DEF CallFine
    <3> QED
      BY <1>1, <1>2, <2>3, <2>4, <3>1 DEF CallFine, TypeOK
  <2>6. JobFine(c)'
    BY <1>1, <1>3, <2>4 DEF JobFine, Used, UsedUp, Pending
  <2> QED
    BY <1>1, <1>2, <2>3, <2>5, <2>6, OneCall
<1>5. CASE ~Notifies(c)
  <2>1. job' = job
    BY <1>5 DEF Enqueue
  <2>2. call[c].handed => call[c].apart
    BY <1>1, <1>5 DEF CallFine
  <2>3. CallFine(c)' /\ TypeOK'
    BY <1>1, <1>2, <2>1, <2>2 DEF CallFine, TypeOK
  <2>4. JobFine(c)'
    BY <1>1, <2>1 DEF JobFine, Used, UsedUp
  <2> QED
    BY <1>1, <1>2, <2>1, <2>3, <2>4, OneCall
<1> QED
  BY <1>4, <1>5

LEMMA BreakKeeps ==
  ASSUME NotifyInv, NEW c \in Calls, Break(c) PROVE NotifyInv'
<1>1. /\ TypeOK /\ CallFine(c) /\ JobFine(c) /\ call[c].pc \in {"read", "written"}
      /\ Close(c, "failed") /\ UNCHANGED <<assignee, job, run, rows>>
  BY DEF NotifyInv, Break
<1>2. /\ call' \in [Calls -> CallState] /\ call'[c].pc = "failed" /\ call'[c].kind = "none"
      /\ \A d \in Calls \ {c} : call'[d] = call[d]
  BY <1>1, Closes
<1>3. TypeOK' /\ CallFine(c)' /\ JobFine(c)'
  BY <1>1, <1>2 DEF TypeOK, CallFine, JobFine, Used, UsedUp
<1> QED
  BY <1>1, <1>2, <1>3, OneCall

----------------------------------------------------------------------------
(* The worker and the queue.  No step of theirs touches a handler.         *)

(* A step of the queue on c alone, and what it has to show.                *)
LEMMA QueueStep ==
  ASSUME NotifyInv, NEW c \in Calls, UNCHANGED <<assignee, call>>,
         job[c].state # "none", job'[c].state # "none",
         job' \in [Calls -> JobState], run' \in [Calls -> [Runs -> Progress]],
         rows' \in [Calls -> SUBSET Runs],
         JobFine(c)',
         \A d \in Calls \ {c} : job'[d] = job[d] /\ run'[d] = run[d] /\ rows'[d] = rows[d]
  PROVE  NotifyInv'
<1>1. CallFine(c) /\ (Notifies(c)' <=> Notifies(c))
  BY DEF NotifyInv, Notifies
<1>2. TypeOK' /\ CallFine(c)'
  BY <1>1, Typed DEF NotifyInv, TypeOK, CallFine
<1> QED
  BY <1>2, OneCall

(* A run that is under way belongs to a job.                               *)
LEMMA RunHasJob ==
  ASSUME NotifyInv, NEW c \in Calls, NEW n \in Runs, run[c][n] # "none"
  PROVE  job[c].state # "none" /\ call[c].pc = "done" /\ n <= Used(c)
BY Typed DEF NotifyInv, JobFine, CallFine, Used

LEMMA Reached ==
  ASSUME TypeOK, NEW c \in Calls, NEW n \in Runs, NEW to \in Progress,
         run' = [run EXCEPT ![c][n] = to]
  PROVE  /\ run' \in [Calls -> [Runs -> Progress]] /\ run'[c][n] = to
         /\ \A m \in Runs \ {n} : run'[c][m] = run[c][m]
         /\ \A d \in Calls \ {c} : run'[d] = run[d]
BY DEF TypeOK

LEMMA TakeKeeps ==
  ASSUME NotifyInv, NEW c \in Calls, Take(c) PROVE NotifyInv'
<1>1. /\ TypeOK /\ CallFine(c) /\ JobFine(c) /\ job[c].state = "waiting"
      /\ UNCHANGED <<assignee, call, rows>> /\ call[c].pc = "done"
  BY DEF NotifyInv, Take, taskVars, CallFine
<1>2. PICK n \in Runs : /\ run[c][n] = "none"
                        /\ \A m \in 1 .. n - 1 : run[c][m] # "none"
                        /\ run' = [run EXCEPT ![c][n] = "started"]
                        /\ job' = [job EXCEPT ![c].state = "active", ![c].holder = n]
  BY DEF Take
<1>3. job[c] \in JobState /\ job \in [Calls -> JobState]
  BY <1>1 DEF TypeOK
<1>4. /\ job' \in [Calls -> JobState] /\ job'[c].state = "active" /\ job'[c].holder = n
      /\ job'[c].failures = job[c].failures /\ job'[c].stalls = job[c].stalls
      /\ \A d \in Calls \ {c} : job'[d] = job[d]
  BY <1>2, <1>3 DEF JobState
<1>5. /\ run' \in [Calls -> [Runs -> Progress]] /\ run'[c][n] = "started"
      /\ \A m \in Runs \ {n} : run'[c][m] = run[c][m]
      /\ \A d \in Calls \ {c} : run'[d] = run[d]
  BY <1>1, <1>2, Reached DEF Progress
<1>6. n = Used(c) + 1 /\ Used(c)' = Used(c) + 1
  <2>1. Used(c) \in Nat /\ n \in Nat \ {0} /\ Used(c)' = Used(c) + 1
    BY <1>1, <1>4, Typed DEF Used
  <2>2. ~(n <= Used(c))
    BY <1>1, <1>2 DEF JobFine
  <2>3. CASE n = 1
    BY <2>1, <2>2, <2>3
  <2>4. CASE n > 1
    <3>1. n - 1 \in Runs /\ n - 1 \in 1 .. n - 1
      BY <2>1, <2>4 DEF Runs
    <3>2. n - 1 <= Used(c)
      BY <1>1, <1>2, <3>1 DEF JobFine
    <3> QED
      BY <2>1, <2>2, <3>2
  <2> QED
    BY <2>1, <2>3, <2>4
<1>7. JobFine(c)'
  <2>1. \A m \in Runs : run'[c][m] # "none" <=> m <= Used(c)'
    <3> SUFFICES ASSUME NEW m \in Runs PROVE run'[c][m] # "none" <=> m <= Used(c) + 1
      BY <1>6
    <3>1. Used(c) \in Nat /\ m \in Nat
      BY <1>1, Typed DEF Used
    <3>2. run[c][m] # "none" <=> m <= Used(c)
      BY <1>1 DEF JobFine
    <3> QED
      BY <1>5, <1>6, <3>1, <3>2
  <2>2. rows[c] \subseteq Runs
    BY <1>1, Typed
  <2> QED
    BY <1>1, <1>2, <1>4, <1>5, <1>6, <2>1, <2>2 DEF JobFine, Pending
<1> QED
  BY <1>1, <1>4, <1>5, <1>7, QueueStep DEF TypeOK

LEMMA CreateRowKeeps ==
  ASSUME NotifyInv, NEW c \in Calls, NEW n \in Runs, CreateRow(c, n) PROVE NotifyInv'
<1>1. /\ TypeOK /\ CallFine(c) /\ JobFine(c) /\ run[c][n] = "started"
      /\ run' = [run EXCEPT ![c][n] = "stored"]
      /\ rows' = [rows EXCEPT ![c] = rows[c] \cup {n}]
      /\ UNCHANGED <<assignee, call, job>>
  BY DEF NotifyInv, CreateRow, Reach, taskVars
<1>2. job[c].state # "none" /\ call[c].pc = "done"
  BY <1>1, RunHasJob
<1>3. /\ run' \in [Calls -> [Runs -> Progress]] /\ run'[c][n] = "stored"
      /\ \A m \in Runs \ {n} : run'[c][m] = run[c][m]
      /\ \A d \in Calls \ {c} : run'[d] = run[d]
  BY <1>1, Reached DEF Progress
<1>4. /\ rows' \in [Calls -> SUBSET Runs] /\ rows'[c] = rows[c] \cup {n}
      /\ \A d \in Calls \ {c} : rows'[d] = rows[d]
  BY <1>1 DEF TypeOK
<1>5. JobFine(c)'
  <2>1. rows[c] \subseteq Runs
    BY <1>1, Typed
  <2>2. \A m \in Runs : run'[c][m] # "none" <=> run[c][m] # "none"
    BY <1>1, <1>3
  <2> QED
    BY <1>1, <1>3, <1>4, <2>1, <2>2 DEF JobFine, Used, UsedUp
<1> QED
  BY <1>1, <1>2, <1>3, <1>4, <1>5, QueueStep DEF TypeOK

(* A run that ends without settling its job.                               *)
LEMMA OverKeeps ==
  ASSUME NotifyInv, NEW c \in Calls, NEW n \in Runs, run[c][n] \in {"started", "stored"},
         run' = [run EXCEPT ![c][n] = "over"], UNCHANGED <<assignee, call, job, rows>>
  PROVE  NotifyInv'
<1>1. TypeOK /\ JobFine(c)
  BY DEF NotifyInv
<1>2. job[c].state # "none" /\ call[c].pc = "done"
  BY RunHasJob
<1>3. /\ run' \in [Calls -> [Runs -> Progress]] /\ run'[c][n] = "over"
      /\ \A m \in Runs \ {n} : run'[c][m] = run[c][m]
      /\ \A d \in Calls \ {c} : run'[d] = run[d]
  BY <1>1, Reached DEF Progress
<1>4. JobFine(c)'
  <2>1. rows[c] \subseteq Runs
    BY <1>1, Typed
  <2>2. \A m \in Runs : run'[c][m] # "none" <=> run[c][m] # "none"
    BY <1>3
  <2> QED
    BY <1>1, <1>3, <2>1, <2>2 DEF JobFine, Used, UsedUp
<1> QED
  BY <1>1, <1>2, <1>3, <1>4, QueueStep DEF TypeOK

(* A run that has the job is its last one, and the job is active.          *)
LEMMA Holder ==
  ASSUME NotifyInv, NEW c \in Calls, NEW n \in Runs, Holds(c, n)
  PROVE  job[c].state = "active" /\ n = Used(c)
BY Typed DEF NotifyInv, JobFine, Holds

LEMMA FinishKeeps ==
  ASSUME NotifyInv, NEW c \in Calls, NEW n \in Runs, Finish(c, n) PROVE NotifyInv'
<1>1. /\ TypeOK /\ JobFine(c) /\ run[c][n] = "stored"
      /\ run' = [run EXCEPT ![c][n] = "over"]
      /\ UNCHANGED <<assignee, call, rows>>
  BY DEF NotifyInv, Finish, Reach, taskVars
<1>2. job[c].state # "none" /\ call[c].pc = "done"
  BY <1>1, RunHasJob
<1>3. CASE ~Holds(c, n)
  BY <1>1, <1>3, OverKeeps DEF Finish
<1>4. CASE Holds(c, n)
  <2>1. job' = [job EXCEPT ![c].state = "completed", ![c].holder = 0]
    BY <1>4 DEF Finish, AfterSuccess
  <2>2. job[c] \in JobState /\ job \in [Calls -> JobState]
    BY <1>1 DEF TypeOK
  <2>3. /\ job' \in [Calls -> JobState] /\ job'[c].state = "completed" /\ job'[c].holder = 0
        /\ job'[c].failures = job[c].failures /\ job'[c].stalls = job[c].stalls
        /\ \A d \in Calls \ {c} : job'[d] = job[d]
    BY <2>1, <2>2 DEF JobState
  <2>4. /\ run' \in [Calls -> [Runs -> Progress]] /\ run'[c][n] = "over"
        /\ \A m \in Runs \ {n} : run'[c][m] = run[c][m]
        /\ \A d \in Calls \ {c} : run'[d] = run[d]
    BY <1>1, Reached DEF Progress
  <2>5. job[c].state = "active" /\ n \in rows[c] /\ Used(c)' = Used(c)
    BY <1>1, <1>4, <2>3, Holder DEF JobFine, Used
  <2>6. JobFine(c)'
    <3>1. rows[c] \subseteq Runs
      BY <1>1, Typed
    <3>2. \A m \in Runs : run'[c][m] # "none" <=> run[c][m] # "none"
      BY <1>1, <2>4
    <3> QED
      BY <1>1, <2>3, <2>4, <2>5, <3>1, <3>2 DEF JobFine, Pending
  <2> QED
    BY <1>1, <1>2, <2>3, <2>4, <2>6, QueueStep DEF TypeOK
<1> QED
  BY <1>3, <1>4

LEMMA RejectKeeps ==
  ASSUME NotifyInv, NEW c \in Calls, NEW n \in Runs, Reject(c, n) PROVE NotifyInv'
<1>1. /\ TypeOK /\ JobFine(c) /\ run[c][n] \in {"started", "stored"}
      /\ run' = [run EXCEPT ![c][n] = "over"]
      /\ UNCHANGED <<assignee, call, rows>>
  BY DEF NotifyInv, Reject, taskVars
<1>2. job[c].state # "none" /\ call[c].pc = "done"
  BY <1>1, RunHasJob
<1>3. CASE ~Holds(c, n)
  BY <1>1, <1>3, OverKeeps DEF Reject
<1>4. CASE Holds(c, n)
  <2>1. job' = [job EXCEPT ![c].state = AfterFailure(c), ![c].failures = @ + 1, ![c].holder = 0]
    BY <1>4 DEF Reject
  <2>2. job[c] \in JobState /\ job \in [Calls -> JobState]
    BY <1>1 DEF TypeOK
  <2>3. /\ job[c].state = "active" /\ job[c].failures < Attempts /\ job[c].stalls <= MaxStalls
        /\ job[c].failures \in Nat /\ job[c].stalls \in Nat
    BY <1>1, <1>4, Holder, Typed DEF JobFine, Pending
  <2>4. AfterFailure(c) \in {"delayed", "failed"}
    BY DEF AfterFailure
  <2>5. job[c].failures + 1 \in 0 .. Attempts
    BY <2>3
  <2>6. /\ job' \in [Calls -> JobState] /\ job'[c].state = AfterFailure(c)
        /\ job'[c].holder = 0 /\ job'[c].failures = job[c].failures + 1
        /\ job'[c].stalls = job[c].stalls
        /\ \A d \in Calls \ {c} : job'[d] = job[d]
    BY <2>1, <2>2, <2>4, <2>5 DEF JobState
  <2>7. /\ run' \in [Calls -> [Runs -> Progress]] /\ run'[c][n] = "over"
        /\ \A m \in Runs \ {n} : run'[c][m] = run[c][m]
        /\ \A d \in Calls \ {c} : run'[d] = run[d]
    BY <1>1, Reached DEF Progress
  <2>8. Used(c)' = Used(c)
    BY <2>3, <2>4, <2>6 DEF Used
  <2>9. JobFine(c)'
    <3>1. rows[c] \subseteq Runs
      BY <1>1, Typed
    <3>2. \A m \in Runs : run'[c][m] # "none" <=> run[c][m] # "none"
      BY <1>1, <2>7
    <3>3. /\ job'[c].state = "delayed" => job'[c].failures < Attempts
          /\ job'[c].state = "failed" => job'[c].failures = Attempts
      BY <2>3, <2>6 DEF AfterFailure
    <3>4. /\ \A m \in Runs : run'[c][m] # "none" <=> m <= Used(c)'
          /\ \A m \in Runs : run'[c][m] = "stored" => m \in rows'[c]
          /\ \A m \in rows'[c] : run'[c][m] # "none"
      BY <1>1, <2>7, <2>8, <3>1, <3>2 DEF JobFine
    <3>5. job'[c].state = "failed" => UsedUp(c)'
      BY <3>3 DEF UsedUp
    <3> QED
      BY <1>1, <2>3, <2>4, <2>6, <3>3, <3>4, <3>5 DEF JobFine, Pending
  <2> QED
    BY <1>1, <1>2, <2>4, <2>6, <2>7, <2>9, QueueStep DEF TypeOK
<1> QED
  BY <1>3, <1>4

LEMMA PromoteKeeps ==
  ASSUME NotifyInv, NEW c \in Calls, Promote(c) PROVE NotifyInv'
<1>1. /\ TypeOK /\ CallFine(c) /\ JobFine(c) /\ job[c].state = "delayed"
      /\ job' = [job EXCEPT ![c].state = "waiting"] /\ UNCHANGED <<assignee, call, run, rows>>
  BY DEF NotifyInv, Promote, taskVars
<1>2. job[c] \in JobState /\ job \in [Calls -> JobState] /\ call[c].pc = "done"
  BY <1>1 DEF TypeOK, CallFine
<1>3. /\ job' \in [Calls -> JobState] /\ job'[c].state = "waiting"
      /\ job'[c].holder = job[c].holder
      /\ job'[c].failures = job[c].failures /\ job'[c].stalls = job[c].stalls
      /\ \A d \in Calls \ {c} : job'[d] = job[d]
  BY <1>1, <1>2 DEF JobState
<1>4. JobFine(c)'
  BY <1>1, <1>3 DEF JobFine, Used, UsedUp, Pending
<1> QED
  BY <1>1, <1>2, <1>3, <1>4, QueueStep DEF TypeOK

LEMMA StallKeeps ==
  ASSUME NotifyInv, NEW c \in Calls, Stall(c) PROVE NotifyInv'
<1> DEFINE to == IF job[c].stalls < MaxStalls THEN "waiting" ELSE "failed"
<1>1. /\ TypeOK /\ CallFine(c) /\ JobFine(c) /\ job[c].state = "active"
      /\ job' = [job EXCEPT ![c].stalls = @ + 1, ![c].holder = 0, ![c].state = to]
      /\ UNCHANGED <<assignee, call, run, rows>>
  BY DEF NotifyInv, Stall, taskVars
<1>2. job[c] \in JobState /\ job \in [Calls -> JobState] /\ call[c].pc = "done"
  BY <1>1 DEF TypeOK, CallFine
<1>3. /\ job[c].failures < Attempts /\ job[c].stalls <= MaxStalls
      /\ job[c].failures \in Nat /\ job[c].stalls \in Nat
  BY <1>1, Typed DEF JobFine, Pending
<1>4. job[c].stalls + 1 \in 0 .. MaxStalls + 1 /\ to \in {"waiting", "failed"}
  BY <1>3
<1>5. /\ job' \in [Calls -> JobState] /\ job'[c].state = to /\ job'[c].holder = 0
      /\ job'[c].failures = job[c].failures /\ job'[c].stalls = job[c].stalls + 1
      /\ \A d \in Calls \ {c} : job'[d] = job[d]
  <2> HIDE DEF to
  <2> QED BY <1>1, <1>2, <1>4 DEF JobState
<1>6. Used(c)' = Used(c)
  BY <1>1, <1>3, <1>5 DEF Used
<1>7. /\ to = "waiting" => job'[c].stalls <= MaxStalls
      /\ to = "failed" => UsedUp(c)'
  BY <1>3, <1>5 DEF UsedUp
<1>8. JobFine(c)'
  <2> HIDE DEF to
  <2> QED BY <1>1, <1>3, <1>4, <1>5, <1>6, <1>7 DEF JobFine, Pending
<1> QED
  BY <1>1, <1>2, <1>4, <1>5, <1>8, QueueStep DEF TypeOK

----------------------------------------------------------------------------

LEMMA InitNotify == Init => NotifyInv
BY DEF Init, NotifyInv, TypeOK, CallState, JobState, Progress, Unsent, NoJob, CallFine, JobFine,
       Used, Pending, Runs

LEMMA NextNotify == NotifyInv /\ [Next]_vars => NotifyInv'
<1> SUFFICES ASSUME NotifyInv, [Next]_vars PROVE NotifyInv'
  OBVIOUS
<1>1. ASSUME NEW c \in Calls, Handle(c) \/ Queue(c) PROVE NotifyInv'
  BY <1>1, WriteTaskKeeps, EnqueueKeeps, BreakKeeps, TakeKeeps, PromoteKeeps, StallKeeps
     DEF Handle, Queue
<1>2. ASSUME NEW c \in Calls, NEW kind \in {"create", "assign"}, NEW u \in Users,
             NEW to \in Users \cup {Nobody}, Receive(c, kind, u, to)
      PROVE  NotifyInv'
  BY <1>2, ReceiveKeeps
<1>3. ASSUME NEW c \in Calls, NEW n \in Runs, Work(c, n) \/ Reject(c, n) \/ Die(c, n)
      PROVE  NotifyInv'
  BY <1>3, CreateRowKeeps, FinishKeeps, RejectKeeps, OverKeeps DEF Work, Die, taskVars
<1>4. CASE UNCHANGED vars
  BY <1>4 DEF vars, NotifyInv, TypeOK, CallFine, Notifies, JobFine, Used, UsedUp
<1> QED
  BY <1>1, <1>2, <1>3, <1>4 DEF Next

(* Type correctness.                                                       *)
THEOREM TypeCorrect == Spec => []TypeOK
<1>1. NotifyInv => TypeOK
  BY DEF NotifyInv
<1> QED
  BY <1>1, InitNotify, NextNotify, PTL DEF Spec

(* No notification but of a write that handed the task over, or of a call  *)
(* that overlapped another, and none of a job twice without a failure or a *)
(* stall.                                                                  *)
THEOREM ToldWithCause == Spec => []DuplicatesHaveCause
<1>1. NotifyInv => DuplicatesHaveCause
  <2> SUFFICES ASSUME NotifyInv, NEW c \in Calls, NEW n \in rows[c]
               PROVE  /\ call[c].handed \/ call[c].apart
                      /\ n <= 1 + job[c].failures + job[c].stalls
    BY DEF DuplicatesHaveCause
  <2>1. n \in Runs /\ run[c][n] # "none"
    BY Typed DEF NotifyInv, JobFine
  <2>2. n <= Used(c) /\ job[c].state # "none"
    BY <2>1, RunHasJob
  <2>3. call[c].handed \/ call[c].apart
    BY <2>2 DEF NotifyInv, CallFine
  <2> QED
    BY <2>1, <2>2, <2>3, Typed DEF Used, NotifyInv
<1> QED
  BY <1>1, InitNotify, NextNotify, PTL DEF Spec

(* Whoever gets the task is told, or the job ran out of attempts.          *)
THEOREM Told == Spec => []AssigneeTold
<1>1. NotifyInv => AssigneeTold
  <2> SUFFICES ASSUME NotifyInv, NEW c \in Calls,
                      call[c].pc = "done", call[c].handed, ~call[c].apart,
                      job[c].state \notin Pending
               PROVE  rows[c] # {} \/ UsedUp(c)
    BY DEF AssigneeTold, Pending
  <2>1. CallFine(c) /\ JobFine(c) /\ job[c] \in JobState
    BY DEF NotifyInv, TypeOK
  <2>2. job[c].state \in {"completed", "failed"}
    BY <2>1 DEF CallFine, JobState, Pending
  <2> QED
    BY <2>1, <2>2 DEF JobFine
<1> QED
  BY <1>1, InitNotify, NextNotify, PTL DEF Spec

=============================================================================
