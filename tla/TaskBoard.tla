------------------------------ MODULE TaskBoard ------------------------------
(***************************************************************************)
(* The kanban board of a project: the task handlers of tasks.routes.ts,    *)
(* the task.* events they publish, and the boards of project/page.tsx that *)
(* show tasks from a fetch, apply the events to what they show, and move   *)
(* cards before the server has answered.                                   *)
(*                                                                         *)
(* A call creates, moves or deletes a task; each is a handler that others  *)
(* interleave with at every await.  All events pass through one Redis      *)
(* channel, so every subscriber gets them in the order they were published *)
(* in, each in its own time.  A caller whose board is not in Viewers       *)
(* matters by its calls only, which are Elsewhere.                         *)
(*                                                                         *)
(* TaskProofs extends this module together with Notifications, hence the   *)
(* names BoardInit, BoardNext, ...                                         *)
(***************************************************************************)
EXTENDS Integers, Sequences

CONSTANTS
  Requests,  \* calls to the task routes, each made at most once
  Tasks, Viewers,
  Columns    \* the task statuses, "TODO" among them

ASSUME ColumnAssumption == "TODO" \in Columns /\ "none" \notin Columns

Elsewhere == "elsewhere"

VARIABLES
  status,    \* per task its column, or none if there is no row
  position,  \* per task its fractional index
  req,       \* per request, the state of its handler and of its caller
  cache,     \* per viewer, the tasks it shows by column
  fetch,     \* per viewer, its GET of the tasks
  joined,    \* the viewers whose subscription the gateway holds
  inbox,     \* per viewer, the events on their way to it
  behind,    \* history: viewers that missed an event or went back since they fetched
  raced      \* history: tasks written between another's write and publish

boardVars == <<status, position, req, cache, fetch, joined, inbox, behind, raced>>
viewVars == <<cache, fetch, joined>>
eventVars == <<inbox, behind, raced>>

Shown == [Tasks -> Columns \cup {"none"}]
Empty == [t \in Tasks |-> "none"]

(* A fetch is not made, read by the server and on its way, or done; once   *)
(* the board has tasks they may be read again.                             *)
Fetch == [at : {"none", "read", "done", "reread"}, result : Shown]
Event == [type : {"created", "updated", "deleted"}, task : Tasks, to : Columns \cup {"none"}]

InFlight == {"sent", "placing", "checked", "written", "published"}

(* to is the column a move asks for; top the position a creation found;    *)
(* previous what the caller showed before its optimistic move; waiting is  *)
(* FALSE once the caller has seen the call fail.                           *)
RequestState ==
  [pc : InFlight \cup {"idle", "ok", "failed"},
   kind : {"none", "create", "move", "delete"},
   viewer : Viewers \cup {"none", Elsewhere}, task : Tasks \cup {"none"},
   to : Columns \cup {"none"}, top : Int, previous : Shown,
   waiting : BOOLEAN, wrote : BOOLEAN]

UnsentCall ==
  [pc |-> "idle", kind |-> "none", viewer |-> "none", task |-> "none",
   to |-> "none", top |-> 0, previous |-> Empty, waiting |-> TRUE, wrote |-> FALSE]

BoardInit ==
  /\ status = Empty
  /\ position = [t \in Tasks |-> 0]
  /\ req = [r \in Requests |-> UnsentCall]
  /\ cache = [v \in Viewers |-> Empty]
  /\ fetch = [v \in Viewers |-> [at |-> "none", result |-> Empty]]
  /\ joined = {}
  /\ inbox = [v \in Viewers |-> <<>>]
  /\ behind = {}
  /\ raced = {}

----------------------------------------------------------------------------
(* The board of a viewer.                                                  *)

Loaded(v) == fetch[v].at \in {"done", "reread"}

Underway(v) == fetch[v].at \in {"read", "reread"}

(* Opening the page sends a subscribe and a fetch, which the gateway and   *)
(* the API get to in either order.                                         *)
Join(v) ==
  /\ v \notin joined
  /\ joined' = joined \cup {v}
  /\ UNCHANGED <<status, position, req, cache, fetch, eventVars>>

(* The first fetch, or one for a window that has the focus again.          *)
ReadTasks(v) ==
  /\ ~Underway(v)
  /\ fetch' = [fetch EXCEPT ![v] =
       [at |-> IF Loaded(v) THEN "reread" ELSE "read", result |-> status]]
  /\ behind' = behind \ {v}
  /\ UNCHANGED <<status, position, req, cache, joined, inbox, raced>>

Settled(v, at) == [fetch EXCEPT ![v] = [at |-> at, result |-> Empty]]

ShowTasks(v) ==
  /\ Underway(v)
  /\ cache' = [cache EXCEPT ![v] = fetch[v].result]
  /\ fetch' = Settled(v, "done")
  /\ UNCHANGED <<status, position, req, joined, eventVars>>

(* The GET and its retry fail.                                             *)
FailFetch(v) ==
  /\ Underway(v)
  /\ fetch' = Settled(v, IF Loaded(v) THEN "done" ELSE "none")
  /\ behind' = behind \cup {v}
  /\ UNCHANGED <<status, position, req, cache, joined, inbox, raced>>

(* The socket is lost, or the page is left; Join brings the room back, and *)
(* fetches nothing.                                                        *)
Disconnect(v) ==
  /\ v \in joined
  /\ joined' = joined \ {v}
  /\ inbox' = [inbox EXCEPT ![v] = <<>>]
  /\ behind' = IF inbox[v] # <<>> THEN behind \cup {v} ELSE behind
  /\ UNCHANGED <<status, position, req, cache, fetch, raced>>

\* Mutants of Applied: moves are ignored, or the wrong field is taken.
AppliedButMoves(shown, event) ==
  IF event.type = "updated" THEN shown ELSE [shown EXCEPT ![event.task] = event.to]
AppliedField(shown, event) == [shown EXCEPT ![event.task] = event.type]

(* A board with nothing fetched yet ignores events; created does not touch *)
(* a task it shows already, updated none that it does not show, and what a *)
(* deletion leaves of a task is none.                                      *)
Applied(shown, event) ==
  IF \/ event.type = "created" /\ shown[event.task] = "none"
     \/ event.type = "updated" /\ shown[event.task] # "none"
     \/ event.type = "deleted"
    THEN [shown EXCEPT ![event.task] = event.to]
    ELSE shown

ReceiveEvent(v) ==
  /\ inbox[v] # <<>>
  /\ inbox' = [inbox EXCEPT ![v] = Tail(@)]
  /\ cache' = IF Loaded(v) THEN [cache EXCEPT ![v] = Applied(@, Head(inbox[v]))]
                           ELSE cache
  /\ behind' = IF Underway(v) THEN behind \cup {v} ELSE behind
  /\ UNCHANGED <<status, position, req, fetch, joined, raced>>

Send(r, call) ==
  /\ req[r].pc = "idle"
  /\ req' = [req EXCEPT ![r] = call]
  /\ UNCHANGED <<status, position, fetch, joined, eventVars>>

Named(t) == \E r \in Requests : req[r].kind = "create" /\ req[r].task = t

MayCreate(t) == status[t] = "none" /\ ~Named(t)

createTask(r, v, t) ==
  /\ Loaded(v)
  /\ MayCreate(t)
  /\ Send(r, [UnsentCall EXCEPT !.pc = "sent", !.kind = "create",
                                !.viewer = v, !.task = t, !.to = "TODO"])
  /\ UNCHANGED cache

moveTask(r, v, t, s) ==
  /\ Loaded(v)
  /\ cache[v][t] \notin {"none", s}
  /\ Send(r, [UnsentCall EXCEPT !.pc = "sent", !.kind = "move", !.viewer = v,
                                !.task = t, !.to = s, !.previous = cache[v]])
  /\ cache' = [cache EXCEPT ![v][t] = s]

(* No page deletes tasks yet.                                              *)
SendElsewhere(r, t, kind, s) ==
  /\ IF kind = "create" THEN MayCreate(t) /\ s = "TODO" ELSE Named(t)
  /\ kind = "delete" => s = "none"
  /\ kind = "move" => s # "none"
  /\ Send(r, [UnsentCall EXCEPT !.pc = "sent", !.kind = kind,
                                !.viewer = Elsewhere, !.task = t, !.to = s,
                                !.waiting = FALSE])
  /\ UNCHANGED cache

----------------------------------------------------------------------------
(* The handlers.                                                           *)

Goto(r, pc) == req' = [req EXCEPT ![r].pc = pc]

(* The caller sees its call fail.                                          *)
RollBack(r) ==
  IF req[r].kind = "move" /\ req[r].waiting
    THEN /\ cache' = [cache EXCEPT ![req[r].viewer] = req[r].previous]
         /\ behind' = behind \cup {req[r].viewer}
    ELSE UNCHANGED <<cache, behind>>

Fail(r) ==
  /\ req' = [req EXCEPT ![r].pc = "failed", ![r].waiting = FALSE, ![r].previous = Empty]
  /\ RollBack(r)

Todo == {t \in Tasks : status[t] = "TODO"}

(* Creation: look for the smallest position, then insert one below it.     *)
FindTop(r) ==
  /\ req[r].pc = "sent" /\ req[r].kind = "create"
  /\ \E lowest \in IF Todo = {} THEN {1} ELSE {position[t] : t \in Todo} :
       /\ \A t \in Todo : lowest <= position[t]
       /\ req' = [req EXCEPT ![r].pc = "placing", ![r].top = lowest - 1]
  /\ UNCHANGED <<status, position, viewVars, eventVars>>

Insert(r) ==
  LET t == req[r].task IN
  /\ req[r].pc = "placing"
  /\ status' = [status EXCEPT ![t] = "TODO"]
  /\ position' = [position EXCEPT ![t] = req[r].top]
  /\ req' = [req EXCEPT ![r].pc = "written", ![r].wrote = TRUE]
  /\ UNCHANGED <<viewVars, eventVars>>

(* Moving and deleting: look for the task, then write it.                  *)
FindTask(r) ==
  /\ req[r].pc = "sent" /\ req[r].kind # "create"
  /\ \/ status[req[r].task] # "none" /\ Goto(r, "checked") /\ UNCHANGED <<cache, behind>>
     \/ status[req[r].task] = "none" /\ Fail(r)
  /\ UNCHANGED <<status, position, fetch, joined, inbox, raced>>

Unannounced(t) == \E q \in Requests : req[q].pc = "written" /\ req[q].task = t

Write(r) ==
  LET t == req[r].task IN
  /\ req[r].pc = "checked"
  /\ \/ /\ status[t] # "none"
        /\ status' = [status EXCEPT ![t] = req[r].to]
        /\ req' = [req EXCEPT ![r].pc = "written", ![r].wrote = TRUE]
        /\ raced' = IF Unannounced(t) THEN raced \cup {t} ELSE raced
        /\ UNCHANGED <<cache, behind>>
     \/ /\ status[t] = "none"
        /\ Fail(r)
        /\ UNCHANGED <<status, raced>>
  /\ UNCHANGED <<position, fetch, joined, inbox>>

EventType == [create |-> "created", move |-> "updated", delete |-> "deleted"]

EventOf(r) ==
  [type |-> EventType[req[r].kind], task |-> req[r].task, to |-> req[r].to]

(* The event goes out before the assignee is notified and the call is      *)
(* answered, so the caller may still roll back what was announced.         *)
Publish(r) ==
  /\ req[r].pc = "written"
  /\ inbox' = [v \in Viewers |->
       IF v \in joined THEN Append(inbox[v], EventOf(r)) ELSE inbox[v]]
  /\ behind' = behind \cup {v \in Viewers \ joined : fetch[v].at # "none"}
  /\ req' = [req EXCEPT ![r].pc = "published"]
  /\ UNCHANGED <<status, position, viewVars, raced>>

Answer(r) ==
  /\ req[r].pc = "published"
  /\ req' = [req EXCEPT ![r].pc = "ok", ![r].previous = Empty]
  /\ UNCHANGED <<status, position, viewVars, eventVars>>

(* The call is refused by the role check, or its process dies.  After the  *)
(* publish, this is CutOff to the caller and nothing to anybody else.      *)
Abort(r) ==
  /\ req[r].pc \in InFlight \ {"published"}
  /\ Fail(r)
  /\ UNCHANGED <<status, position, fetch, joined, inbox, raced>>

(* The caller loses the connection; the handler runs on.                   *)
CutOff(r) ==
  /\ req[r].pc \in InFlight
  /\ req[r].waiting
  /\ req' = [req EXCEPT ![r].waiting = FALSE, ![r].previous = Empty]
  /\ RollBack(r)
  /\ UNCHANGED <<status, position, fetch, joined, inbox, raced>>

HandleTask(r) ==
  \/ FindTop(r) \/ Insert(r) \/ FindTask(r) \/ Write(r) \/ Publish(r)
  \/ Answer(r)
  \/ Abort(r) \/ CutOff(r)

Call(r, v) ==
  \E t \in Tasks :
    \/ createTask(r, v, t)
    \/ \E s \in Columns : moveTask(r, v, t, s)

CallElsewhere(r) ==
  \E t \in Tasks, kind \in {"create", "move", "delete"}, s \in Columns \cup {"none"} :
    SendElsewhere(r, t, kind, s)

BoardNext ==
  \/ \E v \in Viewers :
       \/ Join(v) \/ Disconnect(v) \/ ReceiveEvent(v)
       \/ ReadTasks(v) \/ ShowTasks(v) \/ FailFetch(v)
  \/ \E r \in Requests :
       HandleTask(r) \/ CallElsewhere(r) \/ \E v \in Viewers : Call(r, v)

BoardSpec == BoardInit /\ [][BoardNext]_boardVars

----------------------------------------------------------------------------
(* Properties.                                                             *)

BoardTypeOK ==
  /\ status \in Shown
  /\ position \in [Tasks -> Int]
  /\ req \in [Requests -> RequestState]
  /\ cache \in [Viewers -> Shown]
  /\ fetch \in [Viewers -> Fetch]
  /\ joined \in SUBSET Viewers
  /\ inbox \in [Viewers -> Seq(Event)]
  /\ behind \in SUBSET Viewers
  /\ raced \in SUBSET Tasks

(* A write of the task is never announced: its process died before the     *)
(* publish.                                                                *)
Lost(t) == \E r \in Requests : req[r].pc = "failed" /\ req[r].wrote /\ req[r].task = t

(* The viewer shows, or will show again, a move of its own that the server *)
(* has not written.                                                        *)
Moving(v, t) ==
  \E r \in Requests :
    /\ req[r].kind = "move" /\ req[r].viewer = v /\ req[r].task = t
    /\ req[r].waiting /\ req[r].pc \in {"sent", "placing", "checked"}

NoneAbout(events, t) == \A i \in 1 .. Len(events) : events[i].task # t

(* The board has its tasks, and every write of the task has been announced *)
(* and has reached it.                                                     *)
Quiet(v, t) ==
  /\ fetch[v].at = "done" /\ NoneAbout(inbox[v], t)
  /\ ~Unannounced(t) /\ ~Lost(t) /\ ~Moving(v, t)

(* When all that was written to a task has reached a board, it shows the   *)
(* task as the database has it, whatever else is going on, unless handlers *)
(* of the task overlapped between write and publish, or the board rolled   *)
(* back a move of its own since its last fetch, or an event passed it by:  *)
(* while it was not subscribed, or between the reading of its tasks and    *)
(* the sight of them.  Joining, fetching, moving cards before the answer   *)
(* and applying events in whatever order cost a board nothing else, and a  *)
(* fetch makes up for what was lost before.                                *)
BoardsConverge ==
  \A v \in Viewers \ behind : \A t \in Tasks \ raced :
    Quiet(v, t) => cache[v][t] = status[t]

=============================================================================
