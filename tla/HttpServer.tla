------------------------------- MODULE HttpServer -------------------------------
(***************************************************************************)
(* Instances of the API process (app.ts, server.ts) and the requests they  *)
(* answer: the shared rate limit, the project and file routes await by     *)
(* await, what becomes of a rejected promise inside and outside            *)
(* asyncHandler, and the shutdown on a signal.  The other routers have     *)
(* modules of their own; like upload and files, their handlers are inside  *)
(* asyncHandler from their first await on, but for organizationsRouter,    *)
(* which uses requireRole as list does: a failure there ends the process   *)
(* as FailLoose does.                                                      *)
(*                                                                         *)
(* One client: the limit is counted per address.  Requests are numbered in *)
(* the order in which they arrive.                                         *)
(***************************************************************************)
EXTENDS Integers, Sequences

CONSTANTS
  Instances,
  MaxRequests,
  Limit        \* requests of one client in a window

ASSUME RequestAssumption == MaxRequests \in Nat
ASSUME LimitAssumption == Limit \in Nat

VARIABLES
  server,   \* per instance
  request,  \* per request: its route, its instance, the await it is at, its end
  hits,     \* the counter of the window, in Redis
  passed,   \* history: requests of the window that the limit let through
  blobs,    \* per request, the file it writes under uploads
  files,    \* requests whose file has a row
  projects  \* requests that created or changed a project

vars == <<server, request, hits, passed, blobs, files, projects>>
limitVars == <<hits, passed>>
storeVars == <<blobs, files, projects>>

Requests == 1 .. MaxRequests

(* The awaits of each route, in their order.                               *)
Awaits ==
  [create |-> <<"limit", "role", "insert", "publish">>,
   list   |-> <<"limit", "role", "read">>,
   update |-> <<"limit", "find", "role", "change", "publish">>,
   upload |-> <<"limit", "find", "role", "open", "write", "file">>,
   files  |-> <<"limit", "find", "role", "read">>]

Routes == DOMAIN Awaits

RequestState ==
  [route : Routes, at : Instances, step : 1 .. 6,
   end : {"none", "ok", "failed", "limited", "cut"}]

Init ==
  /\ server = [i \in Instances |-> "up"]
  /\ request = <<>>
  /\ hits = 0 /\ passed = 0
  /\ blobs = [r \in Requests |-> "none"]
  /\ files = {} /\ projects = {}

----------------------------------------------------------------------------
(* Requests.                                                               *)

Arrive(i, route) ==
  /\ Len(request) < MaxRequests
  /\ server[i] = "up"
  /\ request' = Append(request,
       [route |-> route, at |-> i, step |-> 1, end |-> "none"])
  /\ UNCHANGED <<server, limitVars, storeVars>>

Running(r) == r \in DOMAIN request /\ request[r].end = "none"

Await(r) == Awaits[request[r].route][request[r].step]

End(r, end) == request' = [request EXCEPT ![r].end = end]

\* Mutant of Continued: requireRole forgets to call next().
ContinuedUnlessRole(r) ==
  [request EXCEPT ![r] =
    CASE Await(r) = "role" -> @
      [] @.step < Len(Awaits[@.route]) -> [@ EXCEPT !.step = @ + 1]
      [] OTHER -> [@ EXCEPT !.end = "ok"]]

(* What a request awaits is done: the handler goes on to its next await,   *)
(* or it answers.                                                          *)
Continued(r) ==
  IF request[r].step < Len(Awaits[request[r].route])
    THEN [request EXCEPT ![r].step = @ + 1] ELSE [request EXCEPT ![r].end = "ok"]

Done(r, step) == Running(r) /\ Await(r) = step /\ request' = Continued(r)

(* The script of the limiter's store increments and tells in one go.       *)
CountHit(r) ==
  /\ Running(r) /\ Await(r) = "limit"
  /\ hits' = hits + 1
  /\ IF hits < Limit
       THEN request' = Continued(r) /\ passed' = passed + 1
       ELSE End(r, "limited") /\ UNCHANGED passed
  /\ UNCHANGED <<server, storeVars>>

(* The minute of the counter is over.                                      *)
NextWindow ==
  /\ hits > 0
  /\ hits' = 0 /\ passed' = 0
  /\ UNCHANGED <<server, request, storeVars>>

(* Reads, and events, leave nothing behind here.                           *)
Pass(r) ==
  /\ \E step \in {"find", "role", "read", "publish"} : Done(r, step)
  /\ UNCHANGED <<server, limitVars, storeVars>>

SaveProject(r) ==
  /\ Done(r, "insert") \/ Done(r, "change")
  /\ projects' = projects \cup {r}
  /\ UNCHANGED <<server, limitVars, blobs, files>>

(* storage.put: writeFile creates the file and then fills it.              *)
OpenBlob(r) ==
  /\ Done(r, "open")
  /\ blobs' = [blobs EXCEPT ![r] = "part"]
  /\ UNCHANGED <<server, limitVars, files, projects>>

\* Mutant of Filled: the promise of writeFile is not awaited.
FilledLater(r) == blobs

Filled(r) == [blobs EXCEPT ![r] = "whole"]

WriteBlob(r) ==
  /\ Done(r, "write")
  /\ blobs' = Filled(r)
  /\ UNCHANGED <<server, limitVars, files, projects>>

InsertFile(r) ==
  /\ Done(r, "file")
  /\ files' = files \cup {r}
  /\ UNCHANGED <<server, limitVars, blobs, projects>>

(* requireAuth answers 401, requireRole 403, or assertRole throws an       *)
(* ApiError inside asyncHandler.                                           *)
Refuse(r) ==
  /\ Running(r) /\ Await(r) = "role"
  /\ End(r, "failed")
  /\ UNCHANGED <<server, limitVars, storeVars>>

----------------------------------------------------------------------------
(* Rejections, signals and restarts.                                       *)

(* The promises nobody looks at: that of requireRole as a middleware,      *)
(* which Express 4 drops, and that of PATCH's callback, which requireRole  *)
(* calls without awaiting it, its parse of the body included.              *)
Loose ==
  {<<"create", "role">>, <<"list", "role">>,
   <<"update", "change">>, <<"update", "publish">>}

Caught(r) == <<request[r].route, Await(r)>> \notin Loose

(* The parse of a body, a query, a command or a file operation fails, and  *)
(* errorHandler answers.                                                   *)
Fail(r) ==
  /\ Running(r) /\ Caught(r)
  /\ End(r, "failed")
  /\ UNCHANGED <<server, limitVars, storeVars>>

(* The process ends, and the requests it runs with it.                     *)
Die(i) ==
  /\ server' = [server EXCEPT ![i] = "down"]
  /\ request' = [r \in DOMAIN request |->
       IF Running(r) /\ request[r].at = i
         THEN [request[r] EXCEPT !.end = "cut"] ELSE request[r]]
  /\ UNCHANGED <<limitVars, storeVars>>

(* An unhandled rejection.                                                 *)
FailLoose(r) == Running(r) /\ ~Caught(r) /\ Die(request[r].at)

(* The same outside the routes above: in a role check of                   *)
(* organizationsRouter, or in a handler of the gateway's sockets.          *)
FailElsewhere(i) == server[i] # "down" /\ Die(i)

(* SIGTERM: the server takes no more connections, leaves those it serves   *)
(* alone, and ends the process as soon as the clients of Redis and         *)
(* Postgres are closed, whatever still runs.                               *)
Stop(i) ==
  /\ server[i] = "up"
  /\ server' = [server EXCEPT ![i] = "closing"]
  /\ UNCHANGED <<request, limitVars, storeVars>>

Exit(i) == server[i] = "closing" /\ Die(i)

\* Mutant of AfterStart: a counter in the memory of the process.
AfterStartAnew == 0

AfterStart == hits

(* The container is started again.                                         *)
Start(i) ==
  /\ server[i] = "down"
  /\ server' = [server EXCEPT ![i] = "up"]
  /\ hits' = AfterStart
  /\ UNCHANGED <<request, passed, storeVars>>

Serve(r) ==
  \/ CountHit(r) \/ Pass(r) \/ SaveProject(r)
  \/ OpenBlob(r) \/ WriteBlob(r) \/ InsertFile(r)

Next ==
  \/ NextWindow
  \/ \E i \in Instances :
       \/ Stop(i) \/ Exit(i) \/ FailElsewhere(i) \/ Start(i)
       \/ \E route \in Routes : Arrive(i, route)
  \/ \E r \in Requests : Serve(r) \/ Refuse(r) \/ Fail(r) \/ FailLoose(r)

Spec == Init /\ [][Next]_vars

(* What a handler awaits settles in the end.                               *)
FairSpec == Spec /\ \A r \in Requests : WF_vars(Serve(r))

----------------------------------------------------------------------------
(* Properties.                                                             *)

TypeOK ==
  /\ server \in [Instances -> {"up", "closing", "down"}]
  /\ request \in Seq(RequestState)
  /\ hits \in Nat /\ passed \in Nat
  /\ blobs \in [Requests -> {"none", "part", "whole"}]
  /\ files \in SUBSET Requests /\ projects \in SUBSET Requests

(* In one window, no client gets more requests than the limit past all     *)
(* instances together, restarts of any of them included.                   *)
LimitHolds == passed <= Limit

(* A row names a file that is whole on disk, wherever failures and         *)
(* restarts fall between the write of the file and the insert of its row;  *)
(* what they leave behind is a file without a row, and only where the      *)
(* client was not told of success.                                         *)
RowsHaveFiles ==
  /\ \A r \in files : blobs[r] = "whole"
  /\ \A r \in DOMAIN request :
       blobs[r] # "none" /\ r \notin files => request[r].end \in {"none", "failed", "cut"}

(* Every request ends, if only because its process does: no rejection, in  *)
(* or outside asyncHandler, and no shutdown leaves a client waiting.       *)
EveryRequestEnds == \A r \in Requests : Running(r) ~> ~Running(r)

=============================================================================
