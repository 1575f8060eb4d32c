---------------------------- MODULE HttpServerProofs ----------------------------
(***************************************************************************)
(* What holds of HttpServer for any number of instances and requests and   *)
(* any limit.                                                              *)
(***************************************************************************)
EXTENDS HttpServer, SequenceTheorems, TLAPS

USE RequestAssumption, LimitAssumption

LEMMA RouteSteps ==
  ASSUME NEW route \in Routes
  PROVE  /\ Len(Awaits[route]) \in 1 .. 6
         /\ \A step \in 1 .. Len(Awaits[route]) :
              /\ Awaits[route][step] = "open" => route = "upload" /\ step = 4
              /\ Awaits[route][step] = "write" => route = "upload" /\ step = 5
              /\ Awaits[route][step] = "file" => route = "upload" /\ step = 6
              /\ route = "upload" /\ step = 4 => Awaits[route][step] = "open"
              /\ route = "upload" /\ step = 5 => Awaits[route][step] = "write"
              /\ route = "upload" /\ step = 6 => Awaits[route][step] = "file"
         /\ route = "upload" => Len(Awaits[route]) = 6
<1>1. route \in {"create", "list", "update", "upload", "files"}
  BY DEF Routes, Awaits
<1>2. CASE route = "create"
  BY <1>2 DEF Awaits
<1>3. CASE route = "list"
  BY <1>3 DEF Awaits
<1>4. CASE route = "update"
  BY <1>4 DEF Awaits
<1>5. CASE route = "upload"
  BY <1>5 DEF Awaits
<1>6. CASE route = "files"
  BY <1>6 DEF Awaits
<1> QED
  BY <1>1, <1>2, <1>3, <1>4, <1>5, <1>6

(* A function over the positions of a sequence is a sequence as long.      *)
LEMMA SequenceOver ==
  ASSUME NEW S, NEW T, NEW s \in Seq(S), NEW f \in [DOMAIN s -> T]
  PROVE  f \in Seq(T) /\ Len(f) = Len(s) /\ DOMAIN f = DOMAIN s
BY LenProperties, SeqDef

(* No request is past the last await of its route.                         *)
TableInv ==
  /\ request \in Seq(RequestState)
  /\ Len(request) <= MaxRequests
  /\ \A r \in DOMAIN request : request[r].step <= Len(Awaits[request[r].route])

(* Replacing one request in the table.                                     *)
LEMMA OneChanges ==
  ASSUME TableInv, NEW r \in DOMAIN request, NEW v \in RequestState,
         v.step <= Len(Awaits[v.route]),
         request' = [request EXCEPT ![r] = v]
  PROVE  /\ TableInv'
         /\ DOMAIN request' = DOMAIN request
         /\ request'[r] = v
         /\ \A q \in DOMAIN request \ {r} : request'[q] = request[q]
<1>1. request' \in [DOMAIN request -> RequestState]
  BY LenProperties, ElementOfSeq DEF TableInv
<1>2. request' \in Seq(RequestState) /\ Len(request') = Len(request) /\ DOMAIN request' = DOMAIN request
  BY <1>1, SequenceOver DEF TableInv
<1>3. request'[r] = v /\ \A q \in DOMAIN request \ {r} : request'[q] = request[q]
  OBVIOUS
<1> QED
  BY <1>2, <1>3 DEF TableInv

(* What a request awaited is done.                                         *)
LEMMA Moves ==
  ASSUME TableInv, NEW r, Running(r), request' = Continued(r)
  PROVE  /\ TableInv'
         /\ DOMAIN request' = DOMAIN request
         /\ request'[r].route = request[r].route
         /\ request'[r] \in RequestState
         /\ IF request[r].step < Len(Awaits[request[r].route])
              THEN request'[r].step = request[r].step + 1 /\ request'[r].end = "none"
              ELSE request'[r].step = request[r].step /\ request'[r].end = "ok"
         /\ \A q \in DOMAIN request \ {r} : request'[q] = request[q]
<1>1. /\ r \in DOMAIN request /\ request[r] \in RequestState /\ request[r].end = "none"
      /\ request[r].step <= Len(Awaits[request[r].route])
      /\ Len(Awaits[request[r].route]) \in 1 .. 6
  <2>1. r \in DOMAIN request /\ request[r].end = "none"
    BY DEF Running
  <2>2. request[r] \in RequestState /\ request[r].step <= Len(Awaits[request[r].route])
    BY <2>1, ElementOfSeq, LenProperties DEF TableInv
  <2>3. request[r].route \in Routes
    BY <2>2 DEF RequestState
  <2> QED
    BY <2>1, <2>2, <2>3, RouteSteps
<1>2. CASE request[r].step < Len(Awaits[request[r].route])
  <2> DEFINE v == [request[r] EXCEPT !.step = request[r].step + 1]
  <2>1. request[r].step \in Int /\ request[r].step + 1 \in 1 .. 6
    <3>1. request[r].step \in 1 .. 6
      BY <1>1 DEF RequestState
    <3>2. \A m, n \in 1 .. 6 : m < n => m \in Int /\ m + 1 \in 1 .. 6
      OBVIOUS
    <3> QED
      BY <1>1, <1>2, <3>1, <3>2
  <2>2. /\ v \in RequestState /\ v.route = request[r].route
        /\ v.step = request[r].step + 1 /\ v.end = "none"
    BY <1>1, <2>1 DEF RequestState
  <2>3. v.step <= Len(Awaits[v.route])
    BY <1>1, <1>2, <2>1, <2>2
  <2>4. request' = [request EXCEPT ![r] = v]
    BY <1>2 DEF Continued
  <2> HIDE DEF v
  <2> QED
    BY <1>1, <1>2, <2>2, <2>3, <2>4, OneChanges
<1>3. CASE ~(request[r].step < Len(Awaits[request[r].route]))
  <2> DEFINE v == [request[r] EXCEPT !.end = "ok"]
  <2>1. /\ v \in RequestState /\ v.route = request[r].route
        /\ v.step = request[r].step /\ v.end = "ok"
    BY <1>1 DEF RequestState
  <2>2. request' = [request EXCEPT ![r] = v]
    BY <1>3, Zenon DEF Continued
  <2> HIDE DEF v
  <2> QED
    BY <1>1, <1>3, <2>1, <2>2, OneChanges
<1> QED
  BY <1>2, <1>3

(* A request ends without its process.                                     *)
LEMMA Ends ==
  ASSUME TableInv, NEW r, Running(r), NEW end \in {"failed", "limited"}, End(r, end)
  PROVE  /\ TableInv'
         /\ DOMAIN request' = DOMAIN request
         /\ request'[r].route = request[r].route
         /\ request'[r].step = request[r].step
         /\ request'[r].end = end
         /\ \A q \in DOMAIN request \ {r} : request'[q] = request[q]
<1> DEFINE v == [request[r] EXCEPT !.end = end]
<1>1. r \in DOMAIN request /\ request[r] \in RequestState
  BY ElementOfSeq, LenProperties DEF Running, TableInv
<1>2. /\ v \in RequestState /\ v.route = request[r].route /\ v.step = request[r].step
      /\ v.end = end
  BY <1>1 DEF RequestState
<1>3. v.step <= Len(Awaits[v.route])
  BY <1>1, <1>2 DEF TableInv
<1>4. request' = [request EXCEPT ![r] = v]
  BY DEF End
<1> HIDE DEF v
<1> QED
  BY <1>1, <1>2, <1>3, <1>4, OneChanges

(* A process ends.                                                         *)
LEMMA Dies ==
  ASSUME TableInv, NEW i \in Instances, Die(i)
  PROVE  /\ TableInv'
         /\ DOMAIN request' = DOMAIN request
         /\ \A q \in DOMAIN request :
              /\ request'[q].route = request[q].route
              /\ request'[q].step = request[q].step
              /\ \/ request'[q].end = request[q].end
                 \/ request[q].end = "none" /\ request'[q].end = "cut"
<1>1. \A q \in DOMAIN request : request[q] \in RequestState
  BY ElementOfSeq, LenProperties DEF TableInv
<1>2. ASSUME NEW q \in DOMAIN request
      PROVE  /\ request'[q] \in RequestState
             /\ request'[q].route = request[q].route
             /\ request'[q].step = request[q].step
             /\ \/ request'[q] = request[q]
                \/ request[q].end = "none" /\ request'[q].end = "cut"
  <2>1. CASE Running(q) /\ request[q].at = i
    <3>1. request'[q] = [request[q] EXCEPT !.end = "cut"]
      BY <2>1 DEF Die
    <3> QED
      BY <1>1, <2>1, <3>1 DEF RequestState, Running
  <2>2. CASE ~(Running(q) /\ request[q].at = i)
    <3>1. request'[q] = request[q]
      BY <2>2 DEF Die
    <3> QED
      BY <1>1, <3>1
  <2> QED
    BY <2>1, <2>2
<1>3. request' \in [DOMAIN request -> RequestState]
  BY <1>2 DEF Die
<1>4. request' \in Seq(RequestState) /\ Len(request') = Len(request) /\ DOMAIN request' = DOMAIN request
  BY <1>3, SequenceOver DEF TableInv
<1>5. \A q \in DOMAIN request' : request'[q].step <= Len(Awaits[request'[q].route])
  BY <1>2, <1>4 DEF TableInv
<1> QED
  BY <1>2, <1>4, <1>5 DEF TableInv

(* A request arrives.                                                      *)
LEMMA Arrives ==
  ASSUME TableInv, NEW i \in Instances, NEW route \in Routes, Arrive(i, route)
  PROVE  /\ TableInv'
         /\ DOMAIN request' = DOMAIN request \cup {Len(request) + 1}
         /\ Len(request) + 1 \notin DOMAIN request
         /\ request'[Len(request) + 1].end = "none"
         /\ request'[Len(request) + 1].step = 1
         /\ \A q \in DOMAIN request : request'[q] = request[q]
<1> DEFINE v == [route |-> route, at |-> i, step |-> 1, end |-> "none"]
<1>1. v \in RequestState
  BY DEF RequestState
<1>2. request \in Seq(RequestState) /\ request' = Append(request, v) /\ Len(request) < MaxRequests
  BY DEF Arrive, TableInv
<1>3. /\ request' \in Seq(RequestState) /\ Len(request') = Len(request) + 1
      /\ Len(request) \in Nat
      /\ request'[Len(request) + 1] = v
      /\ \A q \in 1 .. Len(request) : request'[q] = request[q]
  BY <1>1, <1>2, AppendProperties, LenProperties
<1>4. DOMAIN request = 1 .. Len(request) /\ DOMAIN request' = 1 .. Len(request')
  BY <1>2, <1>3, LenProperties
<1>5. v.step <= Len(Awaits[v.route]) /\ v.end = "none" /\ v.step = 1
  <2>1. v.route = route /\ v.end = "none" /\ v.step = 1
    OBVIOUS
  <2>2. 1 <= Len(Awaits[route])
    BY RouteSteps
  <2> QED
    BY <2>1, <2>2
<1> HIDE DEF v
<1>6. DOMAIN request' = DOMAIN request \cup {Len(request) + 1}
  BY <1>3, <1>4
<1>7. Len(request) + 1 \notin DOMAIN request
  BY <1>3, <1>4
<1>8. \A q \in DOMAIN request : request'[q] = request[q]
  BY <1>3, <1>4
<1>9. TableInv'
  <2>1. Len(request') <= MaxRequests
    BY <1>2, <1>3
  <2>2. ASSUME NEW q \in DOMAIN request'
        PROVE  request'[q].step <= Len(Awaits[request'[q].route])
    <3>1. CASE q \in DOMAIN request
      BY <1>8, <3>1 DEF TableInv
    <3>2. CASE q = Len(request) + 1
      BY <1>3, <1>5, <3>2
    <3> QED
      BY <1>6, <3>1, <3>2
  <2> QED
    BY <1>3, <2>1, <2>2 DEF TableInv
<1> QED
  BY <1>3, <1>5, <1>6, <1>7, <1>8, <1>9

----------------------------------------------------------------------------
(* The table of requests.                                                  *)
LEMMA InitTable == Init => TableInv
BY EmptySeq, LenProperties DEF Init, TableInv

LEMMA NextTable == TableInv /\ [Next]_vars => TableInv'
<1> SUFFICES ASSUME TableInv, [Next]_vars PROVE TableInv'
  OBVIOUS
<1>1. ASSUME NEW i \in Instances, NEW route \in Routes, Arrive(i, route) PROVE TableInv'
  BY <1>1, Arrives
<1>2. ASSUME NEW r \in Requests, CountHit(r) PROVE TableInv'
  BY <1>2, Moves, Ends DEF CountHit
<1>3. ASSUME NEW r \in Requests, Pass(r) \/ SaveProject(r) \/ OpenBlob(r) \/ WriteBlob(r) \/ InsertFile(r)
      PROVE  TableInv'
  BY <1>3, Moves DEF Pass, SaveProject, OpenBlob, WriteBlob, InsertFile, Done
<1>4. ASSUME NEW r \in Requests, Refuse(r) \/ Fail(r) PROVE TableInv'
  BY <1>4, Ends DEF Refuse, Fail
<1>5. ASSUME NEW r \in Requests, FailLoose(r) PROVE TableInv'
  <2>1. request[r].at \in Instances
    <3>1. request[r] \in RequestState
      BY <1>5, ElementOfSeq, LenProperties DEF FailLoose, Running, TableInv
    <3> QED
      BY <3>1 DEF RequestState
  <2> QED
    BY <1>5, <2>1, Dies DEF FailLoose
<1>6. ASSUME NEW i \in Instances, Exit(i) \/ FailElsewhere(i) PROVE TableInv'
  BY <1>6, Dies DEF Exit, FailElsewhere
<1>7. CASE UNCHANGED request
  BY <1>7 DEF TableInv
<1> QED
  BY <1>1, <1>2, <1>3, <1>4, <1>5, <1>6, <1>7
     DEF Next, Serve, NextWindow, Stop, Start, vars

----------------------------------------------------------------------------
(* The counter is never behind what it let through.                        *)
LimitInv ==
  hits \in Nat /\ passed \in Nat /\ passed <= hits /\ passed <= Limit

LEMMA NextLimit == LimitInv /\ [Next]_vars => LimitInv'
<1> SUFFICES ASSUME LimitInv, [Next]_vars PROVE LimitInv'
  OBVIOUS
<1>1. ASSUME NEW r \in Requests, CountHit(r) PROVE LimitInv'
  BY <1>1 DEF CountHit, LimitInv
<1>2. CASE NextWindow
  BY <1>2 DEF NextWindow, LimitInv
<1>3. ASSUME NEW i \in Instances, Start(i) PROVE LimitInv'
  BY <1>3 DEF Start, AfterStart, LimitInv
<1>4. CASE UNCHANGED limitVars
  BY <1>4 DEF limitVars, LimitInv
<1>5. ASSUME NEW r \in Requests,
             \/ Pass(r) \/ SaveProject(r) \/ OpenBlob(r) \/ WriteBlob(r)
             \/ InsertFile(r) \/ Refuse(r) \/ Fail(r) \/ FailLoose(r)
      PROVE  UNCHANGED limitVars
  BY <1>5 DEF Pass, SaveProject, OpenBlob, WriteBlob, InsertFile, Refuse, Fail,
              FailLoose, Die
<1>6. ASSUME NEW i \in Instances,
             \/ Stop(i) \/ Exit(i) \/ FailElsewhere(i)
             \/ \E route \in Routes : Arrive(i, route)
      PROVE  UNCHANGED limitVars
  BY <1>6 DEF Stop, Exit, FailElsewhere, Die, Arrive
<1> QED
  BY <1>1, <1>2, <1>3, <1>4, <1>5, <1>6 DEF Next, Serve, vars, limitVars

(* The limit holds over all instances and all their restarts.              *)
THEOREM LimitKept == Spec => []LimitHolds
<1>1. Init => LimitInv
  BY DEF Init, LimitInv
<1>2. LimitInv => LimitHolds
  BY DEF LimitInv, LimitHolds
<1> QED
  BY <1>1, <1>2, NextLimit, PTL DEF Spec

----------------------------------------------------------------------------
(* What an upload has on disk follows the await it is at.                  *)
BlobOK(r) ==
  /\ r \notin DOMAIN request => blobs[r] = "none" /\ r \notin files
  /\ r \in files => blobs[r] = "whole"
  /\ r \in DOMAIN request =>
       /\ blobs[r] # "none" => request[r].route = "upload" /\ request[r].step \in {5, 6}
       /\ request[r].route = "upload" /\ request[r].step = 6 => blobs[r] = "whole"
       /\ blobs[r] # "none" /\ r \notin files
          => request[r].end \in {"none", "failed", "cut"}

StoreInv ==
  /\ blobs \in [Requests -> {"none", "part", "whole"}]
  /\ files \in SUBSET Requests
  /\ \A r \in Requests : BlobOK(r)

Inv == TableInv /\ StoreInv

(* The requests of the table are among those that are counted.             *)
LEMMA Counted ==
  ASSUME TableInv
  PROVE  DOMAIN request \subseteq Requests
BY LenProperties DEF TableInv, Requests

(* Where a request that runs stands.                                       *)
LEMMA Standing ==
  ASSUME TableInv, NEW r, Running(r)
  PROVE  /\ r \in DOMAIN request /\ request[r] \in RequestState /\ request[r].end = "none"
         /\ request[r].route \in Routes
         /\ request[r].step \in 1 .. Len(Awaits[request[r].route])
<1>1. r \in DOMAIN request /\ request[r].end = "none"
  BY DEF Running
<1>2. request[r] \in RequestState /\ request[r].step <= Len(Awaits[request[r].route])
  BY <1>1, ElementOfSeq, LenProperties DEF TableInv
<1>3. request[r].route \in Routes /\ request[r].step \in 1 .. 6
  BY <1>2 DEF RequestState
<1>4. Len(Awaits[request[r].route]) \in 1 .. 6
  BY <1>3, RouteSteps
<1> QED
  BY <1>1, <1>2, <1>3, <1>4

(* A request whose entry, file and row stay as they are.                   *)
LEMMA Others ==
  ASSUME NEW r, BlobOK(r), blobs'[r] = blobs[r], r \in files' <=> r \in files,
         r \in DOMAIN request' <=> r \in DOMAIN request,
         r \in DOMAIN request => request'[r] = request[r]
  PROVE  BlobOK(r)'
BY DEF BlobOK

(* An await other than those of the file itself.                           *)
LEMMA QuietMove ==
  ASSUME Inv, NEW r \in Requests, Running(r), request' = Continued(r),
         Await(r) \notin {"open", "write", "file"}, UNCHANGED <<blobs, files>>
  PROVE  StoreInv'
<1>1. /\ DOMAIN request' = DOMAIN request
      /\ request'[r].route = request[r].route
      /\ IF request[r].step < Len(Awaits[request[r].route])
           THEN request'[r].step = request[r].step + 1 /\ request'[r].end = "none"
           ELSE request'[r].step = request[r].step /\ request'[r].end = "ok"
      /\ \A q \in DOMAIN request \ {r} : request'[q] = request[q]
  BY Moves DEF Inv
<1>2. /\ r \in DOMAIN request /\ request[r].end = "none"
      /\ request[r].route \in Routes
      /\ request[r].step \in 1 .. Len(Awaits[request[r].route])
  BY Standing DEF Inv
<1>3. request[r].route = "upload" => request[r].step \notin {4, 5, 6}
  BY <1>2, RouteSteps DEF Await
<1>4. Len(Awaits[request[r].route]) \in 1 .. 6
  BY <1>2, RouteSteps
<1>5. blobs[r] = "none"
  BY <1>2, <1>3 DEF Inv, StoreInv, BlobOK
<1>6. r \notin files
  BY <1>5 DEF Inv, StoreInv, BlobOK
<1>7. request'[r].route = "upload" => request'[r].step # 6
  BY <1>1, <1>2, <1>3, <1>4
<1>8. BlobOK(r)'
  BY <1>1, <1>2, <1>5, <1>6, <1>7 DEF BlobOK
<1>9. \A q \in Requests \ {r} : BlobOK(q)'
  BY <1>1, Others DEF Inv, StoreInv
<1> QED
  BY <1>8, <1>9 DEF Inv, StoreInv

(* A request ends early: one that was limited has no file yet.             *)
LEMMA EarlyEnd ==
  ASSUME Inv, NEW r \in Requests, Running(r), NEW end \in {"failed", "limited"},
         End(r, end), end = "limited" => Await(r) = "limit", UNCHANGED <<blobs, files>>
  PROVE  StoreInv'
<1>1. /\ DOMAIN request' = DOMAIN request
      /\ request'[r].route = request[r].route
      /\ request'[r].step = request[r].step
      /\ request'[r].end = end
      /\ \A q \in DOMAIN request \ {r} : request'[q] = request[q]
  BY Ends DEF Inv
<1>2. /\ r \in DOMAIN request
      /\ request[r].route \in Routes
      /\ request[r].step \in 1 .. Len(Awaits[request[r].route])
  BY Standing DEF Inv
<1>3. end = "limited" => blobs[r] = "none"
  BY <1>2, RouteSteps DEF Await, Inv, StoreInv, BlobOK
<1>4. BlobOK(r)'
  BY <1>1, <1>2, <1>3 DEF Inv, StoreInv, BlobOK
<1>5. \A q \in Requests \ {r} : BlobOK(q)'
  BY <1>1, Others DEF Inv, StoreInv
<1> QED
  BY <1>4, <1>5 DEF Inv, StoreInv

LEMMA UploadSteps ==
  ASSUME Inv, NEW r \in Requests, OpenBlob(r) \/ WriteBlob(r) \/ InsertFile(r)
  PROVE  StoreInv'
<1>1. Running(r) /\ request' = Continued(r)
  BY DEF OpenBlob, WriteBlob, InsertFile, Done
<1>2. /\ DOMAIN request' = DOMAIN request
      /\ request'[r].route = request[r].route
      /\ IF request[r].step < Len(Awaits[request[r].route])
           THEN request'[r].step = request[r].step + 1 /\ request'[r].end = "none"
           ELSE request'[r].step = request[r].step /\ request'[r].end = "ok"
      /\ \A q \in DOMAIN request \ {r} : request'[q] = request[q]
  BY <1>1, Moves DEF Inv
<1>3. /\ r \in DOMAIN request
      /\ request[r].route \in Routes
      /\ request[r].step \in 1 .. Len(Awaits[request[r].route])
  BY <1>1, Standing DEF Inv
<1>4. CASE OpenBlob(r)
  <2>1. request[r].route = "upload" /\ request[r].step = 4 /\ Len(Awaits[request[r].route]) = 6
    BY <1>3, <1>4, RouteSteps DEF OpenBlob, Done, Await
  <2>2. blobs' = [blobs EXCEPT ![r] = "part"] /\ files' = files
    BY <1>4 DEF OpenBlob
  <2>3. r \notin files
    BY <1>3, <2>1 DEF Inv, StoreInv, BlobOK
  <2>4. BlobOK(r)'
    BY <1>2, <1>3, <2>1, <2>2, <2>3 DEF Inv, StoreInv, BlobOK
  <2>5. \A q \in Requests \ {r} : BlobOK(q)'
    BY <1>2, <2>2, Others DEF Inv, StoreInv
  <2> QED
    BY <2>2, <2>4, <2>5 DEF Inv, StoreInv
<1>5. CASE WriteBlob(r)
  <2>1. request[r].route = "upload" /\ request[r].step = 5 /\ Len(Awaits[request[r].route]) = 6
    BY <1>3, <1>5, RouteSteps DEF WriteBlob, Done, Await
  <2>2. blobs' = [blobs EXCEPT ![r] = "whole"] /\ files' = files
    BY <1>5 DEF WriteBlob, Filled
  <2>3. BlobOK(r)'
    BY <1>2, <1>3, <2>1, <2>2 DEF Inv, StoreInv, BlobOK
  <2>4. \A q \in Requests \ {r} : BlobOK(q)'
    BY <1>2, <2>2, Others DEF Inv, StoreInv
  <2> QED
    BY <2>2, <2>3, <2>4 DEF Inv, StoreInv
<1>6. CASE InsertFile(r)
  <2>1. request[r].route = "upload" /\ request[r].step = 6 /\ Len(Awaits[request[r].route]) = 6
    BY <1>3, <1>6, RouteSteps DEF InsertFile, Done, Await
  <2>2. blobs' = blobs /\ files' = files \cup {r}
    BY <1>6 DEF InsertFile
  <2>3. BlobOK(r)'
    BY <1>2, <1>3, <2>1, <2>2 DEF Inv, StoreInv, BlobOK
  <2>4. \A q \in Requests \ {r} : BlobOK(q)'
    BY <1>2, <2>2, Others DEF Inv, StoreInv
  <2> QED
    BY <2>2, <2>3, <2>4 DEF Inv, StoreInv
<1> QED
  BY <1>4, <1>5, <1>6

LEMMA NextInv == Inv /\ [Next]_vars => Inv'
<1> SUFFICES ASSUME Inv, [Next]_vars PROVE StoreInv'
  BY NextTable DEF Inv
<1>1. ASSUME NEW i \in Instances, NEW route \in Routes, Arrive(i, route) PROVE StoreInv'
  <2>1. /\ DOMAIN request' = DOMAIN request \cup {Len(request) + 1}
        /\ Len(request) + 1 \notin DOMAIN request
        /\ request'[Len(request) + 1].step = 1
        /\ \A q \in DOMAIN request : request'[q] = request[q]
    BY <1>1, Arrives DEF Inv
  <2>2. blobs' = blobs /\ files' = files
    BY <1>1 DEF Arrive, storeVars
  <2>3. ASSUME NEW q \in Requests PROVE BlobOK(q)'
    <3>1. CASE q = Len(request) + 1
      BY <2>1, <2>2, <3>1 DEF Inv, StoreInv, BlobOK
    <3>2. CASE q # Len(request) + 1
      BY <2>1, <2>2, <3>2, Others DEF Inv, StoreInv
    <3> QED
      BY <3>1, <3>2
  <2> QED
    BY <2>2, <2>3 DEF Inv, StoreInv
<1>2. ASSUME NEW r \in Requests, CountHit(r) PROVE StoreInv'
  <2>1. Running(r) /\ Await(r) = "limit" /\ UNCHANGED <<blobs, files>>
    BY <1>2 DEF CountHit, storeVars
  <2>2. CASE request' = Continued(r)
    BY <2>1, <2>2, QuietMove
  <2>3. CASE End(r, "limited")
    BY <2>1, <2>3, EarlyEnd
  <2> QED
    BY <1>2, <2>2, <2>3 DEF CountHit
<1>3. ASSUME NEW r \in Requests, Pass(r) PROVE StoreInv'
  BY <1>3, QuietMove DEF Pass, Done, storeVars
<1>4. ASSUME NEW r \in Requests, SaveProject(r) PROVE StoreInv'
  BY <1>4, QuietMove DEF SaveProject, Done
<1>5. ASSUME NEW r \in Requests, Refuse(r) \/ Fail(r) PROVE StoreInv'
  BY <1>5, EarlyEnd DEF Refuse, Fail, storeVars
<1>6. ASSUME NEW i \in Instances, Die(i) PROVE StoreInv'
  <2>1. /\ DOMAIN request' = DOMAIN request
        /\ \A q \in DOMAIN request :
             /\ request'[q].route = request[q].route
             /\ request'[q].step = request[q].step
             /\ \/ request'[q].end = request[q].end
                \/ request[q].end = "none" /\ request'[q].end = "cut"
    BY <1>6, Dies DEF Inv
  <2>2. blobs' = blobs /\ files' = files
    BY <1>6 DEF Die, storeVars
  <2>3. ASSUME NEW q \in Requests PROVE BlobOK(q)'
    BY <2>1, <2>2 DEF Inv, StoreInv, BlobOK
  <2> QED
    BY <2>2, <2>3 DEF Inv, StoreInv
<1>7. ASSUME NEW r \in Requests, FailLoose(r) PROVE StoreInv'
  <2>1. request[r] \in RequestState
    BY <1>7, Standing DEF FailLoose, Inv
  <2>2. request[r].at \in Instances
    BY <2>1 DEF RequestState
  <2> QED
    BY <1>6, <1>7, <2>2 DEF FailLoose
<1>8. ASSUME NEW i \in Instances, Exit(i) \/ FailElsewhere(i) PROVE StoreInv'
  BY <1>6, <1>8 DEF Exit, FailElsewhere
<1>9. CASE UNCHANGED <<request, blobs, files>>
  BY <1>9 DEF Inv, StoreInv, BlobOK
<1> QED
  BY <1>1, <1>2, <1>3, <1>4, <1>5, <1>7, <1>8, <1>9, UploadSteps
     DEF Next, Serve, NextWindow, Stop, Start, vars, storeVars

LEMMA InitInv == Init => Inv
BY InitTable, EmptySeq DEF Init, Inv, StoreInv, BlobOK

(* Rows name whole files, and a file without a row is nobody's success.    *)
THEOREM RowsHaveTheirFiles == Spec => []RowsHaveFiles
<1>1. Inv => RowsHaveFiles
  BY Counted DEF Inv, StoreInv, BlobOK, RowsHaveFiles
<1> QED
  BY InitInv, NextInv, <1>1, PTL DEF Spec

----------------------------------------------------------------------------
(* The variables keep their types.                                         *)
THEOREM TypeCorrect == Spec => []TypeOK
<1> DEFINE Rest == server \in [Instances -> {"up", "closing", "down"}] /\ projects \in SUBSET Requests
<1>1. Init => Rest
  BY DEF Init
<1>2. Rest /\ [Next]_vars => Rest'
  BY DEF Next, vars, Arrive, Serve, CountHit, NextWindow, Pass, SaveProject, OpenBlob,
         WriteBlob, InsertFile, Refuse, Fail, FailLoose, FailElsewhere, Die, Stop, Exit, Start,
         storeVars
<1>3. Init => LimitInv
  BY DEF Init, LimitInv
<1>4. Inv /\ LimitInv /\ Rest => TypeOK
  BY DEF Inv, TableInv, StoreInv, LimitInv, TypeOK
<1> HIDE DEF Rest
<1> QED
  BY InitInv, NextInv, NextLimit, <1>1, <1>2, <1>3, <1>4, PTL DEF Spec

=============================================================================
