---------------------------- MODULE Notifications ----------------------------
(***************************************************************************)
(* Telling a user that a task was assigned to them: the task routes, which *)
(* write the task, publish and then enqueue a job, and the worker of       *)
(* notificationWorker.ts, which inserts the notification, pushes it and    *)
(* sends the mail.  The queue is BullMQ as the code sets it up: a job that *)
(* fails is tried again until its attempts are used up, and one whose      *)
(* worker stops renewing its lock is handed to another worker, whether the *)
(* first one died or is only slow.                                         *)
(*                                                                         *)
(* One task.  A job is named after the call that enqueued it, and the runs *)
(* of a job are numbered; a notification row is named after job and run.   *)
(***************************************************************************)
EXTENDS Integers

CONSTANTS
  Calls,     \* POST / and PATCH /:taskId with an assigneeId, each made at most once
  Users,
  Attempts,  \* attempts of a job
  MaxStalls  \* times a job may lose its worker and be handed on

Nobody == "nobody"

ASSUME UserAssumption == {Nobody, "none"} \cap Users = {}
ASSUME AttemptAssumption == Attempts \in Nat \ {0} /\ MaxStalls \in Nat

VARIABLES
  assignee,  \* Task.assigneeId, or "none" when there is no row yet
  call,      \* per call, the state of its handler
  job,       \* per call, the job it enqueued
  run,       \* per call and number, how far this run of its job is
  rows       \* per call, the runs of its job that inserted a notification

vars == <<assignee, call, job, run, rows>>
taskVars == <<assignee, call>>

Runs == 1 .. Attempts + MaxStalls

(* existing is task.assigneeId as the handler read it; done is a handler   *)
(* that got past the queue, answered or not; handed is history:            *)
(* the write moved the task to a user other than the caller; apart is      *)
(* history: the row had changed between the handler's read and its write.  *)
CallState ==
  [pc : {"idle", "read", "written", "done", "failed"},
   kind : {"none", "create", "assign"},
   actor : Users \cup {Nobody}, to : Users \cup {Nobody},
   existing : Users \cup {Nobody}, handed : BOOLEAN, apart : BOOLEAN]

Unsent ==
  [pc |-> "idle", kind |-> "none", actor |-> Nobody, to |-> Nobody,
   existing |-> Nobody, handed |-> FALSE, apart |-> FALSE]

(* failures is attemptsMade; holder is the run that has the job's lock.    *)
JobState ==
  [state : {"none", "waiting", "active", "delayed", "completed", "failed"},
   failures : 0 .. Attempts, stalls : 0 .. MaxStalls + 1, holder : {0} \cup Runs]

Progress == {"none", "started", "stored", "over"}

NoJob == [state |-> "none", failures |-> 0, stalls |-> 0, holder |-> 0]

Ended == {"completed", "failed"}

Init ==
  /\ assignee \in Users \cup {Nobody, "none"}
  /\ call = [c \in Calls |-> Unsent]
  /\ job = [c \in Calls |-> NoJob]
  /\ run = [c \in Calls |-> [n \in Runs |-> "none"]]
  /\ rows = [c \in Calls |-> {}]

----------------------------------------------------------------------------
(* The task routes.                                                        *)

Known == IF assignee = "none" THEN Nobody ELSE assignee

(* A call arrives.  PATCH reads the task before anything else; POST has    *)
(* nothing to read that matters here.                                      *)
Receive(c, kind, u, to) ==
  /\ call[c].pc = "idle"
  /\ IF kind = "create"
       THEN assignee = "none" /\ \A d \in Calls : call[d].kind # "create"
       ELSE assignee # "none"
  /\ call' = [call EXCEPT ![c] =
       [Unsent EXCEPT !.pc = "read", !.kind = kind, !.actor = u, !.to = to,
                      !.existing = Known]]
  /\ UNCHANGED <<assignee, job, run, rows>>

WriteTask(c) ==
  /\ call[c].pc = "read"
  /\ assignee' = call[c].to
  /\ call' = [call EXCEPT ![c].pc = "written",
       ![c].handed = call[c].to \notin {Nobody, Known, call[c].actor},
       ![c].apart = call[c].existing # Known]
  /\ UNCHANGED <<job, run, rows>>

(* A handler that has ended keeps nothing but its history.                 *)
Close(c, pc) ==
  call' = [call EXCEPT ![c] =
    [Unsent EXCEPT !.pc = pc, !.handed = call[c].handed, !.apart = call[c].apart]]

\* Mutants of Notifies: reassignments are forgotten, or any write of an
\* assigneeId counts as one.
NotifiesCreations(c) == call[c].kind = "create" /\ call[c].to \notin {Nobody, call[c].actor}
NotifiesAnyWrite(c) == call[c].to \notin {Nobody, call[c].actor}

(* What the code compares with: a creation has no assignee to compare.     *)
Notifies(c) ==
  /\ call[c].to \notin {Nobody, call[c].actor}
  /\ call[c].kind = "assign" => call[c].to # call[c].existing

(* The publish, and then the queue: Redis has the job if there is to be    *)
(* one.  The call is answered, or fails all the same, if the queue's reply *)
(* or the answer is lost; the job stays, so both are done here.            *)
Enqueue(c) ==
  /\ call[c].pc = "written"
  /\ Close(c, "done")
  /\ job' = IF Notifies(c) THEN [job EXCEPT ![c].state = "waiting"] ELSE job
  /\ UNCHANGED <<assignee, run, rows>>

(* A query, the publish or the queue rejects, or the process dies, before  *)
(* Redis has the job: what the handler has not done yet, it never does.    *)
Break(c) ==
  /\ call[c].pc \in {"read", "written"}
  /\ Close(c, "failed")
  /\ UNCHANGED <<assignee, job, run, rows>>

----------------------------------------------------------------------------
(* The worker.                                                             *)

Reach(c, n, from, to) == run[c][n] = from /\ run' = [run EXCEPT ![c][n] = to]

Holds(c, n) == job[c].holder = n

(* A worker takes the job: the first run that was not used yet.            *)
Take(c) ==
  /\ job[c].state = "waiting"
  /\ \E n \in Runs :
       /\ run[c][n] = "none"
       /\ \A m \in 1 .. n - 1 : run[c][m] # "none"
       /\ run' = [run EXCEPT ![c][n] = "started"]
       /\ job' = [job EXCEPT ![c].state = "active", ![c].holder = n]
  /\ UNCHANGED <<taskVars, rows>>

CreateRow(c, n) ==
  /\ Reach(c, n, "started", "stored")
  /\ rows' = [rows EXCEPT ![c] = @ \cup {n}]
  /\ UNCHANGED <<taskVars, job>>

AfterSuccess(c) == "completed"

(* The push and the mail leave nothing behind that is read again; then the *)
(* job is completed, if this run still has its lock.                       *)
Finish(c, n) ==
  /\ Reach(c, n, "stored", "over")
  /\ job' = IF Holds(c, n)
              THEN [job EXCEPT ![c].state = AfterSuccess(c), ![c].holder = 0] ELSE job
  /\ UNCHANGED <<taskVars, rows>>

\* Mutant of AfterFailure: no failure is the last.
AfterFailureEver(c) == "delayed"

AfterFailure(c) == IF job[c].failures + 1 < Attempts THEN "delayed" ELSE "failed"

(* The insert, the publish or the look-up of the user rejects.             *)
Reject(c, n) ==
  /\ run[c][n] \in {"started", "stored"}
  /\ run' = [run EXCEPT ![c][n] = "over"]
  /\ job' = IF Holds(c, n)
              THEN [job EXCEPT ![c].state = AfterFailure(c),
                               ![c].failures = @ + 1, ![c].holder = 0]
              ELSE job
  /\ UNCHANGED <<taskVars, rows>>

(* The backoff is over.                                                    *)
Promote(c) ==
  /\ job[c].state = "delayed"
  /\ job' = [job EXCEPT ![c].state = "waiting"]
  /\ UNCHANGED <<taskVars, run, rows>>

(* The worker process dies with the run.                                   *)
Die(c, n) ==
  /\ run[c][n] \in {"started", "stored"}
  /\ run' = [run EXCEPT ![c][n] = "over"]
  /\ UNCHANGED <<taskVars, job, rows>>

(* The lock of an active job runs out.                                     *)
Stall(c) ==
  /\ job[c].state = "active"
  /\ job' = [job EXCEPT ![c].stalls = @ + 1, ![c].holder = 0,
               ![c].state = IF job[c].stalls < MaxStalls THEN "waiting" ELSE "failed"]
  /\ UNCHANGED <<taskVars, run, rows>>

Work(c, n) == CreateRow(c, n) \/ Finish(c, n)

Handle(c) == WriteTask(c) \/ Enqueue(c) \/ Break(c)

Queue(c) == Take(c) \/ Promote(c) \/ Stall(c)

Next ==
  \E c \in Calls :
    \/ Handle(c) \/ Queue(c)
    \/ \E kind \in {"create", "assign"}, u \in Users, to \in Users \cup {Nobody} :
         Receive(c, kind, u, to)
    \/ \E n \in Runs : Work(c, n) \/ Reject(c, n) \/ Die(c, n)

Spec == Init /\ [][Next]_vars

(* The run that had the job's lock is over without having settled it.      *)
Orphaned(c) ==
  /\ job[c].state = "active"
  /\ run[c][job[c].holder] = "over"

(* Workers are restarted and take jobs, what they await is answered, and   *)
(* the stalled-job check runs.                                             *)
FairSpec ==
  /\ Spec
  /\ \A c \in Calls :
       /\ WF_vars(Take(c)) /\ WF_vars(Promote(c))
       /\ WF_vars(Orphaned(c) /\ Stall(c))
       /\ \A n \in Runs : WF_vars(Work(c, n))

----------------------------------------------------------------------------
(* Properties.                                                             *)

TypeOK ==
  /\ assignee \in Users \cup {Nobody, "none"}
  /\ call \in [Calls -> CallState]
  /\ job \in [Calls -> JobState]
  /\ run \in [Calls -> [Runs -> Progress]]
  /\ rows \in [Calls -> SUBSET Runs]

UsedUp(c) == job[c].failures = Attempts \/ job[c].stalls = MaxStalls + 1

(* Whoever another user hands the task to finds a notification, unless the *)
(* call broke off before its job was queued, its handler had read an       *)
(* assignee that changed before it wrote, or all attempts of the job were  *)
(* used up: a queue that retries loses nothing that reached it, whatever   *)
(* became of the call.                                                     *)
AssigneeTold ==
  \A c \in Calls :
    /\ call[c].pc = "done"
    /\ call[c].handed
    /\ ~call[c].apart
    /\ job[c].state \notin {"waiting", "active", "delayed"}
    => rows[c] # {} \/ UsedUp(c)

(* A user is told of what happened, once: the notifications of a call are  *)
(* of a write that made somebody else the assignee, unless its handler had *)
(* read an assignee that another call changed before it wrote, as two      *)
(* calls that overlap may both hand the task to the same user and tell him *)
(* twice; and of one call there is one more than its job failed or was     *)
(* handed on at most.                                                      *)
DuplicatesHaveCause ==
  \A c \in Calls :
    /\ rows[c] # {} => call[c].handed \/ call[c].apart
    /\ \A n \in rows[c] : n <= 1 + job[c].failures + job[c].stalls

(* Every job that was enqueued is completed or given up, whatever happens  *)
(* to its workers.                                                         *)
JobsEnd == \A c \in Calls : job[c].state = "waiting" ~> job[c].state \in Ended

=============================================================================
