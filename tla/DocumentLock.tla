---------------------------- MODULE DocumentLock ----------------------------
(***************************************************************************)
(* The soft edit lock of one document: a Redis key with a time to live,    *)
(* the lock and unlock handlers of documents.routes.ts, which reach it one *)
(* command at a time, and the editor tabs of page.tsx that take it when    *)
(* they open, renew it on a timer and release it when they close.          *)
(*                                                                         *)
(* One tick is the 20 seconds of a renewal period, so the key lives for    *)
(* TTL = 3 ticks.  The document.locked and document.unlocked events are    *)
(* left out: no client acts on them.  EditorProofs extends this module     *)
(* together with DocumentPages, hence the names LockInit, LockNext, ...    *)
(***************************************************************************)
EXTENDS Integers

CONSTANTS
  Users, Tabs,
  Owner,    \* the user each tab is signed in as
  Writers,  \* the users whose role is MEMBER or above
  Handlers, \* <<tab, number>>: the calls that may be in flight at once
  TTL,      \* ticks a lock lives without renewal
  NoOne

ASSUME OwnerAssumption == Owner \in [Tabs -> Users] /\ Writers \subseteq Users
ASSUME HandlerAssumption == Handlers \subseteq Tabs \X Nat
ASSUME TTLAssumption == TTL \in Nat /\ TTL > 1
ASSUME NoOneAssumption == NoOne \notin Users

VARIABLES
  lock,    \* the Redis key: its value and its remaining ticks
  open,    \* the tabs whose editor page is mounted
  due,     \* the open tabs whose renewal timer has fired
  at,      \* where the handler of each call is
  granted, \* history: tabs whose user was given the lock while they were
           \* open and has not released it since
  smooth   \* history: every call so far was served within the tick it was
           \* made in, none was lost, and no user had two at once

lockVars == <<lock, open, due, at, granted, smooth>>

UserOf(c) == Owner[c[1]]
TabsOf(u) == {t \in Tabs : Owner[t] = u}

Unlocked == [holder |-> NoOne, ttl |-> 0]

\* Mutant of HeldBy: a lock that lives no longer than a renewal period.
HeldBriefly(u) == [holder |-> u, ttl |-> 1]

HeldBy(u) == [holder |-> u, ttl |-> TTL]

\* Mutant of Aged: a key set without a time to live.
Ageless == lock

(* The key after a tick.                                                   *)
Aged == IF lock.ttl <= 1 THEN Unlocked ELSE [lock EXCEPT !.ttl = @ - 1]

LockInit ==
  /\ lock = Unlocked
  /\ open = {}
  /\ due = {}
  /\ at = [c \in Handlers |-> "free"]
  /\ granted = {}
  /\ smooth = TRUE

----------------------------------------------------------------------------
(* The editor tabs.                                                        *)

Proceed(c, pc) == at' = [at EXCEPT ![c] = pc]

Busy(u) == \E c \in Handlers : UserOf(c) = u /\ at[c] # "free"

SendCall(t, pc) ==
  /\ \E c \in Handlers :
       /\ c[1] = t
       /\ at[c] = "free"
       /\ Proceed(c, pc)
  /\ smooth' = (smooth /\ ~Busy(Owner[t]))

Mount(t) ==
  /\ t \notin open
  /\ open' = open \cup {t}
  /\ SendCall(t, "setnx")
  /\ UNCHANGED <<lock, due, granted>>

Renew(t) ==
  /\ t \in due
  /\ due' = due \ {t}
  /\ SendCall(t, "setnx")
  /\ UNCHANGED <<lock, open, granted>>

LeaveTab(t) ==
  /\ t \in open
  /\ open' = open \ {t}
  /\ due' = due \ {t}
  /\ granted' = granted \ {t}
  /\ UNCHANGED lock

(* The effect's cleanup clears the timer and posts the unlock.             *)
Unmount(t) == LeaveTab(t) /\ SendCall(t, "getdel")

(* The tab crashes or the machine sleeps: nothing is sent.                 *)
Crash(t) == LeaveTab(t) /\ UNCHANGED <<at, smooth>>

----------------------------------------------------------------------------
(* The lock handler.                                                       *)

MayLock(c) == UserOf(c) \in Writers

Forbidden(c) ==
  /\ at[c] = "setnx"
  /\ ~MayLock(c)
  /\ Proceed(c, "free")
  /\ UNCHANGED <<lock, open, due, granted, smooth>>

(* SET key user EX 60 NX *)
SetNX(c) ==
  /\ at[c] = "setnx"
  /\ MayLock(c)
  /\ \/ /\ lock.holder = NoOne
        /\ lock' = HeldBy(UserOf(c))
        /\ granted' = granted \cup ({c[1]} \cap open)
        /\ Proceed(c, "locked")
     \/ /\ lock.holder # NoOne
        /\ Proceed(c, "get")
        /\ UNCHANGED <<lock, granted>>
  /\ UNCHANGED <<open, due, smooth>>

(* GET key; anyone but the caller, nobody included, makes the answer 409.  *)
GetHolder(c) ==
  /\ at[c] = "get"
  /\ \/ lock.holder = UserOf(c) /\ Proceed(c, "expire")
     \/ lock.holder # UserOf(c) /\ Proceed(c, "free")
  /\ UNCHANGED <<lock, open, due, granted, smooth>>

(* EXPIRE key 60: it renews whatever lock is there by now, if any.         *)
Expire(c) ==
  /\ at[c] = "expire"
  /\ lock' = IF lock.holder = NoOne THEN lock ELSE [lock EXCEPT !.ttl = TTL]
  /\ granted' = IF lock.holder = UserOf(c) THEN granted \cup ({c[1]} \cap open)
                                            ELSE granted
  /\ Proceed(c, "locked")
  /\ UNCHANGED <<open, due, smooth>>

(* The publish of document.locked, and the answer.                         *)
AnswerLocked(c) ==
  /\ at[c] = "locked"
  /\ Proceed(c, "free")
  /\ UNCHANGED <<lock, open, due, granted, smooth>>

(* The unlock handler, which asks for no role.                             *)

UnlockGet(c) ==
  /\ at[c] = "getdel"
  /\ IF lock.holder = UserOf(c) THEN Proceed(c, "del")
                                ELSE Proceed(c, "free")
  /\ UNCHANGED <<lock, open, due, granted, smooth>>

UnlockDel(c) ==
  /\ at[c] = "del"
  /\ lock' = Unlocked
  /\ granted' = granted \ TabsOf(UserOf(c))
  /\ Proceed(c, "free")
  /\ UNCHANGED <<open, due, smooth>>

(* The call is cut off by the network or by a crash of the API process.    *)
Lose(c) ==
  /\ at[c] # "free"
  /\ Proceed(c, "free")
  /\ smooth' = FALSE
  /\ UNCHANGED <<lock, open, due, granted>>

----------------------------------------------------------------------------
(* Twenty seconds pass: every lock ages and every open tab's timer fires.  *)

Tick ==
  /\ lock.holder # NoOne \/ due # open
  /\ lock' = Aged
  /\ due' = open
  /\ smooth' = (smooth /\ due = {} /\ \A u \in Users : ~Busy(u))
  /\ UNCHANGED <<open, at, granted>>

Serve(c) ==
  \/ Forbidden(c) \/ SetNX(c) \/ GetHolder(c) \/ Expire(c) \/ AnswerLocked(c)
  \/ UnlockGet(c) \/ UnlockDel(c)

LockNext ==
  \/ \E t \in Tabs : Mount(t) \/ Renew(t) \/ Unmount(t) \/ Crash(t)
  \/ \E c \in Handlers : Serve(c) \/ Lose(c)
  \/ Tick

LockSpec == LockInit /\ [][LockNext]_lockVars

(* Time passes, the timer of an open page sends its renewal, and a call    *)
(* that reached the API is eventually served.                              *)
Fairness ==
  /\ WF_lockVars(Tick)
  /\ \A t \in Tabs : WF_lockVars(Renew(t))
  /\ \A c \in Handlers : WF_lockVars(Serve(c))

FairSpec == LockSpec /\ Fairness

----------------------------------------------------------------------------
(* Properties.                                                             *)

Phases == {"free", "setnx", "get", "expire", "locked", "getdel", "del"}

LockTypeOK ==
  /\ lock \in [holder : Users \cup {NoOne}, ttl : 0 .. TTL]
  /\ lock.holder = NoOne <=> lock.ttl = 0
  /\ open \in SUBSET Tabs
  /\ due \in SUBSET open
  /\ granted \in SUBSET open
  /\ at \in [Handlers -> Phases]
  /\ smooth \in BOOLEAN

(* An editor that was given the lock keeps it while its page stays open    *)
(* and renews, until the same user releases it: no other user's call and   *)
(* no passing of time takes it away, as long as calls are served in time   *)
(* and, per user, one after the other.                                     *)
KeptWhileGranted ==
  smooth => \A t \in granted : lock.holder = Owner[t]

(* Reading a document never locks out those who may edit it.               *)
ViewersNeverHold == lock.holder \in Writers \cup {NoOne}

Present(u) == Busy(u) \/ \E t \in open : Owner[t] = u

Abandoned == lock.holder # NoOne /\ ~Present(lock.holder)

(* A lock whose user has gone, by closing, crashing or losing the network, *)
(* frees itself: nobody is locked out for ever and nobody has to recover.  *)
AbandonedLockExpires == Abandoned ~> ~Abandoned

(* When every other editor has left, by whatever way, the one whose page   *)
(* stays open ends up holding the lock and keeps it: its timer asks again  *)
(* however often it was refused.                                           *)
LastEditorGetsLock ==
  \A t \in Tabs :
    Owner[t] \in Writers /\ []smooth /\ <>[](open = {t})
      => <>[](lock.holder = Owner[t])

=============================================================================
