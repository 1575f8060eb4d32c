---------------------------- MODULE DocumentPages ----------------------------
(***************************************************************************)
(* The editor pages of one document: the copy each keeps in its query      *)
(* cache, the saves and restores it sends, the document.updated events     *)
(* that make it fetch again, and the banner that tells of a refused save.  *)
(*                                                                         *)
(* The document is the number of commits made to it, which is what its     *)
(* updatedAt stands for on a page: a copy is the number of commits it has  *)
(* seen, 0 when there is no copy yet.  Commits so close that their         *)
(* timestamps are equal are the business of DocumentStore.  A page that is *)
(* not in Pages matters by its commits only; its calls are Elsewhere.      *)
(***************************************************************************)
EXTENDS Integers, FiniteSets

CONSTANTS
  Pages,
  Calls,     \* saves and restores, each made at most once
  MaxVisits  \* times a page is opened

ASSUME CallAssumption == IsFiniteSet(Calls)
ASSUME VisitAssumption == MaxVisits \in Nat \ {0}

VARIABLES
  rev,     \* the commits made to the document
  call,    \* per call, the state of its handler and of its caller
  visit,   \* per page, whether it is open, and how often it was opened
  cache,   \* per page, its copy
  fetch,   \* per page, the GET under way
  banner,  \* per page, whether it says that the last save was rejected
  joined,  \* the pages whose room subscription the gateway holds
  inbox,   \* per page, the events on their way to it
  seen,    \* history: per page, the newest copy it ever had
  missed   \* history: the pages that fetched nothing for an event

vars == <<rev, call, visit, cache, fetch, banner, joined, inbox, seen, missed>>
copyVars == <<cache, fetch, seen, missed>>
roomVars == <<joined, inbox>>

Elsewhere == "elsewhere"

ASSUME PageAssumption == {Elsewhere, "none"} \cap Pages = {}

Revs == 0 .. Cardinality(Calls) + 1

InFlight == {"sent", "checked", "committed", "answered", "refused", "asking"}

(* base is expectedUpdatedAt; result the commit made; before, the calls of *)
(* the page that had ended when this one was sent; back says that the page *)
(* had shown a newer copy than base by then.                               *)
CallState ==
  [pc : InFlight \cup {"idle", "ok", "conflict", "swallowed", "failed"},
   kind : {"none", "save", "restore"}, page : Pages \cup {"none", Elsewhere},
   visit : 0 .. MaxVisits, base : Revs, result : Revs, told : BOOLEAN,
   before : SUBSET Calls, back : BOOLEAN]

Unsent ==
  [pc |-> "idle", kind |-> "none", page |-> "none", visit |-> 0, base |-> 0,
   result |-> 0, told |-> FALSE, before |-> {}, back |-> FALSE]

NoFetch == [at |-> "none", result |-> 0]
Asked == [at |-> "asked", result |-> 0]

Init ==
  /\ rev = 1
  /\ call = [c \in Calls |-> Unsent]
  /\ visit = [p \in Pages |-> [open |-> FALSE, number |-> 0]]
  /\ cache = [p \in Pages |-> 0]
  /\ fetch = [p \in Pages |-> NoFetch]
  /\ banner = [p \in Pages |-> FALSE]
  /\ joined = {}
  /\ inbox = [p \in Pages |-> 0]
  /\ seen = [p \in Pages |-> 0]
  /\ missed = {}

----------------------------------------------------------------------------
(* The page's query.                                                       *)

Show(p, copy) ==
  /\ cache' = [cache EXCEPT ![p] = copy]
  /\ seen' = [seen EXCEPT ![p] = IF copy > @ THEN copy ELSE @]

\* Mutant of Refetched: a fetch under way is taken to be good enough.
RefetchedOnce(p) == IF fetch[p].at = "none" THEN Asked ELSE fetch[p]

(* An invalidated query is fetched again, and a fetch under way is dropped *)
(* for the new one, except the first, which has no data to fall back on.   *)
Refetched(p) == IF fetch[p].at # "none" /\ cache[p] = 0 THEN fetch[p] ELSE Asked

Invalidate(p) ==
  /\ fetch' = [fetch EXCEPT ![p] = Refetched(p)]
  /\ missed' = IF cache[p] = 0 /\ fetch[p].at = "read"
                 THEN missed \cup {p} ELSE missed \ {p}

ReadDocument(p) ==
  /\ fetch[p].at = "asked"
  /\ fetch' = [fetch EXCEPT ![p] = [at |-> "read", result |-> rev]]
  /\ UNCHANGED <<rev, call, visit, cache, banner, seen, missed, roomVars>>

ShowDocument(p) ==
  /\ fetch[p].at = "read"
  /\ Show(p, fetch[p].result)
  /\ fetch' = [fetch EXCEPT ![p] = NoFetch]
  /\ UNCHANGED <<rev, call, visit, banner, missed, roomVars>>

(* The GET and its retry fail: the page stays with what it has.            *)
FailFetch(p) ==
  /\ fetch[p].at # "none"
  /\ fetch' = [fetch EXCEPT ![p] = NoFetch]
  /\ missed' = missed \cup {p}
  /\ UNCHANGED <<rev, call, visit, cache, banner, seen, roomVars>>

(* The window gets the focus, or the browser is online again, and the copy *)
(* is older than staleTime.                                                *)
Refocus(p) ==
  /\ visit[p].open /\ fetch[p].at = "none"
  /\ fetch' = [fetch EXCEPT ![p] = Asked]
  /\ missed' = missed \ {p}
  /\ UNCHANGED <<rev, call, visit, cache, banner, seen, roomVars>>

----------------------------------------------------------------------------
(* Opening and closing the page.                                           *)

(* A copy that is less than staleTime old is shown without a fetch.        *)
Open(p, stale) ==
  /\ ~visit[p].open /\ visit[p].number < MaxVisits
  /\ visit' = [visit EXCEPT ![p] = [open |-> TRUE, number |-> @.number + 1]]
  /\ IF fetch[p].at = "none" /\ (stale \/ cache[p] = 0)
       THEN /\ fetch' = [fetch EXCEPT ![p] = Asked]
            /\ missed' = missed \ {p}
       ELSE UNCHANGED <<fetch, missed>>
  /\ UNCHANGED <<rev, call, cache, banner, seen, roomVars>>

(* The subscribe frame gets to the gateway sooner or later than the GET.   *)
Join(p) ==
  /\ visit[p].open /\ p \notin joined
  /\ joined' = joined \cup {p}
  /\ UNCHANGED <<rev, call, visit, copyVars, banner, inbox>>

(* The page loses its room, and what was on its way to it.                 *)
Leave(p) ==
  /\ joined' = joined \ {p}
  /\ inbox' = [inbox EXCEPT ![p] = 0]
  /\ missed' = IF inbox[p] > 0 THEN missed \cup {p} ELSE missed
  /\ UNCHANGED <<rev, call, cache, fetch, seen>>

(* The socket is lost; the reconnection brings the room back with Join,    *)
(* and fetches nothing.                                                    *)
Disconnect(p) ==
  /\ p \in joined
  /\ Leave(p)
  /\ UNCHANGED <<visit, banner>>

(* The page unsubscribes and forgets its banner; its copy stays in the     *)
(* query cache.                                                            *)
Close(p) ==
  /\ visit[p].open
  /\ visit' = [visit EXCEPT ![p].open = FALSE]
  /\ banner' = [banner EXCEPT ![p] = FALSE]
  /\ Leave(p)

(* Another editor's save landed, or the page's own.                        *)
Receive(p) ==
  /\ inbox[p] > 0
  /\ inbox' = [inbox EXCEPT ![p] = @ - 1]
  /\ Invalidate(p)
  /\ UNCHANGED <<rev, call, visit, cache, banner, joined, seen>>

----------------------------------------------------------------------------
(* Saving and restoring.                                                   *)

Of(p) == {c \in Calls : call[c].page = p}
Ended(p) == {c \in Of(p) : call[c].pc \notin InFlight}

Send(c, p, kind) ==
  /\ call[c].pc = "idle"
  /\ visit[p].open /\ cache[p] # 0
  /\ call' = [call EXCEPT ![c] =
       [Unsent EXCEPT !.pc = "sent", !.kind = kind, !.page = p,
         !.visit = visit[p].number, !.base = cache[p],
         !.before = Ended(p), !.back = cache[p] < seen[p]]]
  /\ UNCHANGED <<rev, visit, copyVars, banner, roomVars>>

(* Another page's save or restore has passed its check.                    *)
SendElsewhere(c) ==
  /\ call[c].pc = "idle"
  /\ call' = [call EXCEPT ![c] = [Unsent EXCEPT !.pc = "checked", !.page = Elsewhere]]
  /\ UNCHANGED <<rev, visit, copyVars, banner, roomVars>>

Goto(c, pc) == call' = [call EXCEPT ![c].pc = pc]

(* A call that has ended keeps what the properties ask for.                *)
End(c, pc) ==
  call' = [call EXCEPT ![c] =
    [@ EXCEPT !.pc = pc, !.visit = 0, !.base = 0, !.before = {}, !.back = FALSE]]

(* The handler reads the row; a save is compared with it, a restore is not.*)
Check(c) ==
  /\ call[c].pc = "sent"
  /\ IF call[c].kind = "restore" \/ call[c].base = rev
       THEN call' = [call EXCEPT ![c] =
              [@ EXCEPT !.pc = "checked", !.base = 0, !.before = {}, !.back = FALSE]]
       ELSE Goto(c, "refused")
  /\ UNCHANGED <<rev, visit, copyVars, banner, roomVars>>

Commit(c) ==
  /\ call[c].pc = "checked"
  /\ rev' = rev + 1
  /\ call' = [call EXCEPT ![c].pc = "committed", ![c].result = rev + 1]
  /\ UNCHANGED <<visit, copyVars, banner, roomVars>>

\* Mutant of Fanned: a subscriber is told by its room and by its document.
FannedTwice == [p \in Pages |-> IF p \in joined THEN inbox[p] + 2 ELSE inbox[p]]

Fanned == [p \in Pages |-> IF p \in joined THEN inbox[p] + 1 ELSE inbox[p]]

(* A page that is not subscribed hears nothing, and may have read too soon.*)
Publish(c) ==
  /\ call[c].pc = "committed"
  /\ call' = [call EXCEPT ![c].told = TRUE,
       ![c].pc = IF call[c].page \in Pages THEN "answered" ELSE "ok"]
  /\ inbox' = Fanned
  /\ missed' = missed \cup
       {p \in Pages \ joined : cache[p] # 0 \/ fetch[p].at = "read"}
  /\ UNCHANGED <<rev, visit, cache, fetch, banner, joined, seen>>

(* The visit that sent the call is still the one on the screen.            *)
Mounted(c) ==
  LET p == call[c].page IN visit[p].open /\ visit[p].number = call[c].visit

\* Mutant of Answer: the response is not put into the cache.
AnswerIgnored(c) == cache[call[c].page]

Answer(c) == call[c].result

(* A save was accepted.                                                    *)
Accept(c) ==
  LET p == call[c].page IN
  /\ call[c].pc = "answered" /\ call[c].kind = "save"
  /\ End(c, "ok")
  /\ Show(p, Answer(c))
  /\ banner' = IF Mounted(c) THEN [banner EXCEPT ![p] = FALSE] ELSE banner
  /\ UNCHANGED <<rev, visit, fetch, missed, roomVars>>

(* A restore was done.  The copy of a closed page is only marked as stale, *)
(* one of the cases of Open.                                               *)
Restored(c) ==
  LET p == call[c].page IN
  /\ call[c].pc = "answered" /\ call[c].kind = "restore"
  /\ End(c, "ok")
  /\ IF visit[p].open THEN Invalidate(p) ELSE UNCHANGED <<fetch, missed>>
  /\ UNCHANGED <<rev, visit, cache, banner, seen, roomVars>>

\* Mutant of Raised: no banner when the page shows the latest already.
RaisedWhenStale(c) == cache[call[c].page] # rev

Raised(c) == TRUE

(* The page learns that a save was refused, and asks for the latest        *)
(* document before it says so.                                             *)
Refused(c) ==
  /\ call[c].pc = "refused"
  /\ Goto(c, "asking")
  /\ UNCHANGED <<rev, visit, copyVars, banner, roomVars>>

Surface(c) ==
  /\ call[c].pc = "asking"
  /\ Goto(c, "conflict")
  /\ banner' = IF Mounted(c) /\ Raised(c)
                 THEN [banner EXCEPT ![call[c].page] = TRUE] ELSE banner
  /\ UNCHANGED <<rev, visit, copyVars, roomVars>>

(* That request fails, outside of every handler of errors: the page knows  *)
(* of the refusal and never tells.                                         *)
Swallow(c) ==
  /\ call[c].pc = "asking"
  /\ Goto(c, "swallowed")
  /\ UNCHANGED <<rev, visit, copyVars, banner, roomVars>>

(* The server or the network fails; the page says nothing.                 *)
Fail(c) ==
  /\ call[c].pc \in InFlight \ {"asking"}
  /\ End(c, "failed")
  /\ UNCHANGED <<rev, visit, copyVars, banner, roomVars>>

Next ==
  \/ \E p \in Pages :
       \/ ReadDocument(p) \/ ShowDocument(p) \/ FailFetch(p) \/ Refocus(p)
       \/ \E stale \in BOOLEAN : Open(p, stale)
       \/ Join(p) \/ Disconnect(p) \/ Close(p) \/ Receive(p)
  \/ \E c \in Calls :
       \/ \E p \in Pages, kind \in {"save", "restore"} : Send(c, p, kind)
       \/ SendElsewhere(c) \/ Check(c) \/ Commit(c) \/ Publish(c)
       \/ Accept(c) \/ Restored(c) \/ Refused(c) \/ Surface(c) \/ Swallow(c) \/ Fail(c)

Spec == Init /\ [][Next]_vars

----------------------------------------------------------------------------
(* Properties.                                                             *)

TypeOK ==
  /\ rev \in Revs
  /\ call \in [Calls -> CallState]
  /\ visit \in [Pages -> [open : BOOLEAN, number : 0 .. MaxVisits]]
  /\ cache \in [Pages -> Revs]
  /\ fetch \in [Pages -> [at : {"none", "asked", "read"}, result : Revs]]
  /\ banner \in [Pages -> BOOLEAN]
  /\ joined \in SUBSET Pages
  /\ inbox \in [Pages -> 0 .. Cardinality(Calls)]
  /\ seen \in [Pages -> Revs]
  /\ missed \in SUBSET Pages

(* Nobody was told of the last commit: not yet, or never.                  *)
Unannounced == \E c \in Calls : call[c].result = rev /\ ~call[c].told

(* A response came after the page had shown a newer copy.                  *)
WentBack(p) == cache[p] < seen[p]

(* A subscribed page that neither fetches nor has an event to come shows   *)
(* the document as it is, whatever calls are under way.  The exceptions    *)
(* are the ways the page really has of staying behind: an event that came  *)
(* while it was not subscribed or still loading, a fetch that failed, a    *)
(* commit that is not announced, and a response that arrived after the     *)
(* refetch of a later commit.                                              *)
PagesConverge ==
  \A p \in Pages :
    p \in joined /\ inbox[p] = 0 /\ fetch[p].at = "none"
    => cache[p] = rev \/ p \in missed \/ Unannounced \/ WentBack(p)

TurnedDown == {"refused", "asking", "conflict", "swallowed"}

(* A page whose save the server refused says so, once it knows of it and   *)
(* has the latest document, until another save is accepted that had not    *)
(* ended before: a later one, or one that overlapped the refused one and   *)
(* whose response takes the banner away.  No event, no refetch and no      *)
(* failure of another call does.  The exception is the page's own: when    *)
(* the request for the latest document fails, the refusal is swallowed.    *)
RejectionTold ==
  \A c \in Calls :
    call[c].pc \in TurnedDown /\ Mounted(c)
    => \/ call[c].pc \in {"refused", "asking"}
       \/ call[c].pc = "swallowed"
       \/ banner[call[c].page]
       \/ \E d \in Of(call[c].page) \ call[c].before :
            call[d].kind = "save" /\ call[d].pc = "ok"

(* A page is refused for its own commits only when its calls overlapped,   *)
(* one of them failed after its commit or was a restore, or its copy had   *)
(* gone back: one user who types in one page and waits is never told that  *)
(* the document was changed by somebody else.                              *)
NoSelfConflict ==
  \A c \in Calls :
    call[c].kind = "save" /\ call[c].pc \in TurnedDown
    => \/ call[c].back
       \/ \E d \in Calls :
            /\ call[d].result > call[c].base
            /\ \/ call[d].page # call[c].page
               \/ d \notin call[c].before
               \/ call[d].pc = "failed"
               \/ call[d].kind = "restore"

=============================================================================
