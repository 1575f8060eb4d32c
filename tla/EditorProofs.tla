----------------------------- MODULE EditorProofs -----------------------------
(***************************************************************************)
(* What holds of the editor page: of its copy of the document, its saves   *)
(* and its banner (DocumentPages), for any pages, any finite set of calls  *)
(* and any number of visits, and of the lock it takes (DocumentLock), for  *)
(* any users, tabs and writers, any calls in flight and any time to live   *)
(* of two ticks or more.  The two share no state.                          *)
(***************************************************************************)
EXTENDS DocumentPages, DocumentLock, FiniteSetTheorems, TLAPS

USE CallAssumption, VisitAssumption, PageAssumption

----------------------------------------------------------------------------
(* Counting.  A call commits at most once and is announced at most once,   *)
(* which bounds the revision and every inbox.                              *)

LEMMA FewCalls ==
  /\ Cardinality(Calls) \in Nat
  /\ \A S \in SUBSET Calls : IsFiniteSet(S) /\ Cardinality(S) \in 0 .. Cardinality(Calls)
  /\ \A S \in SUBSET Calls, c \in Calls :
       c \notin S => Cardinality(S \cup {c}) = Cardinality(S) + 1
<1>1. \A S \in SUBSET Calls : IsFiniteSet(S) /\ Cardinality(S) <= Cardinality(Calls)
  BY FS_Subset
<1>2. \A S \in SUBSET Calls : Cardinality(S) \in Nat
  BY <1>1, FS_CardinalityType
<1>3. ASSUME NEW S \in SUBSET Calls, NEW c \in Calls, c \notin S
      PROVE  Cardinality(S \cup {c}) = Cardinality(S) + 1
  BY <1>1, <1>3, FS_AddElement
<1> QED
  BY <1>1, <1>2, <1>3

Ends == {"ok", "conflict", "swallowed", "failed"}

LEMMA CallTyped ==
  ASSUME TypeOK, NEW c \in Calls
  PROVE  /\ call[c] \in CallState
         /\ call[c].pc \in InFlight \cup Ends \cup {"idle"}
         /\ call[c].result \in Nat /\ call[c].base \in Nat /\ call[c].visit \in Nat
         /\ call[c].before \in SUBSET Calls
         /\ call[c].told \in BOOLEAN /\ call[c].back \in BOOLEAN
BY FewCalls DEF TypeOK, CallState, Revs, Ends

LEMMA PageTyped ==
  ASSUME TypeOK
  PROVE  /\ rev \in Nat
         /\ \A p \in Pages :
              /\ cache[p] \in Nat /\ seen[p] \in Nat /\ inbox[p] \in Nat
              /\ visit[p].number \in Nat /\ visit[p].open \in BOOLEAN
              /\ fetch[p].result \in Nat /\ fetch[p].at \in {"none", "asked", "read"}
BY FewCalls DEF TypeOK, Revs

----------------------------------------------------------------------------
(* The invariant.                                                          *)

Made == {c \in Calls : call[c].result > 0}
Told == {c \in Calls : call[c].told}

Counts ==
  /\ rev = Cardinality(Made) + 1
  /\ \A p \in Pages : inbox[p] <= Cardinality(Told)

(* Every revision but the first has the call that made it; only the last   *)
(* one matters.                                                            *)
LastMade == rev > 1 => \E c \in Calls : call[c].result = rev

CallFine(c) ==
  /\ call[c].pc \in {"idle", "sent", "checked"} \cup TurnedDown => call[c].result = 0
  /\ call[c].pc \in {"committed", "answered", "ok"} => call[c].result > 0
  /\ call[c].told => call[c].pc \in {"answered", "ok", "failed"}
  /\ call[c].pc = "idle" => call[c].page = "none"
  /\ call[c].pc \in {"sent", "answered"} \cup TurnedDown => call[c].page \in Pages
  /\ call[c].page \in Pages =>
       /\ call[c].kind \in {"save", "restore"}
       /\ cache[call[c].page] > 0
       /\ call[c].visit <= visit[call[c].page].number
  /\ call[c].pc = "sent" => call[c].base > 0
  /\ call[c].result <= rev /\ call[c].base <= rev

PageFine(p) ==
  /\ cache[p] <= seen[p] /\ seen[p] <= rev
  /\ fetch[p].at = "read" => fetch[p].result \in 1 .. rev
  /\ p \in joined => visit[p].open
  /\ cache[p] = 0 /\ fetch[p].at = "none" /\ visit[p].open => p \in missed

(* What a page is going to do about the last commit, if it does not know   *)
(* of it already: the reason why pages converge.                           *)
Knows(p) ==
  \/ seen[p] = rev
  \/ inbox[p] > 0
  \/ fetch[p].at = "asked"
  \/ fetch[p].at = "read" /\ fetch[p].result = rev
  \/ cache[p] = 0 /\ fetch[p].at = "none"
  \/ p \in missed
  \/ Unannounced

(* A call remembers the calls of its page that had ended, and those never  *)
(* start again; the accepted saves among them were on the screen.          *)
BeforeFine(c) ==
  \A d \in call[c].before :
    /\ call[d].pc \in Ends
    /\ call[d].pc = "ok" /\ call[d].kind = "save" =>
         call[d].result <= call[c].base \/ call[c].back

(* The response of an accepted save was shown.                             *)
ShownOnce(c) ==
  call[c].pc = "ok" /\ call[c].kind = "save" /\ call[c].page \in Pages
    => call[c].result <= seen[call[c].page]

PagesInv ==
  /\ TypeOK
  /\ Counts
  /\ LastMade
  /\ \A c \in Calls : CallFine(c)
  /\ \A p \in Pages : PageFine(p)
  /\ \A p \in Pages : Knows(p)
  /\ \A c \in Calls : BeforeFine(c)
  /\ \A c \in Calls : ShownOnce(c)
  /\ RejectionTold
  /\ NoSelfConflict

LEMMA InitPages == Init => PagesInv
<1> SUFFICES ASSUME Init PROVE PagesInv
  OBVIOUS
<1>1. \A c \in Calls : call[c] = Unsent
  BY DEF Init
<1>2. TypeOK
  <2>1. 0 \in Revs /\ 1 \in Revs /\ 0 \in 0 .. Cardinality(Calls) /\ 0 \in 0 .. MaxVisits
    BY FewCalls DEF Revs
  <2>2. Unsent \in CallState
    BY <2>1 DEF Unsent, CallState
  <2> QED
    BY <2>1, <2>2 DEF Init, TypeOK, NoFetch
<1>3. Counts
  <2>1. Made = {} /\ Told = {}
    BY <1>1 DEF Made, Told, Unsent
  <2> QED
    BY <2>1, FS_EmptySet DEF Counts, Init
<1>4. LastMade
  BY DEF LastMade, Init
<1>5. \A c \in Calls : CallFine(c) /\ BeforeFine(c) /\ ShownOnce(c)
  BY <1>1 DEF TurnedDown, Init, CallFine, BeforeFine, ShownOnce, Unsent
<1>6. \A p \in Pages : PageFine(p) /\ Knows(p)
  BY DEF Init, PageFine, Knows, NoFetch
<1>7. RejectionTold /\ NoSelfConflict
  BY <1>1 DEF TurnedDown, RejectionTold, NoSelfConflict, Unsent
<1> QED
  BY <1>2, <1>3, <1>4, <1>5, <1>6, <1>7 DEF PagesInv

----------------------------------------------------------------------------
(* A step of one page, which leaves the calls and the document alone.      *)

OthersStay(p) ==
  \A q \in Pages \ {p} :
    /\ visit'[q] = visit[q] /\ cache'[q] = cache[q] /\ fetch'[q] = fetch[q]
    /\ banner'[q] = banner[q] /\ inbox'[q] = inbox[q] /\ seen'[q] = seen[q]
    /\ (q \in joined') = (q \in joined) /\ (q \in missed') = (q \in missed)

(* What a page never does: forget that it has a copy, or take the banner   *)
(* from the visit it was raised for.                                       *)
Advances(p) ==
  /\ inbox'[p] <= inbox[p]
  /\ cache[p] > 0 => cache'[p] > 0
  /\ seen[p] <= seen'[p]
  /\ visit[p].number <= visit'[p].number
  /\ \/ visit'[p] = visit[p] /\ banner'[p] = banner[p]
     \/ ~visit'[p].open
     \/ visit[p].number < visit'[p].number

LEMMA PageKeeps ==
  ASSUME PagesInv, NEW p \in Pages, TypeOK', UNCHANGED <<rev, call>>,
         OthersStay(p), Advances(p), PageFine(p)', Knows(p)'
  PROVE  PagesInv'
<1>1. Counts'
  <2>1. Made' = Made /\ Told' = Told
    BY DEF Made, Told
  <2>2. \A q \in Pages : inbox'[q] <= inbox[q] /\ inbox[q] \in Nat /\ inbox'[q] \in Nat
    BY PageTyped, FewCalls DEF PagesInv, OthersStay, Advances, TypeOK
  <2>3. Cardinality(Told) \in Nat
    BY FewCalls DEF Told
  <2> QED
    BY <2>1, <2>2, <2>3 DEF PagesInv, Counts
<1>2. LastMade' /\ NoSelfConflict'
  BY DEF PagesInv, LastMade, NoSelfConflict
<1>3. ASSUME NEW c \in Calls PROVE CallFine(c)' /\ BeforeFine(c)' /\ ShownOnce(c)'
  <2>1. CallFine(c) /\ BeforeFine(c) /\ ShownOnce(c)
    BY DEF PagesInv
  <2>2. ASSUME NEW q \in Pages
        PROVE  /\ cache[q] > 0 => cache'[q] > 0
               /\ visit[q].number <= visit'[q].number
               /\ seen[q] <= seen'[q]
               /\ visit'[q].number \in Nat /\ seen'[q] \in Nat
               /\ visit[q].number \in Nat /\ seen[q] \in Nat
    BY PageTyped, FewCalls DEF PagesInv, OthersStay, Advances, TypeOK, Revs
  <2>3. call[c].visit \in Nat /\ call[c].result \in Nat
    BY CallTyped DEF PagesInv
  <2>4. CallFine(c)'
    BY <2>1, <2>2, <2>3 DEF TurnedDown, CallFine
  <2>5. BeforeFine(c)' /\ ShownOnce(c)'
    BY <2>1, <2>2, <2>3 DEF BeforeFine, ShownOnce
  <2> QED
    BY <2>4, <2>5
<1>4. ASSUME NEW q \in Pages PROVE PageFine(q)' /\ Knows(q)'
  <2>1. PageFine(q) /\ Knows(q)
    BY DEF PagesInv
  <2>2. CASE q # p
    BY <2>1, <2>2 DEF OthersStay, PageFine, Knows, Unannounced
  <2> QED
    BY <2>2
<1>5. RejectionTold'
  <2> SUFFICES ASSUME NEW c \in Calls, call[c].pc = "conflict", Mounted(c)'
               PROVE  \/ banner'[call[c].page]
                      \/ \E d \in Of(call[c].page) \ call[c].before :
                           call[d].kind = "save" /\ call[d].pc = "ok"
    BY DEF RejectionTold, TurnedDown, Of
  <2>1. call[c].page \in Pages /\ call[c].visit <= visit[call[c].page].number
    BY DEF TurnedDown, PagesInv, CallFine
  <2>2. call[c].visit \in Nat /\ visit[call[c].page].number \in Nat
    BY <2>1, CallTyped, PageTyped DEF PagesInv
  <2>3. /\ visit'[call[c].page] = visit[call[c].page]
        /\ banner'[call[c].page] = banner[call[c].page]
    BY <2>1, <2>2 DEF OthersStay, Advances, Mounted
  <2>4. Mounted(c)
    BY <2>3 DEF Mounted
  <2> QED
    BY <2>3, <2>4 DEF PagesInv, RejectionTold, TurnedDown
<1> QED
  BY <1>1, <1>2, <1>3, <1>4, <1>5 DEF PagesInv

(* Receiving an event, and after a restore: the page asks again, or a      *)
(* first fetch goes on, which may have read too soon.                      *)
LEMMA Invalidating ==
  ASSUME PagesInv, NEW p \in Pages, Invalidate(p)
  PROVE  /\ fetch' \in [Pages -> [at : {"none", "asked", "read"}, result : Revs]]
         /\ missed' \in SUBSET Pages
         /\ \A q \in Pages \ {p} :
              fetch'[q] = fetch[q] /\ (q \in missed') = (q \in missed)
         /\ fetch'[p].at # "none"
         /\ fetch'[p].at = "asked" \/ p \in missed'
         /\ fetch'[p].at = "read" => fetch'[p] = fetch[p]
<1>1. /\ fetch' = [fetch EXCEPT ![p] = Refetched(p)]
      /\ fetch \in [Pages -> [at : {"none", "asked", "read"}, result : Revs]]
      /\ missed \in SUBSET Pages
  BY DEF Invalidate, PagesInv, TypeOK
<1>2. 0 \in Revs
  BY FewCalls DEF Revs
<1>3. Asked \in [at : {"none", "asked", "read"}, result : Revs] /\ Asked.at = "asked"
  BY <1>2 DEF Asked
<1>4. Refetched(p) \in {fetch[p], Asked}
  BY DEF Refetched
<1>5. fetch'[p] = Refetched(p) /\ \A q \in Pages \ {p} : fetch'[q] = fetch[q]
  BY <1>1
<1>6. \/ cache[p] = 0 /\ fetch[p].at = "read" /\ missed' = missed \cup {p}
      \/ ~(cache[p] = 0 /\ fetch[p].at = "read") /\ missed' = missed \ {p}
  BY DEF Invalidate
<1>7. missed' \in SUBSET Pages /\ \A q \in Pages \ {p} : (q \in missed') = (q \in missed)
  BY <1>1, <1>6
<1>8. CASE fetch[p].at # "none" /\ cache[p] = 0
  BY <1>1, <1>4, <1>5, <1>6, <1>7, <1>8 DEF Refetched
<1>9. CASE ~(fetch[p].at # "none" /\ cache[p] = 0)
  BY <1>1, <1>3, <1>5, <1>7, <1>9 DEF Refetched
<1> QED
  BY <1>8, <1>9

(* Showing a copy the server sent, which is not newer than the document.   *)
LEMMA Showing ==
  ASSUME PagesInv, NEW p \in Pages, NEW copy \in 1 .. rev, Show(p, copy)
  PROVE  /\ cache' \in [Pages -> Revs] /\ seen' \in [Pages -> Revs]
         /\ \A q \in Pages \ {p} : cache'[q] = cache[q] /\ seen'[q] = seen[q]
         /\ cache'[p] = copy
         /\ copy <= seen'[p] /\ seen[p] <= seen'[p] /\ seen'[p] <= rev
<1>1. /\ cache' = [cache EXCEPT ![p] = copy]
      /\ seen' = [seen EXCEPT ![p] = IF copy > seen[p] THEN copy ELSE seen[p]]
  BY DEF Show
<1>2. /\ cache \in [Pages -> Revs] /\ seen \in [Pages -> Revs]
      /\ rev \in Nat /\ seen[p] \in Nat /\ seen[p] <= rev
  BY PageTyped DEF PagesInv, TypeOK, PageFine
<1>3. copy \in Revs /\ copy \in Nat
  BY <1>2, FewCalls DEF PagesInv, TypeOK, Revs
<1>4. seen'[p] = IF copy > seen[p] THEN copy ELSE seen[p]
  BY <1>1, <1>2
<1> QED
  BY <1>1, <1>2, <1>3, <1>4

LEMMA ReadDocumentKeeps ==
  ASSUME PagesInv, NEW p \in Pages, ReadDocument(p) PROVE PagesInv'
<1> DEFINE new == [at |-> "read", result |-> rev]
<1>1. /\ fetch' = [fetch EXCEPT ![p] = new]
      /\ UNCHANGED <<rev, call, visit, cache, banner, joined, inbox, seen, missed>>
  BY DEF ReadDocument, roomVars
<1>2. TypeOK /\ PageFine(p) /\ rev >= 1
  BY FewCalls DEF PagesInv, Counts, Made
<1>3. new \in [at : {"none", "asked", "read"}, result : Revs]
  BY <1>2 DEF TypeOK
<1>4. TypeOK'
  BY <1>1, <1>2, <1>3 DEF TypeOK
<1>5. fetch'[p] = new /\ \A q \in Pages \ {p} : fetch'[q] = fetch[q]
  BY <1>1, <1>2 DEF TypeOK
<1>6. OthersStay(p) /\ Advances(p)
  BY <1>1, <1>2, <1>5, PageTyped DEF OthersStay, Advances
<1>7. PageFine(p)' /\ Knows(p)'
  BY <1>1, <1>2, <1>5, PageTyped DEF PageFine, Knows
<1> QED
  BY <1>1, <1>4, <1>6, <1>7, PageKeeps

LEMMA ShowDocumentKeeps ==
  ASSUME PagesInv, NEW p \in Pages, ShowDocument(p) PROVE PagesInv'
<1> DEFINE copy == fetch[p].result
<1>1. /\ fetch[p].at = "read" /\ Show(p, copy) /\ fetch' = [fetch EXCEPT ![p] = NoFetch]
      /\ UNCHANGED <<rev, call, visit, banner, joined, inbox, missed>>
  BY DEF ShowDocument, roomVars
<1>2. TypeOK /\ PageFine(p) /\ Knows(p)
  BY DEF PagesInv
<1>3. copy \in 1 .. rev
  BY <1>1, <1>2 DEF PageFine
<1>4. /\ cache' \in [Pages -> Revs] /\ seen' \in [Pages -> Revs]
      /\ \A q \in Pages \ {p} : cache'[q] = cache[q] /\ seen'[q] = seen[q]
      /\ cache'[p] = copy
      /\ copy <= seen'[p] /\ seen[p] <= seen'[p] /\ seen'[p] <= rev
  BY <1>1, <1>3, Showing
<1>5. NoFetch \in [at : {"none", "asked", "read"}, result : Revs]
  BY FewCalls DEF NoFetch, Revs
<1>6. TypeOK'
  BY <1>1, <1>2, <1>4, <1>5 DEF TypeOK
<1>7. fetch'[p].at = "none" /\ \A q \in Pages \ {p} : fetch'[q] = fetch[q]
  BY <1>1, <1>2 DEF TypeOK, NoFetch
<1>8. /\ rev \in Nat /\ seen[p] \in Nat /\ copy \in Nat /\ inbox[p] \in Nat
      /\ seen'[p] \in Nat /\ visit[p].number \in Nat
  BY <1>2, <1>4, PageTyped, FewCalls DEF Revs
<1>9. OthersStay(p) /\ Advances(p)
  BY <1>1, <1>3, <1>4, <1>7, <1>8 DEF OthersStay, Advances
<1>10. PageFine(p)'
  BY <1>1, <1>2, <1>3, <1>4, <1>7, <1>8 DEF PageFine
<1>11. Knows(p)'
  BY <1>1, <1>2, <1>3, <1>4, <1>7, <1>8 DEF PageFine, Knows, Unannounced
<1> QED
  BY <1>1, <1>6, <1>9, <1>10, <1>11, PageKeeps

(* The fetch is asked for or given up; nothing else changes but what the   *)
(* page is known to have missed.                                           *)
LEMMA FetchKeeps ==
  ASSUME PagesInv, NEW p \in Pages,
         fetch' \in [Pages -> [at : {"none", "asked", "read"}, result : Revs]],
         missed' \in SUBSET Pages,
         \A q \in Pages \ {p} : fetch'[q] = fetch[q] /\ (q \in missed') = (q \in missed),
         fetch'[p].at = "asked" \/ p \in missed',
         fetch'[p].at = "read" => fetch'[p] = fetch[p],
         visit' \in [Pages -> [open : BOOLEAN, number : 0 .. MaxVisits]],
         \A q \in Pages \ {p} : visit'[q] = visit[q],
         \/ visit'[p] = visit[p]
         \/ visit'[p].open /\ visit[p].number < visit'[p].number,
         inbox' \in [Pages -> 0 .. Cardinality(Calls)], inbox'[p] <= inbox[p],
         \A q \in Pages \ {p} : inbox'[q] = inbox[q],
         UNCHANGED <<rev, call, cache, banner, joined, seen>>
  PROVE  PagesInv'
<1>1. TypeOK /\ PageFine(p)
  BY DEF PagesInv
<1>2. TypeOK'
  BY <1>1 DEF TypeOK
<1>3. visit[p].number <= visit'[p].number
  BY <1>1, <1>2, PageTyped DEF TypeOK
<1>4. OthersStay(p) /\ Advances(p)
  BY <1>1, <1>3, PageTyped DEF OthersStay, Advances
<1>5. PageFine(p)' /\ Knows(p)'
  BY <1>1 DEF PageFine, Knows
<1> QED
  BY <1>2, <1>4, <1>5, PageKeeps

LEMMA FailFetchKeeps ==
  ASSUME PagesInv, NEW p \in Pages, FailFetch(p) PROVE PagesInv'
<1>1. /\ fetch' = [fetch EXCEPT ![p] = NoFetch] /\ missed' = missed \cup {p}
      /\ UNCHANGED <<rev, call, visit, cache, banner, joined, inbox, seen>>
  BY DEF FailFetch, roomVars
<1>2. TypeOK
  BY DEF PagesInv
<1>3. NoFetch \in [at : {"none", "asked", "read"}, result : Revs]
  BY FewCalls DEF NoFetch, Revs
<1>4. /\ fetch' \in [Pages -> [at : {"none", "asked", "read"}, result : Revs]]
      /\ missed' \in SUBSET Pages /\ p \in missed' /\ fetch'[p].at = "none"
      /\ \A q \in Pages \ {p} : fetch'[q] = fetch[q] /\ (q \in missed') = (q \in missed)
  BY <1>1, <1>2, <1>3 DEF TypeOK, NoFetch
<1> QED
  BY <1>1, <1>2, <1>4, FetchKeeps, PageTyped DEF TypeOK

(* A page asks for the document.                                           *)
LEMMA Asking ==
  ASSUME PagesInv, NEW p \in Pages, fetch' = [fetch EXCEPT ![p] = Asked],
         missed' = missed \ {p}
  PROVE  /\ fetch' \in [Pages -> [at : {"none", "asked", "read"}, result : Revs]]
         /\ missed' \in SUBSET Pages /\ fetch'[p].at = "asked"
         /\ \A q \in Pages \ {p} : fetch'[q] = fetch[q] /\ (q \in missed') = (q \in missed)
<1>1. TypeOK
  BY DEF PagesInv
<1>2. Asked \in [at : {"none", "asked", "read"}, result : Revs]
  BY FewCalls DEF Asked, Revs
<1> QED
  BY <1>1, <1>2 DEF TypeOK, Asked

LEMMA RefocusKeeps ==
  ASSUME PagesInv, NEW p \in Pages, Refocus(p) PROVE PagesInv'
<1>1. /\ fetch' = [fetch EXCEPT ![p] = Asked] /\ missed' = missed \ {p}
      /\ UNCHANGED <<rev, call, visit, cache, banner, joined, inbox, seen>>
  BY DEF Refocus, roomVars
<1>2. TypeOK
  BY DEF PagesInv
<1>3. /\ fetch' \in [Pages -> [at : {"none", "asked", "read"}, result : Revs]]
      /\ missed' \in SUBSET Pages /\ fetch'[p].at = "asked"
      /\ \A q \in Pages \ {p} : fetch'[q] = fetch[q] /\ (q \in missed') = (q \in missed)
  BY <1>1, Asking
<1>4. inbox'[p] <= inbox[p]
  BY <1>1, <1>2, PageTyped
<1> QED
  BY <1>1, <1>2, <1>3, <1>4, FetchKeeps DEF TypeOK

LEMMA OpenKeeps ==
  ASSUME PagesInv, NEW p \in Pages, NEW stale \in BOOLEAN, Open(p, stale) PROVE PagesInv'
<1> DEFINE new == [open |-> TRUE, number |-> visit[p].number + 1]
<1>1. /\ visit' = [visit EXCEPT ![p] = new]
      /\ visit[p].number < MaxVisits
      /\ UNCHANGED <<rev, call, cache, banner, joined, inbox, seen>>
  BY DEF Open, roomVars
<1>2. TypeOK /\ PageFine(p) /\ Knows(p)
  BY DEF PagesInv
<1>3. visit[p].number \in 0 .. MaxVisits
  BY <1>2 DEF TypeOK
<1>4. new \in [open : BOOLEAN, number : 0 .. MaxVisits]
  BY <1>1, <1>3
<1>5. /\ visit' \in [Pages -> [open : BOOLEAN, number : 0 .. MaxVisits]]
      /\ visit'[p] = new /\ \A q \in Pages \ {p} : visit'[q] = visit[q]
  BY <1>1, <1>2, <1>4 DEF TypeOK
<1>6. visit'[p].open /\ visit[p].number < visit'[p].number
  BY <1>3, <1>5
<1>7. CASE fetch[p].at = "none" /\ (stale \/ cache[p] = 0)
  <2>1. fetch' = [fetch EXCEPT ![p] = Asked] /\ missed' = missed \ {p}
    BY <1>7 DEF Open
  <2>2. /\ fetch' \in [Pages -> [at : {"none", "asked", "read"}, result : Revs]]
        /\ missed' \in SUBSET Pages /\ fetch'[p].at = "asked"
        /\ \A q \in Pages \ {p} : fetch'[q] = fetch[q] /\ (q \in missed') = (q \in missed)
    BY <2>1, Asking
  <2>3. inbox'[p] <= inbox[p]
    BY <1>1, <1>2, PageTyped
  <2> QED
    BY <1>1, <1>2, <1>5, <1>6, <2>2, <2>3, FetchKeeps DEF TypeOK
<1>8. CASE ~(fetch[p].at = "none" /\ (stale \/ cache[p] = 0))
  <2>1. UNCHANGED <<fetch, missed>>
    BY <1>8 DEF Open
  <2>2. TypeOK'
    BY <1>1, <1>2, <1>5, <2>1 DEF TypeOK
  <2>3. OthersStay(p) /\ Advances(p)
    BY <1>1, <1>2, <1>3, <1>5, <1>6, <2>1, PageTyped DEF OthersStay, Advances
  <2>4. PageFine(p)' /\ Knows(p)'
    BY <1>1, <1>2, <1>6, <1>8, <2>1 DEF PageFine, Knows, Unannounced
  <2> QED
    BY <1>1, <2>2, <2>3, <2>4, PageKeeps
<1> QED
  BY <1>7, <1>8

LEMMA JoinKeeps ==
  ASSUME PagesInv, NEW p \in Pages, Join(p) PROVE PagesInv'
<1>1. /\ visit[p].open /\ joined' = joined \cup {p}
      /\ UNCHANGED <<rev, call, visit, cache, fetch, banner, inbox, seen, missed>>
  BY DEF Join, copyVars
<1>2. TypeOK /\ PageFine(p) /\ Knows(p)
  BY DEF PagesInv
<1>3. TypeOK' /\ OthersStay(p) /\ Advances(p)
  BY <1>1, <1>2, PageTyped DEF TypeOK, OthersStay, Advances
<1>4. PageFine(p)' /\ Knows(p)'
  BY <1>1, <1>2 DEF PageFine, Knows, Unannounced
<1> QED
  BY <1>1, <1>3, <1>4, PageKeeps

(* A page that leaves its room has missed what was on its way to it.       *)
LEMMA LeavingKeeps ==
  ASSUME PagesInv, NEW p \in Pages, Leave(p),
         visit' \in [Pages -> [open : BOOLEAN, number : 0 .. MaxVisits]],
         banner' \in [Pages -> BOOLEAN],
         \A q \in Pages \ {p} : visit'[q] = visit[q] /\ banner'[q] = banner[q],
         visit'[p].number = visit[p].number,
         (visit'[p] = visit[p] /\ banner'[p] = banner[p]) \/ ~visit'[p].open
  PROVE  PagesInv'
<1>1. /\ joined' = joined \ {p} /\ inbox' = [inbox EXCEPT ![p] = 0]
      /\ \/ inbox[p] > 0 /\ missed' = missed \cup {p}
         \/ ~(inbox[p] > 0) /\ missed' = missed
      /\ UNCHANGED <<rev, call, cache, fetch, seen>>
  BY DEF Leave
<1>2. TypeOK /\ PageFine(p) /\ Knows(p)
  BY DEF PagesInv
<1>3. /\ inbox'[p] = 0 /\ \A q \in Pages \ {p} : inbox'[q] = inbox[q]
      /\ inbox' \in [Pages -> 0 .. Cardinality(Calls)]
  BY <1>1, <1>2, FewCalls DEF TypeOK
<1>4. /\ missed' \in SUBSET Pages /\ missed \subseteq missed'
      /\ \A q \in Pages \ {p} : (q \in missed') = (q \in missed)
      /\ inbox[p] > 0 => p \in missed'
  BY <1>1, <1>2 DEF TypeOK
<1>5. TypeOK'
  BY <1>1, <1>2, <1>3, <1>4 DEF TypeOK
<1>6. OthersStay(p) /\ Advances(p)
  BY <1>1, <1>2, <1>3, <1>4, PageTyped DEF OthersStay, Advances
<1>7. PageFine(p)' /\ Knows(p)'
  BY <1>1, <1>2, <1>4 DEF PageFine, Knows, Unannounced
<1> QED
  BY <1>1, <1>5, <1>6, <1>7, PageKeeps

LEMMA DisconnectKeeps ==
  ASSUME PagesInv, NEW p \in Pages, Disconnect(p) PROVE PagesInv'
BY LeavingKeeps DEF Disconnect, PagesInv, TypeOK

LEMMA CloseKeeps ==
  ASSUME PagesInv, NEW p \in Pages, Close(p) PROVE PagesInv'
<1>1. /\ visit' = [visit EXCEPT ![p].open = FALSE]
      /\ banner' = [banner EXCEPT ![p] = FALSE] /\ Leave(p)
  BY DEF Close
<1>2. visit \in [Pages -> [open : BOOLEAN, number : 0 .. MaxVisits]]
      /\ banner \in [Pages -> BOOLEAN]
  BY DEF PagesInv, TypeOK
<1>3. visit[p] \in [open : BOOLEAN, number : 0 .. MaxVisits]
  BY <1>2
<1>4. /\ visit'[p] \in [open : BOOLEAN, number : 0 .. MaxVisits]
      /\ ~visit'[p].open /\ visit'[p].number = visit[p].number
      /\ \A q \in Pages \ {p} : visit'[q] = visit[q] /\ banner'[q] = banner[q]
  BY <1>1, <1>2, <1>3
<1>5. /\ visit' \in [Pages -> [open : BOOLEAN, number : 0 .. MaxVisits]]
      /\ banner' \in [Pages -> BOOLEAN]
  BY <1>1, <1>2, <1>4
<1> QED
  BY <1>1, <1>4, <1>5, LeavingKeeps

LEMMA ReceiveKeeps ==
  ASSUME PagesInv, NEW p \in Pages, Receive(p) PROVE PagesInv'
<1>1. /\ inbox[p] > 0 /\ inbox' = [inbox EXCEPT ![p] = inbox[p] - 1] /\ Invalidate(p)
      /\ UNCHANGED <<rev, call, visit, cache, banner, joined, seen>>
  BY DEF Receive
<1>2. TypeOK /\ inbox[p] \in 0 .. Cardinality(Calls)
  BY DEF PagesInv, TypeOK
<1>3. /\ inbox' \in [Pages -> 0 .. Cardinality(Calls)] /\ inbox'[p] <= inbox[p]
      /\ \A q \in Pages \ {p} : inbox'[q] = inbox[q]
  BY <1>1, <1>2, FewCalls DEF TypeOK
<1> QED
  BY <1>1, <1>2, <1>3, Invalidating, FetchKeeps DEF TypeOK

----------------------------------------------------------------------------
(* A step of one call.                                                     *)

(* The call gets to pc; what it asked for is kept, or erased as a whole.   *)
Moves(c, pc, result, told) ==
  /\ call' \in [Calls -> CallState]
  /\ \A d \in Calls \ {c} : call'[d] = call[d]
  /\ call[c].pc \in InFlight
  /\ call'[c].pc = pc /\ call'[c].result = result /\ call'[c].told = told
  /\ call'[c].kind = call[c].kind /\ call'[c].page = call[c].page
  /\ call'[c].visit \in {0, call[c].visit} /\ call'[c].base \in {0, call[c].base}
  /\ \/ call'[c].before = {} /\ pc \notin TurnedDown
     \/ /\ call'[c].visit = call[c].visit /\ call'[c].base = call[c].base
        /\ call'[c].before = call[c].before /\ call'[c].back = call[c].back

LEMMA GotoMoves ==
  ASSUME TypeOK, NEW c \in Calls, call[c].pc \in InFlight,
         NEW pc \in InFlight \cup Ends, Goto(c, pc)
  PROVE  Moves(c, pc, call[c].result, call[c].told)
<1> DEFINE new == [call[c] EXCEPT !.pc = pc]
<1>1. call[c] \in CallState /\ new \in CallState
  BY CallTyped DEF CallState, Ends
<1>2. call' = [call EXCEPT ![c] = new] /\ call \in [Calls -> CallState]
  BY DEF Goto, TypeOK
<1> QED
  BY <1>1, <1>2 DEF Moves, CallState

LEMMA EndMoves ==
  ASSUME TypeOK, NEW c \in Calls, call[c].pc \in InFlight,
         NEW pc \in {"ok", "failed"}, End(c, pc)
  PROVE  Moves(c, pc, call[c].result, call[c].told)
<1> DEFINE new == [call[c] EXCEPT !.pc = pc, !.visit = 0, !.base = 0, !.before = {},
                                  !.back = FALSE]
<1>0. 0 \in Revs /\ 0 \in 0 .. MaxVisits
  BY FewCalls DEF Revs
<1>1. call[c] \in CallState /\ new \in CallState
  <2>1. call[c] \in CallState
    BY CallTyped
  <2> QED
    BY <1>0, <2>1 DEF CallState
<1>2. call' = [call EXCEPT ![c] = new] /\ call \in [Calls -> CallState]
  BY DEF End, TypeOK
<1> QED
  BY <1>1, <1>2 DEF TurnedDown, Moves, CallState

(* A reason for a page to be refused other than its own finished save.     *)
Excused(c) ==
  \/ call[c].back
  \/ \E d \in Calls :
       /\ call[d].result > call[c].base
       /\ \/ call[d].page # call[c].page
          \/ d \notin call[c].before
          \/ call[d].pc = "failed"
          \/ call[d].kind = "restore"

LEMMA SelfConflict ==
  NoSelfConflict <=>
    \A c \in Calls :
      call[c].kind = "save" /\ call[c].pc \in TurnedDown => Excused(c)
BY DEF NoSelfConflict, Excused

(* What the calls remember of each other survives the step, because calls  *)
(* that have ended stay as they are.                                       *)
LEMMA MemoryKeeps ==
  ASSUME PagesInv, NEW c \in Calls, NEW pc, NEW result, NEW told,
         Moves(c, pc, result, told),
         \A p \in Pages : seen[p] <= seen'[p] /\ seen'[p] \in Nat,
         ShownOnce(c)',
         result = call[c].result \/ call[c].result = 0,
         pc = "refused" /\ call[c].kind = "save" => Excused(c),
         pc \in TurnedDown \ {"refused"} => call[c].pc \in TurnedDown
  PROVE  /\ \A d \in Calls : BeforeFine(d)' /\ ShownOnce(d)'
         /\ NoSelfConflict'
<1>1. ASSUME NEW d \in Calls PROVE BeforeFine(d)'
  <2> SUFFICES ASSUME NEW b \in call'[d].before
               PROVE  /\ call'[b].pc \in Ends
                      /\ call'[b].pc = "ok" /\ call'[b].kind = "save" =>
                           call'[b].result <= call'[d].base \/ call'[d].back
    BY DEF BeforeFine
  <2>1. /\ b \in call[d].before /\ call'[d].base = call[d].base
        /\ call'[d].back = call[d].back
    BY DEF Moves
  <2>2. b \in Calls /\ call[b].pc \in Ends
    BY <2>1, CallTyped DEF PagesInv, BeforeFine
  <2>3. call'[b] = call[b]
    BY <2>2 DEF Moves, Ends, InFlight
  <2> QED
    BY <2>1, <2>3 DEF PagesInv, BeforeFine
<1>2. ASSUME NEW d \in Calls PROVE ShownOnce(d)'
  <2>1. CASE d = c
    BY <2>1
  <2>2. CASE d # c
    <3>1. call'[d] = call[d] /\ ShownOnce(d) /\ call[d].result \in Nat
      BY <2>2, CallTyped DEF Moves, PagesInv
    <3>2. \A p \in Pages : seen[p] \in Nat
      BY PageTyped DEF PagesInv
    <3> QED
      BY <3>1, <3>2 DEF ShownOnce
  <2> QED
    BY <2>1, <2>2
<1>3. ASSUME NEW d \in Calls, call'[d].kind = "save",
             call'[d].pc \in TurnedDown
      PROVE  Excused(d)'
  <2>1. /\ call'[d].back = call[d].back /\ call'[d].base = call[d].base
        /\ call'[d].before = call[d].before /\ call'[d].page = call[d].page
        /\ call'[d].kind = call[d].kind
    BY <1>3 DEF Moves
  <2>2. Excused(d)
    <3>1. CASE d = c
      BY <1>3, <2>1, <3>1, SelfConflict DEF Moves, PagesInv
    <3>2. CASE d # c
      BY <1>3, <3>2, SelfConflict DEF Moves, PagesInv
    <3> QED
      BY <3>1, <3>2
  <2>3. CASE call[d].back
    BY <2>1, <2>3 DEF Excused
  <2>4. CASE ~call[d].back
    <3>1. PICK b \in Calls :
            /\ call[b].result > call[d].base
            /\ \/ call[b].page # call[d].page
               \/ b \notin call[d].before
               \/ call[b].pc = "failed"
               \/ call[b].kind = "restore"
      BY <2>2, <2>4 DEF Excused
    <3>2. call[b].result \in Nat /\ call[d].base \in Nat /\ call[b].pc = "failed" => b # c
      BY CallTyped DEF PagesInv, Moves, InFlight
    <3>3. call'[b].result = call[b].result
      BY <3>1, CallTyped DEF Moves, PagesInv
    <3>4. /\ call'[b].page = call[b].page /\ call'[b].kind = call[b].kind
          /\ call[b].pc = "failed" => call'[b].pc = "failed"
      BY DEF Moves, InFlight
    <3> QED
      BY <2>1, <3>1, <3>3, <3>4 DEF Excused
  <2> QED
    BY <2>3, <2>4
<1> QED
  BY <1>1, <1>2, <1>3, SelfConflict DEF NoSelfConflict, Excused

(* A banner is taken away only by a save that is accepted, and every       *)
(* refused call that is still on the screen raises one.                    *)
LEMMA BannerKeeps ==
  ASSUME PagesInv, NEW c \in Calls, NEW pc, NEW result, NEW told,
         Moves(c, pc, result, told), UNCHANGED visit,
         \A p \in Pages : banner[p] =>
           banner'[p] \/ (p = call[c].page /\ call[c].kind = "save" /\ pc = "ok"),
         pc = "conflict" /\ Mounted(c) => banner'[call[c].page]
  PROVE  RejectionTold'
<1> SUFFICES ASSUME NEW d \in Calls, call'[d].pc = "conflict", Mounted(d)'
             PROVE  \/ banner'[call'[d].page]
                    \/ \E e \in Calls :
                         /\ call'[e].page = call'[d].page /\ e \notin call'[d].before
                         /\ call'[e].kind = "save" /\ call'[e].pc = "ok"
  BY DEF RejectionTold, TurnedDown, Of
<1>1. /\ call'[d].page = call[d].page /\ call'[d].before = call[d].before
      /\ call'[d].visit = call[d].visit
  BY DEF TurnedDown, Moves
<1>2. Mounted(d)
  BY <1>1 DEF Mounted
<1>3. CASE d = c
  BY <1>1, <1>2, <1>3 DEF Moves
<1>4. CASE d # c
  <2>1. call[d].pc = "conflict" /\ call[d].page \in Pages
    BY <1>4 DEF TurnedDown, Moves, PagesInv, CallFine
  <2>2. CASE banner[call[d].page] /\ ~banner'[call[d].page]
    <3>1. call[c].page = call[d].page /\ call[c].kind = "save" /\ pc = "ok"
      BY <2>1, <2>2
    <3>2. c \notin call[d].before
      BY DEF PagesInv, BeforeFine, Moves, Ends, InFlight
    <3> QED
      BY <1>1, <3>1, <3>2 DEF Moves
  <2>3. CASE \E e \in Of(call[d].page) \ call[d].before :
               call[e].kind = "save" /\ call[e].pc = "ok"
    <3>1. PICK e \in Calls : /\ call[e].page = call[d].page /\ e \notin call[d].before
                             /\ call[e].kind = "save" /\ call[e].pc = "ok"
      BY <2>3 DEF Of
    <3>2. call'[e] = call[e]
      BY <3>1 DEF Moves, InFlight
    <3> QED
      BY <1>1, <3>1, <3>2
  <2> QED
    BY <1>1, <1>2, <2>1, <2>2, <2>3 DEF PagesInv, RejectionTold, TurnedDown
<1> QED
  BY <1>3, <1>4

(* The call itself, the counts and the pages are left to each action.      *)
LEMMA CallsKeep ==
  ASSUME PagesInv, NEW c \in Calls, NEW pc, NEW result, NEW told,
         Moves(c, pc, result, told), UNCHANGED visit, rev' \in {rev, rev + 1},
         \A p \in Pages : cache[p] > 0 => cache'[p] > 0,
         CallFine(c)'
  PROVE  \A d \in Calls : CallFine(d)'
<1> SUFFICES ASSUME NEW d \in Calls \ {c} PROVE CallFine(d)'
  OBVIOUS
<1>1. call'[d] = call[d] /\ CallFine(d)
  BY DEF Moves, PagesInv
<1>2. call[d].result \in Nat /\ call[d].base \in Nat /\ rev \in Nat
  BY CallTyped, PageTyped DEF PagesInv
<1>3. call[d].result <= rev' /\ call[d].base <= rev'
  BY <1>1, <1>2 DEF TurnedDown, CallFine
<1> QED
  BY <1>1, <1>3 DEF TurnedDown, CallFine

(* A step that makes and announces nothing, and shows nothing new.         *)
LEMMA QuietKeeps ==
  ASSUME PagesInv, NEW c \in Calls, NEW pc \in InFlight \cup Ends,
         Moves(c, pc, call[c].result, call[c].told),
         UNCHANGED <<rev, visit, cache, fetch, joined, inbox, seen, missed>>,
         banner' \in [Pages -> BOOLEAN],
         \A p \in Pages : banner[p] => banner'[p],
         CallFine(c)', ShownOnce(c)',
         pc = "refused" /\ call[c].kind = "save" => Excused(c),
         pc \in TurnedDown \ {"refused"} => call[c].pc \in TurnedDown,
         pc = "conflict" /\ Mounted(c) => banner'[call[c].page]
  PROVE  PagesInv'
<1>1. TypeOK'
  BY DEF PagesInv, TypeOK, Moves
<1>2. \A d \in Calls : call'[d].result = call[d].result /\ call'[d].told = call[d].told
  BY DEF Moves
<1>3. Counts' /\ LastMade'
  <2>1. Made' = Made /\ Told' = Told
    BY <1>2 DEF Made, Told
  <2> QED
    BY <1>2, <2>1 DEF PagesInv, Counts, LastMade
<1>4. \A p \in Pages : PageFine(p)' /\ Knows(p)'
  BY <1>2 DEF PagesInv, PageFine, Knows, Unannounced
<1>5. \A d \in Calls : CallFine(d)'
  BY CallsKeep
<1>6. \A p \in Pages : seen[p] <= seen'[p] /\ seen'[p] \in Nat
  BY PageTyped DEF PagesInv
<1>7. (\A d \in Calls : BeforeFine(d)' /\ ShownOnce(d)') /\ NoSelfConflict'
  BY <1>6, MemoryKeeps
<1>8. RejectionTold'
  BY BannerKeeps
<1> QED
  BY <1>1, <1>3, <1>4, <1>5, <1>7, <1>8 DEF PagesInv

LEMMA FailKeeps ==
  ASSUME PagesInv, NEW c \in Calls, Fail(c) PROVE PagesInv'
<1>1. /\ call[c].pc \in InFlight
      /\ UNCHANGED <<rev, visit, cache, fetch, joined, inbox, seen, missed, banner>>
      /\ TypeOK /\ CallFine(c)
  BY DEF Fail, copyVars, roomVars, PagesInv
<1>2. Moves(c, "failed", call[c].result, call[c].told)
  BY <1>1, EndMoves DEF Fail
<1>3. /\ call[c].visit \in Nat /\ rev \in Nat
      /\ call[c].page \in Pages => visit[call[c].page].number \in Nat
  BY <1>1, CallTyped, PageTyped
<1>4. CallFine(c)' /\ ShownOnce(c)'
  BY <1>1, <1>2, <1>3 DEF TurnedDown, Moves, CallFine, ShownOnce
<1>5. banner' \in [Pages -> BOOLEAN] /\ \A p \in Pages : banner[p] => banner'[p]
  BY <1>1 DEF TypeOK
<1> QED
  BY <1>1, <1>2, <1>4, <1>5, QuietKeeps DEF TurnedDown, Ends

(* The page learns of a refusal, or swallows it.                           *)
LEMMA RefusalKeeps ==
  ASSUME PagesInv, NEW c \in Calls, Refused(c) \/ Swallow(c) PROVE PagesInv'
<1>1. PICK pc \in {"asking", "swallowed"} :
        /\ call[c].pc \in {"refused", "asking"} /\ Goto(c, pc)
        /\ UNCHANGED <<rev, visit, cache, fetch, joined, inbox, seen, missed, banner>>
        /\ TypeOK /\ CallFine(c)
  BY DEF Refused, Swallow, copyVars, roomVars, PagesInv
<1>2. Moves(c, pc, call[c].result, call[c].told)
  BY <1>1, GotoMoves DEF InFlight, Ends
<1>3. call[c].page \in Pages
  BY <1>1 DEF CallFine, TurnedDown
<1>4. CallFine(c)' /\ ShownOnce(c)'
  BY <1>1, <1>2 DEF Moves, TurnedDown, CallFine, ShownOnce
<1>5. banner' \in [Pages -> BOOLEAN] /\ \A p \in Pages : banner[p] => banner'[p]
  BY <1>1 DEF TypeOK
<1>6. pc \in InFlight \cup Ends /\ pc # "refused" /\ pc # "conflict"
  BY <1>1 DEF InFlight, Ends
<1>7. call[c].pc \in TurnedDown
  BY <1>1 DEF TurnedDown
<1> QED
  BY <1>1, <1>2, <1>4, <1>5, <1>6, <1>7, QuietKeeps

LEMMA SurfaceKeeps ==
  ASSUME PagesInv, NEW c \in Calls, Surface(c) PROVE PagesInv'
<1>1. /\ call[c].pc = "asking" /\ Goto(c, "conflict")
      /\ UNCHANGED <<rev, visit, cache, fetch, joined, inbox, seen, missed>>
      /\ TypeOK /\ CallFine(c)
  BY DEF Surface, copyVars, roomVars, PagesInv
<1>2. Moves(c, "conflict", call[c].result, call[c].told)
  BY <1>1, GotoMoves DEF InFlight, Ends
<1>3. call[c].page \in Pages
  BY <1>1 DEF TurnedDown, CallFine
<1>4. CallFine(c)' /\ ShownOnce(c)'
  BY <1>1, <1>2 DEF TurnedDown, Moves, CallFine, ShownOnce
<1>5. /\ banner' \in [Pages -> BOOLEAN]
      /\ \A p \in Pages : banner[p] => banner'[p]
      /\ Mounted(c) => banner'[call[c].page]
  <2>1. CASE Mounted(c)
    <3>1. banner' = [banner EXCEPT ![call[c].page] = TRUE]
      BY <2>1 DEF Surface, Raised
    <3> QED
      BY <1>1, <1>3, <3>1 DEF TypeOK
  <2>2. CASE ~Mounted(c)
    <3>1. banner' = banner
      BY <2>2 DEF Surface
    <3> QED
      BY <1>1, <2>2, <3>1 DEF TypeOK
  <2> QED
    BY <2>1, <2>2
<1> QED
  BY <1>1, <1>2, <1>4, <1>5, QuietKeeps DEF TurnedDown, Ends

(* The heart of NoSelfConflict: the save that moved the document on under  *)
(* a page that waited for it had been shown there.                         *)
LEMMA RefusalExcused ==
  ASSUME PagesInv, NEW c \in Calls, call[c].pc = "sent", call[c].base # rev
  PROVE  Excused(c)
<1>1. /\ TypeOK /\ CallFine(c) /\ BeforeFine(c) /\ call[c].page \in Pages
      /\ call[c].base \in Nat /\ rev \in Nat
  BY CallTyped, PageTyped DEF PagesInv, CallFine
<1>2. call[c].base < rev
  BY <1>1 DEF TurnedDown, CallFine
<1> SUFFICES ASSUME ~call[c].back PROVE Excused(c)
  BY DEF Excused
<1>3. PICK d \in Calls : call[d].result = rev
  BY <1>1, <1>2 DEF PagesInv, LastMade, CallFine
<1>4. CASE call[d].page # call[c].page \/ d \notin call[c].before
  BY <1>2, <1>3, <1>4 DEF Excused
<1>5. CASE call[d].page = call[c].page /\ d \in call[c].before
  <2>1. call[d].pc \in Ends /\ call[d].kind \in {"save", "restore"} /\ CallFine(d)
    BY <1>1, <1>5 DEF BeforeFine, PagesInv, CallFine
  <2>2. call[d].pc \notin TurnedDown
    BY <1>1, <1>2, <1>3, <2>1 DEF TurnedDown, CallFine
  <2>3. ~(call[d].pc = "ok" /\ call[d].kind = "save")
    BY <1>1, <1>2, <1>3, <1>5 DEF BeforeFine
  <2> QED
    BY <1>2, <1>3, <2>1, <2>2, <2>3 DEF TurnedDown, Excused, Ends
<1> QED
  BY <1>4, <1>5

LEMMA CheckKeeps ==
  ASSUME PagesInv, NEW c \in Calls, Check(c) PROVE PagesInv'
<1>1. /\ call[c].pc = "sent"
      /\ UNCHANGED <<rev, visit, cache, fetch, joined, inbox, seen, missed, banner>>
      /\ TypeOK /\ CallFine(c)
  BY DEF Check, copyVars, roomVars, PagesInv
<1>2. banner' \in [Pages -> BOOLEAN] /\ \A p \in Pages : banner[p] => banner'[p]
  BY <1>1 DEF TypeOK
<1>3. CASE call[c].kind = "restore" \/ call[c].base = rev
  <2> DEFINE new == [call[c] EXCEPT !.pc = "checked", !.base = 0, !.before = {},
                                    !.back = FALSE]
  <2>1. 0 \in Revs
    BY FewCalls DEF Revs
  <2>2. call[c] \in CallState /\ new \in CallState
    <3>1. call[c] \in CallState
      BY <1>1, CallTyped
    <3> QED
      BY <2>1, <3>1 DEF CallState, InFlight
  <2>3. call' = [call EXCEPT ![c] = new] /\ call \in [Calls -> CallState]
    BY <1>1, <1>3 DEF Check, TypeOK
  <2>4. Moves(c, "checked", call[c].result, call[c].told)
    BY <1>1, <2>2, <2>3 DEF TurnedDown, Moves, CallState, InFlight
  <2>5. /\ call[c].visit \in Nat /\ rev \in Nat
        /\ call[c].page \in Pages => visit[call[c].page].number \in Nat
    BY <1>1, CallTyped, PageTyped
  <2>6. CallFine(c)' /\ ShownOnce(c)'
    BY <1>1, <2>4, <2>5 DEF Moves, CallFine, ShownOnce
  <2> QED
    BY <1>1, <1>2, <2>4, <2>6, QuietKeeps DEF TurnedDown, InFlight
<1>4. CASE ~(call[c].kind = "restore" \/ call[c].base = rev)
  <2>1. Moves(c, "refused", call[c].result, call[c].told)
    BY <1>1, <1>4, GotoMoves DEF Check, InFlight
  <2>2. CallFine(c)' /\ ShownOnce(c)'
    BY <1>1, <2>1 DEF TurnedDown, Moves, CallFine, ShownOnce
  <2>3. Excused(c)
    BY <1>1, <1>4, RefusalExcused
  <2> QED
    BY <1>1, <1>2, <2>1, <2>2, <2>3, QuietKeeps DEF InFlight
<1> QED
  BY <1>3, <1>4

(* A call that is sent: nobody remembers it yet, and what it remembers     *)
(* makes sense.                                                            *)
LEMMA SendingKeeps ==
  ASSUME PagesInv, NEW c \in Calls, NEW new \in CallState,
         call[c].pc = "idle", call' = [call EXCEPT ![c] = new],
         new.pc \in {"sent", "checked"}, new.result = 0, ~new.told,
         UNCHANGED <<rev, visit, cache, fetch, joined, inbox, seen, missed, banner>>,
         CallFine(c)',
         \A b \in new.before :
           /\ call[b].pc \in Ends
           /\ call[b].pc = "ok" /\ call[b].kind = "save" =>
                call[b].result <= new.base \/ new.back
  PROVE  PagesInv'
<1>1. TypeOK /\ CallFine(c) /\ ~call[c].told /\ call[c].result = 0
  BY DEF PagesInv, CallFine
<1>2. /\ call' \in [Calls -> CallState] /\ call'[c] = new
      /\ \A d \in Calls \ {c} : call'[d] = call[d]
  BY <1>1 DEF TypeOK
<1>3. TypeOK'
  BY <1>1, <1>2 DEF TypeOK
<1>4. \A d \in Calls : /\ call'[d].result = call[d].result
                       /\ call'[d].told <=> call[d].told
  BY <1>1, <1>2
<1>5. Counts' /\ LastMade'
  <2>1. Made' = Made /\ Told' = Told
    BY <1>4 DEF Made, Told
  <2> QED
    BY <1>4, <2>1 DEF PagesInv, Counts, LastMade
<1>6. \A p \in Pages : PageFine(p)' /\ Knows(p)'
  BY <1>4 DEF PagesInv, PageFine, Knows, Unannounced
<1>7. ASSUME NEW d \in Calls PROVE CallFine(d)' /\ BeforeFine(d)' /\ ShownOnce(d)'
  <2>1. ASSUME NEW b \in call'[d].before PROVE b \in Calls /\ call'[b] = call[b]
    <3>1. b \in Calls /\ call[b].pc \in Ends
      <4>1. CASE d = c
        BY <1>2, <4>1 DEF CallState
      <4>2. CASE d # c
        BY <1>1, <1>2, <2>1, <4>2, CallTyped DEF PagesInv, BeforeFine
      <4> QED
        BY <4>1, <4>2
    <3> QED
      BY <1>2, <3>1 DEF Ends
  <2>2. CASE d = c
    BY <1>2, <2>1, <2>2 DEF BeforeFine, ShownOnce
  <2>3. CASE d # c
    BY <1>2, <2>1, <2>3 DEF PagesInv, CallFine, BeforeFine, ShownOnce
  <2> QED
    BY <2>2, <2>3
<1>8. RejectionTold'
  <2> SUFFICES ASSUME NEW d \in Calls, call'[d].pc = "conflict", Mounted(d)'
               PROVE  \/ banner'[call'[d].page]
                      \/ \E e \in Calls :
                           /\ call'[e].page = call'[d].page /\ e \notin call'[d].before
                           /\ call'[e].kind = "save" /\ call'[e].pc = "ok"
    BY DEF RejectionTold, TurnedDown, Of
  <2>1. call'[d] = call[d] /\ Mounted(d)
    BY <1>2 DEF Mounted
  <2>2. CASE banner[call[d].page]
    BY <2>1, <2>2
  <2>3. CASE \E e \in Of(call[d].page) \ call[d].before :
               call[e].kind = "save" /\ call[e].pc = "ok"
    <3>1. PICK e \in Calls : /\ call[e].page = call[d].page /\ e \notin call[d].before
                             /\ call[e].kind = "save" /\ call[e].pc = "ok"
      BY <2>3 DEF Of
    <3>2. call'[e] = call[e]
      BY <1>2, <3>1
    <3> QED
      BY <2>1, <3>1, <3>2
  <2> QED
    BY <2>1, <2>2, <2>3 DEF PagesInv, RejectionTold, TurnedDown
<1>9. NoSelfConflict'
  <2> SUFFICES ASSUME NEW d \in Calls, call'[d].kind = "save",
                      call'[d].pc \in TurnedDown
               PROVE  Excused(d)'
    BY SelfConflict DEF NoSelfConflict, Excused
  <2>1. call'[d] = call[d] /\ Excused(d)
    BY <1>2, SelfConflict DEF TurnedDown, PagesInv
  <2>2. CASE call[d].back
    BY <2>1, <2>2 DEF Excused
  <2>3. CASE ~call[d].back
    <3>1. PICK b \in Calls :
            /\ call[b].result > call[d].base
            /\ \/ call[b].page # call[d].page
               \/ b \notin call[d].before
               \/ call[b].pc = "failed"
               \/ call[b].kind = "restore"
      BY <2>1, <2>3 DEF Excused
    <3>2. b # c
      BY <1>1, <3>1, CallTyped
    <3> QED
      BY <1>2, <2>1, <3>1, <3>2 DEF Excused
  <2> QED
    BY <2>2, <2>3
<1> QED
  BY <1>3, <1>5, <1>6, <1>7, <1>8, <1>9 DEF PagesInv

LEMMA SendElsewhereKeeps ==
  ASSUME PagesInv, NEW c \in Calls, SendElsewhere(c) PROVE PagesInv'
<1> DEFINE new == [Unsent EXCEPT !.pc = "checked", !.page = Elsewhere]
<1>1. /\ call[c].pc = "idle" /\ call' = [call EXCEPT ![c] = new]
      /\ UNCHANGED <<rev, visit, cache, fetch, joined, inbox, seen, missed, banner>>
      /\ call \in [Calls -> CallState] /\ rev \in Nat
  BY PageTyped DEF SendElsewhere, copyVars, roomVars, PagesInv, TypeOK
<1>2. 0 \in Revs /\ 0 \in 0 .. MaxVisits
  BY FewCalls DEF Revs
<1>3. new \in CallState
  BY <1>2 DEF CallState, Unsent, InFlight
<1>4. /\ new.pc = "checked" /\ new.result = 0 /\ ~new.told /\ new.before = {}
      /\ new.page \notin Pages /\ new.page # "none" /\ new.base = 0
  BY DEF Unsent, Elsewhere
<1> HIDE DEF new
<1>5. call'[c] = new
  BY <1>1
<1>6. CallFine(c)'
  BY <1>1, <1>4, <1>5 DEF TurnedDown, CallFine
<1> QED
  BY <1>1, <1>3, <1>4, <1>6, SendingKeeps

LEMMA SendKeeps ==
  ASSUME PagesInv, NEW c \in Calls, NEW p \in Pages, NEW kind \in {"save", "restore"},
         Send(c, p, kind)
  PROVE  PagesInv'
<1> DEFINE back == cache[p] < seen[p]
           new == [Unsent EXCEPT !.pc = "sent", !.kind = kind, !.page = p,
                     !.visit = visit[p].number, !.base = cache[p],
                     !.before = Ended(p), !.back = back]
<1>1. /\ call[c].pc = "idle" /\ cache[p] # 0 /\ call' = [call EXCEPT ![c] = new]
      /\ UNCHANGED <<rev, visit, cache, fetch, joined, inbox, seen, missed, banner>>
      /\ TypeOK /\ PageFine(p)
  BY DEF Send, copyVars, roomVars, PagesInv
<1>2. /\ cache[p] \in Revs /\ visit[p].number \in 0 .. MaxVisits
      /\ Ended(p) \in SUBSET Calls /\ back \in BOOLEAN
      /\ cache[p] \in Nat /\ seen[p] \in Nat /\ rev \in Nat
  BY <1>1, PageTyped DEF TypeOK, Ended, Of
<1> HIDE DEF back
<1>3. new \in CallState
  <2>1. 0 \in Revs
    BY FewCalls DEF Revs
  <2> QED
    BY <1>2, <2>1 DEF CallState, Unsent, InFlight
<1>4. /\ new.pc = "sent" /\ new.kind = kind /\ new.page = p /\ new.result = 0
      /\ ~new.told /\ new.visit = visit[p].number /\ new.base = cache[p]
      /\ new.before = Ended(p) /\ new.back = back
  BY DEF Unsent
<1>8. cache[p] < seen[p] => new.back
  <2>1. cache[p] < seen[p] => back = TRUE
    BY <1>2 DEF back
  <2> QED
    BY <1>4, <2>1
<1> HIDE DEF new
<1>5. call'[c] = new
  BY <1>1 DEF TypeOK
<1>6. CallFine(c)'
  BY <1>1, <1>2, <1>4, <1>5 DEF TurnedDown, CallFine, PageFine
<1>7. ASSUME NEW b \in new.before
      PROVE  /\ call[b].pc \in Ends
             /\ call[b].pc = "ok" /\ call[b].kind = "save" =>
                  call[b].result <= new.base \/ new.back
  <2>1. b \in Calls /\ call[b].page = p /\ call[b].pc \notin InFlight
    BY <1>4 DEF Ended, Of
  <2>2. call[b].pc \in Ends
    BY <1>1, <2>1, CallTyped DEF PagesInv, CallFine
  <2>3. call[b].pc = "ok" /\ call[b].kind = "save" => call[b].result <= seen[p]
    BY <2>1 DEF PagesInv, ShownOnce
  <2>4. call[b].result \in Nat
    BY <1>1, <2>1, CallTyped
  <2> QED
    BY <1>2, <1>4, <1>8, <2>2, <2>3, <2>4
<1> QED
  BY <1>1, <1>3, <1>4, <1>6, <1>7, SendingKeeps

----------------------------------------------------------------------------
(* The steps that change the document or tell of it.                       *)

LEMMA CommitKeeps ==
  ASSUME PagesInv, NEW c \in Calls, Commit(c) PROVE PagesInv'
<1> DEFINE new == [call[c] EXCEPT !.pc = "committed", !.result = rev + 1]
<1>1. /\ call[c].pc = "checked" /\ rev' = rev + 1 /\ call' = [call EXCEPT ![c] = new]
      /\ UNCHANGED <<visit, cache, fetch, joined, inbox, seen, missed, banner>>
      /\ TypeOK /\ CallFine(c) /\ rev \in Nat
  BY PageTyped DEF Commit, copyVars, roomVars, PagesInv
<1>2. call[c].result = 0 /\ ~call[c].told
  BY <1>1 DEF TurnedDown, CallFine
<1>3. rev + 1 \in Revs
  <2>1. Made \in SUBSET Calls /\ Made \cup {c} \in SUBSET Calls /\ c \notin Made
    BY <1>2 DEF Made
  <2>2. Cardinality(Made) + 1 \in 0 .. Cardinality(Calls)
    BY <2>1, FewCalls
  <2> QED
    BY <2>2, FewCalls DEF PagesInv, Counts, Revs
<1>4. call[c] \in CallState /\ new \in CallState
  <2>1. call[c] \in CallState
    BY <1>1, CallTyped
  <2> QED
    BY <1>3, <2>1 DEF CallState, InFlight
<1>5. Moves(c, "committed", rev + 1, call[c].told)
  BY <1>1, <1>4 DEF Moves, TypeOK, CallState, InFlight
<1>6. /\ call'[c].result = rev' /\ ~call'[c].told
      /\ \A d \in Calls \ {c} : call'[d] = call[d]
  BY <1>1, <1>2, <1>5 DEF Moves
<1>7. TypeOK'
  BY <1>1, <1>3, <1>5 DEF TypeOK, Moves
<1>8. Counts' /\ LastMade'
  <2>1. Made' = Made \cup {c} /\ c \notin Made
    BY <1>1, <1>2, <1>6 DEF Made
  <2>2. Cardinality(Made') = Cardinality(Made) + 1
    BY <2>1, FewCalls DEF Made
  <2>3. Told' = Told
    BY <1>2, <1>6 DEF Told
  <2> QED
    BY <1>1, <1>6, <2>2, <2>3 DEF PagesInv, Counts, LastMade
<1>9. Unannounced'
  BY <1>6 DEF Unannounced
<1>10. \A p \in Pages : PageFine(p)' /\ Knows(p)'
  BY <1>1, <1>9, PageTyped DEF PagesInv, PageFine, Knows
<1>11. CallFine(c)' /\ ShownOnce(c)'
  <2>1. /\ call[c].visit \in Nat /\ call[c].base \in Nat
        /\ call[c].page \in Pages => visit[call[c].page].number \in Nat
    BY <1>1, CallTyped, PageTyped
  <2> QED
    BY <1>1, <1>5, <2>1 DEF TurnedDown, Moves, CallFine, ShownOnce
<1>12. \A d \in Calls : CallFine(d)'
  BY <1>1, <1>5, <1>11, CallsKeep
<1>13. \A p \in Pages : seen[p] <= seen'[p] /\ seen'[p] \in Nat
  BY <1>1, PageTyped
<1>14. (\A d \in Calls : BeforeFine(d)' /\ ShownOnce(d)') /\ NoSelfConflict'
  BY <1>2, <1>5, <1>11, <1>13, MemoryKeeps DEF TurnedDown
<1>15. RejectionTold'
  BY <1>1, <1>5, BannerKeeps
<1> QED
  BY <1>7, <1>8, <1>10, <1>12, <1>14, <1>15 DEF PagesInv

(* Every page that knows of the document hears of the commit, asks for it  *)
(* anyway, or has missed it.                                               *)
LEMMA PublishKeeps ==
  ASSUME PagesInv, NEW c \in Calls, Publish(c) PROVE PagesInv'
<1> DEFINE pc == IF call[c].page \in Pages THEN "answered" ELSE "ok"
           new == [call[c] EXCEPT !.told = TRUE, !.pc = pc]
<1>1. /\ call[c].pc = "committed" /\ call' = [call EXCEPT ![c] = new]
      /\ inbox' = Fanned
      /\ missed' = missed \cup {p \in Pages \ joined : cache[p] # 0 \/ fetch[p].at = "read"}
      /\ UNCHANGED <<rev, visit, cache, fetch, joined, seen, banner>>
      /\ TypeOK /\ CallFine(c)
  BY DEF Publish, PagesInv
<1>2. ~call[c].told /\ call[c].result > 0
  BY <1>1 DEF TurnedDown, CallFine
<1>3. call[c] \in CallState /\ new \in CallState
  <2>1. call[c] \in CallState
    BY <1>1, CallTyped
  <2> QED
    BY <2>1 DEF CallState, InFlight
<1>4. Moves(c, pc, call[c].result, TRUE)
  BY <1>1, <1>3 DEF Moves, TypeOK, CallState, InFlight
<1>5. Told' = Told \cup {c} /\ c \notin Told /\ Told \in SUBSET Calls
      /\ Made' = Made
  BY <1>2, <1>4 DEF Told, Made, Moves
<1>6. /\ Cardinality(Told') = Cardinality(Told) + 1
      /\ Cardinality(Told') \in 0 .. Cardinality(Calls)
      /\ Cardinality(Told) \in Nat
  BY <1>5, FewCalls
<1>7. /\ \A p \in Pages : inbox'[p] = IF p \in joined THEN inbox[p] + 1 ELSE inbox[p]
      /\ \A p \in Pages : inbox[p] \in Nat /\ inbox[p] <= Cardinality(Told)
      /\ DOMAIN inbox' = Pages /\ inbox' = [p \in Pages |-> inbox'[p]]
  BY <1>1, PageTyped DEF Fanned, PagesInv, Counts
<1>8. \A p \in Pages : inbox'[p] \in 0 .. Cardinality(Calls) /\ inbox'[p] <= Cardinality(Told')
  BY <1>6, <1>7, FewCalls
<1>9. TypeOK'
  <2>1. inbox' \in [Pages -> 0 .. Cardinality(Calls)]
    BY <1>7, <1>8
  <2> QED
    BY <1>1, <1>4, <2>1 DEF TypeOK, Moves
<1>10. Counts' /\ LastMade'
  <2>1. \A d \in Calls : call'[d].result = call[d].result
    BY <1>4 DEF Moves
  <2> QED
    BY <1>1, <1>5, <1>8, <2>1 DEF PagesInv, Counts, LastMade
<1>11. \A p \in Pages : PageFine(p)'
  BY <1>1 DEF PagesInv, PageFine
<1>12. ASSUME NEW p \in Pages PROVE Knows(p)'
  <2>1. CASE p \in joined
    BY <1>7, <2>1 DEF Knows
  <2>2. CASE p \notin joined
    <3>1. CASE cache[p] # 0 \/ fetch[p].at = "read"
      BY <1>1, <2>2, <3>1 DEF Knows
    <3>2. CASE ~(cache[p] # 0 \/ fetch[p].at = "read")
      BY <1>1, <3>2, PageTyped DEF Knows
    <3> QED
      BY <3>1, <3>2
  <2> QED
    BY <2>1, <2>2
<1>13. CallFine(c)' /\ ShownOnce(c)'
  <2>1. /\ call[c].visit \in Nat /\ call[c].base \in Nat /\ rev \in Nat
        /\ call[c].page \in Pages => visit[call[c].page].number \in Nat
    BY <1>1, CallTyped, PageTyped
  <2> QED
    BY <1>1, <1>4, <2>1 DEF TurnedDown, Moves, CallFine, ShownOnce
<1>14. \A d \in Calls : CallFine(d)'
  BY <1>1, <1>4, <1>13, CallsKeep
<1>15. \A p \in Pages : seen[p] <= seen'[p] /\ seen'[p] \in Nat
  BY <1>1, PageTyped
<1>16. (\A d \in Calls : BeforeFine(d)' /\ ShownOnce(d)') /\ NoSelfConflict'
  BY <1>4, <1>13, <1>15, MemoryKeeps DEF TurnedDown
<1>17. RejectionTold'
  BY <1>1, <1>4, BannerKeeps
<1> QED
  BY <1>9, <1>10, <1>11, <1>12, <1>14, <1>16, <1>17 DEF PagesInv

LEMMA AcceptKeeps ==
  ASSUME PagesInv, NEW c \in Calls, Accept(c) PROVE PagesInv'
<1> DEFINE p == call[c].page
           copy == call[c].result
<1>1. /\ call[c].pc = "answered" /\ call[c].kind = "save" /\ End(c, "ok") /\ Show(p, copy)
      /\ UNCHANGED <<rev, visit, fetch, joined, inbox, missed>>
      /\ TypeOK /\ CallFine(c)
  BY DEF Accept, Answer, roomVars, PagesInv
<1>2. /\ p \in Pages /\ cache[p] > 0 /\ copy \in 1 .. rev
      /\ PageFine(p) /\ rev \in Nat
  BY <1>1, CallTyped, PageTyped DEF PagesInv, CallFine
<1>3. Moves(c, "ok", call[c].result, call[c].told)
  BY <1>1, EndMoves DEF InFlight
<1>4. /\ cache' \in [Pages -> Revs] /\ seen' \in [Pages -> Revs]
      /\ \A q \in Pages \ {p} : cache'[q] = cache[q] /\ seen'[q] = seen[q]
      /\ cache'[p] = copy
      /\ copy <= seen'[p] /\ seen[p] <= seen'[p] /\ seen'[p] <= rev
  BY <1>1, <1>2, Showing
<1>5. /\ banner' \in [Pages -> BOOLEAN]
      /\ \A q \in Pages \ {p} : banner'[q] = banner[q]
  <2>1. CASE Mounted(c)
    <3>1. banner' = [banner EXCEPT ![p] = FALSE]
      BY <2>1 DEF Accept
    <3> QED
      BY <1>1, <1>2, <3>1 DEF TypeOK
  <2>2. CASE ~Mounted(c)
    <3>1. banner' = banner
      BY <2>2 DEF Accept
    <3> QED
      BY <1>1, <3>1 DEF TypeOK
  <2> QED
    BY <2>1, <2>2
<1>6. TypeOK'
  BY <1>1, <1>3, <1>4, <1>5 DEF TypeOK, Moves
<1>7. \A d \in Calls : call'[d].result = call[d].result /\ call'[d].told = call[d].told
  BY <1>3 DEF Moves
<1>8. Counts' /\ LastMade'
  <2>1. Made' = Made /\ Told' = Told
    BY <1>7 DEF Made, Told
  <2> QED
    BY <1>1, <1>7, <2>1 DEF PagesInv, Counts, LastMade
<1>9. \A q \in Pages : /\ seen[q] <= seen'[q] /\ seen'[q] \in Nat /\ seen[q] \in Nat
                       /\ cache[q] > 0 => cache'[q] > 0
                       /\ cache[q] \in Nat /\ cache'[q] \in Nat
  BY <1>1, <1>2, <1>4, PageTyped, FewCalls DEF Revs
<1>10. ASSUME NEW q \in Pages PROVE PageFine(q)' /\ Knows(q)'
  <2>1. PageFine(q) /\ Knows(q)
    BY DEF PagesInv
  <2>2. CASE q = p
    <3>1. PageFine(q)'
      BY <1>1, <1>2, <1>4, <1>9, <2>1, <2>2 DEF PageFine
    <3>2. seen[q] = rev => seen'[q] = rev'
      BY <1>1, <1>2, <1>4, <1>9, <2>2
    <3>3. Knows(q)'
      BY <1>1, <1>2, <1>7, <2>1, <2>2, <3>2 DEF Knows, Unannounced
    <3> QED
      BY <3>1, <3>3
  <2>3. CASE q # p
    <3>1. cache'[q] = cache[q] /\ seen'[q] = seen[q]
      BY <1>4, <2>3
    <3> QED
      BY <1>1, <1>7, <2>1, <3>1 DEF PageFine, Knows, Unannounced
  <2> QED
    BY <2>2, <2>3
<1>11. CallFine(c)' /\ ShownOnce(c)'
  <2>1. visit[p].number \in Nat
    BY <1>1, <1>2, PageTyped
  <2> QED
    BY <1>1, <1>2, <1>3, <1>4, <1>9, <2>1 DEF TurnedDown, Moves, CallFine, ShownOnce
<1>12. \A d \in Calls : CallFine(d)'
  BY <1>1, <1>3, <1>9, <1>11, CallsKeep
<1>13. (\A d \in Calls : BeforeFine(d)' /\ ShownOnce(d)') /\ NoSelfConflict'
  BY <1>3, <1>9, <1>11, MemoryKeeps DEF TurnedDown
<1>14. RejectionTold'
  BY <1>1, <1>3, <1>5, BannerKeeps
<1> QED
  BY <1>6, <1>8, <1>10, <1>12, <1>13, <1>14 DEF PagesInv

(* As the call ends and the page asks again: the one after the other.      *)
LEMMA RestoredKeeps ==
  ASSUME PagesInv, NEW c \in Calls, Restored(c) PROVE PagesInv'
<1> DEFINE p == call[c].page
<1>1. /\ call[c].pc = "answered" /\ call[c].kind = "restore" /\ End(c, "ok")
      /\ UNCHANGED <<rev, visit, cache, joined, inbox, banner, seen>>
      /\ Invalidate(p) \/ UNCHANGED <<fetch, missed>>
      /\ TypeOK /\ CallFine(c)
  BY DEF Restored, roomVars, PagesInv
<1>2. p \in Pages /\ cache[p] > 0
  BY <1>1 DEF TurnedDown, CallFine
<1>3. Moves(c, "ok", call[c].result, call[c].told)
  BY <1>1, EndMoves DEF InFlight
<1>4. /\ fetch' \in [Pages -> [at : {"none", "asked", "read"}, result : Revs]]
      /\ missed' \in SUBSET Pages
      /\ \A q \in Pages \ {p} : fetch'[q] = fetch[q] /\ (q \in missed') = (q \in missed)
      /\ \/ fetch'[p] = fetch[p] /\ (p \in missed') = (p \in missed)
         \/ /\ fetch'[p].at = "asked" \/ p \in missed'
            /\ fetch'[p].at # "none"
            /\ fetch'[p].at = "read" => fetch'[p] = fetch[p]
  <2>1. CASE Invalidate(p)
    BY <1>2, <2>1, Invalidating
  <2>2. CASE UNCHANGED <<fetch, missed>>
    BY <1>1, <2>2 DEF TypeOK
  <2> QED
    BY <1>1, <2>1, <2>2
<1>5. TypeOK'
  BY <1>1, <1>3, <1>4 DEF TypeOK, Moves
<1>6. \A d \in Calls : call'[d].result = call[d].result /\ call'[d].told = call[d].told
  BY <1>3 DEF Moves
<1>7. Counts' /\ LastMade'
  <2>1. Made' = Made /\ Told' = Told
    BY <1>6 DEF Made, Told
  <2> QED
    BY <1>1, <1>6, <2>1 DEF PagesInv, Counts, LastMade
<1>8. ASSUME NEW q \in Pages PROVE PageFine(q)' /\ Knows(q)'
  <2>1. PageFine(q) /\ Knows(q)
    BY DEF PagesInv
  <2>2. CASE fetch'[q] = fetch[q] /\ (q \in missed') = (q \in missed)
    BY <1>1, <1>6, <2>1, <2>2 DEF PageFine, Knows, Unannounced
  <2>3. CASE q = p /\ (fetch'[p].at = "asked" \/ p \in missed')
    BY <1>1, <1>2, <1>4, <1>6, <2>1, <2>3 DEF PageFine, Knows, Unannounced
  <2> QED
    BY <1>4, <2>2, <2>3
<1>9. CallFine(c)' /\ ShownOnce(c)'
  <2>1. visit[p].number \in Nat /\ rev \in Nat
    BY <1>1, <1>2, PageTyped
  <2> QED
    BY <1>1, <1>2, <1>3, <2>1 DEF TurnedDown, Moves, CallFine, ShownOnce
<1>10. \A d \in Calls : CallFine(d)'
  BY <1>1, <1>3, <1>9, CallsKeep
<1>11. \A q \in Pages : seen[q] <= seen'[q] /\ seen'[q] \in Nat
  BY <1>1, PageTyped
<1>12. (\A d \in Calls : BeforeFine(d)' /\ ShownOnce(d)') /\ NoSelfConflict'
  BY <1>3, <1>9, <1>11, MemoryKeeps DEF TurnedDown
<1>13. RejectionTold'
  BY <1>1, <1>3, BannerKeeps
<1> QED
  BY <1>5, <1>7, <1>8, <1>10, <1>12, <1>13 DEF PagesInv

----------------------------------------------------------------------------

LEMMA NextPages == PagesInv /\ [Next]_vars => PagesInv'
<1> SUFFICES ASSUME PagesInv, [Next]_vars PROVE PagesInv'
  OBVIOUS
<1>1. ASSUME NEW p \in Pages,
             \/ ReadDocument(p) \/ ShowDocument(p) \/ FailFetch(p) \/ Refocus(p)
             \/ \E stale \in BOOLEAN : Open(p, stale)
             \/ Join(p) \/ Disconnect(p) \/ Close(p) \/ Receive(p)
      PROVE  PagesInv'
  BY <1>1, ReadDocumentKeeps, ShowDocumentKeeps, FailFetchKeeps, RefocusKeeps,
     OpenKeeps, JoinKeeps, DisconnectKeeps, CloseKeeps, ReceiveKeeps
<1>2. ASSUME NEW c \in Calls,
             \/ \E p \in Pages, kind \in {"save", "restore"} : Send(c, p, kind)
             \/ SendElsewhere(c) \/ Check(c) \/ Commit(c) \/ Publish(c)
             \/ Accept(c) \/ Restored(c) \/ Refused(c) \/ Surface(c) \/ Swallow(c)
             \/ Fail(c)
      PROVE  PagesInv'
  BY <1>2, SendKeeps, SendElsewhereKeeps, CheckKeeps, CommitKeeps, PublishKeeps,
     AcceptKeeps, RestoredKeeps, RefusalKeeps, SurfaceKeeps, FailKeeps
<1>3. CASE UNCHANGED vars
  <2>1. UNCHANGED <<rev, call, visit, cache, fetch, banner, joined, inbox, seen, missed>>
    BY <1>3 DEF vars
  <2>2. TypeOK' /\ Counts' /\ LastMade'
    BY <2>1 DEF PagesInv, TypeOK, Counts, LastMade, Made, Told
  <2>3. \A c \in Calls : CallFine(c)' /\ BeforeFine(c)' /\ ShownOnce(c)'
    BY <2>1 DEF PagesInv, CallFine, BeforeFine, ShownOnce
  <2>4. \A p \in Pages : PageFine(p)' /\ Knows(p)'
    BY <2>1 DEF PagesInv, PageFine, Knows, Unannounced
  <2>5. RejectionTold' /\ NoSelfConflict'
    BY <2>1 DEF PagesInv, RejectionTold, NoSelfConflict, Mounted, Of
  <2> QED
    BY <2>2, <2>3, <2>4, <2>5 DEF PagesInv
<1> QED
  BY <1>1, <1>2, <1>3 DEF Next

(* Every variable keeps its type.  The revision and the inboxes are        *)
(* bounded because a call commits and is announced at most once.           *)
THEOREM TypeCorrect == Spec => []TypeOK
<1>1. PagesInv => TypeOK
  BY DEF PagesInv
<1> QED
  BY <1>1, InitPages, NextPages, PTL DEF Spec

(* A page at rest shows the document as it is, but for the ways it has of  *)
(* staying behind: with any number of pages, saves and restores.           *)
THEOREM PagesAgree == Spec => []PagesConverge
<1>1. PagesInv => PagesConverge
  <2> SUFFICES ASSUME PagesInv, NEW p \in Pages, p \in joined, inbox[p] = 0,
                      fetch[p].at = "none"
               PROVE  cache[p] = rev \/ p \in missed \/ Unannounced \/ WentBack(p)
    BY DEF PagesConverge
  <2>1. PageFine(p) /\ Knows(p)
    BY DEF PagesInv
  <2>2. /\ rev \in Nat /\ cache[p] \in Nat /\ seen[p] \in Nat
    BY PageTyped DEF PagesInv
  <2> QED
    BY <2>1, <2>2 DEF PageFine, Knows, WentBack
<1> QED
  BY <1>1, InitPages, NextPages, PTL DEF Spec

(* A save that the server refused is told of on the page that made it, as  *)
(* soon as the page has the latest document and until another of its saves *)
(* is accepted, unless the request for that document failed.               *)
THEOREM RejectionsTold == Spec => []RejectionTold
<1>1. PagesInv => RejectionTold
  BY DEF PagesInv
<1> QED
  BY <1>1, InitPages, NextPages, PTL DEF Spec

(* A page that waits for each of its saves is never refused for its own.   *)
THEOREM NotOnesOwn == Spec => []NoSelfConflict
<1>1. PagesInv => NoSelfConflict
  BY DEF PagesInv
<1> QED
  BY <1>1, InitPages, NextPages, PTL DEF Spec

----------------------------------------------------------------------------
(* The edit lock.                                                          *)

USE OwnerAssumption, HandlerAssumption, TTLAssumption, NoOneAssumption

(* Nobody holds the lock, or was given it, without being a writer.         *)
WritersOnly ==
  /\ lock.holder \in Writers \cup {NoOne}
  /\ \A t \in granted : Owner[t] \in Writers

(* Per user, one call at a time.                                           *)
OneCall ==
  \A c, d \in Handlers :
    UserOf(c) = UserOf(d) /\ at[c] # "free" /\ at[d] # "free" => c = d

(* A handler about to renew or release the lock finds it as its GET did.   *)
StillHeld ==
  \A c \in Handlers : at[c] \in {"expire", "del"} => lock.holder = UserOf(c)

(* A renewal of the tab is still to come in this tick.                     *)
Renewing(t) ==
  t \in due \/ \E c \in Handlers : c[1] = t /\ at[c] \in {"setnx", "get", "expire"}

(* The lock is fresh, or as old as one tick and about to be renewed.       *)
Fresh(t) == lock.ttl = TTL \/ (lock.ttl = TTL - 1 /\ Renewing(t))

Kept(t) == lock.holder = Owner[t] /\ Fresh(t)

Smooth == OneCall /\ StillHeld /\ \A t \in granted : Kept(t)

LockInv == LockTypeOK /\ WritersOnly /\ (smooth => Smooth)

----------------------------------------------------------------------------

LEMMA OwnersKnown ==
  ASSUME LockInv
  PROVE  /\ \A c \in Handlers :
              c[1] \in Tabs /\ UserOf(c) \in Users /\ UserOf(c) = Owner[c[1]]
         /\ \A t \in Tabs : Owner[t] \in Users
         /\ NoOne \notin Users /\ Writers \subseteq Users
         /\ TTL \in Nat /\ TTL > 1
BY DEF LockInv, UserOf

(* A handler that moves from one place to another.                         *)
LEMMA HandlerMoves ==
  ASSUME LockTypeOK, NEW c \in Handlers, NEW pc \in Phases, Proceed(c, pc)
  PROVE  /\ at' \in [Handlers -> Phases] /\ at'[c] = pc
         /\ \A d \in Handlers \ {c} : at'[d] = at[d]
BY DEF LockTypeOK, Proceed

(* A step of a handler that has been running leaves one call per user.     *)
LEMMA StillOne ==
  ASSUME LockTypeOK, OneCall, NEW c \in Handlers, at[c] # "free",
         \A d \in Handlers \ {c} : at'[d] = at[d]
  PROVE  OneCall'
BY DEF OneCall, UserOf

(* A call that a tab sends.                                                *)
LEMMA CallSent ==
  ASSUME LockInv, NEW t \in Tabs, NEW pc \in {"setnx", "getdel"}, SendCall(t, pc)
  PROVE  /\ at' \in [Handlers -> Phases] /\ smooth' \in BOOLEAN
         /\ smooth' => smooth /\ OneCall'
         /\ \E c \in Handlers : /\ c[1] = t /\ at[c] = "free" /\ at'[c] = pc
                             /\ \A d \in Handlers \ {c} : at'[d] = at[d]
<1>1. PICK c \in Handlers : c[1] = t /\ at[c] = "free" /\ Proceed(c, pc)
  BY DEF SendCall
<1>2. /\ at' \in [Handlers -> Phases] /\ at'[c] = pc
      /\ \A d \in Handlers \ {c} : at'[d] = at[d]
  BY <1>1, HandlerMoves DEF LockInv, Phases
<1>3. smooth' = (smooth /\ ~Busy(Owner[t])) /\ smooth \in BOOLEAN
  BY DEF SendCall, LockInv, LockTypeOK
<1>4. smooth' \in BOOLEAN /\ (smooth' => smooth /\ ~Busy(Owner[t]))
  BY <1>3, Zenon
<1>5. ASSUME smooth' PROVE OneCall'
  <2>1. OneCall /\ \A d \in Handlers : UserOf(d) = Owner[t] => at[d] = "free"
    BY <1>4, <1>5 DEF LockInv, Smooth, Busy
  <2>2. UserOf(c) = Owner[t]
    BY <1>1 DEF UserOf
  <2> QED
    BY <1>2, <2>1, <2>2 DEF OneCall, UserOf
<1> QED
  BY <1>1, <1>2, <1>4, <1>5

(* What a call that was sent does not disturb.                             *)
LEMMA CallSentKeeps ==
  ASSUME LockInv, NEW t \in Tabs, NEW pc \in {"setnx", "getdel"}, SendCall(t, pc),
         UNCHANGED lock, granted' \subseteq granted,
         open' \in SUBSET Tabs, due' \in SUBSET open', granted' \in SUBSET open',
         \A s \in granted' : s \in due => s \in due' \/ (s = t /\ pc = "setnx")
  PROVE  LockInv'
<1>1. /\ at' \in [Handlers -> Phases] /\ smooth' \in BOOLEAN
      /\ smooth' => smooth /\ OneCall'
  BY CallSent
<1>2. PICK c \in Handlers : /\ c[1] = t /\ at[c] = "free" /\ at'[c] = pc
                         /\ \A d \in Handlers \ {c} : at'[d] = at[d]
  BY CallSent
<1>3. LockTypeOK'
  BY <1>1 DEF LockInv, LockTypeOK
<1>4. WritersOnly'
  BY DEF LockInv, WritersOnly
<1>5. ASSUME smooth' PROVE Smooth'
  <2>1. Smooth /\ OneCall'
    BY <1>1, <1>5 DEF LockInv
  <2>2. StillHeld'
    BY <1>2, <2>1 DEF Smooth, StillHeld, UserOf
  <2>3. ASSUME NEW s \in granted' PROVE Kept(s)'
    <3>1. Kept(s)
      BY <2>1, <2>3 DEF Smooth
    <3>2. Renewing(s) => Renewing(s)'
      BY <1>2, <2>3 DEF Renewing
    <3> QED
      BY <3>1, <3>2 DEF Kept, Fresh
  <2> QED
    BY <2>1, <2>2, <2>3 DEF Smooth
<1> QED
  BY <1>3, <1>4, <1>5 DEF LockInv

LEMMA TabKeeps ==
  ASSUME LockInv, NEW t \in Tabs, Mount(t) \/ Renew(t) \/ Unmount(t)
  PROVE  LockInv'
<1>1. open \in SUBSET Tabs /\ due \in SUBSET open /\ granted \in SUBSET open
  BY DEF LockInv, LockTypeOK
<1>2. CASE Mount(t)
  BY <1>1, <1>2, CallSentKeeps DEF Mount
<1>3. CASE Renew(t)
  BY <1>1, <1>3, CallSentKeeps DEF Renew
<1>4. CASE Unmount(t)
  BY <1>1, <1>4, CallSentKeeps DEF Unmount, LeaveTab
<1> QED
  BY <1>2, <1>3, <1>4

LEMMA CrashKeeps ==
  ASSUME LockInv, NEW t \in Tabs, Crash(t) PROVE LockInv'
<1>1. /\ open' = open \ {t} /\ due' = due \ {t} /\ granted' = granted \ {t}
      /\ UNCHANGED <<lock, at, smooth>>
  BY DEF Crash, LeaveTab
<1>2. LockTypeOK' /\ WritersOnly'
  BY <1>1 DEF LockInv, LockTypeOK, WritersOnly
<1>3. ASSUME smooth' PROVE Smooth'
  <2>1. Smooth
    BY <1>1, <1>3 DEF LockInv
  <2>2. ASSUME NEW s \in granted' PROVE Kept(s)'
    BY <1>1, <2>1, <2>2 DEF Smooth, Kept, Fresh, Renewing
  <2> QED
    BY <1>1, <2>1, <2>2 DEF Smooth, OneCall, StillHeld, UserOf
<1> QED
  BY <1>2, <1>3 DEF LockInv

----------------------------------------------------------------------------
(* The handlers.                                                           *)

(* A handler moves on and touches nothing else.  Where it may drop the     *)
(* renewal of a tab, that tab has not been given the lock.                 *)
LEMMA MoveKeeps ==
  ASSUME LockInv, NEW c \in Handlers, NEW pc \in Phases, at[c] # "free",
         Proceed(c, pc),
         UNCHANGED <<lock, open, due, granted, smooth>>,
         pc \in {"expire", "del"} => lock.holder = UserOf(c),
         smooth /\ c[1] \in granted /\ at[c] \in {"setnx", "get", "expire"}
           => pc \in {"setnx", "get", "expire"}
  PROVE  LockInv'
<1>1. /\ at' \in [Handlers -> Phases] /\ at'[c] = pc
      /\ \A d \in Handlers \ {c} : at'[d] = at[d]
  BY HandlerMoves DEF LockInv
<1>2. LockTypeOK' /\ WritersOnly'
  BY <1>1 DEF LockInv, LockTypeOK, WritersOnly
<1>3. ASSUME smooth' PROVE Smooth'
  <2>1. Smooth
    BY <1>3 DEF LockInv
  <2>2. OneCall'
    BY <1>1, <2>1, StillOne DEF Smooth, LockInv
  <2>3. StillHeld'
    BY <1>1, <2>1 DEF Smooth, StillHeld, UserOf
  <2>4. ASSUME NEW s \in granted' PROVE Kept(s)'
    <3>1. Kept(s)
      BY <2>1, <2>4 DEF Smooth
    <3>2. Renewing(s) => Renewing(s)'
      BY <1>1, <1>3, <2>4 DEF Renewing
    <3> QED
      BY <3>1, <3>2 DEF Kept, Fresh
  <2> QED
    BY <2>2, <2>3, <2>4 DEF Smooth
<1> QED
  BY <1>2, <1>3 DEF LockInv

(* A tab that was given the lock has a writer, who holds it.               *)
LEMMA GrantedHolds ==
  ASSUME LockInv, smooth, NEW t \in granted
  PROVE  /\ t \in Tabs /\ Owner[t] \in Writers /\ lock.holder = Owner[t]
         /\ lock.holder # NoOne
<1>1. t \in Tabs
  BY DEF LockInv, LockTypeOK
<1> QED
  BY <1>1, OwnersKnown DEF LockInv, WritersOnly, Smooth, Kept

LEMMA ForbiddenKeeps ==
  ASSUME LockInv, NEW c \in Handlers, Forbidden(c) PROVE LockInv'
<1>1. smooth => c[1] \notin granted
  BY GrantedHolds DEF Forbidden, MayLock, UserOf
<1> QED
  BY <1>1, MoveKeeps DEF Forbidden, Phases

LEMMA GetHolderKeeps ==
  ASSUME LockInv, NEW c \in Handlers, GetHolder(c) PROVE LockInv'
<1>1. CASE lock.holder = UserOf(c) /\ Proceed(c, "expire")
  BY <1>1, MoveKeeps DEF GetHolder, Phases
<1>2. CASE lock.holder # UserOf(c) /\ Proceed(c, "free")
  <2>1. smooth => c[1] \notin granted
    BY <1>2, GrantedHolds DEF UserOf
  <2> QED
    BY <1>2, <2>1, MoveKeeps DEF GetHolder, Phases
<1> QED
  BY <1>1, <1>2 DEF GetHolder

LEMMA AnswerKeeps ==
  ASSUME LockInv, NEW c \in Handlers, AnswerLocked(c) PROVE LockInv'
BY MoveKeeps DEF AnswerLocked, Phases

LEMMA UnlockGetKeeps ==
  ASSUME LockInv, NEW c \in Handlers, UnlockGet(c) PROVE LockInv'
BY MoveKeeps DEF UnlockGet, Phases

(* The lock is new or renewed, for the user of the call that did it.       *)
LEMMA RenewedKeeps ==
  ASSUME LockInv, NEW c \in Handlers, at[c] # "free", Proceed(c, "locked"),
         UNCHANGED <<open, due, smooth>>,
         lock' \in [holder : Users \cup {NoOne}, ttl : 0 .. TTL],
         lock'.holder = NoOne <=> lock'.ttl = 0,
         lock'.holder \in Writers \cup {NoOne},
         lock'.holder = lock.holder \/ (smooth => granted = {} /\ lock.holder = NoOne),
         lock'.holder # NoOne => lock'.ttl = TTL,
         \/ granted' = granted
         \/ /\ granted' = granted \cup ({c[1]} \cap open)
            /\ lock'.holder = UserOf(c) /\ UserOf(c) \in Writers
  PROVE  LockInv'
<1>1. /\ at' \in [Handlers -> Phases] /\ at'[c] = "locked"
      /\ \A d \in Handlers \ {c} : at'[d] = at[d]
  BY HandlerMoves DEF LockInv, Phases
<1>2. LockTypeOK'
  BY <1>1 DEF LockInv, LockTypeOK
<1>3. WritersOnly'
  BY DEF LockInv, WritersOnly, UserOf
<1>4. ASSUME smooth' PROVE Smooth'
  <2>1. Smooth /\ smooth
    BY <1>4 DEF LockInv
  <2>2. OneCall'
    BY <1>1, <2>1, StillOne DEF Smooth, LockInv
  <2>3. StillHeld'
    <3> SUFFICES ASSUME NEW d \in Handlers, at'[d] \in {"expire", "del"}
                 PROVE  lock'.holder = UserOf(d)
      BY DEF StillHeld, UserOf
    <3>1. at[d] \in {"expire", "del"}
      BY <1>1
    <3>2. lock.holder = UserOf(d)
      BY <2>1, <3>1 DEF Smooth, StillHeld
    <3> QED
      BY <2>1, <3>2, OwnersKnown
  <2>4. ASSUME NEW s \in granted' PROVE Kept(s)'
    <3>1. CASE s \in granted
      <4>1. s \in Tabs /\ lock.holder = Owner[s] /\ lock.holder # NoOne
        BY <2>1, <3>1, GrantedHolds
      <4> QED
        BY <2>1, <4>1 DEF Kept, Fresh
    <3>2. CASE s \notin granted
      <4>1. s = c[1] /\ lock'.holder = UserOf(c)
        BY <2>4, <3>2
      <4>2. lock'.holder # NoOne
        BY <4>1, OwnersKnown
      <4> QED
        BY <4>1, <4>2 DEF Kept, Fresh, UserOf
    <3> QED
      BY <3>1, <3>2
  <2> QED
    BY <2>2, <2>3, <2>4 DEF Smooth
<1> QED
  BY <1>2, <1>3, <1>4 DEF LockInv

LEMMA SetNXKeeps ==
  ASSUME LockInv, NEW c \in Handlers, SetNX(c) PROVE LockInv'
<1>1. at[c] = "setnx" /\ UserOf(c) \in Writers /\ UNCHANGED <<open, due, smooth>>
  BY DEF SetNX, MayLock
<1>2. CASE /\ lock.holder = NoOne /\ lock' = HeldBy(UserOf(c))
           /\ granted' = granted \cup ({c[1]} \cap open) /\ Proceed(c, "locked")
  <2>1. /\ lock' \in [holder : Users \cup {NoOne}, ttl : 0 .. TTL]
        /\ lock'.holder = UserOf(c) /\ lock'.ttl = TTL /\ lock'.holder # NoOne
    BY <1>2, OwnersKnown DEF HeldBy
  <2>2. smooth => granted = {}
    BY <1>2, GrantedHolds
  <2> QED
    BY <1>1, <1>2, <2>1, <2>2, RenewedKeeps, OwnersKnown
<1>3. CASE lock.holder # NoOne /\ Proceed(c, "get") /\ UNCHANGED <<lock, granted>>
  BY <1>1, <1>3, MoveKeeps DEF Phases
<1> QED
  BY <1>2, <1>3 DEF SetNX

LEMMA ExpireKeeps ==
  ASSUME LockInv, NEW c \in Handlers, Expire(c) PROVE LockInv'
<1>1. /\ at[c] = "expire" /\ Proceed(c, "locked") /\ UNCHANGED <<open, due, smooth>>
      /\ lock' = IF lock.holder = NoOne THEN lock ELSE [lock EXCEPT !.ttl = TTL]
      /\ granted' = IF lock.holder = UserOf(c) THEN granted \cup ({c[1]} \cap open)
                                                    ELSE granted
  BY DEF Expire
<1>2. /\ lock \in [holder : Users \cup {NoOne}, ttl : 0 .. TTL]
      /\ lock.holder = NoOne <=> lock.ttl = 0
      /\ lock.holder \in Writers \cup {NoOne}
  BY DEF LockInv, LockTypeOK, WritersOnly
<1>3. /\ lock' \in [holder : Users \cup {NoOne}, ttl : 0 .. TTL]
      /\ lock'.holder = lock.holder /\ (lock.holder # NoOne => lock'.ttl = TTL)
      /\ lock'.holder = NoOne <=> lock'.ttl = 0
  BY <1>1, <1>2, OwnersKnown
<1>4. lock.holder = UserOf(c) => UserOf(c) \in Writers
  BY <1>2, OwnersKnown
<1> QED
  BY <1>1, <1>2, <1>3, <1>4, RenewedKeeps

LEMMA UnlockDelKeeps ==
  ASSUME LockInv, NEW c \in Handlers, UnlockDel(c) PROVE LockInv'
<1>1. /\ at[c] = "del" /\ Proceed(c, "free") /\ UNCHANGED <<open, due, smooth>>
      /\ lock' = Unlocked /\ granted' = granted \ TabsOf(UserOf(c))
  BY DEF UnlockDel
<1>2. /\ at' \in [Handlers -> Phases] /\ at'[c] = "free"
      /\ \A d \in Handlers \ {c} : at'[d] = at[d]
  BY <1>1, HandlerMoves DEF LockInv, Phases
<1>3. /\ lock' \in [holder : Users \cup {NoOne}, ttl : 0 .. TTL]
      /\ lock'.holder = NoOne /\ lock'.ttl = 0
  BY <1>1, OwnersKnown DEF Unlocked
<1>4. LockTypeOK' /\ WritersOnly'
  BY <1>1, <1>2, <1>3 DEF LockInv, LockTypeOK, WritersOnly
<1>5. ASSUME smooth' PROVE Smooth'
  <2>1. Smooth /\ smooth
    BY <1>1, <1>5 DEF LockInv
  <2>2. OneCall'
    BY <1>1, <1>2, <2>1, StillOne DEF Smooth, LockInv
  <2>3. lock.holder = UserOf(c)
    BY <1>1, <2>1 DEF Smooth, StillHeld
  <2>4. granted' = {}
    BY <1>1, <2>1, <2>3, GrantedHolds DEF TabsOf
  <2>5. \A d \in Handlers : at'[d] \notin {"expire", "del"}
    BY <1>1, <1>2, <2>1, <2>3 DEF Smooth, StillHeld, OneCall
  <2> QED
    BY <2>2, <2>4, <2>5 DEF Smooth, StillHeld
<1> QED
  BY <1>4, <1>5 DEF LockInv

LEMMA LoseKeeps ==
  ASSUME LockInv, NEW c \in Handlers, Lose(c) PROVE LockInv'
<1>1. at' \in [Handlers -> Phases]
  BY HandlerMoves DEF LockInv, Lose, Phases
<1> QED
  BY <1>1 DEF LockInv, LockTypeOK, WritersOnly, Lose

LEMMA TickKeeps == ASSUME LockInv, Tick PROVE LockInv'
<1>1. /\ lock' = Aged /\ due' = open /\ UNCHANGED <<open, at, granted>>
      /\ smooth' = (smooth /\ due = {} /\ \A u \in Users : ~Busy(u))
  BY DEF Tick
<1>2. /\ lock \in [holder : Users \cup {NoOne}, ttl : 0 .. TTL] /\ lock.ttl \in Nat
      /\ lock.holder = NoOne <=> lock.ttl = 0
  BY DEF LockInv, LockTypeOK
<1>3. /\ lock' \in [holder : Users \cup {NoOne}, ttl : 0 .. TTL]
      /\ lock'.holder = NoOne <=> lock'.ttl = 0
      /\ lock'.holder \in {lock.holder, NoOne}
      /\ lock.ttl > 1 => lock'.holder = lock.holder /\ lock'.ttl = lock.ttl - 1
  BY <1>1, <1>2, OwnersKnown DEF Aged, Unlocked
<1>4. smooth' \in BOOLEAN
  BY <1>1, Zenon DEF LockInv, LockTypeOK
<1>5. LockTypeOK' /\ WritersOnly'
  BY <1>1, <1>3, <1>4 DEF LockInv, LockTypeOK, WritersOnly
<1>6. ASSUME smooth' PROVE Smooth'
  <2>1. smooth /\ due = {} /\ \A u \in Users : ~Busy(u)
    BY <1>1, <1>6, Zenon DEF LockInv, LockTypeOK
  <2>2. \A c \in Handlers : at[c] = "free"
    BY <2>1, OwnersKnown DEF Busy
  <2>3. OneCall' /\ StillHeld'
    BY <1>1, <2>2 DEF OneCall, StillHeld, UserOf
  <2>4. ASSUME NEW t \in granted' PROVE Kept(t)'
    <3>1. Kept(t) /\ t \in open
      BY <1>1, <2>1, <2>4 DEF LockInv, Smooth, LockTypeOK
    <3>2. ~Renewing(t)
      BY <2>1, <2>2 DEF Renewing
    <3>3. lock.ttl = TTL /\ lock.holder = Owner[t]
      BY <3>1, <3>2 DEF Kept, Fresh
    <3>4. lock'.holder = Owner[t] /\ lock'.ttl = TTL - 1
      BY <1>3, <3>3, OwnersKnown
    <3>5. Renewing(t)'
      BY <1>1, <3>1 DEF Renewing
    <3> QED
      BY <3>4, <3>5 DEF Kept, Fresh
  <2> QED
    BY <2>3, <2>4 DEF Smooth
<1> QED
  BY <1>5, <1>6 DEF LockInv

----------------------------------------------------------------------------

LEMMA InitLock == LockInit => LockInv
BY DEF LockInit, Unlocked, LockInv, LockTypeOK, Phases, WritersOnly, Smooth, OneCall,
       StillHeld

LEMMA NextLock == LockInv /\ [LockNext]_lockVars => LockInv'
<1> SUFFICES ASSUME LockInv, [LockNext]_lockVars PROVE LockInv'
  OBVIOUS
<1>1. ASSUME NEW t \in Tabs,
             Mount(t) \/ Renew(t) \/ Unmount(t) \/ Crash(t)
      PROVE  LockInv'
  BY <1>1, TabKeeps, CrashKeeps
<1>2. ASSUME NEW c \in Handlers, Serve(c) \/ Lose(c) PROVE LockInv'
  BY <1>2, ForbiddenKeeps, SetNXKeeps, GetHolderKeeps, ExpireKeeps, AnswerKeeps,
     UnlockGetKeeps, UnlockDelKeeps, LoseKeeps DEF Serve
<1>3. CASE UNCHANGED lockVars
  BY <1>3 DEF lockVars, LockInv, LockTypeOK, WritersOnly, Smooth, OneCall, StillHeld,
              Kept, Fresh, Renewing, UserOf
<1> QED
  BY <1>1, <1>2, <1>3, TickKeeps DEF LockNext

(* Type correctness.                                                       *)
THEOREM LockTypeCorrect == LockSpec => []LockTypeOK
<1>1. LockInv => LockTypeOK
  BY DEF LockInv
<1> QED
  BY <1>1, InitLock, NextLock, PTL DEF LockSpec

(* A viewer never holds the lock.                                          *)
THEOREM WritersHold == LockSpec => []ViewersNeverHold
<1>1. LockInv => ViewersNeverHold
  BY DEF LockInv, WritersOnly, ViewersNeverHold
<1> QED
  BY <1>1, InitLock, NextLock, PTL DEF LockSpec

(* An open tab keeps the lock it was given, while calls are served in time *)
(* and, per user, one by one.                                              *)
THEOREM GrantedKeep == LockSpec => []KeptWhileGranted
<1>1. LockInv => KeptWhileGranted
  BY GrantedHolds DEF KeptWhileGranted
<1> QED
  BY <1>1, InitLock, NextLock, PTL DEF LockSpec

=============================================================================
