------------------------- MODULE DocumentStoreProofs -------------------------
(***************************************************************************)
(* What holds of DocumentStore for any number of requests and editors, for *)
(* handlers that overlap as they like and for any clocks: nothing is       *)
(* assumed of the order of calls nor of the stamps they leave.             *)
(***************************************************************************)
EXTENDS DocumentStore, TLAPS

USE ContentAssumption, WriterAssumption, StepsAssumption

(* One name for a step of request r.                                       *)
Action(r) ==
  \/ (\E e \in Editors : SendSave(r, e))
  \/ (\E e \in Editors, i \in 1 .. Len(versions) : SendRestore(r, e, i))
  \/ Deny(r) \/ Reject(r) \/ Check(r)
  \/ (\E step \in Steps : CommitAt(r, step))
  \/ Publish(r) \/ PublishFails(r) \/ Respond(r) \/ Lose(r)

LEMMA NextActions ==
  Next <=> Create \/ (\E e \in Editors : Load(e)) \/ (\E r \in Requests : Action(r))
BY DEF Next, Handle, Send, Commit, Action

----------------------------------------------------------------------------
(* The invariant.  Whatever anyone holds of the row is a state it had;     *)
(* what a call asked for and what it read, it read while it was under way; *)
(* and each version is what the handler that filed it had read.            *)

Logged(s) == s.rev > 0 => s.rev <= Len(log) /\ log[s.rev] = s

Unwritten == {"idle", "sent", "checked", "denied", "conflict"}

AskedWell(c) ==
  /\ c.pc # "idle" => c.kind \in {"save", "restore"} /\ c.since \in 1 .. Len(log)
  /\ c.kind = "save" => c.base \in 1 .. Len(log) /\ c.token = log[c.base].updatedAt
  /\ c.kind = "restore" => c.pick \in 1 .. Len(versions)

ReadWell(c) ==
  /\ c.pc = "checked" \/ c.result.rev > 0 =>
       /\ c.pc # "idle"
       /\ c.existing.rev >= c.since
       /\ c.kind = "save" => c.existing.updatedAt = c.token
  /\ c.pc = "conflict" => c.existing.rev > c.base

WroteWell(c) ==
  /\ c.pc \in Unwritten => c.result.rev = 0
  /\ c.pc \in Committed => c.result.rev > 0
  /\ c.result.rev > 0 => c.existing.rev < c.result.rev

WellCall(c) ==
  /\ Logged(c.existing)
  /\ Logged(c.result)
  /\ AskedWell(c)
  /\ ReadWell(c)
  /\ WroteWell(c)

Filed ==
  \A i \in 1 .. Len(versions) :
    \E r \in Requests : Wrote(r, i + 1) /\ versions[i] = req[r].existing.content

StoreInv ==
  /\ Len(log) = doc.rev
  /\ Logged(doc)
  /\ doc.rev > 0 => Len(versions) = doc.rev - 1
  /\ doc.rev = 0 => versions = <<>>
  /\ \A e \in Editors : Logged(cache[e])
  /\ \A r \in Requests : WellCall(req[r])
  /\ Filed

LEMMA InitStore == Init => TypeOK /\ StoreInv
<1> SUFFICES ASSUME Init PROVE TypeOK /\ StoreInv
  OBVIOUS
<1>1. TypeOK
  BY DEF Init, TypeOK, NoRow, Snapshot, Contents, Unsent, RequestState
<1>2. WellCall(Unsent) /\ Logged(NoRow)
  BY DEF WellCall, Logged, AskedWell, ReadWell, WroteWell, Unsent, NoRow, Unwritten,
         Committed
<1> QED
  BY <1>1, <1>2 DEF Init, StoreInv, Filed, NoRow

----------------------------------------------------------------------------
(* The log and the history only grow, so what was well stays well.         *)

Grows ==
  /\ Len(log) \in Nat /\ Len(log') \in Nat
  /\ Len(log) <= Len(log')
  /\ \A n \in 1 .. Len(log) : log'[n] = log[n]
  /\ Len(versions) \in Nat /\ Len(versions') \in Nat
  /\ Len(versions) <= Len(versions')

LEMMA LoggedStays ==
  ASSUME Grows, NEW s \in Snapshot, Logged(s)
  PROVE  s.rev > 0 => s.rev <= Len(log') /\ log'[s.rev] = s
BY DEF Grows, Logged, Snapshot

(* WellCall of a record that is the same before and after the step.        *)
LEMMA WellStays ==
  ASSUME Grows, NEW r \in Requests, req[r] \in RequestState, WellCall(req[r]),
         req'[r] = req[r]
  PROVE  WellCall(req[r])'
<1> DEFINE c == req[r]
<1>1. /\ c.existing \in Snapshot /\ c.result \in Snapshot
      /\ c.since \in Nat /\ c.base \in Nat /\ c.pick \in Nat
  BY DEF RequestState
<1>2. Logged(req[r].existing)' /\ Logged(req[r].result)'
  BY <1>1, LoggedStays DEF WellCall, Logged
<1>3. AskedWell(req[r])'
  BY <1>1 DEF WellCall, AskedWell, Grows
<1>4. ReadWell(req[r])' /\ WroteWell(req[r])'
  BY DEF WellCall, ReadWell, WroteWell
<1> QED
  BY <1>2, <1>3, <1>4 DEF WellCall

----------------------------------------------------------------------------
(* A step that writes nothing: a call's record becomes c, and its caller   *)
(* may have learnt the result.                                             *)

LEMMA CallStep ==
  ASSUME TypeOK, StoreInv, NEW r \in Requests, NEW c \in RequestState,
         UNCHANGED <<doc, versions, log>>,
         req' = [req EXCEPT ![r] = c],
         cache' \in {cache, [cache EXCEPT ![req[r].editor] = req[r].result]},
         WellCall(c),
         req[r].result.rev > 0 =>
           c.result = req[r].result /\ c.existing = req[r].existing
  PROVE  TypeOK' /\ StoreInv'
<1>1. /\ req \in [Requests -> RequestState] /\ cache \in [Editors -> Snapshot]
      /\ req[r].result \in Snapshot
  BY DEF TypeOK, RequestState
<1>2. /\ req' \in [Requests -> RequestState]
      /\ req'[r] = c
      /\ \A q \in Requests \ {r} : req'[q] = req[q]
  BY <1>1
<1>3. TypeOK'
  BY <1>1, <1>2 DEF TypeOK
<1>4. Len(log) \in Nat /\ Len(versions) \in Nat
  BY DEF TypeOK
<1>5. Grows
  BY <1>4 DEF Grows
<1>6. \A e \in Editors : Logged(cache'[e])
  <2>1. Logged(req[r].result)
    BY DEF StoreInv, WellCall
  <2> QED
    BY <1>1, <2>1 DEF StoreInv
<1>7. ASSUME NEW q \in Requests PROVE WellCall(req[q])'
  <2>1. CASE q = r
    BY <1>2, <2>1 DEF WellCall, Logged, AskedWell, ReadWell, WroteWell
  <2>2. CASE q # r
    <3>1. req'[q] = req[q] /\ req[q] \in RequestState /\ WellCall(req[q])
      BY <1>1, <1>2, <2>2 DEF StoreInv
    <3> QED
      BY <1>5, <3>1, WellStays
  <2> QED
    BY <2>1, <2>2
<1>8. Filed'
  <2> SUFFICES ASSUME NEW i \in 1 .. Len(versions)
               PROVE  \E q \in Requests :
                        /\ req'[q].result.rev = i + 1 /\ i + 1 > 0
                        /\ versions[i] = req'[q].existing.content
    BY DEF Filed, Wrote
  <2>1. PICK q \in Requests :
          Wrote(q, i + 1) /\ versions[i] = req[q].existing.content
    BY DEF StoreInv, Filed
  <2>2. req'[q].result = req[q].result /\ req'[q].existing = req[q].existing
    BY <1>2, <2>1 DEF Wrote
  <2> QED
    BY <2>1, <2>2 DEF Wrote
<1> QED
  BY <1>3, <1>6, <1>7, <1>8 DEF StoreInv, Logged

(* A call that is sent asks about a state its editor holds.                *)
LEMMA Sending ==
  ASSUME TypeOK, StoreInv, NEW r \in Requests, NEW e \in Editors,
         SendSave(r, e) \/ \E i \in 1 .. Len(versions) : SendRestore(r, e, i)
  PROVE  TypeOK' /\ StoreInv'
<1>0. NoRow \in Snapshot
  BY DEF NoRow, Snapshot, Contents
<1>1. /\ cache[e] \in Snapshot /\ cache[e].rev > 0 /\ Logged(cache[e])
      /\ doc.rev \in Nat
  BY DEF SendSave, SendRestore, TypeOK, StoreInv, Snapshot
<1>2. Len(log) = doc.rev /\ doc.rev >= 1 /\ cache[e].rev \in 1 .. doc.rev
  BY <1>1 DEF StoreInv, Logged, Snapshot
<1>3. req[r].pc = "idle" /\ req[r].result.rev = 0
  <2>1. req[r].pc = "idle"
    BY DEF SendSave, SendRestore
  <2> QED
    BY <2>1 DEF StoreInv, WellCall, WroteWell, Unwritten
<1>4. ~(req[r].result.rev > 0)
  BY <1>3
<1>5. UNCHANGED <<doc, versions, cache, log>>
  BY DEF SendSave, SendRestore
<1>6. CASE SendSave(r, e)
  <2> DEFINE c == [Unsent EXCEPT !.pc = "sent", !.kind = "save", !.editor = e,
                     !.token = cache[e].updatedAt, !.base = cache[e].rev,
                     !.since = doc.rev]
  <2>1. c \in RequestState
    BY <1>0, <1>1 DEF Unsent, RequestState, Snapshot, InFlight
  <2>2. /\ c.pc = "sent" /\ c.kind = "save" /\ c.token = cache[e].updatedAt
        /\ c.base = cache[e].rev /\ c.since = doc.rev
        /\ c.existing.rev = 0 /\ c.result.rev = 0
    BY DEF Unsent, NoRow
  <2>3. WellCall(c)
    BY <1>1, <1>2, <2>2
    DEF WellCall, Logged, AskedWell, ReadWell, WroteWell, Committed, Snapshot
  <2>4. req' = [req EXCEPT ![r] = c]
    BY <1>6 DEF SendSave
  <2> HIDE DEF c
  <2> QED
    BY <1>4, <1>5, <2>1, <2>3, <2>4, CallStep
<1>7. ASSUME NEW i \in 1 .. Len(versions), SendRestore(r, e, i)
      PROVE  TypeOK' /\ StoreInv'
  <2> DEFINE c == [Unsent EXCEPT !.pc = "sent", !.kind = "restore", !.editor = e,
                     !.pick = i, !.since = doc.rev]
  <2>1. i \in Nat
    BY DEF TypeOK
  <2>2. c \in RequestState
    <3>1. Unsent \in RequestState
      BY <1>0 DEF Unsent, RequestState
    <3>2. doc.rev \in Nat
      BY <1>1
    <3> QED
      BY <2>1, <3>1, <3>2 DEF RequestState, InFlight
  <2>3. /\ c.pc = "sent" /\ c.kind = "restore" /\ c.pick = i /\ c.since = doc.rev
        /\ c.existing.rev = 0 /\ c.result.rev = 0
    BY DEF Unsent, NoRow
  <2>4. WellCall(c)
    BY <1>2, <2>3 DEF WellCall, Logged, AskedWell, ReadWell, WroteWell, Committed
  <2>5. req' = [req EXCEPT ![r] = c]
    BY <1>7 DEF SendRestore
  <2> HIDE DEF c
  <2> QED
    BY <1>4, <1>5, <2>2, <2>4, <2>5, CallStep
<1> QED
  BY <1>6, <1>7

(* A call whose state alone changes, other than by reading or writing.     *)
LEMMA Moving ==
  ASSUME TypeOK, StoreInv, NEW r \in Requests,
         Deny(r) \/ Publish(r) \/ PublishFails(r) \/ Respond(r) \/ Lose(r)
  PROVE  TypeOK' /\ StoreInv'
<1>1. PICK pc \in {"denied", "published", "failed", "saved", "lost"} :
        /\ req' = [req EXCEPT ![r].pc = pc]
        /\ pc = "denied" => req[r].pc = "sent"
        /\ pc \in {"published", "failed", "saved"} =>
             req[r].pc \in {"committed", "published"}
        /\ req[r].pc \in InFlight
  BY DEF Deny, Publish, PublishFails, Respond, Lose, InFlight
<1> DEFINE c == [req[r] EXCEPT !.pc = pc]
<1>2. req[r] \in RequestState /\ WellCall(req[r])
  BY DEF TypeOK, StoreInv
<1>3. c \in RequestState
  BY <1>2 DEF RequestState, InFlight, Settled
<1>4. /\ c.pc = pc /\ c.kind = req[r].kind /\ c.since = req[r].since
      /\ c.base = req[r].base /\ c.token = req[r].token /\ c.pick = req[r].pick
      /\ c.existing = req[r].existing /\ c.result = req[r].result
  BY <1>2 DEF RequestState
<1>5. req' = [req EXCEPT ![r] = c]
  BY <1>1
<1>6. UNCHANGED <<doc, versions, log>>
  BY DEF Deny, Publish, PublishFails, Respond, Lose
<1>7. cache' \in {cache, [cache EXCEPT ![req[r].editor] = req[r].result]}
  BY DEF Deny, Publish, PublishFails, Respond, Lose
<1> HIDE DEF c
<1>8. Logged(c.existing) /\ Logged(c.result) /\ AskedWell(c)
  BY <1>1, <1>2, <1>4 DEF WellCall, AskedWell, InFlight
<1>9. ReadWell(c)
  BY <1>1, <1>2, <1>4 DEF WellCall, ReadWell
<1>10. WroteWell(c)
  BY <1>1, <1>2, <1>4 DEF WellCall, WroteWell, Unwritten, Committed
<1> QED
  BY <1>3, <1>4, <1>5, <1>6, <1>7, <1>8, <1>9, <1>10, CallStep DEF WellCall

(* The handler's read, which decides between a 409 and the write.          *)
LEMMA Reading ==
  ASSUME TypeOK, StoreInv, NEW r \in Requests, Reject(r) \/ Check(r)
  PROVE  TypeOK' /\ StoreInv'
<1>1. PICK pc \in {"conflict", "checked"} :
        /\ req' = [req EXCEPT ![r].pc = pc, ![r].existing = doc]
        /\ pc = "conflict" => Conflicts(r)
        /\ pc = "checked" => ~Conflicts(r)
  BY DEF Reject, Check
<1> DEFINE c == [req[r] EXCEPT !.pc = pc, !.existing = doc]
<1>2. req[r] \in RequestState /\ WellCall(req[r]) /\ doc \in Snapshot /\ Logged(doc)
  BY DEF TypeOK, StoreInv
<1>3. c \in RequestState
  BY <1>2 DEF RequestState, InFlight, Settled
<1>4. /\ c.pc = pc /\ c.kind = req[r].kind /\ c.since = req[r].since
      /\ c.base = req[r].base /\ c.token = req[r].token /\ c.pick = req[r].pick
      /\ c.existing = doc /\ c.result = req[r].result
  BY <1>2 DEF RequestState
<1>5. req' = [req EXCEPT ![r] = c]
  BY <1>1
<1>6. UNCHANGED <<doc, versions, log, cache>> /\ req[r].pc = "sent"
  BY DEF Reject, Check
<1>7. req[r].result.rev = 0 /\ Len(log) = doc.rev /\ doc.rev \in Nat
  BY <1>2, <1>6 DEF WellCall, WroteWell, Unwritten, StoreInv, Snapshot
<1>8. ~(req[r].result.rev > 0)
  BY <1>7
<1> HIDE DEF c
<1>9. Logged(c.existing) /\ Logged(c.result) /\ AskedWell(c) /\ AskedWell(req[r])
  BY <1>2, <1>4, <1>6 DEF WellCall, AskedWell
<1>10. ReadWell(c)
  <2>1. c.since \in 1 .. doc.rev
    BY <1>4, <1>6, <1>7, <1>9 DEF AskedWell
  <2>2. pc = "checked" /\ c.kind = "save" => doc.updatedAt = c.token
    BY <1>1, <1>4 DEF Conflicts
  <2>3. pc = "conflict" => doc.rev > c.base
    <3>1. SUFFICES ASSUME pc = "conflict" PROVE doc.rev > c.base
      OBVIOUS
    <3>2. req[r].kind = "save" /\ req[r].token # doc.updatedAt
      BY <1>1, <3>1 DEF Conflicts
    <3>3. /\ req[r].base \in 1 .. doc.rev
          /\ req[r].token = log[req[r].base].updatedAt
      BY <1>7, <1>9, <3>2 DEF AskedWell
    <3>4. req[r].base # doc.rev
      BY <1>2, <1>7, <3>2, <3>3 DEF Logged
    <3> QED
      BY <1>4, <1>7, <3>3, <3>4
  <2> QED
    BY <1>4, <1>7, <2>1, <2>2, <2>3 DEF ReadWell
<1>11. WroteWell(c)
  BY <1>4, <1>7 DEF WroteWell, Unwritten, Committed
<1> QED
  BY <1>3, <1>4, <1>5, <1>6, <1>8, <1>9, <1>10, <1>11, CallStep DEF WellCall

----------------------------------------------------------------------------
(* What a commit writes.                                                   *)

LEMMA Committing ==
  ASSUME TypeOK, StoreInv, NEW r \in Requests, NEW step \in Steps, CommitAt(r, step)
  PROVE  /\ doc' = [content |-> NewContent(r), updatedAt |-> doc.updatedAt + step,
                    rev |-> doc.rev + 1]
         /\ doc' \in Snapshot
         /\ doc.rev \in Nat /\ doc.rev > 0
         /\ Len(log) = doc.rev /\ Len(versions) = doc.rev - 1
         /\ versions \in Seq(Contents) /\ log \in Seq(Snapshot)
         /\ req[r].existing.content \in Contents
         /\ versions' = Append(versions, req[r].existing.content)
         /\ log' = Append(log, doc')
         /\ cache' = cache
         /\ WellCall(req[r]) /\ req[r].pc = "checked"
<1>1. req[r] \in RequestState /\ doc \in Snapshot /\ WellCall(req[r])
  BY DEF TypeOK, StoreInv
<1>2. req[r].pc = "checked"
  BY DEF CommitAt
<1>3. /\ req[r].kind \in {"save", "restore"}
      /\ req[r].since \in 1 .. Len(log)
      /\ req[r].kind = "restore" => req[r].pick \in 1 .. Len(versions)
  BY <1>1, <1>2 DEF WellCall, AskedWell
<1>4. doc.rev \in Nat /\ Len(log) = doc.rev
  BY <1>1 DEF Snapshot, StoreInv
<1>5. doc.rev > 0
  BY <1>3, <1>4
<1>6. NewContent(r) \in Contents
  BY <1>3 DEF NewContent, TypeOK, Contents
<1>7. step \in Int /\ doc.updatedAt \in Int
  BY <1>1 DEF Snapshot
<1>8. /\ doc' = [content |-> NewContent(r), updatedAt |-> doc.updatedAt + step,
                 rev |-> doc.rev + 1]
      /\ versions' = Append(versions, req[r].existing.content)
      /\ log' = Append(log, doc')
      /\ cache' = cache
  BY DEF CommitAt, Archived
<1>9. doc' \in Snapshot
  BY <1>4, <1>6, <1>7, <1>8 DEF Snapshot
<1>10. req[r].existing.content \in Contents
  BY <1>1 DEF RequestState, Snapshot
<1> QED
  BY <1>1, <1>2, <1>4, <1>5, <1>8, <1>9, <1>10 DEF TypeOK, StoreInv

(* Appending keeps what was there.                                         *)
LEMMA AppendKeeps ==
  ASSUME NEW S, NEW s \in Seq(S), NEW x \in S
  PROVE  /\ Append(s, x) \in Seq(S)
         /\ Len(s) \in Nat
         /\ Len(Append(s, x)) = Len(s) + 1
         /\ \A n \in 1 .. Len(s) : Append(s, x)[n] = s[n]
         /\ Append(s, x)[Len(s) + 1] = x
OBVIOUS

(* The transaction files what its handler read.                            *)
LEMMA Writing ==
  ASSUME TypeOK, StoreInv, NEW r \in Requests, NEW step \in Steps, CommitAt(r, step)
  PROVE  TypeOK' /\ StoreInv'
<1> DEFINE filed == req[r].existing.content
           c == [req[r] EXCEPT !.pc = "committed", !.result = doc']
<1>1. /\ doc' \in Snapshot /\ doc'.rev = doc.rev + 1
      /\ doc.rev \in Nat /\ doc.rev > 0
      /\ Len(log) = doc.rev /\ Len(versions) = doc.rev - 1
      /\ versions \in Seq(Contents) /\ log \in Seq(Snapshot)
      /\ filed \in Contents
      /\ versions' = Append(versions, filed)
      /\ log' = Append(log, doc')
      /\ cache' = cache
      /\ WellCall(req[r]) /\ req[r].pc = "checked"
  BY Committing
<1>2. /\ log' \in Seq(Snapshot) /\ Len(log') = doc.rev + 1
      /\ \A n \in 1 .. doc.rev : log'[n] = log[n]
      /\ log'[doc.rev + 1] = doc'
      /\ versions' \in Seq(Contents) /\ Len(versions') = doc.rev
      /\ \A n \in 1 .. doc.rev - 1 : versions'[n] = versions[n]
      /\ versions'[doc.rev] = filed
  <2>1. /\ Append(log, doc') \in Seq(Snapshot)
        /\ Len(Append(log, doc')) = Len(log) + 1
        /\ \A n \in 1 .. Len(log) : Append(log, doc')[n] = log[n]
        /\ Append(log, doc')[Len(log) + 1] = doc'
    BY <1>1, AppendKeeps
  <2>2. /\ Append(versions, filed) \in Seq(Contents)
        /\ Len(Append(versions, filed)) = Len(versions) + 1
        /\ \A n \in 1 .. Len(versions) : Append(versions, filed)[n] = versions[n]
        /\ Append(versions, filed)[Len(versions) + 1] = filed
    BY <1>1, AppendKeeps
  <2> HIDE DEF filed
  <2> QED
    BY <1>1, <2>1, <2>2
<1>3. req[r] \in RequestState /\ req \in [Requests -> RequestState]
  BY DEF TypeOK
<1>4. c \in RequestState
  BY <1>1, <1>3 DEF RequestState, InFlight
<1>5. req' = [req EXCEPT ![r] = c]
  BY DEF CommitAt
<1>6. /\ c.pc = "committed" /\ c.result = doc' /\ c.existing = req[r].existing
      /\ c.kind = req[r].kind /\ c.since = req[r].since
      /\ c.base = req[r].base /\ c.token = req[r].token /\ c.pick = req[r].pick
  BY <1>3 DEF RequestState
<1> HIDE DEF c
<1>7. /\ req' \in [Requests -> RequestState] /\ req'[r] = c
      /\ \A q \in Requests \ {r} : req'[q] = req[q]
  BY <1>3, <1>4, <1>5
<1>8. TypeOK'
  BY <1>1, <1>2, <1>7 DEF TypeOK
<1>9. Grows
  BY <1>1, <1>2 DEF Grows
<1>10. Logged(doc)'
  BY <1>1, <1>2 DEF Logged
<1>11. \A e \in Editors : Logged(cache[e])'
  <2> SUFFICES ASSUME NEW e \in Editors PROVE Logged(cache[e])'
    OBVIOUS
  <2>1. cache[e] \in Snapshot /\ Logged(cache[e])
    BY DEF TypeOK, StoreInv
  <2> QED
    BY <1>1, <1>9, <2>1, LoggedStays DEF Logged
<1>12. /\ req[r].existing \in Snapshot /\ req[r].existing.rev \in Nat
       /\ req[r].since \in Nat /\ req[r].base \in Nat /\ req[r].pick \in Nat
  BY <1>3 DEF RequestState, Snapshot
<1>13. ASSUME NEW q \in Requests PROVE WellCall(req[q])'
  <2>1. CASE q # r
    <3>1. req'[q] = req[q] /\ req[q] \in RequestState /\ WellCall(req[q])
      BY <1>3, <1>7, <2>1 DEF StoreInv
    <3> QED
      BY <1>9, <3>1, WellStays
  <2>2. CASE q = r
    <3>1. Logged(req[r].existing)'
      BY <1>1, <1>6, <1>7, <1>9, <1>12, LoggedStays DEF Logged, WellCall
    <3>2. Logged(req[r].result)'
      BY <1>1, <1>2, <1>6, <1>7 DEF Logged
    <3>3. AskedWell(req[r])'
      <4>1. AskedWell(req[r])
        BY <1>1 DEF WellCall
      <4> QED
        BY <1>1, <1>2, <1>6, <1>7, <4>1 DEF AskedWell
    <3>4. ReadWell(req[r])'
      <4>1. ReadWell(req[r])
        BY <1>1 DEF WellCall
      <4> QED
        BY <1>1, <1>6, <1>7, <4>1 DEF ReadWell
    <3>5. WroteWell(req[r])'
      <4>1. req[r].existing.rev <= doc.rev
        BY <1>1, <1>12 DEF WellCall, Logged
      <4>2. /\ req'[r].pc = "committed" /\ req'[r].result.rev = doc.rev + 1
            /\ req'[r].existing = req[r].existing
        BY <1>1, <1>6, <1>7
      <4> QED
        BY <1>1, <1>12, <4>1, <4>2 DEF WroteWell, Unwritten, Committed
    <3> QED
      BY <2>2, <3>1, <3>2, <3>3, <3>4, <3>5 DEF WellCall
  <2> QED
    BY <2>1, <2>2
<1>14. Filed'
  <2> SUFFICES ASSUME NEW i \in 1 .. doc.rev
               PROVE  \E q \in Requests :
                        /\ req'[q].result.rev = i + 1 /\ i + 1 > 0
                        /\ versions'[i] = req'[q].existing.content
    BY <1>2 DEF Filed, Wrote
  <2>1. CASE i = doc.rev
    <3>1. req'[r].result.rev = i + 1 /\ i + 1 > 0
      BY <1>1, <1>6, <1>7, <2>1
    <3>2. versions'[i] = req'[r].existing.content
      BY <1>2, <1>6, <1>7, <2>1
    <3> QED
      BY <3>1, <3>2
  <2>2. CASE i # doc.rev
    <3>1. i \in 1 .. Len(versions) /\ i \in 1 .. doc.rev - 1
      BY <1>1, <2>2
    <3>2. PICK q \in Requests :
            Wrote(q, i + 1) /\ versions[i] = req[q].existing.content
      BY <3>1 DEF StoreInv, Filed
    <3>3. q # r
      <4>1. req[r].result.rev = 0
        BY <1>1 DEF WellCall, WroteWell, Unwritten
      <4> QED
        BY <3>2, <4>1 DEF Wrote
    <3> QED
      BY <1>2, <1>7, <3>1, <3>2, <3>3 DEF Wrote
  <2> QED
    BY <2>1, <2>2
<1> QED
  BY <1>1, <1>2, <1>8, <1>10, <1>11, <1>13, <1>14 DEF StoreInv

LEMMA Creating ==
  ASSUME TypeOK, StoreInv, Create
  PROVE  TypeOK' /\ StoreInv'
<1>1. /\ doc.rev = 0 /\ log' = <<doc'>>
      /\ doc' = [content |-> Blank, updatedAt |-> 0, rev |-> 1]
      /\ UNCHANGED <<versions, cache, req>>
  BY DEF Create
<1>2. doc' \in Snapshot /\ doc'.rev = 1
  BY <1>1 DEF Snapshot, Contents
<1>3. Len(log) = 0 /\ versions = <<>> /\ Len(log') = 1 /\ log'[1] = doc'
  BY <1>1 DEF StoreInv
<1>4. TypeOK'
  BY <1>1, <1>2 DEF TypeOK
<1>5. Grows
  BY <1>1, <1>3 DEF Grows
<1>6. \A e \in Editors : Logged(cache[e])'
  <2> SUFFICES ASSUME NEW e \in Editors PROVE Logged(cache[e])'
    OBVIOUS
  <2>1. cache[e] \in Snapshot /\ Logged(cache[e])
    BY DEF TypeOK, StoreInv
  <2> QED
    BY <1>1, <1>5, <2>1, LoggedStays DEF Logged
<1>7. \A r \in Requests : WellCall(req[r])'
  <2> SUFFICES ASSUME NEW r \in Requests PROVE WellCall(req[r])'
    OBVIOUS
  <2>1. req[r] \in RequestState /\ WellCall(req[r]) /\ req'[r] = req[r]
    BY <1>1 DEF TypeOK, StoreInv
  <2> QED
    BY <1>5, <2>1, WellStays
<1>8. Filed'
  BY <1>1, <1>3 DEF Filed
<1>9. Logged(doc)'
  BY <1>2, <1>3 DEF Logged
<1> QED
  BY <1>1, <1>2, <1>3, <1>4, <1>6, <1>7, <1>8, <1>9 DEF StoreInv

LEMMA StoreStep == TypeOK /\ StoreInv /\ [Next]_vars => TypeOK' /\ StoreInv'
<1> SUFFICES ASSUME TypeOK, StoreInv, [Next]_vars PROVE TypeOK' /\ StoreInv'
  OBVIOUS
<1> DEFINE Same == UNCHANGED <<doc, versions, log, req>>
<1>1. ASSUME Same, \A e \in Editors : Logged(cache'[e]), cache' \in [Editors -> Snapshot]
      PROVE  TypeOK' /\ StoreInv'
  <2>1. TypeOK'
    BY <1>1 DEF TypeOK
  <2>2. Filed'
    BY <1>1 DEF StoreInv, Filed, Wrote
  <2>3. \A r \in Requests : WellCall(req[r])'
    BY <1>1 DEF StoreInv, WellCall, Logged, AskedWell, ReadWell, WroteWell
  <2> QED
    BY <1>1, <2>1, <2>2, <2>3 DEF StoreInv, Logged
<1>2. CASE UNCHANGED vars
  BY <1>1, <1>2 DEF vars, TypeOK, StoreInv
<1>3. CASE Create
  BY <1>3, Creating
<1>4. ASSUME NEW e \in Editors, Load(e) PROVE TypeOK' /\ StoreInv'
  <2>1. Same /\ cache' = [cache EXCEPT ![e] = doc]
    BY <1>4 DEF Load
  <2>2. cache' \in [Editors -> Snapshot] /\ \A f \in Editors : cache'[f] \in {cache[f], doc}
    BY <2>1 DEF TypeOK
  <2> QED
    BY <1>1, <2>1, <2>2 DEF StoreInv
<1>5. ASSUME NEW r \in Requests, Action(r) PROVE TypeOK' /\ StoreInv'
  BY <1>5, Sending, Moving, Reading, Writing DEF Action
<1> QED
  BY <1>2, <1>3, <1>4, <1>5, NextActions

----------------------------------------------------------------------------
(* Every variable keeps its type, with handlers that overlap as they like. *)
(* Not inductive alone: a restore's content is typed because the version   *)
(* it names exists.                                                        *)
THEOREM TypeCorrect == Spec => []TypeOK
BY InitStore, StoreStep, PTL DEF Spec

(* What a version holds: the state its writer had read, which was current  *)
(* at some moment of that call and before the state that it wrote.         *)
LEMMA VersionsAreReads ==
  ASSUME TypeOK, StoreInv, NEW i \in 1 .. Len(versions)
  PROVE  \E r \in Requests :
           /\ Wrote(r, i + 1)
           /\ req[r].existing.rev \in req[r].since .. i
           /\ req[r].existing.rev \in 1 .. Len(log)
           /\ log[req[r].existing.rev] = req[r].existing
           /\ versions[i] = req[r].existing.content
<1>1. PICK r \in Requests : Wrote(r, i + 1) /\ versions[i] = req[r].existing.content
  BY DEF StoreInv, Filed
<1>2. /\ req[r].existing.rev \in Nat /\ req[r].since \in Nat
      /\ i \in Nat /\ WellCall(req[r])
  BY DEF TypeOK, RequestState, Snapshot, StoreInv
<1>3. req[r].result.rev = i + 1 /\ req[r].result.rev > 0
  BY <1>1, <1>2 DEF Wrote
<1>4. /\ req[r].pc # "idle" /\ req[r].existing.rev >= req[r].since
      /\ req[r].existing.rev < i + 1
      /\ req[r].since \in 1 .. Len(log)
  BY <1>2, <1>3 DEF WellCall, ReadWell, WroteWell, AskedWell
<1>5. req[r].existing.rev <= Len(log) /\ log[req[r].existing.rev] = req[r].existing
  BY <1>2, <1>4 DEF WellCall, Logged
<1> QED
  BY <1>1, <1>2, <1>4, <1>5

(* However handlers overlap, every write of the row leaves exactly one     *)
(* version, and a version holds what the document contained at some moment *)
(* of the call that filed it.                                              *)
THEOREM HistoryIsGenuine == Spec => []HistoryGenuine
<1>1. TypeOK /\ StoreInv => HistoryGenuine
  <2> SUFFICES ASSUME TypeOK, StoreInv, NEW i \in 1 .. Len(versions)
               PROVE  \E r \in Requests :
                        /\ Wrote(r, i + 1)
                        /\ \E n \in req[r].since .. i : versions[i] = log[n].content
    BY DEF HistoryGenuine, StoreInv
  <2>1. PICK r \in Requests :
          /\ Wrote(r, i + 1)
          /\ req[r].existing.rev \in req[r].since .. i
          /\ log[req[r].existing.rev] = req[r].existing
          /\ versions[i] = req[r].existing.content
    BY VersionsAreReads
  <2>2. versions[i] = log[req[r].existing.rev].content
    BY <2>1
  <2> QED
    BY <2>1, <2>2
<1> QED
  BY <1>1, InitStore, StoreStep, PTL DEF Spec

(* A save is refused with a 409 only if the row had moved on since its     *)
(* editor looked, even when commits share a millisecond.                   *)
THEOREM ConflictsAreGenuine == Spec => []ConflictGenuine
<1>1. StoreInv => ConflictGenuine
  BY DEF StoreInv, WellCall, ReadWell, ConflictGenuine
<1> QED
  BY <1>1, InitStore, StoreStep, PTL DEF Spec

(* However the handlers of saves and restores overlap, the version a write *)
(* files is the content it replaced, so that the write can be undone,      *)
(* unless its handler had read a state older than that.                    *)
THEOREM LossesNeedOverlap == Spec => []LossNeedsOverlap
<1>1. TypeOK /\ StoreInv => LossNeedsOverlap
  <2> SUFFICES ASSUME TypeOK, StoreInv, NEW n \in 1 .. doc.rev - 1
               PROVE  versions[n] = log[n].content \/ OverlappedAt(n)
    BY DEF LossNeedsOverlap
  <2>1. doc.rev \in Nat
    BY DEF TypeOK, Snapshot
  <2>2. n \in 1 .. Len(versions) /\ n \in Nat
    BY <2>1 DEF StoreInv
  <2>3. PICK r \in Requests :
          /\ Wrote(r, n + 1)
          /\ req[r].existing.rev \in req[r].since .. n
          /\ req[r].existing.rev \in 1 .. Len(log)
          /\ log[req[r].existing.rev] = req[r].existing
          /\ versions[n] = req[r].existing.content
    BY <2>2, VersionsAreReads
  <2>4. CASE req[r].existing.rev = n
    BY <2>3, <2>4
  <2>5. CASE req[r].existing.rev < n
    BY <2>3, <2>5 DEF OverlappedAt
  <2> QED
    BY <2>2, <2>3, <2>4, <2>5
<1> QED
  BY <1>1, InitStore, StoreStep, PTL DEF Spec

(* A save can write over a state its editor had not seen only if that      *)
(* state was committed between the save's own read and its write, or if it *)
(* bears the stamp the editor sent.  This is what the comparison of        *)
(* updatedAt is worth, whatever the clocks do.                             *)
THEOREM OverwritesNeedOverlap == Spec => []OverwriteNeedsOverlap
<1>1. TypeOK /\ StoreInv => OverwriteNeedsOverlap
  <2> SUFFICES ASSUME TypeOK, StoreInv, NEW r \in Requests,
                      req[r].pc \in Committed, req[r].kind = "save",
                      ~(req[r].existing.rev < Replaced(r))
               PROVE  log[Replaced(r)].updatedAt = log[req[r].base].updatedAt
    BY DEF OverwriteNeedsOverlap
  <2>1. /\ WellCall(req[r]) /\ req[r].result.rev \in Nat
        /\ req[r].existing.rev \in Nat /\ req[r].since \in Nat
    BY DEF TypeOK, RequestState, Snapshot, StoreInv
  <2>2. req[r].result.rev > 0
    BY <2>1 DEF WellCall, WroteWell
  <2>3. /\ req[r].existing.rev < req[r].result.rev
        /\ req[r].pc # "idle" /\ req[r].existing.rev >= req[r].since
        /\ req[r].existing.updatedAt = req[r].token
        /\ req[r].token = log[req[r].base].updatedAt
        /\ req[r].since \in 1 .. Len(log)
    BY <2>1, <2>2 DEF WellCall, WroteWell, ReadWell, AskedWell
  <2>4. req[r].existing.rev = Replaced(r) /\ req[r].existing.rev > 0
    BY <2>1, <2>3 DEF Replaced
  <2>5. log[req[r].existing.rev] = req[r].existing
    BY <2>1, <2>4 DEF WellCall, Logged
  <2> QED
    BY <2>3, <2>4, <2>5
<1> QED
  BY <1>1, InitStore, StoreStep, PTL DEF Spec

----------------------------------------------------------------------------
(* The refinement.  Each step of the store is one of the register's, the   *)
(* commit being the accepting one, or leaves the register alone.  The      *)
(* moment at which the register's call is judged is the handler's read.    *)

Asks == [r \in Requests |-> AskOf(r)]
Outcomes == [r \in Requests |-> OutcomeOf(r)]

LEMMA OneCallMoves ==
  ASSUME NEW r \in Requests, \A q \in Requests \ {r} : req'[q] = req[q]
  PROVE  /\ Asks' = [Asks EXCEPT ![r] = AskOf(r)']
         /\ Outcomes' = [Outcomes EXCEPT ![r] = OutcomeOf(r)']
<1>1. \A q \in Requests \ {r} : AskOf(q)' = AskOf(q) /\ OutcomeOf(q)' = OutcomeOf(q)
  BY DEF AskOf, OutcomeOf
<1> QED
  BY <1>1 DEF Asks, Outcomes

(* A call that moves on without changing what it asks.                     *)
LEMMA OneCallEnds ==
  ASSUME NEW r \in Requests, \A q \in Requests \ {r} : req'[q] = req[q],
         AskOf(r)' = AskOf(r)
  PROVE  /\ Asks' = Asks
         /\ Outcomes' = [Outcomes EXCEPT ![r] = OutcomeOf(r)']
         /\ OutcomeOf(r)' = OutcomeOf(r) => Outcomes' = Outcomes
BY OneCallMoves DEF Asks, Outcomes

(* The outcome of a call, by where it is.                                  *)
LEMMA OutcomeBy ==
  ASSUME NEW r \in Requests
  PROVE  /\ req[r].pc = "idle" => OutcomeOf(r) = "none"
         /\ req[r].pc \in {"sent", "checked"} => OutcomeOf(r) = "open"
         /\ req[r].pc = "conflict" => OutcomeOf(r) = "rejected"
         /\ req[r].pc \in Over /\ req[r].result.rev > 0 => OutcomeOf(r) = "accepted"
         /\ req[r].pc \in Over /\ req[r].result.rev = 0 => OutcomeOf(r) = "dropped"
BY DEF OutcomeOf, Over, Committed

LEMMA OutcomeNext ==
  ASSUME NEW r \in Requests
  PROVE  /\ req'[r].pc = "idle" => OutcomeOf(r)' = "none"
         /\ req'[r].pc \in {"sent", "checked"} => OutcomeOf(r)' = "open"
         /\ req'[r].pc = "conflict" => OutcomeOf(r)' = "rejected"
         /\ req'[r].pc \in Over /\ req'[r].result.rev > 0 => OutcomeOf(r)' = "accepted"
         /\ req'[r].pc \in Over /\ req'[r].result.rev = 0 => OutcomeOf(r)' = "dropped"
BY DEF OutcomeOf, Over, Committed

LEMMA InitRefines == Init => Register!Init
<1> SUFFICES ASSUME Init PROVE Register!Init
  OBVIOUS
<1>1. \A r \in Requests : AskOf(r) = Register!Nothing /\ req[r].pc = "idle"
  BY DEF Init, Unsent, AskOf, Register!Nothing
<1>2. \A r \in Requests : OutcomeOf(r) = "none"
  BY <1>1, OutcomeBy
<1> QED
  BY <1>1, <1>2 DEF Init, Register!Init

LEMMA StepRefines ==
  ASSUME TypeOK, StoreInv, [Next]_vars
  PROVE  [Register!Next]_(Register!vars)
<1> DEFINE Stutter == UNCHANGED <<log, versions, Asks, Outcomes>>
<1>1. Stutter => UNCHANGED Register!vars
  BY DEF Register!vars, Asks, Outcomes
<1>2. /\ req \in [Requests -> RequestState]
      /\ cache \in [Editors -> Snapshot]
      /\ doc \in Snapshot /\ doc.rev \in Nat
      /\ Register!Now = doc.rev
  BY DEF TypeOK, Snapshot, StoreInv, Register!Now
<1>3. CASE UNCHANGED vars
  <2>1. Stutter
    BY <1>3 DEF vars, Asks, Outcomes, AskOf, OutcomeOf
  <2> QED
    BY <1>1, <2>1
<1>4. CASE Create
  <2>1. UNCHANGED <<versions, Asks, Outcomes>>
    BY <1>4 DEF Create, Asks, Outcomes, AskOf, OutcomeOf
  <2>2. log' = <<[content |-> Blank, updatedAt |-> 0, rev |-> 1]>> /\ doc.rev = 0
    BY <1>4 DEF Create
  <2>3. Register!Create
    BY <1>2, <2>1, <2>2 DEF Register!Create, Asks, Outcomes
  <2> QED
    BY <2>3 DEF Register!Next
<1>5. ASSUME NEW e \in Editors, Load(e) PROVE Stutter
  BY <1>5 DEF Load, Asks, Outcomes, AskOf, OutcomeOf
<1>6. ASSUME NEW r \in Requests, NEW e \in Editors, SendSave(r, e)
      PROVE  Register!AskSave(r, cache[e].rev) /\ cache[e].rev \in 1 .. Register!Now
  <2>1. /\ req[r].pc = "idle"
        /\ \A q \in Requests \ {r} : req'[q] = req[q]
        /\ req'[r].pc = "sent" /\ req'[r].kind = "save"
        /\ req'[r].token = cache[e].updatedAt /\ req'[r].pick = 0
        /\ req'[r].since = doc.rev
        /\ UNCHANGED <<log, versions>>
    BY <1>2, <1>6 DEF SendSave, Unsent
  <2>2. cache[e].rev \in 1 .. doc.rev /\ log[cache[e].rev] = cache[e]
    BY <1>2, <1>6 DEF SendSave, StoreInv, Logged, Snapshot
  <2>3. /\ OutcomeOf(r) = "none" /\ OutcomeOf(r)' = "open"
        /\ AskOf(r)' = [kind |-> "save", token |-> log[cache[e].rev].updatedAt,
                        pick |-> 0, since |-> Register!Now]
    BY <1>2, <2>1, <2>2, OutcomeBy, OutcomeNext DEF AskOf
  <2> QED
    BY <1>2, <2>1, <2>2, <2>3, OneCallMoves
    DEF Register!AskSave, Register!Ask, Asks, Outcomes
<1>7. ASSUME NEW r \in Requests, NEW e \in Editors, NEW i \in 1 .. Len(versions),
             SendRestore(r, e, i)
      PROVE  Register!AskRestore(r, i)
  <2>1. /\ req[r].pc = "idle"
        /\ \A q \in Requests \ {r} : req'[q] = req[q]
        /\ req'[r].pc = "sent" /\ req'[r].kind = "restore"
        /\ req'[r].token = 0 /\ req'[r].pick = i
        /\ req'[r].since = doc.rev
        /\ UNCHANGED <<log, versions>>
    BY <1>2, <1>7 DEF SendRestore, Unsent
  <2>2. /\ OutcomeOf(r) = "none" /\ OutcomeOf(r)' = "open"
        /\ AskOf(r)' = [kind |-> "restore", token |-> 0, pick |-> i,
                        since |-> Register!Now]
    BY <1>2, <2>1, OutcomeBy, OutcomeNext DEF AskOf
  <2> QED
    BY <2>1, <2>2, OneCallMoves
    DEF Register!AskRestore, Register!Ask, Asks, Outcomes
<1>8. ASSUME NEW r \in Requests, NEW pc,
             req[r] \in RequestState, req' = [req EXCEPT ![r].pc = pc]
      PROVE  /\ req'[r].pc = pc /\ req'[r].result = req[r].result
             /\ AskOf(r)' = AskOf(r)
             /\ \A q \in Requests \ {r} : req'[q] = req[q]
  BY <1>2, <1>8 DEF AskOf, RequestState
<1>9. ASSUME NEW r \in Requests, NEW pc \in {"denied", "lost"},
             req[r].pc \in {"sent", "checked"},
             req' = [req EXCEPT ![r].pc = pc], UNCHANGED <<log, versions>>
      PROVE  Register!Drop(r)
  <2>1. req[r] \in RequestState /\ req[r].result.rev = 0
    BY <1>2, <1>9 DEF StoreInv, WellCall, WroteWell, Unwritten
  <2>2. OutcomeOf(r) = "open" /\ OutcomeOf(r)' = "dropped"
    BY <1>8, <1>9, <2>1, OutcomeBy, OutcomeNext DEF Over
  <2> QED
    BY <1>8, <1>9, <2>1, <2>2, OneCallEnds DEF Register!Drop, Asks, Outcomes
<1>10. ASSUME NEW r \in Requests, NEW pc \in {"published", "saved", "failed", "lost"},
              req[r].pc \in {"committed", "published"},
              req' = [req EXCEPT ![r].pc = pc], UNCHANGED <<log, versions>>
       PROVE  Stutter
  <2>1. req[r] \in RequestState /\ req[r].result.rev > 0
    BY <1>2, <1>10 DEF StoreInv, WellCall, WroteWell, Committed
  <2>2. OutcomeOf(r)' = OutcomeOf(r)
    BY <1>8, <1>10, <2>1, OutcomeBy, OutcomeNext DEF Committed, Over
  <2> QED
    BY <1>8, <1>10, <2>1, <2>2, OneCallEnds
<1>11. ASSUME NEW r \in Requests, NEW pc,
              req' = [req EXCEPT ![r].pc = pc, ![r].existing = doc]
       PROVE  /\ req'[r].pc = pc /\ req'[r].result = req[r].result
              /\ AskOf(r)' = AskOf(r)
              /\ \A q \in Requests \ {r} : req'[q] = req[q]
  <2>1. req[r] \in RequestState
    BY <1>2
  <2> QED
    BY <1>2, <1>11, <2>1 DEF AskOf, RequestState
<1>12. ASSUME NEW r \in Requests, Reject(r) PROVE Register!Reject(r)
  <2>1. /\ req[r].pc = "sent" /\ UNCHANGED <<log, versions>>
        /\ req' = [req EXCEPT ![r].pc = "conflict", ![r].existing = doc]
        /\ req[r].kind = "save" /\ req[r].token # doc.updatedAt
    BY <1>12 DEF Reject, Conflicts
  <2>2. OutcomeOf(r) = "open" /\ OutcomeOf(r)' = "rejected"
    BY <1>11, <2>1, OutcomeBy, OutcomeNext
  <2>3. req[r].since \in 1 .. doc.rev
    BY <1>2, <2>1 DEF StoreInv, WellCall, AskedWell
  <2>4. doc.rev \in req[r].since .. doc.rev /\ log[doc.rev] = doc
    BY <1>2, <2>3 DEF StoreInv, Logged
  <2>5. doc.rev \in Register!Seen(r) /\ AskOf(r).kind = "save"
        /\ log[doc.rev].updatedAt # AskOf(r).token
    BY <1>2, <2>1, <2>4 DEF Register!Seen, AskOf
  <2> QED
    BY <1>11, <2>1, <2>2, <2>5, OneCallEnds DEF Register!Reject, Asks, Outcomes
<1>13. ASSUME NEW r \in Requests, Check(r) PROVE Stutter
  <2>1. /\ req[r].pc = "sent" /\ UNCHANGED <<log, versions>>
        /\ req' = [req EXCEPT ![r].pc = "checked", ![r].existing = doc]
    BY <1>13 DEF Check
  <2>2. OutcomeOf(r)' = OutcomeOf(r)
    BY <1>11, <2>1, OutcomeBy, OutcomeNext
  <2> QED
    BY <1>11, <2>1, <2>2, OneCallEnds
<1>14. ASSUME NEW r \in Requests, NEW step \in Steps, CommitAt(r, step)
       PROVE  Register!Accept(r)
  <2>1. /\ doc' = [content |-> NewContent(r), updatedAt |-> doc.updatedAt + step,
                   rev |-> doc.rev + 1]
        /\ Len(log) = doc.rev /\ doc.rev > 0
        /\ versions' = Append(versions, req[r].existing.content)
        /\ log' = Append(log, doc')
        /\ WellCall(req[r]) /\ req[r].pc = "checked"
    BY <1>14, Committing
  <2>2. /\ req'[r].pc = "committed" /\ req'[r].result = doc'
        /\ AskOf(r)' = AskOf(r)
        /\ \A q \in Requests \ {r} : req'[q] = req[q]
    <3>1. req' = [req EXCEPT ![r].pc = "committed", ![r].result = doc']
      BY <1>14 DEF CommitAt
    <3>2. req[r] \in RequestState
      BY <1>2
    <3> QED
      BY <1>2, <3>1, <3>2 DEF AskOf, RequestState
  <2>3. OutcomeOf(r) = "open" /\ OutcomeOf(r)' = "accepted"
    <3>1. doc'.rev > 0
      BY <1>2, <2>1
    <3> QED
      BY <2>1, <2>2, <3>1, OutcomeBy, OutcomeNext DEF Over, Committed
  <2>4. log[doc.rev] = doc
    BY <2>1 DEF StoreInv, Logged
  <2>5. Register!Content(r) = NewContent(r)
    BY DEF Register!Content, NewContent, AskOf
  <2>6. log' = Append(log, [content |-> Register!Content(r),
                            updatedAt |-> log[Register!Now].updatedAt + step,
                            rev |-> Register!Now + 1])
    BY <1>2, <2>1, <2>4, <2>5
  <2>7. /\ req[r].existing.rev \in Nat /\ req[r].since \in 1 .. doc.rev
        /\ req[r].existing.rev >= req[r].since
        /\ req[r].kind = "save" => req[r].existing.updatedAt = req[r].token
        /\ req[r].existing.rev > 0 =>
             /\ req[r].existing.rev <= doc.rev
             /\ log[req[r].existing.rev] = req[r].existing
    <3>1. req[r].existing.rev \in Nat
      BY <1>2 DEF RequestState, Snapshot
    <3> QED
      BY <2>1, <3>1 DEF WellCall, Logged, AskedWell, ReadWell
  <2> DEFINE n == req[r].existing.rev
  <2>8. n \in Register!Seen(r) /\ log[n] = req[r].existing
    BY <1>2, <2>7 DEF Register!Seen, AskOf
  <2>9. /\ AskOf(r).kind = "save" => log[n].updatedAt = AskOf(r).token
        /\ versions' = Append(versions, log[n].content)
    BY <2>1, <2>7, <2>8 DEF AskOf
  <2>10. /\ Asks' = Asks
         /\ Outcomes' = [Outcomes EXCEPT ![r] = "accepted"]
    BY <2>2, <2>3, OneCallEnds
  <2> HIDE DEF n
  <2> QED
    BY <2>3, <2>6, <2>8, <2>9, <2>10 DEF Register!Accept, Asks, Outcomes
<1>15. ASSUME NEW r \in Requests, Action(r) PROVE Register!Next \/ Stutter
  <2>1. CASE Deny(r) \/ Publish(r) \/ PublishFails(r) \/ Respond(r) \/ Lose(r)
    <3>1. Register!Drop(r) \/ Stutter
      BY <1>9, <1>10, <2>1
      DEF Deny, Publish, PublishFails, Respond, Lose, InFlight
    <3> QED
      BY <3>1 DEF Register!Next
  <2> QED
    BY <1>6, <1>7, <1>12, <1>13, <1>14, <1>15, <2>1 DEF Action, Register!Next
<1> QED
  BY <1>1, <1>3, <1>4, <1>5, <1>15, NextActions

(* The document is the register of VersionedRegister for any number of     *)
(* editors and requests, however their handlers overlap and whatever the   *)
(* clocks say: the price of the missing lock is exactly that a call is     *)
(* judged by, and files, some state of its own duration and not the one it *)
(* replaces.                                                               *)
THEOREM StoreImplementsRegister == Spec => ImplementsRegister
<1>1. TypeOK /\ StoreInv /\ [Next]_vars => [Register!Next]_(Register!vars)
  BY StepRefines
<1> QED
  BY <1>1, InitRefines, InitStore, StoreStep, PTL
  DEF Spec, ImplementsRegister, Register!Spec
=============================================================================
