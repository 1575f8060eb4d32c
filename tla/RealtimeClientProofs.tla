-------------------------- MODULE RealtimeClientProofs --------------------------
(***************************************************************************)
(* What holds of RealtimeClient for any set of rooms and any number of     *)
(* sockets, events and frames.                                             *)
(***************************************************************************)
EXTENDS RealtimeClient, FiniteSetTheorems, SequenceTheorems, TLAPS

USE RoomAssumption, SocketAssumption, BoundAssumption

(* The sockets made so far are the first ones, and the client has the last.*)
Numbered ==
  /\ socket \in 0 .. MaxSockets
  /\ ready \in [Sockets -> {"none", "closing", "closed"} \cup Live]
  /\ \A s \in Sockets : ready[s] = "none" <=> s > socket

(* The socket that connect() makes is the next one.                        *)
LEMMA ConnectsNext ==
  ASSUME Numbered, NEW closed, Connect(closed)
  PROVE  /\ socket' = socket + 1 /\ socket + 1 \in Sockets
         /\ manuallyClosed' = FALSE
         /\ Numbered'
         /\ ready'[socket + 1] = "connecting"
         /\ \A s \in Sockets \ {socket + 1} :
              ready'[s] = IF s \in closed /\ ready[s] \in Live THEN "closing" ELSE ready[s]
<1> DEFINE P(s) == ready[s] = "none" /\ \A t \in 1 .. s - 1 : ready[t] # "none"
           next == CHOOSE s \in Sockets : P(s)
<1>1. PICK free \in Sockets : ready[free] = "none"
  BY DEF Connect
<1>2. socket + 1 \in Sockets
  BY <1>1 DEF Numbered, Sockets
<1>3. P(socket + 1)
  BY <1>2 DEF Numbered, Sockets
<1>4. \A s \in Sockets : P(s) => s = socket + 1
  <2> SUFFICES ASSUME NEW s \in Sockets, P(s), s # socket + 1 PROVE FALSE
    OBVIOUS
  <2>1. s > socket + 1
    BY DEF Numbered, Sockets
  <2>2. socket + 1 \in 1 .. s - 1
    BY <1>2, <2>1 DEF Sockets
  <2> QED
    BY <1>3, <2>2
<1>5. next \in Sockets /\ P(next)
  BY <1>2, <1>3
<1>6. next = socket + 1
  BY <1>4, <1>5
<1>7. /\ socket' = next /\ manuallyClosed' = FALSE
      /\ ready' = [[s \in Sockets |->
           IF s \in closed /\ ready[s] \in Live THEN "closing" ELSE ready[s]]
             EXCEPT ![next] = "connecting"]
  BY DEF Connect, AfterConnect
<1> HIDE DEF next, P
<1>8. ready'[socket + 1] = "connecting"
  BY <1>2, <1>6, <1>7
<1>9. ASSUME NEW s \in Sockets \ {socket + 1}
      PROVE  ready'[s] = IF s \in closed /\ ready[s] \in Live THEN "closing" ELSE ready[s]
  BY <1>6, <1>7
<1>10. Numbered'
  <2>1. socket' \in 0 .. MaxSockets
    BY <1>2, <1>6, <1>7 DEF Numbered, Sockets
  <2>2. ready' \in [Sockets -> {"none", "closing", "closed"} \cup Live]
    BY <1>7 DEF Numbered, Live
  <2>3. ASSUME NEW s \in Sockets PROVE ready'[s] = "none" <=> s > socket'
    <3>1. CASE s = socket + 1
      BY <1>6, <1>7, <1>8, <3>1 DEF Numbered
    <3>2. CASE s # socket + 1
      <4>1. ready'[s] = "none" <=> ready[s] = "none"
        BY <1>9, <3>2 DEF Live
      <4> QED
        BY <1>6, <1>7, <3>2, <4>1 DEF Numbered, Sockets
    <3> QED
      BY <3>1, <3>2
  <2> QED
    BY <2>1, <2>2, <2>3 DEF Numbered
<1> QED
  BY <1>2, <1>6, <1>7, <1>8, <1>9, <1>10

(* With nothing to close, connect() leaves the other sockets alone.        *)
LEMMA ConnectsAnew ==
  ASSUME Numbered, Connect({})
  PROVE  /\ socket' = socket + 1 /\ socket + 1 \in Sockets /\ manuallyClosed' = FALSE
         /\ Numbered' /\ ready'[socket + 1] = "connecting"
         /\ \A s \in Sockets \ {socket + 1} : ready'[s] = ready[s]
<1> DEFINE none == {}
<1>1. Connect(none) /\ \A s : s \notin none
  OBVIOUS
<1> HIDE DEF none
<1>2. /\ socket' = socket + 1 /\ socket + 1 \in Sockets /\ manuallyClosed' = FALSE
      /\ Numbered' /\ ready'[socket + 1] = "connecting"
      /\ \A s \in Sockets \ {socket + 1} :
           ready'[s] = IF s \in none /\ ready[s] \in Live THEN "closing" ELSE ready[s]
  BY <1>1, ConnectsNext
<1> QED
  BY <1>1, <1>2

----------------------------------------------------------------------------
(* While the layout is mounted, the client is open for business and has a  *)
(* socket or a timer.  Until it was hasty it has no socket but the last,   *)
(* and no timer beside it; without a layout nothing is left that connects, *)
(* unless disconnect() came when a timer was running.                      *)
Lasting == shell => ~manuallyClosed /\ (Unclosed # {} \/ timers > 0)

Single ==
  ~hasty =>
    /\ Unclosed \subseteq {socket}
    /\ timers <= 1
    /\ timers = 1 => Unclosed = {}
    /\ ~shell /\ ~late =>
         /\ timers = 0
         /\ \A s \in Sockets : ready[s] \notin Live
         /\ Unclosed # {} => manuallyClosed

ClientInv ==
  /\ Numbered
  /\ shell \in BOOLEAN /\ manuallyClosed \in BOOLEAN
  /\ timers \in Nat /\ hasty \in BOOLEAN /\ late \in BOOLEAN
  /\ Lasting /\ Single

LEMMA InitClient == Init => ClientInv
<1> SUFFICES ASSUME Init PROVE ClientInv
  OBVIOUS
<1>1. \A s \in Sockets : ready[s] = "none"
  BY DEF Init
<1>2. Numbered
  BY <1>1 DEF Init, Numbered, Sockets
<1>3. Unclosed = {}
  BY <1>1 DEF Unclosed, Live
<1>4. ~shell /\ timers = 0 /\ ~hasty /\ ~late /\ manuallyClosed = FALSE
  BY DEF Init
<1>5. \A s \in Sockets : ready[s] \notin Live
  BY <1>1 DEF Live
<1>6. Lasting /\ Single
  BY <1>3, <1>4, <1>5 DEF Lasting, Single
<1> QED
  BY <1>2, <1>6 DEF Init, ClientInv

LEMMA RetryKeeps == ASSUME ClientInv, Retry PROVE ClientInv'
<1>1. Connect({}) /\ timers > 0 /\ timers' = timers - 1 /\ UNCHANGED <<shell, hasty, late>>
  BY DEF Retry, tabVars
<1>2. /\ socket' = socket + 1 /\ socket + 1 \in Sockets /\ manuallyClosed' = FALSE
      /\ Numbered' /\ ready'[socket + 1] = "connecting"
      /\ \A s \in Sockets \ {socket + 1} : ready'[s] = ready[s]
  BY <1>1, ConnectsAnew DEF ClientInv
<1>3. Unclosed' = Unclosed \cup {socket + 1}
  BY <1>2 DEF Unclosed, Live, Numbered, ClientInv
<1>4. timers' \in Nat
  BY <1>1 DEF ClientInv
<1>5. Lasting'
  BY <1>1, <1>2, <1>3 DEF Lasting
<1>6. Single'
  BY <1>1, <1>2, <1>3, <1>4 DEF Single, ClientInv
<1> QED
  BY <1>1, <1>2, <1>4, <1>5, <1>6 DEF ClientInv

LEMMA MountKeeps == ASSUME ClientInv, Mount PROVE ClientInv'
<1>1. /\ Connect({}) /\ shell' = TRUE /\ UNCHANGED <<timers, late>>
      /\ hasty' = (hasty \/ Unclosed # {} \/ timers > 0)
  BY DEF Mount
<1>2. /\ socket' = socket + 1 /\ socket + 1 \in Sockets /\ manuallyClosed' = FALSE
      /\ Numbered' /\ ready'[socket + 1] = "connecting"
      /\ \A s \in Sockets \ {socket + 1} : ready'[s] = ready[s]
  BY <1>1, ConnectsAnew DEF ClientInv
<1>3. Unclosed' = Unclosed \cup {socket + 1}
  BY <1>2 DEF Unclosed, Live, Numbered, ClientInv
<1>4. Lasting'
  BY <1>1, <1>2, <1>3 DEF Lasting
<1>5. Single'
  BY <1>1, <1>2, <1>3 DEF Single, ClientInv
<1> QED
  BY <1>1, <1>2, <1>4, <1>5 DEF ClientInv

LEMMA ChangeUserKeeps == ASSUME ClientInv, ChangeUser PROVE ClientInv'
<1>1. /\ Connect({socket}) /\ shell /\ UNCHANGED <<shell, timers, late>>
      /\ hasty' = (hasty \/ Unclosed # {} \/ timers > 0)
  BY DEF ChangeUser, tabVars
<1>2. /\ manuallyClosed' = FALSE /\ Numbered' /\ socket + 1 \in Sockets
      /\ ready'[socket + 1] = "connecting"
  BY <1>1, ConnectsNext DEF ClientInv
<1>3. Unclosed' # {}
  BY <1>2 DEF Unclosed, Live
<1>4. hasty'
  BY <1>1 DEF ClientInv, Lasting
<1> QED
  BY <1>1, <1>2, <1>3, <1>4 DEF ClientInv, Lasting, Single

LEMMA UnmountKeeps == ASSUME ClientInv, Unmount PROVE ClientInv'
<1>1. /\ shell /\ shell' = FALSE /\ manuallyClosed' = TRUE
      /\ UNCHANGED <<socket, timers, hasty>> /\ late' = (late \/ timers > 0)
      /\ ready' = [s \in Sockets |->
           IF s = socket /\ ready[s] \in Live THEN "closing" ELSE ready[s]]
  BY DEF Unmount
<1>2. Numbered'
  BY <1>1 DEF Numbered, ClientInv, Live
<1>3. Unclosed' = Unclosed
  BY <1>1 DEF Unclosed, Live, Numbered, ClientInv
<1>4. ~hasty => \A s \in Sockets : ready'[s] \notin Live
  <2> SUFFICES ASSUME ~hasty, NEW s \in Sockets PROVE ready'[s] \notin Live
    OBVIOUS
  <2>1. ready[s] \in Live => s = socket
    BY DEF ClientInv, Single, Unclosed
  <2> QED
    BY <1>1, <2>1 DEF Live
<1>5. Lasting'
  BY <1>1 DEF Lasting
<1>6. Single'
  <2> SUFFICES ASSUME ~hasty PROVE Single'
    BY <1>1 DEF Single
  <2>1. Unclosed \subseteq {socket} /\ timers \in Nat /\ timers <= 1 /\ (timers = 1 => Unclosed = {})
    BY DEF ClientInv, Single
  <2>2. ~late' => timers = 0
    <3>1. CASE timers > 0
      BY <1>1, <3>1
    <3>2. CASE ~(timers > 0)
      BY <2>1, <3>2
    <3> QED
      BY <3>1, <3>2
  <2> QED
    BY <1>1, <1>3, <1>4, <2>1, <2>2 DEF Single
<1> QED
  BY <1>1, <1>2, <1>5, <1>6 DEF ClientInv

LEMMA OpenedKeeps ==
  ASSUME ClientInv, NEW s \in Sockets, Opened(s) PROVE ClientInv'
<1>1. /\ ready[s] = "connecting" /\ ready' = [ready EXCEPT ![s] = "open"]
      /\ UNCHANGED <<shell, clientVars>>
  BY DEF Opened, tabVars
<1>2. Numbered'
  BY <1>1 DEF Numbered, ClientInv, Live, clientVars
<1>3. Unclosed' = Unclosed /\ ready[s] \in Live
  BY <1>1 DEF Unclosed, Live, Numbered, ClientInv
<1> QED
  BY <1>1, <1>2, <1>3 DEF ClientInv, Lasting, Single, clientVars

LEMMA DropKeeps ==
  ASSUME ClientInv, NEW s \in Sockets, Drop(s) PROVE ClientInv'
<1>1. /\ ready[s] \in Live /\ ready' = [ready EXCEPT ![s] = "closing"]
      /\ UNCHANGED <<shell, clientVars>>
  BY DEF Drop, tabVars
<1>2. Numbered'
  BY <1>1 DEF Numbered, ClientInv, Live, clientVars
<1>3. Unclosed' = Unclosed
  BY <1>1 DEF Unclosed, Live, Numbered, ClientInv
<1> QED
  BY <1>1, <1>2, <1>3 DEF ClientInv, Lasting, Single, clientVars

LEMMA ClosedKeeps ==
  ASSUME ClientInv, NEW s \in Sockets, Closed(s) PROVE ClientInv'
<1>1. /\ ready[s] = "closing" /\ ready' = [ready EXCEPT ![s] = "closed"]
      /\ timers' = IF manuallyClosed THEN timers ELSE timers + 1
      /\ UNCHANGED <<shell, socket, manuallyClosed, hasty, late>>
  BY DEF Closed, Scheduled, tabVars
<1>2. Numbered'
  BY <1>1 DEF Numbered, ClientInv, Live
<1>3. Unclosed' = Unclosed \ {s} /\ s \in Unclosed
  BY <1>1 DEF Unclosed, Live, Numbered, ClientInv
<1>4. timers' \in Nat
  BY <1>1 DEF ClientInv
<1>5. Lasting'
  BY <1>1 DEF ClientInv, Lasting
<1>6. \A t \in Sockets : ready'[t] \in Live => ready[t] \in Live
  BY <1>1 DEF Live, Numbered, ClientInv
<1>7. Single'
  <2> SUFFICES ASSUME ~hasty PROVE Single'
    BY <1>1 DEF Single
  <2>1. Unclosed = {s} /\ s = socket /\ timers = 0 /\ Unclosed' = {}
    BY <1>3 DEF ClientInv, Single
  <2> QED
    BY <1>1, <1>6, <2>1 DEF ClientInv, Single
<1> QED
  BY <1>1, <1>2, <1>4, <1>5, <1>7 DEF ClientInv

LEMMA NextClient == ClientInv /\ [Next]_vars => ClientInv'
<1> SUFFICES ASSUME ClientInv, [Next]_vars PROVE ClientInv'
  OBVIOUS
<1>1. CASE UNCHANGED <<shell, clientVars, ready>>
  BY <1>1 DEF ClientInv, Numbered, Lasting, Single, Unclosed, clientVars
<1>2. ASSUME Expire \/ Login PROVE UNCHANGED <<shell, clientVars, ready>>
  BY <1>2 DEF Expire, Login
<1>3. ASSUME NEW r \in Rooms, OpenPage(r) \/ ClosePage(r) \/ Broadcast(r)
      PROVE  UNCHANGED <<shell, clientVars, ready>>
  BY <1>3 DEF OpenPage, ClosePage, Broadcast, tabVars
<1>4. ASSUME NEW s \in Sockets, Message(s) \/ Attach(s) \/ LoseFrame(s) \/ TakeFrame(s)
      PROVE  UNCHANGED <<shell, clientVars, ready>>
  BY <1>4 DEF Message, Attach, LoseFrame, TakeFrame, tabVars
<1>8. ASSUME NEW s \in Sockets, NEW r \in Rooms, FinishSubscribe(s, r)
      PROVE  UNCHANGED <<shell, clientVars, ready>>
  BY <1>8 DEF FinishSubscribe, tabVars
<1>5. ASSUME NEW s \in Sockets, Opened(s) \/ Closed(s) \/ Drop(s) \/ Refuse(s) PROVE ClientInv'
  BY <1>5, OpenedKeeps, ClosedKeeps, DropKeeps DEF Refuse
<1>6. ASSUME Retry \/ Mount \/ Unmount \/ ChangeUser PROVE ClientInv'
  BY <1>6, RetryKeeps, MountKeeps, UnmountKeeps, ChangeUserKeeps
<1>7. CASE UNCHANGED vars
  BY <1>1, <1>7 DEF vars, tabVars, clientVars
<1> QED
  BY <1>1, <1>2, <1>3, <1>4, <1>5, <1>6, <1>7, <1>8 DEF Next

(* The app has one socket, or one timer, until it is hasty.                *)
THEOREM OneSocket == Spec => []OneSocketUntilHasty
<1>1. ClientInv => OneSocketUntilHasty
  BY DEF ClientInv, Single, OneSocketUntilHasty
<1> QED
  BY <1>1, InitClient, NextClient, PTL DEF Spec

(* A mounted layout always has a socket or a timer that will make one.     *)
THEOREM AlwaysOneToCome == Spec => []NeverStranded
<1>1. ClientInv => NeverStranded
  BY DEF ClientInv, Lasting, NeverStranded
<1> QED
  BY <1>1, InitClient, NextClient, PTL DEF Spec

(* Nothing is left open without a layout.                                  *)
THEOREM TornDown == Spec => []TornDownUnlessLate
<1>1. ClientInv => TornDownUnlessLate
  BY DEF ClientInv, Single, TornDownUnlessLate
<1> QED
  BY <1>1, InitClient, NextClient, PTL DEF Spec

----------------------------------------------------------------------------
(* Types.  The rooms of the mounted pages are finite, so that they can be  *)
(* replayed as a sequence of frames.                                       *)

LEMMA SeqOfSet ==
  ASSUME NEW S, IsFiniteSet(S)
  PROVE  /\ SetToSeq(S) \in Seq(S)
         /\ \A x \in S : \E i \in 1 .. Len(SetToSeq(S)) : SetToSeq(S)[i] = x
<1> DEFINE n == Cardinality(S)
<1>1. n \in Nat /\ ExistsBijection(1 .. n, S)
  BY FS_CardinalityType
<1>2. PICK f \in [1 .. n -> S] : IsInjective(f)
  BY <1>1 DEF ExistsBijection, Bijection, Injection
<1>3. SetToSeq(S) \in [1 .. n -> S] /\ IsInjective(SetToSeq(S))
  BY <1>2 DEF SetToSeq
<1>4. Cardinality(1 .. n) = n
  BY <1>1, FS_Interval
<1>5. SetToSeq(S) \in Surjection(1 .. n, S)
  BY <1>3, <1>4, FS_Injection DEF Injection
<1>6. SetToSeq(S) \in Seq(S) /\ Len(SetToSeq(S)) = n
  BY <1>1, <1>3
<1> QED
  BY <1>5, <1>6 DEF Surjection

LEMMA ReplayedFinite ==
  ASSUME rooms \in SUBSET Rooms PROVE IsFiniteSet({Frame("subscribe", r) : r \in rooms})
<1> DEFINE S == {Frame("subscribe", r) : r \in rooms}
           f == [r \in rooms |-> Frame("subscribe", r)]
<1>1. IsFiniteSet(rooms)
  BY FS_Subset
<1>2. f \in Surjection(rooms, S)
  BY DEF Surjection
<1> QED
  BY <1>1, <1>2, FS_Surjection DEF ExistsSurjection

LEMMA ReplayedType == ASSUME rooms \in SUBSET Rooms PROVE Replayed \in Seq(Frames)
<1> DEFINE S == {Frame("subscribe", r) : r \in rooms}
<1>1. SetToSeq(S) \in Seq(S)
  BY ReplayedFinite, SeqOfSet
<1>2. S \subseteq Frames
  BY DEF Frame, Frames
<1> QED
  BY <1>1, <1>2 DEF Replayed

LEMMA SendType ==
  ASSUME TypeOK, NEW frames \in Seq(Frames), Send(frames)
  PROVE  up' \in [Sockets -> Seq(Frames)]
BY DEF TypeOK, Send, Sockets

LEMMA ForgetType ==
  ASSUME TypeOK, NEW gone, Forget(gone)
  PROVE  /\ up' \in [Sockets -> Seq(Frames)]
         /\ down' \in [Sockets -> Seq(1 .. MaxEvents)]
         /\ serving' \in [Sockets -> {"none", "awaiting", "refused", "listening", "gone"}]
         /\ pending' \in [Sockets \X Rooms -> Nat]
         /\ index' \in SUBSET (Sockets \X Rooms) /\ overtaken' \in SUBSET (Sockets \X Rooms)
         /\ lost' \in SUBSET Sockets
         /\ events' \in Seq(Rooms) /\ heard' \in [1 .. MaxEvents -> Nat]
<1>1. /\ up' \in [Sockets -> Seq(Frames)]
      /\ down' \in [Sockets -> Seq(1 .. MaxEvents)]
  BY EmptySeq DEF TypeOK, Forget
<1>2. /\ serving' \in [Sockets -> {"none", "awaiting", "refused", "listening", "gone"}]
      /\ pending' \in [Sockets \X Rooms -> Nat]
  BY DEF TypeOK, Forget
<1>3. /\ index' \in SUBSET (Sockets \X Rooms) /\ overtaken' \in SUBSET (Sockets \X Rooms)
      /\ lost' \in SUBSET Sockets
  BY DEF TypeOK, Forget, Without
<1> QED
  BY <1>1, <1>2, <1>3 DEF TypeOK, Forget

LEMMA NextType == TypeOK /\ ClientInv /\ [Next]_vars => TypeOK'
<1> SUFFICES ASSUME TypeOK, ClientInv, [Next]_vars PROVE TypeOK'
  OBVIOUS
<1> USE DEF tabVars, clientVars, serverVars, roomVars, eventVars
<1>1. /\ socket' \in 0 .. MaxSockets /\ timers' \in Nat /\ hasty' \in BOOLEAN /\ late' \in BOOLEAN
      /\ shell' \in BOOLEAN /\ manuallyClosed' \in BOOLEAN
      /\ ready' \in [Sockets -> {"none", "closing", "closed"} \cup Live]
  BY NextClient DEF ClientInv, Numbered
<1>2. CASE Retry \/ Mount \/ Expire \/ Login
  BY <1>1, <1>2 DEF TypeOK, Retry, Mount, Expire, Login
<1>13. CASE Unmount \/ ChangeUser
  <2>1. PICK gone : Forget(gone)
    BY <1>13 DEF Unmount, ChangeUser
  <2>2. token' \in BOOLEAN /\ rooms' \in SUBSET Rooms
    BY <1>13 DEF TypeOK, Unmount, ChangeUser
  <2> QED
    BY <1>1, <2>1, <2>2, ForgetType DEF TypeOK
<1>3. ASSUME NEW r \in Rooms, OpenPage(r) \/ ClosePage(r) PROVE TypeOK'
  <2>1. \A type \in {"subscribe", "unsubscribe"} : <<Frame(type, r)>> \in Seq(Frames)
    BY DEF Frame, Frames
  <2>2. up' \in [Sockets -> Seq(Frames)]
    BY <1>3, <2>1, SendType DEF OpenPage, ClosePage
  <2> QED
    BY <1>1, <1>3, <2>2 DEF TypeOK, OpenPage, ClosePage
<1>4. ASSUME NEW r \in Rooms, Broadcast(r) PROVE TypeOK'
  <2>1. Len(events) + 1 \in 1 .. MaxEvents
    BY <1>4 DEF TypeOK, Broadcast
  <2>2. \A s \in Sockets : Append(down[s], Len(events) + 1) \in Seq(1 .. MaxEvents)
    BY <2>1, AppendProperties DEF TypeOK
  <2>3. down' \in [Sockets -> Seq(1 .. MaxEvents)]
    BY <1>4, <2>2 DEF TypeOK, Broadcast
  <2>4. events' \in Seq(Rooms)
    BY <1>4 DEF TypeOK, Broadcast
  <2> QED
    BY <1>1, <1>4, <2>3, <2>4 DEF TypeOK, Broadcast
<1>5. ASSUME NEW s \in Sockets, Opened(s) PROVE TypeOK'
  <2>1. up' \in [Sockets -> Seq(Frames)]
    BY <1>5, ReplayedType, SendType DEF TypeOK, Opened
  <2> QED
    BY <1>1, <1>5, <2>1 DEF TypeOK, Opened
<1>6. ASSUME NEW s \in Sockets, Closed(s) PROVE TypeOK'
  BY <1>1, <1>6 DEF TypeOK, Closed
<1>7. ASSUME NEW s \in Sockets, Message(s) PROVE TypeOK'
  <2>1. Head(down[s]) \in 1 .. MaxEvents /\ Tail(down[s]) \in Seq(1 .. MaxEvents)
    BY <1>7 DEF TypeOK, Message
  <2>2. heard' \in [1 .. MaxEvents -> Nat] /\ down' \in [Sockets -> Seq(1 .. MaxEvents)]
    BY <1>7, <2>1 DEF TypeOK, Message
  <2> QED
    BY <1>1, <1>7, <2>2 DEF TypeOK, Message
<1>8. ASSUME NEW s \in Sockets, Drop(s) \/ Refuse(s) PROVE TypeOK'
  <2>1. Forget({s}) /\ token' = token /\ rooms' = rooms
    BY <1>8 DEF Drop, Refuse
  <2> QED
    BY <1>1, <2>1, ForgetType DEF TypeOK
<1>14. ASSUME NEW s \in Sockets, Attach(s) PROVE TypeOK'
  BY <1>1, <1>14 DEF TypeOK, Attach
<1>9. ASSUME NEW s \in Sockets, LoseFrame(s) PROVE TypeOK'
  <2>1. Tail(up[s]) \in Seq(Frames)
    BY <1>9 DEF TypeOK, LoseFrame
  <2> QED
    BY <1>1, <1>9, <2>1 DEF TypeOK, LoseFrame
<1>10. ASSUME NEW s \in Sockets, TakeFrame(s) PROVE TypeOK'
  <2>1. Tail(up[s]) \in Seq(Frames) /\ Head(up[s]) \in Frames
    BY <1>10 DEF TypeOK, TakeFrame
  <2>2. <<s, Head(up[s]).room>> \in Sockets \X Rooms
    BY <2>1 DEF Frames
  <2> DEFINE i == <<s, Head(up[s]).room>>
  <2>3. \/ /\ pending' = [pending EXCEPT ![i] = @ + 1]
           /\ overtaken' = overtaken \ {i} /\ index' = index
        \/ /\ pending' = pending /\ index' = index \ {i}
           /\ overtaken' \in {overtaken \cup {i}, overtaken \ {i}}
    BY <1>10 DEF TakeFrame
  <2> HIDE DEF i
  <2>4. /\ pending' \in [Sockets \X Rooms -> Nat]
        /\ index' \in SUBSET (Sockets \X Rooms) /\ overtaken' \in SUBSET (Sockets \X Rooms)
    <3>1. /\ pending \in [Sockets \X Rooms -> Nat] /\ i \in Sockets \X Rooms
          /\ index \in SUBSET (Sockets \X Rooms) /\ overtaken \in SUBSET (Sockets \X Rooms)
      BY <2>2 DEF TypeOK, i
    <3> QED
      BY <2>3, <3>1
  <2> QED
    BY <1>1, <1>10, <2>1, <2>4 DEF TypeOK, TakeFrame
<1>12. ASSUME NEW s \in Sockets, NEW r \in Rooms, FinishSubscribe(s, r) PROVE TypeOK'
  BY <1>1, <1>12 DEF TypeOK, FinishSubscribe
<1>11. CASE UNCHANGED vars
  BY <1>11 DEF TypeOK, vars
<1> QED
  BY <1>2, <1>3, <1>4, <1>5, <1>6, <1>7, <1>8, <1>9, <1>10, <1>11, <1>12, <1>13, <1>14 DEF Next

(* Type correctness.                                                       *)
THEOREM TypeCorrect == Spec => []TypeOK
<1>1. Init => TypeOK
  <2> SUFFICES ASSUME Init PROVE TypeOK
    OBVIOUS
  <2>1. up \in [Sockets -> Seq(Frames)] /\ down \in [Sockets -> Seq(1 .. MaxEvents)]
    BY EmptySeq DEF Init
  <2>2. events \in Seq(Rooms) /\ heard \in [1 .. MaxEvents -> Nat]
    BY EmptySeq DEF Init
  <2>3. /\ ready \in [Sockets -> {"none", "closing", "closed"} \cup Live]
        /\ serving \in [Sockets -> {"none", "awaiting", "refused", "listening", "gone"}]
    BY DEF Init
  <2>4. socket \in 0 .. MaxSockets /\ timers \in Nat
    BY DEF Init
  <2>5. /\ shell \in BOOLEAN /\ token \in BOOLEAN /\ manuallyClosed \in BOOLEAN
        /\ hasty \in BOOLEAN /\ late \in BOOLEAN
    BY DEF Init
  <2>6. /\ rooms \in SUBSET Rooms /\ lost \in SUBSET Sockets
        /\ index \in SUBSET (Sockets \X Rooms) /\ overtaken \in SUBSET (Sockets \X Rooms)
        /\ pending \in [Sockets \X Rooms -> Nat]
    BY DEF Init
  <2> QED
    BY <2>1, <2>2, <2>3, <2>4, <2>5, <2>6, Zenon DEF TypeOK
<1> QED
  BY <1>1, InitClient, NextClient, NextType, PTL DEF Spec

----------------------------------------------------------------------------
(* The steps in which sockets begin to close.                              *)

Ends(gone) ==
  /\ Forget(gone)
  /\ \A s \in Sockets : ready'[s] = "open" <=> ready[s] = "open" /\ s \notin gone
  /\ socket' # 0 /\ ready'[socket'] = "open" => UNCHANGED <<socket, rooms>>

LEMMA SomeEnd ==
  ASSUME ClientInv, Unmount \/ ChangeUser \/ \E s \in Sockets : Drop(s)
  PROVE  \E gone : Ends(gone)
<1> USE DEF ClientInv, Numbered, Live
<1>1. CASE Unmount
  <2>1. /\ Forget({socket}) /\ socket' = socket
        /\ ready' = [s \in Sockets |->
             IF s = socket /\ ready[s] \in Live THEN "closing" ELSE ready[s]]
    BY <1>1 DEF Unmount
  <2>2. \A s \in Sockets : ready'[s] = "open" <=> ready[s] = "open" /\ s \notin {socket}
    BY <2>1
  <2>3. socket' # 0 => ready'[socket'] # "open"
    BY <2>1, <2>2 DEF Sockets
  <2> QED
    BY <2>1, <2>2, <2>3 DEF Ends
<1>2. CASE ChangeUser
  <2>1. Forget({socket}) /\ Connect({socket})
    BY <1>2 DEF ChangeUser
  <2>2. /\ socket' = socket + 1 /\ socket + 1 \in Sockets
        /\ ready'[socket + 1] = "connecting"
        /\ \A s \in Sockets \ {socket + 1} :
             ready'[s] = IF s \in {socket} /\ ready[s] \in Live THEN "closing" ELSE ready[s]
    BY <2>1, ConnectsNext
  <2>3. ready[socket + 1] = "none"
    BY <2>2 DEF Sockets
  <2>4. \A s \in Sockets : ready'[s] = "open" <=> ready[s] = "open" /\ s \notin {socket}
    BY <2>2, <2>3
  <2> QED
    BY <2>1, <2>2, <2>4 DEF Ends
<1>3. ASSUME NEW s \in Sockets, Drop(s) PROVE Ends({s})
  <2>1. /\ Forget({s}) /\ UNCHANGED <<socket, rooms>>
        /\ ready' = [ready EXCEPT ![s] = "closing"]
    BY <1>3 DEF Drop, clientVars, tabVars
  <2> QED
    BY <2>1 DEF Ends
<1> QED
  BY <1>1, <1>2, <1>3

(* No other step takes an open socket away.                                *)
LEMMA OpenStays ==
  ASSUME ClientInv, [Next]_vars, ~Unmount, ~ChangeUser, \A t \in Sockets : ~Drop(t),
         NEW s \in Sockets, ready[s] = "open"
  PROVE  ready'[s] = "open"
<1> USE DEF ClientInv, Numbered
<1>1. CASE UNCHANGED ready
  BY <1>1
<1>2. CASE Retry \/ Mount
  <2>1. Connect({})
    BY <1>2 DEF Retry, Mount
  <2>2. /\ socket + 1 \in Sockets
        /\ \A t \in Sockets \ {socket + 1} : ready'[t] = ready[t]
    BY <2>1, ConnectsAnew
  <2> QED
    BY <2>2 DEF Sockets
<1>3. ASSUME NEW t \in Sockets, Opened(t) \/ Closed(t) PROVE ready'[s] = "open"
  BY <1>3 DEF Opened, Closed
<1>4. CASE Expire \/ Login \/ UNCHANGED vars
  BY <1>4 DEF Expire, Login, vars
<1>5. ASSUME NEW r \in Rooms, OpenPage(r) \/ ClosePage(r) \/ Broadcast(r)
      PROVE  UNCHANGED ready
  BY <1>5 DEF OpenPage, ClosePage, Broadcast
<1>6. ASSUME NEW t \in Sockets, Message(t) \/ Attach(t) \/ LoseFrame(t) \/ TakeFrame(t)
      PROVE  UNCHANGED ready
  BY <1>6 DEF Message, Attach, LoseFrame, TakeFrame
<1>7. ASSUME NEW t \in Sockets, NEW r \in Rooms, FinishSubscribe(t, r) PROVE UNCHANGED ready
  BY <1>7 DEF FinishSubscribe
<1> QED
  BY <1>1, <1>2, <1>3, <1>4, <1>5, <1>6, <1>7 DEF Next, Refuse

----------------------------------------------------------------------------
(* Events.  They are numbered as they come from the bus, so those on their *)
(* way over a socket are in ascending order, and only an open socket has   *)
(* any.  While there is one socket, what has been heard is older than all  *)
(* that is on its way.                                                     *)

OnTheirWay ==
  \A s \in Sockets :
    /\ \A i \in 1 .. Len(down[s]) : down[s][i] <= Len(events)
    /\ \A i, j \in 1 .. Len(down[s]) : i < j => down[s][i] < down[s][j]
    /\ down[s] # <<>> => ready[s] = "open"

HeardBefore ==
  ~hasty => \A n \in 1 .. MaxEvents :
    /\ heard[n] <= 1
    /\ heard[n] = 1 =>
         /\ n <= Len(events)
         /\ \A s \in Sockets : \A i \in 1 .. Len(down[s]) : n < down[s][i]

EventInv == OnTheirWay /\ HeardBefore

LEMMA HastyForGood == ASSUME ClientInv, [Next]_vars, hasty PROVE hasty'
BY DEF ClientInv, Next, vars, clientVars, Retry, Mount, Unmount, ChangeUser, Expire, Login,
   OpenPage, ClosePage, Broadcast, Opened, Closed, Message, Drop, Refuse, Attach,
   LoseFrame, TakeFrame, FinishSubscribe

(* A step in which no event moves.                                         *)
LEMMA EventsUntouched ==
  ASSUME EventInv, ClientInv, [Next]_vars, UNCHANGED eventVars,
         \A s \in Sockets : ready[s] = "open" => ready'[s] = "open"
  PROVE  EventInv'
<1>1. UNCHANGED <<down, events, heard>>
  BY DEF eventVars
<1>2. hasty => hasty'
  BY HastyForGood
<1>3. OnTheirWay'
  BY <1>1 DEF EventInv, OnTheirWay
<1>4. HeardBefore'
  BY <1>1, <1>2 DEF EventInv, HeardBefore
<1> QED
  BY <1>3, <1>4 DEF EventInv

(* A step in which sockets begin to close takes their events with them.    *)
LEMMA EndsKeepEvents ==
  ASSUME EventInv, ClientInv, [Next]_vars, NEW gone, Ends(gone)
  PROVE  EventInv'
<1>1. /\ UNCHANGED <<events, heard>>
      /\ \A s \in Sockets : s \in gone => down'[s] = <<>> /\ Len(down'[s]) = 0
      /\ \A s \in Sockets : s \notin gone => down'[s] = down[s]
      /\ \A s \in Sockets : ready[s] = "open" /\ s \notin gone => ready'[s] = "open"
  BY DEF Ends, Forget
<1>2. hasty => hasty'
  BY HastyForGood
<1>3. OnTheirWay'
  <2> SUFFICES ASSUME NEW s \in Sockets
               PROVE  /\ \A i \in 1 .. Len(down'[s]) : down'[s][i] <= Len(events')
                      /\ \A i, j \in 1 .. Len(down'[s]) : i < j => down'[s][i] < down'[s][j]
                      /\ down'[s] # <<>> => ready'[s] = "open"
    BY DEF OnTheirWay
  <2>1. CASE s \in gone
    BY <1>1, <2>1
  <2>2. CASE s \notin gone
    BY <1>1, <2>2 DEF EventInv, OnTheirWay
  <2> QED
    BY <2>1, <2>2
<1>4. HeardBefore'
  BY <1>1, <1>2 DEF EventInv, HeardBefore
<1> QED
  BY <1>3, <1>4 DEF EventInv

LEMMA BroadcastKeeps ==
  ASSUME EventInv, TypeOK, NEW r \in Rooms, Broadcast(r) PROVE EventInv'
<1> DEFINE n == Len(events) + 1
<1>1. /\ n \in 1 .. MaxEvents /\ Len(events) \in Nat
      /\ Len(events') = n
      /\ UNCHANGED <<ready, hasty, heard>>
  BY DEF Broadcast, TypeOK, clientVars
<1>2. ASSUME NEW s \in Sockets
      PROVE  \/ /\ down'[s] = down[s]
                /\ \A i \in 1 .. Len(down'[s]) : down'[s][i] = down[s][i]
             \/ /\ ready[s] = "open"
                /\ Len(down'[s]) = Len(down[s]) + 1
                /\ \A i \in 1 .. Len(down[s]) : down'[s][i] = down[s][i]
                /\ down'[s][Len(down[s]) + 1] = n
  <2>1. down[s] \in Seq(1 .. MaxEvents)
    BY DEF TypeOK
  <2>2. CASE <<s, r>> \in index /\ ready[s] = "open"
    <3>1. down'[s] = Append(down[s], n)
      BY <2>2 DEF Broadcast
    <3> HIDE DEF n
    <3> QED
      BY <1>1, <2>1, <2>2, <3>1, AppendProperties
  <2>3. CASE ~(<<s, r>> \in index /\ ready[s] = "open")
    BY <2>3 DEF Broadcast
  <2> QED
    BY <2>2, <2>3
<1>3. \A s \in Sockets : Len(down[s]) \in Nat /\ \A i \in 1 .. Len(down[s]) : down[s][i] \in Nat
  BY LenProperties, ElementOfSeq DEF TypeOK
<1> HIDE DEF n
<1>4. ready' = ready
  BY <1>1
<1>5. n = Len(events) + 1
  BY DEF n
<1>6. ASSUME NEW s \in Sockets
      PROVE  /\ \A i \in 1 .. Len(down'[s]) : down'[s][i] <= Len(events')
             /\ \A i, j \in 1 .. Len(down'[s]) : i < j => down'[s][i] < down'[s][j]
             /\ down'[s] # <<>> => ready'[s] = "open"
  <2>1. Len(down[s]) \in Nat /\ \A i \in 1 .. Len(down[s]) : down[s][i] \in Nat
    BY <1>3
  <2>2. CASE /\ down'[s] = down[s]
             /\ \A i \in 1 .. Len(down'[s]) : down'[s][i] = down[s][i]
    BY <1>1, <1>4, <1>5, <2>1, <2>2 DEF EventInv, OnTheirWay
  <2>3. CASE /\ ready[s] = "open"
             /\ Len(down'[s]) = Len(down[s]) + 1
             /\ \A i \in 1 .. Len(down[s]) : down'[s][i] = down[s][i]
             /\ down'[s][Len(down[s]) + 1] = n
    <3>1. \A i \in 1 .. Len(down'[s]) :
            \/ i \in 1 .. Len(down[s]) /\ down'[s][i] = down[s][i]
            \/ i = Len(down[s]) + 1 /\ down'[s][i] = n
      BY <2>1, <2>3
    <3>2. \A i \in 1 .. Len(down[s]) : down[s][i] < n
      BY <1>1, <1>5, <2>1 DEF EventInv, OnTheirWay
    <3>3. \A i \in 1 .. Len(down'[s]) : down'[s][i] <= n
      BY <1>1, <2>1, <3>1, <3>2
    <3>4. ASSUME NEW i \in 1 .. Len(down'[s]), NEW j \in 1 .. Len(down'[s]), i < j
          PROVE  down'[s][i] < down'[s][j]
      <4>1. i \in 1 .. Len(down[s]) /\ down'[s][i] = down[s][i]
        BY <2>1, <2>3, <3>1, <3>4
      <4>2. CASE j = Len(down[s]) + 1
        BY <2>3, <3>2, <4>1, <4>2
      <4>3. CASE j \in 1 .. Len(down[s])
        BY <2>3, <3>4, <4>1, <4>3 DEF EventInv, OnTheirWay
      <4> QED
        BY <3>1, <4>2, <4>3
    <3> QED
      BY <1>1, <1>4, <2>3, <3>3, <3>4
  <2> QED
    BY <1>2, <2>2, <2>3
<1>7. ASSUME ~hasty', NEW m \in 1 .. MaxEvents
      PROVE  /\ heard'[m] <= 1
             /\ heard'[m] = 1 =>
                  /\ m <= Len(events')
                  /\ \A s \in Sockets : \A i \in 1 .. Len(down'[s]) : m < down'[s][i]
  <2>1. heard'[m] = heard[m] /\ heard[m] <= 1 /\ (heard[m] = 1 => m <= Len(events))
    BY <1>1, <1>7 DEF EventInv, HeardBefore
  <2>2. ASSUME heard[m] = 1, NEW s \in Sockets, NEW i \in 1 .. Len(down'[s])
        PROVE  m < down'[s][i]
    <3>1. \/ i \in 1 .. Len(down[s]) /\ down'[s][i] = down[s][i]
          \/ down'[s][i] = n
      BY <1>2, <1>3
    <3> QED
      BY <1>1, <1>5, <1>7, <2>1, <2>2, <3>1 DEF EventInv, HeardBefore
  <2> QED
    BY <1>1, <1>5, <2>1, <2>2
<1> QED
  BY <1>6, <1>7 DEF EventInv, OnTheirWay, HeardBefore

LEMMA MessageKeeps ==
  ASSUME EventInv, ClientInv, TypeOK, NEW s \in Sockets, Message(s) PROVE EventInv'
<1> DEFINE n == Head(down[s])
<1>1. /\ down[s] \in Seq(1 .. MaxEvents) /\ down[s] # <<>>
      /\ down' = [down EXCEPT ![s] = Tail(@)]
      /\ UNCHANGED <<ready, hasty, events>>
      /\ \/ heard' = [heard EXCEPT ![n] = @ + 1]
         \/ heard' = heard
  BY DEF Message, TypeOK, clientVars
<1>2. n = down[s][1] /\ n \in 1 .. MaxEvents
  BY <1>1
<1>3. /\ Len(down[s]) \in Nat /\ Len(Tail(down[s])) = Len(down[s]) - 1
      /\ \A i \in 1 .. Len(Tail(down[s])) : Tail(down[s])[i] = down[s][i + 1]
  BY <1>1, HeadTailProperties
<1>4. down'[s] = Tail(down[s]) /\ \A t \in Sockets \ {s} : down'[t] = down[t]
  BY <1>1 DEF TypeOK
<1>5. \A t \in Sockets : ready[t] = "open" => t \in Unclosed
  BY DEF Unclosed, Live
<1>6. \A t \in Sockets : Len(down[t]) \in Nat /\ \A i \in 1 .. Len(down[t]) : down[t][i] \in Nat
  BY LenProperties, ElementOfSeq DEF TypeOK
<1> HIDE DEF n
<1>7. ASSUME NEW t \in Sockets
      PROVE  /\ \A i \in 1 .. Len(down'[t]) : down'[t][i] <= Len(events')
             /\ \A i, j \in 1 .. Len(down'[t]) : i < j => down'[t][i] < down'[t][j]
             /\ down'[t] # <<>> => ready'[t] = "open"
  <2>1. CASE t = s
    BY <1>1, <1>3, <1>4, <2>1 DEF EventInv, OnTheirWay
  <2>2. CASE t # s
    BY <1>1, <1>4, <2>2 DEF EventInv, OnTheirWay
  <2> QED
    BY <2>1, <2>2
<1>8. ASSUME ~hasty, NEW m \in 1 .. MaxEvents
      PROVE  /\ heard'[m] <= 1
             /\ heard'[m] = 1 =>
                  /\ m <= Len(events)
                  /\ \A t \in Sockets : \A i \in 1 .. Len(down'[t]) : m < down'[t][i]
  <2>1. \A t \in Sockets \ {s} : down'[t] = <<>> /\ Len(down'[t]) = 0
    BY <1>1, <1>4, <1>5, <1>8 DEF EventInv, OnTheirWay, ClientInv, Single
  <2>2. heard[n] = 0 /\ heard[m] \in Nat
    <3>1. 1 \in 1 .. Len(down[s])
      BY <1>1, <1>3, EmptySeq
    <3> QED
      BY <1>2, <1>8, <3>1 DEF EventInv, HeardBefore, TypeOK
  <2>3. CASE m = n
    <3>1. heard'[m] <= 1
      BY <1>1, <1>2, <2>2, <2>3 DEF TypeOK
    <3>2. m <= Len(events)
      BY <1>1, <1>2, <1>3, <2>3, EmptySeq DEF EventInv, OnTheirWay
    <3>3. \A i \in 1 .. Len(down'[s]) : m < down'[s][i]
      BY <1>2, <1>3, <1>4, <2>3 DEF EventInv, OnTheirWay
    <3> QED
      BY <2>1, <3>1, <3>2, <3>3
  <2>4. CASE m # n
    <3>1. heard'[m] = heard[m]
      BY <1>1, <1>2, <2>4 DEF TypeOK
    <3>2. heard[m] = 1 => \A i \in 1 .. Len(down'[s]) : m < down'[s][i]
      BY <1>3, <1>4, <1>8 DEF EventInv, HeardBefore
    <3> QED
      BY <1>8, <2>1, <3>1, <3>2 DEF EventInv, HeardBefore
  <2> QED
    BY <2>3, <2>4
<1> QED
  BY <1>1, <1>7, <1>8 DEF EventInv, OnTheirWay, HeardBefore

LEMMA NextEvents == EventInv /\ ClientInv /\ TypeOK /\ [Next]_vars => EventInv'
<1> SUFFICES ASSUME EventInv, ClientInv, TypeOK, [Next]_vars PROVE EventInv'
  OBVIOUS
<1>1. CASE Unmount \/ ChangeUser \/ \E s \in Sockets : Drop(s)
  BY <1>1, SomeEnd, EndsKeepEvents
<1>2. ASSUME NEW s \in Sockets, Message(s) PROVE EventInv'
  BY <1>2, MessageKeeps
<1>3. ASSUME NEW r \in Rooms, Broadcast(r) PROVE EventInv'
  BY <1>3, BroadcastKeeps
<1>4. CASE /\ ~Unmount /\ ~ChangeUser /\ \A s \in Sockets : ~Drop(s) /\ ~Message(s)
           /\ \A r \in Rooms : ~Broadcast(r)
  <2>1. UNCHANGED eventVars
    BY <1>4 DEF Next, vars, eventVars, Retry, Mount, Expire, Login, OpenPage, ClosePage,
       Opened, Closed, Refuse, Attach, LoseFrame, TakeFrame, FinishSubscribe
  <2> QED
    BY <1>4, <2>1, OpenStays, EventsUntouched
<1> QED
  BY <1>1, <1>2, <1>3, <1>4

(* A mounted page hears an event at most once, for any number of sockets   *)
(* and drops, until the layout connects hastily.                           *)
THEOREM HeardAtMostOnce == Spec => []HeardOnce
<1>1. Init => EventInv
  <2> SUFFICES ASSUME Init PROVE EventInv
    OBVIOUS
  <2>1. \A s \in Sockets : down[s] = <<>> /\ Len(down[s]) = 0
    BY DEF Init
  <2>2. \A n \in 1 .. MaxEvents : heard[n] = 0
    BY DEF Init
  <2> QED
    BY <2>1, <2>2 DEF EventInv, OnTheirWay, HeardBefore
<1>2. EventInv => HeardOnce
  BY DEF EventInv, HeardBefore, HeardOnce
<1> QED
  BY <1>1, <1>2, InitClient, NextClient, NextEvents, TypeCorrect, PTL DEF Spec

----------------------------------------------------------------------------
(* Rooms.  When the gateway has handled the frames that are on their way   *)
(* to it, a socket belongs to a room if the last frame about the room is a *)
(* subscribe, or if there is none and it is in the room already.           *)

Belongs(frames, r, held) ==
  \/ \E i \in 1 .. Len(frames) :
       /\ frames[i] = Frame("subscribe", r)
       /\ \A j \in 1 .. Len(frames) : i < j => frames[j] # Frame("unsubscribe", r)
  \/ r \in held /\ \A i \in 1 .. Len(frames) : frames[i] # Frame("unsubscribe", r)

LEMMA BelongsAppend ==
  ASSUME NEW frames \in Seq(Frames), NEW f \in Frames, NEW r \in Rooms, NEW held
  PROVE  Belongs(frames \o <<f>>, r, held)
         <=> \/ f = Frame("subscribe", r)
             \/ f # Frame("unsubscribe", r) /\ Belongs(frames, r, held)
<1> DEFINE more == frames \o <<f>>
           n == Len(frames)
<1>1. /\ n \in Nat /\ Len(more) = n + 1 /\ more[n + 1] = f
      /\ \A i \in 1 .. n : more[i] = frames[i]
  OBVIOUS
<1>2. Frame("subscribe", r) # Frame("unsubscribe", r)
  BY DEF Frame
<1> HIDE DEF more, n
<1>3. \A i \in 1 .. n + 1 : i \in 1 .. n \/ i = n + 1
  BY <1>1
<1>4. ASSUME f = Frame("subscribe", r) PROVE Belongs(more, r, held)
  <2>1. n + 1 \in 1 .. Len(more) /\ \A j \in 1 .. Len(more) : ~(n + 1 < j)
    BY <1>1
  <2> QED
    BY <1>1, <1>4, <2>1 DEF Belongs
<1>5. ASSUME f # Frame("unsubscribe", r), Belongs(frames, r, held)
      PROVE  Belongs(more, r, held)
  <2>1. \A j \in 1 .. n + 1 : more[j] = Frame("unsubscribe", r) => j \in 1 .. n /\ more[j] = frames[j]
    BY <1>1, <1>3, <1>5
  <2>2. Len(frames) = n /\ 1 .. n \subseteq 1 .. n + 1
    BY <1>1 DEF n
  <2> QED
    BY <1>1, <1>5, <2>1, <2>2 DEF Belongs
<1>6. ASSUME Belongs(more, r, held), f # Frame("subscribe", r)
      PROVE  f # Frame("unsubscribe", r) /\ Belongs(frames, r, held)
  <2>1. Len(frames) = n /\ 1 .. n \subseteq 1 .. n + 1 /\ n + 1 \in 1 .. n + 1
    BY <1>1 DEF n
  <2>2. CASE \E i \in 1 .. Len(more) :
               /\ more[i] = Frame("subscribe", r)
               /\ \A j \in 1 .. Len(more) : i < j => more[j] # Frame("unsubscribe", r)
    <3>1. PICK i \in 1 .. n + 1 :
            /\ more[i] = Frame("subscribe", r)
            /\ \A j \in 1 .. n + 1 : i < j => more[j] # Frame("unsubscribe", r)
      BY <1>1, <2>2
    <3>2. i \in 1 .. n /\ i < n + 1
      BY <1>1, <1>6, <3>1
    <3>3. more[n + 1] # Frame("unsubscribe", r)
      BY <2>1, <3>1, <3>2
    <3> QED
      BY <1>1, <2>1, <3>1, <3>2, <3>3 DEF Belongs
  <2>3. CASE r \in held /\ \A i \in 1 .. Len(more) : more[i] # Frame("unsubscribe", r)
    BY <1>1, <2>1, <2>3 DEF Belongs
  <2> QED
    BY <1>6, <2>2, <2>3 DEF Belongs
<1> QED
  BY <1>2, <1>4, <1>5, <1>6 DEF more

(* The same, of any number of subscribes at once.                          *)
LEMMA BelongsReplay ==
  ASSUME NEW frames \in Seq(Frames), NEW again \in Seq(Frames), NEW r \in Rooms,
         NEW held,
         \A i \in 1 .. Len(again) : again[i].type = "subscribe"
  PROVE  Belongs(frames \o again, r, held)
         <=> \/ \E i \in 1 .. Len(again) : again[i] = Frame("subscribe", r)
             \/ Belongs(frames, r, held)
<1> DEFINE more == frames \o again
           n == Len(frames)
           m == Len(again)
<1>1. /\ n \in Nat /\ m \in Nat /\ Len(more) = n + m
      /\ \A i \in 1 .. n : more[i] = frames[i]
      /\ \A i \in 1 .. m : more[n + i] = again[i]
  OBVIOUS
<1>2. \A i \in 1 .. m : again[i] # Frame("unsubscribe", r)
  BY DEF Frame
<1> HIDE DEF more, n, m
<1>3. ASSUME NEW i \in 1 .. n + m, i \notin 1 .. n
      PROVE  \E k \in 1 .. m : more[i] = again[k]
  <2>1. i - n \in 1 .. m /\ n + (i - n) = i
    BY <1>1, <1>3
  <2>2. more[n + (i - n)] = again[i - n]
    BY <1>1, <2>1
  <2> QED
    BY <2>1, <2>2
<1>4. \A i \in 1 .. n + m : more[i] = Frame("unsubscribe", r) => i \in 1 .. n
  BY <1>1, <1>2, <1>3
<1>5. 1 .. n \subseteq 1 .. n + m /\ Len(frames) = n /\ Len(again) = m
  BY <1>1 DEF n, m
<1>6. ASSUME NEW i \in 1 .. m, again[i] = Frame("subscribe", r) PROVE Belongs(more, r, held)
  <2>1. n + i \in 1 .. n + m /\ \A j \in 1 .. n : ~(n + i < j)
    BY <1>1
  <2> QED
    BY <1>1, <1>4, <1>6, <2>1 DEF Belongs
<1>7. ASSUME Belongs(frames, r, held) PROVE Belongs(more, r, held)
  BY <1>1, <1>4, <1>5, <1>7 DEF Belongs
<1>8. ASSUME Belongs(more, r, held), \A i \in 1 .. m : again[i] # Frame("subscribe", r)
      PROVE  Belongs(frames, r, held)
  <2>1. \A i \in 1 .. n + m : more[i] = Frame("subscribe", r) => i \in 1 .. n
    BY <1>1, <1>3, <1>8
  <2> QED
    BY <1>1, <1>5, <1>8, <2>1 DEF Belongs
<1> QED
  BY <1>5, <1>6, <1>7, <1>8 DEF more

(* Handling the first frame changes nothing of this.                       *)
LEMMA BelongsTail ==
  ASSUME NEW frames \in Seq(Frames), frames # <<>>, NEW r \in Rooms, NEW held, NEW now,
         r \in now <=> \/ Head(frames) = Frame("subscribe", r)
                       \/ Head(frames) # Frame("unsubscribe", r) /\ r \in held
  PROVE  Belongs(frames, r, held) <=> Belongs(Tail(frames), r, now)
<1> DEFINE rest == Tail(frames)
           n == Len(rest)
           first == Head(frames)
<1>1. /\ n \in Nat /\ Len(frames) = n + 1 /\ first = frames[1]
      /\ \A i \in 1 .. n : rest[i] = frames[i + 1]
      /\ r \in now <=> \/ first = Frame("subscribe", r)
                       \/ first # Frame("unsubscribe", r) /\ r \in held
  BY HeadTailProperties, LenProperties
<1>2. Frame("subscribe", r) # Frame("unsubscribe", r)
  BY DEF Frame
<1> HIDE DEF rest, n, first
<1>3. ASSUME NEW i \in 1 .. n + 1, i # 1
      PROVE  i - 1 \in 1 .. n /\ rest[i - 1] = frames[i]
  <2>1. i - 1 \in 1 .. n /\ (i - 1) + 1 = i
    BY <1>1, <1>3
  <2> QED
    BY <1>1, <2>1
<1>4. Len(rest) = n /\ 1 \in 1 .. n + 1 /\ \A i \in 1 .. n : i + 1 \in 1 .. n + 1 /\ 1 < i + 1
  BY <1>1 DEF n
<1>5. ASSUME Belongs(frames, r, held) PROVE Belongs(rest, r, now)
  <2>1. ASSUME NEW i \in 1 .. n + 1, frames[i] = Frame("subscribe", r),
               \A j \in 1 .. n + 1 : i < j => frames[j] # Frame("unsubscribe", r)
        PROVE  Belongs(rest, r, now)
    <3>1. CASE i = 1
      <4>1. r \in now
        BY <1>1, <2>1, <3>1
      <4>2. \A j \in 1 .. n : rest[j] # Frame("unsubscribe", r)
        BY <1>1, <1>4, <2>1, <3>1
      <4> QED
        BY <1>4, <4>1, <4>2 DEF Belongs
    <3>2. CASE i # 1
      <4>1. i - 1 \in 1 .. n /\ rest[i - 1] = Frame("subscribe", r)
        BY <1>1, <1>3, <2>1, <3>2
      <4>2. \A j \in 1 .. n : i - 1 < j => rest[j] # Frame("unsubscribe", r)
        BY <1>1, <1>4, <2>1
      <4> QED
        BY <1>4, <4>1, <4>2 DEF Belongs
    <3> QED
      BY <3>1, <3>2
  <2>2. ASSUME r \in held, \A i \in 1 .. n + 1 : frames[i] # Frame("unsubscribe", r)
        PROVE  Belongs(rest, r, now)
    BY <1>1, <1>4, <2>2 DEF Belongs
  <2> QED
    BY <1>1, <1>5, <2>1, <2>2 DEF Belongs
<1>6. ASSUME Belongs(rest, r, now) PROVE Belongs(frames, r, held)
  <2>1. ASSUME NEW i \in 1 .. n, rest[i] = Frame("subscribe", r),
               \A j \in 1 .. n : i < j => rest[j] # Frame("unsubscribe", r)
        PROVE  Belongs(frames, r, held)
    <3>1. i + 1 \in 1 .. n + 1 /\ frames[i + 1] = Frame("subscribe", r)
      BY <1>1, <1>4, <2>1
    <3>2. ASSUME NEW j \in 1 .. n + 1, i + 1 < j PROVE frames[j] # Frame("unsubscribe", r)
      <4>1. j - 1 \in 1 .. n /\ i < j - 1 /\ (j - 1) + 1 = j
        BY <1>1, <3>2
      <4>2. rest[j - 1] = frames[j]
        BY <1>1, <4>1
      <4> QED
        BY <2>1, <4>1, <4>2
    <3> QED
      BY <1>1, <3>1, <3>2 DEF Belongs
  <2>2. ASSUME r \in now, \A i \in 1 .. n : rest[i] # Frame("unsubscribe", r)
        PROVE  Belongs(frames, r, held)
    <3>1. \A i \in 1 .. n + 1 : i # 1 => frames[i] # Frame("unsubscribe", r)
      BY <1>1, <1>3, <2>2
    <3>2. CASE first = Frame("subscribe", r)
      <4>1. \A j \in 1 .. n + 1 : 1 < j => frames[j] # Frame("unsubscribe", r)
        BY <3>1
      <4> QED
        BY <1>1, <1>4, <3>2, <4>1 DEF Belongs
    <3>3. CASE first # Frame("unsubscribe", r) /\ r \in held
      BY <1>1, <3>1, <3>3 DEF Belongs
    <3> QED
      BY <1>1, <2>2, <3>2, <3>3
  <2> QED
    BY <1>4, <1>6, <2>1, <2>2 DEF Belongs
<1> QED
  BY <1>5, <1>6, Zenon DEF rest, first

(* onopen sends a subscribe for each room of a mounted page, and no other. *)
LEMMA ReplayedRooms ==
  ASSUME rooms \in SUBSET Rooms, NEW r \in Rooms
  PROVE  /\ \A i \in 1 .. Len(Replayed) : Replayed[i].type = "subscribe"
         /\ r \in rooms <=> \E i \in 1 .. Len(Replayed) : Replayed[i] = Frame("subscribe", r)
<1> DEFINE S == {Frame("subscribe", q) : q \in rooms}
<1>1. IsFiniteSet(S)
  BY ReplayedFinite
<1>2. Replayed \in Seq(S) /\ \A f \in S : \E i \in 1 .. Len(Replayed) : Replayed[i] = f
  BY <1>1, SeqOfSet DEF Replayed
<1>3. \A i \in 1 .. Len(Replayed) : Replayed[i] \in S
  BY <1>2, ElementOfSeq
<1>4. r \in rooms <=> Frame("subscribe", r) \in S
  BY DEF Frame
<1>5. \A f \in S : f.type = "subscribe"
  BY DEF Frame
<1> QED
  BY <1>2, <1>3, <1>4, <1>5

(* A socket that is not open has no frames and no rooms; and what the      *)
(* gateway will have made of the frames of the client's open socket is the *)
(* rooms of the mounted pages.  A room that is being checked counts as the *)
(* socket's already, and one that was left while it was checked as left.   *)

RoomsOf(s) ==
  {r \in Rooms : (<<s, r>> \in index \/ pending[<<s, r>>] > 0) /\ <<s, r>> \notin overtaken}

NothingUnheard ==
  \A s \in Sockets : ready[s] # "open" => up[s] = <<>> /\ RoomsOf(s) = {}

RoomsToCome ==
  (socket # 0 /\ ready[socket] = "open" /\ socket \notin lost)
  => \A r \in Rooms : Belongs(up[socket], r, RoomsOf(socket)) <=> r \in rooms

ReplayInv == NothingUnheard /\ RoomsToCome

(* A step without frames, after which the client has no open socket that   *)
(* it did not have before.                                                 *)
LEMMA FramesUntouched ==
  ASSUME ReplayInv, UNCHANGED <<up, lost, roomVars>>,
         \A s \in Sockets : ready[s] = "open" => ready'[s] = "open",
         socket' # 0 /\ ready'[socket'] = "open"
           => ready[socket] = "open" /\ UNCHANGED <<socket, rooms>>
  PROVE  ReplayInv'
<1>1. NothingUnheard'
  BY DEF ReplayInv, NothingUnheard, RoomsOf, roomVars
<1>2. CASE socket' # 0 /\ ready'[socket'] = "open"
  <2>1. ready[socket] = "open" /\ UNCHANGED <<socket, rooms>> /\ socket # 0
    BY <1>2
  <2> QED
    BY <1>1, <2>1 DEF ReplayInv, RoomsToCome, RoomsOf, roomVars
<1>3. CASE ~(socket' # 0 /\ ready'[socket'] = "open")
  BY <1>1, <1>3 DEF ReplayInv, RoomsToCome, RoomsOf, roomVars
<1> QED
  BY <1>2, <1>3

LEMMA ConnectsKeepReplay ==
  ASSUME ReplayInv, ClientInv, Retry \/ Mount PROVE ReplayInv'
<1>1. UNCHANGED <<up, lost, roomVars>> /\ Connect({})
  BY DEF Retry, Mount, serverVars, roomVars
<1>2. /\ socket' = socket + 1 /\ socket + 1 \in Sockets
      /\ ready'[socket + 1] = "connecting"
      /\ \A s \in Sockets \ {socket + 1} : ready'[s] = ready[s]
  BY <1>1, ConnectsAnew DEF ClientInv
<1>3. ready[socket + 1] = "none"
  BY <1>2 DEF ClientInv, Numbered, Sockets
<1>4. \A s \in Sockets : ready[s] = "open" => ready'[s] = "open"
  BY <1>2, <1>3
<1> QED
  BY <1>1, <1>2, <1>4, FramesUntouched

LEMMA EndsKeepReplay ==
  ASSUME ReplayInv, TypeOK, NEW gone, Ends(gone) PROVE ReplayInv'
<1>1. \A s \in Sockets : s \in gone => up'[s] = <<>> /\ RoomsOf(s)' = {}
  BY DEF Ends, Forget, RoomsOf, Without
<1>2. \A s \in Sockets : s \notin gone => up'[s] = up[s] /\ RoomsOf(s)' = RoomsOf(s)
  BY DEF Ends, Forget, RoomsOf, Without, TypeOK
<1>3. NothingUnheard'
  BY <1>1, <1>2 DEF Ends, ReplayInv, NothingUnheard
<1>4. RoomsToCome'
  <2> SUFFICES ASSUME socket' # 0, ready'[socket'] = "open", socket' \notin lost', NEW r \in Rooms
               PROVE  Belongs(up'[socket'], r, RoomsOf(socket)') <=> r \in rooms'
    BY DEF RoomsToCome, RoomsOf
  <2>1. UNCHANGED <<socket, rooms>> /\ socket \in Sockets
    BY DEF Ends, TypeOK, Sockets
  <2>2. ready[socket] = "open" /\ socket \notin gone /\ socket \notin lost
    BY <2>1 DEF Ends, Forget
  <2>3. RoomsOf(socket)' = RoomsOf(socket) /\ up'[socket'] = up[socket]
    BY <1>2, <2>1, <2>2 DEF RoomsOf
  <2> QED
    BY <2>1, <2>2, <2>3 DEF ReplayInv, RoomsToCome
<1> QED
  BY <1>3, <1>4 DEF ReplayInv

(* Pages that come and go.                                                 *)
LEMMA PagesKeepReplay ==
  ASSUME ReplayInv, TypeOK, NEW r \in Rooms, OpenPage(r) \/ ClosePage(r) PROVE ReplayInv'
<1> DEFINE f == Frame(IF OpenPage(r) THEN "subscribe" ELSE "unsubscribe", r)
<1>1. /\ UNCHANGED <<ready, socket, lost, roomVars>>
      /\ up' = IF socket # 0 /\ ready[socket] = "open"
                 THEN [up EXCEPT ![socket] = @ \o <<f>>] ELSE up
      /\ \/ f = Frame("subscribe", r) /\ rooms' = rooms \cup {r}
         \/ f = Frame("unsubscribe", r) /\ rooms' = rooms \ {r}
  BY DEF OpenPage, ClosePage, Send, clientVars, serverVars, roomVars
<1>2. f \in Frames
  BY DEF Frame, Frames
<1> HIDE DEF f
<1>3. CASE socket # 0 /\ ready[socket] = "open"
  <2>1. socket \in Sockets /\ up[socket] \in Seq(Frames)
    BY <1>3 DEF TypeOK, Sockets
  <2>2. up'[socket] = up[socket] \o <<f>> /\ \A s \in Sockets \ {socket} : up'[s] = up[s]
    BY <1>1, <1>3, <2>1 DEF TypeOK
  <2>3. NothingUnheard'
    BY <1>1, <1>3, <2>2 DEF ReplayInv, NothingUnheard, RoomsOf, roomVars
  <2>4. ASSUME socket \notin lost, NEW q \in Rooms
        PROVE  Belongs(up'[socket], q, RoomsOf(socket)') <=> q \in rooms'
    <3>1. Belongs(up[socket], q, RoomsOf(socket)) <=> q \in rooms
      BY <1>3, <2>4 DEF ReplayInv, RoomsToCome, RoomsOf, roomVars
    <3>2. Belongs(up[socket] \o <<f>>, q, RoomsOf(socket))
          <=> \/ f = Frame("subscribe", q)
              \/ f # Frame("unsubscribe", q) /\ Belongs(up[socket], q, RoomsOf(socket))
      BY <1>2, <2>1, BelongsAppend
    <3>3. RoomsOf(socket)' = RoomsOf(socket)
      BY <1>1 DEF RoomsOf, roomVars
    <3> QED
      BY <1>1, <2>2, <3>1, <3>2, <3>3 DEF Frame
  <2> QED
    BY <1>1, <2>3, <2>4 DEF ReplayInv, RoomsToCome, RoomsOf, roomVars
<1>4. CASE ~(socket # 0 /\ ready[socket] = "open")
  BY <1>1, <1>4 DEF ReplayInv, NothingUnheard, RoomsToCome, RoomsOf, roomVars
<1> QED
  BY <1>3, <1>4

(* onopen.  The socket that opened may be an earlier one, whose onopen     *)
(* says again, over the client's open socket, what that socket has heard.  *)
LEMMA OpenedKeepsReplay ==
  ASSUME ReplayInv, TypeOK, NEW s \in Sockets, Opened(s) PROVE ReplayInv'
<1>1. /\ ready[s] = "connecting" /\ ready' = [ready EXCEPT ![s] = "open"]
      /\ UNCHANGED <<socket, rooms, lost, roomVars>>
      /\ up' = IF socket # 0 /\ ready'[socket] = "open"
                 THEN [up EXCEPT ![socket] = @ \o Replayed] ELSE up
  BY DEF Opened, Send, clientVars, tabVars
<1>2. Replayed \in Seq(Frames) /\ ready'[s] = "open"
  BY <1>1, ReplayedType DEF TypeOK
<1>3. \A t \in Sockets \ {s} : ready'[t] = ready[t]
  BY <1>1 DEF TypeOK
<1>4. CASE socket # 0 /\ ready'[socket] = "open"
  <2>1. socket \in Sockets /\ up[socket] \in Seq(Frames)
    BY <1>4 DEF TypeOK, Sockets
  <2>2. up'[socket] = up[socket] \o Replayed /\ \A t \in Sockets \ {socket} : up'[t] = up[t]
    BY <1>1, <1>4, <2>1 DEF TypeOK
  <2>3. NothingUnheard'
    <3> SUFFICES ASSUME NEW t \in Sockets, ready'[t] # "open"
                 PROVE  up'[t] = <<>> /\ RoomsOf(t)' = {}
      BY DEF NothingUnheard
    <3>1. t # s /\ t # socket
      BY <1>2, <1>4
    <3> QED
      BY <1>1, <1>3, <2>2, <3>1 DEF ReplayInv, NothingUnheard, RoomsOf, roomVars
  <2>4. ASSUME socket \notin lost, NEW r \in Rooms
        PROVE  Belongs(up'[socket], r, RoomsOf(socket)') <=> r \in rooms'
    <3>1. Belongs(up[socket], r, RoomsOf(socket)) => r \in rooms
      <4>1. CASE socket = s
        <5>1. Len(up[socket]) = 0 /\ RoomsOf(socket) = {}
          BY <1>1, <4>1 DEF ReplayInv, NothingUnheard, RoomsOf, roomVars
        <5> QED
          BY <5>1 DEF Belongs
      <4>2. CASE socket # s
        BY <1>3, <1>4, <2>1, <2>4, <4>2 DEF ReplayInv, RoomsToCome, RoomsOf, roomVars
      <4> QED
        BY <4>1, <4>2
    <3>2. /\ \A i \in 1 .. Len(Replayed) : Replayed[i].type = "subscribe"
          /\ r \in rooms <=> \E i \in 1 .. Len(Replayed) : Replayed[i] = Frame("subscribe", r)
      BY ReplayedRooms DEF TypeOK
    <3>3. Belongs(up[socket] \o Replayed, r, RoomsOf(socket))
          <=> \/ \E i \in 1 .. Len(Replayed) : Replayed[i] = Frame("subscribe", r)
              \/ Belongs(up[socket], r, RoomsOf(socket))
      BY <1>2, <2>1, <3>2, BelongsReplay
    <3>4. RoomsOf(socket)' = RoomsOf(socket)
      BY <1>1 DEF RoomsOf, roomVars
    <3> QED
      BY <1>1, <2>2, <3>1, <3>2, <3>3, <3>4
  <2> QED
    BY <1>1, <2>3, <2>4 DEF ReplayInv, RoomsToCome, RoomsOf, roomVars
<1>5. CASE ~(socket # 0 /\ ready'[socket] = "open")
  <2>1. NothingUnheard'
    BY <1>1, <1>2, <1>3, <1>5 DEF ReplayInv, NothingUnheard, RoomsOf, roomVars
  <2> QED
    BY <1>1, <1>5, <2>1 DEF ReplayInv, RoomsToCome, RoomsOf, roomVars
<1> QED
  BY <1>4, <1>5

LEMMA ClosedKeepsReplay ==
  ASSUME ReplayInv, TypeOK, NEW s \in Sockets, Closed(s) PROVE ReplayInv'
<1>1. /\ ready[s] = "closing" /\ ready' = [ready EXCEPT ![s] = "closed"]
      /\ UNCHANGED <<up, lost, roomVars, socket, rooms>>
  BY DEF Closed, serverVars, roomVars, tabVars
<1>2. \A t \in Sockets : ready'[t] = "open" <=> ready[t] = "open"
  BY <1>1 DEF TypeOK
<1>3. socket' # 0 /\ ready'[socket'] = "open" => ready[socket] = "open"
  BY <1>1, <1>2 DEF TypeOK, Sockets
<1> QED
  BY <1>1, <1>2, <1>3, FramesUntouched

(* The gateway takes a frame, or misses it.                                *)
LEMMA TakeFrameKeepsReplay ==
  ASSUME ReplayInv, TypeOK, NEW s \in Sockets, TakeFrame(s) PROVE ReplayInv'
<1> DEFINE f == Head(up[s])
<1>1. /\ up[s] \in Seq(Frames) /\ up[s] # <<>> /\ ready[s] = "open"
      /\ UNCHANGED <<ready, socket, rooms, lost>>
      /\ up' = [up EXCEPT ![s] = Tail(@)]
  BY DEF TakeFrame, TypeOK, clientVars, tabVars
<1>2. f \in Frames
  BY <1>1
<1>3. up'[s] = Tail(up[s]) /\ \A t \in Sockets \ {s} : up'[t] = up[t]
  BY <1>1 DEF TypeOK
<1>8. \/ /\ f.type = "subscribe"
         /\ pending' = [pending EXCEPT ![<<s, f.room>>] = @ + 1]
         /\ overtaken' = overtaken \ {<<s, f.room>>}
         /\ index' = index
      \/ /\ f.type = "unsubscribe"
         /\ pending' = pending
         /\ index' = index \ {<<s, f.room>>}
         /\ overtaken' = IF pending[<<s, f.room>>] > 0 THEN overtaken \cup {<<s, f.room>>}
                                                      ELSE overtaken \ {<<s, f.room>>}
  BY DEF TakeFrame
<1> HIDE DEF f
<1>9. <<s, f.room>> \in Sockets \X Rooms /\ pending \in [Sockets \X Rooms -> Nat]
  BY <1>2 DEF Frames, TypeOK
<1>4. ASSUME NEW t \in Sockets \ {s} PROVE RoomsOf(t)' = RoomsOf(t)
  <2> SUFFICES ASSUME NEW r \in Rooms PROVE r \in RoomsOf(t)' <=> r \in RoomsOf(t)
    BY DEF RoomsOf
  <2>1. <<t, r>> # <<s, f.room>> /\ <<t, r>> \in Sockets \X Rooms
    OBVIOUS
  <2>2. pending'[<<t, r>>] = pending[<<t, r>>]
    BY <1>8, <1>9, <2>1
  <2>3. /\ <<t, r>> \in index' <=> <<t, r>> \in index
        /\ <<t, r>> \in overtaken' <=> <<t, r>> \in overtaken
    BY <1>8, <2>1
  <2> QED
    BY <2>2, <2>3 DEF RoomsOf
<1>5. ASSUME NEW r \in Rooms
      PROVE  r \in RoomsOf(s)'
             <=> \/ f = Frame("subscribe", r)
                 \/ f # Frame("unsubscribe", r) /\ r \in RoomsOf(s)
  <2>1. CASE r # f.room
    <3>1. <<s, r>> # <<s, f.room>> /\ <<s, r>> \in Sockets \X Rooms
      BY <2>1
    <3>2. pending'[<<s, r>>] = pending[<<s, r>>]
      BY <1>8, <1>9, <3>1
    <3>3. /\ <<s, r>> \in index' <=> <<s, r>> \in index
          /\ <<s, r>> \in overtaken' <=> <<s, r>> \in overtaken
      BY <1>8, <3>1
    <3>4. f # Frame("subscribe", r) /\ f # Frame("unsubscribe", r)
      BY <2>1 DEF Frame
    <3> QED
      BY <3>2, <3>3, <3>4 DEF RoomsOf
  <2>2. CASE r = f.room /\ f.type = "subscribe"
    <3>1. f = Frame("subscribe", r)
      BY <1>2, <2>2 DEF Frame, Frames
    <3>2. pending'[<<s, r>>] > 0 /\ <<s, r>> \notin overtaken'
      BY <1>8, <1>9, <2>2
    <3> QED
      BY <3>1, <3>2 DEF RoomsOf
  <2>3. CASE r = f.room /\ f.type = "unsubscribe"
    <3>1. f = Frame("unsubscribe", r) /\ f # Frame("subscribe", r)
      BY <1>2, <2>3 DEF Frame, Frames
    <3>2. \/ <<s, r>> \in overtaken'
          \/ <<s, r>> \notin index' /\ ~(pending'[<<s, r>>] > 0)
      BY <1>8, <2>3
    <3> QED
      BY <3>1, <3>2 DEF RoomsOf
  <2> QED
    BY <1>2, <2>1, <2>2, <2>3 DEF Frames
<1>6. NothingUnheard'
  BY <1>1, <1>3, <1>4 DEF ReplayInv, NothingUnheard, RoomsOf, roomVars
<1>7. RoomsToCome'
  <2> SUFFICES ASSUME socket # 0, ready[socket] = "open", socket \notin lost, NEW r \in Rooms
               PROVE  Belongs(up'[socket], r, RoomsOf(socket)') <=> r \in rooms
    BY <1>1 DEF RoomsToCome
  <2>1. Belongs(up[socket], r, RoomsOf(socket)) <=> r \in rooms
    BY DEF ReplayInv, RoomsToCome, RoomsOf, roomVars
  <2>2. CASE socket = s
    <3>1. Belongs(up[s], r, RoomsOf(s)) <=> Belongs(Tail(up[s]), r, RoomsOf(s)')
      BY <1>1, <1>5, BelongsTail DEF f
    <3> QED
      BY <1>1, <1>3, <2>1, <2>2, <3>1
  <2>3. CASE socket # s
    <3>1. socket \in Sockets \ {s}
      BY <2>3 DEF TypeOK, Sockets
    <3>2. up'[socket] = up[socket] /\ RoomsOf(socket)' = RoomsOf(socket)
      BY <1>1, <1>3, <1>4, <3>1
    <3> QED
      BY <2>1, <3>2
  <2> QED
    BY <2>2, <2>3
<1> QED
  BY <1>6, <1>7 DEF ReplayInv

(* A check that ends: the room was the socket's, or was left, before.      *)
LEMMA FinishKeepsReplay ==
  ASSUME ReplayInv, TypeOK, NEW s \in Sockets, NEW r \in Rooms, FinishSubscribe(s, r)
  PROVE  ReplayInv'
<1>1. /\ pending[<<s, r>>] > 0 /\ pending' = [pending EXCEPT ![<<s, r>>] = @ - 1]
      /\ index' = index \cup {<<s, r>>}
      /\ UNCHANGED <<ready, up, socket, rooms, lost, overtaken>>
      /\ pending \in [Sockets \X Rooms -> Nat]
  BY DEF FinishSubscribe, TypeOK, clientVars, tabVars
<1>2. ASSUME NEW t \in Sockets, NEW q \in Rooms PROVE q \in RoomsOf(t)' <=> q \in RoomsOf(t)
  <2>1. CASE <<t, q>> = <<s, r>>
    BY <1>1, <2>1 DEF RoomsOf
  <2>2. CASE <<t, q>> # <<s, r>>
    <3>1. pending'[<<t, q>>] = pending[<<t, q>>]
      BY <1>1, <2>2
    <3>2. <<t, q>> \in index' <=> <<t, q>> \in index
      BY <1>1, <2>2
    <3> QED
      BY <1>1, <3>1, <3>2 DEF RoomsOf
  <2> QED
    BY <2>1, <2>2
<1>3. \A t \in Sockets : RoomsOf(t)' = RoomsOf(t)
  BY <1>2 DEF RoomsOf
<1>4. NothingUnheard'
  BY <1>1, <1>3 DEF ReplayInv, NothingUnheard
<1>5. RoomsToCome'
  <2>1. socket # 0 => socket \in Sockets
    BY DEF TypeOK, Sockets
  <2> QED
    BY <1>1, <1>3, <2>1 DEF ReplayInv, RoomsToCome
<1> QED
  BY <1>4, <1>5 DEF ReplayInv

LEMMA LoseFrameKeepsReplay ==
  ASSUME ReplayInv, TypeOK, NEW s \in Sockets, LoseFrame(s) PROVE ReplayInv'
<1>1. /\ up[s] # <<>> /\ up' = [up EXCEPT ![s] = Tail(@)] /\ lost' = lost \cup {s}
      /\ UNCHANGED <<ready, socket, rooms, roomVars>>
  BY DEF LoseFrame, clientVars, tabVars
<1>2. \A t \in Sockets \ {s} : up'[t] = up[t]
  BY <1>1 DEF TypeOK
<1>3. NothingUnheard'
  BY <1>1, <1>2 DEF ReplayInv, NothingUnheard, RoomsOf, roomVars
<1>4. RoomsToCome'
  <2> SUFFICES ASSUME socket # 0, ready[socket] = "open", socket \notin lost, socket # s
               PROVE  \A r \in Rooms :
                        Belongs(up'[socket], r, RoomsOf(socket)) <=> r \in rooms
    BY <1>1 DEF RoomsToCome, RoomsOf, roomVars
  <2>1. up'[socket] = up[socket]
    BY <1>2 DEF TypeOK, Sockets
  <2> QED
    BY <2>1 DEF ReplayInv, RoomsToCome, RoomsOf, roomVars
<1> QED
  BY <1>3, <1>4 DEF ReplayInv

LEMMA NextReplay == ReplayInv /\ ClientInv /\ TypeOK /\ [Next]_vars => ReplayInv'
<1> SUFFICES ASSUME ReplayInv, ClientInv, TypeOK, [Next]_vars PROVE ReplayInv'
  OBVIOUS
<1>1. CASE UNCHANGED <<ready, up, lost, roomVars, socket, rooms>>
  BY <1>1, FramesUntouched
<1>2. CASE Expire \/ Login \/ UNCHANGED vars
  BY <1>1, <1>2 DEF Expire, Login, vars, clientVars, serverVars, roomVars
<1>3. CASE Retry \/ Mount
  BY <1>3, ConnectsKeepReplay
<1>4. CASE Unmount \/ ChangeUser \/ \E s \in Sockets : Drop(s)
  BY <1>4, SomeEnd, EndsKeepReplay
<1>5. ASSUME NEW r \in Rooms, OpenPage(r) \/ ClosePage(r) PROVE ReplayInv'
  BY <1>5, PagesKeepReplay
<1>6. ASSUME NEW r \in Rooms, Broadcast(r) PROVE ReplayInv'
  BY <1>1, <1>6 DEF Broadcast, clientVars, serverVars, roomVars, tabVars
<1>7. ASSUME NEW s \in Sockets, Message(s) \/ Attach(s) PROVE ReplayInv'
  BY <1>1, <1>7 DEF Message, Attach, clientVars, serverVars, roomVars, tabVars
<1>8. ASSUME NEW s \in Sockets, Opened(s) \/ Closed(s) \/ TakeFrame(s) \/ LoseFrame(s)
      PROVE  ReplayInv'
  BY <1>8, OpenedKeepsReplay, ClosedKeepsReplay, TakeFrameKeepsReplay, LoseFrameKeepsReplay
<1>10. ASSUME NEW s \in Sockets, NEW r \in Rooms, FinishSubscribe(s, r) PROVE ReplayInv'
  BY <1>10, FinishKeepsReplay
<1>9. ASSUME NEW s \in Sockets, Drop(s) \/ Refuse(s) PROVE ReplayInv'
  BY <1>4, <1>9 DEF Refuse
<1> QED
  BY <1>2, <1>3, <1>4, <1>5, <1>6, <1>7, <1>8, <1>9, <1>10 DEF Next

(* After any number of drops, late openings and changes of pages, the      *)
(* gateway has the client's socket in the rooms of the mounted pages, once *)
(* the frames that met a listener are handled and their access is checked; *)
(* in no other room, but one that was left while its access was checked.   *)
THEOREM RoomsComeBack == Spec => []RoomsReplayed
<1>1. Init => ReplayInv
  <2> SUFFICES ASSUME Init PROVE ReplayInv
    OBVIOUS
  <2>1. \A s \in Sockets : up[s] = <<>> /\ RoomsOf(s) = {}
    BY DEF Init, RoomsOf
  <2> QED
    BY <2>1 DEF Init, ReplayInv, NothingUnheard, RoomsToCome
<1>2. ReplayInv /\ TypeOK => RoomsReplayed
  <2> SUFFICES ASSUME ReplayInv, TypeOK, socket # 0, Listening(socket), up[socket] = <<>>,
                      socket \notin lost, \A r \in Rooms : pending[<<socket, r>>] = 0,
                      NEW r \in Rooms
               PROVE  /\ r \in rooms => <<socket, r>> \in index
                      /\ <<socket, r>> \in index
                           => r \in rooms \/ <<socket, r>> \in overtaken
    BY DEF RoomsReplayed
  <2>1. Belongs(up[socket], r, RoomsOf(socket)) <=> r \in rooms
    BY DEF ReplayInv, RoomsToCome, Listening
  <2>2. Len(up[socket]) = 0
    OBVIOUS
  <2>3. r \in RoomsOf(socket) <=> <<socket, r>> \in index /\ <<socket, r>> \notin overtaken
    BY DEF RoomsOf
  <2> QED
    BY <2>1, <2>2, <2>3 DEF Belongs
<1> QED
  BY <1>1, <1>2, InitClient, NextClient, NextReplay, TypeCorrect, PTL DEF Spec

=============================================================================
