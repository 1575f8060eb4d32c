--------------------------- MODULE GatewayProofs ---------------------------
(***************************************************************************)
(* What holds of Gateway for any number of connections, users and rooms.   *)
(***************************************************************************)
EXTENDS Gateway, SequenceTheorems, TLAPS

USE UserAssumption, FramesAssumption

(* One name for a step of connection c, so that each proof below has one   *)
(* case for each action.                                                   *)
Action(c) ==
  \/ Accept(c) \/ PeerLeaves(c) \/ DropFrame(c) \/ Pong(c)
  \/ (\E r \in Rooms : Subscribe(c, r)) \/ (\E r \in Rooms : Unsubscribe(c, r))
  \/ StoreRow(c) \/ ShowOnline(c) \/ CloseEvent(c) \/ UnstoreRow(c)
  \/ CountRows(c) \/ ShowOffline(c)
  \/ TakeSubscribe(c) \/ TakeUnsubscribe(c)
  \/ (\E r \in Rooms : FinishSubscribe(c, r))
  \/ Beat(c)

LEMMA NextActions ==
  Next <=> (\E c \in Conns : Action(c)) \/ (\E C \in SUBSET Conns : Crash(C))
BY DEF Next, Client, Serve, Rooming, Action

(* What handleClientMessage takes off the wire is a frame for some room.   *)
LEMMA FrontFrame ==
  ASSUME NEW s \in Seq(Frames), s # <<>>
  PROVE  Head(s).room \in Rooms
<1>1. Head(s) \in Frames
  OBVIOUS
<1> QED
  BY <1>1 DEF Frames

(* The ends of connections keep the types of what they clear.              *)
LEMMA ForgetTyped ==
  ASSUME TypeOK, NEW C \in SUBSET Conns, Forget(C)
  PROVE  /\ inbound' \in [Conns -> Seq(Frames)]
         /\ wants' \in [Conns -> SUBSET Rooms]
         /\ dropped' \in [Conns -> BOOLEAN]
         /\ overtaken' \in [Conns -> BOOLEAN]
<1>1. inbound' \in [Conns -> Seq(Frames)]
  <2>1. <<>> \in Seq(Frames) /\ inbound \in [Conns -> Seq(Frames)]
    BY DEF TypeOK
  <2> QED
    BY <2>1 DEF Forget
<1>2. wants' \in [Conns -> SUBSET Rooms]
  BY DEF Forget, TypeOK
<1>3. dropped' \in [Conns -> BOOLEAN] /\ overtaken' \in [Conns -> BOOLEAN]
  BY DEF Forget, TypeOK
<1> QED
  BY <1>1, <1>2, <1>3

(* Every variable keeps its type: the state of gateway.ts is what the      *)
(* declarations of the model say it is.                                    *)
THEOREM TypeCorrect == Spec => []TypeOK
<1>1. Init => TypeOK
  BY DEF Init, TypeOK, Handing, Alive, Frames
<1>2. TypeOK /\ [Next]_vars => TypeOK'
  <2> SUFFICES ASSUME TypeOK, [Next]_vars PROVE TypeOK'
    OBVIOUS
  <2> USE DEF TypeOK, Handing, Alive, Before, clientVars, roomVars, storeVars
  <2>1. CASE UNCHANGED vars
    BY <2>1 DEF vars
  <2>2. ASSUME NEW c \in Conns, Action(c) PROVE TypeOK'
    <3>1. CASE Accept(c)
      BY <3>1 DEF Accept, Step
    <3>2. CASE PeerLeaves(c)
      BY <3>2 DEF PeerLeaves
    <3>3. CASE DropFrame(c)
      BY <3>3 DEF DropFrame
    <3>4. CASE Pong(c)
      BY <3>4 DEF Pong
    <3>5. ASSUME NEW r \in Rooms, Subscribe(c, r) PROVE TypeOK'
      <4>1. Frame("subscribe", r) \in Frames
        BY DEF Frame, Frames
      <4>2. wants' \in [Conns -> SUBSET Rooms]
        BY <3>5 DEF Subscribe
      <4>3. inbound' \in [Conns -> Seq(Frames)]
        BY <3>5, <4>1 DEF Subscribe
      <4> QED
        BY <3>5, <4>2, <4>3 DEF Subscribe
    <3>6. ASSUME NEW r \in Rooms, Unsubscribe(c, r) PROVE TypeOK'
      <4>1. Frame("unsubscribe", r) \in Frames
        BY DEF Frame, Frames
      <4>2. wants' \in [Conns -> SUBSET Rooms]
        BY <3>6 DEF Unsubscribe
      <4>3. inbound' \in [Conns -> Seq(Frames)]
        BY <3>6, <4>1 DEF Unsubscribe
      <4> QED
        BY <3>6, <4>2, <4>3 DEF Unsubscribe
    <3>7. CASE StoreRow(c)
      BY <3>7 DEF StoreRow, Step
    <3>8. CASE ShowOnline(c)
      BY <3>8 DEF ShowOnline, Step
    <3>9. CASE CloseEvent(c)
      <4> DEFINE Typed == /\ hand' \in [Conns -> Handing]
                          /\ index' \in [Rooms -> SUBSET Conns]
      <4>1. ASSUME hand[c] = "ready" PROVE Typed
        <5>1. hand' = [hand EXCEPT ![c] = "unstoring"]
          BY <3>9, <4>1 DEF CloseEvent
        <5>2. index' = [r \in Rooms |->
                          IF r \in rooms[c] THEN index[r] \ {c} ELSE index[r]]
          BY <3>9, <4>1 DEF CloseEvent
        <5>3. index' \in [Rooms -> SUBSET Conns]
          <6>1. \A r \in Rooms : index[r] \ {c} \in SUBSET Conns
            OBVIOUS
          <6> QED
            BY <5>2, <6>1
        <5>4. hand' \in [Conns -> Handing]
          BY <5>1
        <5> QED
          BY <5>3, <5>4
      <4>2. ASSUME hand[c] # "ready" PROVE Typed
        BY <3>9, <4>2 DEF CloseEvent
      <4>3. Typed
        BY <4>1, <4>2
      <4>4. /\ inbound' \in [Conns -> Seq(Frames)]
            /\ wants' \in [Conns -> SUBSET Rooms]
            /\ dropped' \in [Conns -> BOOLEAN]
            /\ overtaken' \in [Conns -> BOOLEAN]
        <5>1. {c} \in SUBSET Conns /\ Forget({c})
          BY <3>9 DEF CloseEvent
        <5> QED
          BY <5>1, ForgetTyped
      <4> QED
        BY <3>9, <4>3, <4>4 DEF CloseEvent
    <3>10. CASE UnstoreRow(c)
      BY <3>10 DEF UnstoreRow, Step
    <3>11. CASE CountRows(c)
      BY <3>11 DEF CountRows, Step
    <3>12. CASE ShowOffline(c)
      BY <3>12 DEF ShowOffline, Step
    <3>13. CASE TakeSubscribe(c)
      <4>1. Head(inbound[c]).room \in Rooms
        BY <3>13, FrontFrame DEF TakeSubscribe, TakeFrame
      <4>2. inbound' \in [Conns -> Seq(Frames)]
        BY <3>13 DEF TakeSubscribe, TakeFrame
      <4>3. pending' \in [Conns -> SUBSET Rooms]
        BY <3>13, <4>1 DEF TakeSubscribe
      <4> QED
        BY <3>13, <4>2, <4>3 DEF TakeSubscribe
    <3>14. CASE TakeUnsubscribe(c)
      <4> DEFINE r == Head(inbound[c]).room
      <4>1. r \in Rooms
        BY <3>14, FrontFrame DEF TakeUnsubscribe, TakeFrame
      <4>2. inbound' \in [Conns -> Seq(Frames)]
        BY <3>14 DEF TakeUnsubscribe, TakeFrame
      <4>3. rooms' \in [Conns -> SUBSET Rooms]
        BY <3>14 DEF TakeUnsubscribe, Left
      <4>4. index' \in [Rooms -> SUBSET Conns]
        BY <3>14, <4>1 DEF TakeUnsubscribe, Unindexed
      <4> QED
        BY <3>14, <4>2, <4>3, <4>4 DEF TakeUnsubscribe
    <3>15. ASSUME NEW r \in Rooms, FinishSubscribe(c, r) PROVE TypeOK'
      <4>1. pending' \in [Conns -> SUBSET Rooms]
        BY <3>15 DEF FinishSubscribe
      <4>2. /\ rooms' \in [Conns -> SUBSET Rooms]
            /\ index' \in [Rooms -> SUBSET Conns]
        <5>1. CASE canAccessRoom(c, r)
          <6>1. rooms' = [rooms EXCEPT ![c] = @ \cup {r}]
            BY <3>15, <5>1 DEF FinishSubscribe
          <6>2. index' = [index EXCEPT ![r] = @ \cup {c}]
            BY <3>15, <5>1 DEF FinishSubscribe, Indexed
          <6>3. rooms \in [Conns -> SUBSET Rooms] /\ index \in [Rooms -> SUBSET Conns]
            OBVIOUS
          <6> QED
            BY <6>1, <6>2, <6>3
        <5>2. CASE ~canAccessRoom(c, r)
          BY <3>15, <5>2 DEF FinishSubscribe
        <5> QED
          BY <5>1, <5>2
      <4> QED
        BY <3>15, <4>1, <4>2 DEF FinishSubscribe
    <3>16. CASE Beat(c)
      <4>1. /\ sock' \in [Conns -> {"none", "open", "dead", "closing", "closed"}]
            /\ alive' \in [Conns -> BOOLEAN]
        BY <3>16 DEF Beat
      <4> QED
        BY <3>16, <4>1 DEF Beat
    <3> QED
      BY <2>2, <3>1, <3>2, <3>3, <3>4, <3>5, <3>6, <3>7, <3>8, <3>9, <3>10,
         <3>11, <3>12, <3>13, <3>14, <3>15, <3>16 DEF Action
  <2>3. ASSUME NEW C \in SUBSET Conns, Crash(C) PROVE TypeOK'
    <3>1. /\ hand' \in [Conns -> Handing]
          /\ pending' \in [Conns -> SUBSET Rooms]
          /\ rooms' \in [Conns -> SUBSET Rooms]
      BY <2>3 DEF Crash
    <3>2. index' \in [Rooms -> SUBSET Conns]
      <4>1. \A r \in Rooms : index[r] \ C \in SUBSET Conns
        OBVIOUS
      <4> QED
        BY <2>3, <4>1 DEF Crash
    <3>3. /\ inbound' \in [Conns -> Seq(Frames)]
          /\ wants' \in [Conns -> SUBSET Rooms]
          /\ dropped' \in [Conns -> BOOLEAN]
          /\ overtaken' \in [Conns -> BOOLEAN]
      BY <2>3, ForgetTyped DEF Crash
    <3> QED
      BY <2>3, <3>1, <3>2, <3>3 DEF Crash
  <2> QED
    BY <2>1, <2>2, <2>3, NextActions
<1> QED
  BY <1>1, <1>2, PTL DEF Spec

----------------------------------------------------------------------------
(* Rooms.  A connection that has not been accepted has no rooms yet and no *)
(* subscribe under way, so the index is right when it is registered.       *)

NothingBeforeAccept ==
  \A c \in Conns : hand[c] = "none" =>
    /\ pending[c] = {}
    /\ rooms[c] = {}
    /\ \A r \in Rooms : c \notin index[r]

RoomsInv == IndexMatchesRooms /\ NothingBeforeAccept

(* A step that leaves the rooms alone, and the clients map but for a       *)
(* connection that goes from one state to a later one, disturbs nothing.   *)
LEMMA RoomsUntouched ==
  ASSUME RoomsInv, TypeOK, UNCHANGED roomVars,
         \A c \in Conns : hand'[c] = "none" => hand[c] = "none",
         \A c \in Conns : Registered(c)' => Registered(c) \/ hand[c] = "none",
         UNCHANGED members
  PROVE  RoomsInv'
<1>1. UNCHANGED <<pending, rooms, index>>
  BY DEF roomVars
<1>2. NothingBeforeAccept'
  BY <1>1 DEF RoomsInv, NothingBeforeAccept
<1>3. ASSUME NEW c \in Conns, NEW r \in Rooms
      PROVE  /\ Registered(c)' => (c \in index'[r] <=> r \in rooms'[c])
             /\ c \in index'[r] => canAccessRoom(c, r)
  BY <1>1 DEF RoomsInv, IndexMatchesRooms, NothingBeforeAccept
<1> QED
  BY <1>2, <1>3 DEF RoomsInv, IndexMatchesRooms, canAccessRoom

LEMMA RoomsStep == RoomsInv /\ TypeOK /\ [Next]_vars => RoomsInv'
<1> SUFFICES ASSUME RoomsInv, TypeOK, [Next]_vars PROVE RoomsInv'
  OBVIOUS
<1> USE DEF Before, storeVars
<1>1. CASE UNCHANGED vars
  BY <1>1, RoomsUntouched DEF vars, roomVars, Registered
<1>2. ASSUME NEW c \in Conns, Action(c) PROVE RoomsInv'
  <2>1. hand \in [Conns -> Handing]
    BY DEF TypeOK
  <2>2. rooms \in [Conns -> SUBSET Rooms] /\ index \in [Rooms -> SUBSET Conns]
    BY DEF TypeOK
  <2>3. CASE Accept(c)
    BY <2>3, <2>1, RoomsUntouched DEF Accept, Step, Registered
  <2>4. CASE PeerLeaves(c)
    BY <2>4, RoomsUntouched DEF PeerLeaves, Registered
  <2>5. CASE DropFrame(c)
    BY <2>5, RoomsUntouched DEF DropFrame, Registered
  <2>6. CASE Pong(c)
    BY <2>6, RoomsUntouched DEF Pong, Registered
  <2>7. ASSUME NEW r \in Rooms, Subscribe(c, r) PROVE RoomsInv'
    BY <2>7, RoomsUntouched DEF Subscribe, Registered
  <2>8. ASSUME NEW r \in Rooms, Unsubscribe(c, r) PROVE RoomsInv'
    BY <2>8, RoomsUntouched DEF Unsubscribe, Registered
  <2>9. CASE StoreRow(c)
    BY <2>9, <2>1, RoomsUntouched DEF StoreRow, Step, Registered
  <2>10. CASE ShowOnline(c)
    BY <2>10, <2>1, RoomsUntouched DEF ShowOnline, Step, Registered
  <2>11. CASE UnstoreRow(c)
    BY <2>11, <2>1, RoomsUntouched DEF UnstoreRow, Step, Registered
  <2>12. CASE CountRows(c)
    BY <2>12, <2>1, RoomsUntouched DEF CountRows, Step, Registered
  <2>13. CASE ShowOffline(c)
    BY <2>13, <2>1, RoomsUntouched DEF ShowOffline, Step, Registered
  <2>14. CASE TakeSubscribe(c)
    <3>1. UNCHANGED <<hand, rooms, index, members>> /\ hand[c] = "ready"
      BY <2>14 DEF TakeSubscribe, TakeFrame
    <3>2. \A d \in Conns \ {c} : pending'[d] = pending[d]
      BY <2>14 DEF TakeSubscribe, TypeOK
    <3> QED
      BY <3>1, <3>2 DEF RoomsInv, IndexMatchesRooms, NothingBeforeAccept,
                  Registered, canAccessRoom
  <2>15. CASE Beat(c)
    BY <2>15, RoomsUntouched DEF Beat, Registered
  <2>16. CASE CloseEvent(c)
    <3>1. CASE hand[c] # "ready"
      BY <2>16, <3>1, RoomsUntouched DEF CloseEvent, roomVars, Registered
    <3>2. CASE hand[c] = "ready"
      <4>1. /\ hand' = [hand EXCEPT ![c] = "unstoring"]
            /\ UNCHANGED <<pending, rooms, members>>
        BY <2>16, <3>2 DEF CloseEvent
      <4>2. \A r \in Rooms : index'[r] \subseteq index[r]
        BY <2>16, <3>2, <2>2 DEF CloseEvent
      <4>3. \A r \in Rooms, d \in Conns \ {c} : d \in index[r] => d \in index'[r]
        BY <2>16, <3>2, <2>2 DEF CloseEvent
      <4> QED
        BY <4>1, <4>2, <4>3, <2>1
        DEF RoomsInv, IndexMatchesRooms, NothingBeforeAccept, Registered,
            canAccessRoom
    <3> QED
      BY <3>1, <3>2
  <2>17. CASE TakeUnsubscribe(c)
    <3> DEFINE r == Head(inbound[c]).room
    <3>1. r \in Rooms
      BY <2>17, FrontFrame DEF TakeUnsubscribe, TakeFrame, TypeOK
    <3>2. /\ UNCHANGED <<hand, pending, members>>
          /\ rooms' = [rooms EXCEPT ![c] = @ \ {r}]
          /\ index' = [index EXCEPT ![r] = @ \ {c}]
      BY <2>17 DEF TakeUnsubscribe, Unindexed, Left
    <3> HIDE DEF r
    <3> QED
      BY <3>1, <3>2, <2>2
      DEF RoomsInv, IndexMatchesRooms, NothingBeforeAccept, Registered,
          canAccessRoom
  <2>18. ASSUME NEW r \in Rooms, FinishSubscribe(c, r) PROVE RoomsInv'
    <3>1. hand' = hand /\ members' = members /\ hand[c] # "none"
      BY <2>18 DEF FinishSubscribe, RoomsInv, NothingBeforeAccept
    <3>2. pending' = [pending EXCEPT ![c] = @ \ {r}]
      BY <2>18 DEF FinishSubscribe
    <3>3. CASE canAccessRoom(c, r)
      <4>1. /\ rooms' = [rooms EXCEPT ![c] = @ \cup {r}]
            /\ index' = [index EXCEPT ![r] = @ \cup {c}]
        BY <2>18, <3>3 DEF FinishSubscribe, Indexed
      <4> QED
        BY <3>1, <3>2, <3>3, <4>1, <2>2
        DEF RoomsInv, IndexMatchesRooms, NothingBeforeAccept, Registered,
            canAccessRoom, TypeOK
    <3>4. CASE ~canAccessRoom(c, r)
      <4>1. UNCHANGED <<rooms, index>>
        BY <2>18, <3>4 DEF FinishSubscribe
      <4> QED
        BY <3>1, <3>2, <4>1
        DEF RoomsInv, IndexMatchesRooms, NothingBeforeAccept, Registered,
            canAccessRoom, TypeOK
    <3> QED
      BY <3>3, <3>4
  <2> QED
    BY <1>2, <2>3, <2>4, <2>5, <2>6, <2>7, <2>8, <2>9, <2>10, <2>11, <2>12,
       <2>13, <2>14, <2>15, <2>16, <2>17, <2>18 DEF Action
<1>3. ASSUME NEW C \in SUBSET Conns, Crash(C) PROVE RoomsInv'
  <2>1. \A c \in Conns \ C : /\ hand'[c] = hand[c] /\ rooms'[c] = rooms[c]
                             /\ pending'[c] = pending[c]
    BY <1>3 DEF Crash
  <2>2. \A c \in C : hand'[c] = "crashed"
    BY <1>3 DEF Crash
  <2>3. \A r \in Rooms : index'[r] = index[r] \ C
    BY <1>3 DEF Crash
  <2>4. members' = members
    BY <1>3 DEF Crash
  <2>5. NothingBeforeAccept'
    BY <2>1, <2>2, <2>3 DEF RoomsInv, NothingBeforeAccept
  <2>6. IndexMatchesRooms'
    BY <2>1, <2>2, <2>3, <2>4
    DEF RoomsInv, IndexMatchesRooms, Registered, canAccessRoom
  <2> QED
    BY <2>5, <2>6 DEF RoomsInv
<1> QED
  BY <1>1, <1>2, <1>3, NextActions

LEMMA InitRooms == Init => RoomsInv
BY DEF Init, RoomsInv, IndexMatchesRooms, NothingBeforeAccept

(* For any number of connections and rooms: the index that broadcasts read *)
(* and the connections' own rooms agree, and no connection is ever indexed *)
(* under a room that its user may not see.                                 *)
THEOREM RoomsAgree == Spec => []IndexMatchesRooms
<1>1. Init => RoomsInv
  BY InitRooms
<1>2. RoomsInv => IndexMatchesRooms
  BY DEF RoomsInv
<1> QED
  BY <1>1, <1>2, RoomsStep, TypeCorrect, PTL DEF Spec

----------------------------------------------------------------------------
(* Presence.  An online user has a connection that has not finished taking *)
(* its presence down, or that ended in a crash, or whose row says that it  *)
(* is connected: each connection that leaves without taking the presence   *)
(* down has seen such a row.                                               *)

Shown == {"stored", "ready", "unstoring", "counting", "hiding", "crashed"}

PresenceInv ==
  \A u \in Users :
    presence[u] = "online"
    => \E c \in ConnsOf(u) : hand[c] \in Shown \/ row[c] = "connected"

LEMMA PresenceStep == PresenceInv /\ TypeOK /\ [Next]_vars => PresenceInv'
<1> SUFFICES ASSUME PresenceInv, TypeOK, [Next]_vars PROVE PresenceInv'
  OBVIOUS
<1> USE DEF PresenceInv, ConnsOf, Shown
<1>1. CASE UNCHANGED <<hand, row, presence>>
  BY <1>1
<1>2. ASSUME NEW c \in Conns, Action(c), ~UNCHANGED <<hand, row, presence>>
      PROVE  PresenceInv'
  <2>1. /\ hand \in [Conns -> Handing]
        /\ row \in [Conns -> {"none", "connected", "disconnected"}]
        /\ presence \in [Users -> {"offline", "online"}]
    BY DEF TypeOK
  <2>2. CASE Accept(c)
    BY <2>2, <2>1 DEF Accept, Step, storeVars
  <2>3. CASE StoreRow(c)
    BY <2>3, <2>1 DEF StoreRow, Step
  <2>4. CASE ShowOnline(c)
    BY <2>4, <2>1 DEF ShowOnline, Step
  <2>5. CASE CloseEvent(c)
    BY <2>5, <2>1 DEF CloseEvent, storeVars
  <2>6. CASE UnstoreRow(c)
    BY <2>6, <2>1 DEF UnstoreRow, Step
  <2>7. CASE CountRows(c)
    <3>1. CASE StillConnected(UserOf[c])
      <4>1. PICK d \in Conns : UserOf[d] = UserOf[c] /\ row[d] = "connected"
        BY <3>1 DEF StillConnected
      <4> QED
        BY <2>7, <2>1, <3>1, <4>1 DEF CountRows, Step, storeVars
    <3>2. CASE ~StillConnected(UserOf[c])
      BY <2>7, <2>1, <3>2 DEF CountRows, Step, storeVars
    <3> QED
      BY <3>1, <3>2
  <2>8. CASE ShowOffline(c)
    BY <2>8, <2>1 DEF ShowOffline, Step
  <2>9. \/ Accept(c) \/ StoreRow(c) \/ ShowOnline(c) \/ CloseEvent(c)
        \/ UnstoreRow(c) \/ CountRows(c) \/ ShowOffline(c)
    BY <1>2 DEF Action, PeerLeaves, DropFrame, Pong, Subscribe, Unsubscribe,
       TakeSubscribe, TakeUnsubscribe, FinishSubscribe, Beat, storeVars
  <2> QED
    BY <2>2, <2>3, <2>4, <2>5, <2>6, <2>7, <2>8, <2>9
<1>3. ASSUME NEW C \in SUBSET Conns, Crash(C) PROVE PresenceInv'
  <2>1. hand' = [c \in Conns |-> IF c \in C THEN "crashed" ELSE hand[c]]
    BY <1>3 DEF Crash
  <2>2. UNCHANGED <<row, presence>>
    BY <1>3 DEF Crash, storeVars
  <2> QED
    BY <2>1, <2>2
<1> QED
  BY <1>1, <1>2, <1>3, NextActions DEF vars, storeVars

(* For any number of connections: a user whose connections have all ended, *)
(* and their rows with them, is shown offline, whatever the interleaving   *)
(* of onConnect and onDisconnect.                                          *)
THEOREM PresenceCleared == Spec => []OfflineWhenGone
<1>1. Init => PresenceInv
  BY DEF Init, PresenceInv
<1>2. TypeOK /\ PresenceInv => OfflineWhenGone
  <2> SUFFICES ASSUME TypeOK, PresenceInv, NEW u \in Users,
                      \A c \in ConnsOf(u) :
                        hand[c] \in {"none", "gone"} /\ row[c] # "connected"
               PROVE  presence[u] = "offline"
    BY DEF OfflineWhenGone
  <2>1. presence[u] # "online"
    BY DEF PresenceInv, Shown
  <2> QED
    BY <2>1 DEF TypeOK
<1> QED
  BY <1>1, <1>2, PresenceStep, TypeCorrect, PTL DEF Spec

----------------------------------------------------------------------------
(* Subscriptions.  When all frames and access checks of a connection are   *)
(* done, it is in a room if the last frame about the room is a subscribe,  *)
(* or if there is none and it holds the room or its check now.             *)

Belongs(frames, r, held) ==
  \/ \E i \in 1 .. Len(frames) :
       /\ frames[i] = Frame("subscribe", r)
       /\ \A j \in 1 .. Len(frames) : i < j => frames[j] # Frame("unsubscribe", r)
  \/ r \in held /\ \A i \in 1 .. Len(frames) : frames[i] # Frame("unsubscribe", r)

LEMMA BelongsAppend ==
  ASSUME NEW frames \in Seq(Frames), NEW f \in Frames, NEW r \in Rooms, NEW held
  PROVE  Belongs(Append(frames, f), r, held)
         <=> \/ f = Frame("subscribe", r)
             \/ f # Frame("unsubscribe", r) /\ Belongs(frames, r, held)
<1> DEFINE more == Append(frames, f)
           n == Len(frames)
<1>1. /\ n \in Nat /\ Len(more) = n + 1 /\ more[n + 1] = f
      /\ \A i \in 1 .. n : more[i] = frames[i]
  BY AppendProperties, LenProperties
<1>2. Frame("subscribe", r) # Frame("unsubscribe", r)
  BY DEF Frame
<1> HIDE DEF more, n
<1>3. \A i \in 1 .. n + 1 : i \in 1 .. n \/ i = n + 1
  BY <1>1
<1>4. Len(frames) = n /\ 1 .. n \subseteq 1 .. n + 1 /\ n + 1 \in 1 .. n + 1
  BY <1>1 DEF n
<1>5. ASSUME f = Frame("subscribe", r) PROVE Belongs(more, r, held)
  <2>1. \A j \in 1 .. n + 1 : ~(n + 1 < j)
    BY <1>1
  <2> QED
    BY <1>1, <1>4, <1>5, <2>1 DEF Belongs
<1>6. ASSUME f # Frame("unsubscribe", r), Belongs(frames, r, held)
      PROVE  Belongs(more, r, held)
  <2>1. \A j \in 1 .. n + 1 :
          more[j] = Frame("unsubscribe", r) => j \in 1 .. n /\ more[j] = frames[j]
    BY <1>1, <1>3, <1>6
  <2> QED
    BY <1>1, <1>4, <1>6, <2>1 DEF Belongs
<1>7. ASSUME Belongs(more, r, held), f # Frame("subscribe", r)
      PROVE  f # Frame("unsubscribe", r) /\ Belongs(frames, r, held)
  <2>1. ASSUME NEW i \in 1 .. n + 1, more[i] = Frame("subscribe", r),
               \A j \in 1 .. n + 1 : i < j => more[j] # Frame("unsubscribe", r)
        PROVE  f # Frame("unsubscribe", r) /\ Belongs(frames, r, held)
    <3>1. i \in 1 .. n /\ i < n + 1
      BY <1>1, <1>7, <2>1
    <3>2. more[n + 1] # Frame("unsubscribe", r)
      BY <1>4, <2>1, <3>1
    <3> QED
      BY <1>1, <1>4, <2>1, <3>1, <3>2 DEF Belongs
  <2>2. ASSUME r \in held, \A i \in 1 .. n + 1 : more[i] # Frame("unsubscribe", r)
        PROVE  f # Frame("unsubscribe", r) /\ Belongs(frames, r, held)
    BY <1>1, <1>4, <2>2 DEF Belongs
  <2> QED
    BY <1>1, <1>7, <2>1, <2>2 DEF Belongs
<1> QED
  BY <1>2, <1>5, <1>6, <1>7 DEF more

(* What the first frame says of r, when only held matters otherwise.       *)
Says(f, r, held) ==
  \/ f = Frame("subscribe", r)
  \/ f # Frame("unsubscribe", r) /\ r \in held

(* The rest of the frames has its first frame at the second place.         *)
LEMMA Rest ==
  ASSUME NEW frames \in Seq(Frames), frames # <<>>
  PROVE  LET n == Len(Tail(frames)) IN
         /\ n \in Nat /\ Len(frames) = n + 1 /\ Head(frames) = frames[1]
         /\ \A k \in 1 .. n : k + 1 \in 1 .. n + 1 /\ Tail(frames)[k] = frames[k + 1]
         /\ \A i \in 1 .. n + 1 :
              i # 1 => i - 1 \in 1 .. n /\ Tail(frames)[i - 1] = frames[i]
<1> DEFINE n == Len(Tail(frames))
<1>1. /\ n \in Nat /\ Len(frames) = n + 1 /\ Head(frames) = frames[1]
      /\ \A k \in 1 .. n : Tail(frames)[k] = frames[k + 1]
  BY HeadTailProperties, LenProperties
<1> HIDE DEF n
<1>2. ASSUME NEW i \in 1 .. n + 1, i # 1
      PROVE  i - 1 \in 1 .. n /\ Tail(frames)[i - 1] = frames[i]
  <2>1. i - 1 \in 1 .. n /\ (i - 1) + 1 = i
    BY <1>1, <1>2
  <2> QED
    BY <1>1, <2>1
<1>3. \A k \in 1 .. n : k + 1 \in 1 .. n + 1
  BY <1>1
<1> QED
  BY <1>1, <1>2, <1>3 DEF n

(* Handling a frame costs no room that its sender belongs to, if what the  *)
(* connection holds next has the room that the frame asks for, and every   *)
(* room it had except one that the frame leaves.                           *)
LEMMA BelongsStill ==
  ASSUME NEW frames \in Seq(Frames), frames # <<>>, NEW r \in Rooms, NEW held, NEW now,
         Says(Head(frames), r, held) => r \in now,
         Belongs(frames, r, held)
  PROVE  Belongs(Tail(frames), r, now)
<1> DEFINE rest == Tail(frames)
           n == Len(rest)
<1>1. /\ n \in Nat /\ Len(frames) = n + 1 /\ Head(frames) = frames[1]
      /\ \A k \in 1 .. n : k + 1 \in 1 .. n + 1 /\ rest[k] = frames[k + 1]
      /\ \A i \in 1 .. n + 1 : i # 1 => i - 1 \in 1 .. n /\ rest[i - 1] = frames[i]
  BY Rest
<1> HIDE DEF rest, n
<1>2. Len(rest) = n /\ 1 \in 1 .. n + 1 /\ \A k \in 1 .. n : 1 < k + 1
  BY <1>1 DEF n
<1>3. ASSUME NEW i \in 1 .. n + 1, frames[i] = Frame("subscribe", r),
             \A j \in 1 .. n + 1 : i < j => frames[j] # Frame("unsubscribe", r)
      PROVE  Belongs(rest, r, now)
  <2>1. CASE i = 1
    <3>1. r \in now
      BY <1>1, <1>3, <2>1 DEF Says
    <3>2. \A k \in 1 .. n : rest[k] # Frame("unsubscribe", r)
      BY <1>1, <1>2, <1>3, <2>1
    <3> QED
      BY <1>2, <3>1, <3>2 DEF Belongs
  <2>2. CASE i # 1
    <3>1. i - 1 \in 1 .. n /\ rest[i - 1] = Frame("subscribe", r)
      BY <1>1, <1>3, <2>2
    <3>2. \A k \in 1 .. n : i - 1 < k => rest[k] # Frame("unsubscribe", r)
      BY <1>1, <1>3
    <3> QED
      BY <1>2, <3>1, <3>2 DEF Belongs
  <2> QED
    BY <2>1, <2>2
<1>4. ASSUME r \in held, \A i \in 1 .. n + 1 : frames[i] # Frame("unsubscribe", r)
      PROVE  Belongs(rest, r, now)
  BY <1>1, <1>2, <1>4 DEF Belongs, Says
<1>5. Belongs(rest, r, now)
  BY <1>1, <1>3, <1>4 DEF Belongs
<1> QED
  BY <1>5 DEF rest

(* And it brings none, if what the connection holds next has nothing else. *)
LEMMA BelongsAlready ==
  ASSUME NEW frames \in Seq(Frames), frames # <<>>, NEW r \in Rooms, NEW held, NEW now,
         r \in now => Says(Head(frames), r, held),
         Belongs(Tail(frames), r, now)
  PROVE  Belongs(frames, r, held)
<1> DEFINE rest == Tail(frames)
           n == Len(rest)
<1>1. /\ n \in Nat /\ Len(frames) = n + 1 /\ Head(frames) = frames[1]
      /\ \A k \in 1 .. n : k + 1 \in 1 .. n + 1 /\ rest[k] = frames[k + 1]
      /\ \A i \in 1 .. n + 1 : i # 1 => i - 1 \in 1 .. n /\ rest[i - 1] = frames[i]
  BY Rest
<1> HIDE DEF rest, n
<1>2. Len(rest) = n /\ 1 \in 1 .. n + 1
  BY <1>1 DEF n
<1>3. ASSUME NEW k \in 1 .. n, rest[k] = Frame("subscribe", r),
             \A j \in 1 .. n : k < j => rest[j] # Frame("unsubscribe", r)
      PROVE  Belongs(frames, r, held)
  <2>1. k + 1 \in 1 .. n + 1 /\ frames[k + 1] = Frame("subscribe", r)
    BY <1>1, <1>3
  <2>2. ASSUME NEW j \in 1 .. n + 1, k + 1 < j PROVE frames[j] # Frame("unsubscribe", r)
    <3>1. j - 1 \in 1 .. n /\ k < j - 1 /\ rest[j - 1] = frames[j]
      BY <1>1, <2>2
    <3> QED
      BY <1>3, <3>1
  <2> QED
    BY <1>1, <2>1, <2>2 DEF Belongs
<1>4. ASSUME r \in now, \A k \in 1 .. n : rest[k] # Frame("unsubscribe", r)
      PROVE  Belongs(frames, r, held)
  <2>1. \A i \in 1 .. n + 1 : i # 1 => frames[i] # Frame("unsubscribe", r)
    BY <1>1, <1>4
  <2>2. CASE Head(frames) = Frame("subscribe", r)
    <3>1. \A j \in 1 .. n + 1 : 1 < j => frames[j] # Frame("unsubscribe", r)
      BY <2>1
    <3> QED
      BY <1>1, <1>2, <2>2, <3>1 DEF Belongs
  <2>3. CASE Head(frames) # Frame("unsubscribe", r) /\ r \in held
    BY <1>1, <2>1, <2>3 DEF Belongs
  <2> QED
    BY <1>4, <2>2, <2>3 DEF Says
<1>5. Belongs(rest, r, now)
  BY DEF rest
<1> QED
  BY <1>2, <1>3, <1>4, <1>5 DEF Belongs

(* Holding more can only bring rooms.                                      *)
LEMMA BelongsMore ==
  ASSUME NEW frames, NEW r, NEW held, NEW now, r \in held => r \in now,
         Belongs(frames, r, held)
  PROVE  Belongs(frames, r, now)
BY DEF Belongs

IndexedRooms(c) == {r \in Rooms : c \in index[r]}

(* What the last words of a connection come to: the event rooms that its   *)
(* client wants and may see, if no frame was lost, and no room that it     *)
(* does not want, if no unsubscribe overtook a check.  Before the          *)
(* listeners are attached nothing is asked for and nothing held.           *)
LastWord(c) ==
  /\ hand[c] \in {"none"} \cup Before => pending[c] = {} /\ rooms[c] = {}
  /\ hand[c] = "none" => inbound[c] = <<>> /\ wants[c] = {} /\ sock[c] = "none"
  /\ sock[c] = "open" /\ ~dropped[c] =>
       \A r \in wants[c] :
         canAccessRoom(c, r) => Belongs(inbound[c], r, pending[c] \cup IndexedRooms(c))
  /\ sock[c] = "open" /\ ~overtaken[c] =>
       \A r \in Rooms \ wants[c] : ~Belongs(inbound[c], r, pending[c] \cup rooms[c])

(* What is said of c alone, but for the states of its socket and handler.  *)
Words(c) ==
  <<wants[c], inbound[c], pending[c], rooms[c], IndexedRooms(c), dropped[c], overtaken[c]>>

(* A step without a frame or a check of c, that opens no socket.           *)
LEMMA Unsaid ==
  ASSUME NEW c \in Conns, LastWord(c), UNCHANGED <<Words(c), members>>,
         hand'[c] = "none" => hand[c] = "none" /\ UNCHANGED sock[c],
         hand'[c] \in Before => hand[c] \in {"none"} \cup Before,
         sock'[c] = "open" => sock[c] = "open"
  PROVE  LastWord(c)'
<1>1. /\ UNCHANGED <<wants[c], inbound[c], pending[c], rooms[c], dropped[c], overtaken[c], members>>
      /\ IndexedRooms(c)' = IndexedRooms(c)
  BY DEF Words
<1> QED
  BY <1>1 DEF LastWord, canAccessRoom

(* The socket of c is closed.                                              *)
LEMMA Silenced ==
  ASSUME NEW c \in Conns, LastWord(c), sock'[c] # "open", hand'[c] # "none",
         hand'[c] \in Before => hand[c] \in Before /\ UNCHANGED <<pending[c], rooms[c]>>
  PROVE  LastWord(c)'
BY DEF LastWord

(* No connection's handlers touch another connection.                      *)
LEMMA OthersUntouched ==
  ASSUME TypeOK, NEW c \in Conns, Action(c), NEW d \in Conns, d # c
  PROVE  UNCHANGED <<Words(d), hand[d], sock[d], members>>
<1> USE DEF TypeOK, Words, IndexedRooms, clientVars, roomVars, storeVars
<1>1. CASE Accept(c)
  BY <1>1 DEF Accept, Step
<1>2. CASE PeerLeaves(c)
  BY <1>2 DEF PeerLeaves
<1>3. CASE DropFrame(c)
  BY <1>3 DEF DropFrame
<1>4. CASE Pong(c) \/ Beat(c)
  BY <1>4 DEF Pong, Beat
<1>5. ASSUME NEW r \in Rooms, Subscribe(c, r) \/ Unsubscribe(c, r)
      PROVE  UNCHANGED <<Words(d), hand[d], sock[d], members>>
  BY <1>5 DEF Subscribe, Unsubscribe
<1>6. CASE StoreRow(c) \/ ShowOnline(c) \/ UnstoreRow(c) \/ CountRows(c) \/ ShowOffline(c)
  BY <1>6 DEF StoreRow, ShowOnline, UnstoreRow, CountRows, ShowOffline, Step
<1>7. CASE CloseEvent(c)
  <2>1. /\ sock' = [sock EXCEPT ![c] = "closed"] /\ UNCHANGED <<pending, rooms, members>>
        /\ hand' = [hand EXCEPT ![c] = "unstoring"] \/ UNCHANGED hand
    BY <1>7 DEF CloseEvent
  <2>2. /\ inbound'[d] = inbound[d] /\ wants'[d] = wants[d]
        /\ dropped'[d] = dropped[d] /\ overtaken'[d] = overtaken[d]
    BY <1>7 DEF CloseEvent, Forget
  <2>3. \A r \in Rooms : d \in index'[r] <=> d \in index[r]
    <3>1. \/ UNCHANGED index
          \/ index' = [r \in Rooms |-> IF r \in rooms[c] THEN index[r] \ {c} ELSE index[r]]
      BY <1>7 DEF CloseEvent
    <3>2. CASE index' = [r \in Rooms |-> IF r \in rooms[c] THEN index[r] \ {c} ELSE index[r]]
      <4>1. \A r \in Rooms : index'[r] = index[r] \ {c} \/ index'[r] = index[r]
        BY <3>2
      <4> QED
        BY <4>1
    <3> QED
      BY <3>1, <3>2
  <2> QED
    BY <2>1, <2>2, <2>3
<1>8. CASE TakeSubscribe(c)
  BY <1>8 DEF TakeSubscribe, TakeFrame
<1>9. CASE TakeUnsubscribe(c)
  BY <1>9 DEF TakeUnsubscribe, TakeFrame, Left, Unindexed
<1>10. ASSUME NEW r \in Rooms, FinishSubscribe(c, r)
       PROVE  UNCHANGED <<Words(d), hand[d], sock[d], members>>
  <2>1. /\ pending' = [pending EXCEPT ![c] = @ \ {r}]
        /\ UNCHANGED <<sock, hand, wants, inbound, dropped, overtaken, members>>
    BY <1>10 DEF FinishSubscribe
  <2>2. \/ UNCHANGED <<rooms, index>>
        \/ /\ rooms' = [rooms EXCEPT ![c] = @ \cup {r}]
           /\ index' = [index EXCEPT ![r] = @ \cup {c}]
    BY <1>10 DEF FinishSubscribe, Indexed
  <2>3. rooms'[d] = rooms[d]
    BY <2>2
  <2>4. ASSUME NEW q \in Rooms PROVE d \in index'[q] <=> d \in index[q]
    <3>1. CASE q = r
      BY <2>2, <3>1
    <3>2. CASE q # r
      BY <2>2, <3>2
    <3> QED
      BY <3>1, <3>2
  <2> QED
    BY <2>1, <2>3, <2>4
<1> QED
  BY <1>1, <1>2, <1>3, <1>4, <1>5, <1>6, <1>7, <1>8, <1>9, <1>10 DEF Action

LEMMA AcceptWord ==
  ASSUME TypeOK, RoomsInv, NEW c \in Conns, LastWord(c), Accept(c) PROVE LastWord(c)'
<1>1. /\ hand[c] = "none" /\ hand' = [hand EXCEPT ![c] = "registered"]
      /\ UNCHANGED <<wants, inbound, pending, rooms, index>>
  BY DEF Accept, Step, clientVars, roomVars
<1>2. inbound'[c] = <<>> /\ wants'[c] = {} /\ pending'[c] = {} /\ rooms'[c] = {}
  BY <1>1 DEF LastWord, RoomsInv, NothingBeforeAccept
<1>3. Len(inbound'[c]) = 0 /\ hand'[c] = "registered"
  BY <1>1, <1>2 DEF TypeOK
<1> QED
  BY <1>2, <1>3 DEF LastWord, Belongs

LEMMA AskWord ==
  ASSUME TypeOK, NEW c \in Conns, LastWord(c), NEW r \in Rooms,
         Subscribe(c, r) \/ Unsubscribe(c, r)
  PROVE  LastWord(c)'
<1>1. /\ sock[c] = "open" /\ UNCHANGED <<sock, hand, pending, rooms, index, dropped, overtaken, members>>
  BY DEF Subscribe, Unsubscribe, MaySend, roomVars, storeVars
<1>2. IndexedRooms(c)' = IndexedRooms(c) /\ inbound[c] \in Seq(Frames)
  BY <1>1 DEF IndexedRooms, TypeOK
<1>3. PICK f \in Frames :
        /\ inbound'[c] = Append(inbound[c], f)
        /\ \/ f = Frame("subscribe", r) /\ wants'[c] = wants[c] \cup {r}
           \/ f = Frame("unsubscribe", r) /\ wants'[c] = wants[c] \ {r}
  <2>1. Frame("subscribe", r) \in Frames /\ Frame("unsubscribe", r) \in Frames
    BY DEF Frame, Frames
  <2> QED
    BY <2>1 DEF Subscribe, Unsubscribe, TypeOK
<1>4. ASSUME NEW q \in Rooms, NEW held
      PROVE  Belongs(inbound'[c], q, held)
             <=> \/ f = Frame("subscribe", q)
                 \/ f # Frame("unsubscribe", q) /\ Belongs(inbound[c], q, held)
  BY <1>2, <1>3, BelongsAppend
<1>5. \A q \in Rooms : q # r => f # Frame("subscribe", q) /\ f # Frame("unsubscribe", q)
  BY <1>3 DEF Frame
<1>6. Frame("subscribe", r) # Frame("unsubscribe", r)
  BY DEF Frame
<1>7. wants[c] \in SUBSET Rooms
  BY DEF TypeOK
<1>8. hand'[c] # "none"
  BY <1>1 DEF LastWord
<1>9. ASSUME ~dropped[c], NEW q \in wants'[c], canAccessRoom(c, q)
      PROVE  Belongs(inbound'[c], q, pending[c] \cup IndexedRooms(c))
  <2>1. q \in Rooms
    BY <1>3, <1>7
  <2>2. CASE q = r
    BY <1>3, <1>4, <1>7, <1>9, <2>1, <2>2
  <2>3. CASE q # r
    BY <1>1, <1>3, <1>4, <1>5, <1>9, <2>1, <2>3 DEF LastWord
  <2> QED
    BY <2>2, <2>3
<1>10. ASSUME ~overtaken[c], NEW q \in Rooms \ wants'[c]
       PROVE  ~Belongs(inbound'[c], q, pending[c] \cup rooms[c])
  <2>1. CASE q = r
    BY <1>3, <1>4, <1>6, <1>10, <2>1
  <2>2. CASE q # r
    BY <1>1, <1>3, <1>4, <1>5, <1>10, <2>2 DEF LastWord
  <2> QED
    BY <2>1, <2>2
<1> QED
  BY <1>1, <1>2, <1>8, <1>9, <1>10 DEF LastWord, canAccessRoom

LEMMA TakeSubscribeWord ==
  ASSUME TypeOK, NEW c \in Conns, LastWord(c), TakeSubscribe(c) PROVE LastWord(c)'
<1> DEFINE f == Head(inbound[c])
<1>1. /\ hand[c] = "ready" /\ f.type = "subscribe"
      /\ inbound[c] \in Seq(Frames) /\ inbound[c] # <<>> /\ inbound'[c] = Tail(inbound[c])
      /\ pending'[c] = pending[c] \cup {f.room}
      /\ UNCHANGED <<sock, hand, wants, rooms, index, dropped, overtaken, members>>
  BY DEF TakeSubscribe, TakeFrame, TypeOK, storeVars
<1>2. f \in Frames
  BY <1>1
<1>3. IndexedRooms(c)' = IndexedRooms(c)
  BY <1>1 DEF IndexedRooms
<1> HIDE DEF f
<1>4. \A r \in Rooms : (Frame("subscribe", r) = f <=> r = f.room) /\ Frame("unsubscribe", r) # f
  BY <1>1, <1>2 DEF Frame, Frames
<1>5. ASSUME sock[c] = "open", ~dropped[c], NEW r \in wants[c], canAccessRoom(c, r)
      PROVE  Belongs(inbound'[c], r, pending'[c] \cup IndexedRooms(c))
  <2> DEFINE held == pending[c] \cup IndexedRooms(c)
             now == pending'[c] \cup IndexedRooms(c)
  <2>1. Belongs(inbound[c], r, held) /\ r \in Rooms
    BY <1>5 DEF LastWord, TypeOK
  <2>2. Says(f, r, held) => r \in now
    BY <1>1, <1>4, <2>1 DEF Says
  <2> HIDE DEF held, now
  <2>3. Belongs(inbound'[c], r, now)
    BY <1>1, <2>1, <2>2, BelongsStill DEF f
  <2> QED
    BY <2>3 DEF now
<1>6. ASSUME sock[c] = "open", ~overtaken[c], NEW r \in Rooms \ wants[c]
      PROVE  ~Belongs(inbound'[c], r, pending'[c] \cup rooms[c])
  <2> DEFINE held == pending[c] \cup rooms[c]
             now == pending'[c] \cup rooms[c]
  <2>1. ~Belongs(inbound[c], r, held)
    BY <1>6 DEF LastWord
  <2>2. r \in now => Says(f, r, held)
    BY <1>1, <1>4 DEF Says
  <2> HIDE DEF held, now
  <2>3. ~Belongs(inbound'[c], r, now)
    BY <1>1, <2>1, <2>2, BelongsAlready DEF f
  <2> QED
    BY <2>3 DEF now
<1> QED
  BY <1>1, <1>3, <1>5, <1>6 DEF LastWord, canAccessRoom, Before

(* An unsubscribe leaves the rooms at once; a check that is under way for  *)
(* its room will bring the room back, which makes it overtaken.            *)
LEMMA TakeUnsubscribeWord ==
  ASSUME TypeOK, NEW c \in Conns, LastWord(c), TakeUnsubscribe(c) PROVE LastWord(c)'
<1> DEFINE f == Head(inbound[c])
<1>1. /\ hand[c] = "ready" /\ f.type = "unsubscribe"
      /\ inbound[c] \in Seq(Frames) /\ inbound[c] # <<>> /\ inbound'[c] = Tail(inbound[c])
      /\ rooms'[c] = rooms[c] \ {f.room}
      /\ index' = [index EXCEPT ![f.room] = @ \ {c}]
      /\ overtaken'[c] = (overtaken[c] \/ f.room \in pending[c])
      /\ UNCHANGED <<sock, hand, wants, pending, dropped, members>>
  BY DEF TakeUnsubscribe, TakeFrame, Left, Unindexed, TypeOK, storeVars
<1>2. f \in Frames
  BY <1>1
<1> HIDE DEF f
<1>3. \A r \in Rooms : (Frame("unsubscribe", r) = f <=> r = f.room) /\ Frame("subscribe", r) # f
  BY <1>1, <1>2 DEF Frame, Frames
<1>4. IndexedRooms(c)' = IndexedRooms(c) \ {f.room}
  BY <1>1 DEF IndexedRooms, TypeOK
<1>5. ASSUME sock[c] = "open", ~dropped[c], NEW r \in wants[c], canAccessRoom(c, r)
      PROVE  Belongs(inbound'[c], r, pending[c] \cup IndexedRooms(c)')
  <2> DEFINE held == pending[c] \cup IndexedRooms(c)
             now == pending[c] \cup IndexedRooms(c)'
  <2>1. Belongs(inbound[c], r, held) /\ r \in Rooms
    BY <1>5 DEF LastWord, TypeOK
  <2>2. Says(f, r, held) => r \in now
    BY <1>3, <1>4, <2>1 DEF Says
  <2> HIDE DEF held, now
  <2>3. Belongs(inbound'[c], r, now)
    BY <1>1, <2>1, <2>2, BelongsStill DEF f
  <2> QED
    BY <2>3 DEF now
<1>6. ASSUME sock[c] = "open", ~overtaken'[c], NEW r \in Rooms \ wants[c]
      PROVE  ~Belongs(inbound'[c], r, pending[c] \cup rooms'[c])
  <2> DEFINE held == pending[c] \cup rooms[c]
             now == pending[c] \cup rooms'[c]
  <2>1. ~overtaken[c] /\ f.room \notin pending[c]
    BY <1>1, <1>6
  <2>2. ~Belongs(inbound[c], r, held)
    BY <1>6, <2>1 DEF LastWord
  <2>3. r \in now => Says(f, r, held)
    BY <1>1, <1>3, <2>1 DEF Says
  <2> HIDE DEF held, now
  <2>4. ~Belongs(inbound'[c], r, now)
    BY <1>1, <2>2, <2>3, BelongsAlready DEF f
  <2> QED
    BY <2>4 DEF now
<1> QED
  BY <1>1, <1>5, <1>6 DEF LastWord, canAccessRoom, Before

(* A check that ends turns a pending room into one that is held, or takes  *)
(* it away from a user who may not see it.                                 *)
LEMMA FinishWord ==
  ASSUME TypeOK, NEW c \in Conns, LastWord(c), NEW r \in Rooms, FinishSubscribe(c, r)
  PROVE  LastWord(c)'
<1>1. /\ pending'[c] = pending[c] \ {r} /\ r \in pending[c]
      /\ UNCHANGED <<sock, hand, wants, inbound, dropped, overtaken, members>>
  BY DEF FinishSubscribe, TypeOK, clientVars, storeVars
<1>2. rooms'[c] \subseteq rooms[c] \cup {r}
  BY DEF FinishSubscribe, TypeOK
<1>3. canAccessRoom(c, r) => IndexedRooms(c)' = IndexedRooms(c) \cup {r}
  BY DEF FinishSubscribe, Indexed, IndexedRooms, TypeOK
<1>4. ~canAccessRoom(c, r) => IndexedRooms(c)' = IndexedRooms(c)
  BY DEF FinishSubscribe, IndexedRooms
<1>5. ASSUME sock[c] = "open", ~dropped[c], NEW q \in wants[c], canAccessRoom(c, q)
      PROVE  Belongs(inbound[c], q, pending'[c] \cup IndexedRooms(c)')
  <2>1. Belongs(inbound[c], q, pending[c] \cup IndexedRooms(c))
    BY <1>5 DEF LastWord
  <2>2. q \in pending[c] \cup IndexedRooms(c) => q \in pending'[c] \cup IndexedRooms(c)'
    BY <1>1, <1>3, <1>4, <1>5
  <2> QED
    BY <2>1, <2>2, BelongsMore
<1>6. ASSUME sock[c] = "open", ~overtaken[c], NEW q \in Rooms \ wants[c]
      PROVE  ~Belongs(inbound[c], q, pending'[c] \cup rooms'[c])
  <2>1. ~Belongs(inbound[c], q, pending[c] \cup rooms[c])
    BY <1>6 DEF LastWord
  <2>2. q \in pending'[c] \cup rooms'[c] => q \in pending[c] \cup rooms[c]
    BY <1>1, <1>2
  <2> QED
    BY <2>1, <2>2, BelongsMore
<1> QED
  BY <1>1, <1>5, <1>6 DEF LastWord, canAccessRoom

(* A frame that is lost was handled by nobody, and nothing is held yet.    *)
LEMMA DropFrameWord ==
  ASSUME TypeOK, NEW c \in Conns, LastWord(c), DropFrame(c) PROVE LastWord(c)'
<1>1. /\ hand[c] \in Before /\ dropped'[c] = TRUE
      /\ inbound[c] \in Seq(Frames) /\ inbound[c] # <<>> /\ inbound'[c] = Tail(inbound[c])
      /\ UNCHANGED <<sock, hand, wants, pending, rooms, overtaken>>
  BY DEF DropFrame, TypeOK, roomVars
<1>2. pending[c] \cup rooms[c] = {} /\ hand[c] # "none"
  BY <1>1 DEF LastWord, Before
<1>3. ASSUME sock[c] = "open", ~overtaken[c], NEW r \in Rooms \ wants[c]
      PROVE  ~Belongs(inbound'[c], r, pending[c] \cup rooms[c])
  <2>1. ~Belongs(inbound[c], r, pending[c] \cup rooms[c])
    BY <1>3 DEF LastWord
  <2>2. r \notin pending[c] \cup rooms[c]
    BY <1>2
  <2> QED
    BY <1>1, <2>1, <2>2, BelongsAlready
<1> QED
  BY <1>1, <1>2, <1>3 DEF LastWord

WordsInv == \A c \in Conns : LastWord(c)

LEMMA WordsStep == WordsInv /\ RoomsInv /\ TypeOK /\ [Next]_vars => WordsInv'
<1> SUFFICES ASSUME WordsInv, RoomsInv, TypeOK, [Next]_vars, NEW d \in Conns
             PROVE  LastWord(d)'
  BY DEF WordsInv
<1>1. LastWord(d)
  BY DEF WordsInv
<1> USE DEF clientVars, roomVars, storeVars
<1>2. CASE UNCHANGED vars
  BY <1>1, <1>2, Unsaid DEF vars, Words, IndexedRooms
<1>3. ASSUME NEW c \in Conns, Action(c), c # d PROVE LastWord(d)'
  BY <1>1, <1>3, OthersUntouched, Unsaid
<1>4. CASE Action(d)
  <2>1. CASE Accept(d)
    BY <1>1, <2>1, AcceptWord
  <2>2. CASE PeerLeaves(d)
    BY <1>1, <2>2, Unsaid DEF PeerLeaves, Words, IndexedRooms, TypeOK, LastWord
  <2>3. CASE DropFrame(d)
    BY <1>1, <2>3, DropFrameWord
  <2>4. CASE Pong(d) \/ Beat(d)
    <3>1. UNCHANGED <<Words(d), hand, members>>
      BY <2>4 DEF Pong, Beat, Words, IndexedRooms
    <3>2. sock'[d] = "open" => sock[d] = "open"
      BY <2>4 DEF Pong, Beat, TypeOK
    <3>3. hand[d] # "none"
      BY <2>4 DEF Pong, Beat, Registered, Before
    <3> QED
      BY <1>1, <3>1, <3>2, <3>3, Unsaid
  <2>5. ASSUME NEW r \in Rooms, Subscribe(d, r) \/ Unsubscribe(d, r) PROVE LastWord(d)'
    BY <1>1, <2>5, AskWord
  <2>6. CASE StoreRow(d) \/ ShowOnline(d) \/ UnstoreRow(d) \/ CountRows(d) \/ ShowOffline(d)
    <3>1. UNCHANGED <<sock, Words(d), members>> /\ hand'[d] # "none" /\ hand[d] # "none"
      BY <2>6 DEF StoreRow, ShowOnline, UnstoreRow, CountRows, ShowOffline, Step, Words,
         IndexedRooms, TypeOK
    <3>2. hand'[d] \in Before => hand[d] \in Before
      BY <2>6 DEF StoreRow, ShowOnline, UnstoreRow, CountRows, ShowOffline, Step, TypeOK, Before
    <3> QED
      BY <1>1, <3>1, <3>2, Unsaid
  <2>7. CASE CloseEvent(d)
    <3>1. sock'[d] = "closed" /\ sock[d] = "closing" /\ UNCHANGED <<pending, rooms>>
      BY <2>7 DEF CloseEvent, TypeOK
    <3>2. hand'[d] = "unstoring" \/ hand'[d] = hand[d]
      BY <2>7 DEF CloseEvent, TypeOK
    <3>3. hand[d] # "none"
      BY <1>1, <3>1 DEF LastWord
    <3> QED
      BY <1>1, <3>1, <3>2, <3>3, Silenced DEF Before
  <2>8. CASE TakeSubscribe(d) \/ TakeUnsubscribe(d)
    BY <1>1, <2>8, TakeSubscribeWord, TakeUnsubscribeWord
  <2>9. ASSUME NEW r \in Rooms, FinishSubscribe(d, r) PROVE LastWord(d)'
    BY <1>1, <2>9, FinishWord
  <2> QED
    BY <1>4, <2>1, <2>2, <2>3, <2>4, <2>5, <2>6, <2>7, <2>8, <2>9 DEF Action
<1>5. ASSUME NEW C \in SUBSET Conns, Crash(C) PROVE LastWord(d)'
  <2>1. CASE d \in C
    <3>1. sock'[d] = "closed" /\ hand'[d] = "crashed"
      BY <1>5, <2>1 DEF Crash
    <3> QED
      BY <1>1, <3>1, Silenced DEF Before
  <2>2. CASE d \notin C
    <3>1. UNCHANGED <<sock[d], hand[d], wants[d], inbound[d], dropped[d], overtaken[d],
                      pending[d], rooms[d], members>>
      BY <1>5, <2>2 DEF Crash, Forget, TypeOK
    <3>2. IndexedRooms(d)' = IndexedRooms(d)
      BY <1>5, <2>2 DEF Crash, IndexedRooms
    <3> QED
      BY <1>1, <3>1, <3>2, Unsaid DEF Words
  <2> QED
    BY <2>1, <2>2
<1> QED
  BY <1>2, <1>3, <1>4, <1>5, NextActions

LEMMA InitWords == Init => WordsInv
<1> SUFFICES ASSUME Init, NEW c \in Conns PROVE LastWord(c)
  BY DEF WordsInv
<1>1. /\ sock[c] = "none" /\ inbound[c] = <<>> /\ wants[c] = {}
      /\ pending[c] = {} /\ rooms[c] = {}
  BY DEF Init
<1> QED
  BY <1>1 DEF LastWord

(* A connection all of whose frames and checks are done is indexed under   *)
(* each room that it asked for and may see, in whatever order its checks   *)
(* ended, if none of its frames was lost.                                  *)
THEOREM NoSubscribeUndone == Spec => []SubscriptionsHeld
<1>1. WordsInv /\ TypeOK => SubscriptionsHeld
  <2> SUFFICES ASSUME WordsInv, TypeOK, NEW c \in Conns, Settled(c), ~dropped[c],
                      NEW r \in wants[c], canAccessRoom(c, r)
               PROVE  c \in index[r]
    BY DEF SubscriptionsHeld
  <2>1. Belongs(inbound[c], r, pending[c] \cup IndexedRooms(c))
    BY DEF WordsInv, LastWord, Settled
  <2>2. Len(inbound[c]) = 0 /\ pending[c] = {}
    BY DEF Settled
  <2> QED
    BY <2>1, <2>2 DEF Belongs, IndexedRooms
<1> QED
  BY <1>1, InitRooms, InitWords, RoomsStep, WordsStep, TypeCorrect, PTL DEF Spec

(* And it holds no room that it has left, if no unsubscribe of its was     *)
(* handled during the check of an earlier subscribe.                       *)
THEOREM NoRoomKept == Spec => []NothingUnasked
<1>1. WordsInv /\ TypeOK => NothingUnasked
  <2> SUFFICES ASSUME WordsInv, TypeOK, NEW c \in Conns, Settled(c), ~overtaken[c],
                      NEW r \in rooms[c], r \notin wants[c]
               PROVE  FALSE
    BY DEF NothingUnasked
  <2>1. ~Belongs(inbound[c], r, pending[c] \cup rooms[c])
    BY DEF WordsInv, LastWord, Settled, TypeOK
  <2>2. Len(inbound[c]) = 0
    BY DEF Settled
  <2> QED
    BY <2>1, <2>2 DEF Belongs
<1> QED
  BY <1>1, InitRooms, InitWords, RoomsStep, WordsStep, TypeCorrect, PTL DEF Spec

=============================================================================
