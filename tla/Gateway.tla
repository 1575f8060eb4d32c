------------------------------- MODULE Gateway -------------------------------
(***************************************************************************)
(* The WebSocket gateway of gateway.ts: the handlers of a connection from  *)
(* its handshake to its end, the rooms it subscribes to, the heartbeat,    *)
(* and the presence of its user in Redis.  Handlers of all connections     *)
(* interleave at every await; a connection lives once, and a browser that  *)
(* reconnects is a new one.  Nodes need no name: no handler looks at       *)
(* another node's memory, and the shared state is in Postgres and Redis.   *)
(* The connections that end at one crash are those of its node.            *)
(*                                                                         *)
(* presence.changed and typing.changed events are left out: no client acts *)
(* on them.                                                                *)
(***************************************************************************)
EXTENDS Integers, Sequences

CONSTANTS
  Conns, Users, Rooms,
  UserOf,     \* the user a connection's token names
  MaxFrames   \* frames of one connection that are on their way

ASSUME UserAssumption == UserOf \in [Conns -> Users]
ASSUME FramesAssumption == MaxFrames \in Nat

VARIABLES
  sock,      \* the socket: none, open, dead (peer gone, TCP not), closing, closed
  hand,      \* where the server is with the connection
  wants,     \* the rooms the client believes it is subscribed to
  inbound,   \* frames sent and not handled yet
  pending,   \* rooms whose subscribe awaits canAccessRoom
  rooms,     \* ClientState.rooms
  index,     \* roomIndex
  alive,     \* ClientState.isAlive
  row,       \* the WebSocketConnection row
  presence,  \* the status field of the user's presence hash
  members,   \* <<user, room>>: the user has a membership in the room's organization
  dropped,   \* history: connections that lost a frame to a missing listener
  overtaken  \* history: connections with an unsubscribe handled during its check

vars == <<sock, hand, wants, inbound, pending, rooms, index, alive, row, presence,
          members, dropped, overtaken>>
clientVars == <<wants, inbound, dropped, overtaken>>
roomVars == <<pending, rooms, index>>
storeVars == <<row, presence, members>>

Before == {"registered", "stored"}
Alive == {"ready", "unstoring", "counting", "hiding"} \cup Before
Handing == Alive \cup {"none", "gone", "crashed"}
Frames == [type : {"subscribe", "unsubscribe"}, room : Rooms]

(* The entries of the clients map.                                         *)
Registered(c) == hand[c] \in Before \cup {"ready"}

Init ==
  /\ sock = [c \in Conns |-> "none"]
  /\ hand = [c \in Conns |-> "none"]
  /\ wants = [c \in Conns |-> {}]
  /\ inbound = [c \in Conns |-> <<>>]
  /\ pending = [c \in Conns |-> {}]
  /\ rooms = [c \in Conns |-> {}]
  /\ index = [r \in Rooms |-> {}]
  /\ alive = [c \in Conns |-> TRUE]
  /\ row = [c \in Conns |-> "none"]
  /\ presence = [u \in Users |-> "offline"]
  /\ members \in SUBSET (Users \X Rooms)
  /\ dropped = [c \in Conns |-> FALSE]
  /\ overtaken = [c \in Conns |-> FALSE]

----------------------------------------------------------------------------
(* The client and the network.                                             *)

Frame(type, r) == [type |-> type, room |-> r]

(* ws.ts sends as soon as its socket is open.                              *)
MaySend(c) ==
  /\ sock[c] = "open"
  /\ Len(inbound[c]) < MaxFrames

Subscribe(c, r) ==
  /\ MaySend(c)
  /\ r \notin wants[c]
  /\ wants' = [wants EXCEPT ![c] = @ \cup {r}]
  /\ inbound' = [inbound EXCEPT ![c] = Append(@, Frame("subscribe", r))]
  /\ UNCHANGED <<sock, hand, dropped, overtaken, roomVars, alive, storeVars>>

Unsubscribe(c, r) ==
  /\ MaySend(c)
  /\ r \in wants[c]
  /\ wants' = [wants EXCEPT ![c] = @ \ {r}]
  /\ inbound' = [inbound EXCEPT ![c] = Append(@, Frame("unsubscribe", r))]
  /\ UNCHANGED <<sock, hand, dropped, overtaken, roomVars, alive, storeVars>>

(* The peer closes, or it vanishes without the server's TCP noticing.      *)
PeerLeaves(c) ==
  /\ sock[c] = "open"
  /\ \E s \in {"closing", "dead"} : sock' = [sock EXCEPT ![c] = s]
  /\ UNCHANGED <<hand, clientVars, roomVars, alive, storeVars>>

(* A message that arrives before the listeners are attached is gone.       *)
DropFrame(c) ==
  /\ inbound[c] # <<>>
  /\ hand[c] \in Before
  /\ inbound' = [inbound EXCEPT ![c] = Tail(@)]
  /\ dropped' = [dropped EXCEPT ![c] = TRUE]
  /\ UNCHANGED <<sock, hand, wants, overtaken, roomVars, alive, storeVars>>

----------------------------------------------------------------------------
(* The life of a connection.                                               *)

(* What a client and the histories say of connections ends with them.      *)
Forget(C) ==
  /\ inbound' = [c \in Conns |-> IF c \in C THEN <<>> ELSE inbound[c]]
  /\ wants' = [c \in Conns |-> IF c \in C THEN {} ELSE wants[c]]
  /\ dropped' = [c \in Conns |-> dropped[c] /\ c \notin C]
  /\ overtaken' = [c \in Conns |-> overtaken[c] /\ c \notin C]

Step(c, from, to) == hand[c] = from /\ hand' = [hand EXCEPT ![c] = to]

(* A handshake with a valid token registers the client; without one, the   *)
(* socket is closed with 4001 and never gets this far.                     *)
Accept(c) ==
  /\ Step(c, "none", "registered")
  /\ sock' = [sock EXCEPT ![c] = "open"]
  /\ UNCHANGED <<clientVars, roomVars, alive, storeVars>>

(* onConnect: the row, then presence; then the listeners are attached.     *)
StoreRow(c) ==
  /\ Step(c, "registered", "stored")
  /\ row' = [row EXCEPT ![c] = "connected"]
  /\ UNCHANGED <<sock, clientVars, roomVars, alive, presence, members>>

ShowOnline(c) ==
  /\ Step(c, "stored", "ready")
  /\ presence' = [presence EXCEPT ![UserOf[c]] = "online"]
  /\ UNCHANGED <<sock, clientVars, roomVars, alive, row, members>>

(* A socket emits its close event once.  If the listener is attached, it   *)
(* runs onDisconnect up to its first await.                                *)
CloseEvent(c) ==
  /\ sock[c] = "closing"
  /\ sock' = [sock EXCEPT ![c] = "closed"]
  /\ Forget({c})
  /\ IF hand[c] = "ready"
       THEN /\ hand' = [hand EXCEPT ![c] = "unstoring"]
            /\ index' = [r \in Rooms |->
                 IF r \in rooms[c] THEN index[r] \ {c} ELSE index[r]]
       ELSE UNCHANGED <<hand, index>>
  /\ UNCHANGED <<pending, rooms, alive, storeVars>>

(* onDisconnect goes on when its update fails.                             *)
UnstoreRow(c) ==
  /\ Step(c, "unstoring", "counting")
  /\ \E r \in {"connected", "disconnected"} : row' = [row EXCEPT ![c] = r]
  /\ UNCHANGED <<sock, clientVars, roomVars, alive, presence, members>>

\* Mutant of StillConnected: disconnected rows count too.
StillConnectedEver(u) == \E d \in Conns : UserOf[d] = u /\ row[d] # "none"

StillConnected(u) == \E d \in Conns : UserOf[d] = u /\ row[d] = "connected"

CountRows(c) ==
  /\ Step(c, "counting", IF StillConnected(UserOf[c]) THEN "gone" ELSE "hiding")
  /\ UNCHANGED <<sock, clientVars, roomVars, alive, storeVars>>

ShowOffline(c) ==
  /\ Step(c, "hiding", "gone")
  /\ presence' = [presence EXCEPT ![UserOf[c]] = "offline"]
  /\ UNCHANGED <<sock, clientVars, roomVars, alive, row, members>>

----------------------------------------------------------------------------
(* handleClientMessage: subscribe awaits canAccessRoom, unsubscribe does   *)
(* not wait.  Two checks of one room under way at once count as one: they  *)
(* end alike.                                                              *)

\* Mutants of Indexed and Unindexed: the index is forgotten.
IndexedNot(c, r) == index
UnindexedNot(c, r) == index

Indexed(c, r) == [index EXCEPT ![r] = @ \cup {c}]

Unindexed(c, r) == [index EXCEPT ![r] = @ \ {c}]

\* Mutant of Left: the connection keeps the room.
LeftNot(c, r) == rooms

Left(c, r) == [rooms EXCEPT ![c] = @ \ {r}]

TakeFrame(c, type) ==
  /\ hand[c] = "ready"
  /\ inbound[c] # <<>>
  /\ Head(inbound[c]).type = type
  /\ inbound' = [inbound EXCEPT ![c] = Tail(@)]

TakeSubscribe(c) ==
  /\ TakeFrame(c, "subscribe")
  /\ pending' = [pending EXCEPT ![c] = @ \cup {Head(inbound[c]).room}]
  /\ UNCHANGED <<sock, hand, wants, dropped, overtaken, rooms, index, alive, storeVars>>

TakeUnsubscribe(c) ==
  LET r == Head(inbound[c]).room IN
  /\ TakeFrame(c, "unsubscribe")
  /\ rooms' = Left(c, r)
  /\ index' = Unindexed(c, r)
  /\ overtaken' = [overtaken EXCEPT ![c] = @ \/ r \in pending[c]]
  /\ UNCHANGED <<sock, hand, wants, dropped, pending, alive, storeVars>>

(* No route takes a membership away.                                       *)
canAccessRoom(c, r) == <<UserOf[c], r>> \in members

FinishSubscribe(c, r) ==
  /\ r \in pending[c]
  /\ pending' = [pending EXCEPT ![c] = @ \ {r}]
  /\ IF canAccessRoom(c, r)
       THEN /\ rooms' = [rooms EXCEPT ![c] = @ \cup {r}]
            /\ index' = Indexed(c, r)
       ELSE UNCHANGED <<rooms, index>>
  /\ UNCHANGED <<sock, hand, clientVars, alive, storeVars>>

----------------------------------------------------------------------------
(* The heartbeat looks at every entry of the clients map.                  *)

\* Mutant of Terminable: a closing handshake, which a dead peer never answers.
TerminableOpen(c) == sock[c] = "open"

Terminable(c) == sock[c] \in {"open", "dead"}

Beat(c) ==
  /\ Registered(c)
  /\ \/ /\ ~alive[c]
        /\ Terminable(c)
        /\ sock' = [sock EXCEPT ![c] = "closing"]
        /\ UNCHANGED alive
     \/ /\ alive[c]
        /\ alive' = [alive EXCEPT ![c] = FALSE]
        /\ UNCHANGED sock
  /\ UNCHANGED <<hand, clientVars, roomVars, storeVars>>

Pong(c) ==
  /\ sock[c] = "open"
  /\ ~alive[c]
  /\ hand[c] = "ready"
  /\ alive' = [alive EXCEPT ![c] = TRUE]
  /\ UNCHANGED <<sock, hand, clientVars, roomVars, storeVars>>

(* The process of a node ends: SIGTERM, a crash, or a query or publish of  *)
(* a handler that rejects, which nothing catches.  Its memory and sockets  *)
(* are gone; rows and presence stay as they are.                           *)
Crash(C) ==
  /\ C # {} /\ \A c \in C : hand[c] \in Alive
  /\ hand' = [c \in Conns |-> IF c \in C THEN "crashed" ELSE hand[c]]
  /\ sock' = [c \in Conns |-> IF c \in C THEN "closed" ELSE sock[c]]
  /\ Forget(C)
  /\ pending' = [c \in Conns |-> IF c \in C THEN {} ELSE pending[c]]
  /\ rooms' = [c \in Conns |-> IF c \in C THEN {} ELSE rooms[c]]
  /\ index' = [r \in Rooms |-> index[r] \ C]
  /\ UNCHANGED <<alive, storeVars>>

Serve(c) ==
  \/ StoreRow(c) \/ ShowOnline(c)
  \/ CloseEvent(c) \/ UnstoreRow(c) \/ CountRows(c) \/ ShowOffline(c)

Rooming(c) ==
  \/ TakeSubscribe(c) \/ TakeUnsubscribe(c)
  \/ \E r \in Rooms : FinishSubscribe(c, r)

Client(c) ==
  \/ Accept(c) \/ PeerLeaves(c) \/ DropFrame(c) \/ Pong(c)
  \/ \E r \in Rooms : Subscribe(c, r) \/ Unsubscribe(c, r)

Next ==
  \/ \E c \in Conns : Client(c) \/ Serve(c) \/ Rooming(c) \/ Beat(c)
  \/ \E C \in SUBSET Conns : Crash(C)

Spec == Init /\ [][Next]_vars

(* Queries are answered, closed sockets say so, and the interval fires.    *)
FairSpec == Spec /\ \A c \in Conns : WF_vars(Serve(c)) /\ WF_vars(Beat(c))

----------------------------------------------------------------------------
(* Properties.                                                             *)

TypeOK ==
  /\ sock \in [Conns -> {"none", "open", "dead", "closing", "closed"}]
  /\ hand \in [Conns -> Handing]
  /\ wants \in [Conns -> SUBSET Rooms]
  /\ inbound \in [Conns -> Seq(Frames)]
  /\ pending \in [Conns -> SUBSET Rooms]
  /\ rooms \in [Conns -> SUBSET Rooms]
  /\ index \in [Rooms -> SUBSET Conns]
  /\ alive \in [Conns -> BOOLEAN]
  /\ row \in [Conns -> {"none", "connected", "disconnected"}]
  /\ presence \in [Users -> {"offline", "online"}]
  /\ members \in SUBSET (Users \X Rooms)
  /\ dropped \in [Conns -> BOOLEAN]
  /\ overtaken \in [Conns -> BOOLEAN]

(* The index that broadcasts use and the rooms of the connections agree    *)
(* for every connection the node holds, and hold only rooms its user may   *)
(* see: no event is sent to a socket that has not been authorized for it.  *)
IndexMatchesRooms ==
  \A c \in Conns, r \in Rooms :
    /\ Registered(c) => (c \in index[r] <=> r \in rooms[c])
    /\ c \in index[r] => canAccessRoom(c, r)

Settled(c) ==
  sock[c] = "open" /\ hand[c] = "ready" /\ inbound[c] = <<>> /\ pending[c] = {}

(* A frame sent before the listeners are attached is the only thing that   *)
(* can cost a client an event room it asked for and may see: whatever the  *)
(* order in which its access checks end, no subscribe is undone.           *)
SubscriptionsHeld ==
  \A c \in Conns :
    Settled(c) /\ ~dropped[c]
    => \A r \in wants[c] : canAccessRoom(c, r) => c \in index[r]

(* No client gets the events of a room it has left, unless its unsubscribe *)
(* was handled while the access check of a subscribe before it was under   *)
(* way.                                                                    *)
NothingUnasked ==
  \A c \in Conns : Settled(c) /\ ~overtaken[c] => rooms[c] \subseteq wants[c]

ConnsOf(u) == {c \in Conns : UserOf[c] = u}

(* A user all of whose connections have ended by themselves is shown       *)
(* offline, however their ends overlapped each other and new beginnings,   *)
(* unless the update of one of their rows failed.  A connection that a     *)
(* crash ended leaves its row connected, and its user online.              *)
OfflineWhenGone ==
  \A u \in Users :
    (\A c \in ConnsOf(u) : hand[c] \in {"none", "gone"} /\ row[c] # "connected")
    => presence[u] = "offline"

InNoRoom(c) == \A r \in Rooms : c \notin index[r]

(* A peer that vanished is found out by the heartbeat, and the handler of  *)
(* its connection comes to its end if its node does not end before; no     *)
(* room is indexed for it then, if no frame of it was left to handle and   *)
(* no access check under way when the peer vanished.  Its row may stay     *)
(* connected, since onDisconnect swallows a failing update.                *)
DeadPeerReleased ==
  \A c \in Conns :
    /\ (sock[c] = "dead" /\ hand[c] = "ready") ~> hand[c] \in {"gone", "crashed"}
    /\ (sock[c] = "dead" /\ hand[c] = "ready" /\ inbound[c] = <<>> /\ pending[c] = {})
         ~> (hand[c] \in {"gone", "crashed"} /\ InNoRoom(c))

(* What the comment at the heartbeat says: a connection that has gone is   *)
(* not left in a room for ever, as nothing would take it out.              *)
NoStaleRooms == \A c \in Conns : hand[c] = "gone" /\ pending[c] = {} => InNoRoom(c)

=============================================================================
