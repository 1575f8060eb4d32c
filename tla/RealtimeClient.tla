---------------------------- MODULE RealtimeClient ----------------------------
(***************************************************************************)
(* One browser tab's realtime connection, from end to end: RealtimeClient  *)
(* of ws.ts, the layout that connects and disconnects it, the pages that   *)
(* subscribe to rooms, and, of the gateway, what the client can tell: when *)
(* it begins to listen, its room index, and the broadcast of the events    *)
(* that come from the bus.                                                 *)
(*                                                                         *)
(* Sockets are numbered in the order in which connect() makes them.        *)
(***************************************************************************)
EXTENDS Integers, Sequences, FiniteSets, SequencesExt

CONSTANTS
  Rooms,       \* the rooms of pages, all open to the user
  MaxSockets,
  MaxEvents,   \* events that come from the bus
  MaxFrames    \* frames, or checks of a room, under way when a page comes or goes

ASSUME RoomAssumption == IsFiniteSet(Rooms)
ASSUME SocketAssumption == MaxSockets \in Nat \ {0}
ASSUME BoundAssumption == MaxEvents \in Nat /\ MaxFrames \in Nat

VARIABLES
  shell,           \* the layout is mounted and has a user
  token,           \* the access cookie is there and has not expired
  rooms,           \* RealtimeClient.rooms: those of the pages that are mounted
  socket,          \* RealtimeClient.socket, 0 for null
  manuallyClosed,
  timers,          \* timeouts of onclose that have not fired
  ready,           \* per socket, its readyState
  up,              \* per socket, the frames on their way to the gateway
  serving,         \* per socket, where the gateway is with it
  pending,         \* per <<socket, room>>, the subscribes whose access is checked
  index,           \* roomIndex: <<socket, room>>
  down,            \* per socket, the events on their way to the tab
  events,          \* the rooms of the events that came from the bus
  heard,           \* per event, how often a mounted page got it
  lost,            \* history: sockets whose frames met no listener
  overtaken,       \* history: <<socket, room>> last unsubscribed during a check
  hasty,           \* history: the layout connected while it had a socket or timer
  late             \* history: disconnect() found a timer

vars == <<shell, token, rooms, socket, manuallyClosed, timers, ready, up, serving,
          pending, index, down, events, heard, lost, overtaken, hasty, late>>
tabVars == <<shell, token, rooms>>
clientVars == <<socket, manuallyClosed, timers, hasty, late>>
roomVars == <<pending, index, overtaken>>
serverVars == <<serving, lost, roomVars>>
eventVars == <<down, events, heard>>

Sockets == 1 .. MaxSockets
Live == {"connecting", "open"}

Frames == [type : {"subscribe", "unsubscribe"}, room : Rooms]

Unclosed == {s \in Sockets : ready[s] \in Live \cup {"closing"}}

Init ==
  /\ shell = FALSE /\ token = TRUE /\ rooms = {}
  /\ socket = 0 /\ manuallyClosed = FALSE /\ timers = 0
  /\ ready = [s \in Sockets |-> "none"]
  /\ up = [s \in Sockets |-> <<>>]
  /\ serving = [s \in Sockets |-> "none"]
  /\ pending = [i \in Sockets \X Rooms |-> 0]
  /\ index = {} /\ overtaken = {}
  /\ down = [s \in Sockets |-> <<>>]
  /\ events = <<>>
  /\ heard = [n \in 1 .. MaxEvents |-> 0]
  /\ lost = {} /\ hasty = FALSE /\ late = FALSE

----------------------------------------------------------------------------
(* RealtimeClient.                                                         *)

Frame(type, r) == [type |-> type, room |-> r]

(* send() drops what it cannot send now.                                   *)
Send(frames) ==
  up' = IF socket # 0 /\ ready'[socket] = "open"
          THEN [up EXCEPT ![socket] = @ \o frames] ELSE up

\* Mutant of AfterConnect: manuallyClosed stays as it is.
AfterConnectKept == manuallyClosed

AfterConnect == FALSE

(* connect(), where closed is what its caller has just closed.             *)
Connect(closed) ==
  LET next == CHOOSE s \in Sockets :
                ready[s] = "none" /\ \A t \in 1 .. s - 1 : ready[t] # "none"
  IN
  /\ \E s \in Sockets : ready[s] = "none"
  /\ socket' = next
  /\ manuallyClosed' = AfterConnect
  /\ ready' = [[s \in Sockets |->
       IF s \in closed /\ ready[s] \in Live THEN "closing" ELSE ready[s]]
         EXCEPT ![next] = "connecting"]

(* The timeout of an onclose.                                              *)
Retry ==
  /\ timers > 0
  /\ Connect({})
  /\ timers' = timers - 1
  /\ UNCHANGED <<tabVars, up, serverVars, eventVars, hasty, late>>

\* Mutant of Replayed: the rooms of the first connection are forgotten.
ReplayedNot == <<>>

Replayed == SetToSeq({Frame("subscribe", r) : r \in rooms})

(* The handshake is done; onopen sends over this.socket, whatever socket   *)
(* opened.                                                                 *)
Opened(s) ==
  /\ ready[s] = "connecting"
  /\ ready' = [ready EXCEPT ![s] = "open"]
  /\ serving' = [serving EXCEPT ![s] = IF token THEN "awaiting" ELSE "refused"]
  /\ Send(Replayed)
  /\ UNCHANGED <<tabVars, clientVars, lost, roomVars, eventVars>>

\* Mutants of Scheduled: onerror schedules too, or a closed client goes on.
ScheduledTwice == IF manuallyClosed THEN timers ELSE timers + 2
ScheduledAlways == timers + 1

Scheduled == IF manuallyClosed THEN timers ELSE timers + 1

(* onclose.                                                                *)
Closed(s) ==
  /\ ready[s] = "closing"
  /\ ready' = [ready EXCEPT ![s] = "closed"]
  /\ timers' = Scheduled
  /\ UNCHANGED <<tabVars, socket, manuallyClosed, hasty, late, up, serverVars, eventVars>>

\* What is left of r without the sockets that are gone.
Without(gone, r) == {i \in r : i[1] \notin gone}

(* Sockets begin to close.  No handler of the tab gets a message of theirs *)
(* any more, nor do their frames, and what the gateway keeps of them until *)
(* onDisconnect, make a difference to the client: all this is dropped now. *)
(* Gateway has what a check of a room leaves behind when it outlives it.   *)
Forget(gone) ==
  /\ up' = [s \in Sockets |-> IF s \in gone THEN <<>> ELSE up[s]]
  /\ down' = [s \in Sockets |-> IF s \in gone THEN <<>> ELSE down[s]]
  /\ serving' = [s \in Sockets |-> IF s \in gone THEN "gone" ELSE serving[s]]
  /\ pending' = [i \in Sockets \X Rooms |-> IF i[1] \in gone THEN 0 ELSE pending[i]]
  /\ index' = Without(gone, index) /\ overtaken' = Without(gone, overtaken)
  /\ lost' = lost \ gone
  /\ UNCHANGED <<events, heard>>

(* onmessage: the listener of the page of the event's room, if there is    *)
(* one.                                                                    *)
Message(s) ==
  LET n == Head(down[s]) IN
  /\ ready[s] = "open" /\ down[s] # <<>>
  /\ down' = [down EXCEPT ![s] = Tail(@)]
  /\ heard' = IF events[n] \in rooms THEN [heard EXCEPT ![n] = @ + 1] ELSE heard
  /\ UNCHANGED <<tabVars, clientVars, ready, up, serverVars, events>>

----------------------------------------------------------------------------
(* The layout and the pages.                                               *)

Mount ==
  /\ ~shell
  /\ shell' = TRUE
  /\ Connect({})
  /\ hasty' = (hasty \/ Unclosed # {} \/ timers > 0)
  /\ UNCHANGED <<token, rooms, timers, up, serverVars, eventVars, late>>

(* Every page goes with the layout; its unsubscribe has no open socket.    *)
Unmount ==
  /\ shell
  /\ shell' = FALSE
  /\ rooms' = {}
  /\ manuallyClosed' = TRUE
  /\ ready' = [s \in Sockets |->
       IF s = socket /\ ready[s] \in Live THEN "closing" ELSE ready[s]]
  /\ Forget({socket})
  /\ late' = (late \/ timers > 0)
  /\ UNCHANGED <<token, socket, timers, hasty>>

(* The user in the store changes, or React runs the effect twice: the      *)
(* layout disconnects and connects in one go.                              *)
ChangeUser ==
  /\ shell
  /\ Connect({socket}) /\ Forget({socket})
  /\ hasty' = (hasty \/ Unclosed # {} \/ timers > 0)
  /\ UNCHANGED <<tabVars, timers, late>>

Quiet == socket # 0 => Len(up[socket]) < MaxFrames
Unchecked(r) == socket # 0 => pending[<<socket, r>>] < MaxFrames

OpenPage(r) ==
  /\ shell /\ r \notin rooms /\ Quiet /\ Unchecked(r)
  /\ rooms' = rooms \cup {r}
  /\ UNCHANGED ready
  /\ Send(<<Frame("subscribe", r)>>)
  /\ UNCHANGED <<shell, token, clientVars, serverVars, eventVars>>

ClosePage(r) ==
  /\ shell /\ r \in rooms /\ Quiet
  /\ rooms' = rooms \ {r}
  /\ UNCHANGED ready
  /\ Send(<<Frame("unsubscribe", r)>>)
  /\ UNCHANGED <<shell, token, clientVars, serverVars, eventVars>>

(* The access token expires, which no page renews; a log-in sets it.       *)
Expire ==
  /\ token
  /\ token' = FALSE
  /\ UNCHANGED <<shell, rooms, clientVars, ready, up, serverVars, eventVars>>

Login ==
  /\ ~shell /\ ~token
  /\ token' = TRUE
  /\ UNCHANGED <<shell, rooms, clientVars, ready, up, serverVars, eventVars>>

----------------------------------------------------------------------------
(* The gateway and the network.                                            *)

(* A handshake without a valid token is closed with 4001 once it is open,  *)
(* and a connection may be lost at any time.                               *)
Drop(s) ==
  /\ ready[s] \in Live
  /\ ready' = [ready EXCEPT ![s] = "closing"]
  /\ Forget({s})
  /\ UNCHANGED <<tabVars, clientVars>>

Refuse(s) == serving[s] = "refused" /\ Drop(s)

(* onConnect's awaits are over: the listeners are attached.                *)
Attach(s) ==
  /\ serving[s] = "awaiting" /\ ready[s] = "open"
  /\ serving' = [serving EXCEPT ![s] = "listening"]
  /\ UNCHANGED <<tabVars, clientVars, ready, up, lost, roomVars, eventVars>>

LoseFrame(s) ==
  /\ serving[s] = "awaiting" /\ ready[s] = "open" /\ up[s] # <<>>
  /\ up' = [up EXCEPT ![s] = Tail(@)]
  /\ lost' = lost \cup {s}
  /\ UNCHANGED <<tabVars, clientVars, ready, serving, roomVars, eventVars>>

(* A subscribe is handled up to its await, an unsubscribe to its end.      *)
TakeFrame(s) ==
  LET frame == Head(up[s])
      i == <<s, frame.room>>
  IN
  /\ serving[s] = "listening" /\ ready[s] = "open" /\ up[s] # <<>>
  /\ up' = [up EXCEPT ![s] = Tail(@)]
  /\ \/ /\ frame.type = "subscribe"
        /\ pending' = [pending EXCEPT ![i] = @ + 1]
        /\ overtaken' = overtaken \ {i}
        /\ UNCHANGED index
     \/ /\ frame.type = "unsubscribe"
        /\ index' = index \ {i}
        /\ overtaken' = IF pending[i] > 0 THEN overtaken \cup {i} ELSE overtaken \ {i}
        /\ UNCHANGED pending
  /\ UNCHANGED <<tabVars, clientVars, ready, serving, lost, eventVars>>

(* canAccessRoom says yes.                                                 *)
FinishSubscribe(s, r) ==
  /\ ready[s] = "open" /\ pending[<<s, r>>] > 0
  /\ pending' = [pending EXCEPT ![<<s, r>>] = @ - 1]
  /\ index' = index \cup {<<s, r>>}
  /\ UNCHANGED <<tabVars, clientVars, ready, up, serving, lost, overtaken, eventVars>>

(* broadcastToLocalRoom: an event that was published comes from Redis.     *)
Broadcast(r) ==
  /\ Len(events) < MaxEvents
  /\ events' = Append(events, r)
  /\ down' = [s \in Sockets |->
       IF <<s, r>> \in index /\ ready[s] = "open"
         THEN Append(down[s], Len(events) + 1) ELSE down[s]]
  /\ UNCHANGED <<tabVars, clientVars, ready, up, serverVars, heard>>

Next ==
  \/ Retry \/ Mount \/ Unmount \/ ChangeUser \/ Expire \/ Login
  \/ \E r \in Rooms : OpenPage(r) \/ ClosePage(r) \/ Broadcast(r)
  \/ \E s \in Sockets :
       \/ Opened(s) \/ Closed(s) \/ Message(s)
       \/ Drop(s) \/ Refuse(s) \/ Attach(s) \/ LoseFrame(s) \/ TakeFrame(s)
       \/ \E r \in Rooms : FinishSubscribe(s, r)

Spec == Init /\ [][Next]_vars

(* What the two ends of a socket do by themselves, one at each point of    *)
(* its life until it is open for good or closed.                           *)
Proceed(s) == Opened(s) \/ Attach(s) \/ Refuse(s) \/ Closed(s)

(* Timeouts fire, handshakes end, and the gateway's queries are answered.  *)
FairSpec ==
  /\ Spec
  /\ WF_vars(Retry)
  /\ \A s \in Sockets : WF_vars(Proceed(s))

----------------------------------------------------------------------------
(* Properties.                                                             *)

TypeOK ==
  /\ shell \in BOOLEAN /\ token \in BOOLEAN /\ rooms \in SUBSET Rooms
  /\ socket \in 0 .. MaxSockets /\ manuallyClosed \in BOOLEAN /\ timers \in Nat
  /\ ready \in [Sockets -> {"none", "closing", "closed"} \cup Live]
  /\ up \in [Sockets -> Seq(Frames)]
  /\ serving \in [Sockets -> {"none", "awaiting", "refused", "listening", "gone"}]
  /\ pending \in [Sockets \X Rooms -> Nat]
  /\ index \in SUBSET (Sockets \X Rooms) /\ overtaken \in SUBSET (Sockets \X Rooms)
  /\ down \in [Sockets -> Seq(1 .. MaxEvents)]
  /\ events \in Seq(Rooms)
  /\ heard \in [1 .. MaxEvents -> Nat]
  /\ lost \in SUBSET Sockets /\ hasty \in BOOLEAN /\ late \in BOOLEAN

(* The whole app shares one socket, or one timer that will make it, until  *)
(* the layout connects while an earlier socket is still closing or a timer *)
(* is still running.                                                       *)
OneSocketUntilHasty ==
  ~hasty => /\ timers <= 1
            /\ \A s, t \in Unclosed : s = t
            /\ timers = 1 => Unclosed = {}

(* While the layout is mounted, the client never ends up without a socket  *)
(* and without a timer, in whatever order its sockets close and open.      *)
NeverStranded == shell => Unclosed # {} \/ timers > 0

(* The connection is torn down when the layout is gone: no socket is left  *)
(* open.  It takes a timer that was running at disconnect(), or a second   *)
(* socket, to keep one.                                                    *)
TornDownUnlessLate ==
  ~shell /\ ~late /\ ~hasty => timers = 0 /\ \A s \in Sockets : ready[s] \notin Live

Listening(s) == ready[s] = "open" /\ serving[s] = "listening"

(* After any drop, and any change of pages meanwhile, the gateway's index  *)
(* has the rooms of the mounted pages under the client's socket, once its  *)
(* frames are handled, their access is checked, and none of them came      *)
(* before the listeners.  It has no other room, but one that was left      *)
(* while its access was checked: the check puts back what the unsubscribe  *)
(* took away.                                                              *)
RoomsReplayed ==
  /\ socket # 0 /\ Listening(socket)
  /\ up[socket] = <<>> /\ socket \notin lost
  /\ \A r \in Rooms : pending[<<socket, r>>] = 0
  => \A r \in Rooms :
       /\ r \in rooms => <<socket, r>> \in index
       /\ <<socket, r>> \in index => r \in rooms \/ <<socket, r>> \in overtaken

(* A page hears no event twice while there is one socket.                  *)
HeardOnce == ~hasty => \A n \in 1 .. MaxEvents : heard[n] <= 1

(* A tab whose cookie is valid is back on the gateway after every drop, as *)
(* long as it stays open and there are sockets left.                       *)
BackOnline ==
  (shell /\ token)
  ~> \/ socket # 0 /\ Listening(socket)
     \/ ~shell \/ ~token
     \/ \A s \in Sockets : ready[s] # "none"

=============================================================================
