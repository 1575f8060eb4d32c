# TLA+ models of Operixa

Operixa is a collaboration workspace: organizations with projects, kanban
boards and documents, kept current in every open browser over a WebSocket. The
backend (`src/backend`) is an Express and `ws` server over Postgres (Prisma) and
Redis; the frontend (`src/frontend`) is a Next.js application whose React Query
cache is updated by realtime events. Several backend nodes may run at once.
Almost every handler reads, awaits, and then writes, so other handlers run at
each `await`: that is where this code is hard, and what the modules are about.

Line numbers below are of files under `src/backend/src/` unless a path starts
with `src/`.

## Inventory

| Component | State it keeps | Operations | What is hard | What makes it correct |
|---|---|---|---|---|
| Document store, `modules/documents/documents.routes.ts` | `Document` row, `DocumentVersion` rows | create, PUT with `expectedUpdatedAt`, restore, list | check and write are separate awaits; publish fails after the commit; editors' caches lag | a genuine history, a 409 never spurious; where handlers do not overlap and stamps differ no silent overwrite, and each restore can be undone |
| Edit lock, same file | a Redis key with a time to live | lock (SET NX, GET, EXPIRE), unlock (GET, DEL), expiry; the page's renewal timer | the commands of two calls interleave; crashes; late calls | only writers hold it, an editor that renews keeps it, an abandoned lock frees itself |
| Document editor page, `src/frontend/src/app/(app)/document/[documentId]/page.tsx` | query cache, banner, subscription | open, fetch, refetch, save, restore, event, reconnect | a response overtaken by a refetch; swallowed errors; a lost event | the page ends at the document as it is; a refused save is told, unless the GET after it fails; nobody conflicts with himself |
| Sessions, `modules/auth/` | `User`, `Session` rows, browser cookies | register, login, refresh (rotation), logout, expiry | test and revocation are separate; a call is cut off half way | a presented token is consumed, a login has one usable session until refreshes overlap, no dead cookie |
| Organizations, `modules/organizations/`, `middleware/rbac.ts` | `Organization`, `Membership`, `Invitation`, `AuditLog` | create with a slug search, invite, change a role, audit | roles are read before they are used; creations race for a slug | slugs unique and contiguous, an owner exists, ownership is not forged, the trail is truthful |
| Gateway, `realtime/gateway.ts` | clients map, room index, connection rows, presence hash | connect, subscribe, unsubscribe, heartbeat, disconnect, end of the process | listeners are attached after awaits; closing races access checks; tabs race each other; nodes die | index and rooms agree with membership, subscriptions hold, presence is cleared, dead peers are found and leave their rooms |
| Event bus, `realtime/eventBus.ts` | one Redis channel | publish, subscribe | at most once; a failing publish after a commit | order of one channel, no event for a room but to its members |
| Browser client, `src/frontend/src/lib/ws.ts`, `app/(app)/layout.tsx` | socket, rooms, timers | connect, disconnect, subscribe, reconnect, replay of rooms | handlers of an old socket run beside a new one; timers outlive `disconnect()` | one socket; a mounted tab comes back with the rooms it wants; nothing is heard twice |
| Task board, `modules/tasks/`, the project page | `Task` rows, each board's cache, events on their way | create, move, delete, fetch, join, apply an event, move optimistically, roll back | events out of order, events during opening, failed moves | boards converge to the database |
| Notifications, `modules/tasks/`, `modules/notifications/`, `workers/notificationWorker.ts` | BullMQ jobs, `Notification` rows | assign, enqueue, process with three attempts | at-least-once delivery; overlapping assignments; slow and dead workers | the assignee is told, twice only after a failure or an overlap; every job ends |
| Projects and files, `modules/projects/`, `modules/files/`, `lib/storage.ts` | rows, files under `uploads` | create, list, update; upload, list | a failing second step | a row names a whole file |
| Request pipeline and process, `app.ts`, `server.ts`, `middleware/` | rate-limit counter, requests under way | count, handle, reject, stop, start | rejections outside `asyncHandler`; shutdown | the limit holds over instances and restarts; every request ends |
| Search, other pages, environment, logging | none that matters | single calls | | |

Interactions: handlers call Postgres and Redis; document, task, notification
and gateway handlers publish through the event bus; every gateway node
subscribes to the bus and broadcasts to the sockets its room index names; pages
subscribe to rooms through `ws.ts` and apply events to their caches; handlers
enqueue jobs that the worker turns into rows, events and mails.

`PROJECT.json` lists every component with its status, every hazard at its line
and the properties that would catch it.

## Modules

One module per component; `MC*` instantiates it for TLC, `*Proofs` holds its
theorems. EditorProofs has those of both modules of the editor page
(DocumentPages and DocumentLock), TaskProofs those of both modules that model the
task routes (TaskBoard and Notifications); so that one module can extend both,
DocumentLock and TaskBoard name their parts `LockInit`, `BoardNext` and so on.
Modules cut the system where its parts meet in few places: what a
neighbour does at the cut is an action of its own (`Broadcast` for the bus,
`SendElsewhere` for other browsers, `Drop` for the network), so that each module
has all interleavings of its own part with anything the neighbour may do.

History variables and fields are read by no handler and stand there for the
properties: `rev`, `since`, `log`, `root`, `stale`, `granted`, `smooth`,
`dropped`, `overtaken`, `behind`, `raced`, `seen`, `missed`, `before`, `back`,
`handed`, `apart`, `lost`, `hasty`, `late`, `passed`, `applied`, `was`.

**DocumentStore** (with **VersionedRegister**). One document. `doc` is the row,
`versions` the history rows, `cache` what each editor's query cache holds, `req`
a handler per call. `SendSave` and `SendRestore` are the page's calls,
`Deny`/`Reject`/`Check` the read, role test and comparison (the row is read once,
so they act on one snapshot), `Commit` the transaction, `Publish`/`PublishFails`
the event, `Respond` the answer reaching the editor, `Lose` a crash or a cut
connection. A request stands for the content it writes. `updatedAt` is
a stamp to which a commit adds one of `Steps`, which may be any integers: two
commits may share a millisecond, and instances have clocks of their own.
VersionedRegister is the abstract promise, made for calls that overlap: a call
is judged by, and files, one state the document was in between the call and its
end; it has no step at which the document is looked at, so that every interleaving
of the handlers has to be explained by a choice made when the call ends.

**DocumentLock**. One document's key as holder and remaining ticks; one tick is
the page's renewal period of 20 s, so `LOCK_TTL_SECONDS = 60` is `TTL = 3`. Each
call is at one Redis command: `SetNX`, `GetHolder`, `Expire`, `AnswerLocked`,
`UnlockGet`, `UnlockDel`. Tabs `Mount`, `Renew`, `Unmount`, `Crash`. `Handlers`
bounds how many calls of a tab are under way at once.

**DocumentPages**. The editor pages of one document, which is here the number of
commits made to it; DocumentStore has the contents. A page opens (with a stale,
fresh or absent copy), fetches (`ReadDocument` at the server, `ShowDocument` at
the page, which are apart), refetches on focus or on `document.updated`, loses its
subscription and joins again, sends saves and restores, puts answers into its
cache. A 409 that reaches the page (`Refused`) makes it ask for the latest
document, and the banner is raised when that comes (`Surface`); if the request
fails, the refusal is swallowed (`Swallow`). `Elsewhere` is any page outside
`Pages`.

**Sessions**. Accounts, session rows, cookies. The token a call issues is named
after the call, so tokens are distinct. `root` and `parent` tell families apart;
the schema has no such columns. `stale` says of a refresh that its token had been
revoked before the call was made.

**Organizations**. Organizations of one name (the only interesting case for the
slug search), named after the call that creates them. `Authorize` is
`requireRole` with the OWNER test; the write, the audit and the answer follow.
Members arrive through `Join`, as the seed script and the tests make them: no
route accepts an invitation.

**Gateway**. The server's side of connections that live once. `hand` is the
point the server has reached with a connection: `registered`, `stored`, `ready`
(listeners attached), `unstoring`, `counting`, `hiding`, `gone`, or `crashed`.
`sock` is the socket. Frames that arrive before `ready` are emitted to nobody
(`DropFrame`). A close event before `ready` finds no listener. `pending` holds
the subscribes that await `canAccessRoom`. `Crash` is the end of a process, by
SIGTERM or by a rejection no handler catches, with any of its connections.

**RealtimeClient**. One tab from end to end: the layout that connects and
disconnects, pages that open and close, sockets numbered in the order `connect()`
makes them, retry timers, frames to the gateway and events from it. Every handler
of an old socket can still run after a new one was made, as in the code, where
all of them act on the fields of one object. `LoseFrame` is a frame that comes
before the listeners. A subscribe waits for its access check (`pending`) and is
indexed by `FinishSubscribe`; an unsubscribe may be handled in between
(`overtaken`). What is on its way over a socket, and what the gateway keeps of
it, goes when the socket begins to close (`Forget`): a browser hands on no
message of a closing socket, and a check that outlives its socket, which the
client sees nothing of, is left to Gateway.

**TaskBoard**. Task rows by column and position, a handler per call, boards with
cache, fetch, subscription and an inbox of events. All events pass through one
channel, so each board sees them in publication order. After `Publish` the call is
still to be answered (`Answer`), and a caller that loses the answer rolls back
what was announced (`CutOff`). `FindTop` says what the smallest position of a
column is without computing it; that a finite set has one would take induction to
prove.

**Notifications**. The task routes up to the queue, and the worker. `job` is
BullMQ's record as the code configures it: attempts, backoff, stalls, the run
that holds the lock. `run` is how far each run of a job has got, whether or not
it still holds the job; `rows` are the inserts. A call may fail before its job is
queued (`Break`) or after (`Enqueue`, which leaves open whether the caller is
answered: nothing else depends on it). `Reject`, `Die` and `Stall` are a
failing step, a dying worker and a lock that runs out.

**HttpServer**. Instances of the API process and requests that go through the
awaits of their route (`Awaits`), with the shared rate limit, the project and file
routes, `Fail` (caught by `asyncHandler`), `FailLoose` (a rejection outside of it,
which ends the process), `FailElsewhere` (the same in the role checks of the
organization routes and in the gateway's socket handlers), `Stop`, `Exit` and
`Start`.

## Runs

| Run | Question | Bounds | Result |
|---|---|---|---|
| `saves` | What holds when saves and restores overlap freely and stamps may be equal? | 3 calls, 1 member and a viewer, steps of 0 or 1 ms | pass |
| `overwrite` | Can a save overwrite one its editor never saw, even if every stamp differs? | 3 calls, 2 members and a viewer, steps of 1 ms | violated |
| `editing` | Who holds the lock, for how long, with calls late and lost? | 3 tabs of 3 users, one with 2 calls at once, TTL 3 | pass |
| `pages` | Where does an editor page end, and what does it tell? | 1 page opened at most twice, 3 calls, its own and others' | pass |
| `calls` | What survives overlapping logins, refreshes, logouts? | 4 calls, 2 browsers, 1 email | pass |
| `members` | Roles, slugs and the audit trail under overlap | 3 calls, 2 users | pass |
| `tabs` | Rooms, presence and heartbeat, with crashes | 2 connections of one user, a member or not, 1 room, 1 frame on its way each | pass |
| `stale_rooms` | Can a connection that is gone be left in a room? | the same | violated |
| `tab_client` | Does a tab come back with the right rooms? | 1 room, 3 sockets, 2 events, 2 frames on their way, 2 checks under way | pass |
| `boards` | Does a board converge? | 3 calls, its own and others', 1 task, 2 columns | pass |
| `told` | Is the assignee told, and how often? | 2 calls, 2 users, 2 attempts, 1 stall | pass |
| `requests` | What ends a request, and what does it leave behind? | 2 instances, 2 requests, limit 1 | pass |

*Why the bounds are enough.* Each hazard needs two handlers that overlap and a
third that looks at, or builds on, the result; three calls give that (one member
suffices, since a call that was sent does not keep its page from fetching and
sending again), and four let a rotated token be rotated again while both are
used. One board or page, with calls from elsewhere, has every order of its own
steps with the events of others; boards do not influence each other except
through calls. Tasks and documents do not influence each other in these handlers,
so one is enough. Steps of 0 and 1 give equal and distinct stamps, and the
theorems hold for any steps. TTL 3 is the code's ratio of 60 s to 20 s. Three
sockets are the one that was closed, the one that replaced it, and one that a
timer of the first makes beside it; two frames and two checks under way let a
subscribe, the unsubscribe that overtakes it and a subscribe after that meet in
any order, and two events can come by two sockets. Two attempts and one stall
give each way for two runs of a job to overlap or follow each other; the code's
three attempts repeat the second. A limit of one is reached by the second
request. Runs with `CHECK_DEADLOCK FALSE` end when each call was made or each
connection or socket was used up, which is where the bounded system stops;
`editing` has no such end and is checked for deadlock.

*What the properties say.*

- Documents, with handlers that overlap as they like and any stamps:
  `HistoryGenuine` (a version holds what the document contained between the call
  that filed it and its write), `ConflictGenuine`, `LossNeedsOverlap` (a version
  is the state it should undo, unless its write overlapped the one before),
  `OverwriteNeedsOverlap` (an edit is overwritten unseen only if it was committed
  between the read and the write of the save, or has the stamp the editor sent).
  `ImplementsRegister` says the same of each call as a whole. `NoSilentOverwrite`
  is what the code's comment claims; `overwrite` shows that overlap alone breaks it.
- Lock: `AbandonedLockExpires` holds whatever happens to calls. `KeptWhileGranted`
  and `LastEditorGetsLock` are promised while calls are served within the tick
  they were made in and one after the other per user (`smooth`), which is what
  the comment on the soft lock relies on.
- Editor pages: `PagesConverge` names the four ways in which a page that is
  subscribed, and has no event or fetch to come, can show an old document,
  whatever calls are under way; `RejectionTold`: a refusal is told unless the
  request for the latest document fails, and only a save accepted later, or one
  that overlapped, takes the banner away; `NoSelfConflict`: a user who types in one
  page and waits is refused only after failures that the property names.
- Sessions: `ParentsRevoked` (rotation consumes), `OneLiveUntilFork` (only
  two refreshes of one token that were both made before either revoked it give a
  login two usable sessions; a replay of a revoked token does not),
  `CookieUsable` (a browser is not left with a dead cookie unless a call was cut
  off).
- Organizations: `SlugsContiguous`, `OwnedUntilDemotion`, `OwnershipNotForged`
  (where no owner, owner's invitation or owner's running call is left, none
  reappears), `AuditTruthful`.
- Gateway: `IndexMatchesRooms`, `SubscriptionsHeld` (only a frame sent before
  the listeners are attached costs a subscription), `NothingUnasked` (only an
  unsubscribe that overtook an access check leaves one), `OfflineWhenGone`,
  `DeadPeerReleased` (the handler of a vanished peer comes to its end, and no room
  is indexed for it then unless a frame was to be handled or a check under way).
  `NoStaleRooms`, the comment at the heartbeat, is violated by such a check.
- Browser client: `OneSocketUntilHasty`, `TornDownUnlessLate`, `HeardOnce`;
  `RoomsReplayed` (after any drop and any change of pages meanwhile the
  gateway's index has the rooms of the mounted pages, and no other but one that
  was left while its access was checked); `BackOnline` (a tab
  with a valid cookie comes back).
- Task board: `BoardsConverge`, for each board and each task by itself: when no
  write, publish, event or own move of the task is still to come, the board shows
  it as the database has it, whatever goes on with other tasks and boards. It
  names the three ways in which a board can stay behind: it rolled back a move of
  its own, an event passed it by, or handlers of the task overlapped between write
  and publish.
- Notifications: `AssigneeTold` (a job that reached the queue is not lost, whatever
  became of the call), `DuplicatesHaveCause` (notifications tell of a write that
  made somebody else the assignee, or one whose handler had read an assignee that
  changed meanwhile; and of one call there is one more than its job failed or was
  handed on at most), `JobsEnd`.
- Requests: `LimitHolds` over all instances and their restarts, `RowsHaveFiles`,
  `EveryRequestEnds`.

Every type invariant is a conjunct of an inductive invariant below, and proved;
those of `boards` and `pages` are checked by their runs as well. `ViewersNeverHold`
and `NeverStranded` are theorems that no run repeats.

## Where code and documentation disagree

`overwrite` and `stale_rooms` are disagreements with a run of their own (see
"findings"). The others are behaviours of the same models; the properties above
exclude each by a named condition, so that nothing else can lead there:

- A restore that overlaps a save files what it read, not what it replaces; the
  comment at `documents.routes.ts:195-197` says a restore can always be undone
  (`OverlappedAt`).
- Two commits with one `updatedAt` look alike to a stale save, which passes (the
  last case of `OverwriteNeedsOverlap`).
- A 409 whose GET fails is never told (`swallowed`); `src/docs/ARCHITECTURE.md:80`
  says that conflicts are "always surfaced rather than swallowed".
- Two calls that overlap and assign one user both find another assignee
  (`tasks.routes.ts:113`), and tell him twice with nothing failing (`apart`).
- `unlock` may delete a lock that changed hands between GET and DEL, and `lock`
  may answer 409 when the key went away between SET NX and GET (`smooth`).
- A refresh token can be exchanged twice by overlapping refreshes (`Forked`). A
  revoked one is refused from then on, and the family is not revoked as the
  comment at `auth.service.ts:58-60` says. Two registrations of one email may end
  in a 500 instead of `EMAIL_TAKEN`.
- The last owner of an organization may be demoted, and an admin may do it; the
  comments at `organizations.routes.ts:53-54` and `:137` say otherwise.
- A subscribe sent as soon as the socket opens is lost when the gateway still
  awaits `onConnect` (`dropped`, `lost`). One that an unsubscribe overtakes
  leaves the room subscribed (`overtaken`). A socket that closes during
  `onConnect` is never disconnected, and the row stays connected; so does the row
  of a connection whose node ended. A tab that connects between another's count
  and its write of `offline` is shown offline.
- A timer that was running at `disconnect()` opens a socket without a layout
  (`late`), and an `onclose` that comes after the next `connect()` schedules
  another one (`hasty`).
- Events of two writes can be published in the other order (`raced`). An event
  during a board's fetch is lost to it, a rolled back move undoes events applied
  since (`behind`); two cards created at once get one position.
- The comment at `middleware/errorHandler.ts:16-17` says rejected promises reach
  the error handler. Those of `PATCH /projects/:projectId` and of `requireRole`
  do not: they end the process (`FailLoose`, `FailElsewhere`).

## Fairness

Safety needs none. Users, clients and the network are never assumed to do
anything: no fairness on opening, closing, sending, dropping or crashing.

- `editing`: time passes (`Tick`), the interval of an open page fires and sends
  (`Renew`), and a call that reached the API is served (`Serve`: one handler,
  whose Redis commands are answered).
- `tabs`: the queries of a handler are answered and a closing socket emits its
  event (`Serve`), and the heartbeat interval fires (`Beat`); pongs may never come.
- `tab_client`: timers fire (`Retry`), and a socket takes the next step of its own
  (`Proceed`): a handshake ends (`Opened`), the gateway's awaits end (`Attach`), a
  refused socket is closed by the gateway (`Refuse`), a closing one closes
  (`Closed`). Drops are not prevented: `BackOnline` says that the tab comes back or
  uses up its sockets.
- `told`: workers take jobs (`Take`) and what they await settles (`Work`), delayed
  jobs are promoted, and the stalled-job check finds a job whose run is over.
- `requests`: what a handler awaits settles (`Serve`).

All are weak fairness: each of these steps, once possible, stays possible until
it is taken or its actor is gone.

## Proofs

For every value of the constants that satisfies the modules' assumptions. Each
module proves one inductive invariant, one lemma per action, and the theorems
from it.

*DocumentStoreProofs.* No theorem assumes anything of overlap or of commit times.
`TypeCorrect`, `HistoryIsGenuine` (`HistoryGenuine`), `ConflictsAreGenuine`
(`ConflictGenuine`), `LossesNeedOverlap` (`LossNeedsOverlap`),
`OverwritesNeedOverlap` (`OverwriteNeedsOverlap`) and `StoreImplementsRegister`
(`ImplementsRegister`) rest on one argument: snapshots held in caches and
handlers are states the row had, a call's token is the stamp of its base, and
what a handler read was a state at or after the call. That is what the register
asks for when the call ends: the state the handler read is the witness for the
state the call saw. For the history it must also be known that the record of a
writer stays as it was, which holds because a call writes once. The refinement
maps initial states to initial states and each step to a step of the register or
a stutter (`InitRefines`, `StepRefines`).

*EditorProofs, the page.* `TypeCorrect`, `PagesAgree` (`PagesConverge`),
`RejectionsTold` (`RejectionTold`) and `NotOnesOwn` (`NoSelfConflict`) from
`PagesInv`, for any pages, visits and finite set of calls. Revisions are counted:
`rev` is one more than the calls that committed, and an inbox holds at most one
event per call that announced (`Counts`), which is also why the types are bounded.
`Knows` is the reason why pages converge: a page has seen the last commit, or has
an event of it, or a fetch that will show it, or one of the named failures stands
in the way. Each clause hands over to another: a publish turns the commit's own
clause (`Unannounced`) into an event or a miss, an event into a fetch, a fetch
into what was seen. `RejectionTold` and `NoSelfConflict` are inductive once it is
known what a call remembers of those before it (`BeforeFine`) and that the answer
of an accepted save was shown (`ShownOnce`).

*EditorProofs, the lock.* `LockTypeCorrect`, `WritersHold` (`ViewersNeverHold`)
and `GrantedKeep` (`KeptWhileGranted`) from `LockInv`. The last needs to know why
the key cannot run out: while calls are served in time a granted lock is fresh,
or one tick old with a renewal still to come in this tick (`Fresh`), and a handler
about to renew or delete still finds the holder its GET found (`StillHeld`),
which rests on one call per user (`OneCall`).

*SessionsProofs.* `TypeCorrect`, with `CallForm` (what a call carries at each
point). `RotationConsumes` (`ParentsRevoked`) from `RotationInv`: a call that has
not issued has no row, and one about to issue has revoked what it presents.
`OneSuccessor` (`OneLiveUntilFork`) from `StaleInv`, that no refresh of a token
revoked before it was sent ever issues a session, and `FamilyInv`: of two sessions
of a family one descends from the other or the family forks, so each family is a
chain whose live session, being nobody's parent, is its end. `NoStaleCookie`
(`CookieUsable`) from `CookieInv`, which says more than the property of a call
under way: it carries a token of its own browser (`Carried`), what an answer
brings is live when it arrives (`AnswersLive`), and if the token in the jar is
revoked, the call that did it has not ended (`Kept`) and will replace it or take
it away.

*OrganizationsProofs.* `TypeCorrect`, `TrailIsTrue` (`AuditTruthful`),
`SlugsInOrder` (`SlugsContiguous`), `OwnersRemain` (`OwnedUntilDemotion`) and the
action property `OwnersMadeByOwners` (`OwnershipNotForged`), all that is checked
of this module, from `OrgInv`. It says of each handler what its earlier steps
established (`Sound`): the slugs below its probe are taken, and stay so because
slugs are never freed, hence a free probe is exactly the next number; and a
handler past `requireRole` may grant what it is about to grant.

*GatewayProofs.* `TypeCorrect`. `RoomsAgree` (`IndexMatchesRooms`) from `RoomsInv`,
which adds that a connection not accepted yet is in no room. `PresenceCleared`
(`OfflineWhenGone`) from `PresenceInv`: an online user has a connection that has
not finished taking presence down, that crashed, or whose row is connected.
`NoSubscribeUndone` (`SubscriptionsHeld`) and `NoRoomKept` (`NothingUnasked`) from
`WordsInv`. The properties speak of connections with nothing on its way; the
invariant speaks of all of them: `Belongs(inbound, r, held)` says where a room
ends up when the frames on their way are read after what is held or being
checked, and that is where the client wants it. The lemmas about `Belongs` (one
frame more, one read, a hold added or removed) carry every step.

*RealtimeClientProofs.* `TypeCorrect`, `OneSocket` (`OneSocketUntilHasty`),
`AlwaysOneToCome` (`NeverStranded`) and `TornDown` (`TornDownUnlessLate`) from
`ClientInv`: sockets are made in order (`Numbered`); a mounted client is open for
business and has a socket or a timer (`Lasting`); until it was hasty it has no
socket but the last and no timer beside it (`Single`). `HeardAtMostOnce`
(`HeardOnce`) from `EventInv`: events are on their way in ascending order
(`OnTheirWay`), and what was heard is older than all of them (`HeardBefore`), so
none comes again; it rests on `Single`, as a second open socket would hear what
the first did. `RoomsComeBack` (`RoomsReplayed`) from `ReplayInv`, the client's
side of the argument about `Belongs`: nothing is said over a socket that is not
open (`NothingUnheard`), and what the gateway holds or is checking, with the
frames still to come, is what the pages want (`RoomsToCome`); a room whose
unsubscribe overtook its check counts as left.

*TaskProofs, boards.* `BoardTypeCorrect` and `BoardsAgree` (`BoardsConverge`) from
`BoardInv`, for any tasks, columns, boards and calls. `RowFine`: while handlers of
a task do not overlap between write and publish, one of them at most has yet to
publish, and the row is as it wrote it. `MailFine`: hence the last event about a
task on its way to a board tells what the row is, once no publish is outstanding,
and its creation comes before all others, so no event about a task finds a board
that lacks it for good. `Follows`, the board: what it shows, or what the answer
to its fetch brings, is the row when nothing is still to come; it lacks a task
only while the creation is to come. The second part is needed because a board
ignores an update of a task it does not show, and a creation of one it does. The
lemmas `OneMore` and `OneLess` say what an event added to a queue, or taken off
it, does to each of these. A fetch may bring a row whose creation is still on its
way; `OnlyCreating` and `OnlyCreated` are for that case.

*TaskProofs, notifications.* `TypeCorrect`, `ToldWithCause`
(`DuplicatesHaveCause`) and `Told` (`AssigneeTold`) from `NotifyInv`. `CallFine`
ties a job to the call that queued it: there is one only if the call handed the
task to somebody, or the assignee it had read changed. The core is `JobFine`: the
runs used so far are the first failures + stalls, and one more while a run has the
job or has completed it, so the holder is the last of them and nothing holds a job
that has ended.

*HttpServerProofs.* `TypeCorrect`, `LimitKept` (`LimitHolds`) and
`RowsHaveTheirFiles` (`RowsHaveFiles`). The limit needs that what was let through
never exceeds what was counted; the files, what each request has on disk at each
of its awaits.

*Only model-checked.* Every invariant and every action property of the runs is a
theorem. What is left is liveness, which under fairness and with ENABLED is out of
the prover's reach: `AbandonedLockExpires`, `LastEditorGetsLock`,
`DeadPeerReleased`, `BackOnline`, `JobsEnd`, `EveryRequestEnds`. So is what a
recursive definition computes for every input; there is none here.

## Not modelled

- Titles, notes, authors, fields of projects, listings, search: no rule relates
  them to anything.
- The access token and OAuth: signed claims without state; the token is valid or
  not where that matters (RealtimeClient, HttpServer). The separate limit of the
  authentication routes works as the one in HttpServer.
- Redis connections of the bus: `ioredis` subscribes again after a loss; modules
  that depend on events lose any they may lose.
- Removal of members, acceptance of invitations, moves of cards within a column
  from a page, deletion of files: no route or page does them.
- `presence.changed`, `typing.changed`, `document.locked`/`unlocked` events: no
  client acts on them.
- Environment, logging, static files, forms and lists of other pages. The query
  cache that a log-out leaves to the next user of the tab
  (`src/frontend/src/app/(app)/layout.tsx:48`) is not modelled.

## Plan

Done: every component but search and the plain pages; every safety property a
run checks is proved.

1. A second document for restores, whose handler looks the version up by its id
   alone, and positions of cards, which two creations at once may share.
2. The lemmas liveness rests on, as safety: for instance that whenever a job has
   not ended one of `told`'s fair actions has something to act on.
