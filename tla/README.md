# TankBattleOL: a verification project

TankBattleOL is an online two-player tank game. A C++ game server keeps the
rooms and drives a lockstep: at 15 frames a second it sends every player of a
room the operations of all players, and each client computes the same game from
them. A C++ proxy turns web socket connections of the browser clients into
socket connections to the server. The client is a Cocos Creator program in
TypeScript.

This directory holds TLA+ models of the parts with the hard state, the TLC runs
that check them on small instances and TLAPS proofs for all instances.

## 1. Inventory

| Component | State | Operations | What makes it correct |
|---|---|---|---|
| `Room` (server/game_server/room) | seats, status, menu, mode, `support_dxxw`, frame clock, recorded frames | seat and status setters, `StartGameFrameTimer`, `StopGameFrameTimer`, `SetGameFramePause`, `OnGameFrameSync`, `ResetRoom` | seats, status, mode and clock agree at every moment the mutex is free |
| `GameServer` (server/game_server/game_server) | `users_` (session to user), `rooms_`, user ids | a handler for each request, login, close events | a user has one session and one seat; a started game keeps its players; a lost connection is noticed |
| Locks | `rooms_mtx_`, one `mtx_` in every `Room`, `users_mtx_`, generators' mutexes | taken by all handlers | no circular wait; lookups meet whole rooms |
| `IDGenerator` (common/utils) | `now_`, `use_set_` | `GenerateOneID`, `ReturnOneID` | no id has two owners; none is refused while one is free |
| `WorkServer` (server/work_server) | work queue, `pluse_map_` | posts requests and socket events to the worker threads; closes connections that stop sending heartbeats | starts in order; an alive connection is not closed |
| `AsioSockServer` (server/socket_server) | sessions: status, read buffer, write queue | accept, hello, framing, write, close | packages whole and in order; one write at a time; one close event |
| Client connection (NetWork.ts, GameConnectModel.ts) | request queue, outstanding request, timers, login flags | `sendRequest`, `onMessage`, `connectServer`, timeout, reconnection | every answer meets its request; nothing is stuck |
| Frame synchronisation (room.cpp, GameLogicModel.ts) | the frame record; the client's `_frameQueue`, `_netFrameNO` | frames out, operations in, catching up after a reconnection | all clients play the same frames, each once, in order |
| Menus (MainMenu.ts, MenuRoom.ts, GameDataModel.ts) | the page, what the client holds of the room | keys, answers, notifications | the page fits the room, the client's view is the server's |
| Keys (GameInputModel.ts, GameInputManager.ts, GameOpeControl.ts) | keys held, told and recorded | key events, dialogs, capture with a frame, effect of a frame's keys | no key stuck, a pause can end |
| Course of a game (Game.ts, managers, TimeSchedule.ts) | stage, lives, enemies, prop, scheduled tasks | the last frame's events, due tasks, the enemies' clock | every stage begins clean and ends |
| Battle (BattleTank.ts, Bullet.ts, Scenery.ts, GameDataModel.ts) | positions, directions, bullets, walls | moving, turning, shooting, hitting, dying | a bullet has one target and ends; what is seen follows the game |
| Maps (GameMapManger.ts, MapEditTank.ts) | sceneries, the saved map | editing, saving, loading, spade | both players have the same map; base and born places are free |
| Proxy (ws_server, socket_client, proxy_server, clients_manager) | pairs of a web socket and a socket session | connect, relay, close from either side | one closes with the other; data in order |

Interaction: an io thread of `AsioSockServer` turns bytes into packages and
events and posts them to the queue of `WorkServer`; two worker threads (main.cpp)
take them and run the `GameServer` handlers; these take mutexes and change
`Room`s; one frame thread runs the rooms' timers under the rooms' mutexes.
Answers and notifications go back through `SendData`, which posts to the io
thread.

Hard behaviour: handlers of two sessions, or of one session and its own close
event, overlap on the two workers; a handler lets go of every mutex between
looking a room up and locking it; timers that have expired cannot be taken back;
connections drop in the middle of a game and players come back on new ones; the
socket layer may report a close twice; the map of rooms and the rooms are locked
in two orders. In the client everything runs on one thread, but between the key
that is pressed and the frame that brings it, between a request and its answer,
and between one logic frame and the next anything can happen: dialogs open,
scenes change, tanks die while their bullets fly, tasks come due together. PROJECT.json lists each of these, at its line, under "hazards".

## 2. The modules

| Modules | Extend | Subject |
|---|---|---|
| `Room`, `GameServer`, `GameServerMC` | | the server's rooms and handlers |
| `GameServerProofs` | `GameServer` | invariants and action properties for all instances; what the comments promise of connections, for one worker |
| `LockOrder`, `LockOrderMC`, `LockOrderProofs` | | the locks that `GameServer` takes for granted |
| `IDGenerator`, `IDPool`, `IDGeneratorProofs` | | ids, and the abstract pool they implement |
| `Connection`, `ConnectionProofs` | | one client's connection, login and frames, and the server it meets |
| `Lobby`, `LobbyProofs` | | the room and the menus of two clients |
| `Stage`, `StageProofs` | | the course of a game: stages, lives, enemies, props, tasks |
| `Field` | | the geometry of the map |
| `Tanks`, `Battle`, `BattleMC` | `Field` | tanks, bullets and walls in a battle |
| `Drive`, `DriveMC` | `Tanks` | the picture between logic frames, props on free ground |
| `TanksProofs` | `Battle`, `Drive` | invariants of a battle, what is drawn and where props appear, for every field |
| `Keys`, `MapEdit`, `MapEditMC`, `MapEditProofs` | `Field` | keys, map editing and the game's map on two clients |

They meet where one takes the other's result for granted: `GameServer` takes a
lookup for one step (`LockOrder` shows why it may) and ids for fresh
(`IDGenerator`); `Connection` has the server's frames as a record that grows
(`FrameNumbersRunOn` of `GameServer`); `Lobby` has requests one after the other
(the interleavings are `GameServer`'s); `Stage` has the hits that `Battle` makes
as choices, and `MapEdit` has the events that `Stage` orders; `Battle` has frames
that keep coming.

What would come next: the random numbers of the clients, so that "equal frames
give equal games" can be said of battles as it is of maps; the sessions of
`AsioSockServer` with their buffers; the proxy; in `Battle`, more tanks at a time.

## 3. The models

### Room

Operators only: a room as a record, and what each method of the class, and each
passage of a handler under the room's mutex, makes of it. `armed` and `queued`
are the two stages of the deadline timer: a pending wait, which `cancel` and
`expires_from_now` take back, and an expired one, whose handler is on its way to
the mutex and which nothing takes back. With the one frame thread of
`GAMEFRAME_THREAD_NUM` a timer has at most one handler on its way.

Left out: operation codes (a seat has an operation or has none), the random seed
and the recorded frames, whose number is `frame_no`. The clock enters
`OnGameFrameSync` as `late`: whether `FRAME_TIMEOUT_TIME` has passed.

### GameServer

| Variable | Code |
|---|---|
| `users` | `users_`, `NoUser` where a session has no entry |
| `rooms`, `room` | `rooms_`, and the `Room` objects behind the ids |
| `next_room`, `next_user` | the generators of ids (no id is used twice below the bound) |
| `task` | what each worker thread is doing: the handler, where it is cut, what it has read |
| `closes` | the close events of a session that have started |
| `answered` | the user ids that clients know, for a later login |
| `crashed` | a null pointer was dereferenced |

A handler is cut where it holds no mutex and has read something it will use
later:

- a seat request: `GetUser` and `GetRoom`; then all it does under the room's
  mutex, in one step (`OnLeaveRoom` to `OnGameEnd`, or `Refuse`);
- `OnCreateRoom`, `OnJoinRoom`: `GetUserRoom`; then the room;
- `OnUserLogin`: the checks; `AddUser`; `GetUserRoom`; the room;
- `OnSocketClose`: `GetUser` and `GetUserRoom`; the room; `RemoveUser`.

Why whole passages are one step. Under a room's mutex a handler touches that
room, `rooms_` (`RemoveRoom`) and reads `users_`. The reads of `users_` in one
passage are about different users, each is one critical section, and no property
relates two of them. `GetUser` followed by `GetRoom` is one step because a
client learns room ids only from answers and its session's user changes only by
its own login or close. That `GetUserRoom` may be one step, although it locks
one room after the other, is what `FreeRoomsHosted` and `LookedAtIsHosted` of
`LockOrder` are about. A handler that fails a check before it locks the room
changes nothing and is left out.

What the environment does. A session has at most one request with an answer
outstanding (NetWork.ts queues what follows), and the requests sent without one
are `NoEchoOps`. Requests start after a login and before the session's close
event. A seat request names any registered room and any seat, as a client may be
behind. A login names a user id that a login was answered with, or none; an id
of an earlier run of the server (another `timestamp`) counts as none. A session
may close `MaxClose` times, as no line of socket_server.cpp ever sets `CLOSED`,
the status that is tested before an event is dispatched (line 456).

Initialize and ShutDown are not modelled: no handler runs before or after.

### LockOrder

The same handlers with nothing left but their locks: a thread waits for
`rooms_mtx_` or for a room's mutex, walks the map in any order room by room,
creates, enters, leaves and removes rooms. `users_mtx_` and the generators'
mutexes are leaves (their holders ask for nothing else) and are left out, and
the bodies of `GetRoom`, `AddRoom` and `RemoveRoom` are one step each.

### IDGenerator and IDPool

`NextID`'s loop is written as what it finds: the least id above `n` that is not
in use, else the least one. `IDPool` is what the owners of ids expect, and
`IDGenerator` implements it under the mapping `out <- use_set`. Owners return an
id once, and only one they were given: the destructor of `Room` and the deleter
of `session_id_` run once for an object.

### Connection

One client and the server it meets. The client is a record and each handler of
NetWork.ts, GameConnectModel.ts, MainMenu.ts and Game.ts a function on it, so a
callback inside a handler is the application of one operator to another's result,
in the code's order: `onMessage` runs the response handler, which may start a
login or change the scene, before it resets `_waitResponse`. `toClient` is the
way to the client, `client.out` the way back; a loss of the connection empties
both. `account` is what `users_` binds the user to: nobody, a session that is
gone but not yet closed, or this one. Sequence numbers of requests are left out:
answers come in order and at most one is waited for.

### Lobby

Two clients, each with its menu pages, its view of the room and its scene, and
the server's room. `up` and `down` are the requests, answers and notifications
under way. Creator opens the room; both ready, unready, start, choose, go back,
leave, edit a map, play and return, and press keys while requests are under way
(`Patient = FALSE`). A callback carries the page it was made on, as `currPage`
does in the code. There is one room at a time: a request for another one waits
until the first is gone.

### Stage

A game as a record, each handler of Game.ts and the managers a function on it. A
frame is what `GameLogicModel.onGameFrame` does: the start key, the events the
last frame left behind (dead tanks, the destroyed base, a prop that was gained),
the scheduled tasks that are due - collected first, then called, as TimeSchedule
does, so that one cancelled by an earlier one is called all the same - and the
enemies' clock. The hits of a frame are a choice; bullets keep flying for two
steps after their tank is dead. Delays are steps of two seconds, rounded up.

### Field, Tanks, Battle

`Field` is the geometry: positions, grid, rectangles. `Tanks` is what tanks and
bullets do as functions on the record of the battle: `setMove` with its snapping
to the grid, the steps of a physics frame, the collision of one thing with
another and its effect on both, destruction and return to the pool. `Battle` puts
them into the five phases of a logic frame; the behaviour of the enemy, the end
of animations and of the cool time of a shot are choices.

### Drive

`Tanks` with a player alone, and what is drawn of it: `Render` moves the nodes
towards the logic positions at their speed for any of the times between two
pictures. A logic frame waits for a picture (`_renderUpdated`); a client that
catches up draws everything where it is. A prop now and then needs free ground.

### Keys, MapEdit

`Keys` follows a key from the browser's event (GameInputModel: who is told, and
once only) over what is remembered until the next frame (GameInputManager) to the
effect in a frame (GameOpeControl: at once, then after 120 ms, then each 50 ms).
`MapEdit` sends them through the server's frames to two clients, which edit,
save, start and play stages on maps that they edited or that come with the stage.
The record of a direction key is masked with `0x70000` before it is shifted
(GameInputManager.ts:189) and so is lost: the model loses it too, and a direction
hit and released between two frames does nothing.

## 4. The runs

| Run | Instance | Shows |
|---|---|---|
| `core` | 2 workers, 2 sessions, 1 room, all requests | types, `StartedRoomFull`, `RegisteredIsHosted`, `SeatNumbers`, `ClockRuns`, `ModeOfStatus`, and as action properties `FrameNumbersRunOn`, `GameSeatingFixed` |
| `serial` | 1 worker, 3 sessions, 2 rooms, 2 closes | what the comments promise of connections holds with one worker |
| `pause` | 2 workers | one of these promises broken with two |
| `lock` | 1 worker, the frame thread, 2 rooms | no circular wait, no deadlock, every handler ends, lookups meet whole rooms |
| `lock_circle` | 2 workers, 1 room | the circle of `rooms_mtx_` and a room's mutex |
| `ids` | 5 ids | the generator is a pool |
| `connection` | 3 frames, 2 requests under way | after losses, timeouts, refusals and reconnections flags, timers, frames and the tip are in order |
| `lobby` | 2 users, 2 requests and 2 messages under way | views, scenes and the host agree with the room |
| `stage` | 2 stages, 2 enemies, bomb and life, 1 or 2 players | a stage begins clean and ends, lives and enemies are counted right, a pause can end |
| `battle` | 1 player, 1 enemy, 3 bullets, a wall, a steel wall, ice, the base | bullets have one target, end and come back |
| `drive` | a 6 x 3 field, pictures after 1 or 3 physics frames | the picture follows the game; props on free ground |
| `mapedit` | a 7 x 3 field, 2 stages, 6 frames, 4 keys | same map for both, free places, no key stuck |

### Bounds

Server: two seats make two users and two sessions the smallest instance with all
the interaction of a room; the third session is for coming back while the old
connection is still being closed. Rooms share only the maps, so one room serves
for what happens inside rooms and two for rooms that come and go. `MaxFrame = 1`
lets the first frame, which waits for all players, and a later one happen, and
makes a restart at frame 0 visible. Five ids are enough to fill the generator,
to wrap round and to leave gaps on both sides of `now_`. `MaxClose = 2` stands
for any repetition: a second close finds what every later one finds.

Connection: three frames are one before a loss, one missed and one after a
reconnection; two requests are one waited for and one queued behind it.
`MissedAtLeast = 1`, `PatientUser = TRUE` and `StartTimeout = FALSE` keep the run
off three places where the code does go wrong (below).

Lobby: two requests under way are one that crosses a notification and one behind
it; for any number the theorems of section 5 speak. Stage: a second stage is what a task of the first could disturb; two enemies
are one on the field and one to come; one prop is under way when a stage ends.
Battle: three bullets are two of the player at level 4 and one of the enemy, the
field is one column with every kind of thing a bullet meets in it, and the sides
are hit from every place. Drive: tanks stand between columns (a unit is two
lengths), and a picture comes early or late. MapEdit: a column is free to be
built on, and the home base, the born place and the map of the stage fill the
rest; six frames reach a game after the editing.

### Deadlock

Not checked in the runs of `GameServer`, `connection` and `mapedit`, which stop
when the ids, closes, frames or keys of the bounds are used up, and in
`lock_circle`. All others check it.

### Symmetry

Workers and sessions are interchangeable in the runs of `GameServer`, whose
properties are all safety. No run with a liveness property uses any.

### Fairness

- `LockOrder`: every thread inside a handler is strongly fair: the operating
  system runs it, and a mutex that is free again and again is got at last, as the
  frame thread sleeps for most of a frame and workers wait for requests.
- `Connection`: the browser reports the outcome of a connect, timers fire,
  messages that have arrived are handled. Nothing is assumed of the server or the
  user: the tip goes away even if no answer ever comes.
- `Lobby`: the server handles what it received and the client what it is sent.
  The users need do nothing.
- `Stage`: frames go on coming (weak fairness of a frame that begins a new step,
  written out over its parity), and the server answers the end of a game.
- `Battle`, `Drive`: the frame clock goes on, so every phase of a frame comes
  again; in `Drive` pictures are drawn as long as the game is open.

`GameServer`, `MapEdit` and `IDGenerator` state safety only.

### With two workers

main.cpp starts two worker threads, and with two

- both players drop at once, each close handler still finds the other in
  `users_`, and the game runs on for nobody (game_server.cpp:132): run `pause`;
- `RemoveRoom` is called under a room's mutex while `GetUserRoom` asks for that
  mutex under `rooms_mtx_` (:1208, :161): run `lock_circle`.

The same instance as `pause` shows, with another property of `serial` in its
place, that two logins of one user pass the duplicate check (`OneSessionPerUser`,
:207, :216), that a close event overtakes the login of its session, which then
binds the user to a dead session for good (`ClosedIsUnbound`, :152, :216), and
that `my_player` can be null in `OnSocketClose` (`NeverCrashed`, :148). With one
worker all of these are gone, also when closes are reported again: `serial` checks
it on an instance and `GameServerProofs` proves it for all. Of the
locks `CircleIsLeaveAndFindThm` proves that the circle above is the only kind
there is.

### What the models showed besides

The constants named reproduce each but the first, which can be read off the
model (`SeatNumbers` and the steps of `OnSocketClose`):

- A session without a user stands for user 0, and so does an empty seat: the
  close of a connection that never logged in removes the host of a waiting room
  (game_server.cpp:119, room.cpp:53).
- A client that missed no frame gets an empty record and reads its element 0
  (Game.ts:552); the handler throws before `_waitResponse` is reset
  (NetWork.ts:355-363), and nothing is sent any more. `MissedAtLeast = 0`:
  `WaitIsTimed` fails.
- A user who reconnects before the frames received earlier are played loses them:
  the record begins after them and replaces the queue (Game.ts:549,
  GameLogicModel.ts:112). `PatientUser = FALSE`: `FramesOnTheWay` fails. So it
  does when frame 0 is sent after the wait for all players timed out
  (room.cpp:121): `StartTimeout = TRUE`.
- With two frames between a key and its effect a pause can fall into the end of a
  game and stays (GameInputManager.ts:186, Game.ts:226, 360-376). `Lag = 2` in
  Stage.cfg: `PauseCanEnd` fails.
- A player takes a map that he edited alone into an online game, where the other
  plays on the stage's (Game.ts:352; `_useCustomMap` is not cleared).
  `Leftover = {0}`: `SameMap` fails. `Prompt = FALSE` stands for a client that
  hears of the game's start before it has handled the frame of the host's START:
  it does not save the map.

## 5. The proofs

`GameServerProofs` proves for any finite or infinite sets of workers and
sessions and any bounds (`ServerAssumption`: the bounds are numbers, `NoSession`
is no session, `Requests` are requests the model knows): `Spec => []TypeOK`,
`[]StartedRoomFull`, `[]RegisteredIsHosted`, `[]SeatNumbers`, `[]ClockRuns`,
`[]ModeOfStatus`.

None of these is inductive alone: what a handler does to a room is right only if
the room was right in all respects before (`LeaveRoom` relies on the numbers in
the seats, the restart after map editing on the clock) and if the worker's record
says what the handler checked before the cut. The inductive invariant `IInv` is

- `RoomsInv`: each room satisfies `RoomOK` (all the room-wise properties, and the
  type), is registered exactly when its status is not `NULL`, and registered ids
  are below `next_room`;
- `TasksInv`: a handler in flight has a user to seat and the id of a room that
  was created;
- `SessionsInv`: the types of the rest.

The proof goes bottom-up: one lemma for each operator of `Room` (it keeps
`RoomOK`, under the guard its handler has checked), lemmas for a step that
changes one room (`RoomStep`) or one worker (`TaskStep`, `GotoStep`,
`FinishStep`, `StartStep`), one lemma for each group of actions, `NextInv`.

`IDGeneratorProofs` proves for every range that the generator keeps `TypeOK` and
`NowIsFree` (inductive together) and that it implements `IDPool`. It rests on
`LeastIn`, that a non-empty set of numbers has a least element, and on
`FullIsAll`, that a set of ids with as many elements as there are ids is all of
them.

It proves the action properties of the server from `IInv`: `FrameNumbersRunOn` and `GameSeatingFixed`. Each lemma is about one operator of
`Room` (what it does to the frame number, to the seats of a started game), each
step of the proof about one action; a step that touches no room keeps both.

Its last part proves what the comments of the code promise of connections - `OneSessionPerUser`, `ClosedIsUnbound`, `NeverCrashed`,
`SeatedAreOnline`, `PauseTracksPresence` - under the assumption `OneWorker`: there
is at most one worker thread. The frame thread still runs between the stages of a
handler, and sessions, rooms, users and closes are any number. With main.cpp's two
workers each of the five is false, so this says precisely what the second thread
costs. They hold together only: `SerialInv`, on top of `IInv`, is

- `SessionsSerial`: users are bound once, user ids are below the generator's next
  (`Known`), and a closed session that still has a user is the one whose close
  handler is running (`Closing`);
- `TasksSerial`: what the running handler has read of its session and of its
  user's room is still so (`TaskFits`);
- `RoomsSerial`: nobody has two seats (`Seating`), and each room `Fits` who is
  there (`Presence`): outside a resumable game all its players are present, and a
  resumable game is paused exactly when none is. Between `LeaveRoom` and
  `RemoveUser` a user is still in `users_` but counts as gone (`Leaving`), and
  between `AddUser` and the resuming of the room as coming back (`Returning`),
  which excuses a room from `Fits`; when no handler runs both are empty.

Each action changes the presence of at most one user, so every room that user does
not sit in keeps fitting (`StrangerFits`), and `Seating` says that there is only
one other, the room the handler has found (`RoomSerial`).

`LockOrderProofs` proves for any numbers of workers, frame threads and rooms that
`FreeRoomsHosted` and `LookedAtIsHosted` hold. The invariant says what a thread's
place means: inside a room it holds that room's mutex and nobody else does
(`Holding`, `Owned`), a thread that walks the map holds `rooms_mtx_` (`Walking`),
a registered room without a host is being seated by who created it (`Seating`)
and one that is reset is registered no more (`Leaving`). Lookups are
safe for all threads, although they can be part of a circular wait. What such a
wait looks like follows from a second invariant, `WaitInv`: frame threads ask for
a room's mutex only (`FramesOnly`), `rooms_mtx_` is held by nobody but a worker
that walks the map (`MapHeld`), and the room a thread is about to register is
nobody else's yet (`Fresh`). So a circle needs a thread that asks for
`rooms_mtx_`, holding a room's mutex that somebody waits for, and it cannot be
registering the room; it is at `RemoveRoom`, at the end of `LeaveRoom`. The holder
of `rooms_mtx_` walks in `GetUserRoom` and asks for that room:
`CircleIsLeaveAndFind`, for any number of threads. With one worker there
cannot be both: `NoCircularWait`, under the assumption that there is at most one.

`MapEditProofs` proves for every field, stage map, set of direction keys and all
bounds, and also for the cases the run leaves out (`Leftover`, `Prompt`, `Lag`),
`PlacesFree` and `KeysCanBeReleased`. It assumes `PlacesAssumption`, which holds
of GameDef.ts:24-29: nobody comes to life beside the home base, where the spade
builds. The inductive invariant `IInv` says of each client that its map is free in
the home base, and in a game in the born places, and that the player operates
exactly while a stage runs (`Runs`); of the keyboard that a key is held in its own
part only (`InItsPart`), and that while the host operates every held key is
awaited (`Awaited`). `Runs` links the two: operation begins only with a change of
phase that resets the keys. One lemma for each handler of a client, bottom-up
from the fields of its record (`Keeps` says of most that they leave map, mode and
phase alone), one for each operation on the keyboard, then one for each action.

`SameMap` is proved for any lag between the clients, under the provisos of section
4: `Prompt`, and `Leftover` both or neither. "Equal queues, equal maps" is not
inductive, for it says nothing while one client is behind. The invariant `InStep`
names what the two share: there is a log of all messages sent so far and a run of
states along it, each client is at one of these states, and its queue is the rest
of the log after it (`IsRest`). A message makes log and run longer
(`SendInStep`), and a client that handles one goes on along the run
(`HandleInStep`), for what it does with a message is the same whoever it is
(`SameFrame`: also the client that does not tell the server saves the map). The
log has any length, so it is quantified over rather than computed. Equal queues
are equal rests, at the same state. So more than the map is equal: all that
the model has of a client.

`ConnectionProofs` proves for all bounds and any user, network and server (also
`PatientUser = FALSE`, `StartTimeout = TRUE`) `FlagsFollowSocket`, and
`WaitIsTimed` under the assumption `MissedAtLeast > 0`, without which it is false
(section 4). The inductive invariant has three parts: `Core` says that the record
of the client has its types and that what is waited for and what is under way
belong to an open socket; `World` that what is under way to the client, and its
session, do too, and that a login which resumes a game brings frames; `TInv` is
`WaitIsTimed` itself. As handlers call each other, the lemmas are about handlers
as functions: `Sound(c, d)` says that a handler which makes `d` of `c` keeps the
connection in order, does not close the socket and leaves nothing untimed; it is
transitive (`SoundTwice`), so a chain of calls takes the lemma of each link. Most
handlers of the scenes change only what the user sees (`Same`). While an answer is
handled nothing is timed: `ResponseCore` shows that by its end either nothing is
waited for or the next request is.

`FramesOnTheWay` is proved there for games of any length, any number of losses of
the connection and of requests, under the three provisos without which it is false
(section 4): `PatientUser`, `~StartTimeout` and `MissedAtLeast > 0`. It says
that only frames are under way to a client that plays, and that its queue and
these are the frames after the last one it played, which one step can make true of
a client that loads a scene, logs in or resumes. So the invariant `Agree` follows
the frames through all of these. `Line(q, s, from, n)` is the claim itself: `s`
brings frames only, and with `q` they are those from `from` to `n - 1`; it survives
a frame issued (`LineIssue`), received and played. A login on its way asks for the
frames after the last one played (`Asks`), from whichever callback the connection
was made, which the scene must still fit (`Awaits`). It is unread (`Asked`), `Refused`
or `Granted`, and then the record of its answer with the frames behind it is in
line. Of a logged-in client, `Playing` says what it lacks: all frames if it is asked
whether to resume the game or is about to, none if it loads the scene of a game that
waits for its `Frame` request (`Begins`). Underneath is that requests do not
overtake each other: the queue is empty unless an answer is awaited, and the
login of a connection is never queued (`Quiet`); once logged in, nothing but a
request to leave can wait in a room (`Alone`), and who is in a game but not
playing it can resume it or has asked to leave it (`Chooses`).

`LobbyProofs` proves `ViewMatchesRoom` for any users, any numbers of requests and
messages under way, patient or not. It says nothing of a client that has something
still to hear, so the invariant `IInv` does: what is under way to a client `Leads`
what it holds of the room, message by message, to a view that `Agrees` with the
server's room. What a message does to this view (`Hear`) is asked of the handlers
first, for the pages and the cursor do not matter to it (`RespondView`,
`NotifyView`): then a client that receives a message goes one step along the way,
and pages and keys change nothing. Each handler of the server keeps `IInv` because
what it sends makes the way longer, from where the room was to where it is
(`Tells`, for who stays; `Carries`, for who asks): a request that fails leads
nowhere (`FailInv`), one after which everybody sits where he sat tells the rest
(`StayInv`), and create, join and leave are gone through seat by seat. The way has
any length and is quantified over (`Steps`), not computed. `GameTogether` comes out
of the same invariant under the assumption `Patient`. Whoever enters a room must
not be playing any more, and a patient user asks to enter from the menu, with
nothing under way: `QueueOK` says that such a request is first in its queue, and
`Behind` that who has left the room is sent its answer last. Impatient users are
model-checked with two requests.

`StageProofs` proves `EnemyBudget`, `NobodyLeftEndsGame` and `StageStartsClean`
for every number of enemies, lives, levels, stages, props and hits and in all
modes, and `PauseCanEnd` for `Lag = 1`, without which it is false (section 4).
All of them depend on what is still scheduled: a stage whose last enemy has died
ends by one task, begins to show its result, and shows it row by row, each row
begun by the last animation of the row before. So the invariant (`IInv`: the
client is in the menu, or `Going`) has one part for the tasks and says with the
others what they may be. `Course` names what a stage can be: `Prepared`,
`Running`, `Won`, its result at a `NewRow` or an `OldRow`, `Shown`, or `Stuck`
(the invariant bounds the animations of a row from above only, so it allows for
too few; that stages do end is `StageEnds`); once the game is over it is `Final`. Each says of each kind of task whether there are
none, at most one, or any. `PlayersOK` says that a player who is dead and has a
life has exactly one task that brings him back, and `Budget` counts the enemies.

A frame runs all tasks that are due, the youngest first, and what one schedules
or unschedules comes between it and the next. So every part of the invariant is
stated of a moment within the step: tasks are counted in the list and, together
with it, in what is due and has not run, the sequence `s` after its `i`-th member
(`Most`, `None`, `Lone`). One lemma per operator of `Stage` shows that it keeps
`Going` from any such moment (`Onward`); the timer divides the tasks
(`Divided`), every task that runs takes itself off `s`, and after the last one
the invariant is one of the list alone. What leaves the stage's course alone is
dealt with at once: a step that only removes tasks and agrees on a few fields
(`GoingLess`), one that touches none of them (`GoingSame`).

Loops over players, enemies and tasks are recursive functions over sequences.
The provers cannot instantiate a lemma about an operator, so the passes of all
loops are one operator (`Pass`, told which loop it is in): one lemma says that a
loop has a result (`Exists`, by induction over its length, `UpTo`), and each loop
has one of its own that this result has what every pass preserves (`BombFold`,
`RunsFold`, ...).

`TanksProofs` proves `ShotsOnGrid`, `OneBulletOneTarget` and `AmmoComesBack` for
every field and map, every place of the home base, every speed, level and number
of bullets, with what `Tanks` assumes: the map's sceneries are on it, and the home
base and the places where tanks are born are units of the map (GameDef.ts:24-29;
setLogicPosition makes scene positions of them). One module holds the proofs of
`Battle` and of `Drive`, which share `Tanks`.
The invariant (`IInv`) has two parts.

`Fit` is true within a phase too: tanks and bullets are on a line of the grid
across their direction, a tank that is not on the field was not hit, and no tank
counts more bullets than fly with it as shooter. A turn by a quarter puts the
coordinate across the new direction on a multiple of a scenery's width, a turn
around and a move leave it as it is; a move is cut off at the nearest thing ahead
(`Reach` takes the least of finitely many: `LeastOne`), so positions stay integers
along the line too. A bullet starts at the middle of its shooter's front
(`Muzzle`), a multiple of the unit across, and keeps to its line. Counting
needs the cardinality of the shots before and after a bullet is made or given
back, by a tank that may have died and come back in between.

`Linked` is `OneBulletOneTarget` with what it rests on: a bullet that met something
does not fly on, so it is not looked at again as one that could hit. It holds from
the physics frames to the events that the next logic frame begins with; these deal
with the base, the tanks and the bullets, in this order, and leave no hit of any
kind (`Clear`), which is what all other phases have. A bullet that meets several
things in one frame is followed through the three loops of `onCollisionDetection`
(`CollideOne`), and each pass of each loop of a phase has its lemma: what it
preserves (`Sound`) the loop does (`Loop`).

The same module proves of `Drive`, for every field, speed and set of times between
pictures, `NeverSeenAhead` and `PropOnFreeGround`. Its invariant (`DriveInv`, which
TLC finds true on the run's instance) is that of a battle with one tank, so the
lemmas on `Tanks` are used as they are: the field is `Fit` at all times, `Clear` while
a frame is played and `Linked` between frames.

A picture moves a tank or a bullet first onto the line it moves along and then
along it, by what its speed allows and at most to where the game has it; the line
is the one of its present direction, so what was drawn before a turn does not
matter (`DrawIs`, `RenderIs`). A prop is put where none of sixteen units is taken.
That this is enough for rectangles is a lemma about two grids: of two squares that
overlap, one at a whole unit and one anywhere, there is a unit that both count
as theirs (`Shared`), and it needs the fifth column or row which a tank between
two units is given (`Common`). From there to the picture nothing that was
on the field moves before the prop is seen (`Stay`), and no scenery comes back.

Only model-checked: `HandlersEnd`, `TipGoesAway`, `HostKnows`, `StageEnds`,
`BulletsEnd` and `SeenWhereItIs`. They are liveness, which is beyond this prover.

## 6. Not modelled

- `AsioSockServer`: cut and joined packages, read buffers and the write queue of
  a session are byte counts on one thread. What the rest relies on enters as
  assumptions: requests in order, closes reported more than once (`GameServer`),
  connections lost at any moment (`Connection`).
- Heartbeats (`pluse_map_`): real time against a period. What an early or late
  close brings is in `GameServer` and `Connection`.
- The proxy: it relays bytes; to both ends it is a connection that can be lost.
- The random numbers of the clients (RandomDevice.ts, big decimals): choices in
  `Stage` and `Battle`. That two clients draw the same ones from the same seed is
  not shown.
- More than one enemy at a time in `Battle` (`Stage` has more), and two players
  at once: tanks do not push each other but stop, which one pair shows.
- Sound, animation pictures, asset loading: no state the rest depends on.
- Protobuf code (generated), bigjs and protobufjs (vendored), logging and the
  `main` functions. The text of answers and dialogs.
