----------------------------- MODULE GameServer -----------------------------
(* The game server (server/game_server/game_server.cpp): the worker threads *)
(* of WorkServer run the handlers of requests and socket events, and one    *)
(* frame thread runs the rooms' frame timers.  A handler is cut where it    *)
(* releases every mutex: what it read before the cut may be stale after it. *)
(*                                                                          *)
(* WorkServer posts requests and events to one queue that several threads   *)
(* empty, so the queue orders only the starts of the handlers: a session's  *)
(* requests start before its close does, and nothing orders their ends.     *)
(* A handler that ends without changing anything but its thread (a failed   *)
(* check before the room is looked up) is left out.                         *)
EXTENDS Room

CONSTANTS
    Workers,     \* the work_threads of WorkServer
    Sessions,    \* socket sessions; a reconnection is another session
    NoSession,   \* the session of an idle worker
    MaxRoom,     \* bound: room ids handed out (UINT_MAX in the code)
    MaxUser,     \* bound: user ids handed out (UINT_MAX in the code)
    MaxFrame,    \* bound: frames a game runs for
    MaxClose,    \* close events the socket layer may dispatch for a session
    Requests     \* bound: the seat requests the clients send

RoomIds == 1 .. MaxRoom
Users == 1 .. MaxUser

VARIABLES
    users,       \* users_: session -> user id, NoUser when it has no entry
    rooms,       \* rooms_: the room ids registered
    room,        \* the Room object behind each id
    next_room,   \* Room::id_generator_
    next_user,   \* userid_generator_
    answered,    \* user ids a login response has told a client
    closes,      \* session -> close events that have started
    task,        \* worker -> the handler it is in
    crashed      \* a null PlayerInfo was dereferenced: the process is gone

vars == <<users, rooms, room, next_room, next_user, answered, closes, task, crashed>>

\* Requests about a seat of a room, all of one shape: GetUser, GetRoom, then
\* the room's mutex, the seat, the room's status.
SeatOps == {"LeaveRoom", "RoomReady", "RoomUnReady", "RoomStart", "MenuSwitch",
            "MenuChoose", "MenuBack", "GameMapEditFinished", "GameFrame", "GameEnd"}

ASSUME ServerAssumption ==
    /\ NoSession \notin Sessions
    /\ {MaxRoom, MaxUser, MaxFrame, MaxClose} \subseteq Nat
    /\ Requests \subseteq SeatOps

\* Requests the client sends without waiting for a response.
NoEchoOps == {"GameMapEditFinished", "GameFrame", "GameEnd"}

Idle == [op |-> "Idle", pc |-> "idle", s |-> NoSession, u |-> NoUser,
         r |-> 0, no |-> 0, index |-> "NONE", frame |-> 0]

Task == [op    : SeatOps \union {"Idle", "Login", "CreateRoom", "JoinRoom", "Close"},
         pc    : {"idle", "bind", "find", "apply", "unbind"},
         s     : Sessions \union {NoSession},
         u     : Users \union {NoUser},
         r     : RoomIds \union {0},
         no    : Seats,
         index : MenuIndex,
         frame : 0 .. MaxFrame]

Init ==
    /\ users = [s \in Sessions |-> NoUser]
    /\ rooms = {}
    /\ room = [r \in RoomIds |-> NewRoom]
    /\ next_room = 1
    /\ next_user = 1
    /\ answered = {}
    /\ closes = [s \in Sessions |-> 0]
    /\ task = [w \in Workers |-> Idle]
    /\ crashed = FALSE

------------------------------------------------------------------------------
(* Lookups and bookkeeping *)

\* The users GetUserSession finds a session for.
Online == {users[s] : s \in Sessions} \ {NoUser}

\* The rooms GetUserRoom can answer with.
UserRooms(u) == {r \in rooms : SeatsOf(room[r], u) # {}}

\* NetWork.ts keeps one request with a response outstanding on a connection
\* and queues what follows; WorkServer starts nothing of a closed session.
MaySend(s) ==
    /\ closes[s] = 0
    /\ \A w \in Workers : task[w].s = s => task[w].op \in NoEchoOps

Start(w, t) == task[w] = Idle /\ task' = [task EXCEPT ![w] = t]
Goto(w, pc) == task' = [task EXCEPT ![w].pc = pc]
Finish(w) == task' = [task EXCEPT ![w] = Idle]
At(w, op, pc) == ~crashed /\ task[w].op = op /\ task[w].pc = pc

MineRoom(w) == room[task[w].r]

\* The seat the request names is the sender's: every handler checks it under
\* the room's mutex.
Mine(t) ==
    /\ Occupied(room[t.r], t.no)
    /\ room[t.r].player_info[t.no].user_id = t.u

------------------------------------------------------------------------------
(* Starting a request *)

\* A seat request: the session's user is the one it names, GetRoom finds the
\* room.  The seat and the room are what the client believes.
SeatRequest(w, s) ==
    /\ ~crashed /\ MaySend(s) /\ users[s] # NoUser
    /\ \E op \in Requests, r \in rooms, no \in Seats :
       \E index \in IF op \in {"MenuSwitch", "MenuChoose"}
                    THEN {"START_GAME", "MAP_EDIT"} ELSE {"NONE"},
          frame \in IF op = "GameFrame" THEN 0 .. MaxFrame ELSE {0} :
            Start(w, [op |-> op, pc |-> "apply", s |-> s, u |-> users[s], r |-> r,
                      no |-> no, index |-> index, frame |-> frame])
    /\ UNCHANGED <<users, rooms, room, next_room, next_user, answered, closes, crashed>>

\* OnCreateRoom and OnJoinRoom up to GetUserRoom: the user has no room yet.
HallRequest(w, s) ==
    /\ ~crashed /\ MaySend(s) /\ users[s] # NoUser
    /\ UserRooms(users[s]) = {}
    /\ \E t \in {<<"CreateRoom", 0>>} \union ({"JoinRoom"} \X rooms) :
         Start(w, [Idle EXCEPT !.op = t[1], !.pc = "apply", !.s = s,
                               !.u = users[s], !.r = t[2]])
    /\ UNCHANGED <<users, rooms, room, next_room, next_user, answered, closes, crashed>>

\* OnUserLogin up to AddUser.  A login names no user (or one of an earlier run
\* of the server, which counts as none) or one a response has told a client.
LoginUser(s, u) ==
    IF users[s] # NoUser /\ u # users[s] THEN users[s]
    ELSE IF u = NoUser THEN next_user
    ELSE u

\* Mutant: no check for a second login.
LoginRefusedTwice(s, u) == LoginUser(s, u) > MaxUser

LoginRefused(s, u) ==
    \/ LoginUser(s, u) > MaxUser
    \/ u # NoUser /\ LoginUser(s, u) = u /\ u \in Online

LoginRequest(w, s) ==
    /\ ~crashed /\ MaySend(s)
    /\ \E u \in answered \union {NoUser} :
         /\ ~LoginRefused(s, u)
         /\ Start(w, [Idle EXCEPT !.op = "Login", !.pc = "bind", !.s = s,
                                  !.u = LoginUser(s, u)])
         /\ next_user' = IF LoginUser(s, u) = next_user THEN next_user + 1
                                                        ELSE next_user
    /\ UNCHANGED <<users, rooms, room, next_room, answered, closes, crashed>>

------------------------------------------------------------------------------
(* Under the room's mutex: seat requests *)

\* What a handler asks of the room once the seat is the sender's.
ReadyAllowed(r, no) == r.status = "READY" /\ no # 0 /\ ~r.player_info[no].ready
\* Mutant: the room's status is not looked at.
UnReadyAllowedAnytime(r, no) == no # 0 /\ r.player_info[no].ready

UnReadyAllowed(r, no) == r.status = "READY" /\ no # 0 /\ r.player_info[no].ready
StartAllowed(r, no) ==
    /\ r.status = "READY" /\ no = 0
    /\ Guests(r) # {}
    /\ \A i \in Guests(r) : r.player_info[i].ready
MenuAllowed(r, no) == r.status = "START" /\ no = 0
MapEditAllowed(r, no) ==
    no = 0 /\ r.status = "GAME" /\ r.game_mode = "MAP_EDIT"
FrameAllowed(r, frame) == r.status = "GAME" /\ r.frame_no >= frame
EndAllowed(r) == r.status = "GAME"

Allowed(t) ==
    LET r == room[t.r]
    IN  CASE t.op = "LeaveRoom"   -> TRUE
          [] t.op = "RoomReady"   -> ReadyAllowed(r, t.no)
          [] t.op = "RoomUnReady" -> UnReadyAllowed(r, t.no)
          [] t.op = "RoomStart"   -> StartAllowed(r, t.no)
          [] t.op \in {"MenuSwitch", "MenuChoose", "MenuBack"} -> MenuAllowed(r, t.no)
          [] t.op = "GameMapEditFinished" -> MapEditAllowed(r, t.no)
          [] t.op = "GameFrame"   -> FrameAllowed(r, t.frame)
          [] t.op = "GameEnd"     -> EndAllowed(r)

\* A request whose checks pass, and what its handler makes of the room.
Granted(w, op) == At(w, op, "apply") /\ Mine(task[w]) /\ Allowed(task[w])

Becomes(w, r) ==
    /\ room' = [room EXCEPT ![task[w].r] = r]
    /\ Finish(w)
    /\ UNCHANGED <<users, next_room, next_user, answered, closes, crashed>>

\* The room of a handler that may have called RemoveRoom.
Unregister(w, removed) ==
    rooms' = IF removed THEN rooms \ {task[w].r} ELSE rooms

Refuse(w) ==
    /\ ~crashed /\ task[w].op \in SeatOps
    /\ ~(Mine(task[w]) /\ Allowed(task[w]))
    /\ Finish(w)
    /\ UNCHANGED <<users, rooms, room, next_room, next_user, answered, closes, crashed>>

OnLeaveRoom(w) ==
    /\ Granted(w, "LeaveRoom")
    /\ Becomes(w, LeaveRoom(MineRoom(w), task[w].no, Online))
    /\ Unregister(w, Disbands(MineRoom(w), task[w].no, Online))

OnRoomReady(w) ==
    /\ Granted(w, "RoomReady")
    /\ Becomes(w, SetReady(MineRoom(w), task[w].no, TRUE))
    /\ UNCHANGED rooms

OnRoomUnReady(w) ==
    /\ Granted(w, "RoomUnReady")
    /\ Becomes(w, SetReady(MineRoom(w), task[w].no, FALSE))
    /\ UNCHANGED rooms

OnRoomStart(w) ==
    /\ Granted(w, "RoomStart")
    /\ Becomes(w, [SetReady(MineRoom(w), task[w].no, TRUE)
                     EXCEPT !.status = "START", !.menu_index = "START_GAME"])
    /\ UNCHANGED rooms

OnMenuSwitch(w) ==
    /\ Granted(w, "MenuSwitch")
    /\ Becomes(w, [MineRoom(w) EXCEPT !.menu_index = task[w].index])
    /\ UNCHANGED rooms

OnMenuChoose(w) ==
    /\ Granted(w, "MenuChoose")
    /\ Becomes(w, StartGame(MineRoom(w), IF task[w].index = "START_GAME"
                                         THEN "COMMON" ELSE "MAP_EDIT"))
    /\ UNCHANGED rooms

OnMenuBack(w) ==
    /\ Granted(w, "MenuBack")
    /\ Becomes(w, ClearReady([MineRoom(w) EXCEPT !.status = "READY",
                                                 !.menu_index = "NONE"]))
    /\ UNCHANGED rooms

OnGameMapEditFinished(w) ==
    /\ Granted(w, "GameMapEditFinished")
    /\ Becomes(w, RestartGame(MineRoom(w)))
    /\ UNCHANGED rooms

OnGameFrame(w) ==
    /\ Granted(w, "GameFrame")
    /\ Becomes(w, [MineRoom(w) EXCEPT !.frame_ope = @ \union {task[w].no}])
    /\ UNCHANGED rooms

\* With two seats at most one player is offline and not the requester.
OnGameEnd(w) ==
    LET ended == BackToReady(ClearReady(MineRoom(w)))
        away  == OfflineOthers(ended, task[w].u, Online)
        no    == ended.player_info[FirstOf(away)].number
    IN  /\ Granted(w, "GameEnd")
        /\ IF away = {}
           THEN Becomes(w, ended) /\ UNCHANGED rooms
           ELSE /\ Becomes(w, LeaveRoom(ended, no, Online))
                /\ Unregister(w, Disbands(ended, no, Online))

------------------------------------------------------------------------------
(* Under the room's mutex: rooms created and joined *)

\* Mutant: the generator's failure is not looked at.
OnCreateRoomOverrun(w) ==
    /\ At(w, "CreateRoom", "apply")
    /\ rooms' = rooms \union {next_room}
    /\ room' = [room EXCEPT ![next_room] =
                   SetPlayer([@ EXCEPT !.status = "READY"],
                             [NoPlayer EXCEPT !.user_id = task[w].u])]
    /\ next_room' = next_room + 1
    /\ Finish(w)
    /\ UNCHANGED <<users, next_user, answered, closes, crashed>>

\* OnCreateRoom from Room::CreateRoom on; the new room's mutex is held until
\* its host is seated.
OnCreateRoom(w) ==
    /\ At(w, "CreateRoom", "apply")
    /\ IF next_room > MaxRoom
       THEN UNCHANGED <<rooms, room, next_room>>
       ELSE /\ rooms' = rooms \union {next_room}
            /\ room' = [room EXCEPT ![next_room] =
                           SetPlayer([@ EXCEPT !.status = "READY"],
                                     [NoPlayer EXCEPT !.user_id = task[w].u])]
            /\ next_room' = next_room + 1
    /\ Finish(w)
    /\ UNCHANGED <<users, next_user, answered, closes, crashed>>

FreeSeats(r) == {i \in Seats \ {0} : ~Occupied(r, i)}

OnJoinRoom(w) ==
    /\ At(w, "JoinRoom", "apply")
    /\ LET r == MineRoom(w)
       IN  room' = IF Occupied(r, 0) /\ FreeSeats(r) # {}
                   THEN [room EXCEPT ![task[w].r] =
                            SetPlayer(r, [number  |-> FirstOf(FreeSeats(r)),
                                          user_id |-> task[w].u,
                                          ready   |-> FALSE])]
                   ELSE room
    /\ Finish(w)
    /\ UNCHANGED <<users, rooms, next_room, next_user, answered, closes, crashed>>

------------------------------------------------------------------------------
(* Logging in *)

\* AddUser
LoginBind(w) ==
    /\ At(w, "Login", "bind")
    /\ users' = [users EXCEPT ![task[w].s] = task[w].u]
    /\ Goto(w, "find")
    /\ UNCHANGED <<rooms, room, next_room, next_user, answered, closes, crashed>>

\* SendResponse at the end of a login
Answer(w) == Finish(w) /\ answered' = answered \union {task[w].u}

\* GetUserRoom; without a room the answer goes out and the login is over.
LoginFind(w) ==
    /\ At(w, "Login", "find")
    /\ IF UserRooms(task[w].u) = {}
       THEN Answer(w)
       ELSE /\ \E r \in UserRooms(task[w].u) :
                 task' = [task EXCEPT ![w].pc = "apply", ![w].r = r]
            /\ UNCHANGED answered
    /\ UNCHANGED <<users, rooms, room, next_room, next_user, closes, crashed>>

\* The room's state goes into the answer; a running game goes on.
LoginResume(w) ==
    /\ At(w, "Login", "apply")
    /\ room' = IF MineRoom(w).status = "GAME"
               THEN [room EXCEPT ![task[w].r] = SetGameFramePause(@, FALSE)]
               ELSE room
    /\ Answer(w)
    /\ UNCHANGED <<users, rooms, next_room, next_user, closes, crashed>>

------------------------------------------------------------------------------
(* Losing a connection *)

\* OnSocketClose up to GetUserRoom.  A session that never logged in, or whose
\* entry is gone, looks for the room of user 0: any room with an empty seat.
CloseStart(w, s) ==
    /\ ~crashed /\ closes[s] < MaxClose
    /\ closes' = [closes EXCEPT ![s] = @ + 1]
    /\ LET t == [Idle EXCEPT !.op = "Close", !.s = s, !.u = users[s]]
       IN  IF UserRooms(users[s]) = {}
           THEN Start(w, [t EXCEPT !.pc = "unbind"])
           ELSE \E r \in UserRooms(users[s]) :
                  Start(w, [t EXCEPT !.pc = "apply", !.r = r])
    /\ UNCHANGED <<users, rooms, room, next_room, next_user, answered, crashed>>

Resumable(r) == r.status = "GAME" /\ r.support_dxxw

\* Mutant: the user of this session counts as online still.
ClosePauseCountSelf(w) ==
    /\ At(w, "Close", "apply") /\ Resumable(MineRoom(w))
    /\ room' = IF SomeoneOnline(MineRoom(w), Online)
               THEN room
               ELSE [room EXCEPT ![task[w].r] = SetGameFramePause(@, TRUE)]
    /\ Goto(w, "unbind")
    /\ UNCHANGED <<users, rooms, next_room, next_user, answered, closes, crashed>>

\* Mutant: the handler returns here, before RemoveUser.
ClosePauseReturn(w) ==
    /\ At(w, "Close", "apply") /\ Resumable(MineRoom(w))
    /\ room' = IF SomeoneOnline(MineRoom(w), Online \ {task[w].u})
               THEN room
               ELSE [room EXCEPT ![task[w].r] = SetGameFramePause(@, TRUE)]
    /\ Finish(w)
    /\ UNCHANGED <<users, rooms, next_room, next_user, answered, closes, crashed>>

\* In a game that can be resumed the room waits, paused when nobody but the
\* user of this session is online.
ClosePause(w) ==
    /\ At(w, "Close", "apply") /\ Resumable(MineRoom(w))
    /\ room' = IF SomeoneOnline(MineRoom(w), Online \ {task[w].u})
               THEN room
               ELSE [room EXCEPT ![task[w].r] = SetGameFramePause(@, TRUE)]
    /\ Goto(w, "unbind")
    /\ UNCHANGED <<users, rooms, next_room, next_user, answered, closes, crashed>>

\* Otherwise the user leaves: the first seat with its id, and the player at
\* the number written there (0 in an empty seat).  Either may be missing by
\* now, and the handler looks at neither pointer.
CloseLeave(w) ==
    LET r    == MineRoom(w)
        mine == SeatsOf(r, task[w].u)
        no   == r.player_info[FirstOf(mine)].number
    IN  /\ At(w, "Close", "apply") /\ ~Resumable(r)
        /\ IF mine = {} \/ ~Occupied(r, no)
           THEN /\ crashed' = TRUE
                /\ UNCHANGED <<rooms, room, task>>
           ELSE /\ room' = [room EXCEPT ![task[w].r] = LeaveRoom(r, no, Online)]
                /\ Unregister(w, Disbands(r, no, Online))
                /\ Goto(w, "unbind")
                /\ UNCHANGED crashed
        /\ UNCHANGED <<users, next_room, next_user, answered, closes>>

\* RemoveUser
CloseUnbind(w) ==
    /\ At(w, "Close", "unbind")
    /\ users' = [users EXCEPT ![task[w].s] = NoUser]
    /\ Finish(w)
    /\ UNCHANGED <<rooms, room, next_room, next_user, answered, closes, crashed>>

------------------------------------------------------------------------------
(* The frame thread *)

TimerExpires(r) ==
    /\ ~crashed /\ room[r].armed /\ ~room[r].queued
    /\ room' = [room EXCEPT ![r].armed = FALSE, ![r].queued = TRUE]
    /\ UNCHANGED <<users, rooms, next_room, next_user, answered, closes, task, crashed>>

FrameTick(r) ==
    /\ ~crashed /\ room[r].queued
    /\ room[r].frame_no < MaxFrame
    /\ \E late \in BOOLEAN :
         room' = [room EXCEPT ![r] = OnGameFrameSync([@ EXCEPT !.queued = FALSE], late)]
    /\ UNCHANGED <<users, rooms, next_room, next_user, answered, closes, task, crashed>>

------------------------------------------------------------------------------

Request(w) ==
    \E s \in Sessions : \/ SeatRequest(w, s)
                        \/ HallRequest(w, s)
                        \/ LoginRequest(w, s)
                        \/ CloseStart(w, s)

SeatHandler(w) ==
    \/ Refuse(w)
    \/ OnLeaveRoom(w)
    \/ OnRoomReady(w)
    \/ OnRoomUnReady(w)
    \/ OnRoomStart(w)
    \/ OnMenuSwitch(w)
    \/ OnMenuChoose(w)
    \/ OnMenuBack(w)
    \/ OnGameMapEditFinished(w)
    \/ OnGameFrame(w)
    \/ OnGameEnd(w)

HallHandler(w) == OnCreateRoom(w) \/ OnJoinRoom(w)
LoginHandler(w) == LoginBind(w) \/ LoginFind(w) \/ LoginResume(w)
CloseHandler(w) == ClosePause(w) \/ CloseLeave(w) \/ CloseUnbind(w)

Worker(w) ==
    Request(w) \/ SeatHandler(w) \/ HallHandler(w) \/ LoginHandler(w) \/ CloseHandler(w)

FrameThread == \E r \in RoomIds : TimerExpires(r) \/ FrameTick(r)

Next == (\E w \in Workers : Worker(w)) \/ FrameThread

Spec == Init /\ [][Next]_vars

------------------------------------------------------------------------------
(* Properties *)

PlayerType == [number : Seats, user_id : Users \union {NoUser}, ready : BOOLEAN]

RoomType ==
    [player_info   : [Seats -> PlayerType],
     status        : RoomStatus,
     menu_index    : MenuIndex,
     game_mode     : GameMode,
     support_dxxw  : BOOLEAN,
     frame_running : BOOLEAN,
     frame_pause   : BOOLEAN,
     frame_no      : 0 .. MaxFrame,
     frame_ope     : SUBSET Seats,
     armed         : BOOLEAN,
     queued        : BOOLEAN]

\* Every variable keeps the shape its declaration gives it.
TypeOK ==
    /\ users \in [Sessions -> Users \union {NoUser}]
    /\ rooms \subseteq RoomIds
    /\ room \in [RoomIds -> RoomType]
    /\ next_room \in 1 .. MaxRoom + 1
    /\ next_user \in 1 .. MaxUser + 1
    /\ answered \subseteq Users
    /\ closes \in [Sessions -> 0 .. MaxClose]
    /\ task \in [Workers -> Task]
    /\ crashed \in BOOLEAN

\* A room that has left the ready stage has all its seats taken and all its
\* players ready: nobody can leave, join or take back "ready" behind the start
\* (the status checks of OnRoomReady .. OnMenuBack, and LeaveRoom's and
\* OnGameEnd's way back to the ready stage).
FullOnceStarted(x) ==
    x.status \in {"START", "GAME"} =>
        \A i \in Seats : Occupied(x, i) /\ x.player_info[i].ready
StartedRoomFull == \A r \in RoomIds : FullOnceStarted(room[r])

\* rooms_ and the Room objects agree: the host seat of a registered room is
\* taken, and a room out of the map is as ResetRoom leaves it, so a handler
\* that still holds its pointer finds no seat of its own.
HostedUntilReset(x) ==
    /\ Occupied(x, 0) <=> x.status # "NULL"
    /\ ~Occupied(x, 0) => \A i \in Seats : ~Occupied(x, i)
RegisteredIsHosted ==
    \A r \in RoomIds :
        (r \in rooms <=> Occupied(room[r], 0)) /\ HostedUntilReset(room[r])

\* A player's number is its seat, through every change of host: LeaveRoom and
\* OnSocketClose use the number they find in a seat as the seat to empty.
NumbersAreSeats(x) ==
    \A i \in Seats : x.player_info[i].number = IF Occupied(x, i) THEN i ELSE 0
SeatNumbers == \A r \in RoomIds : NumbersAreSeats(room[r])

\* The frame clock runs exactly while there is a game, and an unpaused game
\* always has a wait or an expired handler left to re-arm it: no order of
\* pause, resume, restart and a stale handler loses the clock or leaves it
\* running on frames of an earlier game.
ClockFollowsGame(x) ==
    /\ x.status = "GAME" <=> x.frame_running
    /\ x.frame_running /\ ~x.frame_pause => x.armed \/ x.queued
    /\ ~x.frame_running =>
         x.frame_pause /\ ~x.armed /\ x.frame_no = 0 /\ x.frame_ope = {}
ClockRuns == \A r \in RoomIds : ClockFollowsGame(room[r])

\* The mode and the menu belong to the status: no mode outside a game, no
\* menu in the ready stage, and the map editor never resumes.
ModeFits(x) ==
    /\ x.game_mode # "NONE" <=> x.status = "GAME"
    /\ x.menu_index # "NONE" <=> x.status \in {"START", "GAME"}
    /\ x.game_mode = "MAP_EDIT" => ~x.support_dxxw
ModeOfStatus == \A r \in RoomIds : ModeFits(room[r])

\* Frames are numbered without a gap while a game lasts; only its end, or the
\* end of its map editing, goes back to frame 0.
FrameNumbersRunOn ==
    [][\A r \in RoomIds :
          \/ room'[r].frame_no \in {room[r].frame_no, room[r].frame_no + 1}
          \/ /\ room'[r].frame_no = 0
             /\ \/ room'[r].status # "GAME"
                \/ room[r].game_mode = "MAP_EDIT" /\ room'[r].game_mode = "COMMON"]_vars

\* While a game lasts its seats keep their players, whoever drops, comes back,
\* joins or asks to leave meanwhile: every departure ends the game.
GameSeatingFixed ==
    [][\A r \in RoomIds :
          room[r].status = "GAME" /\ room'[r].status = "GAME" =>
              \A i \in Seats : room'[r].player_info[i].user_id
                                 = room[r].player_info[i].user_id]_vars

------------------------------------------------------------------------------
(* What the comments of the code promise of connections.  One worker keeps  *)
(* these promises; the two of main.cpp do not.                              *)

\* No handler is running.
Quiet == \A w \in Workers : task[w] = Idle

\* "All players offline: pause the logic frames" (game_server.cpp:126), and a
\* login resumes them: a resumable game is paused exactly when none of its
\* players is online.
PauseTracksPresence ==
    Quiet => \A r \in rooms : Resumable(room[r]) =>
        (room[r].frame_pause <=> ~SomeoneOnline(room[r], Online))

\* "Outside a game, losing the connection leaves the room" (:146), "all
\* players offline: dissolve the room" (:1193): outside a resumable game the
\* players of a room are online.
SeatedAreOnline ==
    Quiet => \A r \in rooms : ~Resumable(room[r]) =>
        \A i \in Seats : Occupied(room[r], i) =>
            room[r].player_info[i].user_id \in Online

\* "The account is in the game already, do not log in twice" (:209): a user is
\* bound to one session.
OneSessionPerUser ==
    \A s1, s2 \in Sessions : users[s1] = users[s2] /\ users[s1] # NoUser => s1 = s2

\* "Remove the user's entry" (:152): a session that has closed is nobody's.
ClosedIsUnbound ==
    Quiet => \A s \in Sessions : closes[s] > 0 => users[s] = NoUser

\* No handler meets a player that is gone.
NeverCrashed == ~crashed
==============================================================================
