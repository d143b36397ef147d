------------------------------- MODULE Room -------------------------------
(* One room of the game server (server/game_server/room.{h,cpp}) as a       *)
(* record, and what each Room method, and each handler of GameServer that   *)
(* works under the room's mutex, does to that record.  There is no state    *)
(* here: GameServer and FrameSync apply these operators to their own.       *)
(*                                                                          *)
(* A player's operation is kept as the fact that the seat has one, the      *)
(* random seed and the wall clock are left out (whether FRAME_TIMEOUT_TIME  *)
(* has passed is a parameter of OnGameFrameSync).                           *)
EXTENDS Naturals

TOTAL_PLAYER == 2
Seats == 0 .. TOTAL_PLAYER - 1

\* User id 0 means "nobody": a memset PlayerInfo, an unknown session.
NoUser == 0

NoPlayer == [number |-> 0, user_id |-> NoUser, ready |-> FALSE]

RoomStatus == {"NULL", "READY", "START", "GAME"}
MenuIndex == {"NONE", "START_GAME", "MAP_EDIT"}
GameMode == {"NONE", "COMMON", "MAP_EDIT"}

\* The Room constructor.  armed: frame_timer_ has a pending wait.
\* queued: a wait has expired and its handler is on its way to the mutex, so
\* that neither cancel nor expires_from_now takes it back.
NewRoom ==
    [player_info   |-> [i \in Seats |-> NoPlayer],
     status        |-> "NULL",
     menu_index    |-> "NONE",
     game_mode     |-> "NONE",
     support_dxxw  |-> TRUE,
     frame_running |-> FALSE,
     frame_pause   |-> TRUE,
     frame_no      |-> 0,
     frame_ope     |-> {},
     armed         |-> FALSE,
     queued        |-> FALSE]

------------------------------------------------------------------------------
(* Seats *)

\* GetPlayerInfoByNO returns a player.
Occupied(r, no) == no \in Seats /\ r.player_info[no].user_id # NoUser

\* The seats GetPlayerInfoByID can stop at; it returns the first.  An empty
\* seat holds user id 0.
SeatsOf(r, u) == {i \in Seats : r.player_info[i].user_id = u}
FirstOf(S) == CHOOSE i \in S : \A j \in S : i <= j

\* SetPlayer: the record goes to the seat its own number names.
SetPlayer(r, info) == [r EXCEPT !.player_info[info.number] = info]

\* Mutant: the record is cleared but for its seat number.
RemovePlayerKeepNumber(r, no) == [r EXCEPT !.player_info[no] = [NoPlayer EXCEPT !.number = no]]

RemovePlayer(r, no) == [r EXCEPT !.player_info[no] = NoPlayer]

SetReady(r, no, ready) == [r EXCEPT !.player_info[no].ready = ready]

\* `ready = false` for every player of the room.
ClearReady(r) ==
    [r EXCEPT !.player_info =
        [i \in Seats |-> IF Occupied(r, i) THEN [@[i] EXCEPT !.ready = FALSE]
                                           ELSE @[i]]]

------------------------------------------------------------------------------
(* The frame clock *)

\* StartGameFrameTimer(): a new wait; expires_from_now cancels the pending one.
ArmTimer(r) == [r EXCEPT !.armed = TRUE]

\* StartGameFrameTimer(t)
StartGameFrameTimer(r) ==
    ArmTimer([r EXCEPT !.frame_running = TRUE, !.frame_pause = FALSE])

StopGameFrameTimer(r) ==
    [r EXCEPT !.armed = FALSE, !.frame_running = FALSE, !.frame_pause = TRUE,
              !.frame_no = 0, !.frame_ope = {}]

\* Mutant: a resumed game counts its frames from 0.
SetGameFramePauseAfresh(r, pause) ==
    IF pause THEN [r EXCEPT !.frame_pause = TRUE]
             ELSE StartGameFrameTimer(StopGameFrameTimer(r))

SetGameFramePause(r, pause) ==
    IF pause THEN [r EXCEPT !.frame_pause = TRUE] ELSE StartGameFrameTimer(r)

\* Frame 0 waits for every player's first operation, or for the timeout.
FrameIsDue(r, late) == r.frame_no # 0 \/ r.frame_ope = Seats \/ late

\* Mutant: the wait is only renewed when a frame was sent.
OnGameFrameSyncOnce(r, late) ==
    IF r.frame_running /\ ~r.frame_pause /\ FrameIsDue(r, late)
    THEN ArmTimer([r EXCEPT !.frame_no = @ + 1, !.frame_ope = {}])
    ELSE r

\* OnGameFrameSync, under the mutex, from a wait that expired.
OnGameFrameSync(r, late) ==
    IF ~r.frame_running \/ r.frame_pause
    THEN r
    ELSE ArmTimer(IF FrameIsDue(r, late)
                  THEN [r EXCEPT !.frame_no = @ + 1, !.frame_ope = {}]
                  ELSE r)

------------------------------------------------------------------------------
(* Leaving, and the ends of a game *)

ResetRoom(r) ==
    [StopGameFrameTimer(r) EXCEPT
        !.player_info = [i \in Seats |-> NoPlayer], !.status = "NULL",
        !.menu_index = "NONE", !.game_mode = "NONE", !.support_dxxw = TRUE]

\* Mutant: the mode of the last game stays.
BackToReadyKeepMode(r) ==
    StopGameFrameTimer([r EXCEPT !.status = "READY", !.menu_index = "NONE"])

\* Back to the room's ready stage.
BackToReady(r) ==
    StopGameFrameTimer(
        [r EXCEPT !.status = "READY", !.game_mode = "NONE", !.menu_index = "NONE"])

Guests(r) == {i \in Seats \ {0} : Occupied(r, i)}

\* Mutant: the seat of a host that leaves stays empty.
VacateSeatNoHost(r, no) == IF Guests(r) = {} THEN r ELSE RemovePlayer(r, no)

\* Mutant: the guest takes the host's seat with the number it had.
VacateSeatKeepNumber(r, no) ==
    IF no # 0 THEN RemovePlayer(r, no)
    ELSE IF Guests(r) = {} THEN r
    ELSE LET other == FirstOf(Guests(r))
         IN  RemovePlayer([r EXCEPT !.player_info[0] = r.player_info[other]], other)

\* The seats after the player at `no` has gone.  A guest becomes the host,
\* whose seat is always 0; a host alone stays seated until ResetRoom.
VacateSeat(r, no) ==
    IF no # 0
    THEN LET left == RemovePlayer(r, no)
         IN  IF Occupied(left, 0) THEN SetReady(left, 0, FALSE)
                                  ELSE left
    ELSE IF Guests(r) = {}
    THEN r
    ELSE LET other == FirstOf(Guests(r))
             host  == [r.player_info[other] EXCEPT !.number = 0, !.ready = FALSE]
         IN  RemovePlayer(SetPlayer(r, host), other)

\* online: the users some session is bound to.
SomeoneOnline(r, online) ==
    \E i \in Seats : Occupied(r, i) /\ r.player_info[i].user_id \in online

\* LeaveRoom ends in RemoveRoom and ResetRoom ...
Disbands(r, no, online) ==
    \/ no = 0 /\ Guests(r) = {}
    \/ ~SomeoneOnline(VacateSeat(r, no), online)

\* Mutant: the game goes on with the players that are left.
LeaveRoomPlayOn(r, no, online) ==
    IF Disbands(r, no, online) THEN ResetRoom(VacateSeat(r, no)) ELSE VacateSeat(r, no)

\* ... or the room stays, in its ready stage.
LeaveRoom(r, no, online) ==
    IF Disbands(r, no, online) THEN ResetRoom(VacateSeat(r, no))
                               ELSE BackToReady(VacateSeat(r, no))

\* OnMenuChoose: a game of that mode starts.  Only a common game supports
\* going on after a disconnection (dxxw).
StartGame(r, mode) ==
    StartGameFrameTimer([r EXCEPT !.status = "GAME", !.game_mode = mode,
                                  !.support_dxxw = (mode = "COMMON")])

\* OnGameMapEditFinished: the map editor gives way to the common game.
RestartGame(r) ==
    StartGameFrameTimer([StopGameFrameTimer(r) EXCEPT !.game_mode = "COMMON"])

\* Mutant: nobody is taken for offline.
OfflineOthersNone(r, u, online) == {}

\* OnGameEnd: the players other than the requester that are offline leave.
OfflineOthers(r, u, online) ==
    {i \in Seats : /\ Occupied(r, i)
                   /\ r.player_info[i].user_id # u
                   /\ r.player_info[i].user_id \notin online}
==============================================================================
