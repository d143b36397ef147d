-------------------------- MODULE GameServerProofs --------------------------
(* Theorems about GameServer: a room stays in order for every number of     *)
(* workers, sessions, rooms and users, whatever the interleaving; what no   *)
(* step does to a game; what the code's comments promise of connections.    *)
(*                                                                          *)
(* First each operator of Room on a room in order (RoomOK), then the        *)
(* inductive invariant IInv, the handlers one by one, and the theorems of   *)
(* states.  The action properties follow, and last the promises, which hold *)
(* of a server with one worker.                                             *)
EXTENDS GameServer, TLAPS

\* What one Room object satisfies between two critical sections.
RoomOK(x) ==
    /\ x \in RoomType
    /\ FullOnceStarted(x)
    /\ HostedUntilReset(x)
    /\ NumbersAreSeats(x)
    /\ ClockFollowsGame(x)
    /\ ModeFits(x)

\* A room keeps its players, and with them how it takes a lost connection.
SeatsKept(x, y) ==
    \A i \in Seats : y.player_info[i].user_id = x.player_info[i].user_id
PresenceKept(x, y) ==
    /\ SeatsKept(x, y)
    /\ y.status = x.status /\ y.support_dxxw = x.support_dxxw
    /\ y.frame_pause = x.frame_pause

------------------------------------------------------------------------------
(* Room operators *)

\* A room has two seats.
LEMMA TwoSeats == Seats = {0, 1}
  BY DEF Seats, TOTAL_PLAYER

\* A game starts at a frame in bounds.
LEMMA FrameZero == 0 \in 0 .. MaxFrame
  BY ServerAssumption

\* The first of some seats is one of them.
LEMMA FirstOfSeats ==
  ASSUME NEW S \in SUBSET Seats, S # {}
  PROVE  FirstOf(S) \in S
<1>1. \E i \in S : \A j \in S : i <= j
  <2>1. CASE 0 \in S
    <3>1. \A j \in S : 0 <= j
      BY TwoSeats
    <3> QED BY <2>1, <3>1
  <2>2. CASE 0 \notin S
    <3>1. S = {1}
      BY <2>2, TwoSeats
    <3> QED BY <3>1
  <2> QED BY <2>1, <2>2
<1> QED BY <1>1 DEF FirstOf

\* The constructor's room is in order.
LEMMA NewRoomOK == RoomOK(NewRoom) /\ NewRoom.status = "NULL"
  BY TwoSeats, ServerAssumption
  DEF RoomOK, NewRoom, NoPlayer, NoUser, RoomType, PlayerType, RoomStatus, MenuIndex,
      GameMode, FullOnceStarted, HostedUntilReset, NumbersAreSeats, ClockFollowsGame,
      ModeFits, Occupied

\* Stopping the clock changes nothing but the clock.
LEMMA StopFields ==
  ASSUME NEW x \in RoomType
  PROVE  LET y == StopGameFrameTimer(x)
         IN  /\ y \in RoomType
             /\ y.player_info = x.player_info /\ y.status = x.status
             /\ y.menu_index = x.menu_index /\ y.game_mode = x.game_mode
             /\ y.support_dxxw = x.support_dxxw /\ y.queued = x.queued
             /\ y.armed = FALSE /\ y.frame_running = FALSE /\ y.frame_pause = TRUE
             /\ y.frame_no = 0 /\ y.frame_ope = {}
  BY FrameZero, ZenonT(30) DEF StopGameFrameTimer, RoomType

\* Starting or resuming the clock changes nothing but the clock.
LEMMA StartFields ==
  ASSUME NEW x \in RoomType
  PROVE  LET y == StartGameFrameTimer(x)
         IN  /\ y \in RoomType
             /\ y.player_info = x.player_info /\ y.status = x.status
             /\ y.menu_index = x.menu_index /\ y.game_mode = x.game_mode
             /\ y.support_dxxw = x.support_dxxw /\ y.queued = x.queued
             /\ y.armed = TRUE /\ y.frame_running = TRUE /\ y.frame_pause = FALSE
             /\ y.frame_no = x.frame_no /\ y.frame_ope = x.frame_ope
  BY ZenonT(30) DEF StartGameFrameTimer, ArmTimer, RoomType

\* A game starts from the menu of a full room.
LEMMA StartGameOK ==
  ASSUME NEW x, RoomOK(x), x.status = "START", NEW mode \in {"COMMON", "MAP_EDIT"}
  PROVE  LET y == StartGame(x, mode)
         IN  /\ RoomOK(y) /\ y.status = "GAME"
             /\ SeatsKept(x, y) /\ ~y.frame_pause
<1> DEFINE m == [x EXCEPT !.status = "GAME", !.game_mode = mode,
                          !.support_dxxw = (mode = "COMMON")]
           y == StartGame(x, mode)
<1>1. /\ m \in RoomType
      /\ m.status = "GAME" /\ m.game_mode = mode /\ m.support_dxxw = (mode = "COMMON")
      /\ m.player_info = x.player_info /\ m.menu_index = x.menu_index
      /\ m.queued = x.queued /\ m.frame_no = x.frame_no /\ m.frame_ope = x.frame_ope
  BY ZenonT(30) DEF RoomType, RoomOK, RoomStatus, GameMode
<1>2. /\ y \in RoomType
      /\ y.status = "GAME" /\ y.game_mode = mode /\ y.support_dxxw = (mode = "COMMON")
      /\ y.player_info = x.player_info /\ y.menu_index = x.menu_index
      /\ y.armed = TRUE /\ y.frame_running = TRUE /\ y.frame_pause = FALSE
  <2>1. y = StartGameFrameTimer(m)
    BY DEF StartGame
  <2> HIDE DEF m, y
  <2> QED BY <1>1, <2>1, StartFields, Zenon
<1> HIDE DEF y
<1>3. FullOnceStarted(y) /\ HostedUntilReset(y) /\ NumbersAreSeats(y)
  BY <1>2 DEF RoomOK, FullOnceStarted, HostedUntilReset, NumbersAreSeats, Occupied
<1>4. ClockFollowsGame(y)
  BY <1>2 DEF ClockFollowsGame
<1>5. ModeFits(y)
  BY <1>2, Zenon DEF RoomOK, ModeFits
<1> QED BY <1>2, <1>3, <1>4, <1>5 DEF RoomOK, SeatsKept, y

\* Going on after the map editor: the same seats, frame 0, a common game.
LEMMA RestartGameOK ==
  ASSUME NEW x, RoomOK(x), x.status = "GAME"
  PROVE  LET y == RestartGame(x)
         IN  /\ RoomOK(y) /\ y.status = "GAME"
             /\ SeatsKept(x, y) /\ y.support_dxxw = x.support_dxxw
<1> DEFINE h == StopGameFrameTimer(x)
           m == [h EXCEPT !.game_mode = "COMMON"]
           y == RestartGame(x)
<1>1. /\ h \in RoomType
      /\ h.status = "GAME" /\ h.player_info = x.player_info
      /\ h.menu_index = x.menu_index /\ h.support_dxxw = x.support_dxxw
  BY StopFields DEF RoomOK
<1>2. /\ m \in RoomType
      /\ m.status = "GAME" /\ m.player_info = x.player_info
      /\ m.menu_index = x.menu_index /\ m.game_mode = "COMMON"
      /\ m.support_dxxw = x.support_dxxw
  <2> HIDE DEF h
  <2> QED BY <1>1, ZenonT(30) DEF RoomType, GameMode
<1>3. /\ y \in RoomType
      /\ y.status = "GAME" /\ y.player_info = x.player_info
      /\ y.menu_index = x.menu_index /\ y.game_mode = "COMMON"
      /\ y.support_dxxw = x.support_dxxw
      /\ y.armed = TRUE /\ y.frame_running = TRUE /\ y.frame_pause = FALSE
  <2>1. y = StartGameFrameTimer(m)
    BY DEF RestartGame
  <2> HIDE DEF m, y
  <2> QED BY <1>2, <2>1, StartFields, Zenon
<1> HIDE DEF y
<1>4. FullOnceStarted(y) /\ HostedUntilReset(y) /\ NumbersAreSeats(y)
  BY <1>3 DEF RoomOK, FullOnceStarted, HostedUntilReset, NumbersAreSeats, Occupied
<1>5. ClockFollowsGame(y)
  BY <1>3 DEF ClockFollowsGame
<1>6. ModeFits(y)
  BY <1>3 DEF RoomOK, ModeFits
<1> QED BY <1>3, <1>4, <1>5, <1>6 DEF RoomOK, SeatsKept, y

\* Pausing and resuming a game.
LEMMA PauseOK ==
  ASSUME NEW x, RoomOK(x), x.status = "GAME", NEW pause \in BOOLEAN
  PROVE  LET y == SetGameFramePause(x, pause)
         IN  /\ RoomOK(y) /\ y.status = "GAME"
             /\ y.player_info = x.player_info /\ y.support_dxxw = x.support_dxxw
             /\ y.frame_pause <=> pause
<1> DEFINE y == SetGameFramePause(x, pause)
<1>1. /\ y \in RoomType
      /\ y.player_info = x.player_info /\ y.status = x.status
      /\ y.menu_index = x.menu_index /\ y.game_mode = x.game_mode
      /\ y.support_dxxw = x.support_dxxw
      /\ y.frame_running = TRUE
      /\ y.frame_pause = TRUE \/ y.armed = TRUE
      /\ y.frame_pause <=> pause
  <2>0. x \in RoomType /\ x.frame_running = TRUE
    BY DEF RoomOK, ClockFollowsGame, RoomType
  <2>1. CASE pause
    BY <2>0, <2>1, ZenonT(30) DEF SetGameFramePause, RoomType
  <2>2. CASE ~pause
    <3>1. y = StartGameFrameTimer(x)
      BY <2>2 DEF SetGameFramePause
    <3> HIDE DEF y
    <3> QED BY <2>0, <2>2, <3>1, StartFields, Zenon
  <2> QED BY <2>1, <2>2
<1> HIDE DEF y
<1>2. FullOnceStarted(y) /\ HostedUntilReset(y) /\ NumbersAreSeats(y)
  BY <1>1 DEF RoomOK, FullOnceStarted, HostedUntilReset, NumbersAreSeats, Occupied
<1>3. ClockFollowsGame(y)
  BY <1>1 DEF ClockFollowsGame
<1>4. ModeFits(y)
  BY <1>1 DEF RoomOK, ModeFits
<1> QED BY <1>1, <1>2, <1>3, <1>4 DEF RoomOK, y

\* The reset room is in order, whatever the room was.
LEMMA ResetRoomOK ==
  ASSUME NEW x \in RoomType
  PROVE  RoomOK(ResetRoom(x)) /\ ResetRoom(x).status = "NULL"
<1> DEFINE h == StopGameFrameTimer(x)
           y == ResetRoom(x)
<1>1. /\ h \in RoomType
      /\ h.armed = FALSE /\ h.frame_running = FALSE /\ h.frame_pause = TRUE
      /\ h.frame_no = 0 /\ h.frame_ope = {}
  BY StopFields
<1>2. [i \in Seats |-> NoPlayer] \in [Seats -> PlayerType]
  BY TwoSeats DEF NoPlayer, PlayerType, NoUser
<1>3. /\ y \in RoomType
      /\ y.player_info = [i \in Seats |-> NoPlayer] /\ y.status = "NULL"
      /\ y.menu_index = "NONE" /\ y.game_mode = "NONE"
      /\ y.armed = FALSE /\ y.frame_running = FALSE /\ y.frame_pause = TRUE
      /\ y.frame_no = 0 /\ y.frame_ope = {}
  <2>1. y = [h EXCEPT !.player_info = [i \in Seats |-> NoPlayer], !.status = "NULL",
               !.menu_index = "NONE", !.game_mode = "NONE", !.support_dxxw = TRUE]
    BY DEF ResetRoom
  <2> DEFINE none == [i \in Seats |-> NoPlayer]
  <2> HIDE DEF h, y, none
  <2> QED BY <1>1, <1>2, <2>1, ZenonT(30) DEF RoomType, RoomStatus, MenuIndex, GameMode, none
<1> HIDE DEF y
<1>4. FullOnceStarted(y) /\ HostedUntilReset(y) /\ NumbersAreSeats(y)
  BY <1>3, TwoSeats DEF FullOnceStarted, HostedUntilReset, NumbersAreSeats, Occupied,
                        NoPlayer, NoUser
<1>5. ClockFollowsGame(y)
  BY <1>3 DEF ClockFollowsGame
<1>6. ModeFits(y)
  BY <1>3 DEF ModeFits
<1> QED BY <1>3, <1>4, <1>5, <1>6 DEF RoomOK, y

\* Back in the ready stage a room is in order as soon as its seats are.
LEMMA BackToReadyOK ==
  ASSUME NEW x \in RoomType, NumbersAreSeats(x), Occupied(x, 0)
  PROVE  LET y == BackToReady(x)
         IN  /\ RoomOK(y) /\ y.status = "READY"
             /\ y.player_info = x.player_info
<1> DEFINE m == [x EXCEPT !.status = "READY", !.game_mode = "NONE", !.menu_index = "NONE"]
           y == BackToReady(x)
<1>1. /\ m \in RoomType
      /\ m.status = "READY" /\ m.player_info = x.player_info
      /\ m.menu_index = "NONE" /\ m.game_mode = "NONE"
  BY ZenonT(30) DEF RoomType, RoomStatus, MenuIndex, GameMode
<1>2. /\ y \in RoomType
      /\ y.status = "READY" /\ y.player_info = x.player_info
      /\ y.menu_index = "NONE" /\ y.game_mode = "NONE"
      /\ y.armed = FALSE /\ y.frame_running = FALSE /\ y.frame_pause = TRUE
      /\ y.frame_no = 0 /\ y.frame_ope = {}
  <2>1. y = StopGameFrameTimer(m)
    BY DEF BackToReady
  <2> HIDE DEF m, y
  <2> QED BY <1>1, <2>1, StopFields, Zenon
<1> HIDE DEF y
<1>3. FullOnceStarted(y) /\ HostedUntilReset(y) /\ NumbersAreSeats(y)
  BY <1>2 DEF FullOnceStarted, HostedUntilReset, NumbersAreSeats, Occupied
<1>4. ClockFollowsGame(y)
  BY <1>2 DEF ClockFollowsGame
<1>5. ModeFits(y)
  BY <1>2 DEF ModeFits
<1> QED BY <1>2, <1>3, <1>4, <1>5 DEF RoomOK, y

\* Emptying one seat.
LEMMA RemoveFields ==
  ASSUME NEW x \in RoomType, NEW no \in Seats
  PROVE  LET y == RemovePlayer(x, no)
         IN  /\ y \in RoomType
             /\ y.player_info = [x.player_info EXCEPT ![no] = NoPlayer]
             /\ y.status = x.status
<1>1. NoPlayer \in PlayerType
  BY TwoSeats DEF NoPlayer, PlayerType, NoUser
<1>2. [x.player_info EXCEPT ![no] = NoPlayer] \in [Seats -> PlayerType]
  BY <1>1, Zenon DEF RoomType
<1> QED BY <1>2, ZenonT(30) DEF RemovePlayer, RoomType

\* Seating a player at its number.
LEMMA SetFields ==
  ASSUME NEW x \in RoomType, NEW info \in PlayerType
  PROVE  LET y == SetPlayer(x, info)
         IN  /\ y \in RoomType
             /\ y.player_info = [x.player_info EXCEPT ![info.number] = info]
             /\ y.status = x.status /\ y.menu_index = x.menu_index
             /\ y.game_mode = x.game_mode /\ y.support_dxxw = x.support_dxxw
             /\ y.frame_running = x.frame_running /\ y.frame_pause = x.frame_pause
             /\ y.frame_no = x.frame_no /\ y.frame_ope = x.frame_ope
             /\ y.armed = x.armed /\ y.queued = x.queued
<1>1. info.number \in Seats
  BY DEF PlayerType
<1>2. [x.player_info EXCEPT ![info.number] = info] \in [Seats -> PlayerType]
  BY <1>1, Zenon DEF RoomType
<1> QED BY <1>2, ZenonT(30) DEF SetPlayer, RoomType

\* A seat of a room, as a record.
LEMMA PlayerFields ==
  ASSUME NEW x \in RoomType, NEW no \in Seats
  PROVE  /\ x.player_info[no] \in PlayerType
         /\ x.player_info[no].number \in Seats
         /\ x.player_info[no].user_id \in Users \union {NoUser}
  BY DEF RoomType, PlayerType

\* Setting "ready" in one seat.
LEMMA ReadyFields ==
  ASSUME NEW x \in RoomType, NEW no \in Seats, NEW b \in BOOLEAN
  PROVE  LET y == SetReady(x, no, b)
         IN  /\ y \in RoomType
             /\ y.player_info[no].ready = b
             /\ \A i \in Seats \ {no} : y.player_info[i] = x.player_info[i]
             /\ \A i \in Seats :
                  /\ y.player_info[i].number = x.player_info[i].number
                  /\ y.player_info[i].user_id = x.player_info[i].user_id
             /\ y.status = x.status /\ y.menu_index = x.menu_index
             /\ y.game_mode = x.game_mode /\ y.support_dxxw = x.support_dxxw
             /\ y.frame_running = x.frame_running /\ y.frame_pause = x.frame_pause
             /\ y.frame_no = x.frame_no /\ y.frame_ope = x.frame_ope
             /\ y.armed = x.armed /\ y.queued = x.queued
<1> DEFINE info == [x.player_info EXCEPT ![no].ready = b]
           y == SetReady(x, no, b)
<1>1. \A i \in Seats : x.player_info[i] \in PlayerType
  BY PlayerFields
<1>2. x.player_info \in [Seats -> PlayerType]
  BY DEF RoomType
<1>3. /\ info \in [Seats -> PlayerType]
      /\ info[no].ready = b
      /\ \A i \in Seats \ {no} : info[i] = x.player_info[i]
      /\ \A i \in Seats : /\ info[i].number = x.player_info[i].number
                          /\ info[i].user_id = x.player_info[i].user_id
  <2> DEFINE mine == [x.player_info[no] EXCEPT !.ready = b]
  <2>1. /\ mine \in PlayerType /\ mine.ready = b
        /\ mine.number = x.player_info[no].number
        /\ mine.user_id = x.player_info[no].user_id
    BY <1>1, Zenon DEF PlayerType
  <2>2. info = [x.player_info EXCEPT ![no] = mine]
    BY <1>2, Zenon
  <2> HIDE DEF mine, info
  <2> QED BY <1>2, <2>1, <2>2
<1>4. y = [x EXCEPT !.player_info = info]
  BY Zenon DEF SetReady, RoomType
<1> HIDE DEF info, y
<1>5. /\ y \in RoomType /\ y.player_info = info
      /\ y.status = x.status /\ y.menu_index = x.menu_index
      /\ y.game_mode = x.game_mode /\ y.support_dxxw = x.support_dxxw
      /\ y.frame_running = x.frame_running /\ y.frame_pause = x.frame_pause
      /\ y.frame_no = x.frame_no /\ y.frame_ope = x.frame_ope
      /\ y.armed = x.armed /\ y.queued = x.queued
  BY <1>3, <1>4, ZenonT(30) DEF RoomType
<1> QED BY <1>3, <1>5 DEF y

\* After a departure the numbers still name the seats, and unless the host
\* left alone the other player is in the host's seat, and alone.
LEMMA VacateSeatOK ==
  ASSUME NEW x, RoomOK(x), NEW no \in Seats, Occupied(x, no)
  PROVE  LET y == VacateSeat(x, no)
         IN  /\ y \in RoomType
             /\ ~(no = 0 /\ Guests(x) = {}) =>
                  /\ NumbersAreSeats(y) /\ Occupied(y, 0) /\ ~Occupied(y, 1)
                  /\ \A i \in Seats \ {no} :
                       y.player_info[0].user_id = x.player_info[i].user_id
<1> DEFINE y == VacateSeat(x, no)
<1>0. /\ x \in RoomType /\ NumbersAreSeats(x) /\ Occupied(x, 0)
      /\ \A i \in Seats : x.player_info[i] \in PlayerType
  BY PlayerFields DEF RoomOK, HostedUntilReset
<1>1. CASE no # 0
  <2> DEFINE left == RemovePlayer(x, no)
             z == SetReady(left, 0, FALSE)
  <2>1. left \in RoomType /\ left.player_info = [x.player_info EXCEPT ![no] = NoPlayer]
    BY <1>0, RemoveFields
  <2> HIDE DEF left
  <2>2. left.player_info[0] = x.player_info[0]
    BY <1>0, <1>1, <2>1, TwoSeats DEF RoomType
  <2>3. Occupied(left, 0)
    BY <2>2, <1>0 DEF Occupied
  <2>4. /\ z \in RoomType
        /\ \A i \in Seats : /\ z.player_info[i].number = left.player_info[i].number
                            /\ z.player_info[i].user_id = left.player_info[i].user_id
    BY <2>1, ReadyFields, TwoSeats
  <2>5. y = z
    BY <1>1, <2>3 DEF VacateSeat, left
  <2> HIDE DEF z, y
  <2>6. left.player_info[no] = NoPlayer
    BY <2>1, <1>0 DEF RoomType
  <2>8. /\ NumbersAreSeats(z) /\ Occupied(z, 0) /\ ~Occupied(z, 1)
        /\ \A i \in Seats \ {no} : z.player_info[0].user_id = x.player_info[i].user_id
    BY <2>2, <2>4, <2>6, <1>0, <1>1, TwoSeats DEF NumbersAreSeats, Occupied, NoPlayer, NoUser
  <2> QED BY <2>4, <2>5, <2>8 DEF y
<1>2. CASE no = 0 /\ Guests(x) = {}
  BY <1>0, <1>2 DEF VacateSeat
<1>3. CASE no = 0 /\ Guests(x) # {}
  <2> DEFINE other == FirstOf(Guests(x))
             host == [x.player_info[other] EXCEPT !.number = 0, !.ready = FALSE]
             set == SetPlayer(x, host)
  <2>1. other = 1 /\ Occupied(x, 1)
    <3>1. Guests(x) \subseteq {1}
      BY TwoSeats DEF Guests
    <3>2. other \in Guests(x)
      BY <1>3, FirstOfSeats, TwoSeats DEF Guests
    <3> QED BY <3>1, <3>2 DEF Guests
  <2>2. /\ host \in PlayerType /\ host.number = 0
        /\ host.user_id = x.player_info[1].user_id /\ host.user_id # NoUser
    <3> HIDE DEF other
    <3> QED BY <2>1, <1>0, TwoSeats DEF PlayerType, Occupied
  <2> HIDE DEF host, other
  <2>3. /\ set \in RoomType
        /\ set.player_info = [x.player_info EXCEPT ![0] = host]
    BY <1>0, <2>2, SetFields, Zenon
  <2> HIDE DEF set
  <2>4. /\ RemovePlayer(set, other) \in RoomType
        /\ RemovePlayer(set, other).player_info = [set.player_info EXCEPT ![1] = NoPlayer]
    BY <2>1, <2>3, RemoveFields, TwoSeats
  <2>5. y = RemovePlayer(set, other)
    BY <1>3 DEF VacateSeat, set, host, other
  <2> HIDE DEF y
  <2>6. y.player_info[0] = host /\ y.player_info[1] = NoPlayer
    BY <2>3, <2>4, <2>5, <1>0, TwoSeats DEF RoomType
  <2>7. /\ NumbersAreSeats(y) /\ Occupied(y, 0) /\ ~Occupied(y, 1)
        /\ \A i \in Seats \ {no} : y.player_info[0].user_id = x.player_info[i].user_id
    BY <1>3, <2>6, <2>2, TwoSeats DEF NumbersAreSeats, Occupied, NoPlayer, NoUser
  <2> QED BY <2>4, <2>5, <2>7 DEF y
<1> QED BY <1>1, <1>2, <1>3

\* Leaving keeps the room in order; it is out of use exactly when LeaveRoom
\* disbanded it.
LEMMA LeaveRoomOK ==
  ASSUME NEW x, RoomOK(x), NEW no \in Seats, Occupied(x, no), NEW online
  PROVE  /\ RoomOK(LeaveRoom(x, no, online))
         /\ LeaveRoom(x, no, online).status = "NULL" <=> Disbands(x, no, online)
<1> DEFINE left == VacateSeat(x, no)
<1>1. /\ left \in RoomType
      /\ ~(no = 0 /\ Guests(x) = {}) => NumbersAreSeats(left) /\ Occupied(left, 0)
  BY VacateSeatOK, Zenon
<1> HIDE DEF left
<1>2. CASE Disbands(x, no, online)
  <2>1. LeaveRoom(x, no, online) = ResetRoom(left)
    BY <1>2 DEF LeaveRoom, left
  <2> QED BY <1>1, <1>2, <2>1, ResetRoomOK
<1>3. CASE ~Disbands(x, no, online)
  <2>1. LeaveRoom(x, no, online) = BackToReady(left)
    BY <1>3 DEF LeaveRoom, left
  <2>2. ~(no = 0 /\ Guests(x) = {})
    BY <1>3 DEF Disbands
  <2> QED BY <1>1, <1>3, <2>1, <2>2, BackToReadyOK
<1> QED BY <1>2, <1>3

\* Clearing "ready" touches neither numbers nor users.
LEMMA ClearReadyFields ==
  ASSUME NEW x \in RoomType
  PROVE  LET y == ClearReady(x)
         IN  /\ y \in RoomType
             /\ \A i \in Seats :
                  /\ y.player_info[i].number = x.player_info[i].number
                  /\ y.player_info[i].user_id = x.player_info[i].user_id
             /\ y.status = x.status /\ y.menu_index = x.menu_index
             /\ y.game_mode = x.game_mode /\ y.support_dxxw = x.support_dxxw
             /\ y.frame_running = x.frame_running /\ y.frame_pause = x.frame_pause
             /\ y.frame_no = x.frame_no /\ y.frame_ope = x.frame_ope
             /\ y.armed = x.armed /\ y.queued = x.queued
<1> DEFINE info == [i \in Seats |-> IF Occupied(x, i)
                                    THEN [x.player_info[i] EXCEPT !.ready = FALSE]
                                    ELSE x.player_info[i]]
           y == ClearReady(x)
<1>1. \A i \in Seats : x.player_info[i] \in PlayerType
  BY PlayerFields
<1>2. /\ info \in [Seats -> PlayerType]
      /\ \A i \in Seats : /\ info[i].number = x.player_info[i].number
                          /\ info[i].user_id = x.player_info[i].user_id
  <2>1. ASSUME NEW p \in PlayerType
        PROVE  LET q == [p EXCEPT !.ready = FALSE]
               IN  q \in PlayerType /\ q.number = p.number /\ q.user_id = p.user_id
    BY Zenon DEF PlayerType
  <2> QED BY <1>1, <2>1
<1>3. y = [x EXCEPT !.player_info = info]
  BY DEF ClearReady
<1> HIDE DEF info, y
<1>4. /\ y \in RoomType /\ y.player_info = info
      /\ y.status = x.status /\ y.menu_index = x.menu_index
      /\ y.game_mode = x.game_mode /\ y.support_dxxw = x.support_dxxw
      /\ y.frame_running = x.frame_running /\ y.frame_pause = x.frame_pause
      /\ y.frame_no = x.frame_no /\ y.frame_ope = x.frame_ope
      /\ y.armed = x.armed /\ y.queued = x.queued
  BY <1>2, <1>3, ZenonT(30) DEF RoomType
<1> QED BY <1>2, <1>4 DEF y

\* "Ready" and its undoing keep a room of the ready stage in order.
LEMMA SetReadyOK ==
  ASSUME NEW x, RoomOK(x), x.status = "READY", NEW no \in Seats, NEW b \in BOOLEAN
  PROVE  LET y == SetReady(x, no, b)
         IN  RoomOK(y) /\ y.status = "READY" /\ SeatsKept(x, y)
<1> DEFINE y == SetReady(x, no, b)
<1>0. x \in RoomType
  BY DEF RoomOK
<1>1. /\ y \in RoomType
      /\ \A i \in Seats :
           /\ y.player_info[i].number = x.player_info[i].number
           /\ y.player_info[i].user_id = x.player_info[i].user_id
      /\ y.status = x.status /\ y.menu_index = x.menu_index
      /\ y.game_mode = x.game_mode /\ y.support_dxxw = x.support_dxxw
      /\ y.frame_running = x.frame_running /\ y.frame_pause = x.frame_pause
      /\ y.frame_no = x.frame_no /\ y.frame_ope = x.frame_ope
      /\ y.armed = x.armed /\ y.queued = x.queued
  BY <1>0, ReadyFields
<1> HIDE DEF y
<1>2. FullOnceStarted(y) /\ HostedUntilReset(y) /\ NumbersAreSeats(y)
  BY <1>1, TwoSeats DEF RoomOK, FullOnceStarted, HostedUntilReset, NumbersAreSeats, Occupied
<1>3. ClockFollowsGame(y)
  BY <1>1 DEF RoomOK, ClockFollowsGame
<1>4. ModeFits(y)
  BY <1>1 DEF RoomOK, ModeFits
<1> QED BY <1>1, <1>2, <1>3, <1>4 DEF RoomOK, SeatsKept, y

\* The start of a room whose guests are all ready.
LEMMA RoomStartOK ==
  ASSUME NEW x, RoomOK(x), StartAllowed(x, 0)
  PROVE  LET y == [SetReady(x, 0, TRUE) EXCEPT !.status = "START",
                            !.menu_index = "START_GAME"]
         IN  RoomOK(y) /\ y.status = "START" /\ SeatsKept(x, y)
<1> DEFINE m == SetReady(x, 0, TRUE)
           y == [SetReady(x, 0, TRUE) EXCEPT !.status = "START",
                          !.menu_index = "START_GAME"]
<1>0. x \in RoomType
  BY DEF RoomOK
<1>1. /\ m \in RoomType
      /\ m.player_info[0].ready = TRUE
      /\ \A i \in Seats \ {0} : m.player_info[i] = x.player_info[i]
      /\ \A i \in Seats :
           /\ m.player_info[i].number = x.player_info[i].number
           /\ m.player_info[i].user_id = x.player_info[i].user_id
      /\ m.game_mode = x.game_mode /\ m.support_dxxw = x.support_dxxw
      /\ m.frame_running = x.frame_running /\ m.frame_pause = x.frame_pause
      /\ m.frame_no = x.frame_no /\ m.frame_ope = x.frame_ope
      /\ m.armed = x.armed
  BY <1>0, ReadyFields, TwoSeats, Zenon
<1>2. y = [m EXCEPT !.status = "START", !.menu_index = "START_GAME"]
  BY Zenon
<1> HIDE DEF m, y
<1>3. /\ y \in RoomType
      /\ y.player_info = m.player_info
      /\ y.status = "START" /\ y.menu_index = "START_GAME"
      /\ y.game_mode = m.game_mode
      /\ y.frame_running = m.frame_running /\ y.frame_pause = m.frame_pause
      /\ y.frame_no = m.frame_no /\ y.frame_ope = m.frame_ope
      /\ y.armed = m.armed
  BY <1>1, <1>2, ZenonT(30) DEF RoomType, RoomStatus, MenuIndex
<1>4. /\ Occupied(y, 0) /\ y.player_info[0].ready
      /\ Occupied(y, 1) /\ y.player_info[1].ready
  <2>1. x.status = "READY" /\ Occupied(x, 0)
    BY DEF StartAllowed, RoomOK, HostedUntilReset
  <2>2. Occupied(x, 1) /\ x.player_info[1].ready
    BY TwoSeats DEF StartAllowed, Guests
  <2> QED BY <1>1, <1>3, <2>1, <2>2, TwoSeats DEF Occupied
<1>5. FullOnceStarted(y) /\ HostedUntilReset(y)
  BY <1>3, <1>4, TwoSeats DEF FullOnceStarted, HostedUntilReset
<1>6. NumbersAreSeats(y)
  BY <1>1, <1>3, TwoSeats DEF RoomOK, NumbersAreSeats, Occupied
<1>7. ClockFollowsGame(y)
  BY <1>1, <1>3 DEF RoomOK, ClockFollowsGame, StartAllowed
<1>8. ModeFits(y)
  BY <1>1, <1>3 DEF RoomOK, ModeFits, StartAllowed
<1>9. SeatsKept(x, y)
  BY <1>1, <1>3 DEF SeatsKept
<1> QED BY <1>3, <1>5, <1>6, <1>7, <1>8, <1>9 DEF RoomOK, y

\* The host's choice in the menu.
LEMMA MenuSwitchOK ==
  ASSUME NEW x, RoomOK(x), x.status = "START", NEW index \in MenuIndex \ {"NONE"}
  PROVE  LET y == [x EXCEPT !.menu_index = index]
         IN  RoomOK(y) /\ y.status = "START" /\ SeatsKept(x, y)
<1> DEFINE y == [x EXCEPT !.menu_index = index]
<1>1. /\ y \in RoomType
      /\ y.menu_index = index /\ y.player_info = x.player_info
      /\ y.status = x.status /\ y.game_mode = x.game_mode
      /\ y.support_dxxw = x.support_dxxw
      /\ y.frame_running = x.frame_running /\ y.frame_pause = x.frame_pause
      /\ y.frame_no = x.frame_no /\ y.frame_ope = x.frame_ope
      /\ y.armed = x.armed /\ y.queued = x.queued
  BY ZenonT(30) DEF RoomOK, RoomType
<1> HIDE DEF y
<1>2. FullOnceStarted(y) /\ HostedUntilReset(y) /\ NumbersAreSeats(y)
  BY <1>1 DEF RoomOK, FullOnceStarted, HostedUntilReset, NumbersAreSeats, Occupied
<1>3. ClockFollowsGame(y)
  BY <1>1 DEF RoomOK, ClockFollowsGame
<1>4. ModeFits(y)
  BY <1>1 DEF RoomOK, ModeFits
<1> QED BY <1>1, <1>2, <1>3, <1>4 DEF RoomOK, SeatsKept, y

\* Back from the menu to the ready stage.
LEMMA MenuBackOK ==
  ASSUME NEW x, RoomOK(x), x.status = "START"
  PROVE  LET y == ClearReady([x EXCEPT !.status = "READY", !.menu_index = "NONE"])
         IN  RoomOK(y) /\ y.status = "READY" /\ SeatsKept(x, y)
<1> DEFINE m == [x EXCEPT !.status = "READY", !.menu_index = "NONE"]
           y == ClearReady(m)
<1>1. /\ m \in RoomType
      /\ m.status = "READY" /\ m.menu_index = "NONE"
      /\ m.player_info = x.player_info /\ m.game_mode = x.game_mode
      /\ m.frame_running = x.frame_running /\ m.frame_pause = x.frame_pause
      /\ m.frame_no = x.frame_no /\ m.frame_ope = x.frame_ope
      /\ m.armed = x.armed
  BY ZenonT(30) DEF RoomOK, RoomType, RoomStatus, MenuIndex
<1> HIDE DEF m
<1>2. /\ y \in RoomType
      /\ \A i \in Seats :
           /\ y.player_info[i].number = x.player_info[i].number
           /\ y.player_info[i].user_id = x.player_info[i].user_id
      /\ y.status = "READY" /\ y.menu_index = "NONE" /\ y.game_mode = x.game_mode
      /\ y.frame_running = x.frame_running /\ y.frame_pause = x.frame_pause
      /\ y.frame_no = x.frame_no /\ y.frame_ope = x.frame_ope
      /\ y.armed = x.armed
  BY <1>1, ClearReadyFields
<1> HIDE DEF y
<1>3. FullOnceStarted(y) /\ HostedUntilReset(y) /\ NumbersAreSeats(y)
  BY <1>2, TwoSeats DEF RoomOK, FullOnceStarted, HostedUntilReset, NumbersAreSeats, Occupied
<1>4. ClockFollowsGame(y)
  BY <1>2 DEF RoomOK, ClockFollowsGame
<1>5. ModeFits(y)
  BY <1>2 DEF RoomOK, ModeFits
<1> QED BY <1>2, <1>3, <1>4, <1>5 DEF RoomOK, SeatsKept, y, m

\* An operation in a frame of a game.
LEMMA GameFrameOK ==
  ASSUME NEW x, RoomOK(x), x.status = "GAME", NEW no \in Seats
  PROVE  LET y == [x EXCEPT !.frame_ope = @ \union {no}]
         IN  RoomOK(y) /\ y.status = "GAME" /\ PresenceKept(x, y)
<1> DEFINE y == [x EXCEPT !.frame_ope = @ \union {no}]
<1>1. x \in RoomType /\ x.frame_ope \union {no} \in SUBSET Seats
  BY DEF RoomOK, RoomType
<1>2. /\ y \in RoomType
      /\ y.menu_index = x.menu_index /\ y.player_info = x.player_info
      /\ y.status = x.status /\ y.game_mode = x.game_mode
      /\ y.support_dxxw = x.support_dxxw
      /\ y.frame_running = x.frame_running /\ y.frame_pause = x.frame_pause
      /\ y.frame_no = x.frame_no
      /\ y.armed = x.armed /\ y.queued = x.queued
  BY <1>1, ZenonT(30) DEF RoomType
<1> HIDE DEF y
<1>3. FullOnceStarted(y) /\ HostedUntilReset(y) /\ NumbersAreSeats(y)
  BY <1>2 DEF RoomOK, FullOnceStarted, HostedUntilReset, NumbersAreSeats, Occupied
<1>4. ClockFollowsGame(y)
  BY <1>2 DEF RoomOK, ClockFollowsGame
<1>5. ModeFits(y)
  BY <1>2 DEF RoomOK, ModeFits
<1> QED BY <1>2, <1>3, <1>4, <1>5 DEF RoomOK, PresenceKept, SeatsKept, y

\* The end of a game before the players that are offline leave.
LEMMA EndedOK ==
  ASSUME NEW x, RoomOK(x), x.status = "GAME"
  PROVE  LET y == BackToReady(ClearReady(x))
         IN  /\ RoomOK(y) /\ y.status = "READY"
             /\ \A i \in Seats : y.player_info[i].user_id = x.player_info[i].user_id
<1> DEFINE m == ClearReady(x)
<1>1. /\ m \in RoomType
      /\ \A i \in Seats :
           /\ m.player_info[i].number = x.player_info[i].number
           /\ m.player_info[i].user_id = x.player_info[i].user_id
  BY ClearReadyFields DEF RoomOK
<1> HIDE DEF m
<1>2. NumbersAreSeats(m) /\ Occupied(m, 0)
  BY <1>1, TwoSeats DEF RoomOK, NumbersAreSeats, HostedUntilReset, Occupied
<1> QED BY <1>1, <1>2, BackToReadyOK DEF m

\* The host of a new room.
LEMMA CreateOK ==
  ASSUME NEW x, RoomOK(x), x.status = "NULL", NEW u \in Users, u # NoUser
  PROVE  LET y == SetPlayer([x EXCEPT !.status = "READY"],
                            [NoPlayer EXCEPT !.user_id = u])
         IN  /\ RoomOK(y) /\ y.status = "READY"
             /\ y.player_info[0].user_id = u
             /\ y.player_info[1].user_id = x.player_info[1].user_id
<1> DEFINE info == [NoPlayer EXCEPT !.user_id = u]
           m == [x EXCEPT !.status = "READY"]
           y == SetPlayer(m, info)
<1>1. info \in PlayerType /\ info.number = 0 /\ info.user_id = u
  BY TwoSeats DEF PlayerType, NoPlayer
<1>2. /\ m \in RoomType
      /\ m.status = "READY" /\ m.player_info = x.player_info
      /\ m.menu_index = x.menu_index /\ m.game_mode = x.game_mode
      /\ m.frame_running = x.frame_running /\ m.frame_pause = x.frame_pause
      /\ m.frame_no = x.frame_no /\ m.frame_ope = x.frame_ope
      /\ m.armed = x.armed
  BY ZenonT(30) DEF RoomOK, RoomType, RoomStatus
<1> HIDE DEF info, m
<1>3. /\ y \in RoomType
      /\ y.player_info = [x.player_info EXCEPT ![0] = info]
      /\ y.status = "READY" /\ y.menu_index = x.menu_index /\ y.game_mode = x.game_mode
      /\ y.frame_running = x.frame_running /\ y.frame_pause = x.frame_pause
      /\ y.frame_no = x.frame_no /\ y.frame_ope = x.frame_ope
      /\ y.armed = x.armed
  BY <1>1, <1>2, SetFields
<1> HIDE DEF y
<1>4. y.player_info[0] = info /\ y.player_info[1] = x.player_info[1]
  BY <1>3, TwoSeats DEF RoomOK, RoomType
<1>5. NumbersAreSeats(y)
  BY <1>1, <1>4, TwoSeats DEF RoomOK, NumbersAreSeats, Occupied
<1>6. FullOnceStarted(y) /\ HostedUntilReset(y)
  BY <1>1, <1>3, <1>4, TwoSeats DEF RoomOK, FullOnceStarted, HostedUntilReset, Occupied
<1>7. ClockFollowsGame(y)
  BY <1>3 DEF RoomOK, ClockFollowsGame
<1>8. ModeFits(y)
  BY <1>3 DEF RoomOK, ModeFits
<1> QED BY <1>1, <1>3, <1>4, <1>5, <1>6, <1>7, <1>8 DEF RoomOK, y, m, info

\* A player joins: only a room of the ready stage has a seat free.
LEMMA JoinOK ==
  ASSUME NEW x, RoomOK(x), Occupied(x, 0), FreeSeats(x) # {},
         NEW u \in Users, u # NoUser
  PROVE  LET y == SetPlayer(x, [number |-> FirstOf(FreeSeats(x)), user_id |-> u,
                                ready |-> FALSE])
         IN  /\ RoomOK(y) /\ y.status = "READY"
             /\ y.player_info[0].user_id = x.player_info[0].user_id
             /\ y.player_info[1].user_id = u
<1> DEFINE info == [number |-> FirstOf(FreeSeats(x)), user_id |-> u, ready |-> FALSE]
           y == SetPlayer(x, info)
<1>1. x \in RoomType /\ x.status = "READY"
  <2>1. ~Occupied(x, 1)
    BY TwoSeats DEF FreeSeats
  <2> QED BY <2>1, TwoSeats
       DEF RoomOK, FullOnceStarted, HostedUntilReset, RoomType, RoomStatus
<1>2. FirstOf(FreeSeats(x)) = 1
  <2>1. FirstOf(FreeSeats(x)) \in FreeSeats(x)
    BY FirstOfSeats DEF FreeSeats
  <2> QED BY <2>1, TwoSeats DEF FreeSeats
<1>3. info \in PlayerType /\ info.number = 1 /\ info.user_id = u
  BY <1>2, TwoSeats DEF PlayerType
<1> HIDE DEF info
<1>4. /\ y \in RoomType
      /\ y.player_info = [x.player_info EXCEPT ![1] = info]
      /\ y.status = x.status /\ y.menu_index = x.menu_index /\ y.game_mode = x.game_mode
      /\ y.support_dxxw = x.support_dxxw
      /\ y.frame_running = x.frame_running /\ y.frame_pause = x.frame_pause
      /\ y.frame_no = x.frame_no /\ y.frame_ope = x.frame_ope
      /\ y.armed = x.armed /\ y.queued = x.queued
  BY <1>1, <1>3, SetFields
<1> HIDE DEF y
<1>5. y.player_info[1] = info /\ y.player_info[0] = x.player_info[0]
  BY <1>4, TwoSeats DEF RoomOK, RoomType
<1>6. NumbersAreSeats(y)
  BY <1>3, <1>5, TwoSeats DEF RoomOK, NumbersAreSeats, Occupied
<1>7. FullOnceStarted(y) /\ HostedUntilReset(y)
  BY <1>1, <1>4, <1>5, TwoSeats DEF RoomOK, FullOnceStarted, HostedUntilReset, Occupied
<1>8. ClockFollowsGame(y)
  BY <1>4 DEF RoomOK, ClockFollowsGame
<1>9. ModeFits(y)
  BY <1>4 DEF RoomOK, ModeFits
<1> QED BY <1>1, <1>3, <1>4, <1>5, <1>6, <1>7, <1>8, <1>9 DEF RoomOK, y, info

\* The expiry of a wait moves the clock's hope from the wait to its handler.
LEMMA ExpiredOK ==
  ASSUME NEW x, RoomOK(x)
  PROVE  LET y == [x EXCEPT !.armed = FALSE, !.queued = TRUE]
         IN  RoomOK(y) /\ y.status = x.status /\ PresenceKept(x, y)
<1> DEFINE y == [x EXCEPT !.armed = FALSE, !.queued = TRUE]
<1>1. /\ y \in RoomType
      /\ y.player_info = x.player_info
      /\ y.status = x.status /\ y.menu_index = x.menu_index /\ y.game_mode = x.game_mode
      /\ y.support_dxxw = x.support_dxxw
      /\ y.frame_running = x.frame_running /\ y.frame_pause = x.frame_pause
      /\ y.frame_no = x.frame_no /\ y.frame_ope = x.frame_ope
      /\ y.armed = FALSE /\ y.queued = TRUE
  BY ZenonT(30) DEF RoomOK, RoomType
<1> HIDE DEF y
<1>2. FullOnceStarted(y) /\ HostedUntilReset(y) /\ NumbersAreSeats(y)
  BY <1>1 DEF RoomOK, FullOnceStarted, HostedUntilReset, NumbersAreSeats, Occupied
<1>3. ClockFollowsGame(y)
  BY <1>1 DEF RoomOK, ClockFollowsGame
<1>4. ModeFits(y)
  BY <1>1 DEF RoomOK, ModeFits
<1> QED BY <1>1, <1>2, <1>3, <1>4 DEF RoomOK, PresenceKept, SeatsKept, y

\* A handler of an expired wait, late or not, stale or not.
LEMMA TickOK ==
  ASSUME NEW x, RoomOK(x), x.frame_no < MaxFrame, NEW late \in BOOLEAN
  PROVE  LET y == OnGameFrameSync([x EXCEPT !.queued = FALSE], late)
         IN  RoomOK(y) /\ y.status = x.status /\ PresenceKept(x, y)
<1> DEFINE m == [x EXCEPT !.queued = FALSE]
           sent == [m EXCEPT !.frame_no = @ + 1, !.frame_ope = {}]
           y == OnGameFrameSync(m, late)
<1>0. x.frame_no + 1 \in 0 .. MaxFrame
  BY ServerAssumption DEF RoomOK, RoomType
<1>1. /\ m \in RoomType
      /\ m.player_info = x.player_info
      /\ m.status = x.status /\ m.menu_index = x.menu_index /\ m.game_mode = x.game_mode
      /\ m.support_dxxw = x.support_dxxw
      /\ m.frame_running = x.frame_running /\ m.frame_pause = x.frame_pause
      /\ m.frame_no = x.frame_no /\ m.frame_ope = x.frame_ope
      /\ m.armed = x.armed
  BY ZenonT(30) DEF RoomOK, RoomType
<1> HIDE DEF m
<1>2. /\ sent \in RoomType
      /\ sent.player_info = m.player_info
      /\ sent.status = m.status /\ sent.menu_index = m.menu_index
      /\ sent.game_mode = m.game_mode /\ sent.support_dxxw = m.support_dxxw
      /\ sent.frame_running = m.frame_running /\ sent.frame_pause = m.frame_pause
  BY <1>0, <1>1, ZenonT(30) DEF RoomType
<1> HIDE DEF sent
<1>3. ASSUME NEW z \in RoomType
      PROVE  /\ ArmTimer(z) \in RoomType
             /\ ArmTimer(z).player_info = z.player_info
             /\ ArmTimer(z).status = z.status /\ ArmTimer(z).menu_index = z.menu_index
             /\ ArmTimer(z).game_mode = z.game_mode
             /\ ArmTimer(z).support_dxxw = z.support_dxxw
             /\ ArmTimer(z).frame_running = z.frame_running
             /\ ArmTimer(z).frame_pause = z.frame_pause
             /\ ArmTimer(z).armed = TRUE
  BY ZenonT(30) DEF ArmTimer, RoomType
<1>4. /\ y \in RoomType
      /\ y.player_info = x.player_info
      /\ y.status = x.status /\ y.menu_index = x.menu_index /\ y.game_mode = x.game_mode
      /\ y.support_dxxw = x.support_dxxw
      /\ y.frame_running = x.frame_running /\ y.frame_pause = x.frame_pause
      /\ \/ /\ ~x.frame_running \/ x.frame_pause
            /\ y.armed = x.armed /\ y.frame_no = x.frame_no /\ y.frame_ope = x.frame_ope
         \/ y.armed = TRUE /\ x.frame_running /\ ~x.frame_pause
  <2>1. CASE ~m.frame_running \/ m.frame_pause
    <3>1. y = m
      BY <2>1 DEF OnGameFrameSync
    <3> QED BY <1>1, <2>1, <3>1
  <2>2. CASE ~(~m.frame_running \/ m.frame_pause) /\ FrameIsDue(m, late)
    <3>1. y = ArmTimer(sent)
      BY <2>2 DEF OnGameFrameSync, sent
    <3> HIDE DEF y
    <3> QED BY <1>1, <1>2, <1>3, <2>2, <3>1
  <2>3. CASE ~(~m.frame_running \/ m.frame_pause) /\ ~FrameIsDue(m, late)
    <3>1. y = ArmTimer(m)
      BY <2>3 DEF OnGameFrameSync
    <3> HIDE DEF y
    <3> QED BY <1>1, <1>3, <2>3, <3>1
  <2> QED BY <2>1, <2>2, <2>3
<1> HIDE DEF y
<1>5. FullOnceStarted(y) /\ HostedUntilReset(y) /\ NumbersAreSeats(y)
  BY <1>4 DEF RoomOK, FullOnceStarted, HostedUntilReset, NumbersAreSeats, Occupied
<1>6. ClockFollowsGame(y)
  BY <1>4 DEF RoomOK, ClockFollowsGame
<1>7. ModeFits(y)
  BY <1>4 DEF RoomOK, ModeFits
<1> QED BY <1>4, <1>5, <1>6, <1>7 DEF RoomOK, PresenceKept, SeatsKept, y, m

------------------------------------------------------------------------------
(* The inductive invariant *)

\* The rooms: each in order, registered exactly while it is in use, and with
\* an id that was handed out.
RoomsInv ==
    /\ room \in [RoomIds -> RoomType]
    /\ rooms \subseteq RoomIds
    /\ next_room \in 1 .. MaxRoom + 1
    /\ \A r \in RoomIds :
         /\ RoomOK(room[r])
         /\ r \in rooms <=> room[r].status # "NULL"
         /\ r \in rooms => r < next_room

\* What a worker holds between two steps of its handler: a user that can be
\* seated, and the pointer of a room that was created.
TaskOK(t) ==
    /\ t \in Task
    /\ t.op \in {"CreateRoom", "JoinRoom", "Login"} => t.u # NoUser
    /\ t.op = "MenuSwitch" => t.index # "NONE"
    /\ t.op \in SeatOps \union {"JoinRoom"} => t.r \in RoomIds
    /\ t.op \in {"Login", "Close"} /\ t.pc = "apply" => t.r \in RoomIds

TasksInv ==
    /\ task \in [Workers -> Task]
    /\ \A w \in Workers : TaskOK(task[w])

SessionsInv ==
    /\ users \in [Sessions -> Users \union {NoUser}]
    /\ next_user \in 1 .. MaxUser + 1
    /\ answered \subseteq Users
    /\ closes \in [Sessions -> 0 .. MaxClose]
    /\ crashed \in BOOLEAN

IInv == RoomsInv /\ TasksInv /\ SessionsInv

\* Replacing one room of a room map in order.
LEMMA RoomStep ==
  ASSUME RoomsInv, NEW r \in RoomIds, NEW y, RoomOK(y),
         room' = [room EXCEPT ![r] = y],
         rooms' = IF y.status = "NULL" THEN rooms \ {r} ELSE rooms,
         room[r].status = "NULL" => y.status = "NULL",
         next_room' = next_room
  PROVE  RoomsInv'
<1>1. room' \in [RoomIds -> RoomType] /\ rooms' \subseteq RoomIds
      /\ next_room' \in 1 .. MaxRoom + 1
  BY DEF RoomsInv, RoomOK
<1>2. ASSUME NEW q \in RoomIds
      PROVE  /\ RoomOK(room'[q])
             /\ q \in rooms' <=> room'[q].status # "NULL"
             /\ q \in rooms' => q < next_room'
  <2>1. CASE q = r
    BY <2>1 DEF RoomsInv
  <2>2. CASE q # r
    BY <2>2 DEF RoomsInv
  <2> QED BY <2>1, <2>2
<1> QED BY <1>1, <1>2 DEF RoomsInv, RoomOK, RoomType, Users

\* A step that leaves the rooms alone keeps them in order.
LEMMA RoomsStutter ==
  ASSUME RoomsInv, UNCHANGED <<rooms, room, next_room>>
  PROVE  RoomsInv'
  BY DEF RoomsInv

\* One worker going on to a task in order.
LEMMA TaskStep ==
  ASSUME TasksInv, NEW w \in Workers, NEW t, TaskOK(t),
         task' = [task EXCEPT ![w] = t]
  PROVE  TasksInv'
  BY DEF TasksInv, TaskOK

\* A worker without a handler.
LEMMA IdleOK == TaskOK(Idle)
  BY TwoSeats, FrameZero DEF TaskOK, Task, Idle, MenuIndex, NoUser, SeatOps

\* A worker going on to another stage of its handler, not to the room's mutex.
LEMMA GotoStep ==
  ASSUME TasksInv, NEW w \in Workers, NEW pc \in {"find", "unbind"}, Goto(w, pc)
  PROVE  TasksInv'
<1> DEFINE t == [task[w] EXCEPT !.pc = pc]
<1>1. task[w] \in Task /\ TaskOK(task[w])
  BY DEF TasksInv
<1>2. /\ t \in Task
      /\ t.op = task[w].op /\ t.u = task[w].u /\ t.r = task[w].r /\ t.pc = pc
      /\ t.index = task[w].index
  BY <1>1, ZenonT(30) DEF Task
<1>3. task' = [task EXCEPT ![w] = t]
  BY Zenon DEF Goto, TasksInv
<1> HIDE DEF t
<1>4. TaskOK(t)
  BY <1>1, <1>2 DEF TaskOK
<1> QED BY <1>3, <1>4, TaskStep

\* The end of a handler.
LEMMA FinishStep ==
  ASSUME TasksInv, NEW w \in Workers, Finish(w)
  PROVE  TasksInv'
  BY IdleOK, TaskStep DEF Finish

\* A request or event starts as a task in order.
LEMMA StartStep ==
  ASSUME TasksInv, NEW w \in Workers, NEW t, TaskOK(t), Start(w, t)
  PROVE  TasksInv'
  BY TaskStep DEF Start

\* A step that leaves the sessions alone.
LEMMA SessionsStutter ==
  ASSUME SessionsInv, UNCHANGED <<users, next_user, answered, closes, crashed>>
  PROVE  SessionsInv'
  BY DEF SessionsInv

\* The initial state.
LEMMA InitInv == Init => IInv
<1> SUFFICES ASSUME Init PROVE IInv
  OBVIOUS
<1>1. RoomsInv
  BY NewRoomOK, ServerAssumption DEF Init, RoomsInv, RoomOK, RoomIds
<1>2. TasksInv
  BY IdleOK DEF Init, TasksInv, TaskOK
<1>3. SessionsInv
  <2>1. users \in [Sessions -> Users \union {NoUser}] /\ closes \in [Sessions -> 0 .. MaxClose]
    BY ServerAssumption DEF Init
  <2>2. next_user \in 1 .. MaxUser + 1 /\ answered \subseteq Users
    BY ServerAssumption DEF Init
  <2>3. crashed \in BOOLEAN
    BY Zenon DEF Init
  <2> QED BY <2>1, <2>2, <2>3 DEF SessionsInv
<1> QED BY <1>1, <1>2, <1>3 DEF IInv

------------------------------------------------------------------------------
(* The handlers of seat requests *)

\* A request that got past its checks: the room is in use and in order, and
\* the seat is taken.
LEMMA GrantedRoom ==
  ASSUME IInv, NEW w \in Workers, NEW op \in SeatOps, Granted(w, op)
  PROVE  /\ task[w].r \in RoomIds
         /\ RoomOK(MineRoom(w))
         /\ MineRoom(w) = room[task[w].r]
         /\ task[w].no \in Seats
         /\ Occupied(MineRoom(w), task[w].no)
         /\ MineRoom(w).status # "NULL"
<1>1. task[w].r \in RoomIds
  BY DEF IInv, TasksInv, TaskOK, Granted, At
<1>2. Occupied(MineRoom(w), task[w].no) /\ task[w].no \in Seats
  BY DEF Granted, Mine, MineRoom, Occupied
<1>3. RoomOK(MineRoom(w))
  BY <1>1 DEF IInv, RoomsInv, MineRoom
<1>4. MineRoom(w).status # "NULL"
  BY <1>2, <1>3 DEF RoomOK, HostedUntilReset
<1> QED BY <1>1, <1>2, <1>3, <1>4 DEF MineRoom

\* A handler that leaves the room in use and in order.
LEMMA BecomesStep ==
  ASSUME IInv, NEW w \in Workers, NEW op \in SeatOps, Granted(w, op),
         NEW y, RoomOK(y), Becomes(w, y),
         rooms' = IF y.status = "NULL" THEN rooms \ {task[w].r} ELSE rooms
  PROVE  IInv'
<1>1. RoomsInv'
  BY GrantedRoom, RoomStep DEF IInv, Becomes
<1>2. TasksInv'
  BY FinishStep DEF IInv, Becomes
<1>3. SessionsInv'
  BY SessionsStutter DEF IInv, Becomes
<1> QED BY <1>1, <1>2, <1>3 DEF IInv

\* Every handler of a seat request keeps the invariant.
LEMMA SeatHandlerInv ==
  ASSUME IInv, NEW w \in Workers, SeatHandler(w)
  PROVE  IInv'
<1> DEFINE x == MineRoom(w)
           no == task[w].no
<1>1. CASE Refuse(w)
  BY <1>1, RoomsStutter, FinishStep, SessionsStutter DEF IInv, Refuse
<1>2. CASE OnLeaveRoom(w)
  <2>1. Granted(w, "LeaveRoom") /\ "LeaveRoom" \in SeatOps
    BY <1>2 DEF OnLeaveRoom, SeatOps
  <2>2. RoomOK(x) /\ no \in Seats /\ Occupied(x, no)
    BY <2>1, GrantedRoom
  <2> DEFINE y == LeaveRoom(x, no, Online)
  <2>3. RoomOK(y) /\ (y.status = "NULL" <=> Disbands(x, no, Online))
    BY <2>2, LeaveRoomOK
  <2>4. Becomes(w, y) /\ Unregister(w, Disbands(x, no, Online))
    BY <1>2 DEF OnLeaveRoom
  <2> HIDE DEF y, x, no
  <2> QED BY <2>1, <2>3, <2>4, BecomesStep DEF Unregister
<1>3. CASE OnRoomReady(w)
  <2>1. Granted(w, "RoomReady") /\ "RoomReady" \in SeatOps
    BY <1>3 DEF OnRoomReady, SeatOps
  <2>2. x.status = "READY"
    BY <2>1 DEF Granted, At, Allowed, ReadyAllowed, MineRoom
  <2>3. RoomOK(SetReady(x, no, TRUE)) /\ SetReady(x, no, TRUE).status = "READY"
    BY <2>1, <2>2, GrantedRoom, SetReadyOK
  <2>4. Becomes(w, SetReady(x, no, TRUE)) /\ UNCHANGED rooms
    BY <1>3 DEF OnRoomReady
  <2> HIDE DEF x, no
  <2> QED BY <2>1, <2>3, <2>4, BecomesStep
<1>4. CASE OnRoomUnReady(w)
  <2>1. Granted(w, "RoomUnReady") /\ "RoomUnReady" \in SeatOps
    BY <1>4 DEF OnRoomUnReady, SeatOps
  <2>2. x.status = "READY"
    BY <2>1 DEF Granted, At, Allowed, UnReadyAllowed, MineRoom
  <2>3. RoomOK(SetReady(x, no, FALSE)) /\ SetReady(x, no, FALSE).status = "READY"
    BY <2>1, <2>2, GrantedRoom, SetReadyOK
  <2>4. Becomes(w, SetReady(x, no, FALSE)) /\ UNCHANGED rooms
    BY <1>4 DEF OnRoomUnReady
  <2> HIDE DEF x, no
  <2> QED BY <2>1, <2>3, <2>4, BecomesStep
<1>5. CASE OnRoomStart(w)
  <2> DEFINE y == [SetReady(x, no, TRUE) EXCEPT !.status = "START",
                                                !.menu_index = "START_GAME"]
  <2>1. Granted(w, "RoomStart") /\ "RoomStart" \in SeatOps
    BY <1>5 DEF OnRoomStart, SeatOps
  <2>2. StartAllowed(x, 0) /\ no = 0
    BY <2>1 DEF Granted, At, Allowed, StartAllowed, MineRoom
  <2>3. RoomOK(y) /\ y.status = "START"
    BY <2>1, <2>2, GrantedRoom, RoomStartOK, Zenon
  <2>4. Becomes(w, y) /\ UNCHANGED rooms
    BY <1>5, Zenon DEF OnRoomStart
  <2> HIDE DEF y
  <2> QED BY <2>1, <2>3, <2>4, BecomesStep
<1>6. CASE OnMenuSwitch(w)
  <2> DEFINE y == [x EXCEPT !.menu_index = task[w].index]
  <2>1. Granted(w, "MenuSwitch") /\ "MenuSwitch" \in SeatOps
    BY <1>6 DEF OnMenuSwitch, SeatOps
  <2>2. x.status = "START"
    BY <2>1 DEF Granted, At, Allowed, MenuAllowed, MineRoom
  <2>3. task[w].index \in MenuIndex \ {"NONE"}
    BY <2>1 DEF IInv, TasksInv, TaskOK, Granted, At, Task
  <2>4. RoomOK(y) /\ y.status = "START"
    BY <2>1, <2>2, <2>3, GrantedRoom, MenuSwitchOK, Zenon
  <2>5. Becomes(w, y) /\ UNCHANGED rooms
    BY <1>6, Zenon DEF OnMenuSwitch
  <2> HIDE DEF y
  <2> QED BY <2>1, <2>4, <2>5, BecomesStep
<1>7. CASE OnMenuChoose(w)
  <2> DEFINE mode == IF task[w].index = "START_GAME" THEN "COMMON" ELSE "MAP_EDIT"
  <2>1. Granted(w, "MenuChoose") /\ "MenuChoose" \in SeatOps
    BY <1>7 DEF OnMenuChoose, SeatOps
  <2>2. x.status = "START"
    BY <2>1 DEF Granted, At, Allowed, MenuAllowed, MineRoom
  <2>3. mode \in {"COMMON", "MAP_EDIT"}
    OBVIOUS
  <2>4. Becomes(w, StartGame(x, mode)) /\ UNCHANGED rooms
    BY <1>7 DEF OnMenuChoose
  <2> HIDE DEF mode, x
  <2>5. RoomOK(StartGame(x, mode)) /\ StartGame(x, mode).status = "GAME"
    BY <2>1, <2>2, <2>3, GrantedRoom, StartGameOK DEF x
  <2> QED BY <2>1, <2>4, <2>5, BecomesStep
<1>8. CASE OnMenuBack(w)
  <2> DEFINE y == ClearReady([x EXCEPT !.status = "READY", !.menu_index = "NONE"])
  <2>1. Granted(w, "MenuBack") /\ "MenuBack" \in SeatOps
    BY <1>8 DEF OnMenuBack, SeatOps
  <2>2. x.status = "START"
    BY <2>1 DEF Granted, At, Allowed, MenuAllowed, MineRoom
  <2>3. RoomOK(y) /\ y.status = "READY"
    BY <2>1, <2>2, GrantedRoom, MenuBackOK, Zenon
  <2>4. Becomes(w, y) /\ UNCHANGED rooms
    BY <1>8, Zenon DEF OnMenuBack
  <2> HIDE DEF y
  <2> QED BY <2>1, <2>3, <2>4, BecomesStep
<1>9. CASE OnGameMapEditFinished(w)
  <2>1. Granted(w, "GameMapEditFinished") /\ "GameMapEditFinished" \in SeatOps
    BY <1>9 DEF OnGameMapEditFinished, SeatOps
  <2>2. x.status = "GAME"
    BY <2>1 DEF Granted, At, Allowed, MapEditAllowed, MineRoom
  <2>3. RoomOK(RestartGame(x)) /\ RestartGame(x).status = "GAME"
    BY <2>1, <2>2, GrantedRoom, RestartGameOK
  <2>4. Becomes(w, RestartGame(x)) /\ UNCHANGED rooms
    BY <1>9 DEF OnGameMapEditFinished
  <2> QED BY <2>1, <2>3, <2>4, BecomesStep
<1>10. CASE OnGameFrame(w)
  <2> DEFINE y == [x EXCEPT !.frame_ope = @ \union {task[w].no}]
  <2>1. Granted(w, "GameFrame") /\ "GameFrame" \in SeatOps
    BY <1>10 DEF OnGameFrame, SeatOps
  <2>2. x.status = "GAME"
    BY <2>1 DEF Granted, At, Allowed, FrameAllowed, MineRoom
  <2>3. RoomOK(y) /\ y.status = "GAME"
    BY <2>1, <2>2, GrantedRoom, GameFrameOK, Zenon
  <2>4. Becomes(w, y) /\ UNCHANGED rooms
    BY <1>10, Zenon DEF OnGameFrame
  <2> HIDE DEF y
  <2> QED BY <2>1, <2>3, <2>4, BecomesStep
<1>11. CASE OnGameEnd(w)
  <2> DEFINE ended == BackToReady(ClearReady(x))
             away == OfflineOthers(ended, task[w].u, Online)
             at == ended.player_info[FirstOf(away)].number
  <2>1. Granted(w, "GameEnd") /\ "GameEnd" \in SeatOps
    BY <1>11 DEF OnGameEnd, SeatOps
  <2>2. x.status = "GAME"
    BY <2>1 DEF Granted, At, Allowed, EndAllowed, MineRoom
  <2>3. RoomOK(ended) /\ ended.status = "READY"
    BY <2>1, <2>2, GrantedRoom, EndedOK
  <2>4. \/ Becomes(w, ended) /\ UNCHANGED rooms
        \/ /\ away # {}
           /\ Becomes(w, LeaveRoom(ended, at, Online))
           /\ Unregister(w, Disbands(ended, at, Online))
    BY <1>11 DEF OnGameEnd
  <2> HIDE DEF ended
  <2>5. CASE Becomes(w, ended) /\ UNCHANGED rooms
    BY <2>1, <2>3, <2>5, BecomesStep
  <2>6. CASE /\ away # {}
             /\ Becomes(w, LeaveRoom(ended, at, Online))
             /\ Unregister(w, Disbands(ended, at, Online))
    <3>1. FirstOf(away) \in away /\ away \subseteq Seats
      BY <2>6, FirstOfSeats DEF OfflineOthers
    <3>2. at \in Seats /\ Occupied(ended, at)
      BY <2>3, <3>1 DEF OfflineOthers, RoomOK, NumbersAreSeats
    <3> DEFINE y == LeaveRoom(ended, at, Online)
    <3>3. RoomOK(y) /\ (y.status = "NULL" <=> Disbands(ended, at, Online))
      BY <2>3, <3>2, LeaveRoomOK
    <3> HIDE DEF y, at
    <3> QED BY <2>1, <2>6, <3>3, BecomesStep DEF Unregister, y
  <2> QED BY <2>4, <2>5, <2>6
<1> QED BY <1>1, <1>2, <1>3, <1>4, <1>5, <1>6, <1>7, <1>8, <1>9, <1>10, <1>11
     DEF SeatHandler

------------------------------------------------------------------------------
(* The other handlers *)

\* A task of the room's mutex that holds a room.
LEMMA HeldRoom ==
  ASSUME IInv, NEW w \in Workers, NEW op \in {"JoinRoom", "Login", "Close"},
         At(w, op, "apply")
  PROVE  /\ task[w].r \in RoomIds
         /\ RoomOK(MineRoom(w))
         /\ MineRoom(w) = room[task[w].r]
  BY DEF IInv, RoomsInv, TasksInv, TaskOK, At, MineRoom

\* OnCreateRoom and OnJoinRoom keep the invariant.
LEMMA HallHandlerInv ==
  ASSUME IInv, NEW w \in Workers, HallHandler(w)
  PROVE  IInv'
<1>1. TasksInv'
  BY FinishStep DEF IInv, HallHandler, OnCreateRoom, OnJoinRoom
<1>2. SessionsInv'
  BY SessionsStutter DEF IInv, HallHandler, OnCreateRoom, OnJoinRoom
<1>3. task[w] \in Task
  BY DEF IInv, TasksInv
<1>4. CASE OnCreateRoom(w)
  <2>1. CASE next_room > MaxRoom
    BY <1>4, <2>1, <1>1, <1>2, RoomsStutter DEF IInv, OnCreateRoom
  <2>2. CASE ~(next_room > MaxRoom)
    <3> DEFINE x == room[next_room]
               y == SetPlayer([x EXCEPT !.status = "READY"],
                              [NoPlayer EXCEPT !.user_id = task[w].u])
    <3>1. next_room \in RoomIds
      BY <2>2, ServerAssumption DEF IInv, RoomsInv, RoomIds
    <3>2. next_room \notin rooms /\ RoomOK(x) /\ x.status = "NULL"
      BY <3>1, ServerAssumption DEF IInv, RoomsInv, RoomIds
    <3>3. task[w].u \in Users /\ task[w].u # NoUser
      BY <1>3, <1>4 DEF IInv, TasksInv, TaskOK, OnCreateRoom, At, Task
    <3>4. RoomOK(y) /\ y.status = "READY"
      BY <3>2, <3>3, CreateOK, Zenon
    <3>5. /\ room' = [room EXCEPT ![next_room] = y]
          /\ rooms' = rooms \union {next_room}
          /\ next_room' = next_room + 1
      BY <1>4, <2>2, Zenon DEF OnCreateRoom, RoomsInv, IInv
    <3> HIDE DEF x, y
    <3>6. /\ room' \in [RoomIds -> RoomType] /\ rooms' \subseteq RoomIds
          /\ next_room' \in 1 .. MaxRoom + 1
      BY <2>2, <3>1, <3>4, <3>5, ServerAssumption DEF IInv, RoomsInv, RoomOK
    <3>7. ASSUME NEW q \in RoomIds
          PROVE  /\ RoomOK(room'[q])
                 /\ q \in rooms' <=> room'[q].status # "NULL"
                 /\ q \in rooms' => q < next_room'
      <4>1. CASE q = next_room
        BY <3>1, <3>4, <3>5, <4>1 DEF IInv, RoomsInv, RoomIds
      <4>2. CASE q # next_room
        BY <3>1, <3>5, <4>2, ServerAssumption DEF IInv, RoomsInv, RoomIds
      <4> QED BY <4>1, <4>2
    <3>8. RoomsInv'
      BY <3>6, <3>7 DEF RoomsInv, RoomOK
    <3> QED BY <1>1, <1>2, <3>8 DEF IInv
  <2> QED BY <2>1, <2>2
<1>5. CASE OnJoinRoom(w)
  <2> DEFINE x == MineRoom(w)
             y == SetPlayer(x, [number |-> FirstOf(FreeSeats(x)),
                                user_id |-> task[w].u, ready |-> FALSE])
  <2>1. At(w, "JoinRoom", "apply")
    BY <1>5 DEF OnJoinRoom
  <2>2. task[w].r \in RoomIds /\ RoomOK(x) /\ x = room[task[w].r]
    BY <2>1, HeldRoom
  <2>3. CASE Occupied(x, 0) /\ FreeSeats(x) # {}
    <3>1. task[w].u \in Users /\ task[w].u # NoUser
      BY <1>3, <2>1 DEF IInv, TasksInv, TaskOK, At, Task
    <3>2. RoomOK(y) /\ y.status = "READY"
      BY <2>2, <2>3, <3>1, JoinOK
    <3>3. room' = [room EXCEPT ![task[w].r] = y] /\ UNCHANGED <<rooms, next_room>>
      BY <1>5, <2>3 DEF OnJoinRoom
    <3>4. room[task[w].r].status # "NULL"
      BY <2>2, <2>3 DEF RoomOK, HostedUntilReset
    <3> HIDE DEF y
    <3>5. RoomsInv'
      BY <2>2, <3>2, <3>3, <3>4, RoomStep DEF IInv
    <3> QED BY <1>1, <1>2, <3>5 DEF IInv
  <2>4. CASE ~(Occupied(x, 0) /\ FreeSeats(x) # {})
    <3>1. UNCHANGED <<rooms, room, next_room>>
      BY <1>5, <2>4 DEF OnJoinRoom
    <3> QED BY <1>1, <1>2, <3>1, RoomsStutter DEF IInv
  <2> QED BY <2>3, <2>4
<1> QED BY <1>4, <1>5 DEF HallHandler

\* The stages of a login keep the invariant.
LEMMA LoginHandlerInv ==
  ASSUME IInv, NEW w \in Workers, LoginHandler(w)
  PROVE  IInv'
<1>0. task[w] \in Task /\ TaskOK(task[w]) /\ task \in [Workers -> Task]
  BY DEF IInv, TasksInv
<1>u. task[w].u \in Users \union {NoUser}
  BY <1>0 DEF Task
<1>1. CASE LoginBind(w)
  <2>1. TasksInv'
    BY <1>1, GotoStep DEF LoginBind, IInv
  <2>2. SessionsInv'
    BY <1>1, <1>u DEF LoginBind, IInv, SessionsInv
  <2> QED BY <1>1, <2>1, <2>2, RoomsStutter DEF LoginBind, IInv
<1>2. CASE LoginFind(w)
  <2>0. RoomsInv'
    BY <1>2, RoomsStutter DEF LoginFind, IInv
  <2>1. CASE Answer(w)
    <3>1. TasksInv'
      BY <2>1, FinishStep DEF Answer, IInv
    <3>2. task[w].u \in Users
      BY <1>0, <1>2, <1>u DEF LoginFind, At, TaskOK
    <3>3. SessionsInv'
      BY <1>2, <2>1, <3>2 DEF LoginFind, Answer, IInv, SessionsInv
    <3> QED BY <2>0, <3>1, <3>3 DEF IInv
  <2>2. ASSUME NEW r \in UserRooms(task[w].u), UNCHANGED answered,
               task' = [task EXCEPT ![w].pc = "apply", ![w].r = r]
        PROVE  IInv'
    <3> DEFINE t == [task[w] EXCEPT !.pc = "apply", !.r = r]
    <3>1. r \in RoomIds
      BY DEF IInv, RoomsInv, UserRooms
    <3>2. /\ t \in Task
          /\ t.op = task[w].op /\ t.u = task[w].u /\ t.r = r /\ t.pc = "apply"
          /\ t.index = task[w].index
      BY <1>0, <3>1, ZenonT(30) DEF Task
    <3>3. task' = [task EXCEPT ![w] = t]
      BY <1>0, <2>2, Zenon
    <3> HIDE DEF t
    <3>4. TaskOK(t)
      BY <1>0, <3>1, <3>2 DEF TaskOK
    <3>5. TasksInv'
      BY <3>3, <3>4, TaskStep DEF IInv
    <3>6. SessionsInv'
      BY <1>2, <2>2, SessionsStutter DEF LoginFind, IInv
    <3> QED BY <2>0, <3>5, <3>6 DEF IInv
  <2> QED BY <1>2, <2>1, <2>2 DEF LoginFind
<1>3. CASE LoginResume(w)
  <2> DEFINE x == MineRoom(w)
             y == SetGameFramePause(x, FALSE)
  <2>1. task[w].r \in RoomIds /\ RoomOK(x) /\ x = room[task[w].r]
    BY <1>3, HeldRoom DEF LoginResume
  <2>2. RoomsInv'
    <3>1. CASE x.status = "GAME"
      <4>1. RoomOK(y) /\ y.status = "GAME"
        BY <2>1, <3>1, PauseOK
      <4>2. room' = [room EXCEPT ![task[w].r] = y] /\ UNCHANGED <<rooms, next_room>>
        BY <1>3, <2>1, <3>1 DEF LoginResume
      <4> HIDE DEF y
      <4> QED BY <2>1, <3>1, <4>1, <4>2, RoomStep DEF IInv
    <3>2. CASE x.status # "GAME"
      BY <1>3, <3>2, RoomsStutter DEF LoginResume, IInv
    <3> QED BY <3>1, <3>2
  <2>3. TasksInv'
    BY <1>3, FinishStep DEF LoginResume, Answer, IInv
  <2>4. SessionsInv'
    BY <1>0, <1>3, <1>u DEF LoginResume, At, TaskOK, Answer, IInv, SessionsInv
  <2> QED BY <2>2, <2>3, <2>4 DEF IInv
<1> QED BY <1>1, <1>2, <1>3 DEF LoginHandler

\* The stages of OnSocketClose keep the invariant, the one that crashes too.
LEMMA CloseHandlerInv ==
  ASSUME IInv, NEW w \in Workers, CloseHandler(w)
  PROVE  IInv'
<1> DEFINE x == MineRoom(w)
<1>1. CASE ClosePause(w)
  <2> DEFINE y == SetGameFramePause(x, TRUE)
  <2>1. task[w].r \in RoomIds /\ RoomOK(x) /\ x = room[task[w].r]
    BY <1>1, HeldRoom DEF ClosePause
  <2>2. RoomsInv'
    <3>1. CASE SomeoneOnline(x, Online \ {task[w].u})
      BY <1>1, <3>1, RoomsStutter DEF ClosePause, IInv
    <3>2. CASE ~SomeoneOnline(x, Online \ {task[w].u})
      <4>0. x.status = "GAME"
        BY <1>1 DEF ClosePause, Resumable
      <4>1. RoomOK(y) /\ y.status = "GAME"
        BY <2>1, <4>0, PauseOK
      <4>2. room' = [room EXCEPT ![task[w].r] = y] /\ UNCHANGED <<rooms, next_room>>
        BY <1>1, <2>1, <3>2 DEF ClosePause
      <4> HIDE DEF y
      <4> QED BY <2>1, <4>0, <4>1, <4>2, RoomStep DEF IInv
    <3> QED BY <3>1, <3>2
  <2>3. TasksInv'
    BY <1>1, GotoStep DEF ClosePause, IInv
  <2>4. SessionsInv'
    BY <1>1, SessionsStutter DEF ClosePause, IInv
  <2> QED BY <2>2, <2>3, <2>4 DEF IInv
<1>2. CASE CloseLeave(w)
  <2> DEFINE mine == SeatsOf(x, task[w].u)
             no == x.player_info[FirstOf(mine)].number
             y == LeaveRoom(x, no, Online)
  <2>1. task[w].r \in RoomIds /\ RoomOK(x) /\ x = room[task[w].r]
    BY <1>2, HeldRoom DEF CloseLeave
  <2>2. CASE mine = {} \/ ~Occupied(x, no)
    <3>1. crashed' = TRUE
          /\ UNCHANGED <<rooms, room, next_room, task, users, next_user, answered, closes>>
      BY <1>2, <2>2 DEF CloseLeave
    <3>2. RoomsInv'
      BY <3>1, RoomsStutter DEF IInv
    <3>3. TasksInv'
      BY <3>1 DEF IInv, TasksInv
    <3>4. SessionsInv'
      <4>1. crashed' \in BOOLEAN
        BY <3>1, Zenon
      <4> QED BY <3>1, <4>1 DEF IInv, SessionsInv
    <3> QED BY <3>2, <3>3, <3>4 DEF IInv
  <2>3. CASE ~(mine = {} \/ ~Occupied(x, no))
    <3>1. no \in Seats /\ Occupied(x, no)
      BY <2>3 DEF Occupied
    <3>2. RoomOK(y) /\ (y.status = "NULL" <=> Disbands(x, no, Online))
      BY <2>1, <3>1, LeaveRoomOK
    <3>3. x.status # "NULL"
      BY <2>1, <3>1 DEF RoomOK, HostedUntilReset
    <3>4. /\ room' = [room EXCEPT ![task[w].r] = y]
          /\ Unregister(w, Disbands(x, no, Online))
          /\ Goto(w, "unbind")
          /\ UNCHANGED <<users, next_room, next_user, answered, closes, crashed>>
      BY <1>2, <2>3 DEF CloseLeave
    <3> HIDE DEF y, x, no
    <3>5. RoomsInv'
      BY <2>1, <3>2, <3>3, <3>4, RoomStep DEF IInv, Unregister
    <3>6. TasksInv'
      BY <3>4, GotoStep DEF IInv
    <3>7. SessionsInv'
      BY <3>4, SessionsStutter DEF IInv
    <3> QED BY <3>5, <3>6, <3>7 DEF IInv
  <2> QED BY <2>2, <2>3
<1>3. CASE CloseUnbind(w)
  <2>1. RoomsInv'
    BY <1>3, RoomsStutter DEF CloseUnbind, IInv
  <2>2. TasksInv'
    BY <1>3, FinishStep DEF CloseUnbind, IInv
  <2>3. SessionsInv'
    BY <1>3 DEF CloseUnbind, IInv, SessionsInv
  <2> QED BY <2>1, <2>2, <2>3 DEF IInv
<1> QED BY <1>1, <1>2, <1>3 DEF CloseHandler

------------------------------------------------------------------------------
(* Requests, events and the frame thread *)

\* Starting a request or a close event keeps the invariant.
LEMMA RequestInv ==
  ASSUME IInv, NEW w \in Workers, Request(w)
  PROVE  IInv'
<1> USE DEF IInv
<1>0. NoUser \in Users \union {NoUser} /\ 0 \in Seats /\ 0 \in 0 .. MaxFrame
      /\ \A s \in Sessions : users[s] \in Users \union {NoUser}
  BY TwoSeats, FrameZero DEF SessionsInv
<1>1. ASSUME NEW s \in Sessions, SeatRequest(w, s)
      PROVE  IInv'
  <2>1. PICK op \in Requests, r \in rooms, no \in Seats :
         \E index \in IF op \in {"MenuSwitch", "MenuChoose"}
                      THEN {"START_GAME", "MAP_EDIT"} ELSE {"NONE"},
            frame \in IF op = "GameFrame" THEN 0 .. MaxFrame ELSE {0} :
              Start(w, [op |-> op, pc |-> "apply", s |-> s, u |-> users[s], r |-> r,
                        no |-> no, index |-> index, frame |-> frame])
    BY <1>1 DEF SeatRequest
  <2>2. PICK index \in IF op \in {"MenuSwitch", "MenuChoose"}
                       THEN {"START_GAME", "MAP_EDIT"} ELSE {"NONE"},
             frame \in IF op = "GameFrame" THEN 0 .. MaxFrame ELSE {0} :
               Start(w, [op |-> op, pc |-> "apply", s |-> s, u |-> users[s], r |-> r,
                         no |-> no, index |-> index, frame |-> frame])
    BY <2>1
  <2> DEFINE t == [op |-> op, pc |-> "apply", s |-> s, u |-> users[s], r |-> r,
                   no |-> no, index |-> index, frame |-> frame]
  <2>3. /\ op \in SeatOps /\ r \in RoomIds
        /\ index \in MenuIndex /\ frame \in 0 .. MaxFrame
        /\ op = "MenuSwitch" => index # "NONE"
    BY <2>2, <1>0, ServerAssumption DEF RoomsInv, MenuIndex
  <2>4. t \in Task
    BY <2>3, <1>0 DEF Task
  <2>5. TaskOK(t)
    BY <2>3, <2>4 DEF TaskOK, SeatOps
  <2> HIDE DEF t
  <2>6. TasksInv'
    BY <2>2, <2>5, StartStep DEF t
  <2> QED BY <1>1, <2>6, RoomsStutter, SessionsStutter DEF SeatRequest
<1>2. ASSUME NEW s \in Sessions, HallRequest(w, s)
      PROVE  IInv'
  <2>1. PICK h \in {<<"CreateRoom", 0>>} \union ({"JoinRoom"} \X rooms) :
          Start(w, [Idle EXCEPT !.op = h[1], !.pc = "apply", !.s = s,
                                !.u = users[s], !.r = h[2]])
    BY <1>2 DEF HallRequest
  <2> DEFINE t == [Idle EXCEPT !.op = h[1], !.pc = "apply", !.s = s,
                               !.u = users[s], !.r = h[2]]
  <2>2. /\ h[1] \in {"CreateRoom", "JoinRoom"} /\ h[2] \in RoomIds \union {0}
        /\ h[1] = "JoinRoom" => h[2] \in RoomIds
        /\ users[s] # NoUser
    BY <1>2, <2>1 DEF HallRequest, RoomsInv
  <2>3. /\ t \in Task
        /\ t.op = h[1] /\ t.u = users[s] /\ t.r = h[2]
    <3>1. Idle \in Task
      BY IdleOK DEF TaskOK
    <3>2. h[1] \in SeatOps \union {"Idle", "Login", "CreateRoom", "JoinRoom", "Close"}
      BY <2>2
    <3>3. s \in Sessions \union {NoSession}
      OBVIOUS
    <3> QED BY <1>0, <2>2, <3>1, <3>2, <3>3, ZenonT(30) DEF Task
  <2> HIDE DEF t
  <2>4. TaskOK(t)
    BY <2>2, <2>3 DEF TaskOK, SeatOps
  <2>5. TasksInv'
    BY <2>1, <2>4, StartStep DEF t
  <2> QED BY <1>2, <2>5, RoomsStutter, SessionsStutter DEF HallRequest
<1>3. ASSUME NEW s \in Sessions, LoginRequest(w, s)
      PROVE  IInv'
  <2>1. PICK u \in answered \union {NoUser} :
          /\ ~LoginRefused(s, u)
          /\ Start(w, [Idle EXCEPT !.op = "Login", !.pc = "bind", !.s = s,
                                   !.u = LoginUser(s, u)])
          /\ next_user' = IF LoginUser(s, u) = next_user THEN next_user + 1
                                                         ELSE next_user
    BY <1>3 DEF LoginRequest
  <2> DEFINE v == LoginUser(s, u)
             t == [Idle EXCEPT !.op = "Login", !.pc = "bind", !.s = s, !.u = v]
  <2>2. v \in Users /\ v # NoUser
    <3>1. v \in 1 .. MaxUser + 1
      BY <1>0, ServerAssumption DEF LoginUser, SessionsInv, Users, NoUser
    <3>2. ~(v > MaxUser)
      BY <2>1 DEF LoginRefused
    <3> HIDE DEF v
    <3> QED BY <3>1, <3>2, ServerAssumption DEF Users, NoUser
  <2>3. next_user' \in 1 .. MaxUser + 1
    BY <2>1, <2>2, ServerAssumption DEF SessionsInv, Users
  <2> HIDE DEF v
  <2>4. t \in Task /\ t.op = "Login" /\ t.u = v /\ t.pc = "bind"
    <3>1. Idle \in Task
      BY IdleOK DEF TaskOK
    <3>2. s \in Sessions \union {NoSession} /\ v \in Users \union {NoUser}
      BY <2>2
    <3> QED BY <3>1, <3>2, ZenonT(30) DEF Task
  <2> HIDE DEF t
  <2>5. TaskOK(t)
    BY <2>2, <2>4 DEF TaskOK, SeatOps
  <2>6. TasksInv'
    BY <2>1, <2>5, StartStep DEF t, v
  <2>7. SessionsInv'
    BY <1>3, <2>3 DEF LoginRequest, SessionsInv
  <2> QED BY <1>3, <2>6, <2>7, RoomsStutter DEF LoginRequest
<1>4. ASSUME NEW s \in Sessions, CloseStart(w, s)
      PROVE  IInv'
  <2> DEFINE c == [Idle EXCEPT !.op = "Close", !.s = s, !.u = users[s]]
             t1 == [c EXCEPT !.pc = "unbind"]
  <2>0. Idle \in Task
    BY IdleOK DEF TaskOK
  <2>1. c \in Task /\ c.op = "Close"
    <3>1. s \in Sessions \union {NoSession}
      OBVIOUS
    <3> QED BY <1>0, <2>0, <3>1, ZenonT(30) DEF Task
  <2> HIDE DEF c
  <2>2. t1 \in Task /\ t1.op = "Close" /\ t1.pc = "unbind"
    BY <2>1, ZenonT(30) DEF Task
  <2> HIDE DEF t1
  <2>3. TaskOK(t1)
    BY <2>2 DEF TaskOK, SeatOps
  <2>4. TasksInv'
    <3>1. CASE Start(w, t1)
      BY <2>3, <3>1, StartStep
    <3>2. ASSUME NEW r \in UserRooms(users[s]),
                 Start(w, [c EXCEPT !.pc = "apply", !.r = r])
          PROVE  TasksInv'
      <4> DEFINE t2 == [c EXCEPT !.pc = "apply", !.r = r]
      <4>1. r \in RoomIds
        BY DEF UserRooms, RoomsInv
      <4>2. t2 \in Task /\ t2.op = "Close" /\ t2.r = r
        BY <2>1, <4>1, ZenonT(30) DEF Task
      <4> HIDE DEF t2
      <4>3. TaskOK(t2)
        BY <4>1, <4>2 DEF TaskOK, SeatOps
      <4> QED BY <3>2, <4>3, StartStep DEF t2
    <3> QED BY <1>4, <3>1, <3>2, Zenon DEF CloseStart, c, t1
  <2>5. SessionsInv'
    <3>1. closes[s] < MaxClose /\ closes' = [closes EXCEPT ![s] = @ + 1]
      BY <1>4, Zenon DEF CloseStart
    <3>2. closes[s] \in 0 .. MaxClose
      BY DEF SessionsInv
    <3>3. closes[s] + 1 \in 0 .. MaxClose
      BY <3>1, <3>2, ServerAssumption
    <3>4. UNCHANGED <<users, next_user, answered, crashed>>
      BY <1>4, Zenon DEF CloseStart
    <3> QED BY <3>1, <3>3, <3>4 DEF SessionsInv
  <2> QED BY <1>4, <2>4, <2>5, RoomsStutter DEF CloseStart
<1> QED BY <1>1, <1>2, <1>3, <1>4 DEF Request

\* The frame thread keeps the invariant.
LEMMA FrameThreadInv ==
  ASSUME IInv, FrameThread
  PROVE  IInv'
<1>1. PICK r \in RoomIds : TimerExpires(r) \/ FrameTick(r)
  BY DEF FrameThread
<1> DEFINE x == room[r]
<1>2. RoomOK(x) /\ room \in [RoomIds -> RoomType] /\ (r \in rooms <=> x.status # "NULL")
  BY DEF IInv, RoomsInv
<1>3. PICK y : RoomOK(y) /\ y.status = x.status /\ room' = [room EXCEPT ![r] = y]
  <2>1. CASE TimerExpires(r)
    <3> DEFINE z == [x EXCEPT !.armed = FALSE, !.queued = TRUE]
    <3>1. RoomOK(z) /\ z.status = x.status
      BY <1>2, ExpiredOK, Zenon
    <3>2. room' = [room EXCEPT ![r] = z]
      BY <1>2, <2>1, Zenon DEF TimerExpires
    <3> HIDE DEF z
    <3> QED BY <3>1, <3>2
  <2>2. CASE FrameTick(r)
    <3>1. PICK late \in BOOLEAN :
            room' = [room EXCEPT ![r] = OnGameFrameSync([@ EXCEPT !.queued = FALSE], late)]
      BY <2>2 DEF FrameTick
    <3> DEFINE z == OnGameFrameSync([x EXCEPT !.queued = FALSE], late)
    <3>2. RoomOK(z) /\ z.status = x.status
      BY <1>2, <2>2, TickOK, Zenon DEF FrameTick
    <3>3. room' = [room EXCEPT ![r] = z]
      BY <1>2, <3>1, Zenon
    <3> HIDE DEF z
    <3> QED BY <3>2, <3>3
  <2> QED BY <1>1, <2>1, <2>2
<1>4. UNCHANGED <<users, rooms, next_room, next_user, answered, closes, task, crashed>>
  BY <1>1 DEF TimerExpires, FrameTick
<1> HIDE DEF x
<1>5. RoomsInv'
  <2>1. rooms' = IF y.status = "NULL" THEN rooms \ {r} ELSE rooms
    BY <1>2, <1>3, <1>4
  <2> QED BY <1>3, <1>4, <2>1, RoomStep DEF IInv, x
<1>6. TasksInv'
  BY <1>4 DEF IInv, TasksInv, TaskOK
<1>7. SessionsInv'
  BY <1>4, SessionsStutter DEF IInv
<1> QED BY <1>5, <1>6, <1>7 DEF IInv

\* Every step keeps the invariant.
LEMMA NextInv == IInv /\ [Next]_vars => IInv'
<1> SUFFICES ASSUME IInv, [Next]_vars PROVE IInv'
  OBVIOUS
<1>1. ASSUME NEW w \in Workers, Worker(w) PROVE IInv'
  BY <1>1, RequestInv, SeatHandlerInv, HallHandlerInv, LoginHandlerInv, CloseHandlerInv
  DEF Worker
<1>2. CASE FrameThread
  BY <1>2, FrameThreadInv
<1>3. CASE UNCHANGED vars
  <2>1. RoomsInv' /\ SessionsInv'
    BY <1>3, RoomsStutter, SessionsStutter DEF vars, IInv
  <2>2. TasksInv'
    BY <1>3 DEF vars, IInv, TasksInv, TaskOK
  <2> QED BY <2>1, <2>2 DEF IInv
<1> QED BY <1>1, <1>2, <1>3 DEF Next

------------------------------------------------------------------------------
(* Theorems *)

\* The inductive invariant holds in every reachable state.
THEOREM Invariance == Spec => []IInv
  BY InitInv, NextInv, PTL DEF Spec

\* Every variable keeps its type.
THEOREM TypeCorrect == Spec => []TypeOK
<1>1. IInv => TypeOK
  BY DEF IInv, RoomsInv, TasksInv, SessionsInv, TypeOK
<1> QED BY <1>1, Invariance, PTL

\* No room is in the menu or in a game with a seat empty or a player not ready.
THEOREM StartedRoomFullThm == Spec => []StartedRoomFull
<1>1. IInv => StartedRoomFull
  BY DEF IInv, RoomsInv, RoomOK, StartedRoomFull
<1> QED BY <1>1, Invariance, PTL

\* rooms_ holds exactly the rooms that have a host; the others are reset.
THEOREM RegisteredIsHostedThm == Spec => []RegisteredIsHosted
<1>1. IInv => RegisteredIsHosted
  BY DEF IInv, RoomsInv, RoomOK, RegisteredIsHosted, HostedUntilReset
<1> QED BY <1>1, Invariance, PTL

\* A player's number is its seat.
THEOREM SeatNumbersThm == Spec => []SeatNumbers
<1>1. IInv => SeatNumbers
  BY DEF IInv, RoomsInv, RoomOK, SeatNumbers
<1> QED BY <1>1, Invariance, PTL

\* The frame clock runs exactly in games and is never lost.
THEOREM ClockRunsThm == Spec => []ClockRuns
<1>1. IInv => ClockRuns
  BY DEF IInv, RoomsInv, RoomOK, ClockRuns
<1> QED BY <1>1, Invariance, PTL

\* Mode and menu fit the status.
THEOREM ModeOfStatusThm == Spec => []ModeOfStatus
<1>1. IInv => ModeOfStatus
  BY DEF IInv, RoomsInv, RoomOK, ModeOfStatus
<1> QED BY <1>1, Invariance, PTL
------------------------------------------------------------------------------
(* The action properties: what no step of GameServer does to a game, for   *)
(* every number of workers, sessions, rooms and users, from IInv.           *)

\* A room x goes on as y: the frame numbers run on unless the game ends or its
\* map editing does, and a game that goes on keeps its players.
GoesOn(x, y) ==
    /\ \/ y.frame_no \in {x.frame_no, x.frame_no + 1}
       \/ /\ y.frame_no = 0
          /\ \/ y.status # "GAME"
             \/ x.game_mode = "MAP_EDIT" /\ y.game_mode = "COMMON"
    /\ x.status = "GAME" /\ y.status = "GAME" =>
        \A i \in Seats : y.player_info[i].user_id = x.player_info[i].user_id

RoomsGoOn == \A r \in RoomIds : GoesOn(room[r], room'[r])

------------------------------------------------------------------------------
(* One room *)

\* A room in order that is in no game has no frames.
LEMMA NoGameGoesOn ==
  ASSUME NEW x, NEW y, RoomOK(y), y.status # "GAME"
  PROVE  GoesOn(x, y)
<1>1. y.frame_running = FALSE /\ y.frame_no = 0
  BY DEF RoomOK, ClockFollowsGame, RoomType
<1> QED BY <1>1 DEF GoesOn

\* A game in which neither the players nor the frame number change.
LEMMA SameGameGoesOn ==
  ASSUME NEW x, NEW y, y.player_info = x.player_info, y.frame_no = x.frame_no
  PROVE  GoesOn(x, y)
  BY DEF GoesOn

\* A game starts with the frame number of a room without a game.
LEMMA StartGameGoesOn ==
  ASSUME NEW x, RoomOK(x), x.status = "START", NEW mode \in {"COMMON", "MAP_EDIT"}
  PROVE  GoesOn(x, StartGame(x, mode))
<1> DEFINE m == [x EXCEPT !.status = "GAME", !.game_mode = mode,
                          !.support_dxxw = (mode = "COMMON")]
<1>1. m \in RoomType /\ m.player_info = x.player_info /\ m.frame_no = x.frame_no
  BY ZenonT(30) DEF RoomType, RoomOK, RoomStatus, GameMode
<1>2. StartGame(x, mode) = StartGameFrameTimer(m)
  BY DEF StartGame
<1> DEFINE y == StartGame(x, mode)
<1>3. y.player_info = x.player_info /\ y.frame_no = x.frame_no
  <2> HIDE DEF m, y
  <2>1. y = StartGameFrameTimer(m)
    BY <1>2 DEF y
  <2> QED BY <1>1, <2>1, StartFields, Zenon
<1> HIDE DEF y
<1> QED BY <1>3, SameGameGoesOn DEF y

\* The map editor gives way to a common game of the same players, at frame 0.
LEMMA RestartGameGoesOn ==
  ASSUME NEW x, RoomOK(x), x.game_mode = "MAP_EDIT"
  PROVE  GoesOn(x, RestartGame(x))
<1> DEFINE h == StopGameFrameTimer(x)
           m == [h EXCEPT !.game_mode = "COMMON"]
           y == RestartGame(x)
<1>1. h \in RoomType /\ h.player_info = x.player_info /\ h.frame_no = 0
  BY StopFields DEF RoomOK
<1>2. /\ m \in RoomType /\ m.player_info = x.player_info /\ m.frame_no = 0
      /\ m.game_mode = "COMMON"
  <2> HIDE DEF h
  <2> QED BY <1>1, ZenonT(30) DEF RoomType, GameMode
<1>3. y = StartGameFrameTimer(m)
  BY DEF RestartGame
<1>4. y.player_info = x.player_info /\ y.frame_no = 0 /\ y.game_mode = "COMMON"
  <2> HIDE DEF m, y
  <2> QED BY <1>2, <1>3, StartFields
<1> HIDE DEF y
<1> QED BY <1>4 DEF GoesOn, y

\* Pausing and resuming count no frame.
LEMMA PauseGoesOn ==
  ASSUME NEW x, RoomOK(x), NEW pause \in BOOLEAN
  PROVE  GoesOn(x, SetGameFramePause(x, pause))
<1>0. x \in RoomType
  BY DEF RoomOK
<1>1. CASE pause
  <2> DEFINE y == [x EXCEPT !.frame_pause = TRUE]
  <2>1. y.player_info = x.player_info /\ y.frame_no = x.frame_no
    BY <1>0, ZenonT(30) DEF RoomType
  <2>2. SetGameFramePause(x, pause) = y
    BY <1>1 DEF SetGameFramePause
  <2> HIDE DEF y
  <2> QED BY <2>1, <2>2, SameGameGoesOn
<1>2. CASE ~pause
  <2> DEFINE y == StartGameFrameTimer(x)
  <2>1. y.player_info = x.player_info /\ y.frame_no = x.frame_no
    BY <1>0, StartFields
  <2>2. SetGameFramePause(x, pause) = y
    BY <1>2 DEF SetGameFramePause
  <2> HIDE DEF y
  <2> QED BY <2>1, <2>2, SameGameGoesOn
<1> QED BY <1>1, <1>2

\* A frame adds one or none.
LEMMA TickGoesOn ==
  ASSUME NEW x, RoomOK(x), NEW late \in BOOLEAN
  PROVE  GoesOn(x, OnGameFrameSync([x EXCEPT !.queued = FALSE], late))
<1> DEFINE m == [x EXCEPT !.queued = FALSE]
           sent == [m EXCEPT !.frame_no = @ + 1, !.frame_ope = {}]
           y == OnGameFrameSync(m, late)
<1>1. m \in RoomType /\ m.player_info = x.player_info /\ m.frame_no = x.frame_no
  BY ZenonT(30) DEF RoomOK, RoomType
<1> HIDE DEF m
<1>2. sent.player_info = m.player_info /\ sent.frame_no = m.frame_no + 1
  BY <1>1, ZenonT(30) DEF RoomType
<1>3. \A z : z \in {m, sent} =>
        /\ ArmTimer(z).player_info = z.player_info
        /\ ArmTimer(z).frame_no = z.frame_no
  BY <1>1, ZenonT(30) DEF ArmTimer, RoomType
<1> HIDE DEF sent
<1>4. y \in {m, ArmTimer(m), ArmTimer(sent)}
  BY DEF OnGameFrameSync, sent
<1>5. y.player_info = x.player_info /\ y.frame_no \in {x.frame_no, x.frame_no + 1}
  BY <1>1, <1>2, <1>3, <1>4
<1> HIDE DEF y
<1> QED BY <1>5 DEF GoesOn, y, m

\* Who leaves a room ends its game.
LEMMA LeaveRoomEnds ==
  ASSUME NEW x, RoomOK(x), NEW no \in Seats, Occupied(x, no), NEW online
  PROVE  LeaveRoom(x, no, online).status # "GAME"
<1> DEFINE left == VacateSeat(x, no)
<1>1. /\ left \in RoomType
      /\ ~(no = 0 /\ Guests(x) = {}) => NumbersAreSeats(left) /\ Occupied(left, 0)
  BY VacateSeatOK, Zenon
<1> HIDE DEF left
<1>2. CASE Disbands(x, no, online)
  <2>1. LeaveRoom(x, no, online) = ResetRoom(left)
    BY <1>2 DEF LeaveRoom, left
  <2> QED BY <1>1, <2>1, ResetRoomOK
<1>3. CASE ~Disbands(x, no, online)
  <2>1. LeaveRoom(x, no, online) = BackToReady(left)
    BY <1>3 DEF LeaveRoom, left
  <2>2. NumbersAreSeats(left) /\ Occupied(left, 0)
    BY <1>1, <1>3 DEF Disbands
  <2> QED BY <1>1, <2>1, <2>2, BackToReadyOK
<1> QED BY <1>2, <1>3
------------------------------------------------------------------------------
(* All rooms *)

\* A step that changes no room.
LEMMA RoomsSame == room' = room => RoomsGoOn
  BY SameGameGoesOn DEF RoomsGoOn

\* A step that changes one room.
LEMMA OneRoom ==
  ASSUME RoomsInv, NEW r \in RoomIds, NEW y,
         room' = [room EXCEPT ![r] = y], GoesOn(room[r], y)
  PROVE  RoomsGoOn
<1>1. room'[r] = y /\ \A q \in RoomIds \ {r} : room'[q] = room[q]
  BY DEF RoomsInv
<1>2. \A q \in RoomIds \ {r} : GoesOn(room[q], room'[q])
  BY <1>1, SameGameGoesOn
<1> QED BY <1>1, <1>2 DEF RoomsGoOn

\* A step after which the one room it changes is in no game.
LEMMA OneRoomEnds ==
  ASSUME RoomsInv, RoomsInv', NEW r \in RoomIds, NEW y,
         room' = [room EXCEPT ![r] = y], y.status # "GAME"
  PROVE  RoomsGoOn
<1>1. RoomOK(y)
  BY DEF RoomsInv
<1> QED BY <1>1, NoGameGoesOn, OneRoom

\* Every handler of a seat request lets the games go on.
LEMMA SeatHandlerGoesOn ==
  ASSUME IInv, IInv', NEW w \in Workers, SeatHandler(w)
  PROVE  RoomsGoOn
<1> DEFINE x == MineRoom(w)
           r == task[w].r
<1>0. RoomsInv /\ RoomsInv'
  BY DEF IInv
<1>1. CASE Refuse(w)
  BY <1>1, RoomsSame DEF Refuse
<1>2. CASE OnLeaveRoom(w)
  <2> DEFINE y == LeaveRoom(x, task[w].no, Online)
  <2>1. Granted(w, "LeaveRoom") /\ "LeaveRoom" \in SeatOps
    BY <1>2 DEF OnLeaveRoom, SeatOps
  <2>2. r \in RoomIds /\ y.status # "GAME"
    BY <2>1, GrantedRoom, LeaveRoomEnds
  <2>3. room' = [room EXCEPT ![r] = y]
    BY <1>2 DEF OnLeaveRoom, Becomes
  <2> HIDE DEF y
  <2> QED BY <1>0, <2>2, <2>3, OneRoomEnds
<1>3. CASE OnRoomReady(w)
  <2> DEFINE y == SetReady(x, task[w].no, TRUE)
  <2>1. Granted(w, "RoomReady") /\ "RoomReady" \in SeatOps
    BY <1>3 DEF OnRoomReady, SeatOps
  <2>2. x.status = "READY"
    BY <2>1 DEF Granted, At, Allowed, ReadyAllowed, MineRoom
  <2>3. r \in RoomIds /\ y.status # "GAME"
    BY <2>1, <2>2, GrantedRoom, SetReadyOK
  <2>4. room' = [room EXCEPT ![r] = y]
    BY <1>3 DEF OnRoomReady, Becomes
  <2> HIDE DEF y
  <2> QED BY <1>0, <2>3, <2>4, OneRoomEnds
<1>4. CASE OnRoomUnReady(w)
  <2> DEFINE y == SetReady(x, task[w].no, FALSE)
  <2>1. Granted(w, "RoomUnReady") /\ "RoomUnReady" \in SeatOps
    BY <1>4 DEF OnRoomUnReady, SeatOps
  <2>2. x.status = "READY"
    BY <2>1 DEF Granted, At, Allowed, UnReadyAllowed, MineRoom
  <2>3. r \in RoomIds /\ y.status # "GAME"
    BY <2>1, <2>2, GrantedRoom, SetReadyOK
  <2>4. room' = [room EXCEPT ![r] = y]
    BY <1>4 DEF OnRoomUnReady, Becomes
  <2> HIDE DEF y
  <2> QED BY <1>0, <2>3, <2>4, OneRoomEnds
<1>5. CASE OnRoomStart(w)
  <2> DEFINE y == [SetReady(x, task[w].no, TRUE)
                     EXCEPT !.status = "START", !.menu_index = "START_GAME"]
  <2>1. Granted(w, "RoomStart") /\ "RoomStart" \in SeatOps
    BY <1>5 DEF OnRoomStart, SeatOps
  <2>2. StartAllowed(x, 0) /\ task[w].no = 0
    BY <2>1 DEF Granted, At, Allowed, StartAllowed, MineRoom
  <2>3. r \in RoomIds /\ y.status # "GAME"
    BY <2>1, <2>2, GrantedRoom, RoomStartOK, Zenon
  <2>4. room' = [room EXCEPT ![r] = y]
    BY <1>5, Zenon DEF OnRoomStart, Becomes
  <2> HIDE DEF y
  <2> QED BY <1>0, <2>3, <2>4, OneRoomEnds
<1>6. CASE OnMenuSwitch(w)
  <2> DEFINE y == [x EXCEPT !.menu_index = task[w].index]
  <2>1. Granted(w, "MenuSwitch") /\ "MenuSwitch" \in SeatOps
    BY <1>6 DEF OnMenuSwitch, SeatOps
  <2>2. x.status = "START"
    BY <2>1 DEF Granted, At, Allowed, MenuAllowed, MineRoom
  <2>3. r \in RoomIds /\ x \in RoomType
    BY <2>1, GrantedRoom DEF RoomOK
  <2>4. room' = [room EXCEPT ![r] = y]
    BY <1>6, Zenon DEF OnMenuSwitch, Becomes
  <2>5. y.status # "GAME"
    <3> HIDE DEF x
    <3>1. y.status = x.status
      BY <2>3, ZenonT(30) DEF RoomType
    <3> QED BY <2>2, <3>1
  <2> HIDE DEF y
  <2> QED BY <1>0, <2>3, <2>4, <2>5, OneRoomEnds
<1>7. CASE OnMenuChoose(w)
  <2> DEFINE mode == IF task[w].index = "START_GAME" THEN "COMMON" ELSE "MAP_EDIT"
             y == StartGame(x, mode)
  <2>1. Granted(w, "MenuChoose") /\ "MenuChoose" \in SeatOps
    BY <1>7 DEF OnMenuChoose, SeatOps
  <2>2. x.status = "START"
    BY <2>1 DEF Granted, At, Allowed, MenuAllowed, MineRoom
  <2>3. mode \in {"COMMON", "MAP_EDIT"}
    OBVIOUS
  <2>4. room' = [room EXCEPT ![r] = y]
    BY <1>7, Zenon DEF OnMenuChoose, Becomes
  <2>5. r \in RoomIds /\ RoomOK(x) /\ x = room[r]
    BY <2>1, GrantedRoom
  <2> HIDE DEF mode, x
  <2>6. GoesOn(x, y)
    BY <2>2, <2>3, <2>5, StartGameGoesOn
  <2> HIDE DEF y
  <2> QED BY <1>0, <2>4, <2>5, <2>6, OneRoom
<1>8. CASE OnMenuBack(w)
  <2> DEFINE y == ClearReady([x EXCEPT !.status = "READY", !.menu_index = "NONE"])
  <2>1. Granted(w, "MenuBack") /\ "MenuBack" \in SeatOps
    BY <1>8 DEF OnMenuBack, SeatOps
  <2>2. x.status = "START"
    BY <2>1 DEF Granted, At, Allowed, MenuAllowed, MineRoom
  <2>3. r \in RoomIds /\ y.status # "GAME"
    BY <2>1, <2>2, GrantedRoom, MenuBackOK, Zenon
  <2>4. room' = [room EXCEPT ![r] = y]
    BY <1>8, Zenon DEF OnMenuBack, Becomes
  <2> HIDE DEF y
  <2> QED BY <1>0, <2>3, <2>4, OneRoomEnds
<1>9. CASE OnGameMapEditFinished(w)
  <2> DEFINE y == RestartGame(x)
  <2>1. Granted(w, "GameMapEditFinished") /\ "GameMapEditFinished" \in SeatOps
    BY <1>9 DEF OnGameMapEditFinished, SeatOps
  <2>2. x.game_mode = "MAP_EDIT"
    BY <2>1 DEF Granted, At, Allowed, MapEditAllowed, MineRoom
  <2>3. r \in RoomIds /\ RoomOK(x) /\ x = room[r]
    BY <2>1, GrantedRoom
  <2>4. room' = [room EXCEPT ![r] = y]
    BY <1>9 DEF OnGameMapEditFinished, Becomes
  <2> HIDE DEF x
  <2>5. GoesOn(x, y)
    BY <2>2, <2>3, RestartGameGoesOn
  <2> HIDE DEF y
  <2> QED BY <1>0, <2>3, <2>4, <2>5, OneRoom
<1>10. CASE OnGameFrame(w)
  <2> DEFINE y == [x EXCEPT !.frame_ope = @ \union {task[w].no}]
  <2>1. Granted(w, "GameFrame") /\ "GameFrame" \in SeatOps
    BY <1>10 DEF OnGameFrame, SeatOps
  <2>2. r \in RoomIds /\ x \in RoomType /\ x = room[r]
    BY <2>1, GrantedRoom DEF RoomOK
  <2>3. room' = [room EXCEPT ![r] = y]
    BY <1>10, Zenon DEF OnGameFrame, Becomes
  <2> HIDE DEF x
  <2>4. y.player_info = x.player_info /\ y.frame_no = x.frame_no
    BY <2>2, ZenonT(30) DEF RoomType
  <2> HIDE DEF y
  <2> QED BY <1>0, <2>2, <2>3, <2>4, SameGameGoesOn, OneRoom
<1>11. CASE OnGameEnd(w)
  <2> DEFINE ended == BackToReady(ClearReady(x))
             away == OfflineOthers(ended, task[w].u, Online)
             no == ended.player_info[FirstOf(away)].number
             y == LeaveRoom(ended, no, Online)
  <2>1. Granted(w, "GameEnd") /\ "GameEnd" \in SeatOps
    BY <1>11 DEF OnGameEnd, SeatOps
  <2>2. x.status = "GAME"
    BY <2>1 DEF Granted, At, Allowed, EndAllowed, MineRoom
  <2>3. r \in RoomIds /\ RoomOK(ended) /\ ended.status = "READY"
    BY <2>1, <2>2, GrantedRoom, EndedOK
  <2>4. CASE away = {}
    <3>1. room' = [room EXCEPT ![r] = ended]
      BY <1>11, <2>4 DEF OnGameEnd, Becomes
    <3> HIDE DEF ended
    <3> QED BY <1>0, <2>3, <3>1, OneRoomEnds
  <2>5. CASE away # {}
    <3>1. room' = [room EXCEPT ![r] = y]
      BY <1>11, <2>5 DEF OnGameEnd, Becomes
    <3> HIDE DEF ended
    <3>2. FirstOf(away) \in Seats /\ Occupied(ended, FirstOf(away))
      <4>1. away \subseteq Seats /\ \A i \in away : Occupied(ended, i)
        BY DEF OfflineOthers
      <4> HIDE DEF away
      <4> QED BY <2>5, <4>1, FirstOfSeats
    <3>3. no = FirstOf(away)
      BY <2>3, <3>2 DEF RoomOK, NumbersAreSeats
    <3>4. y.status # "GAME"
      <4> HIDE DEF away, no
      <4> QED BY <2>3, <3>2, <3>3, LeaveRoomEnds
    <3> HIDE DEF y
    <3> QED BY <1>0, <2>3, <3>1, <3>4, OneRoomEnds
  <2> QED BY <2>4, <2>5
<1> QED
  BY <1>1, <1>2, <1>3, <1>4, <1>5, <1>6, <1>7, <1>8, <1>9, <1>10, <1>11 DEF SeatHandler
\* A room is created outside a game, and a started one has no seat to join at.
LEMMA HallHandlerGoesOn ==
  ASSUME IInv, IInv', NEW w \in Workers, HallHandler(w)
  PROVE  RoomsGoOn
<1>0. RoomsInv /\ RoomsInv' /\ TaskOK(task[w])
  BY DEF IInv, TasksInv
<1>1. CASE OnCreateRoom(w)
  <2>1. CASE next_room > MaxRoom
    BY <1>1, <2>1, RoomsSame DEF OnCreateRoom
  <2>2. CASE ~(next_room > MaxRoom)
    <3> DEFINE x == room[next_room]
               y == SetPlayer([x EXCEPT !.status = "READY"],
                              [NoPlayer EXCEPT !.user_id = task[w].u])
    <3>1. next_room \in RoomIds
      BY <1>0, <2>2, ServerAssumption DEF RoomsInv, RoomIds
    <3>2. RoomOK(x) /\ x.status = "NULL"
      BY <1>0, <3>1 DEF RoomsInv, RoomOK, RoomIds
    <3>3. task[w].u \in Users /\ task[w].u # NoUser
      BY <1>0, <1>1 DEF OnCreateRoom, At, TaskOK, Task
    <3>4. y.status = "READY"
      BY <3>2, <3>3, CreateOK, Zenon
    <3>5. room' = [room EXCEPT ![next_room] = y]
      BY <1>1, <2>2, Zenon DEF OnCreateRoom
    <3> HIDE DEF y
    <3> QED BY <1>0, <3>1, <3>4, <3>5, OneRoomEnds
  <2> QED BY <2>1, <2>2
<1>2. CASE OnJoinRoom(w)
  <2> DEFINE x == MineRoom(w)
             y == SetPlayer(x, [number |-> FirstOf(FreeSeats(x)), user_id |-> task[w].u,
                                ready |-> FALSE])
  <2>1. task[w].r \in RoomIds /\ RoomOK(x)
    BY <1>2, HeldRoom DEF OnJoinRoom
  <2>2. CASE Occupied(x, 0) /\ FreeSeats(x) # {}
    <3>1. task[w].u \in Users /\ task[w].u # NoUser
      BY <1>0, <1>2 DEF OnJoinRoom, At, TaskOK, Task
    <3>2. y.status = "READY"
      BY <2>1, <2>2, <3>1, JoinOK, Zenon
    <3>3. room' = [room EXCEPT ![task[w].r] = y]
      BY <1>2, <2>2, Zenon DEF OnJoinRoom
    <3> HIDE DEF y
    <3> QED BY <1>0, <2>1, <3>2, <3>3, OneRoomEnds
  <2>3. CASE ~(Occupied(x, 0) /\ FreeSeats(x) # {})
    BY <1>2, <2>3, RoomsSame DEF OnJoinRoom
  <2> QED BY <2>2, <2>3
<1> QED BY <1>1, <1>2 DEF HallHandler

\* A login resumes, and does not restart, the game.
LEMMA LoginHandlerGoesOn ==
  ASSUME IInv, IInv', NEW w \in Workers, LoginHandler(w)
  PROVE  RoomsGoOn
<1>1. CASE LoginBind(w) \/ LoginFind(w)
  BY <1>1, RoomsSame DEF LoginBind, LoginFind
<1>2. CASE LoginResume(w)
  <2> DEFINE x == MineRoom(w)
             y == SetGameFramePause(x, FALSE)
  <2>1. task[w].r \in RoomIds /\ RoomOK(x) /\ x = room[task[w].r]
    BY <1>2, HeldRoom DEF LoginResume
  <2>2. CASE x.status = "GAME"
    <3>1. room' = [room EXCEPT ![task[w].r] = y]
      BY <1>2, <2>1, <2>2 DEF LoginResume
    <3> HIDE DEF x
    <3>2. GoesOn(x, y)
      BY <2>1, PauseGoesOn
    <3> HIDE DEF y
    <3> QED BY <2>1, <3>1, <3>2, OneRoom DEF IInv
  <2>3. CASE x.status # "GAME"
    BY <1>2, <2>3, RoomsSame DEF LoginResume
  <2> QED BY <2>2, <2>3
<1> QED BY <1>1, <1>2 DEF LoginHandler

\* A lost connection pauses the game or ends it.
LEMMA CloseHandlerGoesOn ==
  ASSUME IInv, IInv', NEW w \in Workers, CloseHandler(w)
  PROVE  RoomsGoOn
<1> DEFINE x == MineRoom(w)
<1>0. RoomsInv /\ RoomsInv'
  BY DEF IInv
<1>1. CASE ClosePause(w)
  <2> DEFINE y == SetGameFramePause(x, TRUE)
  <2>1. task[w].r \in RoomIds /\ RoomOK(x) /\ x = room[task[w].r]
    BY <1>1, HeldRoom DEF ClosePause
  <2>2. CASE SomeoneOnline(x, Online \ {task[w].u})
    BY <1>1, <2>2, RoomsSame DEF ClosePause
  <2>3. CASE ~SomeoneOnline(x, Online \ {task[w].u})
    <3>1. room' = [room EXCEPT ![task[w].r] = y]
      BY <1>1, <2>1, <2>3 DEF ClosePause
    <3> HIDE DEF x
    <3>2. GoesOn(x, y)
      BY <2>1, PauseGoesOn
    <3> HIDE DEF y
    <3> QED BY <1>0, <2>1, <3>1, <3>2, OneRoom
  <2> QED BY <2>2, <2>3
<1>2. CASE CloseLeave(w)
  <2> DEFINE mine == SeatsOf(x, task[w].u)
             no == x.player_info[FirstOf(mine)].number
             y == LeaveRoom(x, no, Online)
  <2>1. task[w].r \in RoomIds /\ RoomOK(x)
    BY <1>2, HeldRoom DEF CloseLeave
  <2>2. CASE mine = {} \/ ~Occupied(x, no)
    BY <1>2, <2>2, RoomsSame DEF CloseLeave
  <2>3. CASE ~(mine = {} \/ ~Occupied(x, no))
    <3>1. room' = [room EXCEPT ![task[w].r] = y]
      BY <1>2, <2>3 DEF CloseLeave
    <3>2. no \in Seats /\ Occupied(x, no)
      BY <2>3 DEF Occupied
    <3> HIDE DEF no
    <3>3. y.status # "GAME"
      BY <2>1, <3>2, LeaveRoomEnds
    <3> HIDE DEF y
    <3> QED BY <1>0, <2>1, <3>1, <3>3, OneRoomEnds
  <2> QED BY <2>2, <2>3
<1>3. CASE CloseUnbind(w)
  BY <1>3, RoomsSame DEF CloseUnbind
<1> QED BY <1>1, <1>2, <1>3 DEF CloseHandler

\* The frame thread counts frames one by one.
LEMMA FrameThreadGoesOn ==
  ASSUME IInv, FrameThread
  PROVE  RoomsGoOn
<1>1. PICK r \in RoomIds : TimerExpires(r) \/ FrameTick(r)
  BY DEF FrameThread
<1> DEFINE x == room[r]
<1>2. RoomsInv /\ RoomOK(x) /\ room \in [RoomIds -> RoomType]
  BY DEF IInv, RoomsInv
<1>3. CASE TimerExpires(r)
  <2> DEFINE y == [x EXCEPT !.armed = FALSE, !.queued = TRUE]
  <2>1. room' = [room EXCEPT ![r] = y]
    BY <1>2, <1>3, Zenon DEF TimerExpires
  <2>2. y.player_info = x.player_info /\ y.frame_no = x.frame_no
    <3> HIDE DEF x
    <3> QED BY <1>2, ZenonT(30) DEF RoomOK, RoomType
  <2> HIDE DEF y
  <2> QED BY <1>2, <2>1, <2>2, SameGameGoesOn, OneRoom
<1>4. CASE FrameTick(r)
  <2>1. PICK late \in BOOLEAN :
          room' = [room EXCEPT ![r] = OnGameFrameSync([@ EXCEPT !.queued = FALSE], late)]
    BY <1>4 DEF FrameTick
  <2> DEFINE y == OnGameFrameSync([x EXCEPT !.queued = FALSE], late)
  <2>2. room' = [room EXCEPT ![r] = y]
    BY <1>2, <2>1, Zenon
  <2>3. GoesOn(x, y)
    BY <1>2, TickGoesOn, Zenon
  <2> HIDE DEF y
  <2> QED BY <1>2, <2>2, <2>3, OneRoom
<1> QED BY <1>1, <1>3, <1>4

\* No step of the server breaks a game off without ending it.
LEMMA NextGoesOn == IInv /\ IInv' /\ [Next]_vars => RoomsGoOn
<1> SUFFICES ASSUME IInv, IInv', [Next]_vars PROVE RoomsGoOn
  OBVIOUS
<1>1. ASSUME NEW w \in Workers, Worker(w) PROVE RoomsGoOn
  <2>1. CASE Request(w)
    BY <2>1, RoomsSame DEF Request, SeatRequest, HallRequest, LoginRequest, CloseStart
  <2> QED BY <1>1, <2>1, SeatHandlerGoesOn, HallHandlerGoesOn, LoginHandlerGoesOn,
             CloseHandlerGoesOn DEF Worker
<1>2. CASE FrameThread
  BY <1>2, FrameThreadGoesOn
<1>3. CASE UNCHANGED vars
  BY <1>3, RoomsSame DEF vars
<1> QED BY <1>1, <1>2, <1>3 DEF Next

------------------------------------------------------------------------------
(* Theorems *)

\* Frames are numbered without a gap through every pause, resumption and stale
\* handler; only the end of a game or of its map editing starts again at 0.
THEOREM FrameNumbersRunOnThm == Spec => FrameNumbersRunOn
<1>1. RoomsGoOn =>
        \A r \in RoomIds :
          \/ room'[r].frame_no \in {room[r].frame_no, room[r].frame_no + 1}
          \/ /\ room'[r].frame_no = 0
             /\ \/ room'[r].status # "GAME"
                \/ room[r].game_mode = "MAP_EDIT" /\ room'[r].game_mode = "COMMON"
  BY DEF RoomsGoOn, GoesOn
<1> QED BY <1>1, NextGoesOn, Invariance, PTL DEF Spec, FrameNumbersRunOn

\* The seats of a running game keep their players, however drops, logins, joins
\* and departures interleave.
THEOREM GameSeatingFixedThm == Spec => GameSeatingFixed
<1>1. RoomsGoOn =>
        \A r \in RoomIds :
          room[r].status = "GAME" /\ room'[r].status = "GAME" =>
              \A i \in Seats : room'[r].player_info[i].user_id
                                 = room[r].player_info[i].user_id
  BY DEF RoomsGoOn, GoesOn
<1> QED BY <1>1, NextGoesOn, Invariance, PTL DEF Spec, GameSeatingFixed
------------------------------------------------------------------------------
(* What the comments of the code promise of connections, proved for a       *)
(* server with one worker: handlers then run one after the other, though    *)
(* the frame thread still runs between their stages.  Any number of         *)
(* sessions, rooms, users and close events; with a second worker each of    *)
(* these promises can be broken (the run pause shows one).                  *)

OneWorker == \A v, w \in Workers : v = w

------------------------------------------------------------------------------
(* The players of a room *)

Players(x) == {x.player_info[i].user_id : i \in Seats} \ {NoUser}

\* Nobody sits twice in a room.
Apart(x) == \A i \in Guests(x) : x.player_info[i].user_id # x.player_info[0].user_id

\* A lost connection has been dealt with: outside a resumable game the players
\* are present; a resumable one is paused exactly if none is, unless the
\* login of one of them has still to resume it.
Fits(x, present, returning) ==
    /\ ~Resumable(x) => Players(x) \subseteq present
    /\ Resumable(x) /\ Players(x) \intersect returning = {} =>
          (x.frame_pause <=> Players(x) \intersect present = {})

\* The players, seat by seat.
LEMMA TwoPlayers ==
  ASSUME NEW x
  PROVE  /\ Players(x) = {x.player_info[0].user_id, x.player_info[1].user_id} \ {NoUser}
         /\ Apart(x) <=> \/ x.player_info[1].user_id = NoUser
                         \/ x.player_info[1].user_id # x.player_info[0].user_id
  BY TwoSeats DEF Players, Apart, Guests, Occupied

\* Somebody of the room is online.
LEMMA SomeoneIs ==
  ASSUME NEW x, NEW online
  PROVE  SomeoneOnline(x, online) <=> Players(x) \intersect online # {}
  BY DEF SomeoneOnline, Players, Occupied

\* Rooms with the same seats have the same players.
LEMMA KeptPlayers ==
  ASSUME NEW x, NEW y, SeatsKept(x, y)
  PROVE  Players(y) = Players(x) /\ (Apart(x) => Apart(y))
  BY TwoPlayers, TwoSeats DEF SeatsKept

\* A room that is not in use has no players.
LEMMA NobodyInNull ==
  ASSUME NEW x, RoomOK(x), x.status = "NULL"
  PROVE  Players(x) = {} /\ Apart(x)
<1>1. \A i \in Seats : ~Occupied(x, i)
  BY DEF RoomOK, HostedUntilReset
<1>2. x.player_info[0].user_id = NoUser /\ x.player_info[1].user_id = NoUser
  BY <1>1, TwoSeats DEF Occupied
<1> QED BY <1>2, TwoPlayers

\* Who is not in the room may come and go.
LEMMA StrangerFits ==
  ASSUME NEW x, NEW p, NEW q, NEW p2, NEW q2, NEW u, Fits(x, p, q), u \notin Players(x),
         \A v : v # u => (v \in p2 <=> v \in p) /\ (v \in q2 <=> v \in q)
  PROVE  Fits(x, p2, q2)
<1>1. \A v \in Players(x) : (v \in p2 <=> v \in p) /\ (v \in q2 <=> v \in q)
  OBVIOUS
<1> QED BY <1>1 DEF Fits

\* A room that stays as it is for its players.
LEMMA KeptFits ==
  ASSUME NEW x, NEW y, NEW p, NEW q, Fits(x, p, q), PresenceKept(x, y)
  PROVE  Fits(y, p, q)
  BY KeptPlayers DEF Fits, PresenceKept, Resumable

\* A room outside a game whose players are all present.
LEMMA NoGameFits ==
  ASSUME NEW y, NEW p, NEW q, y.status # "GAME", Players(y) \subseteq p
  PROVE  Fits(y, p, q)
  BY DEF Fits, Resumable

\* Leaving: whoever named the seat is gone, nobody who is offline stays.
LEMMA LeaveSeats ==
  ASSUME NEW x, RoomOK(x), Apart(x), NEW no \in Seats, Occupied(x, no), NEW online
  PROVE  LET y == LeaveRoom(x, no, online)
         IN  /\ y.status # "GAME"
             /\ Players(y) \subseteq Players(x) \ {x.player_info[no].user_id}
             /\ Players(y) \subseteq online
             /\ Apart(y)
<1> DEFINE left == VacateSeat(x, no)
           y == LeaveRoom(x, no, online)
<1>1. y.status # "GAME"
  BY LeaveRoomEnds
<1>2. CASE Disbands(x, no, online)
  <2>1. RoomOK(y) /\ y.status = "NULL"
    BY <1>2, LeaveRoomOK
  <2> HIDE DEF y
  <2>2. Players(y) = {} /\ Apart(y)
    BY <2>1, NobodyInNull
  <2> QED BY <1>1, <2>2 DEF y
<1>3. CASE ~Disbands(x, no, online)
  <2>1. ~(no = 0 /\ Guests(x) = {}) /\ SomeoneOnline(left, online)
    BY <1>3 DEF Disbands
  <2>2. /\ left \in RoomType /\ NumbersAreSeats(left)
        /\ Occupied(left, 0) /\ ~Occupied(left, 1)
        /\ \A i \in Seats \ {no} : left.player_info[0].user_id = x.player_info[i].user_id
    BY <2>1, VacateSeatOK, Zenon
  <2>3. y = BackToReady(left)
    BY <1>3 DEF LeaveRoom
  <2> HIDE DEF left, y
  <2>4. y.player_info = left.player_info
    BY <2>2, <2>3, BackToReadyOK
  <2> DEFINE v == left.player_info[0].user_id
  <2>5. Players(y) = {v} /\ Apart(y) /\ Players(left) = {v}
    BY <2>2, <2>4, TwoPlayers, TwoSeats DEF Occupied
  <2>6. v \in online
    BY <2>1, <2>5, SomeoneIs
  <2>7. v \in Players(x) /\ v # x.player_info[no].user_id
    BY <2>2, TwoPlayers, TwoSeats DEF Occupied
  <2> QED BY <1>1, <2>5, <2>6, <2>7 DEF y
<1> QED BY <1>2, <1>3

------------------------------------------------------------------------------
(* The inductive invariant *)

\* A user whose close handler has left the room counts as gone before
\* RemoveUser, and one that has logged in as coming back until the room is
\* resumed.
LeavingOf(t) == IF t.op = "Close" /\ t.pc = "unbind" THEN {t.u} ELSE {}
ReturningOf(t) == IF t.op = "Login" /\ t.pc # "bind" THEN {t.u} ELSE {}
Leaving == UNION {LeavingOf(task[w]) : w \in Workers}
Returning == UNION {ReturningOf(task[w]) : w \in Workers}
Present == Online \ Leaving

\* A user has one seat, and every room fits who is there.
Seating ==
    /\ \A r \in RoomIds : Apart(room[r])
    /\ \A r, q \in RoomIds : \A u \in Players(room[r]) : u \in Players(room[q]) => r = q
Presence == \A r \in RoomIds : Fits(room[r], Present, Returning)

RoomsSerial == Seating /\ Presence

\* A user id is known below the generator's next, and a closed session keeps
\* its user only until its close handler ends.
Known ==
    /\ \A s \in Sessions : users[s] < next_user
    /\ \A u \in answered : u < next_user
Closing ==
    \A s \in Sessions : closes[s] > 0 /\ users[s] # NoUser =>
        \E w \in Workers : task[w].op = "Close" /\ task[w].s = s

SessionsSerial == ~crashed /\ OneSessionPerUser /\ Known /\ Closing

\* What a handler has read of its session and its user's room still holds.
TaskFits(t) ==
    /\ t.op # "Idle" => t.s \in Sessions /\ t.u < next_user
    /\ t.op \in SeatOps \union {"CreateRoom", "JoinRoom", "Close"} => t.u = users[t.s]
    /\ t.op \in SeatOps \union {"CreateRoom", "JoinRoom", "Login"} =>
         t.u # NoUser /\ closes[t.s] = 0
    /\ t.op \in {"CreateRoom", "JoinRoom"} => UserRooms(t.u) = {}
    /\ t.op = "Login" =>
         /\ \A s \in Sessions : users[s] = t.u => s = t.s
         /\ users[t.s] = t.u \/ (t.pc = "bind" /\ users[t.s] = NoUser)
    /\ t.op \in {"Login", "Close"} /\ t.pc = "apply" => t.r \in UserRooms(t.u)

TasksSerial == \A w \in Workers : TaskFits(task[w])

SerialInv == SessionsSerial /\ TasksSerial /\ RoomsSerial

\* With one worker its task says who is leaving and who is coming back.
LEMMA Solo ==
  ASSUME OneWorker, NEW w \in Workers
  PROVE  /\ Leaving = LeavingOf(task[w]) /\ Leaving' = LeavingOf(task'[w])
         /\ Returning = ReturningOf(task[w]) /\ Returning' = ReturningOf(task'[w])
<1>1. Workers = {w}
  BY DEF OneWorker
<1>2. \A S : UNION {S} = S
  OBVIOUS
<1>3. /\ Leaving = UNION {LeavingOf(task[w])} /\ Leaving' = UNION {LeavingOf(task'[w])}
      /\ Returning = UNION {ReturningOf(task[w])}
      /\ Returning' = UNION {ReturningOf(task'[w])}
  BY <1>1 DEF Leaving, Returning, LeavingOf, ReturningOf
<1> QED BY <1>2, <1>3

\* A user without a room sits nowhere.
LEMMA NoRoomFor ==
  ASSUME IInv, NEW u, u # NoUser, UserRooms(u) = {}
  PROVE  \A r \in RoomIds : u \notin Players(room[r])
<1> SUFFICES ASSUME NEW r \in RoomIds, u \in Players(room[r]) PROVE FALSE
  OBVIOUS
<1>1. RoomOK(room[r]) /\ (r \in rooms <=> room[r].status # "NULL")
  BY DEF IInv, RoomsInv
<1>2. r \in rooms
  BY <1>1, NobodyInNull
<1>3. SeatsOf(room[r], u) # {}
  BY DEF Players, SeatsOf
<1> QED BY <1>2, <1>3 DEF UserRooms

\* The room found for a user is where the user sits.
LEMMA RoomOf ==
  ASSUME IInv, NEW u, NEW r \in UserRooms(u)
  PROVE  /\ r \in RoomIds /\ r \in rooms /\ SeatsOf(room[r], u) # {}
         /\ u # NoUser => u \in Players(room[r])
  BY DEF IInv, RoomsInv, UserRooms, SeatsOf, Players

\* A step that changes one room, and of the users one, who is in no other.
LEMMA RoomSerial ==
  ASSUME IInv, RoomsSerial, NEW r \in RoomIds, NEW y, NEW u,
         room' = [room EXCEPT ![r] = y], Apart(y), Fits(y, Present', Returning'),
         Players(y) \subseteq Players(room[r]) \union {u},
         \A q \in RoomIds \ {r} : u \notin Players(room[q]),
         \A v : v # u => /\ v \in Present' <=> v \in Present
                         /\ v \in Returning' <=> v \in Returning
  PROVE  RoomsSerial'
<1>1. room'[r] = y /\ \A q \in RoomIds \ {r} : room'[q] = room[q]
  BY DEF IInv, RoomsInv
<1>2. \A q \in RoomIds : Apart(room'[q])
  BY <1>1 DEF RoomsSerial, Seating
<1>3. ASSUME NEW p \in RoomIds, NEW q \in RoomIds, NEW v \in Players(room'[p]),
             v \in Players(room'[q])
      PROVE  p = q
  BY <1>1, <1>3 DEF RoomsSerial, Seating
<1>4. ASSUME NEW q \in RoomIds PROVE Fits(room'[q], Present', Returning')
  <2>1. CASE q = r
    BY <1>1, <2>1
  <2>2. CASE q # r
    BY <1>1, <2>2, StrangerFits DEF RoomsSerial, Presence
  <2> QED BY <2>1, <2>2
<1> QED BY <1>2, <1>3, <1>4 DEF RoomsSerial, Seating, Presence

\* A step that changes no room, and of the users one, who is in none.
LEMMA StrangerSerial ==
  ASSUME RoomsSerial, NEW u, room' = room,
         \A q \in RoomIds : u \notin Players(room[q]),
         \A v : v # u => /\ v \in Present' <=> v \in Present
                         /\ v \in Returning' <=> v \in Returning
  PROVE  RoomsSerial'
<1>1. \A q \in RoomIds : Fits(room'[q], Present', Returning')
  BY StrangerFits DEF RoomsSerial, Presence
<1> QED BY <1>1 DEF RoomsSerial, Seating, Presence

\* The end of a handler that left the sessions alone.
LEMMA DoneSerial ==
  ASSUME IInv, OneWorker, SerialInv, NEW w \in Workers, Finish(w),
         task[w].op \notin {"Idle", "Close"}, answered' \subseteq answered \union {task[w].u},
         UNCHANGED <<users, next_user, closes, crashed>>
  PROVE  /\ SessionsSerial' /\ TasksSerial'
         /\ Leaving' = {} /\ Returning' = {} /\ Leaving = {}
         /\ Present' = Present /\ Present = Online
<1>1. task'[w] = Idle /\ Workers = {w}
  BY DEF Finish, IInv, TasksInv, OneWorker
<1>2. TasksSerial'
  BY <1>1 DEF TasksSerial, TaskFits, Idle, SeatOps
<1>3. SessionsSerial'
  <2>1. task[w].u < next_user
    BY DEF SerialInv, TasksSerial, TaskFits
  <2> QED BY <1>1, <2>1 DEF SerialInv, SessionsSerial, OneSessionPerUser, Known, Closing
<1>4. Leaving' = {} /\ Returning' = {} /\ Leaving = {}
  BY <1>1, Solo DEF LeavingOf, ReturningOf, Idle
<1> QED BY <1>2, <1>3, <1>4 DEF Present, Online

------------------------------------------------------------------------------
(* Seat requests *)

\* A granted request: the room is in order, fits who is online, and the sender
\* is one of its players and online.
LEMMA GrantedSerial ==
  ASSUME IInv, OneWorker, SerialInv, NEW w \in Workers, NEW op \in SeatOps, Granted(w, op)
  PROVE  /\ task[w].r \in RoomIds /\ MineRoom(w) = room[task[w].r]
         /\ RoomOK(MineRoom(w)) /\ Apart(MineRoom(w))
         /\ Fits(MineRoom(w), Online, {})
         /\ task[w].no \in Seats /\ Occupied(MineRoom(w), task[w].no)
         /\ task[w].u \in Online
         /\ Present = Online /\ Returning = {}
<1>1. task[w].op = op /\ op \notin {"Login", "Close", "Idle"}
  BY DEF Granted, At, SeatOps
<1>2. Present = Online /\ Returning = {}
  BY <1>1, Solo DEF LeavingOf, ReturningOf, Present
<1>3. Apart(MineRoom(w)) /\ Fits(MineRoom(w), Online, {})
  BY <1>2, GrantedRoom DEF SerialInv, RoomsSerial, Seating, Presence
<1>4. task[w].u \in Online
  <2>1. TaskFits(task[w])
    BY DEF SerialInv, TasksSerial
  <2> QED BY <1>1, <2>1 DEF TaskFits, Online
<1> QED BY <1>2, <1>3, <1>4, GrantedRoom

\* A handler after which its room fits, with no player more.
LEMMA BecomesSerial ==
  ASSUME IInv, OneWorker, SerialInv, NEW w \in Workers, NEW op \in SeatOps, Granted(w, op),
         NEW y, Becomes(w, y), Apart(y), Fits(y, Online, {}),
         Players(y) \subseteq Players(MineRoom(w))
  PROVE  SerialInv'
<1>1. task[w].op \notin {"Idle", "Close"}
  BY DEF Granted, At, SeatOps
<1>2. /\ SessionsSerial' /\ TasksSerial'
      /\ Present' = Present /\ Present = Online /\ Returning' = {} /\ Returning = {}
  BY <1>1, DoneSerial, GrantedSerial DEF Becomes
<1>3. RoomsSerial'
  <2>1. \A q : NoUser \notin Players(room[q])
    BY DEF Players
  <2> QED BY <1>2, <2>1, RoomSerial, GrantedSerial DEF Becomes, SerialInv
<1> QED BY <1>2, <1>3 DEF SerialInv

\* A request of the ready stage or the menu keeps the players, who are online.
LEMMA StageSerial ==
  ASSUME IInv, OneWorker, SerialInv, NEW w \in Workers, NEW op \in SeatOps, Granted(w, op),
         MineRoom(w).status # "GAME",
         NEW y, Becomes(w, y), SeatsKept(MineRoom(w), y), y.status # "GAME"
  PROVE  SerialInv'
<1> DEFINE x == MineRoom(w)
<1>1. Players(x) \subseteq Online
  BY GrantedSerial DEF Fits, Resumable
<1>2. Players(y) = Players(x) /\ Apart(y)
  BY KeptPlayers, GrantedSerial
<1>3. Fits(y, Online, {})
  BY <1>1, <1>2, NoGameFits
<1> QED BY <1>2, <1>3, BecomesSerial

\* A departure under the room's mutex.
LEMMA LeaveSerial ==
  ASSUME IInv, OneWorker, SerialInv, NEW w \in Workers, NEW op \in SeatOps, Granted(w, op),
         NEW x, RoomOK(x), SeatsKept(MineRoom(w), x),
         NEW no \in Seats, Occupied(x, no), Becomes(w, LeaveRoom(x, no, Online))
  PROVE  SerialInv'
<1> DEFINE y == LeaveRoom(x, no, Online)
<1>1. Players(x) = Players(MineRoom(w)) /\ Apart(x)
  BY KeptPlayers, GrantedSerial
<1>2. /\ y.status # "GAME" /\ Players(y) \subseteq Players(x) /\ Players(y) \subseteq Online
      /\ Apart(y)
  BY <1>1, LeaveSeats
<1> HIDE DEF y
<1>3. Fits(y, Online, {})
  BY <1>2, NoGameFits
<1> QED BY <1>1, <1>2, <1>3, BecomesSerial DEF y

\* Every handler of a seat request leaves users and rooms fitting.
LEMMA SeatHandlerSerial ==
  ASSUME IInv, OneWorker, SerialInv, NEW w \in Workers, SeatHandler(w)
  PROVE  SerialInv'
<1> DEFINE x == MineRoom(w)
           no == task[w].no
<1>1. CASE Refuse(w)
  <2>1. task[w].op \notin {"Login", "Close", "Idle"}
    BY <1>1 DEF Refuse, SeatOps
  <2>2. /\ SessionsSerial' /\ TasksSerial' /\ Present' = Present /\ Returning' = {}
        /\ room' = room
    BY <1>1, <2>1, DoneSerial DEF Refuse
  <2>3. Returning = {}
    BY <2>1, Solo DEF ReturningOf
  <2>4. \A q : NoUser \notin Players(room[q])
    BY DEF Players
  <2> QED BY <2>2, <2>3, <2>4, StrangerSerial DEF SerialInv
<1>2. CASE OnLeaveRoom(w)
  <2>1. Granted(w, "LeaveRoom") /\ "LeaveRoom" \in SeatOps
    BY <1>2 DEF OnLeaveRoom, SeatOps
  <2>2. Becomes(w, LeaveRoom(x, no, Online))
    BY <1>2 DEF OnLeaveRoom
  <2>3. SeatsKept(x, x)
    BY DEF SeatsKept
  <2> QED BY <2>1, <2>2, <2>3, GrantedSerial, LeaveSerial
<1>3. CASE OnRoomReady(w)
  <2>1. Granted(w, "RoomReady") /\ "RoomReady" \in SeatOps
    BY <1>3 DEF OnRoomReady, SeatOps
  <2>2. x.status = "READY"
    BY <2>1 DEF Granted, At, Allowed, ReadyAllowed, MineRoom
  <2> DEFINE y == SetReady(x, no, TRUE)
  <2>3. SeatsKept(x, y) /\ y.status = "READY"
    BY <2>1, <2>2, GrantedRoom, SetReadyOK
  <2>4. Becomes(w, y)
    BY <1>3 DEF OnRoomReady
  <2> HIDE DEF x, y
  <2> QED BY <2>1, <2>2, <2>3, <2>4, StageSerial DEF x
<1>4. CASE OnRoomUnReady(w)
  <2>1. Granted(w, "RoomUnReady") /\ "RoomUnReady" \in SeatOps
    BY <1>4 DEF OnRoomUnReady, SeatOps
  <2>2. x.status = "READY"
    BY <2>1 DEF Granted, At, Allowed, UnReadyAllowed, MineRoom
  <2> DEFINE y == SetReady(x, no, FALSE)
  <2>3. SeatsKept(x, y) /\ y.status = "READY"
    BY <2>1, <2>2, GrantedRoom, SetReadyOK
  <2>4. Becomes(w, y)
    BY <1>4 DEF OnRoomUnReady
  <2> HIDE DEF x, y
  <2> QED BY <2>1, <2>2, <2>3, <2>4, StageSerial DEF x
<1>5. CASE OnRoomStart(w)
  <2> DEFINE y == [SetReady(x, no, TRUE) EXCEPT !.status = "START",
                                                !.menu_index = "START_GAME"]
  <2>1. Granted(w, "RoomStart") /\ "RoomStart" \in SeatOps
    BY <1>5 DEF OnRoomStart, SeatOps
  <2>2. StartAllowed(x, 0) /\ no = 0 /\ x.status = "READY"
    BY <2>1 DEF Granted, At, Allowed, StartAllowed, MineRoom
  <2>3. SeatsKept(x, y) /\ y.status = "START"
    BY <2>1, <2>2, GrantedRoom, RoomStartOK, Zenon
  <2>4. Becomes(w, y)
    BY <1>5, Zenon DEF OnRoomStart
  <2> HIDE DEF x, y
  <2> QED BY <2>1, <2>2, <2>3, <2>4, StageSerial DEF x
<1>6. CASE OnMenuSwitch(w)
  <2> DEFINE y == [x EXCEPT !.menu_index = task[w].index]
  <2>1. Granted(w, "MenuSwitch") /\ "MenuSwitch" \in SeatOps
    BY <1>6 DEF OnMenuSwitch, SeatOps
  <2>2. x.status = "START"
    BY <2>1 DEF Granted, At, Allowed, MenuAllowed, MineRoom
  <2>3. task[w].index \in MenuIndex \ {"NONE"}
    BY <2>1 DEF IInv, TasksInv, TaskOK, Granted, At, Task
  <2>4. SeatsKept(x, y) /\ y.status = "START"
    BY <2>1, <2>2, <2>3, GrantedRoom, MenuSwitchOK, Zenon
  <2>5. Becomes(w, y)
    BY <1>6, Zenon DEF OnMenuSwitch
  <2> HIDE DEF x, y
  <2> QED BY <2>1, <2>2, <2>4, <2>5, StageSerial DEF x
<1>7. CASE OnMenuChoose(w)
  <2> DEFINE mode == IF task[w].index = "START_GAME" THEN "COMMON" ELSE "MAP_EDIT"
             y == StartGame(x, mode)
  <2>1. Granted(w, "MenuChoose") /\ "MenuChoose" \in SeatOps
    BY <1>7 DEF OnMenuChoose, SeatOps
  <2>2. x.status = "START"
    BY <2>1 DEF Granted, At, Allowed, MenuAllowed, MineRoom
  <2>3. mode \in {"COMMON", "MAP_EDIT"}
    OBVIOUS
  <2>4. Becomes(w, y)
    BY <1>7 DEF OnMenuChoose
  <2>5. RoomOK(x) /\ Occupied(x, 0) /\ Apart(x) /\ Fits(x, Online, {})
    <3>1. Occupied(x, no) /\ no = 0
      BY <2>1, GrantedSerial DEF Granted, At, Allowed, MenuAllowed
    <3> QED BY <2>1, <3>1, GrantedSerial
  <2> HIDE DEF mode, x
  <2>6. SeatsKept(x, y) /\ ~y.frame_pause
    BY <2>2, <2>3, <2>5, StartGameOK
  <2> HIDE DEF y
  <2>7. Players(y) = Players(x) /\ Apart(y)
    BY <2>5, <2>6, KeptPlayers
  <2>8. Fits(y, Online, {})
    <3>1. Players(x) # {} /\ Players(x) \subseteq Online
      BY <2>2, <2>5, TwoPlayers DEF Fits, Resumable, Occupied
    <3> QED BY <2>6, <2>7, <3>1 DEF Fits
  <2> QED BY <2>1, <2>4, <2>7, <2>8, BecomesSerial DEF x
<1>8. CASE OnMenuBack(w)
  <2> DEFINE y == ClearReady([x EXCEPT !.status = "READY", !.menu_index = "NONE"])
  <2>1. Granted(w, "MenuBack") /\ "MenuBack" \in SeatOps
    BY <1>8 DEF OnMenuBack, SeatOps
  <2>2. x.status = "START"
    BY <2>1 DEF Granted, At, Allowed, MenuAllowed, MineRoom
  <2>3. SeatsKept(x, y) /\ y.status = "READY"
    BY <2>1, <2>2, GrantedRoom, MenuBackOK, Zenon
  <2>4. Becomes(w, y)
    BY <1>8, Zenon DEF OnMenuBack
  <2> HIDE DEF x, y
  <2> QED BY <2>1, <2>2, <2>3, <2>4, StageSerial DEF x
<1>9. CASE OnGameMapEditFinished(w)
  <2> DEFINE y == RestartGame(x)
  <2>1. Granted(w, "GameMapEditFinished") /\ "GameMapEditFinished" \in SeatOps
    BY <1>9 DEF OnGameMapEditFinished, SeatOps
  <2>2. x.status = "GAME" /\ x.game_mode = "MAP_EDIT"
    BY <2>1 DEF Granted, At, Allowed, MapEditAllowed, MineRoom
  <2>3. RoomOK(x) /\ Apart(x) /\ Fits(x, Online, {})
    BY <2>1, GrantedSerial
  <2>4. Becomes(w, y)
    BY <1>9 DEF OnGameMapEditFinished
  <2> HIDE DEF x
  <2>5. SeatsKept(x, y) /\ y.support_dxxw = x.support_dxxw /\ ~x.support_dxxw
    BY <2>2, <2>3, RestartGameOK DEF RoomOK, ModeFits
  <2> HIDE DEF y
  <2>6. Players(y) = Players(x) /\ Apart(y)
    BY <2>3, <2>5, KeptPlayers
  <2>7. Fits(y, Online, {})
    BY <2>3, <2>5, <2>6 DEF Fits, Resumable
  <2> QED BY <2>1, <2>4, <2>6, <2>7, BecomesSerial DEF x
<1>10. CASE OnGameFrame(w)
  <2> DEFINE y == [x EXCEPT !.frame_ope = @ \union {no}]
  <2>1. Granted(w, "GameFrame") /\ "GameFrame" \in SeatOps
    BY <1>10 DEF OnGameFrame, SeatOps
  <2>2. x.status = "GAME"
    BY <2>1 DEF Granted, At, Allowed, FrameAllowed, MineRoom
  <2>3. RoomOK(x) /\ Apart(x) /\ Fits(x, Online, {}) /\ no \in Seats
    BY <2>1, GrantedSerial
  <2>4. Becomes(w, y)
    BY <1>10, Zenon DEF OnGameFrame
  <2> HIDE DEF x, no
  <2>5. PresenceKept(x, y)
    BY <2>2, <2>3, GameFrameOK, Zenon
  <2> HIDE DEF y
  <2>6. Players(y) = Players(x) /\ Apart(y) /\ Fits(y, Online, {})
    BY <2>3, <2>5, KeptPlayers, KeptFits DEF PresenceKept
  <2> QED BY <2>1, <2>4, <2>6, BecomesSerial DEF x
<1>11. CASE OnGameEnd(w)
  <2> DEFINE ended == BackToReady(ClearReady(x))
             away == OfflineOthers(ended, task[w].u, Online)
             at == ended.player_info[FirstOf(away)].number
  <2>1. Granted(w, "GameEnd") /\ "GameEnd" \in SeatOps
    BY <1>11 DEF OnGameEnd, SeatOps
  <2>2. x.status = "GAME"
    BY <2>1 DEF Granted, At, Allowed, EndAllowed, MineRoom
  <2>3. RoomOK(ended) /\ ended.status = "READY" /\ SeatsKept(x, ended)
    BY <2>1, <2>2, GrantedRoom, EndedOK DEF SeatsKept
  <2>4. CASE away = {}
    <3>1. Becomes(w, ended)
      BY <1>11, <2>4 DEF OnGameEnd
    <3> HIDE DEF ended, x
    <3>2. Players(ended) = Players(x) /\ Apart(ended)
      BY <2>1, <2>3, KeptPlayers, GrantedSerial DEF x
    <3>3. Players(ended) \subseteq Online
      <4>1. task[w].u \in Online
        BY <2>1, GrantedSerial
      <4>2. \A i \in Seats : Occupied(ended, i) => ended.player_info[i].user_id \in Online
        BY <2>4, <4>1 DEF OfflineOthers
      <4> QED BY <4>2 DEF Players, Occupied
    <3>4. Fits(ended, Online, {})
      BY <2>3, <3>3, NoGameFits
    <3> QED BY <2>1, <3>1, <3>2, <3>4, BecomesSerial DEF x
  <2>5. CASE away # {}
    <3>1. Becomes(w, LeaveRoom(ended, at, Online))
      BY <1>11, <2>5 DEF OnGameEnd
    <3> HIDE DEF ended, x
    <3>2. FirstOf(away) \in away /\ away \subseteq Seats
      BY <2>5, FirstOfSeats DEF OfflineOthers
    <3>3. at \in Seats /\ Occupied(ended, at)
      BY <2>3, <3>2 DEF OfflineOthers, RoomOK, NumbersAreSeats
    <3> HIDE DEF at
    <3> QED BY <2>1, <2>3, <3>1, <3>3, LeaveSerial DEF x
  <2> QED BY <2>4, <2>5
<1> QED
  BY <1>1, <1>2, <1>3, <1>4, <1>5, <1>6, <1>7, <1>8, <1>9, <1>10, <1>11 DEF SeatHandler

------------------------------------------------------------------------------
(* Rooms created and joined *)

\* A user that creates or joins a room is online and sits nowhere else.
LEMMA HallHandlerSerial ==
  ASSUME IInv, OneWorker, SerialInv, NEW w \in Workers, HallHandler(w)
  PROVE  SerialInv'
<1> DEFINE u == task[w].u
<1>1. task[w].op \in {"CreateRoom", "JoinRoom"} /\ Finish(w)
      /\ UNCHANGED <<users, next_user, answered, closes, crashed>>
  BY DEF HallHandler, OnCreateRoom, OnJoinRoom, At
<1>2. /\ SessionsSerial' /\ TasksSerial'
      /\ Present' = Present /\ Present = Online /\ Returning' = {}
  BY <1>1, DoneSerial
<1>3. Returning = {}
  BY <1>1, Solo DEF ReturningOf
<1>4. u # NoUser /\ u \in Users /\ u \in Online /\ \A q \in RoomIds : u \notin Players(room[q])
  <2>1. TaskFits(task[w]) /\ TaskOK(task[w])
    BY DEF SerialInv, TasksSerial, IInv, TasksInv
  <2>2. u # NoUser /\ UserRooms(u) = {} /\ u \in Online /\ u \in Users
    BY <1>1, <2>1 DEF TaskFits, Online, TaskOK, Task
  <2> QED BY <2>2, NoRoomFor
<1> HIDE DEF u
<1>5. RoomsSerial /\ \A q : NoUser \notin Players(room[q])
  BY DEF SerialInv, Players
<1>6. CASE room' = room
  BY <1>2, <1>3, <1>5, <1>6, StrangerSerial DEF SerialInv
<1>7. ASSUME NEW r \in RoomIds, NEW y, room' = [room EXCEPT ![r] = y], y.status # "GAME",
             Apart(y), Players(y) \subseteq Players(room[r]) \union {u},
             Players(room[r]) \subseteq Online
      PROVE  SerialInv'
  <2>1. Fits(y, Present', Returning')
    BY <1>2, <1>4, <1>7, NoGameFits
  <2> QED BY <1>2, <1>3, <1>4, <1>5, <1>7, <2>1, RoomSerial DEF SerialInv
<1>8. CASE OnCreateRoom(w) /\ ~(next_room > MaxRoom)
  <2> DEFINE x == room[next_room]
             y == SetPlayer([x EXCEPT !.status = "READY"], [NoPlayer EXCEPT !.user_id = u])
  <2>1. next_room \in RoomIds
    BY <1>8, ServerAssumption DEF IInv, RoomsInv, RoomIds
  <2>2. RoomOK(x) /\ x.status = "NULL"
    BY <2>1 DEF IInv, RoomsInv, RoomIds
  <2>3. room' = [room EXCEPT ![next_room] = y]
    BY <1>8, Zenon DEF OnCreateRoom, u
  <2>4. /\ y.status = "READY" /\ y.player_info[0].user_id = u
        /\ y.player_info[1].user_id = x.player_info[1].user_id
    BY <1>4, <2>2, CreateOK, Zenon
  <2> HIDE DEF x, y
  <2>5. x.player_info[1].user_id = NoUser /\ Players(x) = {}
    BY <2>2, NobodyInNull, TwoSeats DEF RoomOK, HostedUntilReset, Occupied
  <2>6. Players(y) = {u} /\ Apart(y)
    BY <1>4, <2>4, <2>5, TwoPlayers
  <2> QED BY <1>7, <2>1, <2>3, <2>4, <2>5, <2>6 DEF x
<1>9. CASE OnJoinRoom(w) /\ room' # room
  <2> DEFINE r == task[w].r
             x == MineRoom(w)
             y == SetPlayer(x, [number |-> FirstOf(FreeSeats(x)), user_id |-> u,
                                ready |-> FALSE])
  <2>1. r \in RoomIds /\ RoomOK(x) /\ x = room[r]
    BY <1>9, HeldRoom DEF OnJoinRoom
  <2>2. Occupied(x, 0) /\ FreeSeats(x) # {} /\ room' = [room EXCEPT ![r] = y]
    BY <1>9, Zenon DEF OnJoinRoom, u
  <2>3. /\ y.status = "READY" /\ y.player_info[0].user_id = x.player_info[0].user_id
        /\ y.player_info[1].user_id = u
    BY <1>4, <2>1, <2>2, JoinOK, Zenon
  <2> HIDE DEF x, y
  <2>4. ~Occupied(x, 1)
    BY <2>2, TwoSeats DEF FreeSeats
  <2>5. Players(x) \subseteq Online
    <3>1. Fits(x, Online, {})
      BY <1>2, <1>3, <1>5, <2>1 DEF RoomsSerial, Presence
    <3>2. ~Resumable(x)
      BY <2>1, <2>4, TwoSeats DEF RoomOK, FullOnceStarted, Resumable
    <3> QED BY <3>1, <3>2 DEF Fits
  <2>6. Players(y) \subseteq Players(x) \union {u} /\ Apart(y)
    BY <1>4, <2>1, <2>3, TwoPlayers
  <2> QED BY <1>7, <2>1, <2>2, <2>3, <2>5, <2>6
<1>10. CASE OnCreateRoom(w) /\ next_room > MaxRoom
  BY <1>6, <1>10 DEF OnCreateRoom
<1> QED BY <1>6, <1>8, <1>9, <1>10 DEF HallHandler

------------------------------------------------------------------------------
(* Logging in *)

\* A handler that goes on: its record but for the stage and the room.
LEMMA StageFields ==
  ASSUME IInv, NEW w \in Workers, NEW pc \in {"find", "unbind"}, Goto(w, pc)
  PROVE  /\ task'[w].op = task[w].op /\ task'[w].pc = pc /\ task'[w].s = task[w].s
         /\ task'[w].u = task[w].u
<1>1. task[w] \in Task /\ task' = [task EXCEPT ![w] = [task[w] EXCEPT !.pc = pc]]
  BY Zenon DEF Goto, IInv, TasksInv
<1> DEFINE t == [task[w] EXCEPT !.pc = pc]
<1>2. t.op = task[w].op /\ t.pc = pc /\ t.s = task[w].s /\ t.u = task[w].u
  BY <1>1, ZenonT(30) DEF Task
<1>3. task'[w] = t
  BY <1>1 DEF IInv, TasksInv
<1> HIDE DEF t
<1> QED BY <1>2, <1>3

\* A room of the user who logs in fits as long as the login has not resumed it.
LEMMA ReturningFits ==
  ASSUME NEW x, NEW p, NEW q, NEW p2, NEW q2, NEW u \in Players(x), Fits(x, p, q),
         p \subseteq p2, u \in q2
  PROVE  Fits(x, p2, q2)
  BY DEF Fits

\* AddUser binds a user that no session has.
LEMMA LoginBindSerial ==
  ASSUME IInv, OneWorker, SerialInv, NEW w \in Workers, LoginBind(w)
  PROVE  SerialInv'
<1> DEFINE u == task[w].u
           s == task[w].s
<1>1. task[w].op = "Login" /\ task[w].pc = "bind" /\ TaskFits(task[w]) /\ Workers = {w}
  BY DEF LoginBind, At, SerialInv, TasksSerial, OneWorker
<1>2. /\ u # NoUser /\ u < next_user /\ s \in Sessions /\ closes[s] = 0
      /\ \A v \in Sessions : users[v] = u => v = s
      /\ users[s] \in {u, NoUser}
  BY <1>1 DEF TaskFits
<1>3. /\ users' = [users EXCEPT ![s] = u] /\ Goto(w, "find")
      /\ UNCHANGED <<rooms, room, next_room, next_user, answered, closes, crashed>>
      /\ users \in [Sessions -> Users \union {NoUser}]
  BY DEF LoginBind, IInv, SessionsInv
<1>4. /\ task'[w].op = "Login" /\ task'[w].pc = "find" /\ task'[w].s = s /\ task'[w].u = u
  BY <1>1, <1>3, StageFields
<1> HIDE DEF u, s
<1>5. users'[s] = u /\ \A v \in Sessions \ {s} : users'[v] = users[v]
  BY <1>2, <1>3
<1>6. TasksSerial'
  BY <1>1, <1>2, <1>3, <1>4, <1>5 DEF TasksSerial, TaskFits, SeatOps
<1>7. SessionsSerial'
  <2>1. OneSessionPerUser'
    BY <1>2, <1>5 DEF SerialInv, SessionsSerial, OneSessionPerUser
  <2>2. Known'
    BY <1>2, <1>3, <1>5 DEF SerialInv, SessionsSerial, Known
  <2>3. Closing'
    BY <1>1, <1>2, <1>3, <1>5 DEF SerialInv, SessionsSerial, Closing
  <2> QED BY <1>3, <2>1, <2>2, <2>3 DEF SerialInv, SessionsSerial
<1>8. Online' = Online \union {u}
  BY <1>2, <1>5 DEF Online
<1>9. Present = Online /\ Returning = {} /\ Present' = Online' /\ Returning' = {u}
  BY <1>1, <1>4, Solo DEF LeavingOf, ReturningOf, Present
<1>10. RoomsSerial'
  <2>1. ASSUME NEW r \in RoomIds PROVE Fits(room[r], Present', Returning')
    <3>1. Fits(room[r], Present, Returning)
      BY DEF SerialInv, RoomsSerial, Presence
    <3>2. CASE u \in Players(room[r])
      BY <1>8, <1>9, <3>1, <3>2, ReturningFits
    <3>3. CASE u \notin Players(room[r])
      BY <1>8, <1>9, <3>1, <3>3, StrangerFits
    <3> QED BY <3>2, <3>3
  <2> QED BY <1>3, <2>1 DEF SerialInv, RoomsSerial, Seating, Presence
<1> QED BY <1>6, <1>7, <1>10 DEF SerialInv

\* The rest of a login: the user's only room is found, and resumed.
LEMMA LoginRestSerial ==
  ASSUME IInv, OneWorker, SerialInv, NEW w \in Workers, LoginFind(w) \/ LoginResume(w)
  PROVE  SerialInv'
<1> DEFINE u == task[w].u
           s == task[w].s
<1>1. /\ task[w].op = "Login" /\ task[w].pc \in {"find", "apply"} /\ Workers = {w}
      /\ TaskFits(task[w]) /\ UNCHANGED <<users, next_user, closes, crashed>>
  BY DEF LoginFind, LoginResume, At, SerialInv, TasksSerial, OneWorker
<1>2. u # NoUser /\ u \in Online
  BY <1>1 DEF TaskFits, Online
<1>3. Returning = {u} /\ Present = Online
  BY <1>1, Solo DEF ReturningOf, LeavingOf, Present
<1>4. ASSUME Answer(w)
      PROVE  /\ SessionsSerial' /\ TasksSerial' /\ Returning' = {} /\ Present' = Online
  BY <1>1, <1>4, DoneSerial DEF Answer
<1>5. ASSUME LoginFind(w), UserRooms(u) = {} PROVE SerialInv'
  <2>1. Answer(w) /\ room' = room
    BY <1>5 DEF LoginFind
  <2>2. \A r \in RoomIds : u \notin Players(room[r])
    BY <1>2, <1>5, NoRoomFor
  <2> HIDE DEF u
  <2> QED BY <1>3, <1>4, <2>1, <2>2, StrangerSerial DEF SerialInv
<1>6. ASSUME LoginFind(w), NEW r \in UserRooms(u), UNCHANGED answered,
             task' = [task EXCEPT ![w].pc = "apply", ![w].r = r]
      PROVE  SerialInv'
  <2> DEFINE t == [task[w] EXCEPT !.pc = "apply", !.r = r]
  <2>1. task[w] \in Task /\ task \in [Workers -> Task]
    BY DEF IInv, TasksInv
  <2>2. /\ t.op = "Login" /\ t.pc = "apply" /\ t.s = s /\ t.u = u /\ t.r = r
    BY <1>1, <2>1, ZenonT(30) DEF Task
  <2>3. task' = [task EXCEPT ![w] = t]
    BY <1>6, <2>1, Zenon
  <2> HIDE DEF t
  <2>4. task'[w].op = "Login" /\ task'[w].pc = "apply" /\ task'[w].s = s
        /\ task'[w].u = u /\ task'[w].r = r
    BY <2>1, <2>2, <2>3
  <2>5. UNCHANGED <<rooms, room>>
    BY <1>6 DEF LoginFind
  <2>6. TasksSerial'
    <3>1. (UserRooms(task[w].u))' = UserRooms(u)
      BY <2>4, <2>5 DEF UserRooms
    <3> QED BY <1>1, <2>4, <3>1 DEF TasksSerial, TaskFits, SeatOps
  <2>7. SessionsSerial'
    BY <1>1, <1>6, <2>4 DEF SerialInv, SessionsSerial, OneSessionPerUser, Known, Closing
  <2>8. Returning' = {u} /\ Present' = Online
    BY <1>1, <2>4, Solo DEF ReturningOf, LeavingOf, Present, Online
  <2>9. \A q : NoUser \notin Players(room[q])
    BY DEF Players
  <2> QED BY <1>3, <2>5, <2>6, <2>7, <2>8, <2>9, StrangerSerial DEF SerialInv
<1>7. CASE LoginResume(w)
  <2> DEFINE r == task[w].r
             x == MineRoom(w)
             y == IF x.status = "GAME" THEN SetGameFramePause(x, FALSE) ELSE x
  <2>1. r \in RoomIds /\ RoomOK(x) /\ x = room[r] /\ room \in [RoomIds -> RoomType]
    BY <1>7, HeldRoom DEF LoginResume, IInv, RoomsInv
  <2>2. u \in Players(x)
    BY <1>1, <1>2, <1>7, <2>1, RoomOf DEF TaskFits, LoginResume, At
  <2>3. room' = [room EXCEPT ![r] = y] /\ Answer(w)
    BY <1>7, <2>1 DEF LoginResume
  <2>4. Apart(x) /\ Fits(x, Online, {u})
    BY <1>3, <2>1 DEF SerialInv, RoomsSerial, Seating, Presence
  <2> HIDE DEF x, u
  <2>5. /\ Players(y) = Players(x) /\ Apart(y) /\ (Resumable(y) <=> Resumable(x))
        /\ Resumable(y) => ~y.frame_pause
    <3>1. CASE x.status = "GAME"
      <4>1. /\ y.player_info = x.player_info /\ y.status = x.status
            /\ y.support_dxxw = x.support_dxxw /\ ~y.frame_pause
        BY <2>1, <3>1, PauseOK
      <4> HIDE DEF y
      <4> QED BY <2>4, <4>1 DEF Players, Apart, Guests, Occupied, Resumable
    <3>2. CASE x.status # "GAME"
      BY <2>4, <3>2 DEF Resumable
    <3> QED BY <3>1, <3>2
  <2> HIDE DEF y
  <2>6. Fits(y, Online, {})
    BY <1>2, <2>2, <2>4, <2>5 DEF Fits
  <2>7. \A q \in RoomIds \ {r} : u \notin Players(room[q])
    BY <2>1, <2>2 DEF SerialInv, RoomsSerial, Seating
  <2>8. RoomsSerial'
    BY <1>3, <1>4, <2>1, <2>3, <2>5, <2>6, <2>7, RoomSerial DEF SerialInv
  <2> QED BY <1>4, <2>3, <2>8 DEF SerialInv
<1> QED BY <1>5, <1>6, <1>7 DEF LoginFind

------------------------------------------------------------------------------
(* Losing a connection *)

\* The room's part of a close event: the user leaves, or a game that can be
\* resumed waits, paused if nobody else is there.  No player is missing, so
\* nothing crashes.
LEMMA CloseRoomSerial ==
  ASSUME IInv, OneWorker, SerialInv, NEW w \in Workers, ClosePause(w) \/ CloseLeave(w)
  PROVE  SerialInv'
<1> DEFINE u == task[w].u
           s == task[w].s
           r == task[w].r
           x == MineRoom(w)
<1>1. /\ task[w].op = "Close" /\ task[w].pc = "apply" /\ Workers = {w}
      /\ TaskFits(task[w]) /\ At(w, "Close", "apply")
  BY DEF ClosePause, CloseLeave, At, SerialInv, TasksSerial, OneWorker
<1>2. /\ u = users[s] /\ s \in Sessions /\ u < next_user /\ r \in UserRooms(u)
  BY <1>1 DEF TaskFits
<1>3. r \in RoomIds /\ RoomOK(x) /\ x = room[r] /\ room \in [RoomIds -> RoomType]
  BY <1>1, HeldRoom DEF IInv, RoomsInv
<1>4. r \in rooms /\ SeatsOf(x, u) # {} /\ (u # NoUser => u \in Players(x))
  BY <1>2, <1>3, RoomOf
<1>5. Present = Online /\ Returning = {}
  BY <1>1, Solo DEF ReturningOf, LeavingOf, Present
<1>6. Apart(x) /\ Fits(x, Online, {})
  BY <1>3, <1>5 DEF SerialInv, RoomsSerial, Seating, Presence
<1>7. \A q \in RoomIds \ {r} : u \notin Players(room[q])
  BY <1>3, <1>4 DEF SerialInv, RoomsSerial, Seating, Players
\* What both leave behind.
<1>8. ASSUME NEW y, room' = [room EXCEPT ![r] = y], Goto(w, "unbind"),
             UNCHANGED <<users, next_user, answered, closes, crashed>>,
             Apart(y), Fits(y, Online \ {u}, {}), Players(y) \subseteq Players(x)
      PROVE  SerialInv'
  <2>1. /\ task'[w].op = "Close" /\ task'[w].pc = "unbind" /\ task'[w].s = s
        /\ task'[w].u = u
    BY <1>1, <1>8, StageFields
  <2> HIDE DEF u, s, r, x
  <2>2. TasksSerial'
    BY <1>1, <1>2, <1>8, <2>1 DEF TasksSerial, TaskFits, SeatOps
  <2>3. SessionsSerial'
    BY <1>1, <1>8, <2>1 DEF SerialInv, SessionsSerial, OneSessionPerUser, Known, Closing, s
  <2>4. Leaving' = {u} /\ Returning' = {}
    BY <2>1, Solo DEF LeavingOf, ReturningOf
  <2>5. Present' = Online \ {u}
    BY <1>8, <2>4 DEF Present, Online
  <2>6. RoomsSerial'
    BY <1>3, <1>5, <1>7, <1>8, <2>4, <2>5, RoomSerial DEF SerialInv
  <2> QED BY <2>2, <2>3, <2>6 DEF SerialInv
<1>9. CASE ClosePause(w)
  <2> DEFINE y == IF SomeoneOnline(x, Online \ {u}) THEN x ELSE SetGameFramePause(x, TRUE)
  <2>1. Resumable(x) /\ x.status = "GAME"
    BY <1>9 DEF ClosePause, Resumable
  <2>2. room' = [room EXCEPT ![r] = y]
    BY <1>3, <1>9 DEF ClosePause
  <2>3. /\ Goto(w, "unbind") /\ UNCHANGED <<users, next_user, answered, closes, crashed>>
    BY <1>9 DEF ClosePause
  <2> HIDE DEF x, u, r
  <2>4. /\ y.player_info = x.player_info /\ y.status = x.status
        /\ y.support_dxxw = x.support_dxxw
        /\ y.frame_pause <=> ~SomeoneOnline(x, Online \ {u})
    <3>1. CASE SomeoneOnline(x, Online \ {u})
      <4>1. Players(x) \intersect Online # {}
        BY <3>1, SomeoneIs
      <4>2. ~x.frame_pause
        BY <1>6, <2>1, <4>1 DEF Fits
      <4> QED BY <3>1, <4>2
    <3>2. CASE ~SomeoneOnline(x, Online \ {u})
      BY <1>3, <2>1, <3>2, PauseOK
    <3> QED BY <3>1, <3>2
  <2> HIDE DEF y
  <2>5. Players(y) = Players(x) /\ Apart(y) /\ Resumable(y)
    BY <1>6, <2>1, <2>4 DEF Players, Apart, Guests, Occupied, Resumable
  <2>6. Fits(y, Online \ {u}, {})
    BY <2>4, <2>5, SomeoneIs DEF Fits
  <2> QED BY <1>8, <2>2, <2>3, <2>5, <2>6
<1>10. CASE CloseLeave(w)
  <2> DEFINE mine == SeatsOf(x, u)
             no == x.player_info[FirstOf(mine)].number
             y == LeaveRoom(x, no, Online)
  <2>1. FirstOf(mine) \in Seats /\ x.player_info[FirstOf(mine)].user_id = u
    <3>1. FirstOf(mine) \in mine
      BY <1>4, FirstOfSeats DEF SeatsOf
    <3> QED BY <3>1 DEF SeatsOf
  <2>2. Occupied(x, no) /\ (u # NoUser => x.player_info[no].user_id = u)
    <3> HIDE DEF x, u
    <3>1. CASE u # NoUser
      <4>1. Occupied(x, FirstOf(mine))
        BY <2>1, <3>1 DEF Occupied
      <4>2. no = FirstOf(mine)
        BY <1>3, <2>1, <4>1 DEF RoomOK, NumbersAreSeats
      <4> QED BY <2>1, <4>1, <4>2
    <3>2. CASE u = NoUser
      <4>1. ~Occupied(x, FirstOf(mine))
        BY <2>1, <3>2 DEF Occupied
      <4>2. no = 0
        BY <1>3, <2>1, <4>1 DEF RoomOK, NumbersAreSeats
      <4>3. Occupied(x, 0)
        BY <1>3, <1>4 DEF RoomOK, HostedUntilReset, IInv, RoomsInv
      <4> QED BY <3>2, <4>2, <4>3
    <3> QED BY <3>1, <3>2
  <2>3. /\ room' = [room EXCEPT ![r] = y] /\ Goto(w, "unbind")
        /\ UNCHANGED <<users, next_user, answered, closes, crashed>>
    BY <1>4, <1>10, <2>2 DEF CloseLeave
  <2>4. no \in Seats
    BY <2>2 DEF Occupied
  <2> HIDE DEF x, u, no
  <2>5. /\ y.status # "GAME" /\ Players(y) \subseteq Players(x) \ {x.player_info[no].user_id}
        /\ Players(y) \subseteq Online /\ Apart(y)
    BY <1>3, <1>6, <2>2, <2>4, LeaveSeats
  <2> HIDE DEF y
  <2>6. Players(y) \subseteq Online \ {u}
    BY <2>2, <2>5 DEF Players
  <2>7. Fits(y, Online \ {u}, {})
    BY <2>5, <2>6, NoGameFits
  <2> QED BY <1>8, <2>3, <2>5, <2>7
<1> QED BY <1>9, <1>10

\* RemoveUser takes away the user who counts as gone, and nobody else.
LEMMA CloseUnbindSerial ==
  ASSUME IInv, OneWorker, SerialInv, NEW w \in Workers, CloseUnbind(w)
  PROVE  SerialInv'
<1> DEFINE u == task[w].u
           s == task[w].s
<1>1. /\ task[w].op = "Close" /\ task[w].pc = "unbind" /\ Workers = {w}
      /\ TaskFits(task[w]) /\ task'[w] = Idle /\ users' = [users EXCEPT ![s] = NoUser]
      /\ UNCHANGED <<rooms, room, next_user, answered, closes, crashed>>
  BY DEF CloseUnbind, At, Finish, SerialInv, TasksSerial, OneWorker, IInv, TasksInv
<1>2. u = users[s] /\ s \in Sessions
  BY <1>1 DEF TaskFits
<1>3. users'[s] = NoUser /\ \A v \in Sessions \ {s} : users'[v] = users[v]
  BY <1>1, <1>2 DEF IInv, SessionsInv
<1>4. TasksSerial'
  BY <1>1 DEF TasksSerial, TaskFits, Idle, SeatOps
<1>5. SessionsSerial'
  <2>1. OneSessionPerUser'
    BY <1>3 DEF SerialInv, SessionsSerial, OneSessionPerUser
  <2>2. Known'
    <3>1. NoUser < next_user
      BY ServerAssumption DEF IInv, SessionsInv, NoUser
    <3> QED BY <1>1, <1>3, <3>1 DEF SerialInv, SessionsSerial, Known
  <2>3. Closing'
    BY <1>1, <1>3 DEF SerialInv, SessionsSerial, Closing
  <2> QED BY <1>1, <2>1, <2>2, <2>3 DEF SerialInv, SessionsSerial
<1>6. Online' = Online \ {u}
  BY <1>2, <1>3 DEF Online, SerialInv, SessionsSerial, OneSessionPerUser
<1>7. Leaving = {u} /\ Leaving' = {} /\ Returning = {} /\ Returning' = {}
  BY <1>1, Solo DEF LeavingOf, ReturningOf, Idle
<1>8. Present' = Present
  BY <1>6, <1>7 DEF Present
<1>9. RoomsSerial'
  <2>1. \A q : NoUser \notin Players(room[q])
    BY DEF Players
  <2> QED BY <1>1, <1>7, <1>8, <2>1, StrangerSerial DEF SerialInv
<1> QED BY <1>4, <1>5, <1>9 DEF SerialInv

------------------------------------------------------------------------------
(* Requests and events begin *)

\* A worker takes something up that changes neither users nor rooms.
LEMMA BeginSerial ==
  ASSUME IInv, OneWorker, SerialInv, NEW w \in Workers, task[w] = Idle,
         UNCHANGED <<users, rooms, room, crashed>>,
         TasksSerial', Known', Closing',
         Returning' = {},
         \/ Leaving' = {}
         \/ \E u : Leaving' = {u} /\ \A q \in RoomIds : u \notin Players(room[q])
  PROVE  SerialInv'
<1>1. SessionsSerial'
  BY DEF SerialInv, SessionsSerial, OneSessionPerUser
<1>2. Present = Online /\ Returning = {} /\ Online' = Online
  BY Solo DEF LeavingOf, ReturningOf, Idle, Present, Online
<1>3. PICK u : Leaving' \subseteq {u} /\ \A q \in RoomIds : u \notin Players(room[q])
  <2>1. \A q : NoUser \notin Players(room[q])
    BY DEF Players
  <2> QED BY <2>1
<1>4. Present' = Online \ Leaving'
  BY <1>2 DEF Present
<1>5. RoomsSerial'
  BY <1>2, <1>3, <1>4, StrangerSerial DEF SerialInv
<1> QED BY <1>1, <1>5 DEF SerialInv

\* Requests of a session that is open and bound, by a worker that is free.
LEMMA RequestSerial ==
  ASSUME IInv, OneWorker, SerialInv, NEW w \in Workers, Request(w)
  PROVE  SerialInv'
<1>0. /\ Workers = {w} /\ task \in [Workers -> Task] /\ Idle \in Task
      /\ Known /\ OneSessionPerUser
      /\ next_user \in 1 .. MaxUser + 1
      /\ users \in [Sessions -> Users \union {NoUser}]
      /\ closes \in [Sessions -> 0 .. MaxClose]
  BY IdleOK DEF OneWorker, IInv, TasksInv, SessionsInv, TaskOK, SerialInv, SessionsSerial
\* Requests do not touch the sessions: nobody is closing meanwhile.
<1>1. ASSUME task[w] = Idle, UNCHANGED <<users, closes>> PROVE Closing'
  BY <1>0, <1>1 DEF SerialInv, SessionsSerial, Closing, Idle
<1>2. ASSUME NEW s \in Sessions, SeatRequest(w, s) PROVE SerialInv'
  <2>1. PICK op \in Requests, r \in rooms, no \in Seats :
         \E index \in IF op \in {"MenuSwitch", "MenuChoose"}
                      THEN {"START_GAME", "MAP_EDIT"} ELSE {"NONE"},
            frame \in IF op = "GameFrame" THEN 0 .. MaxFrame ELSE {0} :
              Start(w, [op |-> op, pc |-> "apply", s |-> s, u |-> users[s], r |-> r,
                        no |-> no, index |-> index, frame |-> frame])
    BY <1>2 DEF SeatRequest
  <2>2. PICK index, frame :
          Start(w, [op |-> op, pc |-> "apply", s |-> s, u |-> users[s], r |-> r,
                    no |-> no, index |-> index, frame |-> frame])
    BY <2>1
  <2>3. /\ task[w] = Idle /\ task'[w].op = op /\ task'[w].s = s /\ task'[w].u = users[s]
        /\ op \in SeatOps
    BY <1>0, <2>2, ServerAssumption DEF Start
  <2>4. /\ users[s] # NoUser /\ closes[s] = 0
        /\ UNCHANGED <<users, rooms, room, next_room, next_user, answered, closes, crashed>>
    BY <1>2 DEF SeatRequest, MaySend
  <2>5. op \notin {"Idle", "Login", "Close", "CreateRoom", "JoinRoom"}
    BY <2>3 DEF SeatOps
  <2>6. TasksSerial'
    BY <1>0, <2>3, <2>4, <2>5 DEF TasksSerial, TaskFits, Known
  <2>7. Leaving' = {} /\ Returning' = {}
    BY <2>3, <2>5, Solo DEF LeavingOf, ReturningOf
  <2>8. Known' /\ Closing'
    BY <1>0, <1>1, <2>3, <2>4 DEF Known
  <2> QED BY <2>3, <2>4, <2>6, <2>7, <2>8, BeginSerial
<1>3. ASSUME NEW s \in Sessions, HallRequest(w, s) PROVE SerialInv'
  <2>1. PICK h \in {<<"CreateRoom", 0>>} \union ({"JoinRoom"} \X rooms) :
          Start(w, [Idle EXCEPT !.op = h[1], !.pc = "apply", !.s = s,
                                !.u = users[s], !.r = h[2]])
    BY <1>3 DEF HallRequest
  <2> DEFINE t == [Idle EXCEPT !.op = h[1], !.pc = "apply", !.s = s,
                               !.u = users[s], !.r = h[2]]
  <2>2. t.op = h[1] /\ t.s = s /\ t.u = users[s] /\ h[1] \in {"CreateRoom", "JoinRoom"}
    <3>1. h[1] \in {"CreateRoom", "JoinRoom"}
      BY <2>1
    <3>2. ASSUME NEW a, NEW b, NEW u
          PROVE  LET z == [Idle EXCEPT !.op = a, !.pc = "apply", !.s = s, !.u = u, !.r = b]
                 IN  z.op = a /\ z.s = s /\ z.u = u
      BY <1>0, ZenonT(30) DEF Task
    <3>3. t.op = h[1] /\ t.s = s /\ t.u = users[s]
      BY <3>2
    <3> QED BY <3>1, <3>3
  <2>3. task[w] = Idle /\ task'[w] = t
    BY <1>0, <2>1 DEF Start
  <2> HIDE DEF t
  <2>4. /\ users[s] # NoUser /\ closes[s] = 0 /\ UserRooms(users[s]) = {}
        /\ UNCHANGED <<users, rooms, room, next_room, next_user, answered, closes, crashed>>
    BY <1>3 DEF HallRequest, MaySend
  <2>5. TasksSerial'
    <3>1. (UserRooms(task[w].u))' = UserRooms(users[s])
      BY <2>2, <2>3, <2>4 DEF UserRooms
    <3>2. h[1] \notin SeatOps \union {"Idle", "Login", "Close"}
      BY <2>2 DEF SeatOps
    <3> QED BY <1>0, <2>2, <2>3, <2>4, <3>1, <3>2 DEF TasksSerial, TaskFits, Known
  <2>6. Leaving' = {} /\ Returning' = {}
    BY <2>2, <2>3, Solo DEF LeavingOf, ReturningOf
  <2>7. Known' /\ Closing'
    BY <1>0, <1>1, <2>3, <2>4 DEF Known
  <2> QED BY <2>3, <2>4, <2>5, <2>6, <2>7, BeginSerial
<1>4. ASSUME NEW s \in Sessions, LoginRequest(w, s) PROVE SerialInv'
  <2>1. PICK u \in answered \union {NoUser} :
          /\ ~LoginRefused(s, u)
          /\ Start(w, [Idle EXCEPT !.op = "Login", !.pc = "bind", !.s = s,
                                   !.u = LoginUser(s, u)])
          /\ next_user' = IF LoginUser(s, u) = next_user THEN next_user + 1
                                                         ELSE next_user
    BY <1>4 DEF LoginRequest
  <2> DEFINE v == LoginUser(s, u)
             t == [Idle EXCEPT !.op = "Login", !.pc = "bind", !.s = s, !.u = v]
  <2>2. t.op = "Login" /\ t.pc = "bind" /\ t.s = s /\ t.u = v
    <3> HIDE DEF v
    <3> QED BY <1>0, ZenonT(30) DEF Task
  <2>3. task[w] = Idle /\ task'[w] = t
    BY <1>0, <2>1 DEF Start
  <2>4. /\ closes[s] = 0
        /\ UNCHANGED <<users, rooms, room, next_room, answered, closes, crashed>>
    BY <1>4 DEF LoginRequest, MaySend
  \* The user is the session's own, a new one, or one that nobody is bound to.
  <2>5. /\ v # NoUser /\ v < next_user' /\ next_user <= next_user'
        /\ \A q \in Sessions : users[q] = v => q = s
        /\ users[s] \in {v, NoUser}
    <3>0. next_user \in Nat /\ next_user > NoUser /\ answered \subseteq Users
      BY <1>0, ServerAssumption DEF NoUser, IInv, SessionsInv
    <3>1. CASE users[s] # NoUser /\ u # users[s]
      <4>1. v = users[s]
        BY <3>1 DEF LoginUser
      <4> HIDE DEF v
      <4> QED BY <1>0, <2>1, <3>0, <3>1, <4>1, ServerAssumption DEF Known, OneSessionPerUser, Users, v
    <3>2. CASE ~(users[s] # NoUser /\ u # users[s]) /\ u = NoUser
      <4>1. v = next_user /\ users[s] = NoUser
        BY <3>2 DEF LoginUser
      <4>2. next_user' = next_user + 1
        BY <2>1, <4>1
      <4> HIDE DEF v
      <4> QED BY <1>0, <3>0, <4>1, <4>2, ServerAssumption DEF Known, Users
    <3>3. CASE ~(users[s] # NoUser /\ u # users[s]) /\ u # NoUser
      <4>1. v = u
        BY <3>3 DEF LoginUser
      <4>2. u \notin Online
        BY <2>1, <3>3, <4>1 DEF LoginRefused
      <4>3. \A q \in Sessions : users[q] # u
        BY <3>3, <4>2 DEF Online
      <4>4. users[s] = NoUser
        BY <3>3, <4>3
      <4>5. u < next_user /\ next_user' = next_user
        BY <1>0, <2>1, <3>0, <3>3, <4>1, ServerAssumption DEF Known, Users
      <4> HIDE DEF v
      <4> QED BY <3>3, <4>1, <4>3, <4>4, <4>5, <3>0
    <3> QED BY <3>1, <3>2, <3>3
  <2> HIDE DEF v, t
  <2>6. TasksSerial'
    <3>1. "Login" \notin SeatOps
      BY DEF SeatOps
    <3> QED BY <1>0, <2>2, <2>3, <2>4, <2>5, <3>1 DEF TasksSerial, TaskFits
  <2>7. Leaving' = {} /\ Returning' = {}
    BY <2>2, <2>3, Solo DEF LeavingOf, ReturningOf
  <2>8. Closing'
    BY <1>1, <2>3, <2>4
  <2>9. Known'
    <3>1. next_user \in Nat /\ next_user' \in Nat
      BY <1>0, <2>1, ServerAssumption
    <3>2. \A q \in Sessions : users[q] \in Nat
      BY <1>0 DEF Users, NoUser
    <3>3. answered \subseteq Nat
      BY ServerAssumption DEF IInv, SessionsInv, Users
    <3> QED BY <1>0, <2>4, <2>5, <3>1, <3>2, <3>3 DEF Known
  <2> QED BY <2>3, <2>4, <2>6, <2>7, <2>8, <2>9, BeginSerial
<1>5. ASSUME NEW s \in Sessions, CloseStart(w, s) PROVE SerialInv'
  <2> DEFINE u == users[s]
             c == [Idle EXCEPT !.op = "Close", !.s = s, !.u = u]
  <2>1. c \in Task /\ c.op = "Close" /\ c.s = s /\ c.u = u
    <3>1. s \in Sessions \union {NoSession} /\ u \in Users \union {NoUser}
      BY <1>0
    <3> HIDE DEF u
    <3> QED BY <1>0, <3>1, ZenonT(30) DEF Task
  <2>2. /\ closes' = [closes EXCEPT ![s] = @ + 1]
        /\ UNCHANGED <<users, rooms, room, next_room, next_user, answered, crashed>>
        /\ \/ UserRooms(u) = {} /\ Start(w, [c EXCEPT !.pc = "unbind"])
           \/ \E r \in UserRooms(u) : Start(w, [c EXCEPT !.pc = "apply", !.r = r])
    BY <1>5, Zenon DEF CloseStart
  <2> HIDE DEF c
  <2>3. /\ task[w] = Idle /\ task'[w].op = "Close" /\ task'[w].s = s /\ task'[w].u = u
        /\ \/ task'[w].pc = "unbind" /\ UserRooms(u) = {}
           \/ task'[w].pc = "apply" /\ task'[w].r \in UserRooms(u)
    <3>1. CASE UserRooms(u) = {} /\ Start(w, [c EXCEPT !.pc = "unbind"])
      <4> DEFINE t == [c EXCEPT !.pc = "unbind"]
      <4>1. t.op = "Close" /\ t.s = s /\ t.u = u /\ t.pc = "unbind"
        BY <2>1, ZenonT(30) DEF Task
      <4>2. task[w] = Idle /\ task'[w] = t
        BY <1>0, <3>1 DEF Start
      <4> HIDE DEF t
      <4> QED BY <3>1, <4>1, <4>2
    <3>2. ASSUME NEW r \in UserRooms(u), Start(w, [c EXCEPT !.pc = "apply", !.r = r])
          PROVE  /\ task[w] = Idle /\ task'[w].op = "Close" /\ task'[w].s = s
                 /\ task'[w].u = u /\ task'[w].pc = "apply" /\ task'[w].r \in UserRooms(u)
      <4> DEFINE t == [c EXCEPT !.pc = "apply", !.r = r]
      <4>1. t.op = "Close" /\ t.s = s /\ t.u = u /\ t.pc = "apply" /\ t.r = r
        BY <2>1, ZenonT(30) DEF Task
      <4>2. task[w] = Idle /\ task'[w] = t
        BY <1>0, <3>2 DEF Start
      <4> HIDE DEF t
      <4> QED BY <4>1, <4>2
    <3> QED BY <2>2, <3>1, <3>2
  <2>4. TasksSerial'
    <3>1. (UserRooms(task[w].u))' = UserRooms(u)
      BY <2>2, <2>3 DEF UserRooms
    <3>2. "Close" \notin SeatOps
      BY DEF SeatOps
    <3> QED BY <1>0, <2>2, <2>3, <3>1, <3>2 DEF TasksSerial, TaskFits, Known
  <2>5. Closing'
    <3>1. \A q \in Sessions \ {s} : closes'[q] = closes[q]
      BY <1>0, <2>2
    <3>2. \A q \in Sessions \ {s} : closes[q] > 0 => users[q] = NoUser
      BY <1>0, <2>3 DEF SerialInv, SessionsSerial, Closing, Idle
    <3> QED BY <1>0, <2>2, <2>3, <3>1, <3>2 DEF Closing
  <2>6. Known'
    BY <1>0, <2>2 DEF Known
  <2>7. /\ Returning' = {}
        /\ \/ Leaving' = {}
           \/ Leaving' = {u} /\ UserRooms(u) = {}
    BY <2>3, Solo DEF LeavingOf, ReturningOf
  <2>8. UserRooms(u) = {} => \A q \in RoomIds : u \notin Players(room[q])
    <3>1. CASE u = NoUser
      BY <3>1 DEF Players
    <3>2. CASE u # NoUser
      BY <3>2, NoRoomFor
    <3> QED BY <3>1, <3>2
  <2> QED BY <2>2, <2>3, <2>4, <2>5, <2>6, <2>7, <2>8, BeginSerial
<1> QED BY <1>2, <1>3, <1>4, <1>5 DEF Request

------------------------------------------------------------------------------
(* The frame thread *)

\* Frames run on between the stages of a handler and move nobody.
LEMMA FrameThreadSerial ==
  ASSUME IInv, SerialInv, FrameThread
  PROVE  SerialInv'
<1>1. PICK r \in RoomIds : TimerExpires(r) \/ FrameTick(r)
  BY DEF FrameThread
<1> DEFINE x == room[r]
<1>2. RoomOK(x) /\ room \in [RoomIds -> RoomType] /\ rooms \subseteq RoomIds
  BY DEF IInv, RoomsInv
<1>3. UNCHANGED <<users, rooms, next_user, answered, closes, task, crashed>>
  BY <1>1 DEF TimerExpires, FrameTick
<1>4. PICK y : room' = [room EXCEPT ![r] = y] /\ PresenceKept(x, y)
  <2>1. CASE TimerExpires(r)
    <3> DEFINE z == [x EXCEPT !.armed = FALSE, !.queued = TRUE]
    <3>1. room' = [room EXCEPT ![r] = z]
      BY <1>2, <2>1, Zenon DEF TimerExpires
    <3>2. PresenceKept(x, z)
      BY <1>2, ExpiredOK, Zenon
    <3> HIDE DEF x, z
    <3> QED BY <3>1, <3>2
  <2>2. CASE FrameTick(r)
    <3>1. PICK late \in BOOLEAN :
            room' = [room EXCEPT ![r] = OnGameFrameSync([@ EXCEPT !.queued = FALSE], late)]
      BY <2>2 DEF FrameTick
    <3> DEFINE z == OnGameFrameSync([x EXCEPT !.queued = FALSE], late)
    <3>2. room' = [room EXCEPT ![r] = z]
      BY <1>2, <3>1, Zenon
    <3>3. PresenceKept(x, z)
      BY <1>2, <2>2, TickOK, Zenon DEF FrameTick
    <3> HIDE DEF x, z
    <3> QED BY <3>2, <3>3
  <2> QED BY <1>1, <2>1, <2>2
<1> HIDE DEF x
<1>5. \A q \in RoomIds : PresenceKept(room[q], room'[q])
  BY <1>2, <1>4 DEF PresenceKept, SeatsKept, x
<1>6. Present' = Present /\ Returning' = Returning
  BY <1>3 DEF Present, Online, Leaving, Returning, LeavingOf, ReturningOf
<1>7. RoomsSerial'
  <2>1. \A q \in RoomIds : /\ Players(room'[q]) = Players(room[q])
                           /\ Apart(room[q]) => Apart(room'[q])
    BY <1>5, KeptPlayers DEF PresenceKept
  <2>2. \A q \in RoomIds : Fits(room[q], Present, Returning)
                             => Fits(room'[q], Present, Returning)
    BY <1>5, KeptFits
  <2> QED BY <1>6, <2>1, <2>2 DEF SerialInv, RoomsSerial, Seating, Presence
<1>8. TasksSerial'
  <2>1. ASSUME NEW u PROVE (UserRooms(u))' = UserRooms(u)
    BY <1>2, <1>3, <1>5 DEF UserRooms, SeatsOf, PresenceKept, SeatsKept
  <2> QED BY <1>3, <2>1 DEF SerialInv, TasksSerial, TaskFits
<1>9. SessionsSerial'
  BY <1>3 DEF SerialInv, SessionsSerial, OneSessionPerUser, Known, Closing
<1> QED BY <1>7, <1>8, <1>9 DEF SerialInv

------------------------------------------------------------------------------
(* The theorems *)

\* At the start nobody is bound, and no room has a player.
LEMMA InitSerial == Init => SerialInv
<1> SUFFICES ASSUME Init PROVE SerialInv
  OBVIOUS
<1>0. IInv
  BY InitInv
<1>1. /\ users = [s \in Sessions |-> NoUser] /\ closes = [s \in Sessions |-> 0]
      /\ next_user = 1 /\ answered = {} /\ ~crashed
      /\ \A w \in Workers : task[w].op = "Idle"
  BY DEF Init, Idle
<1>2. SessionsSerial
  BY <1>1 DEF SessionsSerial, OneSessionPerUser, Known, Closing, NoUser
<1>3. TasksSerial
  BY <1>1 DEF TasksSerial, TaskFits, SeatOps
<1>4. ASSUME NEW r \in RoomIds
      PROVE  Players(room[r]) = {} /\ Apart(room[r]) /\ room[r].status # "GAME"
  <2>1. RoomOK(room[r]) /\ room[r].status = "NULL"
    BY <1>0 DEF IInv, RoomsInv, Init, NewRoom
  <2> QED BY <2>1, NobodyInNull
<1>5. RoomsSerial
  BY <1>4, NoGameFits DEF RoomsSerial, Seating, Presence
<1> QED BY <1>2, <1>3, <1>5 DEF SerialInv

\* Every step of a server with one worker keeps the invariant.
LEMMA NextSerial ==
  ASSUME OneWorker, IInv, SerialInv, [Next]_vars
  PROVE  SerialInv'
<1>1. ASSUME NEW w \in Workers, Worker(w) PROVE SerialInv'
  <2>1. CASE Request(w)
    BY <2>1, RequestSerial
  <2>2. CASE SeatHandler(w)
    BY <2>2, SeatHandlerSerial
  <2>3. CASE HallHandler(w)
    BY <2>3, HallHandlerSerial
  <2>4. CASE LoginHandler(w)
    BY <2>4, LoginBindSerial, LoginRestSerial DEF LoginHandler
  <2>5. CASE CloseHandler(w)
    BY <2>5, CloseRoomSerial, CloseUnbindSerial DEF CloseHandler
  <2> QED BY <1>1, <2>1, <2>2, <2>3, <2>4, <2>5 DEF Worker
<1>2. CASE FrameThread
  BY <1>2, FrameThreadSerial
<1>3. CASE UNCHANGED vars
  <2>1. UNCHANGED <<users, rooms, room, next_user, answered, closes, task, crashed>>
    BY <1>3 DEF vars
  <2>2. SessionsSerial'
    BY <2>1 DEF SerialInv, SessionsSerial, OneSessionPerUser, Known, Closing
  <2>3. TasksSerial'
    BY <2>1 DEF SerialInv, TasksSerial, TaskFits, UserRooms
  <2>4. RoomsSerial'
    <3>1. Present' = Present /\ Returning' = Returning
      BY <2>1 DEF Present, Online, Leaving, Returning, LeavingOf, ReturningOf
    <3> QED BY <2>1, <3>1 DEF SerialInv, RoomsSerial, Seating, Presence
  <2> QED BY <2>2, <2>3, <2>4 DEF SerialInv
<1> QED BY <1>1, <1>2, <1>3 DEF Next

\* Sessions, rooms and the running handler fit each other in every state of a
\* server whose handlers run one at a time.
THEOREM SerialInvariance ==
  ASSUME OneWorker
  PROVE  Spec => [](IInv /\ SerialInv)
<1>1. Init => SerialInv
  BY InitSerial
<1>2. IInv /\ SerialInv /\ [Next]_vars => SerialInv'
  BY NextSerial
<1> QED BY <1>1, <1>2, Invariance, PTL DEF Spec

\* A user is never bound to two sessions (LoginRefused, AddUser, RemoveUser).
THEOREM OneSessionPerUserThm ==
  ASSUME OneWorker
  PROVE  Spec => []OneSessionPerUser
<1>1. SerialInv => OneSessionPerUser
  BY DEF SerialInv, SessionsSerial
<1> QED BY <1>1, SerialInvariance, PTL

\* When the close handler is over, the closed session has no user.
THEOREM ClosedIsUnboundThm ==
  ASSUME OneWorker
  PROVE  Spec => []ClosedIsUnbound
<1>1. SerialInv => ClosedIsUnbound
  BY DEF SerialInv, SessionsSerial, Closing, ClosedIsUnbound, Quiet, Idle
<1> QED BY <1>1, SerialInvariance, PTL

\* OnSocketClose always finds the player it looks for.
THEOREM NeverCrashedThm ==
  ASSUME OneWorker
  PROVE  Spec => []NeverCrashed
<1>1. SerialInv => NeverCrashed
  BY DEF SerialInv, SessionsSerial, NeverCrashed
<1> QED BY <1>1, SerialInvariance, PTL

\* Between handlers nobody is leaving or coming back.
LEMMA QuietPresence ==
  ASSUME IInv, SerialInv, Quiet
  PROVE  \A r \in rooms : Fits(room[r], Online, {})
<1>1. \A w \in Workers : LeavingOf(task[w]) = {} /\ ReturningOf(task[w]) = {}
  BY DEF Quiet, Idle, LeavingOf, ReturningOf
<1>2. Leaving = {} /\ Returning = {}
  BY <1>1 DEF Leaving, Returning
<1>3. Present = Online
  BY <1>2 DEF Present
<1> QED BY <1>2, <1>3 DEF IInv, RoomsInv, SerialInv, RoomsSerial, Presence

\* Whoever has a seat outside a resumable game is connected: CloseLeave has
\* taken the others out and LeaveRoom has dissolved the rooms of nobody.
THEOREM SeatedAreOnlineThm ==
  ASSUME OneWorker
  PROVE  Spec => []SeatedAreOnline
<1>1. IInv /\ SerialInv => SeatedAreOnline
  BY QuietPresence DEF SeatedAreOnline, Fits, Players, Occupied
<1> QED BY <1>1, SerialInvariance, PTL

\* A resumable game is paused exactly while all its players are away: the
\* last close pauses it, and the first login resumes it.
THEOREM PauseTracksPresenceThm ==
  ASSUME OneWorker
  PROVE  Spec => []PauseTracksPresence
<1>1. IInv /\ SerialInv => PauseTracksPresence
  BY QuietPresence, SomeoneIs DEF PauseTracksPresence, Fits
<1> QED BY <1>1, SerialInvariance, PTL
==============================================================================
